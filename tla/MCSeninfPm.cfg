SPECIFICATION PmSpec
CONSTANT Parents <- MCParents
\* A receiver whose clean-up failed is left as it is.
CHECK_DEADLOCK FALSE
INVARIANTS CsiIsSupplied MuxRestored LedgerMatchesPm
