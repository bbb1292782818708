CONSTANTS
    Tags = {"raw", "pdaf"}
    Groups <- MCGroups
    Sequences <- MCSequences
    Faults = {"EIO", "ETIMEDOUT"}
SPECIFICATION DirectSpec
INVARIANTS
    DirectTypeOK
    EngineOwnsMemory
    DoneIsQuiescedFrame
PROPERTIES
    LoanKept
