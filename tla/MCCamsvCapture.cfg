CONSTANTS
    Tags = {"raw", "pdaf"}
    Groups <- MCGroups
    Sequences <- MCSequences
    Faults = {"EIO"}
SPECIFICATION CaptureSpec
INVARIANTS
    DoneIsWholeFrame
    ErrorAfterReset
