CONSTANTS
    Tags = {"raw", "pdaf"}
    Groups <- MCGroups
    Sequences <- MCSequences
    Faults = {"ETIMEDOUT"}
    Lines = {"done", "err"}
SPECIFICATION VideoSpec
INVARIANTS
    PowerCoversHardware
    HandlersHaveOwners
    RetiredIsQuiet
PROPERTIES
    SuccessorIsClean
    LoanKept
    LateDoneIsError
    PhyOffIsLast
    FrameWorkResolves
    OffReturns
