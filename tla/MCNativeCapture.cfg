CONSTANTS
    Tags = {"raw", "pdaf"}
    Groups <- MCGroups
    Sequences <- MCSequences
    Faults = {"ETIMEDOUT"}
    Lines = {"done", "err", "sof", "cq"}
SPECIFICATION Spec
INVARIANTS
    UndischargedIsReported
PROPERTIES
    ResetAfterDrain
    NothingStartsAfterStop
    StopReturnsBuffers
