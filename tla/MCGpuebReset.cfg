SPECIFICATION ResetSpec
CONSTANTS
    Channels = {"freq", "event"}
    Replies <- MCReplies
    a = a
    b = b
    Callers = {a, b}
    MaxPosts = 2
    MaxSends = 2
SYMMETRY MCSymmetry
\* A scope that is retained or freed stays as it is.
CHECK_DEADLOCK FALSE
INVARIANTS
    AccessIsOwned
    ResetIsQuiet
    ExposedIsRetained
    FaultIsContained
    NothingDiscarded
    OneRequestAtATime
    FreedIsQuiet
