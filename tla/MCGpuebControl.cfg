SPECIFICATION ControlSpec
CONSTANTS
    Channels = {"freq"}
    Replies <- MCReplies
    Callers = {"parent_task", "consumer"}
    Parent = "parent_task"
    MaxPosts = 1
    MaxSends = 1
INVARIANTS
    PowerIsHeld
    MutexBracketsPrepare
    FailureIsRetained
    ResetOverQuarantine
PROPERTY ControlReturns
