SPECIFICATION StartSpec
CONSTANTS
    Profiles = {"real_boot"}
    Errnos = {"EIO"}
    Callers = {"user", "service"}
    MaxQueue = 2
INVARIANT LocksAreOwned
PROPERTIES
    ReleaseIsSound
    StartResolves
\* A modem that failed, or runs, stays as it is until the next boot.
CHECK_DEADLOCK FALSE
