SPECIFICATION PowerSpec
CONSTANTS
    Profiles = {"adopt", "first_off", "restart", "real_boot"}
    Errnos = {"EIO", "EPROBE_DEFER"}
INVARIANTS
    OpenBusIsPowered
    HalfwayIsLatched
PROPERTY FaultFreezes
\* A modem that failed, or runs, stays as it is until the next boot.
CHECK_DEADLOCK FALSE
