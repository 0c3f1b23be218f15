CONSTANTS
    Fds = {f1}
    Dirs = {"r"}
    Multishot = FALSE
    Ktls = FALSE
    Threaded = FALSE
    RingCap = 2
    CqCap = 2
    Workers = TRUE
    Timed = TRUE
    SqFull = FALSE
    Again = TRUE
    Outlive = TRUE
    GenMod = 8
    MaxFile = 2
SPECIFICATION Spec
INVARIANT InboxSimple
