CONSTANTS
    a = a
    b = b
    c = c
    d = d
    f1 = f1
    f2 = f2
    w1 = w1
    None = None
    N = 2
    Items <- AllItems
    Roots <- UserRoots
    Spawn <- OneFollowUp
    StoreBuffer = TRUE
    Machines = {"ordered", "buffered", "windows", "inline", "used", "threaded", "steady"}
SPECIFICATION MCSpec
INVARIANTS Consistent NoMissedWakeupOrdered ShutdownDrains FlagsConsistent InterestArmed FreshDispatch RingIsAnnounced
PROPERTIES RunsWhileOpen ShutdownReturns Delivered
