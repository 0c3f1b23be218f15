CONSTANTS
    Producers = {p1, p2}
    PerProducer = 1
    MaxStarts = 1
    InFlight = TRUE
    Timeout = TRUE
    Weak = FALSE
SPECIFICATION Spec
INVARIANT StopDrains
CHECK_DEADLOCK FALSE
