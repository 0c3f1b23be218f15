CONSTANTS
    Fdes = {f1}
    Kinds = {"r", "w"}
    Registers = {TRUE, FALSE}
    Workers = {}
    None = None
    EventsMax = 1
    RingCap = 1
    MaxGen = 0
    FiniteDelay = TRUE
    MayThread = FALSE
    MayStop = FALSE
SPECIFICATION Spec
INVARIANTS InterestArmed
