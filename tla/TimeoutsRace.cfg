CONSTANTS
    Fdes = {f1, f2}
    Workers = {w1}
    Io = Io
    Evs = {e1, e2}
    None = None
SPECIFICATION Spec
INVARIANTS TimerCoversTimeouts
