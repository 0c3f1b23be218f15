CONSTANTS
    Items = {i1, i2, i3}
    Thieves = {w1, w2}
    InitCap = 1
    NULL = NULL
    Garbage = Garbage
    SingleLoad = FALSE
SPECIFICATION Spec
INVARIANT RunAtMostOnce
