CONSTANTS
    Unused = Unused
    p1 = p1
    p2 = p2
    c1 = c1
    c2 = c2
    i3 = i3
    w2 = w2
    Items = {i1, i2, i3}
    Thieves = {w1, w2}
    InitCap = 1
    NULL = NULL
    Garbage = Garbage
    SingleLoad = TRUE
SPECIFICATION MCSpec
INVARIANTS RunAtMostOnce NullMeansEmpty IInv
INVARIANTS Fifo SlotsIntact AnswersExact MemoryOwned  LocksSound
PROPERTIES ImplementsAtomicDeque EveryItemRuns RefusalHonest EverythingArrives
CHECK_DEADLOCK FALSE
