CONSTANTS
    None = None
    Core = Core
    m1 = m1
    f1 = f1
    f2 = f2
    f3 = f3
    Io = Io
    w1 = w1
    e1 = e1
    e2 = e2
SPECIFICATION Spec
INVARIANTS HeapSound TimeoutsCovered  LimitKept
PROPERTIES NothingDueLeft EventuallyHandled
