CONSTANTS
    Unused = Unused
    Main = Main
    Sentinel = Sentinel
    t1 = t1
    t2 = t2
    t3 = t3
    w1 = w1
    w2 = w2
    p1 = p1
    p2 = p2
SPECIFICATION Spec
INVARIANTS Consistent DeliveredOnce WakeupNotLost StopLeavesNothing StreamsInOrder PartiesAttended
PROPERTIES EverythingDelivered
CHECK_DEADLOCK FALSE
