SPECIFICATION FairSpec
CONSTANTS
    w1 = w1
    w2 = w2
    loop = loop
    Workers <- MCWorkers
    Loop = loop
    RingSize = 2
    ChanSize = 1
    MaxEvents = 3
    MaxErrors = 1
CHECK_DEADLOCK FALSE
INVARIANTS
    EventInOnePlace
    KernelOrder
    CountersAgree
PROPERTIES
    StopSafeWhenEmptyHanded
    EventsHandled
    GoroutinesExit
