SPECIFICATION Spec
CONSTANTS
    w1 = w1
    w2 = w2
    loop = loop
    Workers <- MCWorkers
    Loop = loop
    RingSize = 1
    ChanSize = 1
    MaxEvents = 2
    MaxErrors = 0
CHECK_DEADLOCK FALSE
INVARIANTS
    StopsCleanly
