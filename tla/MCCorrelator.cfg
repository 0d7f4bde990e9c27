SPECIFICATION Spec
CONSTANTS
    w1 = w1
    w2 = w2
    zero = zero
    empty = empty
    h1 = h1
    Workers <- MCWorkers
    Pids = {1, 2}
    Endpoints <- MCEndpoints
    Events <- TrafficEvents
    ZeroID = zero
    EmptyID = empty
    HeaderIDs = {h1}
    maxInflight = 2
    Timeout = 0
    CtrMod = 8
    MaxEvents = 3
SYMMETRY WorkerSymmetry
INVARIANTS
    MatchedOnce
    SettledAtMostTwice
    GaugeAtRest
    NoSpanLost
    MatchedSharesTrace
    FIFOOrder
    MatchedInOrder
