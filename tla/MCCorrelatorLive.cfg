SPECIFICATION FairSpec
CONSTANTS
    w1 = w1
    w2 = w2
    zero = zero
    empty = empty
    h1 = h1
    Workers <- MCWorkers
    Pids = {1}
    Endpoints <- MCEndpoints
    Events <- LiveEvents
    ZeroID = zero
    EmptyID = empty
    HeaderIDs = {h1}
    maxInflight = 1
    Timeout = 0
    CtrMod = 8
    MaxEvents = 2
PROPERTIES
    PendingReported
    WorkersReturn
    IdleFlowSwept
