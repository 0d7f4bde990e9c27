SPECIFICATION Spec
CONSTANTS
    c1 = c1
    c2 = c2
    empty = empty
    zero = zero
    EmptyID = empty
    ZeroID = zero
    Micros <- MCMicros
    Callers <- MCCallers
    Traces <- MCTraces
    maxCacheSize = 2
    Width = 3
    HotCount = 1
    Cost <- MCCost
    MaxCost = 2
CHECK_DEADLOCK FALSE
SYMMETRY CallerSymmetry
INVARIANTS
    TreeBelowRoot
    StoredTraceRootless
    SignatureIgnoresRowOrder
    CacheAccounts
    FlameFaithful
