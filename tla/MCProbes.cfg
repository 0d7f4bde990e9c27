SPECIFICATION Spec
CONSTANTS
    t1 = t1
    t2 = t2
    s1 = s1
    s2 = s2
    Threads <- MCThreads
    Pid <- MCPid
    Socks <- MCSocks
    FilePos <- MCFilePos
    MaxEntries = 2
    Width = 16
    Inherit = TRUE
    MaxTime = 2
SYMMETRY SockSymmetry
INVARIANTS
    NeverOverstated
    MeasuredSocketIsOwn
    NoLeak
