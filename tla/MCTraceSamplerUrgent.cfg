SPECIFICATION Spec
CONSTANTS
    c1 = c1
    c2 = c2
    t1 = t1
    none = none
    Callers <- MCCallers
    Traces = {t1}
    NoTrace = none
    Durations = {1, 6}
    Configs <- OneConfig
    InnerKinds = {"dynamic"}
    TargetEvents = 1
    WindowDuration = 1
    MaxTime = 1
    MaxCalls = 3
CHECK_DEADLOCK FALSE
SYMMETRY CallerSymmetry
INVARIANTS
    UrgentKept
