SPECIFICATION LiveSpec
CONSTANTS
    k1 = k1
    Keys <- MCKeys
    Durations = {0, 1, 8, 40}
    AlphaNum = 1
    AlphaDen = 7
    Deviation = 1
    MinSamples = 2
    Cooldown = 1
    CooldownKeep = 2
    StatsKeep = 2
    ChanCap = 2
    Enabled = TRUE
    MaxTime = 3
    MaxSamples = 4
CHECK_DEADLOCK FALSE
INVARIANTS
    CooldownRespected
PROPERTIES
    AlertsAreAnomalies
    AlertsPosted
