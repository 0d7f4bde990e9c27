SPECIFICATION FairSpec
CONSTANTS
    queueCapacity = 1
    batchSize = 2
    maxRetries = 1
    MaxSaves = 2
CHECK_DEADLOCK FALSE
PROPERTIES
    CloseReturns
