SPECIFICATION FairSpec
CONSTANTS
    queueCapacity = 2
    batchSize = 2
    maxRetries = 1
    MaxSaves = 4
CHECK_DEADLOCK FALSE
INVARIANTS
    NothingMislaid
    RowsMatchFate
PROPERTIES
    Delivers
    EventuallyDecided
    WriterStops
