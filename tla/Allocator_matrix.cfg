SPECIFICATION IngestionSpec
CONSTANTS
    Schedules <- AllSchedules
    FilterModes = {"none", "include"}
    Overrides = {0, 3}
    GivenClients = {0, 2}
    HostConfigs <- Hosts
    DocumentSets <- Corpora
    BulkSize = 2
    IngestPercentage = 100
    OffsetStride = 2
    MaxRestarts = 2
CONSTRAINT Focused
INVARIANTS
    
    EachClientOnOneWorker
    PreparedIsComplete
    DocumentsSentOnce
CHECK_DEADLOCK FALSE
