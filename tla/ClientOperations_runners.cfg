SPECIFICATION Spec
CONSTANTS
    Operations <- AllOperations
    Jobs = {"j"}
    MaxOperations = 2
    MaxRequests = 6
    Streams <- SomeStreams
    Composites <- SomeComposites
    MaxConnections = 2
    Searches <- SomeSearches
    VectorTasks <- SomeVectorTasks
INVARIANTS
    
    TimingsReadable
    PriorStreamsFirst
    ConnectionsReturned
    AllPages
    VectorsIndexed
    NeighborsMatch
PROPERTIES
    CompositeEnds
CHECK_DEADLOCK FALSE
