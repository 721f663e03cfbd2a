SPECIFICATION Spec
CONSTANTS
    CheckFrequency = 2
    MaxExecutionCount = 2
    MaxSamples = 1
    Clusters <- MCClusters
    Nodes <- MCNodes
    Scenarios <- MCScenarios
INVARIANTS
    RecordsKept
    QuietAtHandover
    
    
