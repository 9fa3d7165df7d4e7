SPECIFICATION Spec
CONSTANTS
    Builds = {"a", "b", "c"}
    Nodes <- TwoCommands
    Source <- Readers
    Text <- Full
    Delta <- Changed
    Grown <- Longer
    Vectors <- Meaning
    Budget = 12
    MaxWeight = 2
    ShardMax = 2
    LargeParallelism = 5
    BatchRows = 2
    Workers = 3
    FaultKinds = {"read", "binary", "builder", "model", "interrupt"}
    MaxFaults = 1
INVARIANTS
    TypeOK
    WeightsReturned
    NoReadWaitsForever
