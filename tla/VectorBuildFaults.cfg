CONSTANTS
    Windows <- SmallTree
    Anchors = {1}
    Live <- SomeGraphs
    ReadBudget = 3
    CPUs = 2
    CallCPUs = 1
    BatchRows = 2
    MaxShardRows = 2
    MinShardRows = 1
    FloorDivisor = 2
    AnchorDivisor = 2
    FaultKinds = {"read", "window", "model", "disk", "graph", "interrupt"}
    MaxFaults = 2
SPECIFICATION Spec
INVARIANTS TypeOK BuiltWhole CauseIsTold WeightsReturned
PROPERTIES Ends
