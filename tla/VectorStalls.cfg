CONSTANTS
    Windows <- EditedTree
    Anchors = {}
    Live = {}
    ReadBudget = 6
    CPUs = 1
    CallCPUs = 1
    BatchRows = 128
    MaxShardRows = 64
    MinShardRows = 1
    FloorDivisor = 2
    AnchorDivisor = 2
    FaultKinds = {}
    MaxFaults = 0
SPECIFICATION Spec
PROPERTIES NoReadWaitsForever
CHECK_DEADLOCK FALSE
