SPECIFICATION Spec

CONSTANTS
    a = a
    c1 = c1
    c2 = c2
    Files = {a}
    Commands = {c1, c2}
    MaxVersion = 2
    MaxMoves = 2
    FaultKinds = {"crash", "disk", "read", "damage"}
    MaxFaults = 1

INVARIANTS
    StateDescribesFamily

PROPERTIES
    WarmIsNoOlder
    Converges
