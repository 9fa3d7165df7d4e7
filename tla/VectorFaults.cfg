CONSTANTS
    b1 = b1  b2 = b2  v1 = v1  v2 = v2
    Blobs = {b1, b2}
    Content <- TwoCommits
    Commands = {v1, v2}
    Textual = {v2}
    MaxMoves = 2
    FaultKinds = {"crash", "disk", "model", "kept", "damage"}
    MaxFaults = 1
SPECIFICATION Spec
INVARIANTS TypeOK VectorsFitText MissingIsNamed ReuseIsExact
PROPERTIES Converges
