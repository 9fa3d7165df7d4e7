SPECIFICATION Spec

CONSTANTS
    f = f
    g = g
    c1 = c1
    c2 = c2
    x = x
    y = y
    z = z
    Files = {f}
    Blobs = {x, y, z}
    Content <- TwoCommits
    Commands = {c1, c2}
    Removals = {2}
    MaxVersion = 3
    MaxMoves = 2
    FaultKinds = {"crash", "disk", "read", "fds", "cancel", "damage"}
    MaxFaults = 1

INVARIANTS
    TypeOK
    StateTellsIndex
    MissingIsTold

PROPERTIES
    Converges
