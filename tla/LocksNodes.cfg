SPECIFICATION Spec

CONSTANTS
    c1 = c1
    c2 = c2
    c3 = c3
    e1 = e1
    e2 = e2
    n1 = n1
    n2 = n2
    Commands = {c1, c2}
    Nodes = {n1, n2}
    GitNodes = {}
    Evictors = {}
    Slots = 1
    Retries = 0
    FaultKinds = {}
    MaxFaults = 0

SYMMETRY Symmetry

INVARIANTS
    NobodyIsStranded

PROPERTIES
    ReadsWholeGenerations
