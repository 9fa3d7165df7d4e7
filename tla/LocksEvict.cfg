SPECIFICATION Spec

CONSTANTS
    c1 = c1
    c2 = c2
    c3 = c3
    e1 = e1
    e2 = e2
    n1 = n1
    n2 = n2
    Commands = {c1, c2}
    Nodes = {n1}
    GitNodes = {n1}
    Evictors = {e1}
    Slots = 1
    Retries = 1
    FaultKinds = {"crash", "interrupt", "again"}
    MaxFaults = 1

INVARIANTS
    IncarnationsExclude
    SwapsOwnCorpus

PROPERTIES
    EveryTaskEnds
    ReadsOutrunBuilds
