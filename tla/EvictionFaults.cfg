SPECIFICATION Spec

CONSTANTS
    s1 = s1
    s2 = s2
    g1 = g1
    g2 = g2
    u = u
    r = r
    Corpora = {1, 2}
    Units = {u}
    Artifacts = {r}
    Searches = {s1, s2}
    Uses <- TwoUses
    Collections = {g1, g2}
    All = {g2}
    Bytes = {1, 2}
    Budget = 0
    Capacity = 40
    Others = 34
    MaxAge = 0
    MaxTime = 3
    MaxRuns = 2
    FaultKinds = {"crash", "remove", "timeout"}
    MaxFaults = 1

INVARIANTS
    TypeOK
    LedgerTells

PROPERTIES
    EvictionSparesUse
    AloneRunFits
    SweepSparesBuilds

CHECK_DEADLOCK FALSE
