SPECIFICATION Spec

CONSTANTS
    a = a
    b = b
    Names = {a, b}
    Sizes = {1, 2}
    MaxGen = 3
    FaultKinds = {"crash", "disk"}
    MaxFaults = 3

INVARIANTS
    TrustedIsWhole

PROPERTIES
    AtomicSpec
    MarkerClears
