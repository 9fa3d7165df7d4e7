CONSTANTS
    Dirs <- Disk
    Id <- DiskId
    Entry <- DiskEntry
    Bare <- Mirrors
    Unreadable <- Closed
    Ignored <- NotTracked
    Gitlinks <- Submodules
    Operands <- Command
    Walkers = 2
    Slots = 2
    FaultKinds = {"git", "descriptors", "interrupt"}
    MaxFaults = 1
SPECIFICATION Spec
INVARIANTS TypeOK WalkIsDetermined HeldOnce
PROPERTIES Ends
