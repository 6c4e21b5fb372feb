SPECIFICATION Spec
CONSTANTS
    Nodes = {1, 2}
    Entities = {e1}
    Writers = {1, 2}
    Home <- OwnNode
    Offset <- SameTime
    PageLimit = 1
    MaxWrites = 1
    MaxTime = 3
    MaxFlight = 1
    MaxFaults = 0
INVARIANTS
    VersionIsMaterialized
CHECK_DEADLOCK FALSE
