SPECIFICATION Spec
CONSTANTS
    Nodes = {1, 2}
    Entities = {e1}
    Writers = {1, 2}
    Home <- OwnNode
    Offset <- SameTime
    PageLimit = 1
    MaxWrites = 2
    MaxTime = 4
    MaxFlight = 1
    MaxFaults = 1
PROPERTIES
    OnlyNewerChosen
CHECK_DEADLOCK FALSE
