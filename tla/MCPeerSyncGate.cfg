SPECIFICATION LiveSpec
CONSTANTS
    Node = {1, 2}
    Outbound = {1}
    Author = {2}
    RouteNode = {1}
    PageLimit = 1
    MaxPages = 1
    MaxEdits = 2
    MaxPrefs = 1
    MaxEvents = 1
INVARIANTS
    TypeOK
    BaselineIsHeld
    SettledIsConverged
PROPERTIES
    OperationsConverge
    SettlesToProbing
