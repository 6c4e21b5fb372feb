SPECIFICATION Spec
CONSTANTS
    Node = {1, 2}
    Outbound = {1}
    Author = {2}
    RouteNode = {}
    PageLimit = 1
    MaxPages = 1
    MaxEdits = 1
    MaxPrefs = 1
    MaxEvents = 0
INVARIANTS
    SettledPreferencesAgree
