SPECIFICATION LiveSpec
CONSTANTS
    Nodes = {1, 2}
    Entities = {e1}
    Writers = {1, 2}
    Home <- OwnNode
    Offset <- SecondAhead
    PageLimit = 1
    MaxWrites = 2
    MaxTime = 2
    MaxFlight = 2
    MaxFaults = 2
INVARIANTS
    TypeOK
    FreshSequence
    ClockNeverAhead
    AppliedBeforeComplete
    VersionIsNewest
PROPERTIES
    CompletedStays
    EventuallyInSync
    ImplementsLog
CHECK_DEADLOCK FALSE
