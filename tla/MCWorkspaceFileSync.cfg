SPECIFICATION LiveSpec
CONSTANTS
    Paths = {p, q}
    Contents = {1, 2}
    Size <- OneSize
    Interval = 1
    Racing = {"edit"}
    MaxEdits = 2
    MaxReceived = 1
    Scenarios <- TwoCrashes
INVARIANTS
    IntentIsPending
    InventoryIsPublished
PROPERTIES
    NoEcho
    AppEditsKept
    TombstonesGenuine
    EventuallyPublished
