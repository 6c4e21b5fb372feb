SPECIFICATION Spec
CONSTANTS
    Paths = {p, q}
    Contents = {1, 2}
    Size <- OneSize
    Interval = 1
    Racing = {}
    MaxEdits = 2
    MaxReceived = 1
    Scenarios <- CrashAndRoot
SYMMETRY Symmetry
PROPERTIES
    TombstonesGenuine
