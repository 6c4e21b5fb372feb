SPECIFICATION LiveSpec
CONSTANTS
    MaxSequence = 6
    Limit = 3
    Batch = 2
    MaxLate = 1
INVARIANTS
    ReceiptIsExact
    ReceiptIsAccepted
    PageIsComplete
PROPERTIES
    ScanReturns
CHECK_DEADLOCK FALSE
