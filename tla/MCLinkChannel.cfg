SPECIFICATION LiveSpec
CONSTANTS
    c = c
    w = w
    p = p
    Caller = {c}
    Watcher = {w}
    Pusher = {p}
    MaxStreams = 1
    MaxEvents = 2
    MaxItems = 3
    Scenarios <- Pairs
INVARIANTS
    WatchInOrder
    PushInOrder
    NothingLeftBehind
PROPERTIES
    ExchangesEnd
    EventsArrive
CHECK_DEADLOCK FALSE
