SPECIFICATION LiveSpec
CONSTANTS
    MaxTasks = 2
    Scenarios = {{"cancel", "steer"}, {"stop", "steer"}, {"delete"}, {"reject"}, {"route"}, {"cancel", "drop"}, {"stop", "drop"}}
INVARIANTS
    TypeOK
    LeaseHasOwner
    LoadingHasOwner
    CompletedIsCommitted
    GenerationKeepsLease
PROPERTIES
    ChatComesToRest
    SubmissionsAnswered
CHECK_DEADLOCK FALSE
