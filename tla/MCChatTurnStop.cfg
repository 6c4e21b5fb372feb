SPECIFICATION LiveSpec
CONSTANTS
    MaxTasks = 1
    Scenarios = {{"stop"}}
PROPERTIES
    EverySubmissionAnswered
CHECK_DEADLOCK FALSE
