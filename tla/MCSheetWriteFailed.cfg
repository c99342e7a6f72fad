SPECIFICATION Spec
CONSTANTS
    MaxId = 2
    Tabs <- TwoRows
    Values = {v1}
    Blank = Blank
    MaxAttempts = 2
    MaxJobs = 2
    MaxEvents = 0
INVARIANTS
    FailedChangedNothing
CHECK_DEADLOCK FALSE
