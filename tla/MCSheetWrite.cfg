SPECIFICATION FairSpec
CONSTANTS
    MaxId = 2
    Tabs <- TwoRows
    Values = {v1}
    Blank = Blank
    MaxAttempts = 2
    MaxJobs = 2
    MaxEvents = 1
INVARIANTS
    TypeOK
    AuditTruthful
PROPERTIES
    LandsOnTarget
    AddedIdIsNew
    UndoRestoresOnlyItsOwn
    JobsEnd
CHECK_DEADLOCK FALSE
