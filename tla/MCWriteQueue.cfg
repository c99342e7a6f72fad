SPECIFICATION FairSpec
CONSTANTS
    Jobs = {j1, j2}
    NoJob = NoJob
    cell = cell
    Cells <- MCCells
    Target <- MCTarget
    MaxAttempts = 1
    MaxCrashes = 2
    MaxFaults = 1
INVARIANTS
    TypeOK
    NoJobLost
    NoJobTwice
    AttemptsBounded
    FirstPicksInOrder
    NewestWriteShowsUnlessReplayed
    StatusTruthful
PROPERTIES
    Quiesces
    StaleJobsRecovered
    ImplementsLedger
CHECK_DEADLOCK FALSE
