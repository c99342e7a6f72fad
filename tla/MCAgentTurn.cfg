SPECIFICATION FairSpec
CONSTANTS
    Sockets = {s1, s2}
    Tabs = {t1}
    None = None
    MaxIterations = 2
    MaxModel = 3
    MaxReplay = 4
    MaxCalls = 2
    MaxTurns = 2
    MaxFaults = 1
INVARIANTS
    TypeOK
    StoredOnce
    RefusalsHaveCause
    ContextIsRecent
    WritesRemembered
PROPERTIES
    TurnsEnd
