SPECIFICATION FairSpec
CONSTANTS
    Projects = {p1, p2}
    MaxSockets = 4
    MaxDrops = 1
    MaxMoves = 2
INVARIANTS
    OneLiveSocket
    AnswersKeepToTheirSocket
    OneSessionUnlessRaced
PROPERTIES
    EventuallyConnected
CHECK_DEADLOCK FALSE
