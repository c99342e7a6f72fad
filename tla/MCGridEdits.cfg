SPECIFICATION FairSpec
CONSTANTS
    MaxEdits = 2
    c1 = c1
    c2 = c2
    Cells = {c1, c2}
    Layouts <- OneOrTwoCells
    None = None
    MaxPolls = 2
    MaxLoads = 2
    MaxIncidents = 1
INVARIANTS
    MarkerTruthful
    AppliedEditShown
PROPERTIES
    PollSettles
CHECK_DEADLOCK FALSE
