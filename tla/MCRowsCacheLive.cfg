SPECIFICATION FairSpec
CONSTANTS
    Readers = {r1}
    None = None
    MaxEdits = 1
    MaxWatches = 1
    MaxFaults = 1
PROPERTIES
    EventuallyFresh
