SPECIFICATION Spec
CONSTANTS
    Readers = {r1, r2}
    None = None
    MaxEdits = 1
    MaxWatches = 1
    MaxFaults = 0
INVARIANTS
    MidScanEditCaught
SYMMETRY Symmetry
