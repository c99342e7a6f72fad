SPECIFICATION Spec
CONSTANTS
    Readers = {r1, r2}
    Admins = {a1}
    Channels = {c1, c2, c3}
    None = None
    MaxFaults = 1
INVARIANTS
    TypeOK
    RenewalKeepsRowOpen
    AnnouncedUnlessReplaced
SYMMETRY Symmetry
