\* Versions 1 and 3; JournalCreateV2.cfg has version 2.
CONSTANTS
    c1 = c1
    c2 = c2
    u1 = u1
    u2 = u2
    Creator <- Creators
    User <- Users
    NoOne = NoOne
    Versions = {1, 3}
    MAX_ROWS = 2
SPECIFICATION Spec
SYMMETRY CommandSymmetry
CHECK_DEADLOCK FALSE
INVARIANTS
    AdmittedIsProtected
    CreatedStays
