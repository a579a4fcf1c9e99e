CONSTANTS
    p1 = p1
    p2 = p2
    p3 = p3
    Publisher <- Publishers
    NoDocument = NoDocument
SPECIFICATION PublishSpec
SYMMETRY PublisherSymmetry
CHECK_DEADLOCK FALSE
INVARIANTS
    WholeAtPath
    SuccessIsOwn
    NoLitter
PROPERTIES
    FirstStays
