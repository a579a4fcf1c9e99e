\* One journal file, a foreign journal or copy beside it, and two commands.
SPECIFICATION Spec
CONSTANTS
    p = p
    q = q
    a = a
    b = b
    main = main
    other = other
    Proc = {p, q}
    Inode = {main, other}
    Acceptance = {a, b}
    Identity = {"main", "other", "none"}
    Enrolled = "main"
    NoFile = NoFile
    NoPin = NoPin
    InitialFiles <- MCInitialFiles
    MaxEvents = 3
    MaxPublished = 1
SYMMETRY Symmetry
INVARIANT MatchedHasPinned
PROPERTY EnrolledOnly
PROPERTY CheckpointIsOneMoment
