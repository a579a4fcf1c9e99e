CONSTANTS
    Acceptance <- PolicyPair
    Policy <- McPolicy
    Workflow <- McWorkflow
    Key <- McKey
    Audience <- McAudience
    Finding <- McFinding
    Team <- McTeam
    Instant <- McInstant
    Claim <- PolicyPairClaim
    Authority <- McAuthority
    Handoff <- McHandoff
    NoDigest = NoDigest
    NoTransaction = NoTransaction
    NoRequest = NoRequest
    NoAssignment = NoAssignment
    NotReleased = NotReleased
    q1 = q1
    q2 = q2
    Proc <- Commands
    Release <- OneRelease
    ReleaseClaim <- OneReleaseClaim
    NoRelease = NoRelease
    MAX_EVENTS = 2
SPECIFICATION Spec
SYMMETRY CommandSymmetry
INVARIANTS
    ReleasePrecedesSuccessor
PROPERTIES
    ImplementsLedger
