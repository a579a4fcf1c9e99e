CONSTANTS
    Acceptance <- Pair
    Policy <- OnePolicy
    Workflow <- McWorkflow
    Key <- McKey
    Audience <- McAudience
    Finding <- McFinding
    Team <- McTeam
    Instant <- McInstant
    Claim <- PairClaim
    Authority <- OnePolicyAuthority
    Handoff <- McHandoff
    NoDigest = NoDigest
    NoTransaction = NoTransaction
    NoRequest = NoRequest
    NoAssignment = NoAssignment
    NotReleased = NotReleased
    q1 = q1
    q2 = q2
    Proc <- Commands
    Release <- PairRelease
    ReleaseClaim <- PairReleaseClaim
    NoRelease = NoRelease
    MAX_EVENTS = 2
SPECIFICATION Spec
SYMMETRY CommandSymmetry
INVARIANTS
    Readable
    Succession
    SummaryConsistent
    ReleaseAnswered
PROPERTIES
    NoReactivation
