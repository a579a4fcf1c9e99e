CONSTANTS
    Acceptance <- OneTask
    Policy <- McPolicy
    Workflow <- McWorkflow
    Key <- McKey
    Audience <- McAudience
    Finding <- McFinding
    Team <- McTeam
    Instant <- McInstant
    Claim <- OneTaskClaim
    Authority <- McAuthority
    Handoff <- McHandoff
    NoDigest = NoDigest
    NoTransaction = NoTransaction
    NoRequest = NoRequest
    NoAssignment = NoAssignment
    NotReleased = NotReleased
    q1 = q1
    q2 = q2
    Proc <- Commands
    MAX_EVENTS = 3
SPECIFICATION Spec
SYMMETRY CommandSymmetry
INVARIANTS
    IInv
    Succession
    AnswerDurable
PROPERTIES
    AppendOnly
    ImplementsLedger
