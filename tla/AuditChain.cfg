CONSTANTS
    r1 = r1
    r2 = r2
    r3 = r3
    RequestId <- RequestIds
    Instant <- Instants
    AuditDecision <- Decisions
    NoHash = NoHash
    NoKey = NoKey
    MaxLength = 3
    MaxChanges = 1
SPECIFICATION AuditSpec
SYMMETRY RequestSymmetry
CHECK_DEADLOCK FALSE
INVARIANTS
    HeadIdentifiesLog
    AcceptedInTimeOrder
