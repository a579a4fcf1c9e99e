\* Every tool is asked about each of its inputs once.
CONSTANTS
    Absent = Absent
    None = None
    Refused = Refused
    Nothing = Nothing
    Resets <- MCResets
    Batches <- MCBatches
    ArpInputs <- MCArpInputs
    ArpPairs <- MCArpPairs
    Snapshots <- MCSnapshots
    Cases <- MCCases
    Workflows <- MCWorkflows
    Handoffs <- MCHandoffs
    ReportPairs <- MCReportPairs
    Exercises <- MCExercises
    Conformances <- MCConformances
    Yara <- MCYara
SPECIFICATION Spec
\* A tool answers once and ends.
CHECK_DEADLOCK FALSE
INVARIANTS
    ResetWindowsStrongest
    AttemptsCorrelatedOnce
    ArpFindingsExplained
    ArpTransitionsAccounted
    CasesCountOnce
    QueueKeepsFindings
    HandoffFullyAttested
    DependentsReviewed
    PinnedBytesScanned
    ReportsAgree
