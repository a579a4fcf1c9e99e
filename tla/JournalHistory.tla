---------------------------- MODULE JournalHistory ----------------------------
(***************************************************************************)
(* The acceptance_event table as AssignmentJournal._history reads it.       *)
(*                                                                          *)
(* The table is a sequence: the row with primary key i is its i-th element. *)
(* A row holds the receipt and the predecessor digest; the audience and     *)
(* finding columns are those of the receipt's claim.                        *)
(***************************************************************************)
EXTENDS DnsResponsibility, Sequences

CONSTANTS
    NoDigest,       \* the NULL predecessor
    MAX_EVENTS      \* bound on the rows of one journal

ASSUME NoDigestAssumption == NoDigest \notin Acceptance
ASSUME MaxEventsAssumption == MAX_EVENTS \in Nat

Row ==
    [acceptance : Acceptance, verified : Instant,
     predecessor : Acceptance \cup {NoDigest}]

\* Row m is the newest of task t among the first n: latest[identity].
IsLatest(rows, t, n, m) ==
    /\ m \in 1..n
    /\ TaskOf(rows[m].acceptance) = t
    /\ \A i \in (m+1)..n : TaskOf(rows[i].acceptance) # t

\* Some row among the first n is about task t.
HasLatest(rows, t, n) == \E m \in 1..n : IsLatest(rows, t, n, m)

LatestRow(rows, t, n) == rows[CHOOSE m \in 1..n : IsLatest(rows, t, n, m)]

\* prior['acceptance_sha256'] if prior else None
LatestDigest(rows, t, n) ==
    IF HasLatest(rows, t, n) THEN LatestRow(rows, t, n).acceptance ELSE NoDigest

\* What _history demands of row i: receipt validity, a digest not seen before,
\* and the link to the task's previous row, in verification order.
RowLinked(rows, i) ==
    LET r == rows[i]
        t == TaskOf(r.acceptance)
    IN  /\ ReceiptValid(r)
        /\ \A j \in 1..(i-1) : rows[j].acceptance # r.acceptance
        /\ r.predecessor = LatestDigest(rows, t, i-1)
        /\ HasLatest(rows, t, i-1) => LatestRow(rows, t, i-1).verified <= r.verified

\* _history returns without raising.
HistoryOK(rows) ==
    /\ Len(rows) <= MAX_EVENTS
    /\ \A i \in 1..Len(rows) : RowLinked(rows, i)

\* The newest receipts by task, which register and summary decide from.
HasCurrent(rows, t) == HasLatest(rows, t, Len(rows))
Current(rows, t) == LatestRow(rows, t, Len(rows))
CurrentDigest(rows, t) == LatestDigest(rows, t, Len(rows))

------------------------------------------------------------------------------
(* The conflict checks of register, on the rows its transaction sees and a  *)
(* request q with fields acceptance, pin, now and predecessor.  A mutated   *)
(* form stands beside some of them: a bug the code could have, which the    *)
(* specifications never use.                                                *)

ClockBehindIgnored(rows, q) == FALSE

\* now < _receipt(prior)
ClockBehind(rows, q) ==
    LET t == TaskOf(q.acceptance) IN
    HasCurrent(rows, t) /\ q.now < Current(rows, t).verified

\* prior_digest == receipt['acceptance_sha256']
Replays(rows, q) == CurrentDigest(rows, TaskOf(q.acceptance)) = q.acceptance

PredecessorUnchecked(rows, q) == TRUE

\* prior_digest == expected_predecessor
PredecessorExpected(rows, q) ==
    CurrentDigest(rows, TaskOf(q.acceptance)) = q.predecessor

CompetesInclusive(rows, q) ==
    LET t == TaskOf(q.acceptance) IN
    /\ HasCurrent(rows, t)
    /\ StateOf(Current(rows, t), q.pin, q.now + 1) = "eligible_for_reverification"

\* _state(prior) is eligible, or raises because the clock precedes acceptance.
Competes(rows, q) ==
    LET t == TaskOf(q.acceptance) IN
    /\ HasCurrent(rows, t)
    /\ StateOf(Current(rows, t), q.pin, q.now) \in
          {"eligible_for_reverification", "clock_error"}

NotUniqueKey(rows, a) == TRUE

\* The UNIQUE column: the INSERT of a digest already retained is an error.
UniqueKey(rows, a) == \A i \in 1..Len(rows) : rows[i].acceptance # a

RoomForOneTooMany(rows) == Len(rows) <= MAX_EVENTS

HasRoom(rows) == Len(rows) < MAX_EVENTS

\* INSERT INTO acceptance_event
NewRow(rows, q) ==
    [acceptance |-> q.acceptance, verified |-> q.now,
     predecessor |-> CurrentDigest(rows, TaskOf(q.acceptance))]
==============================================================================
