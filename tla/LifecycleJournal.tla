--------------------------- MODULE LifecycleJournal ---------------------------
(***************************************************************************)
(* The version-2 journal (dns_assignment_lifecycle.py): register and        *)
(* summary as in version 1, made aware of releases, and the release command *)
(* by which the key that accepted a task gives it back.                     *)
(*                                                                          *)
(* The database holds two tables.  register and release decide from both    *)
(* inside one BEGIN IMMEDIATE; summary reads the acceptance table first and *)
(* the release table later, inside one read transaction.                    *)
(***************************************************************************)
EXTENDS LifecycleHistory, JournalCommand

CONSTANTS
    NoAssignment, NotReleased       \* of AssignmentLedger

ASSUME NotReleasedAssumption == NotReleased \notin Instant
ASSUME NoAssignmentAssumption ==
    NoAssignment \notin [acceptance : Acceptance, verified : Instant,
                         released : Instant \cup {NotReleased}]

vars == commandVars

Database == [rows : Seq(Row), releases : Seq(ReleaseRow)]

ASSUME NoTransactionAssumption == NoTransaction \notin Database

RegisterRequest ==
    [op : {"register"}, acceptance : Acceptance, pin : Policy, now : Instant,
     predecessor : Acceptance \cup {NoDigest}, release : Release \cup {NoRelease}]

ReleaseRequest ==
    [op : {"release"}, release : Release, pin : Policy, now : Instant]

\* What passes before the lock: all the original evidence of a register, and of
\* a release only the pinned policy, its signature being checked under the lock.
Verifiable ==
    {q \in RegisterRequest : \E w \in Workflow :
        AcceptResponsibility(q.acceptance, w, q.pin, q.now)}
    \cup ReleaseRequest

Init == CommandInit([rows |-> <<>>, releases |-> <<>>])

------------------------------------------------------------------------------
(* register                                                                 *)

Loads(d) == HistoryOK(d.rows) /\ ReleasesOK(d.rows, d.releases)

\* release = releases.get(predecessor)
PriorReleased(d, q) ==
    IsReleased(d.releases, CurrentDigest(d.rows, TaskOf(q.acceptance)))

PriorRelease(d, q) ==
    ReleaseOf(d.releases, CurrentDigest(d.rows, TaskOf(q.acceptance)))

\* 'clock precedes retained release'
BeforeRelease(d, q) == PriorReleased(d, q) /\ q.now < PriorRelease(d, q).verified

\* Mutated form: a replacement may predate the release.
PredatesIgnored(d, q) == FALSE

\* 'replacement acceptance predates release'
Predates(d, q) ==
    /\ PriorReleased(d, q)
    /\ Claim[q.acceptance].accepted < PriorRelease(d, q).verified

\* expected_release_sha256 names the release the history holds, or none.
ReleaseExpected(d, q) ==
    ReleaseDigest(d.releases, CurrentDigest(d.rows, TaskOf(q.acceptance))) = q.release

\* Only an unreleased, eligible prior acceptance excludes a newcomer.
CompetesUnreleased(d, q) == ~ PriorReleased(d, q) /\ Competes(d.rows, q)

\* Every check between the history read and the INSERT.
Admits(d, q) ==
    /\ Loads(d)
    /\ ~ ClockBehind(d.rows, q)
    /\ ~ BeforeRelease(d, q)
    /\ ~ Replays(d.rows, q)
    /\ ~ Predates(d, q)
    /\ PredecessorExpected(d.rows, q)
    /\ ReleaseExpected(d, q)
    /\ ~ CompetesUnreleased(d, q)
    /\ HasRoom(d.rows)
    /\ UniqueKey(d.rows, q.acceptance)

AnswersAgainReleased(d, q) ==
    /\ Loads(d)
    /\ ~ ClockBehind(d.rows, q)
    /\ Replays(d.rows, q)

\* The same acceptance is the task's latest and has not been released.
AnswersAgain(d, q) ==
    /\ Loads(d)
    /\ ~ ClockBehind(d.rows, q)
    /\ ~ BeforeRelease(d, q)
    /\ Replays(d.rows, q)
    /\ ~ PriorReleased(d, q)

Verify(p) == Start(p, Verifiable)

Register(p) ==
    LET d == txn[p]
        q == req[p]
    IN  /\ q.op = "register"
        /\ \/ /\ AnswersAgain(d, q)
              /\ DecideAnswer(p, "already_registered")
           \/ /\ Admits(d, q)
              /\ DecideWrite(p, [d EXCEPT !.rows = Append(@, NewRow(d.rows, q))])
           \/ /\ ~ AnswersAgain(d, q)
              /\ ~ Admits(d, q)
              /\ DecideRefuse(p)

------------------------------------------------------------------------------
(* release                                                                  *)

\* The claim's task has a latest acceptance, and the claim verifies against it.
Releasable(d, q) ==
    LET t == ReleaseClaim[q.release].task IN
    /\ Loads(d)
    /\ HasCurrent(d.rows, t)
    /\ VerifyRelease(q.release, Current(d.rows, t), q.pin, q.now)

TargetOf(q) == ReleaseClaim[q.release].acceptance

\* Mutated form: any release of the target counts as this one.
ReleasedAgainAnyhow(d, q) ==
    /\ Releasable(d, q)
    /\ IsReleased(d.releases, TargetOf(q))
    /\ ReleaseOf(d.releases, TargetOf(q)).verified <= q.now

\* The target's retained release is this one, and the clock is not behind it.
ReleasedAgain(d, q) ==
    /\ Releasable(d, q)
    /\ IsReleased(d.releases, TargetOf(q))
    /\ ReleaseOf(d.releases, TargetOf(q)).release = q.release
    /\ ReleaseOf(d.releases, TargetOf(q)).verified <= q.now

AdmitsReleaseTwice(d, q) ==
    /\ Releasable(d, q)
    /\ Len(d.releases) < MAX_EVENTS

\* No release of the target is retained, and there is room for one.
AdmitsRelease(d, q) ==
    /\ Releasable(d, q)
    /\ ~ IsReleased(d.releases, TargetOf(q))
    /\ Len(d.releases) < MAX_EVENTS
    /\ \A k \in 1..Len(d.releases) : d.releases[k].release # q.release

NewRelease(q) ==
    [acceptance |-> TargetOf(q), release |-> q.release, verified |-> q.now]

GiveBack(p) ==
    LET d == txn[p]
        q == req[p]
    IN  /\ q.op = "release"
        /\ \/ /\ ReleasedAgain(d, q)
              /\ DecideAnswer(p, "already_released")
           \/ /\ AdmitsRelease(d, q)
              /\ DecideWrite(p, [d EXCEPT !.releases = Append(@, NewRelease(q))])
           \/ /\ ~ ReleasedAgain(d, q)
              /\ ~ AdmitsRelease(d, q)
              /\ DecideRefuse(p)

------------------------------------------------------------------------------
Step(p) ==
    \/ Begin(p)
    \/ BeginBusy(p)
    \/ pc[p] = "deciding" /\ (Register(p) \/ GiveBack(p))
    \/ StartCommit(p)
    \/ Commit(p, "appended")
    \/ CommitBusy(p)
    \/ Reply(p)
    \/ EndSummary(p)

Next == \E p \in Proc : Verify(p) \/ StartSummary(p) \/ Step(p) \/ Crash(p)

Spec == Init /\ [][Next]_vars

------------------------------------------------------------------------------
(* Properties                                                               *)

\* No sequence of accepted commands leaves a journal its own readers refuse:
\* _history or _releases would otherwise reject every later command.
Readable == Loads(db)

\* If row i is the previous row of row j's task and under the same policy bytes,
\* it had expired, or was released before the newcomer accepted.
Succeeds(d, i, j) ==
    LET a == d.rows[i].acceptance
        b == d.rows[j].acceptance
    IN  /\ IsLatest(d.rows, TaskOf(b), j-1, i)
        /\ Claim[a].policy = Claim[b].policy
        => \/ Claim[a].expires <= d.rows[j].verified
           \/ /\ IsReleased(d.releases, a)
              /\ ReleaseOf(d.releases, a).verified <= Claim[b].accepted

\* One row follows another of the same task and policy only after the earlier
\* one expired, or after a release of it that the successor did not predate.
Succession == \A i, j \in 1..Len(db.rows) : Succeeds(db, i, j)

\* If release k is of the row that row j's task had before, it was verified
\* before row j was accepted.
Precedes(d, k, j) ==
    \A i \in 1..Len(d.rows) :
       /\ IsLatest(d.rows, TaskOf(d.rows[j].acceptance), j-1, i)
       /\ d.releases[k].acceptance = d.rows[i].acceptance
       => d.releases[k].verified <= Claim[d.rows[j].acceptance].accepted

\* A release never touches the successor (ASSIGNMENT_LIFECYCLE.md, "The successor's
\* claimed acceptance time must be at or after release verification", "its release
\* cannot affect the successor"): whatever the successor was admitted by, be it
\* an expiry or another policy, and whichever of the two rows came first.
ReleasePrecedesSuccessor ==
    \A k \in 1..Len(db.releases), j \in 1..Len(db.rows) : Precedes(db, k, j)

\* A summary that has read the acceptance table finds, whenever it comes to the
\* release table, releases of rows it has read: two commits in between would
\* otherwise fail it with 'invalid release linkage' (lines 150, 82-94).
SummaryConsistent ==
    \A p \in Proc : pc[p] = "reading" => ReleasesOK(txn[p].rows, db.releases)

\* "The old acceptance cannot reactivate": no command is told that its
\* acceptance is registered once that acceptance is released or superseded.
NoReactivation ==
    [][ \A p \in Proc :
          answer'[p] = "already_registered" /\ answer[p] = "none" =>
             /\ CurrentDigest(db.rows, TaskOf(req[p].acceptance)) = req[p].acceptance
             /\ ~ IsReleased(db.releases, req[p].acceptance) ]_vars

\* An answered release is in the file, whoever appended it, and a release that
\* was cut off by a crash may be sent again: it is appended once.
ReleaseAnswered ==
    \A p \in Proc :
       /\ answer[p] \in {"appended", "already_released"}
       /\ req[p].op = "release"
       => \E k \in 1..Len(db.releases) : db.releases[k].release = req[p].release

\* The assignment that counts for a task: what summary derives from the newest row.
CurrentAssignment(t) ==
    IF HasCurrent(db.rows, t)
      THEN LET a == Current(db.rows, t).acceptance IN
           [acceptance |-> a, verified |-> Current(db.rows, t).verified,
            released |-> IF IsReleased(db.releases, a)
                           THEN ReleaseOf(db.releases, a).verified
                           ELSE NotReleased]
      ELSE NoAssignment

Ledger == INSTANCE AssignmentLedger WITH
    current <- [t \in Task |-> CurrentAssignment(t)],
    used <- {db.rows[i].acceptance : i \in 1..Len(db.rows)}

\* The file, its locks and its concurrent, mortal commands do to each task what
\* the ledger does in one step: register is Assign, release is GiveBack, all else a stutter.
ImplementsLedger == Ledger!LedgerSpec
==============================================================================
