-------------------------- MODULE AssignmentJournal --------------------------
(***************************************************************************)
(* The version-1 local journal of DNS task acceptances                      *)
(* (dns_assignment_journal.py): concurrent register and summary commands on *)
(* one SQLite file, each of which may die between any two steps.            *)
(*                                                                          *)
(* register verifies the evidence at its own instant BEFORE it asks for the *)
(* lock; the history is read, the conflict decided and the row inserted     *)
(* inside BEGIN IMMEDIATE.  So the instant, the expected predecessor and    *)
(* the policy pin a call decides with may all be older than the history.    *)
(***************************************************************************)
EXTENDS JournalHistory, JournalCommand

CONSTANTS
    NoAssignment, NotReleased       \* of AssignmentLedger

ASSUME NoTransactionAssumption == NoTransaction \notin Seq(Row)

vars == commandVars

Request ==
    [acceptance : Acceptance, pin : Policy, now : Instant,
     predecessor : Acceptance \cup {NoDigest}]

\* The requests for which accept_responsibility and _policy succeed.
Verifiable ==
    {q \in Request : \E w \in Workflow :
        AcceptResponsibility(q.acceptance, w, q.pin, q.now)}

Answers == {"none", "registered", "already_registered"}

TypeOK ==
    /\ db \in Seq(Row)
    /\ txn \in [Proc -> Seq(Row) \cup {NoTransaction}]
    /\ reserved \subseteq Proc
    /\ pending \subseteq Proc
    /\ shared \subseteq Proc
    /\ pc \in [Proc -> Steps]
    /\ req \in [Proc -> Request \cup {NoRequest}]
    /\ answer \in [Proc -> Answers]

Init == CommandInit(<<>>)

------------------------------------------------------------------------------
(* register                                                                 *)

\* Every check between the history read and the INSERT.
Admits(rows, q) ==
    /\ HistoryOK(rows)
    /\ ~ ClockBehind(rows, q)
    /\ ~ Replays(rows, q)
    /\ PredecessorExpected(rows, q)
    /\ ~ Competes(rows, q)
    /\ HasRoom(rows)
    /\ UniqueKey(rows, q.acceptance)

\* The same acceptance is the task's latest: answered without another row.
AnswersAgain(rows, q) ==
    /\ HistoryOK(rows)
    /\ ~ ClockBehind(rows, q)
    /\ Replays(rows, q)

Verify(p) == Start(p, Verifiable)

Replay(p) ==
    /\ AnswersAgain(txn[p], req[p])
    /\ DecideAnswer(p, "already_registered")

Insert(p) ==
    /\ Admits(txn[p], req[p])
    /\ DecideWrite(p, Append(txn[p], NewRow(txn[p], req[p])))

Refuse(p) ==
    /\ ~ AnswersAgain(txn[p], req[p])
    /\ ~ Admits(txn[p], req[p])
    /\ DecideRefuse(p)

------------------------------------------------------------------------------
\* What a running command does next; Replay, Insert and Refuse are its decision.
Step(p) ==
    \/ Begin(p)
    \/ BeginBusy(p)
    \/ pc[p] = "deciding" /\ (Replay(p) \/ Insert(p) \/ Refuse(p))
    \/ StartCommit(p)
    \/ Commit(p, "registered")
    \/ CommitBusy(p)
    \/ Reply(p)
    \/ EndSummary(p)

Next == \E p \in Proc : Verify(p) \/ StartSummary(p) \/ Step(p) \/ Crash(p)

Spec == Init /\ [][Next]_vars

\* A started command keeps running: every wait has its busy timeout.
Fairness == \A p \in Proc : WF_vars(Step(p))

FairSpec == Spec /\ Fairness

------------------------------------------------------------------------------
(* Properties                                                               *)

\* No sequence of accepted commands leaves a journal its own reader refuses:
\* _history (lines 163-184) would otherwise reject every later command.
Readable == HistoryOK(db)

\* If row i is the previous row of row j's task and under the same policy bytes,
\* it had expired at the verification of row j.
Succeeds(rows, i, j) ==
    LET a == rows[i].acceptance
        b == rows[j].acceptance
    IN  /\ IsLatest(rows, TaskOf(b), j-1, i)
        /\ Claim[a].policy = Claim[b].policy
        => Claim[a].expires <= rows[j].verified

\* One row follows another of the same task only when the earlier one had
\* expired at the later verification, or was registered under other policy
\* bytes (RESPONSIBILITY.md, state and conflict rules; lines 205-206).
Succession == \A i, j \in 1..Len(db) : Succeeds(db, i, j)

\* A retained receipt is never reported authority_inactive, whatever policy and
\* clock a summary is given: the policy that granted it is the only one with
\* its digest (the branch at lines 85-86 counts nothing register wrote).
AuthorityNeverInactive ==
    \A i \in 1..Len(db), pin \in Policy, now \in Instant :
       StateOf(db[i], pin, now) # "authority_inactive"

\* A process that answers "registered" has its row in the committed file, at a
\* place where it was put under the predecessor the caller named.
AnswerDurable ==
    \A p \in Proc : answer[p] = "registered" =>
       \E i \in 1..Len(db) :
          /\ db[i].acceptance = req[p].acceptance
          /\ db[i].verified = req[p].now
          /\ db[i].predecessor = req[p].predecessor

\* No step of any process removes or rewrites a committed row, and one step
\* adds at most one: two writers never overwrite each other's commit.
AppendOnly ==
    [][ /\ Len(db) <= Len(db')
        /\ Len(db') <= Len(db) + 1
        /\ \A i \in 1..Len(db) : db'[i] = db[i] ]_vars

\* Who holds which lock, and what is known of a command that has come so far.
LockInv ==
    /\ \A p \in Proc : pc[p] \in {"deciding", "inserted", "committing"} <=> p \in reserved
    /\ \A p, q \in reserved : p = q
    /\ \A p \in Proc : pc[p] = "committing" <=> p \in pending
    /\ \A p \in Proc : pc[p] = "reading" <=> p \in shared
    /\ \A p \in Proc : pc[p] \in {"verified", "deciding", "inserted", "committing", "done"} =>
          req[p] \in Verifiable

\* A transaction decides from the committed rows, and what it is about to
\* commit is those rows and one more that they admit.
TransactionInv ==
    /\ \A p \in Proc : pc[p] = "deciding" => txn[p] = db
    /\ \A p \in Proc : pc[p] \in {"inserted", "committing"} =>
          /\ Admits(db, req[p])
          /\ txn[p] = Append(db, NewRow(db, req[p]))

\* Every retained row's key is granted its task by the policy it was signed for.
Authorized(rows) ==
    \A i \in 1..Len(rows) :
       GrantOf(rows[i].acceptance) \in Authority[Claim[rows[i].acceptance].policy].active

\* The inductive invariant: what the theorems of AssignmentJournalProofs rest on.
IInv ==
    /\ TypeOK
    /\ LockInv
    /\ TransactionInv
    /\ Readable
    /\ Succession
    /\ Authorized(db)

\* Every started command ends although others may keep taking the lock.
CommandsEnd == \A p \in Proc : pc[p] # "idle" ~> pc[p] = "idle"

\* The assignment that counts for a task: what summary derives from the newest row.
CurrentAssignment(t) ==
    IF HasCurrent(db, t)
      THEN [acceptance |-> Current(db, t).acceptance,
            verified |-> Current(db, t).verified, released |-> NotReleased]
      ELSE NoAssignment

Ledger == INSTANCE AssignmentLedger WITH
    current <- [t \in Task |-> CurrentAssignment(t)],
    used <- {db[i].acceptance : i \in 1..Len(db)}

\* The file, its locks and its concurrent, mortal commands do to each task what
\* the ledger does in one step: register is Assign, all else a stutter.
ImplementsLedger == Ledger!LedgerSpec
==============================================================================
