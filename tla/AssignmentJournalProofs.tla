----------------------- MODULE AssignmentJournalProofs -----------------------
(***************************************************************************)
(* The inductive invariant of AssignmentJournal and what follows from it.   *)
(*                                                                          *)
(* Only Commit changes the committed rows, so the proof has two parts: that *)
(* the locks keep what a transaction is about to commit equal to the        *)
(* committed rows and one more they admit (LockInv, TransactionInv), and    *)
(* that such a row keeps Readable, Succession and Authorized.               *)
(***************************************************************************)
EXTENDS AssignmentJournal, JournalHistoryProofs

\* What accept_responsibility has established about a request that reaches the
\* journal.
LEMMA VerifiableRequest ==
    ASSUME NEW q \in Verifiable
    PROVE  /\ q \in Request
           /\ q.acceptance \in Acceptance
           /\ q.now \in Instant
           /\ q.pin \in Policy
           /\ Claim[q.acceptance].accepted <= q.now
           /\ q.now < Claim[q.acceptance].expires
           /\ Claim[q.acceptance].policy = q.pin
           /\ Claim[q.acceptance].audience = Authority[q.pin].audience
           /\ GrantOf(q.acceptance) \in Authority[q.pin].active
  <1>1. q \in Request  BY DEF Verifiable
  <1>2. PICK w \in Workflow : AcceptResponsibility(q.acceptance, w, q.pin, q.now)
    BY DEF Verifiable
  <1>3. VerifyClaim(q.acceptance, w, q.pin, q.now)  BY <1>2 DEF AcceptResponsibility
  <1> QED  BY <1>1, <1>3 DEF VerifyClaim, Request

\* An admitted row has the type of a row and leaves the history readable.
LEMMA AdmittedReadable ==
    ASSUME NEW rows \in Seq(Row), NEW q \in Verifiable, Admits(rows, q)
    PROVE  /\ NewRow(rows, q) \in Row
           /\ Append(rows, NewRow(rows, q)) \in Seq(Row)
           /\ HistoryOK(Append(rows, NewRow(rows, q)))
  <1>1. NewRow(rows, q) \in Row /\ HistoryOK(Append(rows, NewRow(rows, q)))
    BY VerifiableRequest, AppendReadable DEF Admits
  <1> QED  BY <1>1, AppendKeeps

\* The newest row of the newcomer's task, if it was registered under the same
\* policy bytes, has expired: the key that signed it is still active under them,
\* so only the end of its interval can keep it from excluding the newcomer.
LEMMA NotCompeting ==
    ASSUME NEW rows \in Seq(Row), NEW q \in Verifiable, Admits(rows, q),
           Authorized(rows), NEW i,
           IsLatest(rows, TaskOf(q.acceptance), Len(rows), i),
           Claim[rows[i].acceptance].policy = Claim[q.acceptance].policy
    PROVE  Claim[rows[i].acceptance].expires <= q.now
  <1> DEFINE t == TaskOf(q.acceptance)
             r == rows[i]
             c == Claim[r.acceptance]
  <1>1. Len(rows) \in Nat  BY LenProperties
  <1>2. i \in 1..Len(rows) /\ TaskOf(r.acceptance) = t  BY DEF IsLatest
  <1>3. r \in Row  BY <1>1, <1>2, ElementOfSeq
  <1>4. HasCurrent(rows, t) /\ Current(rows, t) = r
    BY <1>1, LatestIs DEF HasCurrent, Current
  <1>5. StateOf(r, q.pin, q.now) \notin {"eligible_for_reverification", "clock_error"}
    BY <1>4 DEF Admits, Competes
  <1>6. c.policy = q.pin  BY VerifiableRequest
  <1>7. c.audience = Authority[q.pin].audience
    BY <1>2, VerifiableRequest DEF TaskOf
  <1>8. GrantOf(r.acceptance) \in Authority[q.pin].active
    BY <1>2, <1>6 DEF Authorized
  <1>9. c.accepted \in Nat /\ c.expires \in Nat /\ q.now \in Nat
    BY <1>3, VerifiableRequest, ClaimAssumption, InstantAssumption
    DEF Row, ClaimRecord
  <1>10. ~ (q.now < c.accepted) /\ q.now >= c.expires
    <2> HIDE DEF r
    <2> QED  BY <1>5, <1>6, <1>7, <1>8, Zenon DEF StateOf
  <1> QED  BY <1>9, <1>10, SMT

\* Every pair of rows that follow one another keeps its reason, and the new pair
\* has one.
LEMMA AdmittedSucceeds ==
    ASSUME NEW rows \in Seq(Row), NEW q \in Verifiable, Admits(rows, q),
           Authorized(rows),
           \A i, j \in 1..Len(rows) : Succeeds(rows, i, j)
    PROVE  LET more == Append(rows, NewRow(rows, q)) IN
           /\ \A i, j \in 1..Len(more) : Succeeds(more, i, j)
           /\ Authorized(more)
  <1> DEFINE x == NewRow(rows, q)
             more == Append(rows, x)
             n == Len(rows)
  <1>1. x \in Row  BY AdmittedReadable
  <1>2. /\ n \in Nat
        /\ Len(more) = n + 1
        /\ \A i \in 1..n : more[i] = rows[i]
        /\ more[n + 1] = x
    BY <1>1, AppendKeeps
  <1>3. x.acceptance = q.acceptance /\ x.verified = q.now  BY DEF NewRow
  <1> HIDE DEF more, x
  <1>4. ASSUME NEW i \in 1..(n + 1), NEW j \in 1..(n + 1)
        PROVE  Succeeds(more, i, j)
    <2> DEFINE b == more[j].acceptance
    <2>1. SUFFICES ASSUME IsLatest(more, TaskOf(b), j-1, i),
                          Claim[more[i].acceptance].policy = Claim[b].policy
                   PROVE  Claim[more[i].acceptance].expires <= more[j].verified
      BY DEF Succeeds
    <2>2. j-1 \in Nat /\ i \in 1..(j-1) /\ i \in 1..n
      BY <1>2, <2>1, SMT DEF IsLatest
    <2>3. \A k \in 1..(j-1) : more[k] = rows[k]  BY <1>2, SMT
    <2>4. IsLatest(rows, TaskOf(b), j-1, i)  BY <2>1, <2>2, <2>3, LatestPrefix
    <2>5. CASE j \in 1..n
      <3>1. more[i] = rows[i] /\ more[j] = rows[j]  BY <1>2, <2>2, <2>5
      <3>2. Succeeds(rows, i, j)  BY <2>2, <2>5
      <3> QED  BY <2>1, <2>4, <3>1, <3>2 DEF Succeeds
    <2>6. CASE j = n + 1
      <3>1. more[i] = rows[i] /\ more[j] = x /\ j-1 = n  BY <1>2, <2>2, <2>6, SMT
      <3>2. Claim[rows[i].acceptance].expires <= q.now
        BY <1>3, <2>1, <2>4, <3>1, NotCompeting
      <3> QED  BY <1>3, <3>1, <3>2
    <2> QED  BY <1>2, <2>5, <2>6, SMT
  <1>5. ASSUME NEW i \in 1..(n + 1)
        PROVE  GrantOf(more[i].acceptance) \in
                  Authority[Claim[more[i].acceptance].policy].active
    <2>1. CASE i \in 1..n  BY <1>2, <2>1 DEF Authorized
    <2>2. CASE i = n + 1  BY <1>2, <1>3, <2>2, VerifiableRequest
    <2> QED  BY <1>2, <2>1, <2>2, SMT
  <1> QED  BY <1>2, <1>4, <1>5 DEF Authorized, more, x

------------------------------------------------------------------------------
(* The inductive invariant                                                  *)

\* An empty journal with no command satisfies the invariant.
LEMMA InitInvariant == Init => IInv
  <1> SUFFICES ASSUME Init PROVE IInv  OBVIOUS
  <1> USE DEF Init, CommandInit, StoreInit
  <1>1. db = <<>> /\ db \in Seq(Row) /\ Len(db) = 0  BY EmptySeq
  <1>2. TypeOK  BY <1>1 DEF TypeOK, Steps, Answers
  <1>3. LockInv  BY DEF LockInv
  <1>4. TransactionInv  BY DEF TransactionInv
  <1>5. 1..Len(db) = {}  BY <1>1, SMT
  <1>6. Readable
    BY <1>1, <1>5, MaxEventsAssumption, SMT DEF Readable, HistoryOK
  <1>7. Succession /\ Authorized(db)  BY <1>5 DEF Succession, Authorized
  <1> QED  BY <1>2, <1>3, <1>4, <1>6, <1>7 DEF IInv

\* Every step keeps the types, the locks and what transactions hold; only
\* Commit disturbs the rows.
LEMMA StepLocks ==
    ASSUME TypeOK, LockInv, TransactionInv, Next
    PROVE  TypeOK' /\ LockInv'
  <1> PICK p \in Proc : Verify(p) \/ StartSummary(p) \/ Step(p) \/ Crash(p)
    BY DEF Next
  <1> USE DEF TypeOK, LockInv, Steps, Answers, Goto, Leave
  <1>1. CASE Verify(p)
    BY <1>1, VerifiableRequest DEF Verify, Start, storeVars
  <1>2. CASE StartSummary(p)
    BY <1>2 DEF StartSummary, BeginRead
  <1>3. CASE Begin(p)
    BY <1>3 DEF Begin, BeginImmediate
  <1>4. CASE BeginBusy(p)
    BY <1>4 DEF BeginBusy, storeVars
  <1>5. CASE pc[p] = "deciding" /\ Replay(p)
    BY <1>5 DEF Replay, DecideAnswer, Abandon, Unlock
  <1>6. CASE pc[p] = "deciding" /\ Insert(p)
    <2>1. txn[p] = db /\ req[p] \in Verifiable  BY <1>6 DEF TransactionInv
    <2>2. Append(txn[p], NewRow(txn[p], req[p])) \in Seq(Row)
      BY <1>6, <2>1, AdmittedReadable DEF Insert
    <2> QED  BY <1>6, <2>2 DEF Insert, DecideWrite, Write
  <1>7. CASE pc[p] = "deciding" /\ Refuse(p)
    BY <1>7 DEF Refuse, DecideRefuse, Abandon, Unlock
  <1>8. CASE StartCommit(p)
    BY <1>8 DEF StartCommit, Pend
  <1>9. CASE Commit(p, "registered")
    <2>1. txn[p] \in Seq(Row)
      <3>1. Admits(db, req[p]) /\ txn[p] = Append(db, NewRow(db, req[p]))
            /\ req[p] \in Verifiable
        BY <1>9 DEF Commit, TransactionInv
      <3> QED  BY <3>1, AdmittedReadable
    <2> QED  BY <1>9, <2>1 DEF Commit, CommitExclusive, Unlock
  <1>10. CASE CommitBusy(p)
    BY <1>10 DEF CommitBusy, Abandon, Unlock
  <1>11. CASE Reply(p)
    BY <1>11 DEF Reply, storeVars
  <1>12. CASE EndSummary(p)
    BY <1>12 DEF EndSummary, Abandon, Unlock
  <1>13. CASE Crash(p)
    BY <1>13 DEF Crash, Abandon, Unlock
  <1> QED
    BY <1>1, <1>2, <1>3, <1>4, <1>5, <1>6, <1>7, <1>8, <1>9, <1>10, <1>11, <1>12,
       <1>13 DEF Step

\* What a step of one process does to the rows and to the transactions that
\* were open before it.
LEMMA StepTransactions ==
    ASSUME TypeOK, LockInv, TransactionInv, Next
    PROVE  /\ TransactionInv'
           /\ \/ db' = db
              \/ \E q \in Verifiable :
                    Admits(db, q) /\ db' = Append(db, NewRow(db, q))
  <1> PICK p \in Proc : Verify(p) \/ StartSummary(p) \/ Step(p) \/ Crash(p)
    BY DEF Next
  <1> USE DEF TypeOK, LockInv, TransactionInv, Goto, Leave
  <1>1. CASE Verify(p)
    BY <1>1 DEF Verify, Start, storeVars
  <1>2. CASE StartSummary(p)
    BY <1>2 DEF StartSummary, BeginRead
  <1>3. CASE Begin(p)
    BY <1>3 DEF Begin, BeginImmediate
  <1>4. CASE BeginBusy(p)
    BY <1>4 DEF BeginBusy, storeVars
  <1>5. CASE pc[p] = "deciding" /\ Replay(p)
    BY <1>5 DEF Replay, DecideAnswer, Abandon, Unlock
  <1>6. CASE pc[p] = "deciding" /\ Insert(p)
    BY <1>6 DEF Insert, DecideWrite, Write
  <1>7. CASE pc[p] = "deciding" /\ Refuse(p)
    BY <1>7 DEF Refuse, DecideRefuse, Abandon, Unlock
  <1>8. CASE StartCommit(p)
    BY <1>8 DEF StartCommit, Pend
  <1>9. CASE Commit(p, "registered")
    <2>1. req[p] \in Verifiable /\ Admits(db, req[p])
          /\ db' = Append(db, NewRow(db, req[p]))
      BY <1>9 DEF Commit, CommitExclusive
    <2>2. \A o \in Proc \ {p} : pc[o] \notin {"deciding", "inserted", "committing"}
      BY <1>9 DEF Commit
    <2>3. TransactionInv'
      BY <1>9, <2>2 DEF Commit, CommitExclusive, Unlock
    <2> QED  BY <2>1, <2>3
  <1>10. CASE CommitBusy(p)
    BY <1>10 DEF CommitBusy, Abandon, Unlock
  <1>11. CASE Reply(p)
    BY <1>11 DEF Reply, storeVars
  <1>12. CASE EndSummary(p)
    BY <1>12 DEF EndSummary, Abandon, Unlock
  <1>13. CASE Crash(p)
    BY <1>13 DEF Crash, Abandon, Unlock
  <1> QED
    BY <1>1, <1>2, <1>3, <1>4, <1>5, <1>6, <1>7, <1>8, <1>9, <1>10, <1>11, <1>12,
       <1>13 DEF Step

\* One step of any process keeps the whole invariant.
LEMMA StepInvariant == IInv /\ [Next]_vars => IInv'
  <1> SUFFICES ASSUME IInv, [Next]_vars PROVE IInv'  OBVIOUS
  <1>1. CASE Next
    <2>1. TypeOK' /\ LockInv'  BY <1>1, StepLocks DEF IInv
    <2>2. TransactionInv'  BY <1>1, StepTransactions DEF IInv
    <2>3. Readable' /\ Succession' /\ Authorized(db)'
      <3>1. CASE db' = db
        BY <3>1 DEF IInv, Readable, Succession
      <3>2. CASE \E q \in Verifiable :
                    Admits(db, q) /\ db' = Append(db, NewRow(db, q))
        <4>1. PICK q \in Verifiable :
                 Admits(db, q) /\ db' = Append(db, NewRow(db, q))
          BY <3>2
        <4>2. db \in Seq(Row) /\ Authorized(db)
              /\ \A i, j \in 1..Len(db) : Succeeds(db, i, j)
          BY DEF IInv, TypeOK, Succession
        <4>3. HistoryOK(db')  BY <4>1, <4>2, AdmittedReadable
        <4>4. /\ \A i, j \in 1..Len(db') : Succeeds(db', i, j)
              /\ Authorized(db')
          BY <4>1, <4>2, AdmittedSucceeds
        <4> QED  BY <4>3, <4>4 DEF Readable, Succession
      <3> QED  BY <1>1, <3>1, <3>2, StepTransactions DEF IInv
    <2> QED  BY <2>1, <2>2, <2>3 DEF IInv
  <1>2. CASE UNCHANGED vars
    BY <1>2 DEF IInv, TypeOK, LockInv, TransactionInv, Readable, Succession,
       vars, commandVars, storeVars
  <1> QED  BY <1>1, <1>2

\* The invariant holds in every state the journal's commands can reach, however
\* many run, wait or die.
THEOREM Invariant == Spec => []IInv
  BY InitInvariant, StepInvariant, PTL DEF Spec

------------------------------------------------------------------------------
(* What follows                                                             *)

\* Every variable keeps its type.
THEOREM TypeCorrect == Spec => []TypeOK
  <1>1. IInv => TypeOK  BY DEF IInv
  <1> QED  BY Invariant, <1>1, PTL

\* No accepted sequence of register commands makes a journal that _history
\* refuses to read.
THEOREM JournalReadable == Spec => []Readable
  <1>1. IInv => Readable  BY DEF IInv
  <1> QED  BY Invariant, <1>1, PTL

\* A row of a task follows the task's previous row, if both were registered under
\* the same policy bytes, only when the previous one had expired.
THEOREM OneResponsible == Spec => []Succession
  <1>1. IInv => Succession  BY DEF IInv
  <1> QED  BY Invariant, <1>1, PTL

\* No receipt the journal holds is ever counted as authority_inactive.
THEOREM NeverInactive == Spec => []AuthorityNeverInactive
  <1>1. ASSUME IInv PROVE AuthorityNeverInactive
    <2> SUFFICES ASSUME NEW i \in 1..Len(db), NEW pin \in Policy, NEW now \in Instant
                 PROVE  StateOf(db[i], pin, now) # "authority_inactive"
      BY DEF AuthorityNeverInactive
    <2>1. GrantOf(db[i].acceptance) \in
             Authority[Claim[db[i].acceptance].policy].active
      BY <1>1 DEF IInv, Authorized
    <2> QED  BY <2>1 DEF StateOf
  <1> QED  BY Invariant, <1>1, PTL

\* No step removes or rewrites a committed row, and none adds two.
THEOREM RowsAppendOnly == Spec => AppendOnly
  <1> DEFINE Keeps == /\ Len(db) <= Len(db')
                      /\ Len(db') <= Len(db) + 1
                      /\ \A i \in 1..Len(db) : db'[i] = db[i]
  <1>1. ASSUME IInv, [Next]_vars PROVE [Keeps]_vars
    <2>1. db \in Seq(Row) /\ Len(db) \in Nat
      BY <1>1, LenProperties DEF IInv, TypeOK
    <2>2. CASE db' = db  BY <2>1, <2>2, SMT
    <2>3. CASE \E q \in Verifiable :
                  Admits(db, q) /\ db' = Append(db, NewRow(db, q))
      <3>1. PICK q \in Verifiable :
               Admits(db, q) /\ db' = Append(db, NewRow(db, q))
        BY <2>3
      <3>2. /\ Len(db') = Len(db) + 1
            /\ \A i \in 1..Len(db) : db'[i] = db[i]
        BY <2>1, <3>1, AdmittedReadable, AppendKeeps
      <3> QED  BY <2>1, <3>2, SMT
    <2>4. CASE UNCHANGED vars  BY <2>4
    <2> QED  BY <1>1, <2>2, <2>3, <2>4, StepTransactions DEF IInv
  <1> QED  BY Invariant, <1>1, PTL DEF Spec, AppendOnly

------------------------------------------------------------------------------
(* Answers                                                                  *)

\* Only a command that is done has an answer, and a "registered" one is backed
\* by the committed rows.
AnswerInv ==
    /\ \A p \in Proc : answer[p] = "registered" => pc[p] = "done"
    /\ AnswerDurable

\* A step of another process leaves the answer's row where it is, and Commit
\* gives its answer with the row it has just committed.
LEMMA StepAnswers ==
    ASSUME IInv, AnswerInv, Next
    PROVE  AnswerInv'
  <1> DEFINE Backs(rows, q) == \E i \in 1..Len(rows) :
                /\ rows[i].acceptance = q.acceptance
                /\ rows[i].verified = q.now
                /\ rows[i].predecessor = q.predecessor
  <1>1. \A q : Backs(db, q) => Backs(db', q)
    <2>1. CASE db' = db  BY <2>1
    <2>2. CASE \E q \in Verifiable :
                  Admits(db, q) /\ db' = Append(db, NewRow(db, q))
      <3>1. PICK q \in Verifiable :
               Admits(db, q) /\ db' = Append(db, NewRow(db, q))
        BY <2>2
      <3>2. /\ Len(db) \in Nat
            /\ Len(db') = Len(db) + 1
            /\ \A i \in 1..Len(db) : db'[i] = db[i]
        BY <3>1, AdmittedReadable, AppendKeeps DEF IInv, TypeOK
      <3>3. \A i \in 1..Len(db) : i \in 1..Len(db')  BY <3>2, SMT
      <3> QED  BY <3>2, <3>3
    <2> QED  BY <2>1, <2>2, StepTransactions DEF IInv
  <1>2. ASSUME NEW p \in Proc, Commit(p, "registered")
        PROVE  Backs(db', req[p])
    <2>1. req[p] \in Verifiable /\ Admits(db, req[p])
          /\ db' = Append(db, NewRow(db, req[p]))
      BY <1>2 DEF Commit, CommitExclusive, IInv, LockInv, TransactionInv
    <2>2. /\ Len(db) \in Nat
          /\ Len(db') = Len(db) + 1
          /\ db'[Len(db) + 1] = NewRow(db, req[p])
      BY <2>1, AdmittedReadable, AppendKeeps DEF IInv, TypeOK
    <2>3. /\ NewRow(db, req[p]).acceptance = req[p].acceptance
          /\ NewRow(db, req[p]).verified = req[p].now
          /\ NewRow(db, req[p]).predecessor = req[p].predecessor
      BY <2>1 DEF NewRow, Admits, PredecessorExpected
    <2>4. Len(db) + 1 \in 1..Len(db')  BY <2>2, SMT
    <2> QED  BY <2>2, <2>3, <2>4
  <1>3. PICK p \in Proc : Verify(p) \/ StartSummary(p) \/ Step(p) \/ Crash(p)
    BY DEF Next
  <1>4. /\ \A o \in Proc : answer'[o] = "registered" => pc'[o] = "done"
        /\ \A o \in Proc : answer'[o] = "registered" =>
              \/ answer[o] = "registered" /\ req'[o] = req[o]
              \/ Commit(o, "registered") /\ req'[o] = req[o]
    <2> USE DEF IInv, TypeOK, AnswerInv, Steps, Answers, Goto, Leave
    <2>1. CASE Verify(p)  BY <2>1 DEF Verify, Start
    <2>2. CASE StartSummary(p)  BY <2>2 DEF StartSummary
    <2>3. CASE Begin(p)  BY <2>3 DEF Begin
    <2>4. CASE BeginBusy(p)  BY <2>4 DEF BeginBusy
    <2>5. CASE pc[p] = "deciding" /\ Replay(p)  BY <2>5 DEF Replay, DecideAnswer
    <2>6. CASE pc[p] = "deciding" /\ Insert(p)  BY <2>6 DEF Insert, DecideWrite
    <2>7. CASE pc[p] = "deciding" /\ Refuse(p)  BY <2>7 DEF Refuse, DecideRefuse
    <2>8. CASE StartCommit(p)  BY <2>8 DEF StartCommit
    <2>9. CASE Commit(p, "registered")
      <3>1. /\ answer' = [answer EXCEPT ![p] = "registered"]
            /\ pc' = [pc EXCEPT ![p] = "done"]
            /\ req' = req
        BY <2>9 DEF Commit
      <3>2. \A o \in Proc \ {p} : answer'[o] = answer[o] /\ pc'[o] = pc[o]  BY <3>1
      <3>3. pc'[p] = "done"  BY <3>1
      <3> QED  BY <2>9, <3>1, <3>2, <3>3
    <2>10. CASE CommitBusy(p)  BY <2>10 DEF CommitBusy
    <2>11. CASE Reply(p)  BY <2>11 DEF Reply
    <2>12. CASE EndSummary(p)  BY <2>12 DEF EndSummary
    <2>13. CASE Crash(p)  BY <2>13 DEF Crash
    <2> QED
      BY <1>3, <2>1, <2>2, <2>3, <2>4, <2>5, <2>6, <2>7, <2>8, <2>9, <2>10, <2>11,
         <2>12, <2>13 DEF Step
  <1>5. AnswerDurable'
    BY <1>1, <1>2, <1>4 DEF AnswerInv, AnswerDurable
  <1> QED  BY <1>4, <1>5 DEF AnswerInv

\* Whoever answers "registered" has its row in the committed file, under the
\* predecessor the caller named.
THEOREM AnswersAreDurable == Spec => []AnswerDurable
  <1>1. Init => AnswerInv
    BY DEF Init, CommandInit, AnswerInv, AnswerDurable
  <1>2. ASSUME IInv, AnswerInv, [Next]_vars PROVE AnswerInv'
    <2>1. CASE Next  BY <1>2, <2>1, StepAnswers
    <2>2. CASE UNCHANGED vars
      BY <1>2, <2>2 DEF AnswerInv, AnswerDurable, vars, commandVars, storeVars
    <2> QED  BY <1>2, <2>1, <2>2
  <1>3. AnswerInv => AnswerDurable  BY DEF AnswerInv
  <1> QED  BY Invariant, <1>1, <1>2, <1>3, PTL DEF Spec

------------------------------------------------------------------------------
(* Refinement                                                               *)

\* A commit is an Assign of the ledger: it changes what counts for the task of
\* the committed acceptance and for no other.
LEMMA CommitAssigns ==
    ASSUME TypeOK, TypeOK', NEW q \in Verifiable, Admits(db, q), Authorized(db),
           db' = Append(db, NewRow(db, q))
    PROVE  Ledger!Assign(q.acceptance, q.now)
  <1> DEFINE x == NewRow(db, q)
             n == Len(db)
             a == q.acceptance
             t == TaskOf(a)
             used == {db[i].acceptance : i \in 1..Len(db)}
             current == [s \in Task |-> CurrentAssignment(s)]
             new == [acceptance |-> a, verified |-> q.now, released |-> NotReleased]
  <1>1. db \in Seq(Row) /\ n \in Nat  BY LenProperties DEF TypeOK
  <1>2. x \in Row  BY <1>1, AdmittedReadable
  <1>3. /\ Len(db') = n + 1
        /\ \A i \in 1..n : db'[i] = db[i]
        /\ db'[n + 1] = x
    BY <1>1, <1>2, AppendKeeps
  <1>4. x.acceptance = a /\ x.verified = q.now  BY DEF NewRow
  <1>5. \A i \in 1..n : db[i] \in Row  BY <1>1, ElementOfSeq
  <1> HIDE DEF x
  <1>6. t \in Task
    BY VerifiableRequest, ClaimAssumption DEF TaskOf, Task, ClaimRecord
  <1>7. a \notin used  BY DEF Admits, UniqueKey
  <1>8. ASSUME current[t] # NoAssignment
        PROVE  /\ ~ Ledger!Binds(current[t], a, q.now)
               /\ current[t].verified <= q.now
    <2>1. HasCurrent(db, t)  BY <1>6, <1>8 DEF CurrentAssignment
    <2>2. PICK i \in 1..n : IsLatest(db, t, n, i)
      BY <2>1 DEF HasCurrent, HasLatest
    <2>3. Current(db, t) = db[i]  BY <1>1, <2>2, LatestIs DEF Current
    <2>4. /\ current[t].acceptance = db[i].acceptance
          /\ current[t].verified = db[i].verified
      BY <1>6, <2>1, <2>3 DEF CurrentAssignment
    <2>5. /\ db[i].verified \in Nat
          /\ Claim[db[i].acceptance].expires \in Nat
          /\ q.now \in Nat
      BY <1>5, VerifiableRequest, ClaimAssumption, InstantAssumption
      DEF Row, ClaimRecord
    <2>6. current[t].verified <= q.now
      <3>1. ~ (q.now < db[i].verified)
        BY <2>1, <2>3 DEF Admits, ClockBehind
      <3> QED  BY <2>4, <2>5, <3>1, SMT
    <2>7. ASSUME Claim[db[i].acceptance].policy = Claim[a].policy
          PROVE  ~ (q.now < Claim[db[i].acceptance].expires)
      <3>1. Claim[db[i].acceptance].expires <= q.now
        BY <1>1, <2>2, <2>7, NotCompeting
      <3> QED  BY <2>5, <3>1, SMT
    <2> HIDE DEF current
    <2> QED  BY <2>4, <2>6, <2>7, Zenon DEF Ledger!Binds
  <1>9. IsLatest(db', t, n + 1, n + 1)
    BY <1>1, <1>3, <1>4, SMT DEF IsLatest
  <1>10. CurrentAssignment(t)' = new
    <2>1. Len(db') \in Nat /\ Len(db') = n + 1  BY <1>1, <1>3, SMT
    <2>2. HasCurrent(db', t) /\ Current(db', t) = x
      BY <1>3, <1>9, <2>1, LatestIs DEF HasCurrent, Current
    <2> QED  BY <1>4, <2>2 DEF CurrentAssignment
  <1>11. ASSUME NEW s \in Task, s # t
         PROVE  CurrentAssignment(s)' = CurrentAssignment(s)
    <2>1. ASSUME NEW i
          PROVE  IsLatest(db', s, n + 1, i) <=> IsLatest(db, s, n, i)
      <3>1. TaskOf(db'[n + 1].acceptance) # s  BY <1>3, <1>4, <1>11
      <3> HIDE DEF t, n
      <3>2. CASE i \in 1..n
        <4>1. db'[i] = db[i] /\ i \in 1..(n + 1)  BY <1>1, <1>3, <3>2, SMT
        <4>2. \A k \in (i+1)..n : db'[k] = db[k]  BY <1>1, <1>3, <3>2, SMT
        <4>3. \A k : k \in (i+1)..(n+1) <=> k \in (i+1)..n \/ k = n + 1
          BY <1>1, <3>2, SMT
        <4> QED  BY <3>1, <3>2, <4>1, <4>2, <4>3 DEF IsLatest
      <3>3. CASE i \notin 1..n
        <4>1. i \in 1..(n + 1) => i = n + 1  BY <1>1, <3>3, SMT
        <4> QED  BY <3>1, <3>3, <4>1 DEF IsLatest
      <3> QED  BY <3>2, <3>3
    <2>2. Len(db') \in Nat /\ Len(db') = n + 1  BY <1>1, <1>3, SMT
    <2>3. HasCurrent(db', s) <=> HasCurrent(db, s)
      <3>1. \A i : IsLatest(db, s, n, i) => i \in 1..n  BY DEF IsLatest
      <3>2. \A i \in 1..n : i \in 1..(n + 1)  BY <1>1, SMT
      <3> QED  BY <2>1, <2>2, <3>1, <3>2 DEF HasCurrent, HasLatest
    <2>4. ASSUME HasCurrent(db, s) PROVE Current(db', s) = Current(db, s)
      <3>1. PICK i \in 1..n : IsLatest(db, s, n, i)
        BY <2>4 DEF HasCurrent, HasLatest
      <3>2. Current(db, s) = db[i]  BY <1>1, <3>1, LatestIs DEF Current
      <3>3. Current(db', s) = db'[i]  BY <2>1, <2>2, <3>1, LatestIs DEF Current
      <3> QED  BY <1>3, <3>1, <3>2, <3>3
    <2> QED  BY <2>3, <2>4 DEF CurrentAssignment
  <1>12. current' = [current EXCEPT ![t] = new]  BY <1>6, <1>10, <1>11
  <1>13. used' = used \cup {a}
    <2>1. \A i : i \in 1..Len(db') <=> i \in 1..n \/ i = n + 1  BY <1>1, <1>3, SMT
    <2>2. \A b : b \in used' <=> b \in used \/ b = a
      BY <1>3, <1>4, <2>1
    <2> HIDE DEF used
    <2> QED  BY <2>2
  <1>14. Claim[a].accepted <= q.now /\ q.now < Claim[a].expires
    BY VerifiableRequest
  <1> HIDE DEF current, used, new, t
  <1>15. /\ a \notin used
         /\ Claim[a].accepted <= q.now
         /\ q.now < Claim[a].expires
         /\ current[t] # NoAssignment =>
               /\ ~ Ledger!Binds(current[t], a, q.now)
               /\ current[t].verified <= q.now
         /\ current' = [current EXCEPT ![t] = new]
         /\ used' = used \cup {a}
    BY <1>7, <1>8, <1>12, <1>13, <1>14
  <1>16. Ledger!TaskOf(a) = t  BY DEF Ledger!TaskOf, TaskOf, t
  <1> QED  BY <1>15, <1>16, Zenon DEF Ledger!Assign, current, used, new

\* The file, the locks, the processes and their crashes implement the ledger,
\* which knows none of them.
THEOREM Refinement == Spec => ImplementsLedger
  <1>1. Init => Ledger!LedgerInit
    <2> SUFFICES ASSUME Init PROVE Ledger!LedgerInit  OBVIOUS
    <2>1. db = <<>> /\ Len(db) = 0  BY DEF Init, CommandInit, StoreInit
    <2>2. 1..Len(db) = {}  BY <2>1, SMT
    <2>3. \A t : ~ HasCurrent(db, t)  BY <2>2 DEF HasCurrent, HasLatest
    <2> QED
      BY <2>2, <2>3 DEF Ledger!LedgerInit, CurrentAssignment, Ledger!Task, Task
  <1>2. ASSUME IInv, IInv', [Next]_vars
        PROVE  [Ledger!LedgerNext]_Ledger!ledgerVars
    <2>1. CASE db' = db
      BY <2>1 DEF Ledger!ledgerVars, CurrentAssignment
    <2>2. CASE \E q \in Verifiable :
                  Admits(db, q) /\ db' = Append(db, NewRow(db, q))
      <3>1. PICK q \in Verifiable :
               Admits(db, q) /\ db' = Append(db, NewRow(db, q))
        BY <2>2
      <3>2. Ledger!Assign(q.acceptance, q.now)
        BY <1>2, <3>1, CommitAssigns DEF IInv
      <3> QED  BY <3>2, VerifiableRequest DEF Ledger!LedgerNext
    <2>3. CASE UNCHANGED vars
      BY <2>1, <2>3 DEF vars, commandVars, storeVars
    <2> QED  BY <1>2, <2>1, <2>2, <2>3, StepTransactions DEF IInv
  <1> QED
    BY Invariant, <1>1, <1>2, PTL DEF Spec, ImplementsLedger, Ledger!LedgerSpec
==============================================================================
