------------------------ MODULE LifecycleJournalProofs ------------------------
(***************************************************************************)
(* The inductive invariant of LifecycleJournal and what follows from it.    *)
(*                                                                          *)
(* As in version 1 only Commit changes the database, by one row of one of   *)
(* its two tables.  The proof is about four things: what the locks keep     *)
(* apart, that each of the two rows leaves both tables readable, why a      *)
(* successor was admitted, and that a reader's two reads are of one moment. *)
(***************************************************************************)
EXTENDS LifecycleJournal, JournalHistoryProofs

------------------------------------------------------------------------------
(* The inductive invariant                                                  *)

Answers == {"none", "appended", "already_registered", "already_released"}

TypeOK ==
    /\ db \in Database
    /\ txn \in [Proc -> Database \cup {NoTransaction}]
    /\ reserved \subseteq Proc
    /\ pending \subseteq Proc
    /\ shared \subseteq Proc
    /\ pc \in [Proc -> Steps]
    /\ req \in [Proc -> Verifiable \cup {NoRequest}]
    /\ answer \in [Proc -> Answers]

Writing == {"deciding", "inserted", "committing"}

\* Who holds which lock, and what is known of a command that has come so far.
LockInv ==
    /\ \A p \in Proc : pc[p] \in Writing <=> p \in reserved
    /\ \A p, q \in reserved : p = q
    /\ \A p \in Proc : pc[p] = "committing" <=> p \in pending
    /\ \A p \in Proc : pc[p] = "reading" <=> p \in shared
    /\ \A p \in Proc : pc[p] \in {"verified", "deciding", "inserted", "committing", "done"} =>
          req[p] \in Verifiable

\* What a command's write makes of the database.
Registers(d, q, e) ==
    /\ q.op = "register" /\ Admits(d, q)
    /\ e = [d EXCEPT !.rows = Append(@, NewRow(d.rows, q))]

Releases(d, q, e) ==
    /\ q.op = "release" /\ AdmitsRelease(d, q)
    /\ e = [d EXCEPT !.releases = Append(@, NewRelease(q))]

Writes(d, q, e) == Registers(d, q, e) \/ Releases(d, q, e)

\* A transaction decides from the committed tables, a summary reads them, and what
\* a transaction is about to commit is those tables and one row they admit.
TransactionInv ==
    /\ \A p \in Proc : pc[p] \in {"deciding", "reading"} => txn[p] = db
    /\ \A p \in Proc : pc[p] \in {"inserted", "committing"} => Writes(db, req[p], txn[p])

\* Every retained row's key is granted its task by the policy it was signed for.
Authorized(rows) ==
    \A i \in 1..Len(rows) :
       GrantOf(rows[i].acceptance) \in Authority[Claim[rows[i].acceptance].policy].active

\* The tables are readable, and every row of a task has its reason to follow.
TablesInv(d) ==
    /\ Loads(d)
    /\ Authorized(d.rows)
    /\ \A i, j \in 1..Len(d.rows) : Succeeds(d, i, j)
    /\ \A k \in 1..Len(d.releases), j \in 1..Len(d.rows) : Precedes(d, k, j)

IInv == TypeOK /\ LockInv /\ TransactionInv /\ TablesInv(db)

------------------------------------------------------------------------------
(* The tables                                                               *)

\* What is established about a register before it asks for the lock.
LEMMA VerifiableRegister ==
    ASSUME NEW q \in Verifiable, q.op = "register"
    PROVE  /\ q.acceptance \in Acceptance
           /\ q.now \in Instant
           /\ q.pin \in Policy
           /\ Claim[q.acceptance].accepted <= q.now
           /\ q.now < Claim[q.acceptance].expires
           /\ Claim[q.acceptance].policy = q.pin
           /\ Claim[q.acceptance].audience = Authority[q.pin].audience
           /\ GrantOf(q.acceptance) \in Authority[q.pin].active
  <1>1. q \in RegisterRequest
        /\ \E w \in Workflow : AcceptResponsibility(q.acceptance, w, q.pin, q.now)
    BY DEF Verifiable, ReleaseRequest
  <1>2. PICK w \in Workflow : AcceptResponsibility(q.acceptance, w, q.pin, q.now)
    BY <1>1
  <1>3. VerifyClaim(q.acceptance, w, q.pin, q.now)  BY <1>2 DEF AcceptResponsibility
  <1> QED  BY <1>1, <1>3 DEF VerifyClaim, RegisterRequest

\* A release is well-typed; whether it is anybody's is checked under the lock.
LEMMA VerifiableRelease ==
    ASSUME NEW q \in Verifiable, q.op = "release"
    PROVE  q.release \in Release /\ q.pin \in Policy /\ q.now \in Instant
  BY DEF Verifiable, RegisterRequest, ReleaseRequest

\* The arithmetic of a claim and of a release
LEMMA ClaimTypes ==
    ASSUME NEW a \in Acceptance
    PROVE  /\ Claim[a].accepted \in Nat /\ Claim[a].expires \in Nat
           /\ TaskOf(a) \in Task
  BY ClaimAssumption, InstantAssumption DEF ClaimRecord, TaskOf, Task

LEMMA ReleaseTypes ==
    ASSUME NEW r \in Release
    PROVE  /\ ReleaseClaim[r].acceptance \in Acceptance
           /\ ReleaseClaim[r].released \in Nat /\ ReleaseClaim[r].expires \in Nat
           /\ ReleaseClaim[r].task \in Task
  BY ReleaseClaimAssumption, InstantAssumption DEF ReleaseRecord

\* The UNIQUE columns: a digest is in one row, and released once.
LEMMA DigestsDiffer ==
    ASSUME NEW rows \in Seq(Row), HistoryOK(rows),
           NEW i \in 1..Len(rows), NEW j \in 1..Len(rows),
           rows[i].acceptance = rows[j].acceptance
    PROVE  i = j
  <1>1. i \in Nat /\ j \in Nat /\ Len(rows) \in Nat  BY LenProperties
  <1>2. ~ (i < j)
    <2> SUFFICES ASSUME i < j PROVE FALSE  OBVIOUS
    <2>1. i \in 1..(j-1)  BY <1>1
    <2> QED  BY <2>1 DEF HistoryOK, RowLinked
  <1>3. ~ (j < i)
    <2> SUFFICES ASSUME j < i PROVE FALSE  OBVIOUS
    <2>1. j \in 1..(i-1)  BY <1>1
    <2> QED  BY <2>1 DEF HistoryOK, RowLinked
  <1> QED  BY <1>1, <1>2, <1>3

LEMMA RowOfIs ==
    ASSUME NEW rows \in Seq(Row), HistoryOK(rows), NEW i \in 1..Len(rows)
    PROVE  Retained(rows, rows[i].acceptance) /\ RowOf(rows, rows[i].acceptance) = rows[i]
  BY DigestsDiffer DEF Retained, RowOf

LEMMA ReleasesDiffer ==
    ASSUME NEW rows, NEW releases \in Seq(ReleaseRow), ReleasesOK(rows, releases),
           NEW k \in 1..Len(releases), NEW l \in 1..Len(releases),
           releases[k].acceptance = releases[l].acceptance
    PROVE  k = l
  <1>1. k \in Nat /\ l \in Nat /\ Len(releases) \in Nat  BY LenProperties
  <1>2. ~ (k < l)
    <2> SUFFICES ASSUME k < l PROVE FALSE  OBVIOUS
    <2>1. k \in 1..(l-1)  BY <1>1
    <2> QED  BY <2>1 DEF ReleasesOK, ReleaseLinked
  <1>3. ~ (l < k)
    <2> SUFFICES ASSUME l < k PROVE FALSE  OBVIOUS
    <2>1. l \in 1..(k-1)  BY <1>1
    <2> QED  BY <2>1 DEF ReleasesOK, ReleaseLinked
  <1> QED  BY <1>1, <1>2, <1>3

LEMMA ReleaseOfIs ==
    ASSUME NEW rows, NEW releases \in Seq(ReleaseRow), ReleasesOK(rows, releases),
           NEW k \in 1..Len(releases)
    PROVE  /\ IsReleased(releases, releases[k].acceptance)
           /\ ReleaseOf(releases, releases[k].acceptance) = releases[k]
  BY ReleasesDiffer DEF IsReleased, ReleaseOf

\* A longer acceptance table disturbs no release of a row it had before.
LEMMA ReleasesOfMore ==
    ASSUME NEW rows \in Seq(Row), NEW more \in Seq(Row), NEW releases \in Seq(ReleaseRow),
           HistoryOK(rows), HistoryOK(more), ReleasesOK(rows, releases),
           Len(rows) <= Len(more), \A i \in 1..Len(rows) : more[i] = rows[i]
    PROVE  ReleasesOK(more, releases)
  <1>1. ASSUME NEW a, Retained(rows, a)
        PROVE  Retained(more, a) /\ RowOf(more, a) = RowOf(rows, a)
    <2>1. PICK i \in 1..Len(rows) : rows[i].acceptance = a  BY <1>1 DEF Retained
    <2>2. Len(rows) \in Nat /\ Len(more) \in Nat  BY LenProperties
    <2>3. i \in 1..Len(more) /\ more[i] = rows[i]  BY <2>1, <2>2
    <2> QED  BY <2>1, <2>3, RowOfIs
  <1> QED  BY <1>1 DEF ReleasesOK, ReleaseLinked

\* A longer release table keeps the releases it had before.
LEMMA ReleasePrefix ==
    ASSUME NEW releases \in Seq(ReleaseRow), NEW r \in ReleaseRow,
           ~ IsReleased(releases, r.acceptance), NEW a
    PROVE  LET more == Append(releases, r)
           IN  /\ IsReleased(more, a) <=> IsReleased(releases, a) \/ a = r.acceptance
               /\ IsReleased(releases, a) => ReleaseOf(more, a) = ReleaseOf(releases, a)
               /\ ReleaseOf(more, r.acceptance) = r
  <1> DEFINE more == Append(releases, r)
             n == Len(releases)
  <1>1. /\ n \in Nat /\ Len(more) = n + 1 /\ more[n + 1] = r
        /\ \A k \in 1..n : more[k] = releases[k]
    BY AppendKeeps
  <1> HIDE DEF more
  <1>2. \A k : k \in 1..Len(more) <=> k \in 1..n \/ k = n + 1
    BY <1>1
  <1>3. IsReleased(more, a) <=> IsReleased(releases, a) \/ a = r.acceptance
    BY <1>1, <1>2 DEF IsReleased
  <1>4. ASSUME IsReleased(releases, a) PROVE ReleaseOf(more, a) = ReleaseOf(releases, a)
    <2>1. a # r.acceptance  BY <1>4
    <2>2. \A k : /\ k \in 1..Len(more) /\ more[k].acceptance = a
                 <=> k \in 1..n /\ releases[k].acceptance = a
      BY <1>1, <1>2, <2>1
    <2>3. (CHOOSE k \in 1..Len(more) : more[k].acceptance = a)
            = (CHOOSE k \in 1..n : releases[k].acceptance = a)
      BY <2>2
    <2>4. (CHOOSE k \in 1..n : releases[k].acceptance = a) \in 1..n
      BY <1>4 DEF IsReleased
    <2> QED  BY <1>1, <2>3, <2>4 DEF ReleaseOf
  <1>5. ReleaseOf(more, r.acceptance) = r
    <2>1. \A k \in 1..Len(more) : more[k].acceptance = r.acceptance <=> k = n + 1
      BY <1>1, <1>2 DEF IsReleased
    <2>2. n + 1 \in 1..Len(more)  BY <1>2
    <2> QED  BY <1>1, <2>1, <2>2 DEF ReleaseOf
  <1> QED  BY <1>3, <1>4, <1>5 DEF more
------------------------------------------------------------------------------
(* A registered row                                                         *)

\* An admitted row has the type of a row and leaves both tables readable.
LEMMA RegisteredReadable ==
    ASSUME NEW d \in Database, NEW q \in Verifiable, q.op = "register", Admits(d, q)
    PROVE  LET more == Append(d.rows, NewRow(d.rows, q)) IN
           /\ NewRow(d.rows, q) \in Row
           /\ more \in Seq(Row)
           /\ HistoryOK(more)
           /\ ReleasesOK(more, d.releases)
  <1> DEFINE x == NewRow(d.rows, q)
             more == Append(d.rows, x)
  <1>1. d.rows \in Seq(Row) /\ d.releases \in Seq(ReleaseRow)  BY DEF Database
  <1>2. /\ HistoryOK(d.rows) /\ ReleasesOK(d.rows, d.releases)
        /\ ~ ClockBehind(d.rows, q) /\ HasRoom(d.rows)
        /\ UniqueKey(d.rows, q.acceptance)
    BY DEF Admits, Loads
  <1>3. x \in Row /\ HistoryOK(more)
    BY <1>1, <1>2, VerifiableRegister, AppendReadable
  <1>4. /\ more \in Seq(Row)
        /\ Len(d.rows) \in Nat
        /\ Len(more) = Len(d.rows) + 1
        /\ \A i \in 1..Len(d.rows) : more[i] = d.rows[i]
    BY <1>1, <1>3, AppendKeeps
  <1>5. Len(d.rows) <= Len(more)  BY <1>4, SMT
  <1> HIDE DEF more, x
  <1>6. ReleasesOK(more, d.releases)
    BY <1>1, <1>2, <1>3, <1>4, <1>5, ReleasesOfMore
  <1> QED  BY <1>3, <1>4, <1>6 DEF more, x

\* If the task's newest row was given back, the newcomer accepted after that.
LEMMA AfterRelease ==
    ASSUME NEW d \in Database, NEW q \in Verifiable, q.op = "register", Admits(d, q),
           NEW i, IsLatest(d.rows, TaskOf(q.acceptance), Len(d.rows), i)
    PROVE  /\ CurrentDigest(d.rows, TaskOf(q.acceptance)) = d.rows[i].acceptance
           /\ \A k \in 1..Len(d.releases) :
                 d.releases[k].acceptance = d.rows[i].acceptance =>
                    /\ ReleaseOf(d.releases, d.rows[i].acceptance) = d.releases[k]
                    /\ d.releases[k].verified <= Claim[q.acceptance].accepted
  <1> DEFINE t == TaskOf(q.acceptance)
             a == d.rows[i].acceptance
  <1>1. /\ d.rows \in Seq(Row) /\ d.releases \in Seq(ReleaseRow)
        /\ Len(d.rows) \in Nat
    BY LenProperties DEF Database
  <1>2. HasLatest(d.rows, t, Len(d.rows)) /\ LatestRow(d.rows, t, Len(d.rows)) = d.rows[i]
    BY <1>1, LatestIs
  <1>3. CurrentDigest(d.rows, t) = a  BY <1>2 DEF CurrentDigest, LatestDigest
  <1>4. ASSUME NEW k \in 1..Len(d.releases), d.releases[k].acceptance = a
        PROVE  /\ ReleaseOf(d.releases, a) = d.releases[k]
               /\ d.releases[k].verified <= Claim[q.acceptance].accepted
    <2>1. ReleasesOK(d.rows, d.releases)  BY DEF Admits, Loads
    <2>2. IsReleased(d.releases, a) /\ ReleaseOf(d.releases, a) = d.releases[k]
      BY <1>1, <1>4, <2>1, ReleaseOfIs
    <2>3. ~ (Claim[q.acceptance].accepted < d.releases[k].verified)
      BY <1>3, <2>2 DEF Admits, Predates, PriorReleased, PriorRelease
    <2>4. d.releases[k].verified \in Nat
      <3>1. d.releases[k] \in ReleaseRow  BY <1>1, <1>4, ElementOfSeq
      <3> QED  BY <3>1, InstantAssumption DEF ReleaseRow
    <2>5. Claim[q.acceptance].accepted \in Nat  BY VerifiableRegister, ClaimTypes
    <2> QED  BY <2>2, <2>3, <2>4, <2>5, SMT
  <1> QED  BY <1>3, <1>4

\* If it was not, and was registered under the same policy bytes, it has expired:
\* the key that signed it is still active under them, as in version 1.
LEMMA NotCompeting ==
    ASSUME NEW d \in Database, NEW q \in Verifiable, q.op = "register", Admits(d, q),
           Authorized(d.rows),
           NEW i, IsLatest(d.rows, TaskOf(q.acceptance), Len(d.rows), i),
           Claim[d.rows[i].acceptance].policy = Claim[q.acceptance].policy,
           ~ IsReleased(d.releases, d.rows[i].acceptance)
    PROVE  Claim[d.rows[i].acceptance].expires <= q.now
  <1> DEFINE t == TaskOf(q.acceptance)
             r == d.rows[i]
             c == Claim[r.acceptance]
  <1>1. d.rows \in Seq(Row) /\ Len(d.rows) \in Nat  BY LenProperties DEF Database
  <1>2. i \in 1..Len(d.rows) /\ TaskOf(r.acceptance) = t  BY DEF IsLatest
  <1>3. r \in Row  BY <1>1, <1>2, ElementOfSeq
  <1>4. HasCurrent(d.rows, t) /\ Current(d.rows, t) = r
    BY <1>1, LatestIs DEF HasCurrent, Current
  <1>5. ~ PriorReleased(d, q)  BY AfterRelease DEF PriorReleased
  <1>6. StateOf(r, q.pin, q.now) \notin {"eligible_for_reverification", "clock_error"}
    BY <1>4, <1>5 DEF Admits, CompetesUnreleased, Competes
  <1>7. c.policy = q.pin  BY VerifiableRegister
  <1>8. c.audience = Authority[q.pin].audience
    BY <1>2, VerifiableRegister DEF TaskOf
  <1>9. GrantOf(r.acceptance) \in Authority[q.pin].active
    BY <1>2, <1>7 DEF Authorized
  <1>10. c.accepted \in Nat /\ c.expires \in Nat /\ q.now \in Nat
    BY <1>3, VerifiableRegister, ClaimTypes, InstantAssumption DEF Row
  <1>11. ~ (q.now < c.accepted) /\ q.now >= c.expires
    <2> HIDE DEF r
    <2> QED  BY <1>6, <1>7, <1>8, <1>9, Zenon DEF StateOf
  <1> QED  BY <1>10, <1>11, SMT

\* A registered row keeps the tables in order.
LEMMA RegisterKeepsTables ==
    ASSUME NEW d \in Database, NEW q \in Verifiable, NEW e, Registers(d, q, e),
           TablesInv(d)
    PROVE  e \in Database /\ TablesInv(e)
  <1> DEFINE x == NewRow(d.rows, q)
             more == Append(d.rows, x)
             n == Len(d.rows)
  <1>1. q.op = "register" /\ Admits(d, q)  BY DEF Registers
  <1>2. d.rows \in Seq(Row) /\ d.releases \in Seq(ReleaseRow)  BY DEF Database
  <1>3. e = [rows |-> more, releases |-> d.releases]  BY DEF Registers, Database
  <1>4. e.rows = more /\ e.releases = d.releases  BY <1>3
  <1>5. /\ x \in Row /\ more \in Seq(Row)
        /\ HistoryOK(more) /\ ReleasesOK(more, d.releases)
    BY <1>1, RegisteredReadable
  <1>6. /\ n \in Nat
        /\ Len(more) = n + 1
        /\ \A i \in 1..n : more[i] = d.rows[i]
        /\ more[n + 1] = x
    BY <1>2, <1>5, AppendKeeps
  <1>7. x.acceptance = q.acceptance /\ x.verified = q.now  BY DEF NewRow
  <1> HIDE DEF more, x
  <1>8. /\ Authorized(d.rows)
        /\ \A i, j \in 1..n : Succeeds(d, i, j)
        /\ \A k \in 1..Len(d.releases), j \in 1..n : Precedes(d, k, j)
    BY DEF TablesInv
  <1>9. ASSUME NEW i, NEW j \in 1..(n + 1), IsLatest(more, TaskOf(more[j].acceptance), j-1, i)
        PROVE  /\ i \in 1..n /\ more[i] = d.rows[i]
               /\ IsLatest(d.rows, TaskOf(more[j].acceptance), j-1, i)
               /\ j \in 1..n => more[j] = d.rows[j]
               /\ j = n + 1 => more[j] = x /\ j-1 = n
    <2>1. j-1 \in Nat /\ i \in 1..(j-1)  BY <1>6, <1>9 DEF IsLatest
    <2>2. i \in 1..n /\ j-1 <= n  BY <1>6, <2>1, SMT
    <2>3. \A k \in 1..(j-1) : more[k] = d.rows[k]  BY <1>6, <2>1, <2>2, SMT
    <2>4. IsLatest(d.rows, TaskOf(more[j].acceptance), j-1, i)
      BY <1>9, <2>1, <2>3, LatestPrefix
    <2>5. j = n + 1 => j-1 = n  BY <1>6, SMT
    <2> QED  BY <1>6, <2>2, <2>4, <2>5
  <1>10. ASSUME NEW i \in 1..(n + 1), NEW j \in 1..(n + 1)
         PROVE  Succeeds(e, i, j)
    <2> DEFINE a == more[i].acceptance
               b == more[j].acceptance
    <2>1. SUFFICES ASSUME IsLatest(more, TaskOf(b), j-1, i), Claim[a].policy = Claim[b].policy
                   PROVE  \/ Claim[a].expires <= more[j].verified
                          \/ /\ IsReleased(d.releases, a)
                             /\ ReleaseOf(d.releases, a).verified <= Claim[b].accepted
      BY <1>4 DEF Succeeds
    <2>2. CASE j \in 1..n
      <3>1. Succeeds(d, i, j)  BY <1>8, <1>9, <2>1, <2>2
      <3> QED  BY <1>9, <2>1, <2>2, <3>1 DEF Succeeds
    <2>3. CASE j = n + 1
      <3>1. /\ a = d.rows[i].acceptance /\ b = q.acceptance /\ more[j].verified = q.now
            /\ IsLatest(d.rows, TaskOf(q.acceptance), n, i)
        BY <1>7, <1>9, <2>1, <2>3
      <3>2. CASE IsReleased(d.releases, a)
        <4>1. PICK k \in 1..Len(d.releases) : d.releases[k].acceptance = a
          BY <3>2 DEF IsReleased
        <4> QED  BY <1>1, <3>1, <3>2, <4>1, AfterRelease
      <3>3. CASE ~ IsReleased(d.releases, a)
        BY <1>1, <1>8, <2>1, <3>1, <3>3, NotCompeting
      <3> QED  BY <3>2, <3>3
    <2> QED  BY <1>6, <2>2, <2>3, SMT
  <1>11. ASSUME NEW k \in 1..Len(d.releases), NEW j \in 1..(n + 1)
         PROVE  Precedes(e, k, j)
    <2> DEFINE b == more[j].acceptance
    <2>1. SUFFICES ASSUME NEW i \in 1..(n + 1), IsLatest(more, TaskOf(b), j-1, i),
                          d.releases[k].acceptance = more[i].acceptance
                   PROVE  d.releases[k].verified <= Claim[b].accepted
      BY <1>4, <1>6 DEF Precedes
    <2>2. CASE j \in 1..n
      <3>1. Precedes(d, k, j)  BY <1>8, <2>2
      <3> QED  BY <1>9, <2>1, <2>2, <3>1 DEF Precedes
    <2>3. CASE j = n + 1
      <3>1. /\ more[i] = d.rows[i] /\ b = q.acceptance
            /\ IsLatest(d.rows, TaskOf(q.acceptance), n, i)
        BY <1>7, <1>9, <2>1, <2>3
      <3> QED  BY <1>1, <2>1, <3>1, AfterRelease
    <2> QED  BY <1>6, <2>2, <2>3, SMT
  <1>12. Authorized(more)
    <2> SUFFICES ASSUME NEW i \in 1..(n + 1)
                 PROVE  GrantOf(more[i].acceptance) \in
                           Authority[Claim[more[i].acceptance].policy].active
      BY <1>6 DEF Authorized
    <2>1. CASE i \in 1..n  BY <1>6, <1>8, <2>1 DEF Authorized
    <2>2. CASE i = n + 1  BY <1>1, <1>6, <1>7, <2>2, VerifiableRegister
    <2> QED  BY <1>6, <2>1, <2>2, SMT
  <1>13. e \in Database  BY <1>2, <1>3, <1>5 DEF Database
  <1> QED  BY <1>4, <1>5, <1>6, <1>10, <1>11, <1>12, <1>13 DEF TablesInv, Loads
------------------------------------------------------------------------------
(* A retained release                                                       *)

\* An admitted release is of the newest row of its task.
LEMMA ReleaseTarget ==
    ASSUME NEW d \in Database, NEW q \in Verifiable, q.op = "release",
           AdmitsRelease(d, q)
    PROVE  \E m \in 1..Len(d.rows) :
              /\ IsLatest(d.rows, TaskOf(d.rows[m].acceptance), Len(d.rows), m)
              /\ TargetOf(q) = d.rows[m].acceptance
              /\ VerifyRelease(q.release, d.rows[m], q.pin, q.now)
  <1> DEFINE t == ReleaseClaim[q.release].task
  <1>1. Len(d.rows) \in Nat  BY LenProperties DEF Database
  <1>2. HasCurrent(d.rows, t) /\ VerifyRelease(q.release, Current(d.rows, t), q.pin, q.now)
    BY DEF AdmitsRelease, Releasable
  <1>3. PICK m \in 1..Len(d.rows) : IsLatest(d.rows, t, Len(d.rows), m)
    BY <1>2 DEF HasCurrent, HasLatest
  <1>4. Current(d.rows, t) = d.rows[m]  BY <1>1, <1>3, LatestIs DEF Current
  <1>5. TargetOf(q) = d.rows[m].acceptance  BY <1>2, <1>4 DEF VerifyRelease, TargetOf
  <1>6. TaskOf(d.rows[m].acceptance) = t  BY <1>3 DEF IsLatest
  <1> QED  BY <1>2, <1>3, <1>4, <1>5, <1>6

\* A retained release keeps the tables in order.
LEMMA ReleaseKeepsTables ==
    ASSUME NEW d \in Database, NEW q \in Verifiable, NEW e, Releases(d, q, e),
           TablesInv(d)
    PROVE  e \in Database /\ TablesInv(e)
  <1> DEFINE x == NewRelease(q)
             more == Append(d.releases, x)
             n == Len(d.releases)
  <1>1. q.op = "release" /\ AdmitsRelease(d, q)  BY DEF Releases
  <1>2. d.rows \in Seq(Row) /\ d.releases \in Seq(ReleaseRow) /\ Len(d.rows) \in Nat
    BY LenProperties DEF Database
  <1>3. e = [rows |-> d.rows, releases |-> more]  BY DEF Releases, Database
  <1>4. e.rows = d.rows /\ e.releases = more  BY <1>3
  <1>5. /\ HistoryOK(d.rows) /\ ReleasesOK(d.rows, d.releases) /\ Authorized(d.rows)
        /\ \A i, j \in 1..Len(d.rows) : Succeeds(d, i, j)
        /\ \A k \in 1..n, j \in 1..Len(d.rows) : Precedes(d, k, j)
    BY DEF TablesInv, Loads
  <1>6. PICK m \in 1..Len(d.rows) :
              /\ IsLatest(d.rows, TaskOf(d.rows[m].acceptance), Len(d.rows), m)
              /\ TargetOf(q) = d.rows[m].acceptance
              /\ VerifyRelease(q.release, d.rows[m], q.pin, q.now)
    BY <1>1, ReleaseTarget
  <1>7. /\ x.acceptance = d.rows[m].acceptance
        /\ x.release = q.release /\ x.verified = q.now
    BY <1>6 DEF NewRelease
  <1>8. x \in ReleaseRow
    <2>1. q.release \in Release /\ q.now \in Instant  BY <1>1, VerifiableRelease
    <2>2. TargetOf(q) \in Acceptance  BY <2>1, ReleaseTypes DEF TargetOf
    <2> QED  BY <2>1, <2>2 DEF NewRelease, ReleaseRow
  <1>9. ~ IsReleased(d.releases, x.acceptance)  BY <1>1, <1>6, <1>7 DEF AdmitsRelease
  <1>10. /\ n \in Nat
         /\ Len(more) = n + 1
         /\ \A k \in 1..n : more[k] = d.releases[k]
         /\ more[n + 1] = x
         /\ more \in Seq(ReleaseRow)
    BY <1>2, <1>8, AppendKeeps
  <1>11. ASSUME NEW a, IsReleased(d.releases, a)
         PROVE  IsReleased(more, a) /\ ReleaseOf(more, a) = ReleaseOf(d.releases, a)
    BY <1>2, <1>8, <1>9, <1>11, ReleasePrefix
  <1> HIDE DEF more, x
  <1>12. ASSUME NEW k \in 1..n PROVE ReleaseLinked(d.rows, more, k)
    <2>1. ReleaseLinked(d.rows, d.releases, k)  BY <1>5 DEF ReleasesOK
    <2>2. \A l \in 1..(k-1) : l \in 1..n  BY <1>10, SMT
    <2>3. more[k] = d.releases[k] /\ \A l \in 1..(k-1) : more[l] = d.releases[l]
      BY <1>10, <2>2
    <2> QED  BY <2>1, <2>3, Zenon DEF ReleaseLinked
  <1>13. ReleaseLinked(d.rows, more, n + 1)
    <2> DEFINE a == d.rows[m].acceptance
               c == ReleaseClaim[q.release]
    <2>1. more[n + 1].acceptance = a /\ more[n + 1].release = q.release
          /\ more[n + 1].verified = q.now
      BY <1>7, <1>10
    <2>2. Retained(d.rows, a) /\ RowOf(d.rows, a) = d.rows[m]
      BY <1>2, <1>5, <1>6, RowOfIs
    <2>3. \A l \in 1..n : more[l].acceptance # a
      BY <1>7, <1>9, <1>10 DEF IsReleased
    <2>4. n + 1 - 1 = n  BY <1>10, SMT
    <2>5. /\ c.acceptance = a /\ c.task = TaskOf(a) /\ c.key = Claim[a].key
          /\ c.policy = q.pin
          /\ d.rows[m].verified <= c.released /\ c.released <= q.now
          /\ q.now < c.expires /\ c.expires <= Claim[a].expires
      BY <1>6 DEF VerifyRelease
    <2>6. Claim[a].policy = q.pin
      <3>1. StateOf(d.rows[m], q.pin, q.now) = "eligible_for_reverification"
        BY <1>6 DEF VerifyRelease
      <3> QED  BY <3>1 DEF StateOf
    <2> HIDE DEF a
    <2> QED  BY <2>1, <2>2, <2>3, <2>4, <2>5, <2>6 DEF ReleaseLinked
  <1>14. ReleasesOK(d.rows, more)
    <2>1. Len(more) <= MAX_EVENTS
      BY <1>1, <1>10, MaxEventsAssumption, SMT DEF AdmitsRelease
    <2>2. \A k \in 1..(n + 1) : ReleaseLinked(d.rows, more, k)
      BY <1>10, <1>12, <1>13, SMT
    <2> QED  BY <1>10, <2>1, <2>2 DEF ReleasesOK
  <1>15. ASSUME NEW i \in 1..Len(d.rows), NEW j \in 1..Len(d.rows) PROVE Succeeds(e, i, j)
    BY <1>4, <1>5, <1>11 DEF Succeeds
  <1>16. ASSUME NEW k \in 1..(n + 1), NEW j \in 1..Len(d.rows) PROVE Precedes(e, k, j)
    <2>1. CASE k \in 1..n
      <3>1. Precedes(d, k, j) /\ more[k] = d.releases[k]  BY <1>5, <1>10, <2>1
      <3> QED  BY <1>4, <3>1 DEF Precedes
    <2>2. CASE k = n + 1
      <3> SUFFICES ASSUME NEW i \in 1..Len(d.rows),
                          IsLatest(d.rows, TaskOf(d.rows[j].acceptance), j-1, i),
                          d.rows[m].acceptance = d.rows[i].acceptance
                   PROVE  FALSE
        BY <1>4, <1>7, <1>10, <2>2 DEF Precedes
      <3>1. i = m  BY <1>2, <1>5, DigestsDiffer
      <3>2. m \in 1..(j-1) /\ TaskOf(d.rows[m].acceptance) = TaskOf(d.rows[j].acceptance)
        BY <3>1 DEF IsLatest
      <3>3. j \in (m+1)..Len(d.rows)  BY <1>2, <3>2, SMT
      <3> QED  BY <1>6, <3>2, <3>3 DEF IsLatest
    <2> QED  BY <1>10, <2>1, <2>2, SMT
  <1>17. e \in Database  BY <1>2, <1>3, <1>10 DEF Database
  <1> QED  BY <1>4, <1>5, <1>10, <1>14, <1>15, <1>16, <1>17 DEF TablesInv, Loads

\* Either write keeps them.
LEMMA WritesKeepTables ==
    ASSUME NEW d \in Database, NEW q \in Verifiable, NEW e, Writes(d, q, e), TablesInv(d)
    PROVE  e \in Database /\ TablesInv(e)
  BY RegisterKeepsTables, ReleaseKeepsTables DEF Writes
------------------------------------------------------------------------------
(* The inductive invariant is one                                           *)

\* An empty journal with no command satisfies the invariant.
LEMMA InitInvariant == Init => IInv
  <1> SUFFICES ASSUME Init PROVE IInv  OBVIOUS
  <1> USE DEF Init, CommandInit, StoreInit
  <1>1. /\ db = [rows |-> <<>>, releases |-> <<>>]
        /\ db.rows = <<>> /\ db.releases = <<>>
        /\ db.rows \in Seq(Row) /\ db.releases \in Seq(ReleaseRow)
        /\ Len(db.rows) = 0 /\ Len(db.releases) = 0
    BY EmptySeq
  <1>2. db \in Database  BY <1>1 DEF Database
  <1>3. TypeOK  BY <1>2 DEF TypeOK, Steps, Answers
  <1>4. LockInv  BY DEF LockInv, Writing
  <1>5. TransactionInv  BY DEF TransactionInv
  <1>6. 1..Len(db.rows) = {} /\ 1..Len(db.releases) = {}  BY <1>1, SMT
  <1>7. Len(db.rows) <= MAX_EVENTS /\ Len(db.releases) <= MAX_EVENTS
    BY <1>1, MaxEventsAssumption, SMT
  <1>8. TablesInv(db)
    BY <1>6, <1>7, Zenon DEF TablesInv, Loads, HistoryOK, ReleasesOK, Authorized
  <1> QED  BY <1>3, <1>4, <1>5, <1>8 DEF IInv

\* The three ways in which either command ends its decision.
LEMMA Decision ==
    ASSUME NEW p \in Proc, Register(p) \/ GiveBack(p)
    PROVE  \/ DecideAnswer(p, "already_registered")
              /\ req[p].op = "register" /\ AnswersAgain(txn[p], req[p])
           \/ DecideAnswer(p, "already_released")
              /\ req[p].op = "release" /\ ReleasedAgain(txn[p], req[p])
           \/ DecideRefuse(p)
           \/ \E e : Writes(txn[p], req[p], e) /\ DecideWrite(p, e)
  BY DEF Register, GiveBack, Writes, Registers, Releases

\* What the steps before and after a commit leave of the types and the locks.
LEMMA StepLocks ==
    ASSUME IInv, Next
    PROVE  TypeOK' /\ LockInv'
  <1> PICK p \in Proc : Verify(p) \/ StartSummary(p) \/ Step(p) \/ Crash(p)
    BY DEF Next
  <1>0. TypeOK /\ LockInv /\ TransactionInv /\ TablesInv(db)  BY DEF IInv
  <1> USE <1>0 DEF TypeOK, LockInv, Steps, Answers, Writing, Goto, Leave
  <1>1. CASE Verify(p)
    BY <1>1 DEF Verify, Start, storeVars
  <1>2. CASE StartSummary(p)
    BY <1>2 DEF StartSummary, BeginRead
  <1>3. CASE Begin(p)
    BY <1>3 DEF Begin, BeginImmediate
  <1>4. CASE BeginBusy(p)
    BY <1>4 DEF BeginBusy, storeVars
  <1>5. CASE pc[p] = "deciding" /\ (Register(p) \/ GiveBack(p))
    <2>1. ASSUME NEW result \in {"already_registered", "already_released"},
                 DecideAnswer(p, result)
          PROVE  TypeOK' /\ LockInv'
      BY <1>5, <2>1 DEF DecideAnswer, Abandon, Unlock
    <2>2. CASE DecideRefuse(p)
      BY <1>5, <2>2 DEF DecideRefuse, Abandon, Unlock
    <2>3. ASSUME NEW e, Writes(txn[p], req[p], e), DecideWrite(p, e)
          PROVE  TypeOK' /\ LockInv'
      <3>1. txn[p] = db /\ req[p] \in Verifiable  BY <1>5 DEF TransactionInv
      <3>2. e \in Database  BY <2>3, <3>1, WritesKeepTables
      <3> QED  BY <1>5, <2>3, <3>2 DEF DecideWrite, Write
    <2> QED  BY <1>5, <2>1, <2>2, <2>3, Decision
  <1>6. CASE StartCommit(p)
    BY <1>6 DEF StartCommit, Pend
  <1>7. CASE Commit(p, "appended")
    <2>1. Writes(db, req[p], txn[p]) /\ req[p] \in Verifiable
      BY <1>7 DEF Commit, TransactionInv
    <2>2. txn[p] \in Database  BY <2>1, WritesKeepTables
    <2> QED  BY <1>7, <2>2 DEF Commit, CommitExclusive, Unlock
  <1>8. CASE CommitBusy(p)
    BY <1>8 DEF CommitBusy, Abandon, Unlock
  <1>9. CASE Reply(p)
    BY <1>9 DEF Reply, storeVars
  <1>10. CASE EndSummary(p)
    BY <1>10 DEF EndSummary, Abandon, Unlock
  <1>11. CASE Crash(p)
    BY <1>11 DEF Crash, Abandon, Unlock
  <1> QED
    BY <1>1, <1>2, <1>3, <1>4, <1>5, <1>6, <1>7, <1>8, <1>9, <1>10, <1>11 DEF Step

\* What a step of one process does to the tables and to the transactions that
\* were open before it: no reader is there when a writer commits.
LEMMA StepTransactions ==
    ASSUME IInv, Next
    PROVE  /\ TransactionInv'
           /\ db' = db \/ \E q \in Verifiable : Writes(db, q, db')
  <1> PICK p \in Proc : Verify(p) \/ StartSummary(p) \/ Step(p) \/ Crash(p)
    BY DEF Next
  <1>0. TypeOK /\ LockInv /\ TransactionInv  BY DEF IInv
  <1> USE <1>0 DEF TypeOK, LockInv, TransactionInv, Writing, Goto, Leave
  <1>1. CASE Verify(p)
    BY <1>1 DEF Verify, Start, storeVars
  <1>2. CASE StartSummary(p)
    BY <1>2 DEF StartSummary, BeginRead
  <1>3. CASE Begin(p)
    BY <1>3 DEF Begin, BeginImmediate
  <1>4. CASE BeginBusy(p)
    BY <1>4 DEF BeginBusy, storeVars
  <1>5. CASE pc[p] = "deciding" /\ (Register(p) \/ GiveBack(p))
    <2>1. ASSUME NEW result, DecideAnswer(p, result)
          PROVE  TransactionInv' /\ db' = db
      BY <1>5, <2>1 DEF DecideAnswer, Abandon, Unlock
    <2>2. CASE DecideRefuse(p)
      BY <1>5, <2>2 DEF DecideRefuse, Abandon, Unlock
    <2>3. ASSUME NEW e, Writes(txn[p], req[p], e), DecideWrite(p, e)
          PROVE  TransactionInv' /\ db' = db
      BY <1>5, <2>3 DEF DecideWrite, Write
    <2> QED  BY <1>5, <2>1, <2>2, <2>3, Decision
  <1>6. CASE StartCommit(p)
    BY <1>6 DEF StartCommit, Pend
  <1>7. CASE Commit(p, "appended")
    <2>1. req[p] \in Verifiable /\ Writes(db, req[p], db')
      BY <1>7 DEF Commit, CommitExclusive
    <2>2. \A o \in Proc \ {p} :
             pc[o] \notin {"deciding", "inserted", "committing", "reading"}
      BY <1>7 DEF Commit, CommitExclusive
    <2>3. TransactionInv'
      BY <1>7, <2>2 DEF Commit, CommitExclusive, Unlock
    <2> QED  BY <2>1, <2>3
  <1>8. CASE CommitBusy(p)
    BY <1>8 DEF CommitBusy, Abandon, Unlock
  <1>9. CASE Reply(p)
    BY <1>9 DEF Reply, storeVars
  <1>10. CASE EndSummary(p)
    BY <1>10 DEF EndSummary, Abandon, Unlock
  <1>11. CASE Crash(p)
    BY <1>11 DEF Crash, Abandon, Unlock
  <1> QED
    BY <1>1, <1>2, <1>3, <1>4, <1>5, <1>6, <1>7, <1>8, <1>9, <1>10, <1>11 DEF Step

\* One step of any process keeps the whole invariant.
LEMMA StepInvariant == IInv /\ [Next]_vars => IInv'
  <1> SUFFICES ASSUME IInv, [Next]_vars PROVE IInv'  OBVIOUS
  <1>1. CASE Next
    <2>1. TypeOK' /\ LockInv'  BY <1>1, StepLocks
    <2>2. TransactionInv'  BY <1>1, StepTransactions
    <2>3. TablesInv(db')
      <3>1. db \in Database /\ TablesInv(db)  BY DEF IInv, TypeOK
      <3>2. CASE db' = db  BY <3>1, <3>2
      <3>3. CASE \E q \in Verifiable : Writes(db, q, db')
        BY <3>1, <3>3, WritesKeepTables
      <3> QED  BY <1>1, <3>2, <3>3, StepTransactions
    <2> QED  BY <2>1, <2>2, <2>3 DEF IInv
  <1>2. CASE UNCHANGED vars
    BY <1>2 DEF IInv, TypeOK, LockInv, TransactionInv, vars, commandVars, storeVars
  <1> QED  BY <1>1, <1>2

\* The invariant holds in every state the journal's commands can reach, however
\* many run, wait or die.
THEOREM Invariant == Spec => []IInv
  BY InitInvariant, StepInvariant, PTL DEF Spec

------------------------------------------------------------------------------
(* What follows                                                             *)

\* No accepted sequence of register and release commands makes a journal that
\* _history or _releases refuses to read.
THEOREM TablesReadable == Spec => []Readable
  <1>1. IInv => Readable  BY DEF IInv, TablesInv, Readable
  <1> QED  BY Invariant, <1>1, PTL

\* A row follows the task's previous row under the same policy only after its
\* expiry, or after a release of it that the newcomer did not predate.
THEOREM OneResponsible == Spec => []Succession
  <1>1. IInv => Succession  BY DEF IInv, TablesInv, Succession
  <1> QED  BY Invariant, <1>1, PTL

\* A release is never verified after its row's successor was accepted.
THEOREM ReleasesPrecede == Spec => []ReleasePrecedesSuccessor
  <1>1. IInv => ReleasePrecedesSuccessor
    BY DEF IInv, TablesInv, ReleasePrecedesSuccessor
  <1> QED  BY Invariant, <1>1, PTL

\* A summary never finds a release of a row it has not read.
THEOREM SummariesConsistent == Spec => []SummaryConsistent
  <1>1. ASSUME IInv PROVE SummaryConsistent
    <2>1. \A p \in Proc : pc[p] = "reading" => txn[p] = db
      BY <1>1 DEF IInv, TransactionInv
    <2>2. ReleasesOK(db.rows, db.releases)  BY <1>1 DEF IInv, TablesInv, Loads
    <2> QED  BY <2>1, <2>2 DEF SummaryConsistent
  <1> QED  BY Invariant, <1>1, PTL
\* No command is told that its acceptance is registered once that acceptance was
\* released or another row of the task has taken its place.
THEOREM NeverReactivated == Spec => NoReactivation
  <1> DEFINE Holds(p) == /\ CurrentDigest(db.rows, TaskOf(req[p].acceptance)) = req[p].acceptance
                         /\ ~ IsReleased(db.releases, req[p].acceptance)
             Told(p) == answer'[p] = "already_registered" /\ answer[p] = "none"
  <1>1. ASSUME IInv, [Next]_vars, NEW o \in Proc, Told(o) PROVE Holds(o)
    <2>1. CASE UNCHANGED vars  BY <1>1, <2>1 DEF vars, commandVars
    <2>2. CASE Next
      <3> PICK p \in Proc : Verify(p) \/ StartSummary(p) \/ Step(p) \/ Crash(p)
        BY <2>2 DEF Next
      <3> USE <1>1 DEF Goto, Leave
      <3>0. answer \in [Proc -> Answers]  BY DEF IInv, TypeOK
      <3>1. answer' # answer /\ answer'[o] # "none"  BY <3>0
      <3>2. CASE pc[p] = "deciding" /\ (Register(p) \/ GiveBack(p))
        <4>1. txn[p] = db  BY <3>2 DEF IInv, TransactionInv
        <4>2. \/ /\ DecideAnswer(p, "already_registered")
                 /\ AnswersAgain(db, req[p])
              \/ DecideAnswer(p, "already_released")
          BY <3>0, <3>1, <3>2, <4>1, Decision DEF DecideRefuse, DecideWrite
        <4>3. p = o /\ AnswersAgain(db, req[o])
          BY <3>0, <4>2 DEF DecideAnswer
        <4> QED  BY <4>3 DEF AnswersAgain, Replays, PriorReleased
      <3>3. CASE Commit(p, "appended")  BY <3>0, <3>3 DEF Commit
      <3>4. CASE ~ ((pc[p] = "deciding" /\ (Register(p) \/ GiveBack(p))) \/ Commit(p, "appended"))
        <4>1. answer' = answer \/ answer' = [answer EXCEPT ![p] = "none"]
          BY <3>4 DEF Verify, Start, StartSummary, Step, Begin, BeginBusy, StartCommit,
             CommitBusy, Reply, EndSummary, Crash
        <4> QED  BY <3>0, <3>1, <4>1
      <3> QED  BY <3>2, <3>3, <3>4
    <2> QED  BY <1>1, <2>1, <2>2
  <1>2. ASSUME IInv, [Next]_vars PROVE [\A p \in Proc : Told(p) => Holds(p)]_vars
    BY <1>1, <1>2
  <1> QED  BY Invariant, <1>2, PTL DEF Spec, NoReactivation

------------------------------------------------------------------------------
(* Answers of release                                                       *)

\* Only a command that is done has an answer, and a positive one to a release is
\* backed by the release table.
AnswerInv ==
    /\ \A p \in Proc : answer[p] # "none" => pc[p] = "done"
    /\ ReleaseAnswered

\* A step of another process removes no release, and whoever is about to say
\* that one is retained has just found or committed it.
LEMMA StepAnswers ==
    ASSUME IInv, AnswerInv, Next
    PROVE  AnswerInv'
  <1> DEFINE Backs(d, q) == \E k \in 1..Len(d.releases) : d.releases[k].release = q.release
             Positive == {"appended", "already_released"}
  <1>0. /\ db \in Database /\ answer \in [Proc -> Answers] /\ pc \in [Proc -> Steps]
        /\ req \in [Proc -> Verifiable \cup {NoRequest}]
    BY DEF IInv, TypeOK
  <1>1. \A q : Backs(db, q) => Backs(db', q)
    <2>1. CASE db' = db  BY <2>1
    <2>2. ASSUME NEW w \in Verifiable, Writes(db, w, db')
          PROVE  \A q : Backs(db, q) => Backs(db', q)
      <3>1. CASE Registers(db, w, db')  BY <1>0, <3>1 DEF Registers, Database
      <3>2. CASE Releases(db, w, db')
        <4>1. db.releases \in Seq(ReleaseRow) /\ db'.releases = Append(db.releases, NewRelease(w))
          BY <1>0, <3>2 DEF Releases, Database
        <4>2. NewRelease(w) \in ReleaseRow
          <5>1. w.release \in Release /\ w.now \in Instant
            BY <3>2, VerifiableRelease DEF Releases
          <5> QED  BY <5>1, ReleaseTypes DEF NewRelease, TargetOf, ReleaseRow
        <4>3. /\ Len(db.releases) \in Nat /\ Len(db'.releases) = Len(db.releases) + 1
              /\ \A k \in 1..Len(db.releases) : db'.releases[k] = db.releases[k]
          BY <4>1, <4>2, AppendKeeps
        <4>4. \A k \in 1..Len(db.releases) : k \in 1..Len(db'.releases)  BY <4>3, SMT
        <4> QED  BY <4>3, <4>4
      <3> QED  BY <2>2, <3>1, <3>2 DEF Writes
    <2> QED  BY <2>1, <2>2, StepTransactions
  <1>2. PICK p \in Proc : Verify(p) \/ StartSummary(p) \/ Step(p) \/ Crash(p)
    BY DEF Next
  <1>3. ASSUME DecideAnswer(p, "already_released"), req[p].op = "release",
               ReleasedAgain(txn[p], req[p]), pc[p] = "deciding"
        PROVE  Backs(db, req[p])
    <2>1. ReleasedAgain(db, req[p])  BY <1>3 DEF IInv, TransactionInv
    <2>2. IsReleased(db.releases, TargetOf(req[p]))
          /\ ReleaseOf(db.releases, TargetOf(req[p])).release = req[p].release
      BY <2>1 DEF ReleasedAgain
    <2> QED  BY <2>2 DEF IsReleased, ReleaseOf
  <1>4. ASSUME Commit(p, "appended"), req[p].op = "release" PROVE Backs(db', req[p])
    <2>1. req[p] \in Verifiable /\ Writes(db, req[p], db')
      BY <1>4 DEF Commit, CommitExclusive, IInv, LockInv, TransactionInv
    <2>2. Releases(db, req[p], db')  BY <1>4, <2>1 DEF Writes, Registers
    <2>3. db.releases \in Seq(ReleaseRow)
          /\ db'.releases = Append(db.releases, NewRelease(req[p]))
      BY <1>0, <2>2 DEF Releases, Database
    <2>4. NewRelease(req[p]) \in ReleaseRow /\ NewRelease(req[p]).release = req[p].release
      <3>1. req[p].release \in Release /\ req[p].now \in Instant
        BY <1>4, <2>1, VerifiableRelease
      <3> QED  BY <3>1, ReleaseTypes DEF NewRelease, TargetOf, ReleaseRow
    <2>5. /\ Len(db.releases) \in Nat /\ Len(db'.releases) = Len(db.releases) + 1
          /\ db'.releases[Len(db.releases) + 1] = NewRelease(req[p])
      BY <2>3, <2>4, AppendKeeps
    <2>6. Len(db.releases) + 1 \in 1..Len(db'.releases)  BY <2>5, SMT
    <2> QED  BY <2>4, <2>5, <2>6
  <1>5. /\ \A o \in Proc : answer'[o] # "none" => pc'[o] = "done"
        /\ \A o \in Proc : answer'[o] \in Positive /\ req'[o].op = "release" =>
              \/ answer[o] \in Positive /\ req'[o] = req[o]
              \/ Backs(db', req[o]) /\ req'[o] = req[o]
    <2> USE <1>0 DEF AnswerInv, Steps, Answers, Goto, Leave
    <2>1. CASE Verify(p)  BY <2>1 DEF Verify, Start
    <2>2. CASE StartSummary(p)  BY <2>2 DEF StartSummary
    <2>3. CASE Begin(p)  BY <2>3 DEF Begin
    <2>4. CASE BeginBusy(p)  BY <2>4 DEF BeginBusy
    <2>5. CASE pc[p] = "deciding" /\ (Register(p) \/ GiveBack(p))
      <3>1. CASE DecideAnswer(p, "already_registered")  BY <2>5, <3>1 DEF DecideAnswer
      <3>2. CASE DecideAnswer(p, "already_released") /\ req[p].op = "release"
                 /\ ReleasedAgain(txn[p], req[p])
        <4>1. Backs(db', req[p])  BY <1>1, <1>3, <2>5, <3>2
        <4> HIDE DEF Backs
        <4> QED  BY <2>5, <3>2, <4>1 DEF DecideAnswer
      <3>3. CASE DecideRefuse(p)  BY <2>5, <3>3 DEF DecideRefuse
      <3>4. CASE \E e : DecideWrite(p, e)  BY <2>5, <3>4 DEF DecideWrite
      <3> QED  BY <2>5, <3>1, <3>2, <3>3, <3>4, Decision
    <2>6. CASE StartCommit(p)  BY <2>6 DEF StartCommit
    <2>7. CASE Commit(p, "appended")
      <3>1. /\ answer' = [answer EXCEPT ![p] = "appended"]
            /\ pc' = [pc EXCEPT ![p] = "done"]
            /\ req' = req
        BY <2>7 DEF Commit
      <3>2. req[p].op = "release" => Backs(db', req[p])  BY <1>4, <2>7
      <3>3. \A o \in Proc \ {p} : answer'[o] = answer[o] /\ pc'[o] = pc[o]  BY <3>1
      <3>4. pc'[p] = "done"  BY <3>1
      <3> HIDE DEF Backs
      <3> QED  BY <3>1, <3>2, <3>3, <3>4
    <2>8. CASE CommitBusy(p)  BY <2>8 DEF CommitBusy
    <2>9. CASE Reply(p)  BY <2>9 DEF Reply
    <2>10. CASE EndSummary(p)  BY <2>10 DEF EndSummary
    <2>11. CASE Crash(p)  BY <2>11 DEF Crash
    <2> QED
      BY <1>2, <2>1, <2>2, <2>3, <2>4, <2>5, <2>6, <2>7, <2>8, <2>9, <2>10, <2>11
      DEF Step
  <1>6. ReleaseAnswered'
    <2> SUFFICES ASSUME NEW o \in Proc, answer'[o] \in Positive, req'[o].op = "release"
                 PROVE  Backs(db', req'[o])
      BY DEF ReleaseAnswered
    <2>1. CASE answer[o] \in Positive /\ req'[o] = req[o]
      BY <1>1, <2>1 DEF AnswerInv, ReleaseAnswered
    <2>2. CASE Backs(db', req[o]) /\ req'[o] = req[o]  BY <2>2
    <2> QED  BY <1>5, <2>1, <2>2
  <1> QED  BY <1>5, <1>6 DEF AnswerInv

\* Whoever is told that its release is recorded finds it in the file, whether it
\* appended it or a command before it did.
THEOREM ReleasesAreAnswered == Spec => []ReleaseAnswered
  <1>1. Init => AnswerInv
    BY DEF Init, CommandInit, AnswerInv, ReleaseAnswered
  <1>2. ASSUME IInv, AnswerInv, [Next]_vars PROVE AnswerInv'
    <2>1. CASE Next  BY <1>2, <2>1, StepAnswers
    <2>2. CASE UNCHANGED vars
      BY <1>2, <2>2 DEF AnswerInv, ReleaseAnswered, vars, commandVars, storeVars
    <2> QED  BY <1>2, <2>1, <2>2
  <1>3. AnswerInv => ReleaseAnswered  BY DEF AnswerInv
  <1> QED  BY Invariant, <1>1, <1>2, <1>3, PTL DEF Spec
------------------------------------------------------------------------------
(* Refinement                                                               *)

\* What the committed tables say of the newest row of a task.
LEMMA CurrentIs ==
    ASSUME db \in Database, NEW t, NEW i, IsLatest(db.rows, t, Len(db.rows), i)
    PROVE  LET a == db.rows[i].acceptance IN
           CurrentAssignment(t) =
             [acceptance |-> a, verified |-> db.rows[i].verified,
              released |-> IF IsReleased(db.releases, a)
                             THEN ReleaseOf(db.releases, a).verified ELSE NotReleased]
  <1>1. Len(db.rows) \in Nat  BY LenProperties DEF Database
  <1>2. HasCurrent(db.rows, t) /\ Current(db.rows, t) = db.rows[i]
    BY <1>1, LatestIs DEF HasCurrent, Current
  <1> QED  BY <1>2 DEF CurrentAssignment

\* A committed acceptance is an Assign of the ledger: it changes what counts for
\* its task and for no other.
LEMMA RegisterAssigns ==
    ASSUME IInv, NEW q \in Verifiable, Registers(db, q, db')
    PROVE  Ledger!Assign(q.acceptance, q.now)
  <1> DEFINE x == NewRow(db.rows, q)
             n == Len(db.rows)
             a == q.acceptance
             t == TaskOf(a)
             used == {db.rows[i].acceptance : i \in 1..Len(db.rows)}
             current == [s \in Task |-> CurrentAssignment(s)]
             new == [acceptance |-> a, verified |-> q.now, released |-> NotReleased]
  <1>0. q.op = "register" /\ Admits(db, q) /\ Authorized(db.rows)
        /\ ReleasesOK(db.rows, db.releases)
    BY DEF Registers, IInv, TablesInv, Loads
  <1>1. db \in Database /\ db.rows \in Seq(Row) /\ db.releases \in Seq(ReleaseRow)
        /\ n \in Nat
    BY LenProperties DEF IInv, TypeOK, Database
  <1>2. x \in Row  BY <1>0, <1>1, RegisteredReadable
  <1>3. db'.rows = Append(db.rows, x) /\ db'.releases = db.releases
    BY <1>1 DEF Registers, Database
  <1>4. /\ Len(db'.rows) = n + 1
        /\ \A i \in 1..n : db'.rows[i] = db.rows[i]
        /\ db'.rows[n + 1] = x
    BY <1>1, <1>2, <1>3, AppendKeeps
  <1>5. x.acceptance = a /\ x.verified = q.now  BY DEF NewRow
  <1>6. \A i \in 1..n : db.rows[i] \in Row  BY <1>1, ElementOfSeq
  <1> HIDE DEF x
  <1>7. t \in Task /\ a \in Acceptance  BY <1>0, VerifiableRegister, ClaimTypes
  <1>8. a \notin used  BY <1>0 DEF Admits, UniqueKey
  <1>9. \A k \in 1..Len(db.releases) : db.releases[k].acceptance # a
    <2> SUFFICES ASSUME NEW k \in 1..Len(db.releases), db.releases[k].acceptance = a
                 PROVE  FALSE
      OBVIOUS
    <2>1. Retained(db.rows, a)  BY <1>0 DEF ReleasesOK, ReleaseLinked
    <2> QED  BY <1>8, <2>1 DEF Retained
  <1>10. ASSUME current[t] # NoAssignment
         PROVE  /\ ~ Ledger!Binds(current[t], a, q.now)
                /\ current[t].verified <= q.now
    <2>1. HasCurrent(db.rows, t)  BY <1>7, <1>10 DEF CurrentAssignment
    <2>2. PICK i \in 1..n : IsLatest(db.rows, t, n, i)
      BY <2>1 DEF HasCurrent, HasLatest
    <2> DEFINE b == db.rows[i].acceptance
    <2>3. /\ current[t].acceptance = b
          /\ current[t].verified = db.rows[i].verified
          /\ current[t].released = IF IsReleased(db.releases, b)
                                     THEN ReleaseOf(db.releases, b).verified
                                     ELSE NotReleased
      BY <1>1, <1>7, <2>2, CurrentIs
    <2>4. /\ db.rows[i].verified \in Nat
          /\ Claim[b].expires \in Nat
          /\ Claim[a].accepted \in Nat
          /\ q.now \in Nat
      BY <1>0, <1>6, <1>7, VerifiableRegister, ClaimTypes, InstantAssumption DEF Row
    <2>5. current[t].verified <= q.now
      <3>1. Current(db.rows, t) = db.rows[i]  BY <1>1, <2>2, LatestIs DEF Current
      <3>2. ~ (q.now < db.rows[i].verified)
        BY <1>0, <2>1, <3>1 DEF Admits, ClockBehind
      <3> QED  BY <2>3, <2>4, <3>2, SMT
    <2>6. ASSUME IsReleased(db.releases, b), Claim[b].policy = Claim[a].policy
          PROVE  /\ current[t].released = ReleaseOf(db.releases, b).verified
                 /\ ReleaseOf(db.releases, b).verified \in Nat
                 /\ ReleaseOf(db.releases, b).verified <= Claim[a].accepted
      <3>1. PICK k \in 1..Len(db.releases) : db.releases[k].acceptance = b
        BY <2>6 DEF IsReleased
      <3>2. /\ ReleaseOf(db.releases, b) = db.releases[k]
            /\ db.releases[k].verified <= Claim[a].accepted
        BY <1>0, <1>1, <2>2, <3>1, AfterRelease
      <3>3. db.releases[k] \in ReleaseRow  BY <1>1, <3>1, ElementOfSeq
      <3> QED  BY <2>3, <2>6, <3>2, <3>3, InstantAssumption DEF ReleaseRow
    <2>7. ASSUME ~ IsReleased(db.releases, b), Claim[b].policy = Claim[a].policy
          PROVE  Claim[b].expires <= q.now
      BY <1>0, <1>1, <2>2, <2>7, NotCompeting
    <2>8. ~ Ledger!Binds(current[t], a, q.now)
      <3> SUFFICES ASSUME Claim[b].policy = Claim[a].policy, q.now < Claim[b].expires,
                          \/ current[t].released = NotReleased
                          \/ Claim[a].accepted < current[t].released
                   PROVE  FALSE
        <4> HIDE DEF current, b
        <4> QED  BY <2>3 DEF Ledger!Binds
      <3>1. IsReleased(db.releases, b)  BY <2>4, <2>7, SMT
      <3>2. /\ current[t].released \in Nat /\ current[t].released \in Instant
            /\ current[t].released <= Claim[a].accepted
        <4>1. PICK k \in 1..Len(db.releases) : db.releases[k].acceptance = b
          BY <3>1 DEF IsReleased
        <4>2. ReleaseOf(db.releases, b) = db.releases[k]
          BY <1>0, <1>1, <2>2, <4>1, AfterRelease
        <4>3. db.releases[k] \in ReleaseRow  BY <1>1, <4>1, ElementOfSeq
        <4> QED  BY <2>6, <3>1, <4>2, <4>3 DEF ReleaseRow
      <3>3. current[t].released # NotReleased  BY <3>2, NotReleasedAssumption
      <3> HIDE DEF current
      <3> QED  BY <2>4, <3>2, <3>3, SMT
    <2> QED  BY <2>5, <2>8
  <1>11. IsLatest(db'.rows, t, n + 1, n + 1)
    BY <1>1, <1>4, <1>5, SMT DEF IsLatest
  <1>12. CurrentAssignment(t)' = new
    <2>1. Len(db'.rows) \in Nat /\ Len(db'.rows) = n + 1  BY <1>1, <1>4, SMT
    <2>2. HasCurrent(db'.rows, t) /\ Current(db'.rows, t) = x
      BY <1>4, <1>11, <2>1, LatestIs DEF HasCurrent, Current
    <2>3. ~ IsReleased(db'.releases, a)  BY <1>3, <1>9 DEF IsReleased
    <2> QED  BY <1>5, <2>2, <2>3 DEF CurrentAssignment
  <1>13. ASSUME NEW s \in Task, s # t
         PROVE  CurrentAssignment(s)' = CurrentAssignment(s)
    <2>1. ASSUME NEW i
          PROVE  IsLatest(db'.rows, s, n + 1, i) <=> IsLatest(db.rows, s, n, i)
      <3>1. TaskOf(db'.rows[n + 1].acceptance) # s  BY <1>4, <1>5, <1>13
      <3> HIDE DEF t, n
      <3>2. CASE i \in 1..n
        <4>1. db'.rows[i] = db.rows[i] /\ i \in 1..(n + 1)  BY <1>1, <1>4, <3>2, SMT
        <4>2. \A k \in (i+1)..n : db'.rows[k] = db.rows[k]  BY <1>1, <1>4, <3>2, SMT
        <4>3. \A k : k \in (i+1)..(n+1) <=> k \in (i+1)..n \/ k = n + 1
          BY <1>1, <3>2, SMT
        <4> QED  BY <3>1, <3>2, <4>1, <4>2, <4>3 DEF IsLatest
      <3>3. CASE i \notin 1..n
        <4>1. i \in 1..(n + 1) => i = n + 1  BY <1>1, <3>3, SMT
        <4> QED  BY <3>1, <3>3, <4>1 DEF IsLatest
      <3> QED  BY <3>2, <3>3
    <2>2. Len(db'.rows) \in Nat /\ Len(db'.rows) = n + 1  BY <1>1, <1>4, SMT
    <2>3. HasCurrent(db'.rows, s) <=> HasCurrent(db.rows, s)
      <3>1. \A i : IsLatest(db.rows, s, n, i) => i \in 1..n  BY DEF IsLatest
      <3>2. \A i \in 1..n : i \in 1..(n + 1)  BY <1>1, SMT
      <3> QED  BY <2>1, <2>2, <3>1, <3>2 DEF HasCurrent, HasLatest
    <2>4. ASSUME HasCurrent(db.rows, s) PROVE Current(db'.rows, s) = Current(db.rows, s)
      <3>1. PICK i \in 1..n : IsLatest(db.rows, s, n, i)
        BY <2>4 DEF HasCurrent, HasLatest
      <3>2. Current(db.rows, s) = db.rows[i]  BY <1>1, <3>1, LatestIs DEF Current
      <3>3. Current(db'.rows, s) = db'.rows[i]
        BY <2>1, <2>2, <3>1, LatestIs DEF Current
      <3> QED  BY <1>4, <3>1, <3>2, <3>3
    <2> QED  BY <1>3, <2>3, <2>4, Zenon DEF CurrentAssignment
  <1>14. current' = [current EXCEPT ![t] = new]  BY <1>7, <1>12, <1>13
  <1>15. used' = used \cup {a}
    <2>1. \A i : i \in 1..Len(db'.rows) <=> i \in 1..n \/ i = n + 1  BY <1>1, <1>4, SMT
    <2>2. \A b : b \in used' <=> b \in used \/ b = a
      BY <1>4, <1>5, <2>1
    <2> HIDE DEF used
    <2> QED  BY <2>2
  <1>16. Claim[a].accepted <= q.now /\ q.now < Claim[a].expires
    BY <1>0, VerifiableRegister
  <1> HIDE DEF current, used, new, t
  <1>17. /\ a \notin used
         /\ Claim[a].accepted <= q.now
         /\ q.now < Claim[a].expires
         /\ current[t] # NoAssignment =>
               /\ ~ Ledger!Binds(current[t], a, q.now)
               /\ current[t].verified <= q.now
         /\ current' = [current EXCEPT ![t] = new]
         /\ used' = used \cup {a}
    BY <1>8, <1>10, <1>14, <1>15, <1>16
  <1>18. Ledger!TaskOf(a) = t  BY DEF Ledger!TaskOf, TaskOf, t
  <1> QED  BY <1>17, <1>18, Zenon DEF Ledger!Assign, current, used, new

\* A committed release is a GiveBack of the ledger, of the assignment that counts.
LEMMA ReleaseGivesBack ==
    ASSUME IInv, NEW q \in Verifiable, Releases(db, q, db')
    PROVE  \E t \in Task : Ledger!GiveBack(t, q.now)
  <1> DEFINE x == NewRelease(q)
             n == Len(db.rows)
             used == {db.rows[i].acceptance : i \in 1..Len(db.rows)}
             current == [s \in Task |-> CurrentAssignment(s)]
  <1>1. db \in Database /\ db.rows \in Seq(Row) /\ db.releases \in Seq(ReleaseRow)
        /\ n \in Nat /\ HistoryOK(db.rows)
    BY LenProperties DEF IInv, TypeOK, Database, TablesInv, Loads
  <1>2. q.op = "release" /\ AdmitsRelease(db, q)  BY DEF Releases
  <1>3. db'.rows = db.rows /\ db'.releases = Append(db.releases, x)
    BY <1>1 DEF Releases, Database
  <1>4. PICK m \in 1..n :
           /\ IsLatest(db.rows, TaskOf(db.rows[m].acceptance), n, m)
           /\ TargetOf(q) = db.rows[m].acceptance
           /\ VerifyRelease(q.release, db.rows[m], q.pin, q.now)
    BY <1>1, <1>2, ReleaseTarget
  <1>5. db.rows[m] \in Row  BY <1>1, <1>4, ElementOfSeq
  <1>6. PICK a \in Acceptance, v \in Instant :
           db.rows[m].acceptance = a /\ db.rows[m].verified = v
    BY <1>5 DEF Row
  <1> DEFINE t == TaskOf(a)
  <1>7. t \in Task /\ Claim[a].expires \in Nat  BY <1>6, ClaimTypes
  <1>8. q.release \in Release /\ q.now \in Instant  BY <1>2, VerifiableRelease
  <1>9. x \in ReleaseRow /\ x.acceptance = a /\ x.verified = q.now
    <2>1. TargetOf(q) \in Acceptance  BY <1>8, ReleaseTypes DEF TargetOf
    <2> QED  BY <1>4, <1>6, <1>8, <2>1 DEF NewRelease, ReleaseRow
  <1>10. ~ IsReleased(db.releases, a)  BY <1>2, <1>4, <1>6 DEF AdmitsRelease
  <1> HIDE DEF x
  <1>11. /\ \A b : IsReleased(db'.releases, b) <=> IsReleased(db.releases, b) \/ b = a
         /\ \A b : IsReleased(db.releases, b) =>
               ReleaseOf(db'.releases, b) = ReleaseOf(db.releases, b)
         /\ ReleaseOf(db'.releases, a) = x
    BY <1>1, <1>3, <1>9, <1>10, ReleasePrefix
  <1>12. CurrentAssignment(t) =
           [acceptance |-> a, verified |-> v, released |-> NotReleased]
    BY <1>1, <1>4, <1>6, <1>10, CurrentIs
  <1>13. CurrentAssignment(t)' =
           [acceptance |-> a, verified |-> v, released |-> q.now]
    <2>1. HasCurrent(db.rows, t) /\ Current(db.rows, t) = db.rows[m]
      BY <1>1, <1>4, <1>6, LatestIs DEF HasCurrent, Current
    <2> QED  BY <1>3, <1>6, <1>9, <1>11, <2>1 DEF CurrentAssignment
  <1>14. ASSUME NEW s \in Task, s # t
         PROVE  CurrentAssignment(s)' = CurrentAssignment(s)
    <2>1. CASE ~ HasCurrent(db.rows, s)  BY <1>3, <2>1 DEF CurrentAssignment
    <2>2. CASE HasCurrent(db.rows, s)
      <3>1. PICK i \in 1..n : IsLatest(db.rows, s, n, i)
        BY <2>2 DEF HasCurrent, HasLatest
      <3>2. Current(db.rows, s) = db.rows[i]  BY <1>1, <3>1, LatestIs DEF Current
      <3>3. TaskOf(db.rows[i].acceptance) = s  BY <3>1 DEF IsLatest
      <3>4. db.rows[i].acceptance # a  BY <1>14, <3>3
      <3> QED  BY <1>3, <1>11, <2>2, <3>2, <3>4 DEF CurrentAssignment
    <2> QED  BY <2>1, <2>2
  <1>15. /\ current[t] = [acceptance |-> a, verified |-> v,
                          released |-> NotReleased]
         /\ current' = [current EXCEPT ![t].released = q.now]
    <2>1. current[t] = CurrentAssignment(t)  BY <1>7
    <2> DEFINE old == [acceptance |-> a, verified |-> v, released |-> NotReleased]
               new == [acceptance |-> a, verified |-> v, released |-> q.now]
    <2>2. [old EXCEPT !.released = q.now] = new  OBVIOUS
    <2>3. current' = [current EXCEPT ![t] = new]  BY <1>7, <1>13, <1>14
    <2> HIDE DEF current, old, new
    <2>4. current[t] = old  BY <1>12, <2>1 DEF old
    <2>5. current' = [current EXCEPT ![t].released = q.now]  BY <2>2, <2>3, <2>4
    <2> QED  BY <2>4, <2>5 DEF old
  <1>16. used' = used  BY <1>3
  <1>17. v <= q.now /\ q.now < Claim[a].expires
    <2> DEFINE c == ReleaseClaim[q.release]
    <2>1. /\ StateOf(db.rows[m], q.pin, q.now) = "eligible_for_reverification"
          /\ v <= c.released /\ c.released <= q.now
          /\ q.now < c.expires /\ c.expires <= Claim[a].expires
      BY <1>4, <1>6 DEF VerifyRelease
    <2>2. /\ c.released \in Nat /\ c.expires \in Nat /\ q.now \in Nat
          /\ v \in Nat
      BY <1>6, <1>8, ReleaseTypes, InstantAssumption
    <2> HIDE DEF c
    <2> QED  BY <1>7, <2>1, <2>2, SMT
  <1>18. current[t] # NoAssignment  BY <1>6, <1>15, NoAssignmentAssumption
  <1> HIDE DEF current, used, t
  <1>19. Ledger!GiveBack(t, q.now)
    <2>1. /\ current[t].released = NotReleased
          /\ current[t].verified <= q.now
          /\ q.now < Claim[current[t].acceptance].expires
      BY <1>15, <1>17
    <2> QED
      BY <1>15, <1>16, <1>18, <2>1, Zenon DEF Ledger!GiveBack, current, used
  <1>20. t \in Task  BY <1>7 DEF t
  <1> QED  BY <1>19, <1>20

\* Two tables in one file, the locks, the processes and their crashes implement
\* the ledger, which knows none of them.
THEOREM Refinement == Spec => ImplementsLedger
  <1>1. Init => Ledger!LedgerInit
    <2> SUFFICES ASSUME Init PROVE Ledger!LedgerInit  OBVIOUS
    <2>1. db.rows = <<>> /\ Len(db.rows) = 0  BY DEF Init, CommandInit, StoreInit
    <2>2. 1..Len(db.rows) = {}  BY <2>1, SMT
    <2>3. \A t : ~ HasCurrent(db.rows, t)  BY <2>2 DEF HasCurrent, HasLatest
    <2> QED
      BY <2>2, <2>3 DEF Ledger!LedgerInit, CurrentAssignment, Ledger!Task, Task
  <1>2. ASSUME IInv, [Next]_vars
        PROVE  [Ledger!LedgerNext]_Ledger!ledgerVars
    <2>1. CASE db' = db
      BY <2>1 DEF Ledger!ledgerVars, CurrentAssignment
    <2>2. ASSUME NEW q \in Verifiable, Writes(db, q, db')
          PROVE  Ledger!LedgerNext
      <3>1. CASE Registers(db, q, db')
        <4>1. q.acceptance \in Acceptance /\ q.now \in Instant
          BY <3>1, VerifiableRegister DEF Registers
        <4>2. Ledger!Assign(q.acceptance, q.now)  BY <1>2, <3>1, RegisterAssigns
        <4> QED  BY <4>1, <4>2 DEF Ledger!LedgerNext
      <3>2. CASE Releases(db, q, db')
        <4>1. q.now \in Instant  BY <3>2, VerifiableRelease DEF Releases
        <4>2. PICK t \in Task : Ledger!GiveBack(t, q.now)
          BY <1>2, <3>2, ReleaseGivesBack
        <4>3. Ledger!Task = Task  BY DEF Ledger!Task, Task
        <4> QED  BY <4>1, <4>2, <4>3 DEF Ledger!LedgerNext
      <3> QED  BY <2>2, <3>1, <3>2 DEF Writes
    <2>3. CASE UNCHANGED vars
      BY <2>1, <2>3 DEF vars, commandVars, storeVars
    <2> QED  BY <1>2, <2>1, <2>2, <2>3, StepTransactions
  <1> QED
    BY Invariant, <1>1, <1>2, PTL DEF Spec, ImplementsLedger, Ledger!LedgerSpec
==============================================================================
