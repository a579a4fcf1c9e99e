------------------------- MODULE JournalHistoryProofs -------------------------
(***************************************************************************)
(* Facts about the reading of the acceptance table: the newest row of a     *)
(* task is unique and depends only on the rows before it, and the row that  *)
(* register appends is one that _history accepts.                           *)
(***************************************************************************)
EXTENDS JournalHistory, SequenceTheorems, TLAPS

\* _history keeps one latest receipt by task: two newest rows are one row.
LEMMA LatestUnique ==
    ASSUME NEW rows, NEW t, NEW n \in Nat, NEW i, NEW m,
           IsLatest(rows, t, n, i), IsLatest(rows, t, n, m)
    PROVE  i = m
  <1>1. i \in 1..n /\ m \in 1..n  BY DEF IsLatest
  <1>2. ~ (i < m)  BY <1>1, SMT DEF IsLatest
  <1>3. ~ (m < i)  BY <1>1, SMT DEF IsLatest
  <1> QED  BY <1>1, <1>2, <1>3, SMT

\* The row that is newest is the one the choice of LatestRow makes.
LEMMA LatestIs ==
    ASSUME NEW rows, NEW t, NEW n \in Nat, NEW i, IsLatest(rows, t, n, i)
    PROVE  HasLatest(rows, t, n) /\ LatestRow(rows, t, n) = rows[i]
  <1>1. i \in 1..n  BY DEF IsLatest
  <1>2. HasLatest(rows, t, n)  BY <1>1 DEF HasLatest
  <1> DEFINE c == CHOOSE m \in 1..n : IsLatest(rows, t, n, m)
  <1>3. IsLatest(rows, t, n, c)  BY <1>1
  <1>4. c = i  BY <1>3, LatestUnique
  <1> QED  BY <1>2, <1>4 DEF LatestRow

\* The newest row among the first n depends only on the first n rows.
LEMMA LatestPrefix ==
    ASSUME NEW rows, NEW more, NEW t, NEW n \in Nat,
           \A i \in 1..n : more[i] = rows[i]
    PROVE  /\ \A m : IsLatest(more, t, n, m) <=> IsLatest(rows, t, n, m)
           /\ HasLatest(more, t, n) <=> HasLatest(rows, t, n)
           /\ HasLatest(rows, t, n) => LatestRow(more, t, n) = LatestRow(rows, t, n)
           /\ LatestDigest(more, t, n) = LatestDigest(rows, t, n)
  <1>1. ASSUME NEW m PROVE IsLatest(more, t, n, m) <=> IsLatest(rows, t, n, m)
    <2>1. CASE m \notin 1..n  BY <2>1 DEF IsLatest
    <2>2. CASE m \in 1..n
      <3>1. \A i \in (m+1)..n : more[i] = rows[i]  BY <2>2, SMT
      <3>2. more[m] = rows[m]  BY <2>2
      <3> QED  BY <3>1, <3>2 DEF IsLatest
    <2> QED  BY <2>1, <2>2
  <1>2. HasLatest(more, t, n) <=> HasLatest(rows, t, n)  BY <1>1 DEF HasLatest
  <1>3. ASSUME HasLatest(rows, t, n)
        PROVE  LatestRow(more, t, n) = LatestRow(rows, t, n)
    <2>1. PICK m \in 1..n : IsLatest(rows, t, n, m)  BY <1>3 DEF HasLatest
    <2>2. LatestRow(rows, t, n) = rows[m]  BY <2>1, LatestIs
    <2>3. LatestRow(more, t, n) = more[m]  BY <1>1, <2>1, LatestIs
    <2> QED  BY <2>1, <2>2, <2>3
  <1>4. LatestDigest(more, t, n) = LatestDigest(rows, t, n)
    BY <1>2, <1>3 DEF LatestDigest
  <1> QED  BY <1>1, <1>2, <1>3, <1>4

\* What Append leaves in place.
LEMMA AppendKeeps ==
    ASSUME NEW S, NEW s \in Seq(S), NEW x \in S
    PROVE  /\ Append(s, x) \in Seq(S)
           /\ Len(s) \in Nat
           /\ Len(Append(s, x)) = Len(s) + 1
           /\ \A i \in 1..Len(s) : Append(s, x)[i] = s[i]
           /\ Append(s, x)[Len(s) + 1] = x
  BY AppendProperties, LenProperties

\* Appending does not disturb how an earlier row is linked.
LEMMA RowLinkedPrefix ==
    ASSUME NEW rows, NEW more, NEW i \in Nat \ {0},
           \A j \in 1..i : more[j] = rows[j]
    PROVE  RowLinked(more, i) <=> RowLinked(rows, i)
  <1> DEFINE t == TaskOf(rows[i].acceptance)
  <1>1. i-1 \in Nat /\ more[i] = rows[i] /\ \A j \in 1..(i-1) : more[j] = rows[j]
    BY SMT
  <1>2. /\ LatestDigest(more, t, i-1) = LatestDigest(rows, t, i-1)
        /\ HasLatest(more, t, i-1) <=> HasLatest(rows, t, i-1)
        /\ HasLatest(rows, t, i-1) =>
              LatestRow(more, t, i-1) = LatestRow(rows, t, i-1)
    BY <1>1, LatestPrefix
  <1> HIDE DEF t
  <1>3. t = TaskOf(rows[i].acceptance)  BY DEF t
  <1> QED  BY <1>1, <1>2, <1>3, Zenon DEF RowLinked

\* The row register inserts, after its checks, is one _history accepts.
LEMMA AppendReadable ==
    ASSUME NEW rows \in Seq(Row), NEW q,
           q.acceptance \in Acceptance, q.now \in Instant,
           HistoryOK(rows), ~ ClockBehind(rows, q), HasRoom(rows),
           UniqueKey(rows, q.acceptance),
           Claim[q.acceptance].accepted <= q.now,
           q.now < Claim[q.acceptance].expires
    PROVE  /\ NewRow(rows, q) \in Row
           /\ HistoryOK(Append(rows, NewRow(rows, q)))
  <1> DEFINE x == NewRow(rows, q)
             more == Append(rows, x)
             n == Len(rows)
             t == TaskOf(q.acceptance)
  <1>1. x = [acceptance |-> q.acceptance, verified |-> q.now,
             predecessor |-> LatestDigest(rows, t, n)]
    BY DEF NewRow, CurrentDigest
  <1>0. n \in Nat /\ \A i \in 1..n : rows[i] \in Row
    BY ElementOfSeq, LenProperties
  <1>2. LatestDigest(rows, t, n) \in Acceptance \cup {NoDigest}
    <2>1. CASE HasLatest(rows, t, n)
      <3>1. PICK m \in 1..n : IsLatest(rows, t, n, m)  BY <2>1 DEF HasLatest
      <3>2. LatestRow(rows, t, n) = rows[m]  BY <1>0, <3>1, LatestIs
      <3>3. rows[m].acceptance \in Acceptance  BY <1>0, <3>1 DEF Row
      <3> QED  BY <2>1, <3>2, <3>3 DEF LatestDigest
    <2>2. CASE ~ HasLatest(rows, t, n)  BY <2>2 DEF LatestDigest
    <2> QED  BY <2>1, <2>2
  <1>3. x \in Row  BY <1>1, <1>2 DEF Row
  <1>4. /\ Len(more) = n + 1
        /\ \A i \in 1..n : more[i] = rows[i]
        /\ more[n + 1] = x
    BY <1>3, AppendKeeps
  <1>5. Len(more) <= MAX_EVENTS
    BY <1>0, <1>4, MaxEventsAssumption, SMT DEF HasRoom
  <1>6. ASSUME NEW i \in 1..n PROVE RowLinked(more, i)
    <2>1. i \in Nat \ {0} /\ \A j \in 1..i : more[j] = rows[j]
      BY <1>0, <1>4, SMT
    <2>2. RowLinked(rows, i)  BY DEF HistoryOK
    <2> HIDE DEF more
    <2> QED  BY <2>1, <2>2, RowLinkedPrefix
  <1>7. RowLinked(more, n + 1)
    <2>1. more[n + 1].acceptance = q.acceptance /\ more[n + 1].verified = q.now
          /\ more[n + 1].predecessor = LatestDigest(rows, t, n)
      BY <1>1, <1>4
    <2>2. n + 1 - 1 = n  BY <1>0, SMT
    <2>3. /\ LatestDigest(more, t, n) = LatestDigest(rows, t, n)
          /\ HasLatest(more, t, n) <=> HasLatest(rows, t, n)
          /\ HasLatest(rows, t, n) => LatestRow(more, t, n) = LatestRow(rows, t, n)
      <3> HIDE DEF more, t
      <3> QED  BY <1>0, <1>4, LatestPrefix
    <2>4. ReceiptValid(more[n + 1])  BY <2>1 DEF ReceiptValid
    <2>5. \A j \in 1..n : more[j].acceptance # more[n + 1].acceptance
      BY <1>4, <2>1 DEF UniqueKey
    <2>6. HasLatest(more, t, n) =>
             LatestRow(more, t, n).verified <= more[n + 1].verified
      <3>1. SUFFICES ASSUME HasLatest(rows, t, n)
                     PROVE  LatestRow(rows, t, n).verified <= q.now
        BY <2>1, <2>3
      <3>2. ~ (q.now < LatestRow(rows, t, n).verified)
        BY <3>1 DEF ClockBehind, HasCurrent, Current
      <3>3. PICK m \in 1..n : IsLatest(rows, t, n, m)  BY <3>1 DEF HasLatest
      <3>4. LatestRow(rows, t, n) = rows[m]  BY <1>0, <3>3, LatestIs
      <3>5. rows[m].verified \in Nat /\ q.now \in Nat
        BY <1>0, <3>3, InstantAssumption DEF Row
      <3> HIDE DEF t, n
      <3> QED  BY <3>2, <3>4, <3>5, SMT
    <2> HIDE DEF more, x
    <2>7. TaskOf(more[n + 1].acceptance) = t  BY <2>1
    <2> HIDE DEF t
    <2> QED  BY <2>1, <2>2, <2>3, <2>4, <2>5, <2>6, <2>7 DEF RowLinked
  <1>8. \A i \in 1..Len(more) : RowLinked(more, i)
    <2> HIDE DEF more
    <2> QED  BY <1>0, <1>4, <1>6, <1>7, SMT
  <1> QED  BY <1>3, <1>5, <1>8 DEF HistoryOK
==============================================================================
