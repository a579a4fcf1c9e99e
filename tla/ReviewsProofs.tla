----------------------------- MODULE ReviewsProofs -----------------------------
(***************************************************************************)
(* What the offline review tools promise, for inputs of any size.         *)
(*                                                                         *)
(* An accepted handoff: as many attestations as findings and roles, no two *)
(* for the same, leave none out.                                           *)
(*                                                                         *)
(* A comparison of reports: keys are unique, so the entry found by its key *)
(* is the entry meant; what changed is what the reports do not share, and  *)
(* what is to be reviewed is what is rested on and not shared, in either   *)
(* direction.                                                              *)
(*                                                                         *)
(* An exercise with a pinned rule and fixture, and two policy commands,    *)
(* which agree because their engines do (ToolPolicyProofs).                *)
(*                                                                         *)
(* The windows of TCP resets and of repeated attempts: what the loops over *)
(* a sorted group have found after each turn.  Sorting puts the element of *)
(* rank k at place k; induction is over sets of naturals.                  *)
(*                                                                         *)
(* The queue of a DNS review: what an import holds after each line, the    *)
(* newest usable answers of each host that is asked for.                   *)
(*                                                                         *)
(* A case: what the collection holds after each file, and the largest      *)
(* burst of a key, whatever the positions of the records.                  *)
(*                                                                         *)
(* A review of ARP observations: what the loop remembers after each line,  *)
(* and why the places found by bisection are the lease and the captures    *)
(* meant.                                                                  *)
(***************************************************************************)
EXTENDS Reviews, Arrangement, ToolPolicyProofs, FunctionTheorems, FiniteSetTheorems,
        SequenceTheorems, WellFoundedInduction, TLAPS

------------------------------------------------------------------------------
(* The handoff (ReviewedHandoff)                                            *)

LEMMA HandoffCardinality == ASSUME NEW S PROVE Handoff!Cardinality(S) = Cardinality(S)
  BY DEF Handoff!Cardinality, Cardinality

\* A list without repetitions, as long as the set of its elements is large, has all
\* of them.
LEMMA ListCovers ==
    ASSUME NEW S, IsFiniteSet(S), NEW n \in Nat, n = Cardinality(S),
           NEW f \in [1..n -> S], \A i \in 1..n : \A j \in 1..(i - 1) : f[j] # f[i]
    PROVE  \A x \in S : \E i \in 1..n : f[i] = x /\ \A j \in 1..n : f[j] = x => j = i
  <1>1. \A i, j \in 1..n : f[i] = f[j] => i = j
    <2> SUFFICES ASSUME NEW i \in 1..n, NEW j \in 1..n, f[i] = f[j], i # j PROVE FALSE
      OBVIOUS
    <2>1. CASE j < i
      BY <2>1
    <2>2. CASE i < j
      BY <2>2
    <2> QED  BY <2>1, <2>2
  <1>2. f \in Injection(1..n, S)
    BY <1>1, Fun_IsInj
  <1>3. IsFiniteSet(1..n) /\ Cardinality(1..n) = n
    BY FS_Interval
  <1>4. f \in Surjection(1..n, S)
    BY <1>2, <1>3, FS_Injection
  <1>5. \A x \in S : \E i \in 1..n : f[i] = x
    BY <1>4, Fun_SurjectionProperties
  <1> QED  BY <1>1, <1>5

\* There are two roles, and a record of each for every finding.
LEMMA ExpectedRecords ==
    ASSUME NEW w, IsFiniteSet(DOMAIN w.team)
    PROVE  LET expected == Handoff!Expected(w)
           IN  /\ DOMAIN expected = (DOMAIN w.team) \X Handoff!Roles
               /\ IsFiniteSet(DOMAIN expected)
               /\ Cardinality(DOMAIN expected) = 2 * Cardinality(DOMAIN w.team)
               /\ Cardinality(DOMAIN w.team) \in Nat
               /\ \A f \in DOMAIN w.team, r \in Handoff!Roles :
                    expected[<<f, r>>] = IF r = "risk" THEN [record |-> w.risk[f], team |-> None]
                                         ELSE [record |-> w.response[f], team |-> w.team[f]]
  <1> DEFINE T == DOMAIN w.team
             expected == Handoff!Expected(w)
  <1>1. DOMAIN expected = T \X Handoff!Roles
    BY DEF Handoff!Expected
  <1>2. IsFiniteSet(Handoff!Roles) /\ Cardinality(Handoff!Roles) = 2
    <2>1. Handoff!Roles = {"risk"} \cup {"team-response"} /\ "team-response" \notin {"risk"}
      BY DEF Handoff!Roles
    <2>2. IsFiniteSet({"risk"}) /\ Cardinality({"risk"}) = 1
      BY FS_Singleton
    <2> QED  BY <2>1, <2>2, FS_AddElement
  <1>3. Cardinality(T) \in Nat
    BY FS_CardinalityType
  <1>4. /\ IsFiniteSet(T \X Handoff!Roles)
        /\ Cardinality(T \X Handoff!Roles) = Cardinality(T) * 2
    BY <1>2, FS_Product
  <1>5. \A f \in T, r \in Handoff!Roles :
          expected[<<f, r>>] = IF r = "risk" THEN [record |-> w.risk[f], team |-> None]
                               ELSE [record |-> w.response[f], team |-> w.team[f]]
    BY DEF Handoff!Expected
  <1> QED  BY <1>1, <1>3, <1>4, <1>5

\* What HandoffFullyAttested says of a handoff
FullyAttested(h, now) ==
    LET for(f, r) == {i \in DOMAIN h.attestations :
                        h.attestations[i].finding = f /\ h.attestations[i].role = r}
        record(f, r) == IF r = "risk" THEN h.workflow.risk[f] ELSE h.workflow.response[f]
        speaks(a, f, r) == \E k \in DOMAIN h.reviewers.keys :
           /\ h.reviewers.keys[k].key = a.signer /\ h.reviewers.keys[k].status = "active"
           /\ \E g \in h.reviewers.keys[k].grants :
                /\ g.finding = f /\ g.role = r
                /\ r = "team-response" => g.team = h.workflow.team[f]
    IN  /\ Len(h.attestations) = 2 * Cardinality(DOMAIN h.workflow.team)
        /\ \A f \in DOMAIN h.workflow.team, r \in Handoff!Roles :
             \E i \in for(f, r) :
                LET a == h.attestations[i]
                IN  /\ for(f, r) = {i}
                    /\ a.record = record(f, r) /\ speaks(a, f, r)
                    /\ record(f, r).time <= a.issued /\ a.issued <= now /\ now + 1 <= a.expires
        /\ h.approval.signer # None /\ now + 1 <= h.approval.expires

\* A key has one entry, so the grant that was found is that of an active key.
LEMMA OneEntryPerKey ==
    ASSUME NEW reviewers, NEW a, NEW team,
           Handoff!AuthorityAccepted(reviewers), Handoff!Active(reviewers, a.key),
           Handoff!Granted(reviewers, a, team)
    PROVE  \E k \in DOMAIN reviewers.keys :
              /\ reviewers.keys[k].key = a.key /\ reviewers.keys[k].status = "active"
              /\ [finding |-> a.finding, role |-> a.role, team |-> team] \in reviewers.keys[k].grants
  BY DEF Handoff!AuthorityAccepted, Handoff!Active, Handoff!Granted

LEMMA AcceptedIsFullyAttested ==
    ASSUME NEW h, NEW now \in Nat, h.approval.expires \in Nat,
           IsFiniteSet(DOMAIN h.workflow.team),
           h.attestations \in Seq({h.attestations[i] : i \in DOMAIN h.attestations}),
           \A i \in DOMAIN h.attestations : h.attestations[i].expires \in Nat,
           \A i \in DOMAIN h.authority.keys : h.authority.keys[i].key # None,
           Handoff!HandoffVerified(h, now)
    PROVE  FullyAttested(h, now)
  <1> DEFINE T == DOMAIN h.workflow.team
             expected == Handoff!Expected(h.workflow)
             size == Len(h.attestations)
             identity == [i \in 1..size |-> <<h.attestations[i].finding, h.attestations[i].role>>]
  <1>1. DOMAIN h.attestations = 1..size /\ size \in Nat
    BY LenProperties
  <1>2. /\ Handoff!ReviewersAccepted(h.reviewers)
        /\ Handoff!ApprovalVerified(h.approval, h.context, h.authority, now)
        /\ size = Handoff!Cardinality(DOMAIN expected)
        /\ \A i \in 1..size :
             /\ identity[i] \in DOMAIN expected
             /\ \A j \in 1..(i - 1) : identity[j] # identity[i]
             /\ Handoff!AttestationVerified(h.attestations[i], expected[identity[i]], h.reviewers, now)
    <2>1. /\ Handoff!ReviewersAccepted(h.reviewers)
          /\ Handoff!ApprovalVerified(h.approval, h.context, h.authority, now)
          /\ size = Handoff!Cardinality(DOMAIN expected)
      BY DEF Handoff!HandoffVerified
    <2>2. ASSUME NEW i \in 1..size
          PROVE  /\ <<h.attestations[i].finding, h.attestations[i].role>> \in DOMAIN expected
                 /\ \A j \in 1..(i - 1) : <<h.attestations[j].finding, h.attestations[j].role>>
                                            # <<h.attestations[i].finding, h.attestations[i].role>>
                 /\ Handoff!AttestationVerified(h.attestations[i],
                      expected[<<h.attestations[i].finding, h.attestations[i].role>>], h.reviewers, now)
      BY <1>1 DEF Handoff!HandoffVerified
    <2>3. \A i \in 1..size : identity[i] = <<h.attestations[i].finding, h.attestations[i].role>>
      OBVIOUS
    <2>4. \A i \in 1..size : 1..(i - 1) \subseteq 1..size
      BY <1>1
    <2> HIDE DEF identity, expected, size
    <2> QED  BY ZenonT(40), <2>1, <2>2, <2>3, <2>4
  <1>3. /\ DOMAIN expected = T \X Handoff!Roles
        /\ IsFiniteSet(DOMAIN expected)
        /\ Cardinality(DOMAIN expected) = 2 * Cardinality(T)
        /\ \A f \in T, r \in Handoff!Roles :
             expected[<<f, r>>] = IF r = "risk" THEN [record |-> h.workflow.risk[f], team |-> None]
                                  ELSE [record |-> h.workflow.response[f], team |-> h.workflow.team[f]]
    BY ExpectedRecords
  <1>4. size = Cardinality(DOMAIN expected)
    BY <1>2, HandoffCardinality
  <1>5. \A x \in DOMAIN expected : \E i \in 1..size : identity[i] = x /\ \A j \in 1..size : identity[j] = x => j = i
    <2>1. identity \in [1..size -> DOMAIN expected]
      BY <1>2
    <2>2. IsFiniteSet(DOMAIN expected)
      BY <1>3
    <2>3. \A i \in 1..size : \A j \in 1..(i - 1) : identity[j] # identity[i]
      BY <1>2
    <2>4. size \in Nat
      BY <1>1
    <2> HIDE DEF identity, expected, size
    <2> QED  BY ONLY <1>4, <2>1, <2>2, <2>3, <2>4, ListCovers
  <1>6. h.approval.signer # None /\ now + 1 <= h.approval.expires
    BY <1>2 DEF Handoff!ApprovalVerified, Handoff!Active, Handoff!InForce, Handoff!Verifies
  <1>7. ASSUME NEW f \in T, NEW r \in Handoff!Roles
        PROVE  \E i \in {j \in DOMAIN h.attestations :
                          h.attestations[j].finding = f /\ h.attestations[j].role = r} :
                 LET a == h.attestations[i]
                     record == IF r = "risk" THEN h.workflow.risk[f] ELSE h.workflow.response[f]
                 IN  /\ {j \in DOMAIN h.attestations :
                          h.attestations[j].finding = f /\ h.attestations[j].role = r} = {i}
                     /\ a.record = record
                     /\ \E k \in DOMAIN h.reviewers.keys :
                          /\ h.reviewers.keys[k].key = a.signer /\ h.reviewers.keys[k].status = "active"
                          /\ \E g \in h.reviewers.keys[k].grants :
                               /\ g.finding = f /\ g.role = r
                               /\ r = "team-response" => g.team = h.workflow.team[f]
                     /\ record.time <= a.issued /\ a.issued <= now /\ now + 1 <= a.expires
    <2>1. PICK i \in 1..size : identity[i] = <<f, r>> /\ \A j \in 1..size : identity[j] = <<f, r>> => j = i
      BY <1>3, <1>5
    <2> DEFINE a == h.attestations[i]
               x == expected[<<f, r>>]
               record == IF r = "risk" THEN h.workflow.risk[f] ELSE h.workflow.response[f]
    <2>2. a.finding = f /\ a.role = r
      BY <2>1
    <2>3. {j \in DOMAIN h.attestations :
             h.attestations[j].finding = f /\ h.attestations[j].role = r} = {i}
      BY <1>1, <2>1, <2>2
    <2>4. x.record = record /\ (r = "team-response" => x.team = h.workflow.team[f])
      <3>1. x = IF r = "risk" THEN [record |-> h.workflow.risk[f], team |-> None]
                ELSE [record |-> h.workflow.response[f], team |-> h.workflow.team[f]]
        BY <1>3
      <3> HIDE DEF x
      <3> QED  BY <3>1
    <2>5. Handoff!AttestationVerified(a, x, h.reviewers, now)
      BY <1>2, <2>1
    <2> HIDE DEF x
    <2>6. /\ a.record = record /\ record.time <= a.issued
          /\ a.issued <= now /\ now + 1 <= a.expires /\ a.signer = a.key
      <3>1. a.expires \in Nat
        BY <1>1
      <3> HIDE DEF a, record
      <3> QED  BY <2>4, <2>5, <3>1 DEF Handoff!AttestationVerified, Handoff!InForce, Handoff!Verifies
    <2>7. PICK k \in DOMAIN h.reviewers.keys :
             /\ h.reviewers.keys[k].key = a.key /\ h.reviewers.keys[k].status = "active"
             /\ [finding |-> a.finding, role |-> a.role, team |-> x.team] \in h.reviewers.keys[k].grants
      BY <1>2, <2>5, OneEntryPerKey DEF Handoff!AttestationVerified, Handoff!ReviewersAccepted
    <2>8. \E g \in h.reviewers.keys[k].grants :
             g.finding = f /\ g.role = r /\ (r = "team-response" => g.team = h.workflow.team[f])
      BY <2>2, <2>4, <2>7
    <2>9. i \in {j \in DOMAIN h.attestations :
                  h.attestations[j].finding = f /\ h.attestations[j].role = r}
      BY <2>3
    <2> QED  BY <2>3, <2>6, <2>7, <2>8, <2>9
  <1>8. size = 2 * Cardinality(T)
    BY <1>3, <1>4
  <1> QED  BY <1>6, <1>7, <1>8 DEF FullyAttested

------------------------------------------------------------------------------
(* The comparison of two reports (BehaviorReport)                           *)

Observed(r) == Behavior!Range(r.observations)
Mapped(r) == Behavior!Range(r.mappings)

\* What ReportAssumption says of a report
ReportRead(r) ==
    LET o == r.observations
        m == r.mappings
    IN  /\ r.version \in {1, 2} /\ (r.version = 1 => m = << >>)
        /\ o \in Seq({o[i] : i \in DOMAIN o}) /\ m \in Seq({m[i] : i \in DOMAIN m})
        /\ \A i \in DOMAIN o : o[i] = [id |-> o[i].id, phase |-> o[i].phase,
                                       category |-> o[i].category, text |-> o[i].text]
        /\ \A i \in DOMAIN m : m[i] = [technique |-> m[i].technique, ids |-> m[i].ids,
                                       text |-> m[i].text]

Accepted(r) == ReportRead(r) /\ Behavior!ReportValid(r)

LEMMA BehaviorCardinality == ASSUME NEW S PROVE Behavior!Cardinality(S) = Cardinality(S)
  BY DEF Behavior!Cardinality, Cardinality

\* A list with as many different keys as elements has none twice.
LEMMA AllDifferent ==
    ASSUME NEW n \in Nat, NEW f, f = [i \in 1..n |-> f[i]], Cardinality({f[i] : i \in 1..n}) = n
    PROVE  \A i, j \in 1..n : f[i] = f[j] => i = j
  <1> DEFINE S == {f[i] : i \in 1..n}
  <1>1. f \in [1..n -> S] /\ \A x \in S : \E i \in 1..n : f[i] = x
    OBVIOUS
  <1>2. f \in Surjection(1..n, S)
    BY <1>1, Fun_IsSurj
  <1>3. IsFiniteSet(1..n) /\ Cardinality(1..n) = n
    BY FS_Interval
  <1>4. f \in Injection(1..n, S)
    BY <1>2, <1>3, FS_Surjection
  <1> QED  BY <1>4, Fun_InjectionProperties

LEMMA IdsDiffer ==
    ASSUME NEW r, Accepted(r)
    PROVE  \A o, p \in Observed(r) : o.id = p.id => o = p
  <1> DEFINE n == Len(r.observations)
             f == [i \in 1..n |-> r.observations[i].id]
  <1>1. DOMAIN r.observations = 1..n /\ n \in Nat
    BY LenProperties DEF Accepted, ReportRead
  <1>2. Behavior!Ids(r) = {f[i] : i \in 1..n}
    BY <1>1 DEF Behavior!Ids
  <1>3. Cardinality({f[i] : i \in 1..n}) = n
    BY <1>2, BehaviorCardinality DEF Accepted, Behavior!ReportValid
  <1>4. \A i, j \in 1..n : f[i] = f[j] => i = j
    <2>1. f = [i \in 1..n |-> f[i]] /\ n \in Nat
      BY <1>1
    <2> HIDE DEF f, n
    <2> QED  BY ONLY <1>3, <2>1, AllDifferent
  <1> QED  BY <1>1, <1>4 DEF Observed, Behavior!Range

LEMMA TechniquesDiffer ==
    ASSUME NEW r, Accepted(r), r.version = 2
    PROVE  \A m, n \in Mapped(r) : m.technique = n.technique => m = n
  <1> DEFINE size == Len(r.mappings)
             f == [i \in 1..size |-> r.mappings[i].technique]
  <1>1. DOMAIN r.mappings = 1..size /\ size \in Nat
    BY LenProperties DEF Accepted, ReportRead
  <1>2. Behavior!Techniques(r) = {f[i] : i \in 1..size}
    BY <1>1 DEF Behavior!Techniques
  <1>3. Cardinality({f[i] : i \in 1..size}) = size
    BY <1>2, BehaviorCardinality DEF Accepted, Behavior!ReportValid, Behavior!MappingsValid
  <1>4. \A i, j \in 1..size : f[i] = f[j] => i = j
    <2>1. f = [i \in 1..size |-> f[i]] /\ size \in Nat
      BY <1>1
    <2> HIDE DEF f, size
    <2> QED  BY ONLY <1>3, <2>1, AllDifferent
  <1> QED  BY ZenonT(40), <1>1, <1>4 DEF Mapped, Behavior!Range

\* So an entry is what is found under its key.
LEMMA ObservationFound ==
    ASSUME NEW r, Accepted(r)
    PROVE  /\ Behavior!Ids(r) = {o.id : o \in Observed(r)}
           /\ \A o \in Observed(r) : Behavior!ById(r, o.id) = o
  <1>1. Behavior!Ids(r) = {o.id : o \in Observed(r)}
    BY DEF Behavior!Ids, Observed, Behavior!Range
  <1>2. ASSUME NEW o \in Observed(r) PROVE Behavior!ById(r, o.id) = o
    <2> DEFINE at == CHOOSE i \in DOMAIN r.observations : r.observations[i].id = o.id
    <2>1. \E i \in DOMAIN r.observations : r.observations[i].id = o.id
      BY DEF Observed, Behavior!Range
    <2>2. at \in DOMAIN r.observations /\ r.observations[at].id = o.id
      BY <2>1
    <2>3. r.observations[at] \in Observed(r)
      BY <2>2 DEF Observed, Behavior!Range
    <2> QED  BY <2>2, <2>3, IdsDiffer DEF Behavior!ById
  <1> QED  BY <1>1, <1>2

\* A mapping as a set of observations
Plain(m) == [m EXCEPT !.ids = Behavior!Range(@)]

LEMMA MappingFound ==
    ASSUME NEW r, Accepted(r), r.version = 2
    PROVE  /\ Behavior!Techniques(r) = {m.technique : m \in Mapped(r)}
           /\ \A m \in Mapped(r) : Behavior!ByTechnique(r, m.technique) = Plain(m)
  <1>1. Behavior!Techniques(r) = {m.technique : m \in Mapped(r)}
    BY DEF Behavior!Techniques, Mapped, Behavior!Range
  <1>2. ASSUME NEW m \in Mapped(r) PROVE Behavior!ByTechnique(r, m.technique) = Plain(m)
    <2> DEFINE at == CHOOSE i \in DOMAIN r.mappings : r.mappings[i].technique = m.technique
    <2>1. \E i \in DOMAIN r.mappings : r.mappings[i].technique = m.technique
      BY DEF Mapped, Behavior!Range
    <2>2. at \in DOMAIN r.mappings /\ r.mappings[at].technique = m.technique
      BY <2>1
    <2>3. r.mappings[at] \in Mapped(r)
      BY <2>2 DEF Mapped, Behavior!Range
    <2>4. r.mappings[at] = m
      BY <2>2, <2>3, TechniquesDiffer
    <2> QED  BY <2>4 DEF Behavior!ByTechnique, Plain
  <1> QED  BY <1>1, <1>2

\* _collection tells apart what is in both reports as it is.
LEMMA ChangedInCollection ==
    ASSUME NEW left, NEW right,
           \A k \in (DOMAIN left) \cap (DOMAIN right) :
              (\A f \in DOMAIN left[k] : left[k][f] = right[k][f]) => left[k] = right[k]
    PROVE  Behavior!ChangedIds(Behavior!Collection(left, right)) =
             {k \in (DOMAIN left) \cup (DOMAIN right) :
                ~ (k \in DOMAIN left /\ k \in DOMAIN right /\ left[k] = right[k])}
  <1> DEFINE both == DOMAIN left \cap DOMAIN right
             differing(k) == {f \in DOMAIN left[k] : left[k][f] # right[k][f]}
  <1>1. \A k \in both : differing(k) = {} <=> left[k] = right[k]
    OBVIOUS
  <1>2. Behavior!ChangedIds(Behavior!Collection(left, right)) =
          (DOMAIN right \ DOMAIN left) \cup (DOMAIN left \ DOMAIN right)
             \cup {k \in both : differing(k) # {}}
    BY DEF Behavior!ChangedIds, Behavior!Collection
  <1> HIDE DEF differing
  <1> QED  BY <1>1, <1>2

\* The observations that are in both reports as they are
Kept(base, current) == {o.id : o \in Observed(base) \cap Observed(current)}

ObservationChanges(base, current) ==
    Behavior!ChangedIds(Behavior!Collection(
        [id \in Behavior!Ids(base) |-> Behavior!ById(base, id)],
        [id \in Behavior!Ids(current) |-> Behavior!ById(current, id)]))

MappingChanges(base, current) ==
    Behavior!ChangedIds(Behavior!Collection(
        [t \in Behavior!Techniques(base) |-> Behavior!ByTechnique(base, t)],
        [t \in Behavior!Techniques(current) |-> Behavior!ByTechnique(current, t)]))

LEMMA ObservationsChange ==
    ASSUME NEW base, NEW current, Accepted(base), Accepted(current)
    PROVE  /\ ObservationChanges(base, current)
                = (Behavior!Ids(base) \cup Behavior!Ids(current)) \ Kept(base, current)
           /\ ObservationChanges(base, current) = {} <=> Observed(base) = Observed(current)
  <1> DEFINE left == [id \in Behavior!Ids(base) |-> Behavior!ById(base, id)]
             right == [id \in Behavior!Ids(current) |-> Behavior!ById(current, id)]
             fields == {"id", "phase", "category", "text"}
  <1>1. ASSUME NEW r, Accepted(r), NEW id \in Behavior!Ids(r)
        PROVE  /\ Behavior!ById(r, id) \in Observed(r) /\ Behavior!ById(r, id).id = id
               /\ Behavior!ById(r, id) = [f \in fields |-> Behavior!ById(r, id)[f]]
    <2>1. PICK o \in Observed(r) : id = o.id
      BY <1>1, ObservationFound
    <2>2. Behavior!ById(r, id) = o
      BY <1>1, <2>1, ObservationFound
    <2>3. o = [id |-> o.id, phase |-> o.phase, category |-> o.category, text |-> o.text]
      BY ZenonT(40), <1>1 DEF Accepted, ReportRead, Observed, Behavior!Range
    <2>4. o = [f \in fields |-> o[f]]
      BY <2>3
    <2> QED  BY <2>1, <2>2, <2>4
  <1>2. ObservationChanges(base, current) =
          {k \in Behavior!Ids(base) \cup Behavior!Ids(current) :
             ~ (/\ k \in Behavior!Ids(base) /\ k \in Behavior!Ids(current)
                /\ Behavior!ById(base, k) = Behavior!ById(current, k))}
    <2>1. \A k \in (DOMAIN left) \cap (DOMAIN right) :
             (\A f \in DOMAIN left[k] : left[k][f] = right[k][f]) => left[k] = right[k]
      <3>1. ASSUME NEW x, NEW y, x = [f \in fields |-> x[f]], y = [f \in fields |-> y[f]],
                   \A f \in DOMAIN x : x[f] = y[f]
            PROVE  x = y
        BY <3>1
      <3> HIDE DEF fields
      <3> QED  BY <1>1, <3>1
    <2>2. ObservationChanges(base, current) = Behavior!ChangedIds(Behavior!Collection(left, right))
      BY DEF ObservationChanges
    <2> HIDE DEF fields
    <2>3. ObservationChanges(base, current) =
             {k \in (DOMAIN left) \cup (DOMAIN right) :
                ~ (k \in DOMAIN left /\ k \in DOMAIN right /\ left[k] = right[k])}
      <3> HIDE DEF left, right
      <3> QED  BY ONLY <2>1, <2>2, ChangedInCollection
    <2> QED  BY <2>3
  <1>3. ASSUME NEW k
        PROVE  k \in Kept(base, current) <=> /\ k \in Behavior!Ids(base) /\ k \in Behavior!Ids(current)
                                             /\ Behavior!ById(base, k) = Behavior!ById(current, k)
    BY <1>1, ObservationFound DEF Kept
  <1>4. ObservationChanges(base, current)
          = (Behavior!Ids(base) \cup Behavior!Ids(current)) \ Kept(base, current)
    BY <1>2, <1>3
  <1>5. ASSUME Behavior!Ids(base) \cup Behavior!Ids(current) \subseteq Kept(base, current)
        PROVE  Observed(base) = Observed(current)
    BY <1>3, <1>5, <1>1, ObservationFound
  <1>6. ASSUME Observed(base) = Observed(current)
        PROVE  Behavior!Ids(base) \cup Behavior!Ids(current) \subseteq Kept(base, current)
    BY <1>6, ObservationFound DEF Kept
  <1> QED  BY <1>4, <1>5, <1>6

LEMMA MappingsChange ==
    ASSUME NEW base, NEW current, Accepted(base), Accepted(current),
           base.version = 2, current.version = 2
    PROVE  MappingChanges(base, current) = {}
             <=> {Plain(m) : m \in Mapped(base)} = {Plain(m) : m \in Mapped(current)}
  <1> DEFINE left == [t \in Behavior!Techniques(base) |-> Behavior!ByTechnique(base, t)]
             right == [t \in Behavior!Techniques(current) |-> Behavior!ByTechnique(current, t)]
             fields == {"technique", "ids", "text"}
             plain(r) == {Plain(m) : m \in Mapped(r)}
  <1>1. ASSUME NEW r, Accepted(r), r.version = 2, NEW m \in Mapped(r)
        PROVE  Plain(m).technique = m.technique /\ Plain(m) = [f \in fields |-> Plain(m)[f]]
    <2>1. m = [technique |-> m.technique, ids |-> m.ids, text |-> m.text]
      BY ZenonT(40), <1>1 DEF Accepted, ReportRead, Mapped, Behavior!Range
    <2>2. Plain(m) = [technique |-> m.technique, ids |-> Behavior!Range(m.ids), text |-> m.text]
      BY <2>1 DEF Plain
    <2> QED  BY <2>2
  <1>2. ASSUME NEW r, Accepted(r), r.version = 2, NEW t \in Behavior!Techniques(r)
        PROVE  /\ Behavior!ByTechnique(r, t) \in plain(r) /\ Behavior!ByTechnique(r, t).technique = t
               /\ Behavior!ByTechnique(r, t) = [f \in fields |-> Behavior!ByTechnique(r, t)[f]]
    <2>1. PICK m \in Mapped(r) : t = m.technique
      BY <1>2, MappingFound
    <2>2. Behavior!ByTechnique(r, t) = Plain(m)
      BY <1>2, <2>1, MappingFound
    <2> QED  BY <1>1, <1>2, <2>1, <2>2
  <1>3. ASSUME NEW r, Accepted(r), r.version = 2, NEW p \in plain(r)
        PROVE  p.technique \in Behavior!Techniques(r) /\ Behavior!ByTechnique(r, p.technique) = p
    <2>1. PICK m \in Mapped(r) : p = Plain(m)
      OBVIOUS
    <2> QED  BY <1>1, <1>3, <2>1, MappingFound
  <1>4. MappingChanges(base, current) =
          {t \in Behavior!Techniques(base) \cup Behavior!Techniques(current) :
             ~ (/\ t \in Behavior!Techniques(base) /\ t \in Behavior!Techniques(current)
                /\ Behavior!ByTechnique(base, t) = Behavior!ByTechnique(current, t))}
    <2>1. \A k \in (DOMAIN left) \cap (DOMAIN right) :
             (\A f \in DOMAIN left[k] : left[k][f] = right[k][f]) => left[k] = right[k]
      <3>1. ASSUME NEW x, NEW y, x = [f \in fields |-> x[f]], y = [f \in fields |-> y[f]],
                   \A f \in DOMAIN x : x[f] = y[f]
            PROVE  x = y
        BY <3>1
      <3> HIDE DEF fields
      <3> QED  BY <1>2, <3>1
    <2>2. MappingChanges(base, current) = Behavior!ChangedIds(Behavior!Collection(left, right))
      BY DEF MappingChanges
    <2> HIDE DEF fields
    <2>3. MappingChanges(base, current) =
             {k \in (DOMAIN left) \cup (DOMAIN right) :
                ~ (k \in DOMAIN left /\ k \in DOMAIN right /\ left[k] = right[k])}
      <3> HIDE DEF left, right
      <3> QED  BY ONLY <2>1, <2>2, ChangedInCollection
    <2> QED  BY <2>3
  <1> HIDE DEF plain, fields
  <1>5. ASSUME MappingChanges(base, current) = {} PROVE plain(base) = plain(current)
    BY <1>2, <1>3, <1>4, <1>5
  <1>6. ASSUME plain(base) = plain(current) PROVE MappingChanges(base, current) = {}
    BY <1>2, <1>3, <1>4, <1>6
  <1> QED  BY <1>5, <1>6 DEF plain

\* The observations that a technique rests on, in either report, and not as they were
Shaken(base, current, t) ==
    (UNION {Behavior!Range(m.ids) : m \in {n \in Mapped(base) \cup Mapped(current) : n.technique = t}})
      \ Kept(base, current)

ForReview(base, current) ==
    {[technique |-> t, ids |-> Shaken(base, current, t)] :
       t \in {u \in {m.technique : m \in Mapped(base) \cup Mapped(current)} :
               Shaken(base, current, u) # {}}}

LEMMA ElementsOfBoth ==
    ASSUME NEW S, NEW s \in Seq(S), NEW t \in Seq(S)
    PROVE  Behavior!Range(s \o t) = Behavior!Range(s) \cup Behavior!Range(t)
  <1>1. /\ Len(s) \in Nat /\ Len(t) \in Nat /\ DOMAIN s = 1..Len(s) /\ DOMAIN t = 1..Len(t)
        /\ DOMAIN (s \o t) = 1..(Len(s) + Len(t))
    BY ConcatProperties, LenProperties
  <1>2. \A i \in 1..(Len(s) + Len(t)) : (s \o t)[i] = IF i <= Len(s) THEN s[i] ELSE t[i - Len(s)]
    BY ConcatProperties
  <1>3. ASSUME NEW i \in DOMAIN (s \o t)
        PROVE  (s \o t)[i] \in Behavior!Range(s) \cup Behavior!Range(t)
    BY <1>1, <1>2 DEF Behavior!Range
  <1>4. ASSUME NEW i \in DOMAIN s PROVE s[i] \in Behavior!Range(s \o t)
    <2>1. i \in DOMAIN (s \o t) /\ (s \o t)[i] = s[i]
      BY <1>1, <1>2
    <2> QED  BY <2>1 DEF Behavior!Range
  <1>5. ASSUME NEW i \in DOMAIN t PROVE t[i] \in Behavior!Range(s \o t)
    <2>1. Len(s) + i \in DOMAIN (s \o t) /\ (s \o t)[Len(s) + i] = t[i]
      BY <1>1, <1>2
    <2> QED  BY <2>1 DEF Behavior!Range
  <1> QED  BY <1>3, <1>4, <1>5 DEF Behavior!Range

LEMMA MappingsOfBoth ==
    ASSUME NEW base, NEW current, ReportRead(base), ReportRead(current)
    PROVE  Behavior!Range(base.mappings \o current.mappings) = Mapped(base) \cup Mapped(current)
  <1> DEFINE all == Mapped(base) \cup Mapped(current)
  <1>1. ASSUME NEW r, ReportRead(r), Mapped(r) \subseteq all PROVE r.mappings \in Seq(all)
    <2>1. r.mappings \in Seq(Mapped(r))
      BY <1>1 DEF ReportRead, Mapped, Behavior!Range
    <2> QED  BY ONLY <1>1, <2>1, SeqMonotonic
  <1>2. base.mappings \in Seq(all) /\ current.mappings \in Seq(all)
    BY <1>1
  <1> HIDE DEF all
  <1>3. Behavior!Range(base.mappings \o current.mappings)
          = Behavior!Range(base.mappings) \cup Behavior!Range(current.mappings)
    BY ONLY <1>2, ElementsOfBoth
  <1> QED  BY <1>3 DEF Mapped

\* What a mapping rests on is observed in its report.
LEMMA MappingsRest ==
    ASSUME NEW r, Accepted(r), r.version = 2, NEW m \in Mapped(r)
    PROVE  Behavior!Range(m.ids) \subseteq Behavior!Ids(r)
  BY DEF Accepted, Behavior!ReportValid, Behavior!MappingsValid, Mapped, Behavior!Range

LEMMA DependentsAffected ==
    ASSUME NEW base, NEW current, Accepted(base), Accepted(current),
           base.version = 2, current.version = 2
    PROVE  Behavior!Affected(base, current, ObservationChanges(base, current)) = ForReview(base, current)
  <1> DEFINE all == Mapped(base) \cup Mapped(current)
             rests(t) == UNION {Behavior!Range(m.ids) : m \in {n \in all : n.technique = t}}
             changes == ObservationChanges(base, current)
  <1>1. ASSUME NEW t PROVE rests(t) \subseteq Behavior!Ids(base) \cup Behavior!Ids(current)
    BY MappingsRest
  <1>2. changes = (Behavior!Ids(base) \cup Behavior!Ids(current)) \ Kept(base, current)
    BY ObservationsChange
  <1>3. ASSUME NEW t PROVE changes \cap rests(t) = Shaken(base, current, t)
    <2>1. Shaken(base, current, t) = rests(t) \ Kept(base, current)
      BY DEF Shaken
    <2> HIDE DEF rests, changes
    <2> QED  BY <1>1, <1>2, <2>1
  <1>4. Behavior!Affected(base, current, changes)
          = {[technique |-> t, ids |-> changes \cap rests(t)] :
               t \in {u \in {m.technique : m \in all} : changes \cap rests(u) # {}}}
    BY MappingsOfBoth DEF Behavior!Affected, Accepted
  <1> HIDE DEF rests, changes
  <1> QED  BY <1>3, <1>4 DEF ForReview, changes

LEMMA ReviewListsDependents ==
    ASSUME NEW base, NEW current, Accepted(base), Accepted(current), base.sample = current.sample
    PROVE  LET answered == Behavior!CompareReports(base, current)
           IN  /\ answered.comparable <=> base.version = 2 /\ current.version = 2
               /\ answered.review = IF base.version = 2 /\ current.version = 2
                                      THEN ForReview(base, current) ELSE {}
               /\ answered.status = "unchanged" <=>
                    /\ ObservationChanges(base, current) = {}
                    /\ base.environment = current.environment
                    /\ Behavior!Sorted(base.tools) = Behavior!Sorted(current.tools)
                    /\ base.version = current.version
                    /\ base.version = 2 => MappingChanges(base, current) = {}
  <1> DEFINE answered == Behavior!CompareReports(base, current)
             comparable == base.version = 2 /\ current.version = 2
             changed == \/ ObservationChanges(base, current) # {}
                        \/ Behavior!AnalysisChanged(base, current) # {}
                        \/ base.version # current.version
                        \/ comparable /\ MappingChanges(base, current) # {}
  <1>1. /\ answered.comparable = comparable
        /\ answered.review = IF comparable
              THEN Behavior!Affected(base, current, ObservationChanges(base, current)) ELSE {}
        /\ answered.status = IF changed THEN "changed" ELSE "unchanged"
    BY DEF Behavior!CompareReports, Accepted, ObservationChanges, MappingChanges
  <1>2. Behavior!AnalysisChanged(base, current) = {} <=>
          /\ base.environment = current.environment
          /\ Behavior!Sorted(base.tools) = Behavior!Sorted(current.tools)
    BY DEF Behavior!AnalysisChanged
  <1> HIDE DEF answered
  <1>3. answered.review = IF comparable THEN ForReview(base, current) ELSE {}
    BY <1>1, DependentsAffected
  <1> QED  BY <1>1, <1>2, <1>3 DEF answered

------------------------------------------------------------------------------
(* Induction and order                                                      *)
\* A set of naturals has a least element: the finite sets 1..x are well-founded by inclusion.
LEMMA LeastNat == ASSUME NEW T, T \subseteq Nat, T # {} PROVE \E x \in T : \A y \in T : x <= y
  <1> DEFINE up(n) == 1..n
             sets == {up(n) : n \in T}
  <1>1. \A n \in T : up(n) \in FiniteSubsetsOf(Nat)
    BY FS_Interval DEF FiniteSubsetsOf
  <1>2. sets \subseteq FiniteSubsetsOf(Nat) /\ sets # {}
    BY <1>1
  <1>3. \E s \in sets : \A t \in sets : <<t, s>> \notin StrictSubsetOrdering(Nat)
    BY <1>2, FS_StrictSubsetOrderingWellFounded, WFMin
  <1>4. PICK x \in T : \A y \in T : <<up(y), up(x)>> \notin StrictSubsetOrdering(Nat)
    BY <1>3
  <1>5. ASSUME NEW y \in T, y < x PROVE FALSE
    <2>1. up(y) \subseteq up(x) /\ up(y) # up(x)
      <3>1. x \in up(x) /\ x \notin up(y)
        BY <1>5
      <3> QED BY <1>5, <3>1
    <2>2. up(y) \subseteq Nat /\ up(x) \subseteq Nat
      OBVIOUS
    <2> QED BY <1>4, <2>1, <2>2 DEF StrictSubsetOrdering
  <1> QED BY <1>4, <1>5

LEMMA GreatestUpTo ==
    ASSUME NEW n \in Nat, NEW T, T \subseteq 0..n, T # {}
    PROVE  \E x \in T : \A y \in T : y <= x
  <1> DEFINE U == {n - x : x \in T}
  <1>1. U \subseteq Nat /\ U # {}
    <2>1. \A x \in T : n - x \in Nat
      OBVIOUS
    <2> QED  BY <2>1
  <1>2. PICK u \in U : \A v \in U : u <= v
    BY <1>1, LeastNat
  <1>3. PICK x \in T : u = n - x
    BY <1>2
  <1>4. \A y \in T : u <= n - y
    BY <1>2
  <1> QED  BY <1>3, <1>4

\* Induction, for a set of naturals in the place of a predicate.
LEMMA InductiveSet ==
    ASSUME NEW S, 0 \in S, \A n \in Nat : n \in S => n + 1 \in S
    PROVE  \A n \in Nat : n \in S
  <1> SUFFICES ASSUME Nat \ S # {} PROVE FALSE
    OBVIOUS
  <1>1. PICK x \in Nat \ S : \A y \in Nat \ S : x <= y
    BY LeastNat
  <1>2. x # 0 /\ x - 1 \in Nat /\ x - 1 \notin Nat \ S
    BY <1>1
  <1> QED BY <1>1, <1>2

------------------------------------------------------------------------------
\* A sort of a finite set by a strict total order
TotalOrder(S, before) ==
    /\ \A i \in S : <<i, i>> \notin before
    /\ \A i, j \in S : i # j => <<i, j>> \in before \/ <<j, i>> \in before
    /\ \A i, j, k \in S : <<i, j>> \in before /\ <<j, k>> \in before => <<i, k>> \in before

LEMMA ArrangedInOrder ==
    ASSUME NEW S, IsFiniteSet(S), NEW before, TotalOrder(S, before)
    PROVE  LET s == Arranged(S, before)
               n == Cardinality(S)
           IN  /\ n \in Nat /\ s \in [1..n -> S]
               /\ \A k, l \in 1..n : <<s[k], s[l]>> \in before <=> k < l
               /\ \A k, l \in 1..n : s[k] = s[l] => k = l
               /\ \A i \in S : \E k \in 1..n : s[k] = i
  <1> DEFINE n == Cardinality(S)
             s == Arranged(S, before)
             earlier(i) == {j \in S : <<j, i>> \in before}
             rank == [i \in S |-> Cardinality(earlier(i))]
  <1>1. n \in Nat
    BY FS_CardinalityType
  <1>2. ASSUME NEW i \in S PROVE /\ IsFiniteSet(earlier(i)) /\ rank[i] \in 0..(n - 1)
    <2>1. earlier(i) \in SUBSET (S \ {i})
      BY DEF TotalOrder
    <2>2. IsFiniteSet(S \ {i}) /\ Cardinality(S \ {i}) = n - 1
      BY FS_RemoveElement
    <2> HIDE DEF earlier
    <2>3. IsFiniteSet(earlier(i)) /\ Cardinality(earlier(i)) <= n - 1
      BY <2>1, <2>2, FS_Subset
    <2>4. Cardinality(earlier(i)) \in Nat
      BY <2>3, FS_CardinalityType
    <2> QED  BY <2>3, <2>4
  <1>3. ASSUME NEW i \in S, NEW j \in S, <<i, j>> \in before PROVE rank[i] < rank[j]
    <2>1. earlier(i) \subseteq earlier(j) /\ i \in earlier(j) /\ i \notin earlier(i)
      BY <1>3 DEF TotalOrder
    <2>2. Cardinality(earlier(i)) <= Cardinality(earlier(j))
      BY <1>2, <2>1, FS_Subset
    <2>3. Cardinality(earlier(i)) # Cardinality(earlier(j))
      BY <1>2, <2>1, FS_Subset
    <2> QED  BY <1>2, <2>2, <2>3
  <1>2a. \A i \in S : rank[i] \in 0..(n - 1)
    BY <1>2
  <1> HIDE DEF rank
  <1>4. ASSUME NEW i \in S, NEW j \in S, rank[i] = rank[j] PROVE i = j
    <2> SUFFICES ASSUME i # j PROVE FALSE
      OBVIOUS
    <2>1. <<i, j>> \in before \/ <<j, i>> \in before
      BY DEF TotalOrder
    <2>2. rank[i] \in Int /\ rank[j] \in Int
      BY <1>2a
    <2> QED  BY <1>3, <1>4, <2>1, <2>2
  <1>5. rank \in Injection(S, 0..(n - 1))
    <2>1. rank \in [S -> 0..(n - 1)]
      BY <1>2 DEF rank
    <2> QED  BY <1>4, <2>1 DEF Injection, IsInjective
  <1>6. IsFiniteSet(0..(n - 1)) /\ Cardinality(0..(n - 1)) = n
    BY <1>1, FS_Interval
  <1>7. rank \in Surjection(S, 0..(n - 1))
    BY <1>5, <1>6, FS_Injection
  <1>8. ASSUME NEW k \in 1..n PROVE s[k] \in S /\ rank[s[k]] = k - 1
    <2>1. \E i \in S : rank[i] = k - 1
      BY <1>1, <1>7 DEF Surjection
    <2>2. s[k] = CHOOSE i \in S : Cardinality(earlier(i)) = k - 1
      BY DEF Arranged
    <2>3. \A i \in S : rank[i] = Cardinality(earlier(i))
      BY DEF rank
    <2> QED  BY <2>1, <2>2, <2>3
  <1>9. s \in [1..n -> S]
    BY <1>8 DEF Arranged
  <1>10. ASSUME NEW k \in 1..n, NEW l \in 1..n PROVE <<s[k], s[l]>> \in before <=> k < l
    <2>1. s[k] \in S /\ s[l] \in S /\ rank[s[k]] = k - 1 /\ rank[s[l]] = l - 1
      BY <1>8
    <2>2. ASSUME k < l PROVE <<s[k], s[l]>> \in before
      <3>1. s[k] # s[l]
        BY <2>1, <2>2
      <3>2. <<s[k], s[l]>> \in before \/ <<s[l], s[k]>> \in before
        BY <2>1, <3>1 DEF TotalOrder
      <3> QED  BY <1>3, <2>1, <2>2, <3>2
    <2> QED  BY <1>3, <2>1, <2>2
  <1>11. ASSUME NEW k \in 1..n, NEW l \in 1..n, s[k] = s[l] PROVE k = l
    BY <1>8, <1>11
  <1>12. ASSUME NEW i \in S PROVE \E k \in 1..n : s[k] = i
    <2>1. rank[i] + 1 \in 1..n
      BY <1>1, <1>2a
    <2>2. s[rank[i] + 1] \in S /\ rank[s[rank[i] + 1]] = rank[i]
      BY <1>8, <1>2a, <2>1
    <2> QED  BY <1>4, <2>1, <2>2
  <1> QED  BY <1>1, <1>9, <1>10, <1>11, <1>12

\* The elements at the places a to b
Between(s, a, b) == {s[k] : k \in a..b}

LEMMA BetweenCount ==
    ASSUME NEW n \in Nat, NEW s, \A k, l \in 1..n : s[k] = s[l] => k = l,
           NEW a \in 1..n, NEW b \in 0..n, a <= b + 1
    PROVE  IsFiniteSet(Between(s, a, b)) /\ Cardinality(Between(s, a, b)) = b - a + 1
  <1> DEFINE T == Between(s, a, b)
             f == [k \in a..b |-> s[k]]
  <1>1. IsFiniteSet(a..b) /\ Cardinality(a..b) = b - a + 1
    <2>1. a \in Int /\ b \in Int
      OBVIOUS
    <2>2. IsFiniteSet(a..b) /\ Cardinality(a..b) = IF a > b THEN 0 ELSE b - a + 1
      BY <2>1, FS_Interval
    <2>3. a > b => b - a + 1 = 0
      BY <2>1
    <2> QED  BY <2>2, <2>3
  <1>2. f \in Bijection(a..b, T)
    <2>1. f \in [a..b -> T] /\ \A k, l \in a..b : f[k] = f[l] => k = l
      BY DEF Between
    <2>2. \A t \in T : \E k \in a..b : f[k] = t
      BY DEF Between
    <2> QED  BY <2>1, <2>2 DEF Bijection, Injection, Surjection, IsInjective
  <1> HIDE DEF T, f
  <1>3. IsFiniteSet(T) /\ Cardinality(T) = Cardinality(a..b)
    BY <1>1, <1>2, FS_Bijection DEF ExistsBijection
  <1> QED  BY <1>1, <1>3 DEF T

------------------------------------------------------------------------------
(* The windows of tcp_reset_review (TcpResetReview)                         *)
LEMMA ScanRuns ==
    ASSUME NEW ts, Len(ts) \in Nat, NEW window
    PROVE  \E scan : /\ Tcp!Scan(ts, window) = scan[Len(ts)]
                     /\ scan[0] = [left |-> 1, first |-> 1, last |-> 0]
                     /\ \A n \in 1..Len(ts) : scan[n] = Tcp!Slide(ts, scan[n - 1], n, window)
  <1> DEFINE N == Len(ts)
             start == [left |-> 1, first |-> 1, last |-> 0]
             step(n, x) == Tcp!Slide(ts, x, n, window)
             upTo(m, f) == f = [n \in 0..m |-> IF n = 0 THEN start ELSE step(n, f[n - 1])]
             S == {m \in Nat : m <= N => \E f : upTo(m, f)}
  <1> HIDE DEF step, start
  <1>1. 0 \in S
    <2>1. upTo(0, [n \in 0..0 |-> start])
      OBVIOUS
    <2> QED  BY <2>1
  <1>2. ASSUME NEW m \in Nat, m \in S PROVE m + 1 \in S
    <2> SUFFICES ASSUME m + 1 <= N PROVE \E f : upTo(m + 1, f)
      OBVIOUS
    <2>1. PICK f : upTo(m, f)
      BY <1>2
    <2> DEFINE g == [n \in 0..(m + 1) |-> IF n = m + 1 THEN step(m + 1, f[m]) ELSE f[n]]
    <2>2. ASSUME NEW n \in 0..(m + 1) PROVE g[n] = IF n = 0 THEN start ELSE step(n, g[n - 1])
      <3>1. CASE n = m + 1
        BY <3>1
      <3>2. CASE n \in 0..m
        <4>1. f[n] = IF n = 0 THEN start ELSE step(n, f[n - 1])
          BY <2>1, <3>2
        <4>2. g[n] = f[n] /\ (n # 0 => g[n - 1] = f[n - 1])
          BY <3>2
        <4> QED  BY <4>1, <4>2
      <3> QED  BY <3>1, <3>2
    <2>3. upTo(m + 1, g)
      BY <2>2
    <2> QED  BY <2>3
  <1> HIDE DEF S
  <1>3. N \in S
    BY <1>1, <1>2, InductiveSet
  <1> DEFINE scan == CHOOSE f : upTo(N, f)
  <1>4. upTo(N, scan)
    BY <1>3 DEF S
  <1>5. Tcp!Scan(ts, window) = scan[N]
    BY DEF Tcp!Scan, start, step
  <1> HIDE DEF scan
  <1>6. scan[0] = start /\ \A n \in 1..N : scan[n] = step(n, scan[n - 1])
    BY <1>4
  <1> QED  BY <1>5, <1>6 DEF start, step

\* The rows of one group in time, with the earliest row l that the m-th one's window holds
Timed(ts) ==
    /\ Len(ts) \in Nat /\ \A n \in 1..Len(ts) : ts[n] \in Int
    /\ \A m, n \in 1..Len(ts) : m <= n => ts[m] <= ts[n]

Holds(ts, window, m, l) ==
    /\ l \in 1..m /\ ts[m] - ts[l] <= window
    /\ \A k \in 1..(l - 1) : ts[m] - ts[k] > window

LEMMA HoldsOne ==
    ASSUME NEW ts, Timed(ts), NEW window \in Nat, NEW m \in 1..Len(ts),
           NEW k, NEW l, Holds(ts, window, m, k), Holds(ts, window, m, l)
    PROVE  k = l
  <1>1. k \in Int /\ l \in Int /\ k >= 1 /\ l >= 1
    BY DEF Holds
  <1>2. ~ (k < l) /\ ~ (l < k)
    BY <1>1 DEF Holds, Timed
  <1> QED  BY <1>1, <1>2

\* The inner loop finds it, if what it has left behind is too old.
LEMMA AdvancedHolds ==
    ASSUME NEW ts, Timed(ts), NEW window \in Nat, NEW n \in 1..Len(ts), NEW left \in 1..n,
           \A k \in 1..(left - 1) : ts[n] - ts[k] > window
    PROVE  Holds(ts, window, n, Tcp!Advanced(ts, left, n, window))
  <1> DEFINE T == {l \in left..n : ts[n] - ts[l] <= window}
             good(l) == /\ l \in left..n /\ ts[n] - ts[l] <= window
                        /\ \A k \in left..(l - 1) : ts[n] - ts[k] > window
  <1>1. ts[n] \in Int /\ \A l \in 1..n : ts[l] \in Int
    BY DEF Timed
  <1>2. T \subseteq Nat /\ n \in T
    BY <1>1
  <1>3. PICK l \in T : \A k \in T : l <= k
    BY <1>2, LeastNat
  <1>4. good(l)
    BY <1>1, <1>3
  <1>5. good(Tcp!Advanced(ts, left, n, window))
    BY <1>4 DEF Tcp!Advanced
  <1> QED  BY <1>1, <1>5 DEF Holds

\* The best window so far is the widest, and the first of the widest.
Best(ts, window, n, best) ==
    /\ best = [left |-> best.left, first |-> best.first, last |-> best.last]
    /\ best.left \in 1..(n + 1)
    /\ n = 0 => best.left = 1 /\ best.first = 1 /\ best.last = 0
    /\ n > 0 => /\ Holds(ts, window, n, best.left)
                /\ best.last \in 1..n /\ Holds(ts, window, best.last, best.first)
                /\ \A m \in 1..n : \A l : Holds(ts, window, m, l) =>
                     /\ m - l <= best.last - best.first
                     /\ m < best.last => m - l < best.last - best.first

LEMMA SlideKeepsBest ==
    ASSUME NEW ts, Timed(ts), NEW window \in Nat, NEW n \in 1..Len(ts), NEW best,
           Best(ts, window, n - 1, best)
    PROVE  Best(ts, window, n, Tcp!Slide(ts, best, n, window))
  <1> DEFINE left == Tcp!Advanced(ts, best.left, n, window)
             new == Tcp!Slide(ts, best, n, window)
  <1>1. Holds(ts, window, n, left)
    <2>1. best.left \in 1..n
      BY DEF Best
    <2>2. ASSUME NEW k \in 1..(best.left - 1) PROVE ts[n] - ts[k] > window
      <3>1. n > 1 /\ ts[n - 1] - ts[k] > window
        BY <2>1 DEF Best, Holds
      <3>2. /\ k \in 1..Len(ts) /\ n - 1 \in 1..Len(ts)
            /\ {ts[n], ts[n - 1], ts[k]} \subseteq Int /\ ts[n - 1] <= ts[n]
        BY <2>1, <3>1 DEF Timed
      <3> QED  BY <3>1, <3>2
    <2> QED  BY <2>1, <2>2, AdvancedHolds
  <1> HIDE DEF left
  <1>2. new = IF n - left > best.last - best.first
                THEN [left |-> left, first |-> left, last |-> n]
                ELSE [left |-> left, first |-> best.first, last |-> best.last]
    BY DEF Tcp!Slide, left, Best
  <1>3. left \in 1..n
    BY <1>1 DEF Holds
  <1>4. \A l : Holds(ts, window, n, l) => l = left
    BY <1>1, HoldsOne
  <1>5. CASE n = 1
    <2>1. left = 1 /\ best.first = 1 /\ best.last = 0
      BY <1>3, <1>5 DEF Best
    <2>2. new = [left |-> 1, first |-> 1, last |-> 1]
      BY <1>2, <1>5, <2>1
    <2> QED  BY <1>1, <1>4, <1>5, <2>1, <2>2 DEF Best
  <1>6. CASE n > 1
    <2>1. /\ best.last \in 1..(n - 1) /\ Holds(ts, window, best.last, best.first)
          /\ best.first \in 1..best.last
      BY <1>6 DEF Best, Holds
    <2>2. \A m \in 1..(n - 1) : \A l : Holds(ts, window, m, l) =>
             /\ l \in Int
             /\ m - l <= best.last - best.first
             /\ m < best.last => m - l < best.last - best.first
      <3>1. \A m \in 1..(n - 1) : \A l : Holds(ts, window, m, l) => l \in Int
        BY DEF Holds
      <3> QED  BY <1>6, <3>1 DEF Best
    <2>3. CASE n - left > best.last - best.first
      <3>1. new = [left |-> left, first |-> left, last |-> n]
        BY <1>2, <2>3
      <3>2. \A m \in 1..n : \A l : Holds(ts, window, m, l) =>
               m - l <= n - left /\ (m < n => m - l < n - left)
        BY <1>3, <1>4, <1>6, <2>1, <2>2, <2>3
      <3> QED  BY <1>1, <1>3, <1>6, <3>1, <3>2 DEF Best
    <2>4. CASE ~ (n - left > best.last - best.first)
      <3>1. new = [left |-> left, first |-> best.first, last |-> best.last]
        BY <1>2, <2>4
      <3>2. \A m \in 1..n : \A l : Holds(ts, window, m, l) =>
               /\ m - l <= best.last - best.first
               /\ m < best.last => m - l < best.last - best.first
        BY <1>3, <1>4, <1>6, <2>1, <2>2, <2>4
      <3> QED  BY <1>1, <1>3, <1>6, <2>1, <3>1, <3>2 DEF Best
    <2> QED  BY <2>3, <2>4
  <1> QED  BY <1>5, <1>6

LEMMA ScanFindsBest ==
    ASSUME NEW ts, Timed(ts), NEW window \in Nat
    PROVE  Best(ts, window, Len(ts), Tcp!Scan(ts, window))
  <1>1. Len(ts) \in Nat
    BY DEF Timed
  <1>2. PICK scan : /\ Tcp!Scan(ts, window) = scan[Len(ts)]
                    /\ scan[0] = [left |-> 1, first |-> 1, last |-> 0]
                    /\ \A n \in 1..Len(ts) : scan[n] = Tcp!Slide(ts, scan[n - 1], n, window)
    BY <1>1, ScanRuns
  <1> DEFINE S == {n \in Nat : n <= Len(ts) => Best(ts, window, n, scan[n])}
  <1>3. 0 \in S
    BY <1>2 DEF Best
  <1>4. ASSUME NEW n \in Nat, n \in S PROVE n + 1 \in S
    <2> SUFFICES ASSUME n + 1 <= Len(ts) PROVE Best(ts, window, n + 1, scan[n + 1])
      OBVIOUS
    <2>1. n + 1 \in 1..Len(ts) /\ (n + 1) - 1 = n /\ Best(ts, window, n, scan[n])
      BY <1>1, <1>4
    <2>2. Best(ts, window, n + 1, Tcp!Slide(ts, scan[n], n + 1, window))
      BY <2>1, SlideKeepsBest
    <2> QED  BY <1>2, <2>1, <2>2
  <1> HIDE DEF S
  <1>5. Len(ts) \in S
    BY <1>1, <1>3, <1>4, InductiveSet
  <1> QED  BY <1>1, <1>2, <1>5 DEF S

\* The rows that an instant's window holds are the rows of an interval, the last of
\* which is at that instant, too.
LEMMA WindowIsInterval ==
    ASSUME NEW ts, Timed(ts), NEW window \in Nat, NEW m \in 1..Len(ts)
    PROVE  \E u \in m..Len(ts) : \E l \in 1..u :
              /\ Holds(ts, window, u, l) /\ ts[u] = ts[m]
              /\ \A k \in 1..Len(ts) : ts[k] \in (ts[m] - window)..ts[m] <=> k \in l..u
  <1> DEFINE T == {k \in 1..Len(ts) : ts[k] = ts[m]}
  <1>1. /\ Len(ts) \in Nat /\ \A k \in 1..Len(ts) : ts[k] \in Int
        /\ \A k, n \in 1..Len(ts) : k <= n => ts[k] <= ts[n]
    BY DEF Timed
  <1>2. T \subseteq 0..Len(ts) /\ m \in T
    BY <1>1
  <1>3. PICK u \in T : \A k \in T : k <= u
    BY <1>1, <1>2, GreatestUpTo
  <1>4. u \in m..Len(ts) /\ u \in 1..Len(ts) /\ ts[u] = ts[m]
    BY <1>1, <1>2, <1>3
  <1> DEFINE l == Tcp!Advanced(ts, 1, u, window)
  <1>5. Holds(ts, window, u, l)
    BY <1>4, AdvancedHolds
  <1> HIDE DEF l
  <1>6. l \in 1..u
    BY <1>5 DEF Holds
  <1>7. ASSUME NEW k \in 1..Len(ts) PROVE ts[k] \in (ts[m] - window)..ts[m] <=> k \in l..u
    <2>1. ASSUME k > u PROVE ts[k] > ts[m]
      <3>1. ts[k] # ts[m] /\ ts[m] <= ts[k]
        BY <1>1, <1>3, <1>4, <2>1
      <3> QED  BY <1>1, <3>1
    <2>2. ASSUME k < l PROVE ts[m] - ts[k] > window
      BY <1>4, <1>5, <1>6, <2>2 DEF Holds
    <2>3. ASSUME k \in l..u PROVE ts[k] <= ts[m] /\ ts[m] - ts[k] <= window
      <3>1. ts[l] <= ts[k] /\ ts[k] <= ts[u] /\ ts[u] - ts[l] <= window
        BY <1>1, <1>4, <1>5, <1>6, <2>3 DEF Holds
      <3> QED  BY <1>1, <1>4, <1>6, <3>1
    <2> QED  BY <1>1, <1>4, <1>6, <2>1, <2>2, <2>3
  <1> QED  BY <1>4, <1>5, <1>6, <1>7

------------------------------------------------------------------------------
LEMMA TcpCardinality == ASSUME NEW S PROVE Tcp!Cardinality(S) = Cardinality(S)
  BY DEF Tcp!Cardinality, Cardinality

LEMMA TcpArranged == ASSUME NEW S, NEW before PROVE Tcp!Arranged(S, before) = Arranged(S, before)
  BY DEF Tcp!Arranged, Arranged, Tcp!Cardinality, Cardinality

\* Rows of which no two have one UID
Rows(rows) ==
    /\ Len(rows) \in Nat /\ DOMAIN rows = 1..Len(rows)
    /\ \A i \in DOMAIN rows : rows[i].ts \in Nat /\ rows[i].uid \in Nat
    /\ \A i, j \in DOMAIN rows : rows[i].uid = rows[j].uid => i = j

Lines(rows, g) ==
    {i \in DOMAIN rows : rows[i].proto = "tcp" /\ rows[i].service = g[1] /\ rows[i].state = g[2]}

LEMMA GroupIsSorted ==
    ASSUME NEW rows, Rows(rows), NEW g
    PROVE  LET s == Tcp!Group(rows, g[1], g[2])
               n == Cardinality(Lines(rows, g))
               ts == [k \in DOMAIN s |-> rows[s[k]].ts]
           IN  /\ n \in Nat /\ s \in [1..n -> Lines(rows, g)]
               /\ \A k, l \in 1..n : s[k] = s[l] => k = l
               /\ \A i \in Lines(rows, g) : \E k \in 1..n : s[k] = i
               /\ Len(ts) = n /\ Timed(ts)
  <1> DEFINE L == Lines(rows, g)
             before == {p \in L \X L : Tcp!Earlier(rows[p[1]], rows[p[2]])}
             s == Tcp!Group(rows, g[1], g[2])
             n == Cardinality(L)
             ts == [k \in DOMAIN s |-> rows[s[k]].ts]
  <1>1. s = Arranged(L, before)
    BY TcpArranged DEF Tcp!Group, Lines
  <1>2. IsFiniteSet(L)
    <2>1. L \subseteq 1..Len(rows) /\ IsFiniteSet(1..Len(rows))
      BY FS_Interval DEF Rows, Lines
    <2> QED  BY <2>1, FS_Subset
  <1>3. \A i \in L : i \in DOMAIN rows /\ rows[i].ts \in Nat /\ rows[i].uid \in Nat
    BY DEF Rows, Lines
  <1>4. \A i, j \in L : rows[i].uid = rows[j].uid => i = j
    BY DEF Rows, Lines
  <1> HIDE DEF L
  <1>5. \A i, j \in L : <<i, j>> \in before <=>
           rows[i].ts < rows[j].ts \/ (rows[i].ts = rows[j].ts /\ rows[i].uid < rows[j].uid)
    BY DEF Tcp!Earlier
  <1> HIDE DEF before
  <1>6. TotalOrder(L, before)
    BY <1>3, <1>4, <1>5 DEF TotalOrder
  <1>7. /\ n \in Nat /\ s \in [1..n -> L]
        /\ \A k, l \in 1..n : <<s[k], s[l]>> \in before <=> k < l
        /\ \A k, l \in 1..n : s[k] = s[l] => k = l
        /\ \A i \in L : \E k \in 1..n : s[k] = i
    BY <1>1, <1>2, <1>6, ArrangedInOrder
  <1> HIDE DEF s, n
  <1>8. ts \in [1..n -> Nat]
    BY <1>3, <1>7
  <1>9. Len(ts) = n
    <2>1. ts \in Seq(Nat)
      BY <1>7, <1>8, SeqDef
    <2>2. Len(ts) \in Nat /\ DOMAIN ts = 1..Len(ts) /\ DOMAIN ts = 1..n
      BY <1>8, <2>1, LenProperties
    <2> QED  BY <1>7, <2>2
  <1>10. \A k, l \in 1..n : k <= l => ts[k] <= ts[l]
    <2> SUFFICES ASSUME NEW k \in 1..n, NEW l \in 1..n, k < l PROVE ts[k] <= ts[l]
      BY <1>8
    <2>1. <<s[k], s[l]>> \in before /\ s[k] \in L /\ s[l] \in L
      BY <1>7
    <2> QED  BY <1>3, <1>5, <1>7, <2>1
  <1>11. Timed(ts)
    BY <1>7, <1>8, <1>9, <1>10 DEF Timed
  <1> QED  BY <1>7, <1>9, <1>11 DEF L, s, n

Until(rows, g, window, i) == {j \in Lines(rows, g) : rows[j].ts \in (rows[i].ts - window)..rows[i].ts}

\* The evidence of a group is the widest window of it, and the first of the widest.
Widest(rows, g, window, e) ==
    /\ Len(e) \in Nat /\ DOMAIN e = 1..Len(e)
    /\ \A k, l \in DOMAIN e : e[k] = e[l] => k = l
    /\ \A i \in Lines(rows, g) :
         /\ Cardinality(Until(rows, g, window, i)) \in Nat
         /\ Cardinality(Until(rows, g, window, i)) <= Len(e)
    /\ Lines(rows, g) = {} => Len(e) = 0
    /\ Lines(rows, g) # {} =>
         \E i \in Lines(rows, g) :
            /\ Cardinality(Until(rows, g, window, i)) = Len(e)
            /\ {e[k] : k \in DOMAIN e} = Until(rows, g, window, i)
            /\ \A j \in Lines(rows, g) :
                 Cardinality(Until(rows, g, window, j)) = Len(e) => rows[i].ts <= rows[j].ts

LEMMA EvidenceIsWidest ==
    ASSUME NEW rows, Rows(rows), NEW g, NEW window \in Nat
    PROVE  Widest(rows, g, window, Tcp!Selected(rows, Tcp!Group(rows, g[1], g[2]), window))
  <1> DEFINE L == Lines(rows, g)
             s == Tcp!Group(rows, g[1], g[2])
             n == Cardinality(L)
             ts == [k \in DOMAIN s |-> rows[s[k]].ts]
             best == Tcp!Scan(ts, window)
             e == SubSeq(s, best.first, best.last)
             until(i) == Until(rows, g, window, i)
  <1>1. /\ n \in Nat /\ s \in [1..n -> L]
        /\ \A k, l \in 1..n : s[k] = s[l] => k = l
        /\ \A i \in L : \E k \in 1..n : s[k] = i
        /\ Len(ts) = n /\ Timed(ts)
    BY SMTT(40), GroupIsSorted
  <1>2. \A k \in 1..n : ts[k] = rows[s[k]].ts
    BY <1>1
  <1>3. e = Tcp!Selected(rows, s, window)
    BY DEF Tcp!Selected
  <1> SUFFICES Widest(rows, g, window, e)
    BY <1>3
  <1> HIDE DEF s, ts
  <1>4. Best(ts, window, n, best)
    BY <1>1, ScanFindsBest
  <1> HIDE DEF best, n
  <1>5. CASE n = 0
    <2>1. L = {}
      BY <1>1, <1>5
    <2>2. e = << >> /\ Len(e) = 0
      <3>1. best.first = 1 /\ best.last = 0
        BY <1>4, <1>5 DEF Best
      <3>2. s \in Seq(L)
        BY <1>1, SeqDef
      <3>3. Len(SubSeq(s, 1, 0)) = 0 /\ SubSeq(s, 1, 0) = << >>
        BY <3>2, SubSeqProperties, EmptySeq
      <3> QED  BY <3>1, <3>3
    <2>3. DOMAIN e = {} /\ DOMAIN e = 1..Len(e)
      BY <2>2, EmptySeq
    <2> HIDE DEF e
    <2> QED  BY <2>1, <2>2, <2>3 DEF Widest
  <1>6. CASE n > 0
    <2> DEFINE a == best.first
               b == best.last
    <2>1. /\ b \in 1..n /\ Holds(ts, window, b, a) /\ a \in 1..b
          /\ \A u \in 1..n : \A l : Holds(ts, window, u, l) =>
               /\ l \in 1..u
               /\ u - l <= b - a
               /\ u < b => u - l < b - a
      BY <1>4, <1>6 DEF Best, Holds
    <2> HIDE DEF a, b
    <2>2. /\ Len(e) = b - a + 1 /\ DOMAIN e = 1..Len(e)
          /\ \A k \in 1..(b - a + 1) : e[k] = s[a + k - 1]
      <3>1. s \in Seq(L) /\ Len(s) = n
        <4>1. s \in Seq(L)
          BY <1>1, SeqDef
        <4>2. Len(s) \in Nat /\ DOMAIN s = 1..Len(s) /\ DOMAIN s = 1..n
          BY <1>1, <4>1, LenProperties
        <4> QED  BY <1>1, <4>1, <4>2
      <3>2. e = SubSeq(s, a, b)
        BY DEF a, b
      <3> HIDE DEF e
      <3>3. /\ e \in Seq(L) /\ Len(e) = IF a <= b THEN b - a + 1 ELSE 0
            /\ \A k \in 1..(b - a + 1) : e[k] = s[a + k - 1]
        BY <1>1, <2>1, <3>1, <3>2, SubSeqProperties
      <3>4. a <= b
        BY <1>1, <2>1
      <3> QED  BY <3>3, <3>4, LenProperties
    <2> HIDE DEF e
    <2>3. ASSUME NEW m \in 1..n
          PROVE  \E u \in m..n : \E l \in 1..u :
                    /\ Holds(ts, window, u, l) /\ ts[u] = ts[m]
                    /\ until(s[m]) = Between(s, l, u)
                    /\ Cardinality(until(s[m])) = u - l + 1
      <3>1. PICK u \in m..n : \E l \in 1..u :
                    /\ Holds(ts, window, u, l) /\ ts[u] = ts[m]
                    /\ \A k \in 1..n : ts[k] \in (ts[m] - window)..ts[m] <=> k \in l..u
        BY <1>1, WindowIsInterval
      <3>2. PICK l \in 1..u :
                    /\ Holds(ts, window, u, l) /\ ts[u] = ts[m]
                    /\ \A k \in 1..n : ts[k] \in (ts[m] - window)..ts[m] <=> k \in l..u
        BY <3>1
      <3>3. until(s[m]) = Between(s, l, u)
        <4>1. until(s[m]) = {j \in L : rows[j].ts \in (ts[m] - window)..ts[m]}
          BY <1>2 DEF Until
        <4>2. \A k \in 1..n : s[k] \in until(s[m]) <=> k \in l..u
          BY <1>1, <1>2, <3>2, <4>1
        <4>3. \A j \in until(s[m]) : \E k \in 1..n : s[k] = j
          BY <1>1, <4>1
        <4>4. l..u \subseteq 1..n
          BY <1>1, <3>1, <3>2
        <4> QED  BY <1>1, <4>2, <4>3, <4>4 DEF Between
      <3>4. Cardinality(Between(s, l, u)) = u - l + 1
        <4>1. l \in 1..n /\ u \in 0..n /\ l <= u + 1
          BY <1>1, <3>1, <3>2
        <4> QED  BY <1>1, <4>1, BetweenCount
      <3> QED  BY <3>1, <3>2, <3>3, <3>4
    <2>4. PICK u \in b..n : \E l \in 1..u :
                    /\ Holds(ts, window, u, l) /\ ts[u] = ts[b]
                    /\ until(s[b]) = Between(s, l, u)
                    /\ Cardinality(until(s[b])) = u - l + 1
      BY <2>1, <2>3
    <2>5. u = b
      <3>1. Holds(ts, window, u, a)
        BY <2>1, <2>4 DEF Holds, Timed
      <3>2. u \in 1..n /\ u - a <= b - a
        BY <1>1, <2>1, <2>4, <3>1
      <3> QED  BY <1>1, <2>1, <2>4, <3>2
    <2>6. until(s[b]) = Between(s, a, b) /\ Cardinality(until(s[b])) = b - a + 1
      BY <1>1, <2>1, <2>4, <2>5, HoldsOne
    <2>7. {e[k] : k \in DOMAIN e} = Between(s, a, b)
      <3>1. \A k \in 1..(b - a + 1) : a + k - 1 \in a..b /\ e[k] = s[a + k - 1]
        BY <2>1, <2>2
      <3>2. \A k \in a..b : k - a + 1 \in 1..(b - a + 1) /\ a + (k - a + 1) - 1 = k
        BY <2>1
      <3>3. \A k \in a..b : e[k - a + 1] = s[k]
        BY <3>1, <3>2
      <3> QED  BY <2>2, <3>1, <3>2, <3>3 DEF Between
    <2>8. \A k, l \in DOMAIN e : e[k] = e[l] => k = l
      <3> SUFFICES ASSUME NEW k \in 1..(b - a + 1), NEW l \in 1..(b - a + 1), e[k] = e[l] PROVE k = l
        BY <2>2
      <3>1. a + k - 1 \in 1..n /\ a + l - 1 \in 1..n /\ s[a + k - 1] = s[a + l - 1]
        BY <1>1, <2>1, <2>2
      <3>2. a + k - 1 = a + l - 1
        BY <1>1, <3>1
      <3> QED  BY <2>1, <3>2
    <2>9. ASSUME NEW i \in L
          PROVE  /\ Cardinality(until(i)) \in Nat /\ Cardinality(until(i)) <= Len(e)
                 /\ Cardinality(until(i)) = Len(e) => rows[s[b]].ts <= rows[i].ts
      <3>1. PICK m \in 1..n : s[m] = i
        BY <1>1
      <3>2. PICK v \in m..n : \E l \in 1..v :
                    /\ Holds(ts, window, v, l) /\ ts[v] = ts[m]
                    /\ Cardinality(until(s[m])) = v - l + 1
        BY <2>3
      <3>3. PICK l \in 1..v :
                    /\ Holds(ts, window, v, l) /\ ts[v] = ts[m]
                    /\ Cardinality(until(s[m])) = v - l + 1
        BY <3>2
      <3>4. v \in 1..n /\ v - l <= b - a /\ (v < b => v - l < b - a)
        BY <1>1, <2>1, <3>2, <3>3
      <3>5. v >= b => ts[b] <= ts[m]
        BY <1>1, <2>1, <3>3, <3>4 DEF Timed
      <3>6. Cardinality(until(i)) = v - l + 1 /\ Len(e) = b - a + 1
        BY <2>2, <3>1, <3>3
      <3>7. v \in Nat /\ l \in Nat /\ b \in Nat /\ a \in Nat /\ l <= v
        BY <1>1, <2>1, <3>3, <3>4
      <3>8. v - l + 1 = b - a + 1 => v >= b
        BY <3>4, <3>7
      <3> QED  BY <1>2, <2>1, <3>1, <3>4, <3>5, <3>6, <3>7, <3>8
    <2>10. s[b] \in L /\ Len(e) \in Nat /\ L # {}
      BY <1>1, <2>1, <2>2
    <2> QED  BY <2>2, <2>6, <2>7, <2>8, <2>9, <2>10 DEF Widest
  <1> QED  BY <1>1, <1>5, <1>6

Largest(rows, g, window, i) ==
    \A j \in Lines(rows, g) : Cardinality(Until(rows, g, window, j)) <= Cardinality(Until(rows, g, window, i))

FirstLargest(rows, g, window) ==
    CHOOSE i \in Lines(rows, g) : /\ Largest(rows, g, window, i)
                                 /\ \A j \in Lines(rows, g) : Largest(rows, g, window, j) => rows[i].ts <= rows[j].ts

\* A finding of review_bytes and the groups it reports, stated of a report r
Strongest(q, r) ==
      LET rows == q.rows
          groups == {rows[i].service : i \in DOMAIN rows} \X Tcp!ResetStates
          reported == {g \in groups : \E i \in Lines(rows, g) : Cardinality(Until(rows, g, q.window, i)) >= q.min}
      IN  IF r = Refused THEN \/ rows = << >> \/ q.min < 2 \/ q.window < 1
                              \/ \E i, j \in DOMAIN rows : i # j /\ rows[i].uid = rows[j].uid
          ELSE /\ Tcp!VerifyReport(rows, r, q.min, q.window)
               /\ {f.group : f \in r.findings} = reported
               /\ \A f \in r.findings :
                    /\ Tcp!Range(f.evidence) = Until(rows, f.group, q.window, FirstLargest(rows, f.group, q.window))
                    /\ Tcp!IsInjective(f.evidence)

\* Until is the same for two rows of one instant.
LEMMA FirstWidest ==
    ASSUME NEW rows, Rows(rows), NEW g, NEW window \in Nat, NEW e, Widest(rows, g, window, e), Len(e) > 0
    PROVE  {e[k] : k \in DOMAIN e} = Until(rows, g, window, FirstLargest(rows, g, window))
  <1> DEFINE L == Lines(rows, g)
             count(i) == Cardinality(Until(rows, g, window, i))
             largest(i) == \A j \in L : count(j) <= count(i)
             good(i) == i \in L /\ largest(i) /\ \A j \in L : largest(j) => rows[i].ts <= rows[j].ts
             first == CHOOSE i \in L : largest(i) /\ \A j \in L : largest(j) => rows[i].ts <= rows[j].ts
  <1> HIDE DEF count
  <1>1. PICK w \in L : /\ count(w) = Len(e) /\ {e[k] : k \in DOMAIN e} = Until(rows, g, window, w)
                       /\ \A j \in L : count(j) = Len(e) => rows[w].ts <= rows[j].ts
    BY DEF Widest, count
  <1>2. Len(e) \in Nat /\ \A i \in L : count(i) \in Nat /\ count(i) <= Len(e)
    BY DEF Widest, count
  <1>3. \A i \in L : largest(i) <=> count(i) = Len(e)
    BY <1>1, <1>2
  <1>4. good(w)
    BY <1>1, <1>3
  <1> HIDE DEF largest
  <1>5. good(first)
    BY <1>4
  <1>6. rows[first].ts = rows[w].ts
    <2>1. first \in DOMAIN rows /\ w \in DOMAIN rows
      BY <1>5 DEF Lines
    <2>2. rows[first].ts <= rows[w].ts /\ rows[w].ts <= rows[first].ts
      BY <1>1, <1>3, <1>4, <1>5
    <2> QED  BY <2>1, <2>2 DEF Rows
  <1>7. Until(rows, g, window, first) = Until(rows, g, window, w)
    BY <1>6 DEF Until
  <1> QED  BY <1>1, <1>7 DEF FirstLargest, Largest, largest, count

LEMMA ReportIsStrongest ==
    ASSUME NEW q, NEW r, Len(q.rows) \in Nat, DOMAIN q.rows = 1..Len(q.rows),
           q.rows = << >> <=> Len(q.rows) = 0,
           \A i \in DOMAIN q.rows : q.rows[i].ts \in Nat /\ q.rows[i].uid \in Nat,
           q.min \in Nat, q.window \in Nat,
           ~ Tcp!DuplicateUid(q.rows) => Refused # Tcp!Report(q.rows, q.min, q.window),
           r = Tcp!ReviewBytes(q.rows, q.min, q.window)
    PROVE  Strongest(q, r)
  <1> DEFINE rows == q.rows
             reportable(g) == \E i \in Lines(rows, g) : Cardinality(Until(rows, g, q.window, i)) >= q.min
             groups == {rows[i].service : i \in DOMAIN rows} \X Tcp!ResetStates
             evidence(g) == Tcp!Selected(rows, Tcp!Group(rows, g[1], g[2]), q.window)
  <1>1. CASE r = Refused
    <2>1. rows = << >> \/ ~ (q.min >= 2 /\ q.window >= 1) \/ Tcp!DuplicateUid(rows)
      BY <1>1 DEF Tcp!ReviewBytes, Tcp!ParametersAccepted
    <2>2. Tcp!DuplicateUid(rows) => \E i, j \in DOMAIN rows : i # j /\ rows[i].uid = rows[j].uid
      BY DEF Tcp!DuplicateUid
    <2>3. ~ (q.min >= 2 /\ q.window >= 1) => q.min < 2 \/ q.window < 1
      OBVIOUS
    <2> QED  BY <1>1, <2>1, <2>2, <2>3 DEF Strongest
  <1>2. CASE r # Refused
    <2>1. /\ ~ Tcp!DuplicateUid(rows) /\ q.min >= 2 /\ q.window >= 1
          /\ r = Tcp!Report(rows, q.min, q.window)
      BY <1>2 DEF Tcp!ReviewBytes, Tcp!ParametersAccepted
    <2>2. Rows(rows)
      BY <2>1 DEF Rows, Tcp!DuplicateUid
    <2>3. r.findings = {[group |-> g, evidence |-> evidence(g)] :
                          g \in {h \in groups : Len(evidence(h)) >= q.min}}
      BY <2>1 DEF Tcp!Report, Tcp!Findings, Tcp!Services
    <2>4. \A g : Widest(rows, g, q.window, evidence(g))
      BY <2>2, EvidenceIsWidest
    <2> HIDE DEF evidence
    <2>5. \A g : Len(evidence(g)) >= q.min <=> reportable(g)
      <3> SUFFICES ASSUME NEW g PROVE Len(evidence(g)) >= q.min <=> reportable(g)
        OBVIOUS
      <3>1. Widest(rows, g, q.window, evidence(g))
        BY <2>4
      <3> DEFINE n == Len(evidence(g))
                 count(i) == Cardinality(Until(rows, g, q.window, i))
      <3>2. /\ n \in Nat /\ \A i \in Lines(rows, g) : count(i) \in Nat /\ count(i) <= n
            /\ Lines(rows, g) = {} => n = 0
            /\ Lines(rows, g) # {} => \E i \in Lines(rows, g) : count(i) = n
        BY <3>1 DEF Widest
      <3> HIDE DEF n, count
      <3>3. n >= q.min <=> \E i \in Lines(rows, g) : count(i) >= q.min
        BY <2>1, <3>2
      <3> QED  BY <3>3 DEF n, count
    <2> HIDE DEF reportable, groups
    <2>6. {f.group : f \in r.findings} = {g \in groups : reportable(g)}
      <3> DEFINE listed == {h \in groups : Len(evidence(h)) >= q.min}
      <3>1. r.findings = {[group |-> g, evidence |-> evidence(g)] : g \in listed}
        BY <2>3 DEF groups
      <3>2. listed = {g \in groups : reportable(g)}
        BY <2>5
      <3> HIDE DEF listed
      <3>3. {f.group : f \in r.findings} = listed
        <4>1. ASSUME NEW f \in r.findings PROVE f.group \in listed
          BY <3>1
        <4>2. ASSUME NEW g \in listed PROVE \E f \in r.findings : f.group = g
          <5>1. [group |-> g, evidence |-> evidence(g)] \in r.findings
            BY <3>1
          <5> QED  BY <5>1
        <4> QED  BY <4>1, <4>2
      <3> QED  BY <3>2, <3>3
    <2>7. \A f \in r.findings : f.evidence = evidence(f.group) /\ Len(evidence(f.group)) >= q.min
      BY <2>3
    <2>8. ASSUME NEW f \in r.findings
          PROVE  Widest(rows, f.group, q.window, f.evidence) /\ Len(f.evidence) > 0
      <3>1. Widest(rows, f.group, q.window, evidence(f.group))
        BY <2>4
      <3>2. Len(evidence(f.group)) \in Nat
        BY <3>1 DEF Widest
      <3> QED  BY <2>1, <2>7, <3>1, <3>2
    <2>9. \A f \in r.findings : Tcp!IsInjective(f.evidence)
      BY <2>8 DEF Widest, Tcp!IsInjective
    <2>10. Tcp!VerifyReport(rows, r, q.min, q.window)
      BY <1>2 DEF Tcp!VerifyReport
    <2>11. ASSUME NEW f \in r.findings
           PROVE  Tcp!Range(f.evidence) = Until(rows, f.group, q.window, FirstLargest(rows, f.group, q.window))
      <3>1. Tcp!Range(f.evidence) = {f.evidence[k] : k \in DOMAIN f.evidence}
        BY DEF Tcp!Range
      <3>2. Widest(rows, f.group, q.window, f.evidence) /\ Len(f.evidence) > 0
        BY <2>8
      <3> QED  BY <2>2, <3>1, <3>2, FirstWidest
    <2> QED  BY <1>2, <2>6, <2>9, <2>10, <2>11 DEF Strongest, reportable, groups
  <1> QED  BY <1>1, <1>2

------------------------------------------------------------------------------
(* The windows of the event normalizer's correlation (EventCorrelation)     *)
LEMMA CorrelationCardinality == ASSUME NEW S PROVE Correlation!Cardinality(S) = Cardinality(S)
  BY DEF Correlation!Cardinality, Cardinality

LEMMA CorrelationArranged ==
    ASSUME NEW S, NEW before PROVE Correlation!Arranged(S, before) = Arranged(S, before)
  BY DEF Correlation!Arranged, Arranged, Correlation!Cardinality, Cardinality

\* A batch of which every event has been normalized
Batch(events) ==
    /\ Len(events) \in Nat /\ DOMAIN events = 1..Len(events)
    /\ \A i \in DOMAIN events :
         events[i].ts \in Nat /\ (Correlation!IncompleteSyn(events[i]) => events[i].dst \in Nat)

\* s has the attempts of one source in time, those of one instant by target.
InTime(events, src, s) ==
    /\ Len(s) \in Nat /\ s \in Seq(Correlation!Attempts(events, src))
    /\ s \in [1..Len(s) -> Correlation!Attempts(events, src)]
    /\ \A k, l \in 1..Len(s) : s[k] = s[l] => k = l
    /\ \A i \in Correlation!Attempts(events, src) : \E k \in 1..Len(s) : s[k] = i
    /\ \A k \in 1..Len(s) : events[s[k]].ts \in Nat /\ events[s[k]].dst \in Nat
    /\ \A k, l \in 1..Len(s) : k <= l =>
         \/ events[s[k]].ts < events[s[l]].ts
         \/ events[s[k]].ts = events[s[l]].ts /\ events[s[k]].dst <= events[s[l]].dst

LEMMA OrderedInTime ==
    ASSUME NEW events, Batch(events), NEW src
    PROVE  /\ InTime(events, src, Correlation!Ordered(events, src))
           /\ IsFiniteSet(Correlation!Attempts(events, src))
           /\ Len(Correlation!Ordered(events, src)) = Cardinality(Correlation!Attempts(events, src))
  <1> DEFINE L == Correlation!Attempts(events, src)
             before == {p \in L \X L : Correlation!Before(events, p[1], p[2])}
             s == Correlation!Ordered(events, src)
             n == Cardinality(L)
  <1>1. s = Arranged(L, before)
    BY CorrelationArranged DEF Correlation!Ordered
  <1>2. IsFiniteSet(L)
    <2>1. L \in SUBSET (1..Len(events)) /\ IsFiniteSet(1..Len(events))
      BY FS_Interval DEF Batch, Correlation!Attempts
    <2> QED  BY <2>1, FS_Subset
  <1>3. \A i \in L : i \in Nat /\ events[i].ts \in Nat /\ events[i].dst \in Nat
    BY DEF Batch, Correlation!Attempts
  <1> HIDE DEF L
  <1>4. \A i, j \in L : <<i, j>> \in before <=>
           \/ events[i].ts < events[j].ts
           \/ events[i].ts = events[j].ts /\ events[i].dst < events[j].dst
           \/ events[i].ts = events[j].ts /\ events[i].dst = events[j].dst /\ i < j
    BY DEF Correlation!Before
  <1> HIDE DEF before
  <1>5. TotalOrder(L, before)
    BY <1>3, <1>4 DEF TotalOrder
  <1>6. /\ n \in Nat /\ s \in [1..n -> L]
        /\ \A k, l \in 1..n : <<s[k], s[l]>> \in before <=> k < l
        /\ \A k, l \in 1..n : s[k] = s[l] => k = l
        /\ \A i \in L : \E k \in 1..n : s[k] = i
    BY <1>1, <1>2, <1>5, ArrangedInOrder
  <1> HIDE DEF s, n
  <1>7. s \in Seq(L) /\ Len(s) = n
    <2>1. s \in Seq(L)
      BY <1>6, SeqDef
    <2>2. Len(s) \in Nat /\ DOMAIN s = 1..Len(s) /\ DOMAIN s = 1..n
      BY <1>6, <2>1, LenProperties
    <2> QED  BY <1>6, <2>1, <2>2
  <1>8. ASSUME NEW k \in 1..n, NEW l \in 1..n, k <= l
        PROVE  \/ events[s[k]].ts < events[s[l]].ts
               \/ events[s[k]].ts = events[s[l]].ts /\ events[s[k]].dst <= events[s[l]].dst
    <2>1. CASE k = l
      BY <1>3, <1>6, <2>1
    <2>2. CASE k < l
      <3>1. <<s[k], s[l]>> \in before /\ s[k] \in L /\ s[l] \in L
        BY <1>6, <2>2
      <3> QED  BY <1>3, <1>4, <3>1
    <2> QED  BY <1>6, <1>8, <2>1, <2>2
  <1>9. \A k \in 1..n : events[s[k]].ts \in Nat /\ events[s[k]].dst \in Nat
    BY <1>3, <1>6
  <1>10. InTime(events, src, s)
    BY <1>6, <1>7, <1>8, <1>9 DEF InTime, L
  <1> QED  BY <1>2, <1>7, <1>10 DEF L, s, n

\* The inner loop ends at the first attempt that is not within the window.
LEMMA EndOfWindow ==
    ASSUME NEW events, NEW src, NEW s, InTime(events, src, s), NEW c, c.window \in Nat,
           NEW a \in 1..Len(s)
    PROVE  LET e == Correlation!End(events, s, a, c)
           IN  /\ e \in (a + 1)..(Len(s) + 1)
               /\ \A k \in a..Len(s) : events[s[k]].ts - events[s[a]].ts <= c.window <=> k < e
  <1> DEFINE n == Len(s)
             late(k) == k > n \/ events[s[k]].ts - events[s[a]].ts > c.window
             T == {k \in a..(n + 1) : late(k)}
             good(e) == /\ e \in a..(n + 1) /\ late(e)
                        /\ \A k \in a..(e - 1) : events[s[k]].ts - events[s[a]].ts <= c.window
             e == Correlation!End(events, s, a, c)
  <1>1. n \in Nat /\ \A k \in 1..n : events[s[k]].ts \in Nat
    BY DEF InTime
  <1>2. T \subseteq Nat /\ n + 1 \in T
    BY <1>1
  <1>3. PICK l \in T : \A k \in T : l <= k
    BY <1>2, LeastNat
  <1>4. good(l)
    <2>1. l \in a..(n + 1) /\ late(l)
      BY <1>3
    <2>2. ASSUME NEW k \in a..(l - 1) PROVE events[s[k]].ts - events[s[a]].ts <= c.window
      <3>1. k \in a..(n + 1) /\ k \notin T /\ k \in 1..n
        BY <1>1, <1>3, <2>1
      <3> QED  BY <1>1, <3>1
    <2> QED  BY <2>1, <2>2
  <1>5. good(e)
    BY <1>4 DEF Correlation!End
  <1> HIDE DEF e
  <1>6. e > a
    <2>1. ~ late(a)
      BY <1>1
    <2> QED  BY <1>1, <1>5, <2>1
  <1>7. ASSUME NEW k \in a..n, k >= e PROVE events[s[k]].ts - events[s[a]].ts > c.window
    <2>1. e \in 1..n /\ k \in 1..n /\ events[s[e]].ts <= events[s[k]].ts
      BY <1>1, <1>5, <1>7 DEF InTime
    <2>2. events[s[e]].ts - events[s[a]].ts > c.window
      BY <1>5, <2>1
    <2> QED  BY <1>1, <2>1, <2>2
  <1> QED  BY SMTT(40), <1>1, <1>5, <1>6, <1>7 DEF e

\* What the walk finds from the a-th attempt on, and its elements
Span(events, s, c, a) == SubSeq(s, a, Correlation!End(events, s, a, c) - 1)
Elements(x) == {x[k] : k \in DOMAIN x}

LEMMA SpanElements ==
    ASSUME NEW events, NEW src, NEW s, InTime(events, src, s), NEW c, c.window \in Nat,
           NEW a \in 1..Len(s)
    PROVE  LET e == Correlation!End(events, s, a, c)
               x == Span(events, s, c, a)
           IN  /\ Len(x) = e - a /\ DOMAIN x = 1..(e - a)
               /\ \A k \in 1..(e - a) : x[k] = s[a + k - 1]
               /\ Elements(x) = Between(s, a, e - 1)
               /\ IsFiniteSet(Elements(x)) /\ Cardinality(Elements(x)) = Len(x)
  <1> DEFINE n == Len(s)
             e == Correlation!End(events, s, a, c)
             x == Span(events, s, c, a)
             L == Correlation!Attempts(events, src)
  <1>1. n \in Nat /\ s \in Seq(L) /\ \A k, l \in 1..n : s[k] = s[l] => k = l
    BY DEF InTime
  <1>2. e \in (a + 1)..(n + 1)
    BY EndOfWindow
  <1>3. x = SubSeq(s, a, e - 1)
    BY DEF Span
  <1> HIDE DEF x, e, L
  <1>4. /\ x \in Seq(L) /\ Len(x) = e - a /\ \A k \in 1..(e - a) : x[k] = s[a + k - 1]
    <2>1. a \in 1..(n + 1) /\ e - 1 \in 0..n /\ a <= e - 1 /\ (e - 1) - a + 1 = e - a
      BY <1>1, <1>2
    <2> QED  BY <1>1, <1>3, <2>1, SubSeqProperties
  <1>5. DOMAIN x = 1..(e - a)
    BY <1>4, LenProperties
  <1>6. Elements(x) = Between(s, a, e - 1)
    <2>1. \A k \in 1..(e - a) : a + k - 1 \in a..(e - 1)
      BY <1>1, <1>2
    <2>2. \A k \in a..(e - 1) : k - a + 1 \in 1..(e - a) /\ a + (k - a + 1) - 1 = k
      BY <1>1, <1>2
    <2>3. \A k \in a..(e - 1) : x[k - a + 1] = s[k]
      BY <1>4, <2>2
    <2>4. ASSUME NEW y \in Elements(x) PROVE y \in Between(s, a, e - 1)
      <3>1. PICK k \in 1..(e - a) : y = x[k]
        BY <1>5 DEF Elements
      <3>2. y = s[a + k - 1]
        BY <1>4, <3>1
      <3> QED  BY <2>1, <3>2 DEF Between
    <2>5. ASSUME NEW y \in Between(s, a, e - 1) PROVE y \in Elements(x)
      <3>1. PICK k \in a..(e - 1) : y = s[k]
        BY DEF Between
      <3>2. k - a + 1 \in DOMAIN x /\ y = x[k - a + 1]
        BY <1>5, <2>2, <2>3, <3>1
      <3> QED  BY <3>2 DEF Elements
    <2> QED  BY <2>4, <2>5
  <1>7. /\ IsFiniteSet(Between(s, a, e - 1)) /\ Cardinality(Between(s, a, e - 1)) = (e - 1) - a + 1
    <2>1. a \in 1..n /\ e - 1 \in 0..n /\ a <= (e - 1) + 1
      BY <1>1, <1>2
    <2> QED  BY <1>1, <2>1, BetweenCount
  <1>8. (e - 1) - a + 1 = e - a
    BY <1>1, <1>2
  <1> QED  BY <1>4, <1>5, <1>6, <1>7, <1>8 DEF x, e

LEMMA WalkRuns ==
    ASSUME NEW events, NEW src, NEW c, Len(Correlation!Ordered(events, src)) \in Nat
    PROVE  LET s == Correlation!Ordered(events, src)
           IN  \E walk : /\ Correlation!Windows(events, src, c) = walk[Len(s)].found
                         /\ walk[0] = [start |-> 1, found |-> {}]
                         /\ \A n \in 1..Len(s) : walk[n] = Correlation!Pass(events, s, walk[n - 1], c)
  <1> DEFINE s == Correlation!Ordered(events, src)
             N == Len(s)
             first == [start |-> 1, found |-> {}]
             step(x) == Correlation!Pass(events, s, x, c)
             upTo(m, f) == f = [n \in 0..m |-> IF n = 0 THEN first ELSE step(f[n - 1])]
             S == {m \in Nat : m <= N => \E f : upTo(m, f)}
  <1> HIDE DEF step, first
  <1>1. 0 \in S
    <2>1. upTo(0, [n \in 0..0 |-> first])
      OBVIOUS
    <2> QED  BY <2>1
  <1>2. ASSUME NEW m \in Nat, m \in S PROVE m + 1 \in S
    <2> SUFFICES ASSUME m + 1 <= N PROVE \E f : upTo(m + 1, f)
      OBVIOUS
    <2>1. PICK f : upTo(m, f)
      BY <1>2
    <2> DEFINE g == [n \in 0..(m + 1) |-> IF n = m + 1 THEN step(f[m]) ELSE f[n]]
    <2>2. ASSUME NEW n \in 0..(m + 1) PROVE g[n] = IF n = 0 THEN first ELSE step(g[n - 1])
      <3>1. CASE n = m + 1
        BY <3>1
      <3>2. CASE n \in 0..m
        <4>1. f[n] = IF n = 0 THEN first ELSE step(f[n - 1])
          BY <2>1, <3>2
        <4>2. g[n] = f[n] /\ (n # 0 => g[n - 1] = f[n - 1])
          BY <3>2
        <4> QED  BY <4>1, <4>2
      <3> QED  BY <3>1, <3>2
    <2>3. upTo(m + 1, g)
      BY <2>2
    <2> QED  BY <2>3
  <1> HIDE DEF S
  <1>3. N \in S
    BY <1>1, <1>2, InductiveSet
  <1> DEFINE walk == CHOOSE f : upTo(N, f)
  <1>4. upTo(N, walk)
    BY <1>3 DEF S
  <1>5. Correlation!Windows(events, src, c) = walk[N].found
    BY DEF Correlation!Windows, first, step
  <1> HIDE DEF walk
  <1>6. walk[0] = first /\ \A n \in 1..N : walk[n] = step(walk[n - 1])
    BY <1>4
  <1> QED  BY <1>5, <1>6 DEF first, step

\* After m turns: what was found satisfies the configuration and shares no attempt, and
\* no attempt left behind starts a window that does unless it was found, too.
Fits(events, s, c, x, start) ==
    \E a \in 1..Len(s) : /\ x = Span(events, s, c, a) /\ Correlation!Qualifies(events, x, c)
                         /\ Correlation!End(events, s, a, c) <= start

Apart(found) == \A x, y \in found : x # y => Elements(x) \cap Elements(y) = {}

Settled(events, s, c, found, k) ==
    \/ \E x \in found : s[k] \in Elements(x)
    \/ ~ Correlation!Qualifies(events, Span(events, s, c, k), c)

Walked(events, s, c, m, w) ==
    /\ w = [start |-> w.start, found |-> w.found]
    /\ w.start \in 1..(Len(s) + 1) /\ (w.start > m \/ w.start = Len(s) + 1)
    /\ \A x \in w.found : Fits(events, s, c, x, w.start)
    /\ Apart(w.found)
    /\ \A k \in 1..(w.start - 1) : Settled(events, s, c, w.found, k)

LEMMA PassWalks ==
    ASSUME NEW events, NEW src, NEW s, InTime(events, src, s), NEW c, c.window \in Nat,
           NEW m \in 1..Len(s), NEW w, Walked(events, s, c, m - 1, w)
    PROVE  Walked(events, s, c, m, Correlation!Pass(events, s, w, c))
  <1> DEFINE n == Len(s)
             a == w.start
             e == Correlation!End(events, s, a, c)
             x == Span(events, s, c, a)
             qualifies(y) == Correlation!Qualifies(events, y, c)
             new == Correlation!Pass(events, s, w, c)
  <1>1. n \in Nat /\ a \in 1..(n + 1) /\ \A k, l \in 1..n : s[k] = s[l] => k = l
    BY DEF InTime, Walked
  <1>2. CASE a > n
    <2>1. new = w
      BY <1>2 DEF Correlation!Pass
    <2> QED  BY <1>1, <1>2, <2>1 DEF Walked
  <1>3. CASE a <= n
    <2>1. a \in 1..n /\ e \in (a + 1)..(n + 1)
      BY <1>1, <1>3, EndOfWindow
    <2>2. Elements(x) = Between(s, a, e - 1)
      BY <2>1, SpanElements
    <2>3. new = IF qualifies(x) THEN [start |-> e, found |-> w.found \cup {x}]
                ELSE [start |-> a + 1, found |-> w.found]
      <3>1. [w EXCEPT !.start = @ + 1] = [start |-> a + 1, found |-> w.found]
        BY DEF Walked
      <3> QED  BY <1>1, <1>3, <3>1 DEF Correlation!Pass, Span
    <2>4. a > m - 1
      BY <1>1, <1>3 DEF Walked
    <2>5. \A b \in 1..n : Correlation!End(events, s, b, c) \in (b + 1)..(n + 1)
      BY EndOfWindow
    <2> HIDE DEF a, e, x, qualifies, new
    <2>6. CASE ~ qualifies(x)
      <3>1. new.start = a + 1 /\ new.found = w.found /\ new = [start |-> new.start, found |-> new.found]
        BY <2>3, <2>6
      <3>2. new.start \in 1..(n + 1) /\ new.start > m
        BY <1>1, <2>1, <2>4, <3>1
      <3>3. ASSUME NEW y \in w.found PROVE Fits(events, s, c, y, a + 1)
        <4>1. PICK b \in 1..n : /\ y = Span(events, s, c, b) /\ Correlation!Qualifies(events, y, c)
                                /\ Correlation!End(events, s, b, c) <= a
          BY DEF Walked, Fits, a
        <4>2. Correlation!End(events, s, b, c) \in Int /\ a \in Int
          BY <1>1, <2>5
        <4> QED  BY <4>1, <4>2 DEF Fits
      <3>4. \A k \in 1..(new.start - 1) : Settled(events, s, c, w.found, k)
        <4>1. new.start - 1 = a /\ a \in Nat
          BY SMTT(40), <1>1, <3>1
        <4>2. \A k \in 1..(a - 1) : Settled(events, s, c, w.found, k)
          BY DEF Walked, a
        <4>3. Settled(events, s, c, w.found, a)
          BY <2>6 DEF Settled, qualifies, x
        <4> QED  BY <4>1, <4>2, <4>3
      <3>5. Apart(w.found)
        BY DEF Walked
      <3>6. \A y \in new.found : Fits(events, s, c, y, new.start)
        BY <3>1, <3>3
      <3>8. Walked(events, s, c, m, new)
        BY <3>1, <3>2, <3>4, <3>5, <3>6 DEF Walked
      <3> QED  BY <3>8 DEF new
    <2>7. CASE qualifies(x)
      <3>1. /\ new.start = e /\ new.found = w.found \cup {x}
            /\ new = [start |-> new.start, found |-> new.found]
        BY <2>3, <2>7
      <3>2. new.start \in 1..(n + 1) /\ new.start > m
        BY <1>1, <2>1, <2>4, <3>1
      <3>3. ASSUME NEW y \in w.found \cup {x} PROVE Fits(events, s, c, y, e)
        <4>1. CASE y = x
          BY <2>1, <2>7, <4>1 DEF e, x, qualifies, Fits
        <4>2. CASE y \in w.found
          <5>1. PICK b \in 1..n : /\ y = Span(events, s, c, b) /\ Correlation!Qualifies(events, y, c)
                                  /\ Correlation!End(events, s, b, c) <= a
            BY <4>2 DEF Walked, Fits, a
          <5>2. Correlation!End(events, s, b, c) \in Int
            BY <2>5
          <5>3. Correlation!End(events, s, b, c) <= e
            BY <1>1, <2>1, <5>1, <5>2
          <5> QED  BY <5>1, <5>3 DEF Fits
        <4> QED  BY <4>1, <4>2
      <3>4. ASSUME NEW y \in w.found PROVE Elements(y) \cap Elements(x) = {}
        <4>1. PICK b \in 1..n : y = Span(events, s, c, b) /\ Correlation!End(events, s, b, c) <= a
          BY DEF Walked, Fits, a
        <4> DEFINE f == Correlation!End(events, s, b, c)
        <4>2. Elements(y) = Between(s, b, f - 1) /\ f \in (b + 1)..(n + 1)
          BY <2>5, <4>1, SpanElements
        <4>3. f <= a
          BY <4>1
        <4> HIDE DEF f
        <4>4. \A k \in b..(f - 1), l \in a..(e - 1) : k \in 1..n /\ l \in 1..n /\ k # l
          BY <1>1, <2>1, <4>2, <4>3
        <4>5. \A k \in b..(f - 1), l \in a..(e - 1) : s[k] # s[l]
          BY <1>1, <4>4
        <4> QED  BY <2>2, <4>2, <4>5 DEF Between
      <3>5. Apart(w.found \cup {x})
        <4>1. Apart(w.found)
          BY DEF Walked
        <4> QED  BY <3>4, <4>1 DEF Apart
      <3>6. ASSUME NEW k \in 1..(e - 1) PROVE Settled(events, s, c, w.found \cup {x}, k)
        <4>1. CASE k \in 1..(a - 1)
          <5>1. Settled(events, s, c, w.found, k)
            BY <4>1 DEF Walked, a
          <5> QED  BY <5>1 DEF Settled
        <4>2. CASE k \in a..(e - 1)
          BY <2>2, <4>2 DEF Between, Settled
        <4> QED  BY <1>1, <2>1, <4>1, <4>2
      <3>7. /\ \A y \in new.found : Fits(events, s, c, y, new.start)
            /\ \A k \in 1..(new.start - 1) : Settled(events, s, c, new.found, k)
            /\ Apart(new.found)
        BY <3>1, <3>3, <3>5, <3>6
      <3>8. Walked(events, s, c, m, new)
        BY <3>1, <3>2, <3>7 DEF Walked
      <3> QED  BY <3>8 DEF new
    <2> QED  BY <2>6, <2>7
  <1> QED  BY <1>1, <1>2, <1>3

LEMMA WindowsWalked ==
    ASSUME NEW events, Batch(events), NEW src, NEW c, c.window \in Nat
    PROVE  LET s == Correlation!Ordered(events, src)
           IN  Walked(events, s, c, Len(s), [start |-> Len(s) + 1, found |-> Correlation!Windows(events, src, c)])
  <1> DEFINE s == Correlation!Ordered(events, src)
             N == Len(s)
  <1>1. InTime(events, src, s)
    BY OrderedInTime
  <1> HIDE DEF s
  <1>2. N \in Nat
    BY <1>1 DEF InTime
  <1>3. PICK walk : /\ Correlation!Windows(events, src, c) = walk[N].found
                    /\ walk[0] = [start |-> 1, found |-> {}]
                    /\ \A n \in 1..N : walk[n] = Correlation!Pass(events, s, walk[n - 1], c)
    <2>1. Len(Correlation!Ordered(events, src)) \in Nat
      BY <1>2 DEF s
    <2>2. \E walk : /\ Correlation!Windows(events, src, c) = walk[N].found
                    /\ walk[0] = [start |-> 1, found |-> {}]
                    /\ \A n \in 1..N : walk[n] = Correlation!Pass(events, s, walk[n - 1], c)
      BY ONLY <2>1, WalkRuns DEF s
    <2> QED  BY <2>2
  <1> DEFINE S == {n \in Nat : n <= N => Walked(events, s, c, n, walk[n])}
  <1>4. 0 \in S
    <2>1. Walked(events, s, c, 0, [start |-> 1, found |-> {}])
      BY <1>2 DEF Walked, Apart
    <2> QED  BY <1>3, <2>1
  <1>5. ASSUME NEW n \in Nat, n \in S PROVE n + 1 \in S
    <2> SUFFICES ASSUME n + 1 <= N PROVE Walked(events, s, c, n + 1, walk[n + 1])
      OBVIOUS
    <2>1. n + 1 \in 1..N /\ (n + 1) - 1 = n /\ Walked(events, s, c, n, walk[n])
      BY <1>2, <1>5
    <2>2. Walked(events, s, c, n + 1, Correlation!Pass(events, s, walk[n], c))
      BY <1>1, <2>1, PassWalks
    <2> QED  BY <1>3, <2>1, <2>2
  <1> HIDE DEF S
  <1>6. Walked(events, s, c, N, walk[N])
    <2>1. N \in S
      BY <1>2, <1>4, <1>5, InductiveSet
    <2> QED  BY <1>2, <2>1 DEF S
  <1>7. walk[N].start = N + 1
    BY <1>2, <1>6 DEF Walked
  <1>8. walk[N] = [start |-> N + 1, found |-> Correlation!Windows(events, src, c)]
    BY <1>3, <1>6, <1>7 DEF Walked
  <1> QED  BY <1>6, <1>8 DEF s

\* What is found for a source
LEMMA WindowsFit ==
    ASSUME NEW events, Batch(events), NEW src, NEW c, c.window \in Nat
    PROVE  LET s == Correlation!Ordered(events, src)
               found == Correlation!Windows(events, src, c)
           IN  /\ \A x \in found : \E a \in 1..Len(s) :
                    x = Span(events, s, c, a) /\ Correlation!Qualifies(events, x, c)
               /\ Apart(found)
               /\ \A k \in 1..Len(s) : Settled(events, s, c, found, k)
  <1> DEFINE s == Correlation!Ordered(events, src)
             found == Correlation!Windows(events, src, c)
             w == [start |-> Len(s) + 1, found |-> found]
  <1>1. Walked(events, s, c, Len(s), w)
    BY WindowsWalked
  <1>2. Len(s) \in Nat
    BY OrderedInTime DEF InTime
  <1>3. w.found = found /\ w.start - 1 = Len(s)
    BY <1>2
  <1> HIDE DEF s, found, w
  <1> QED  BY <1>1, <1>3 DEF Walked, Fits, s, found

LEMMA TargetsOf ==
    ASSUME NEW events, NEW x
    PROVE  Correlation!Targets(events, x) = {events[i].dst : i \in Elements(x)}
  BY DEF Correlation!Targets, Elements

LEMMA FoundFits ==
    ASSUME NEW events, Batch(events), NEW src, NEW c, c.window \in Nat,
           NEW x \in Correlation!Windows(events, src, c)
    PROVE  /\ Elements(x) \subseteq Correlation!Attempts(events, src)
           /\ Cardinality(Elements(x)) = Len(x) /\ Len(x) >= c.attempts
           /\ Cardinality({events[i].dst : i \in Elements(x)}) >= c.targets
           /\ \A i, j \in Elements(x) : events[i].ts - events[j].ts <= c.window
  <1> DEFINE s == Correlation!Ordered(events, src)
             n == Len(s)
  <1>1. PICK a \in 1..n : x = Span(events, s, c, a) /\ Correlation!Qualifies(events, x, c)
    BY WindowsFit
  <1>2. InTime(events, src, s)
    BY OrderedInTime
  <1> DEFINE e == Correlation!End(events, s, a, c)
  <1> HIDE DEF s
  <1>3. /\ e \in (a + 1)..(n + 1)
        /\ \A k \in a..n : events[s[k]].ts - events[s[a]].ts <= c.window <=> k < e
    BY <1>2, EndOfWindow
  <1>4. Elements(x) = Between(s, a, e - 1) /\ Cardinality(Elements(x)) = Len(x)
    BY <1>1, <1>2, SpanElements
  <1> HIDE DEF e
  <1>5. /\ n \in Nat /\ s \in [1..n -> Correlation!Attempts(events, src)]
        /\ \A k \in 1..n : events[s[k]].ts \in Nat
        /\ \A k, l \in 1..n : k <= l => events[s[k]].ts <= events[s[l]].ts
    <2>1. /\ n \in Nat /\ s \in [1..n -> Correlation!Attempts(events, src)]
          /\ \A k \in 1..n : events[s[k]].ts \in Nat
          /\ \A k, l \in 1..n : k <= l => \/ events[s[k]].ts < events[s[l]].ts
                                         \/ events[s[k]].ts = events[s[l]].ts
      BY <1>2 DEF InTime
    <2> QED  BY <2>1
  <1>6. \A k \in a..(e - 1) : k \in 1..n /\ k < e
    BY <1>3, <1>5
  <1>7. Elements(x) \subseteq Correlation!Attempts(events, src)
    BY <1>4, <1>5, <1>6 DEF Between
  <1>8. ASSUME NEW i \in Elements(x), NEW j \in Elements(x) PROVE events[i].ts - events[j].ts <= c.window
    <2>1. PICK k \in a..(e - 1), l \in a..(e - 1) : i = s[k] /\ j = s[l]
      BY <1>4 DEF Between
    <2>2. k \in 1..n /\ l \in 1..n /\ a \in 1..n /\ a <= l
      BY <1>6
    <2>3. events[s[k]].ts - events[s[a]].ts <= c.window
      BY <1>3, <1>6, <2>2
    <2>4. events[s[a]].ts <= events[s[l]].ts
      BY <1>5, <2>2
    <2> QED  BY <1>5, <2>1, <2>2, <2>3, <2>4
  <1>9. Len(x) >= c.attempts /\ Cardinality({events[i].dst : i \in Elements(x)}) >= c.targets
    <2>1. Correlation!Cardinality(Correlation!Targets(events, x)) = Cardinality({events[i].dst : i \in Elements(x)})
      BY TargetsOf, CorrelationCardinality
    <2> QED  BY <1>1, <2>1 DEF Correlation!Qualifies
  <1> QED  BY <1>4, <1>7, <1>8, <1>9

\* The attempts of one source from the i-th on within the window
From(events, src, c, i) ==
    {j \in Correlation!Attempts(events, src) : events[j].ts \in events[i].ts..(events[i].ts + c.window)}

LEMMA LeftOut ==
    ASSUME NEW events, Batch(events), NEW src, NEW c, c.window \in Nat,
           NEW i \in Correlation!Attempts(events, src),
           Cardinality(From(events, src, c, i)) >= c.attempts,
           Cardinality({events[j].dst : j \in From(events, src, c, i)}) >= c.targets
    PROVE  \E x \in Correlation!Windows(events, src, c) : From(events, src, c, i) \cap Elements(x) # {}
  <1> DEFINE s == Correlation!Ordered(events, src)
             n == Len(s)
             found == Correlation!Windows(events, src, c)
             L == Correlation!Attempts(events, src)
             T == {k \in 1..n : events[s[k]].ts = events[i].ts}
  <1>1. InTime(events, src, s)
    BY OrderedInTime
  <1>2. \A k \in 1..n : Settled(events, s, c, found, k)
    BY WindowsFit
  <1> HIDE DEF s, found
  <1>3. /\ n \in Nat /\ s \in [1..n -> L] /\ (\A j \in L : \E k \in 1..n : s[k] = j)
        /\ \A k \in 1..n : events[s[k]].ts \in Nat
        /\ \A k, l \in 1..n : k <= l => events[s[k]].ts <= events[s[l]].ts
    BY <1>1 DEF InTime
  <1>4. T \subseteq Nat /\ T # {}
    BY <1>3
  <1>5. PICK a \in T : \A k \in T : a <= k
    BY <1>4, LeastNat
  <1> DEFINE e == Correlation!End(events, s, a, c)
             x == Span(events, s, c, a)
  <1>6. a \in 1..n /\ events[s[a]].ts = events[i].ts
    BY <1>5
  <1>7. /\ e \in (a + 1)..(n + 1)
        /\ \A k \in a..n : events[s[k]].ts - events[s[a]].ts <= c.window <=> k < e
    BY <1>1, <1>6, EndOfWindow
  <1>8. Elements(x) = Between(s, a, e - 1) /\ Cardinality(Elements(x)) = Len(x)
    BY <1>1, <1>6, SpanElements
  <1> HIDE DEF e, x
  <1>9. ASSUME NEW k \in 1..n PROVE s[k] \in From(events, src, c, i) <=> k \in a..(e - 1)
    <2>1. s[k] \in From(events, src, c, i) <=>
            events[s[a]].ts <= events[s[k]].ts /\ events[s[k]].ts - events[s[a]].ts <= c.window
      BY <1>3, <1>6 DEF From
    <2>2. ASSUME events[s[a]].ts <= events[s[k]].ts PROVE a <= k
      <3>1. ASSUME k < a PROVE FALSE
        <4>1. events[s[k]].ts <= events[s[a]].ts
          BY <1>3, <1>6, <3>1
        <4>2. k \in T
          BY <1>3, <1>6, <2>2, <4>1
        <4> QED  BY <1>5, <3>1, <4>2
      <3> QED  BY <1>6, <3>1
    <2>3. k \in a..(e - 1) <=> a <= k /\ k < e
      BY <1>3, <1>6, <1>7
    <2>4. a <= k => events[s[a]].ts <= events[s[k]].ts
      BY <1>3, <1>6
    <2> QED  BY <1>6, <1>7, <2>1, <2>2, <2>3, <2>4
  <1>10. From(events, src, c, i) = Elements(x)
    <2>1. \A j \in From(events, src, c, i) : \E k \in 1..n : s[k] = j
      BY <1>3 DEF From
    <2>2. a..(e - 1) \subseteq 1..n
      BY <1>3, <1>6, <1>7
    <2>3. From(events, src, c, i) \subseteq Between(s, a, e - 1)
      BY <1>9, <2>1 DEF Between
    <2>4. Between(s, a, e - 1) \subseteq From(events, src, c, i)
      BY <1>9, <2>2 DEF Between
    <2> QED  BY <1>8, <2>3, <2>4
  <1>11. Correlation!Qualifies(events, x, c)
    <2>1. Correlation!Cardinality(Correlation!Targets(events, x)) = Cardinality({events[j].dst : j \in From(events, src, c, i)})
      BY <1>10, TargetsOf, CorrelationCardinality
    <2> QED  BY <1>8, <1>10, <2>1 DEF Correlation!Qualifies
  <1>12. PICK y \in found : s[a] \in Elements(y)
    BY <1>2, <1>6, <1>11 DEF Settled, x
  <1>13. s[a] \in From(events, src, c, i)
    <2>1. a \in a..(e - 1)
      BY <1>3, <1>6, <1>7
    <2> QED  BY <1>6, <1>9, <2>1
  <1> QED  BY <1>12, <1>13 DEF found

\* Two lists of attempts with the same instants and targets at the same places
Alike(events, s, other, t) ==
    /\ Len(s) = Len(t)
    /\ \A k \in 1..Len(s) : events[s[k]].ts = other[t[k]].ts /\ events[s[k]].dst = other[t[k]].dst

\* f carries the attempts of one list to attempts of the other of the same instant and target.
Carries(f, events, other, src) ==
    /\ f \in Injection(Correlation!Attempts(events, src), Correlation!Attempts(other, src))
    /\ \A i \in Correlation!Attempts(events, src) :
         events[i].ts = other[f[i]].ts /\ events[i].dst = other[f[i]].dst

LEMMA FirstPlaces == ASSUME NEW n \in Nat PROVE IsFiniteSet(1..n) /\ Cardinality(1..n) = n
  BY FS_Interval

LEMMA TooFewPlaces ==
    ASSUME NEW k \in Nat \ {0}, NEW g \in [1..k -> 1..(k - 1)]
    PROVE  \E x, y \in 1..k : x # y /\ g[x] = g[y]
  <1> DEFINE S == 1..k
             T == 1..(k - 1)
  <1>1. IsFiniteSet(S) /\ IsFiniteSet(T) /\ Cardinality(T) < Cardinality(S)
    <2>1. k \in Nat /\ k - 1 \in Nat
      OBVIOUS
    <2>2. Cardinality(S) = k /\ Cardinality(T) = k - 1 /\ IsFiniteSet(S) /\ IsFiniteSet(T)
      BY <2>1, FirstPlaces
    <2> QED  BY <2>1, <2>2
  <1>2. g \in [S -> T]
    OBVIOUS
  <1> HIDE DEF S, T
  <1>3. \E x, y \in S : x # y /\ g[x] = g[y]
    <2> SUFFICES ASSUME \A x, y \in S : g[x] = g[y] => x = y PROVE FALSE
      OBVIOUS
    <2>1. g \in Injection(S, T)
      BY <1>2 DEF Injection, IsInjective
    <2>2. Cardinality(S) <= Cardinality(T)
      BY <1>1, <2>1, FS_Injection
    <2>3. Cardinality(S) \in Nat /\ Cardinality(T) \in Nat
      BY <1>1, FS_CardinalityType
    <2> QED  BY <1>1, <2>2, <2>3
  <1> QED  BY <1>3 DEF S

\* If one attempt of the one list came before the attempt at its place in the other list,
\* there would be too few places for those up to it.
LEMMA NoneEarlier ==
    ASSUME NEW events, NEW other, NEW src, NEW s, NEW t, InTime(events, src, s), InTime(other, src, t),
           NEW f, Carries(f, events, other, src), NEW k \in 1..Len(s), k \in 1..Len(t)
    PROVE  ~ \/ events[s[k]].ts < other[t[k]].ts
             \/ events[s[k]].ts = other[t[k]].ts /\ events[s[k]].dst < other[t[k]].dst
  <1> SUFFICES ASSUME \/ events[s[k]].ts < other[t[k]].ts
                      \/ events[s[k]].ts = other[t[k]].ts /\ events[s[k]].dst < other[t[k]].dst
               PROVE  FALSE
    OBVIOUS
  <1> DEFINE A == Correlation!Attempts(events, src)
             B == Correlation!Attempts(other, src)
             g == [l \in 1..k |-> CHOOSE p \in 1..(k - 1) : t[p] = f[s[l]]]
  <1>1. /\ Len(s) \in Nat /\ s \in [1..Len(s) -> A]
        /\ \A l, p \in 1..Len(s) : s[l] = s[p] => l = p
        /\ \A l \in 1..Len(s) : events[s[l]].ts \in Nat /\ events[s[l]].dst \in Nat
        /\ \A l, p \in 1..Len(s) : l <= p =>
             \/ events[s[l]].ts < events[s[p]].ts
             \/ events[s[l]].ts = events[s[p]].ts /\ events[s[l]].dst <= events[s[p]].dst
    BY DEF InTime
  <1>2. /\ Len(t) \in Nat /\ \A j \in B : \E l \in 1..Len(t) : t[l] = j
        /\ \A l \in 1..Len(t) : other[t[l]].ts \in Nat /\ other[t[l]].dst \in Nat
        /\ \A l, p \in 1..Len(t) : l <= p =>
             \/ other[t[l]].ts < other[t[p]].ts
             \/ other[t[l]].ts = other[t[p]].ts /\ other[t[l]].dst <= other[t[p]].dst
    BY DEF InTime
  <1>3. /\ f \in [A -> B] /\ \A i, j \in A : f[i] = f[j] => i = j
        /\ \A i \in A : events[i].ts = other[f[i]].ts /\ events[i].dst = other[f[i]].dst
    BY DEF Carries, Injection, IsInjective
  <1> HIDE DEF A, B
  <1>4. ASSUME NEW l \in 1..k PROVE \E p \in 1..(k - 1) : t[p] = f[s[l]]
    <2>1. l \in 1..Len(s) /\ s[l] \in A /\ f[s[l]] \in B
      BY <1>1, <1>3
    <2>2. PICK p \in 1..Len(t) : t[p] = f[s[l]]
      BY <1>2, <2>1
    <2>3. events[s[l]].ts = other[t[p]].ts /\ events[s[l]].dst = other[t[p]].dst
      BY <1>3, <2>1, <2>2
    <2>4. \/ events[s[l]].ts < events[s[k]].ts
          \/ events[s[l]].ts = events[s[k]].ts /\ events[s[l]].dst <= events[s[k]].dst
      BY <1>1, <2>1
    <2>5. ~ (k <= p)
      <3> SUFFICES ASSUME k <= p PROVE FALSE
        OBVIOUS
      <3>1. \/ other[t[k]].ts < other[t[p]].ts
            \/ other[t[k]].ts = other[t[p]].ts /\ other[t[k]].dst <= other[t[p]].dst
        BY <1>2
      <3>2. /\ {events[s[l]].ts, events[s[k]].ts, other[t[k]].ts, other[t[p]].ts} \subseteq Nat
            /\ {events[s[l]].dst, events[s[k]].dst, other[t[k]].dst, other[t[p]].dst} \subseteq Nat
        BY <1>1, <1>2, <2>1
      <3> QED  BY SMTT(40), <2>3, <2>4, <3>1, <3>2
    <2>6. p \in 1..(k - 1)
      BY <1>2, <2>5
    <2> QED  BY <2>2, <2>6
  <1>5. g \in [1..k -> 1..(k - 1)] /\ \A l \in 1..k : t[g[l]] = f[s[l]]
    BY <1>4
  <1> HIDE DEF g
  <1>7. PICK x \in 1..k, y \in 1..k : x # y /\ g[x] = g[y]
    <2>1. k \in Nat \ {0}
      BY <1>1
    <2> QED  BY <1>5, <2>1, TooFewPlaces
  <1>8. s[x] \in A /\ s[y] \in A /\ f[s[x]] = f[s[y]] /\ x \in 1..Len(s) /\ y \in 1..Len(s)
    BY <1>1, <1>5, <1>7
  <1> QED  BY <1>1, <1>3, <1>7, <1>8

LEMMA CarriedAlike ==
    ASSUME NEW events, NEW other, NEW src, Batch(events), Batch(other),
           NEW f, Carries(f, events, other, src), NEW g, Carries(g, other, events, src)
    PROVE  Alike(events, Correlation!Ordered(events, src), other, Correlation!Ordered(other, src))
  <1> DEFINE s == Correlation!Ordered(events, src)
             t == Correlation!Ordered(other, src)
             A == Correlation!Attempts(events, src)
             B == Correlation!Attempts(other, src)
  <1>1. /\ InTime(events, src, s) /\ InTime(other, src, t)
        /\ IsFiniteSet(A) /\ IsFiniteSet(B) /\ Len(s) = Cardinality(A) /\ Len(t) = Cardinality(B)
    BY OrderedInTime
  <1> HIDE DEF s, t
  <1>2. Len(s) = Len(t)
    <2>1. f \in Injection(A, B) /\ g \in Injection(B, A)
      BY DEF Carries
    <2> HIDE DEF A, B
    <2>2. Cardinality(A) <= Cardinality(B) /\ Cardinality(B) <= Cardinality(A)
      BY <1>1, <2>1, FS_Injection
    <2>3. Cardinality(A) \in Nat /\ Cardinality(B) \in Nat
      BY <1>1, FS_CardinalityType
    <2> QED  BY <1>1, <2>2, <2>3
  <1>3. ASSUME NEW k \in 1..Len(s)
        PROVE  events[s[k]].ts = other[t[k]].ts /\ events[s[k]].dst = other[t[k]].dst
    <2>1. k \in 1..Len(t)
      BY <1>2
    <2>2. /\ ~ \/ events[s[k]].ts < other[t[k]].ts
               \/ events[s[k]].ts = other[t[k]].ts /\ events[s[k]].dst < other[t[k]].dst
      BY <1>1, <2>1, NoneEarlier
    <2>3. /\ ~ \/ other[t[k]].ts < events[s[k]].ts
               \/ other[t[k]].ts = events[s[k]].ts /\ other[t[k]].dst < events[s[k]].dst
      BY <1>1, <2>1, NoneEarlier
    <2>4. /\ events[s[k]].ts \in Nat /\ events[s[k]].dst \in Nat
          /\ other[t[k]].ts \in Nat /\ other[t[k]].dst \in Nat
      BY <1>1, <2>1 DEF InTime
    <2> QED  BY <2>2, <2>3, <2>4
  <1> QED  BY <1>2, <1>3 DEF Alike, s, t

LEMMA ReversedBatch ==
    ASSUME NEW events, Batch(events)
    PROVE  LET other == Lists!Reverse(events)
           IN  /\ Batch(other) /\ DOMAIN other = DOMAIN events
               /\ \A i \in DOMAIN events : /\ Len(events) + 1 - i \in DOMAIN events
                                           /\ other[i] = events[Len(events) + 1 - i]
                                           /\ other[Len(events) + 1 - i] = events[i]
  <1> DEFINE n == Len(events)
             other == Lists!Reverse(events)
  <1>1. n \in Nat /\ DOMAIN events = 1..n
    BY DEF Batch
  <1>2. other = [i \in 1..n |-> events[(n - i) + 1]]
    BY DEF Lists!Reverse
  <1> HIDE DEF n, other
  <1>3. \A i \in 1..n : /\ n + 1 - i \in 1..n /\ (n - i) + 1 = n + 1 - i
                        /\ (n - (n + 1 - i)) + 1 = i
    BY <1>1
  <1>4. \A i \in 1..n : other[i] = events[n + 1 - i] /\ other[n + 1 - i] = events[i]
    BY <1>2, <1>3
  <1>5. DOMAIN other = 1..n
    BY <1>2
  <1>6. Len(other) = n
    <2> DEFINE E == {events[i] : i \in 1..n}
    <2>1. other \in [1..n -> E]
      BY <1>2, <1>3
    <2>2. other \in Seq(E)
      BY <1>1, <2>1, SeqDef
    <2>3. Len(other) \in Nat /\ DOMAIN other = 1..Len(other)
      BY <2>2, LenProperties
    <2> QED  BY <1>1, <1>5, <2>3
  <1>7. Batch(other)
    <2>1. \A i \in 1..n : events[i].ts \in Nat /\ (Correlation!IncompleteSyn(events[i]) => events[i].dst \in Nat)
      BY <1>1 DEF Batch
    <2>2. \A i \in 1..n : other[i].ts \in Nat /\ (Correlation!IncompleteSyn(other[i]) => other[i].dst \in Nat)
      BY <1>3, <1>4, <2>1
    <2> QED  BY <1>1, <1>5, <1>6, <2>2 DEF Batch
  <1> QED  BY <1>1, <1>3, <1>4, <1>5, <1>7 DEF n, other

LEMMA AlikeReversed ==
    ASSUME NEW events, Batch(events), NEW src
    PROVE  LET other == Lists!Reverse(events)
           IN  Alike(events, Correlation!Ordered(events, src), other, Correlation!Ordered(other, src))
  <1> DEFINE n == Len(events)
             other == Lists!Reverse(events)
             A == Correlation!Attempts(events, src)
             B == Correlation!Attempts(other, src)
             f == [i \in A |-> n + 1 - i]
             g == [i \in B |-> n + 1 - i]
  <1>1. /\ n \in Nat /\ DOMAIN events = 1..n /\ Batch(other) /\ DOMAIN other = 1..n
        /\ \A i \in 1..n : /\ n + 1 - i \in 1..n /\ other[i] = events[n + 1 - i]
                           /\ other[n + 1 - i] = events[i]
    BY ReversedBatch DEF Batch
  <1> HIDE DEF n, other
  <1>2. \A i \in A : i \in 1..n /\ n + 1 - i \in B /\ other[n + 1 - i] = events[i]
    BY <1>1 DEF Correlation!Attempts
  <1>3. \A i \in B : i \in 1..n /\ n + 1 - i \in A /\ other[i] = events[n + 1 - i]
    BY <1>1 DEF Correlation!Attempts
  <1>4. Carries(f, events, other, src)
    <2>1. f \in [A -> B] /\ \A i, j \in A : f[i] = f[j] => i = j
      BY <1>1, <1>2
    <2>2. \A i \in A : events[i].ts = other[f[i]].ts /\ events[i].dst = other[f[i]].dst
      BY <1>2
    <2> QED  BY <2>1, <2>2 DEF Carries, Injection, IsInjective
  <1>5. Carries(g, other, events, src)
    <2>1. g \in [B -> A] /\ \A i, j \in B : g[i] = g[j] => i = j
      BY <1>1, <1>3
    <2>2. \A i \in B : other[i].ts = events[g[i]].ts /\ other[i].dst = events[g[i]].dst
      BY <1>3
    <2> QED  BY <2>1, <2>2 DEF Carries, Injection, IsInjective
  <1>6. Alike(events, Correlation!Ordered(events, src), other, Correlation!Ordered(other, src))
    BY <1>1, <1>4, <1>5, CarriedAlike
  <1> QED  BY <1>6 DEF other

\* What a finding claims, without the lines of its evidence
Claim(events, src, x) ==
    <<src, events[x[1]].ts, events[x[Len(x)]].ts, Len(x), Correlation!Targets(events, x)>>

Claims(events, src, found) == {Claim(events, src, x) : x \in found}

\* Lists that are alike have the same window at each place, and make the same claim of it.
LEMMA AlikeSpans ==
    ASSUME NEW events, NEW other, NEW src, NEW s, NEW t, InTime(events, src, s), InTime(other, src, t),
           Alike(events, s, other, t), NEW c, c.window \in Nat, NEW a \in 1..Len(s)
    PROVE  LET x == Span(events, s, c, a)
               y == Span(other, t, c, a)
           IN  /\ Correlation!End(events, s, a, c) = Correlation!End(other, t, a, c)
               /\ Correlation!Qualifies(events, x, c) <=> Correlation!Qualifies(other, y, c)
               /\ Claim(events, src, x) = Claim(other, src, y)
  <1> DEFINE n == Len(s)
             d == Correlation!End(events, s, a, c)
             e == Correlation!End(other, t, a, c)
             x == Span(events, s, c, a)
             y == Span(other, t, c, a)
  <1>1. /\ n \in Nat /\ n = Len(t)
        /\ \A k \in 1..n : events[s[k]].ts = other[t[k]].ts /\ events[s[k]].dst = other[t[k]].dst
    BY DEF InTime, Alike
  <1>2. a \in 1..Len(t)
    BY <1>1
  <1>3. /\ d \in (a + 1)..(n + 1)
        /\ \A k \in a..n : events[s[k]].ts - events[s[a]].ts <= c.window <=> k < d
    BY EndOfWindow
  <1>4. /\ e \in (a + 1)..(n + 1)
        /\ \A k \in a..n : other[t[k]].ts - other[t[a]].ts <= c.window <=> k < e
    BY <1>1, <1>2, EndOfWindow
  <1>5. /\ Len(x) = d - a /\ DOMAIN x = 1..(d - a) /\ \A k \in 1..(d - a) : x[k] = s[a + k - 1]
    BY SpanElements
  <1>6. /\ Len(y) = e - a /\ DOMAIN y = 1..(e - a) /\ \A k \in 1..(e - a) : y[k] = t[a + k - 1]
    BY <1>2, SpanElements
  <1> HIDE DEF d, e, x, y, n
  <1>7. d = e
    <2>1. \A k \in a..n : k \in 1..n /\ (k < d <=> k < e)
      BY <1>1, <1>2, <1>3, <1>4
    <2>2. ASSUME d < e PROVE FALSE
      <3>1. d \in a..n
        BY <1>1, <1>2, <1>3, <1>4, <2>2
      <3> QED  BY <1>1, <1>3, <2>1, <2>2, <3>1
    <2>3. ASSUME e < d PROVE FALSE
      <3>1. e \in a..n
        BY <1>1, <1>2, <1>3, <1>4, <2>3
      <3> QED  BY <1>1, <1>4, <2>1, <2>3, <3>1
    <2> QED  BY <1>1, <1>2, <1>3, <1>4, <2>2, <2>3
  <1>8. \A k \in 1..(d - a) : events[x[k]].ts = other[y[k]].ts /\ events[x[k]].dst = other[y[k]].dst
    <2>1. \A k \in 1..(d - a) : a + k - 1 \in 1..n
      BY <1>1, <1>2, <1>3
    <2> QED  BY SMTT(40), <1>1, <1>5, <1>6, <1>7, <2>1
  <1>9. Correlation!Targets(events, x) = Correlation!Targets(other, y)
    BY SMTT(40), <1>5, <1>6, <1>7, <1>8 DEF Correlation!Targets
  <1>10. Len(x) = Len(y) /\ 1 \in 1..(d - a) /\ Len(x) \in 1..(d - a)
    BY <1>1, <1>2, <1>3, <1>5, <1>6, <1>7
  <1>11. Correlation!Qualifies(events, x, c) <=> Correlation!Qualifies(other, y, c)
    BY <1>9, <1>10 DEF Correlation!Qualifies
  <1>12. Claim(events, src, x) = Claim(other, src, y)
    BY <1>8, <1>9, <1>10 DEF Claim
  <1> QED  BY <1>7, <1>11, <1>12 DEF d, e, x, y

\* Two walks that are at the same place and have made the same claims
Abreast(events, other, src, n, v, w) ==
    /\ v = [start |-> v.start, found |-> v.found] /\ w = [start |-> w.start, found |-> w.found]
    /\ v.start = w.start /\ v.start \in 1..(n + 1)
    /\ Claims(events, src, v.found) = Claims(other, src, w.found)

LEMMA PassAbreast ==
    ASSUME NEW events, NEW other, NEW src, NEW s, NEW t, InTime(events, src, s), InTime(other, src, t),
           Alike(events, s, other, t), NEW c, c.window \in Nat,
           NEW v, NEW w, Abreast(events, other, src, Len(s), v, w)
    PROVE  Abreast(events, other, src, Len(s), Correlation!Pass(events, s, v, c), Correlation!Pass(other, t, w, c))
  <1> DEFINE n == Len(s)
             a == v.start
             x == Span(events, s, c, a)
             y == Span(other, t, c, a)
             d == Correlation!End(events, s, a, c)
             v1 == Correlation!Pass(events, s, v, c)
             w1 == Correlation!Pass(other, t, w, c)
  <1>1. n \in Nat /\ Len(t) = n /\ a \in 1..(n + 1) /\ w.start = a
    BY DEF InTime, Alike, Abreast
  <1>2. CASE a > n
    <2>1. v1 = v /\ w1 = w
      BY <1>1, <1>2 DEF Correlation!Pass
    <2> QED  BY <2>1
  <1>3. CASE a <= n
    <2>1. a \in 1..n
      BY <1>1, <1>3
    <2>2. /\ d = Correlation!End(other, t, a, c)
          /\ Correlation!Qualifies(events, x, c) <=> Correlation!Qualifies(other, y, c)
          /\ Claim(events, src, x) = Claim(other, src, y)
      BY <2>1, AlikeSpans
    <2>3. d \in 1..(n + 1)
      BY <1>1, <2>1, EndOfWindow
    <2>4. v1 = IF Correlation!Qualifies(events, x, c) THEN [start |-> d, found |-> v.found \cup {x}]
               ELSE [start |-> a + 1, found |-> v.found]
      <3>1. [v EXCEPT !.start = @ + 1] = [start |-> a + 1, found |-> v.found]
        BY DEF Abreast
      <3> QED  BY <1>1, <1>3, <3>1 DEF Correlation!Pass, Span
    <2>5. w1 = IF Correlation!Qualifies(other, y, c) THEN [start |-> d, found |-> w.found \cup {y}]
               ELSE [start |-> a + 1, found |-> w.found]
      <3>1. [w EXCEPT !.start = @ + 1] = [start |-> a + 1, found |-> w.found]
        BY <1>1 DEF Abreast
      <3> QED  BY <1>1, <1>3, <2>2, <3>1 DEF Correlation!Pass, Span
    <2>6. Claims(events, src, v.found) = Claims(other, src, w.found)
      BY DEF Abreast
    <2> HIDE DEF x, y, d, v1, w1
    <2>7. Claims(events, src, v.found \cup {x}) = Claims(other, src, w.found \cup {y})
      <3>1. Claims(events, src, v.found \cup {x}) = Claims(events, src, v.found) \cup {Claim(events, src, x)}
        BY DEF Claims
      <3>2. Claims(other, src, w.found \cup {y}) = Claims(other, src, w.found) \cup {Claim(other, src, y)}
        BY DEF Claims
      <3> QED  BY <2>2, <2>6, <3>1, <3>2
    <2>8. CASE Correlation!Qualifies(events, x, c)
      <3>1. v1 = [start |-> d, found |-> v.found \cup {x}] /\ w1 = [start |-> d, found |-> w.found \cup {y}]
        BY <2>2, <2>4, <2>5, <2>8
      <3>2. Abreast(events, other, src, n, v1, w1)
        BY <2>3, <2>7, <3>1 DEF Abreast
      <3> QED  BY <3>2 DEF v1, w1
    <2>9. CASE ~ Correlation!Qualifies(events, x, c)
      <3>1. v1 = [start |-> a + 1, found |-> v.found] /\ w1 = [start |-> a + 1, found |-> w.found]
        BY <2>2, <2>4, <2>5, <2>9
      <3>2. a + 1 \in 1..(n + 1)
        BY <1>1, <1>3
      <3>3. Abreast(events, other, src, n, v1, w1)
        BY <2>6, <3>1, <3>2 DEF Abreast
      <3> QED  BY <3>3 DEF v1, w1
    <2> QED  BY <2>8, <2>9
  <1> QED  BY <1>1, <1>2, <1>3

LEMMA SameClaims ==
    ASSUME NEW events, NEW other, NEW src, Batch(events), Batch(other), NEW c, c.window \in Nat,
           Alike(events, Correlation!Ordered(events, src), other, Correlation!Ordered(other, src))
    PROVE  Claims(events, src, Correlation!Windows(events, src, c))
             = Claims(other, src, Correlation!Windows(other, src, c))
  <1> DEFINE s == Correlation!Ordered(events, src)
             t == Correlation!Ordered(other, src)
             N == Len(s)
  <1>1. InTime(events, src, s) /\ InTime(other, src, t) /\ Alike(events, s, other, t)
    BY OrderedInTime
  <1>2. N \in Nat /\ Len(t) = N
    BY <1>1 DEF InTime, Alike
  <1>3. PICK v : /\ Correlation!Windows(events, src, c) = v[N].found
                 /\ v[0] = [start |-> 1, found |-> {}]
                 /\ \A n \in 1..N : v[n] = Correlation!Pass(events, s, v[n - 1], c)
    BY <1>2, WalkRuns
  <1>4. PICK w : /\ Correlation!Windows(other, src, c) = w[N].found
                 /\ w[0] = [start |-> 1, found |-> {}]
                 /\ \A n \in 1..N : w[n] = Correlation!Pass(other, t, w[n - 1], c)
    <2>1. Len(t) \in Nat
      BY <1>2
    <2>2. \E w : /\ Correlation!Windows(other, src, c) = w[Len(t)].found
                 /\ w[0] = [start |-> 1, found |-> {}]
                 /\ \A n \in 1..Len(t) : w[n] = Correlation!Pass(other, t, w[n - 1], c)
      BY <2>1, WalkRuns
    <2> HIDE DEF s, t, N
    <2> QED  BY <1>2, <2>2
  <1> HIDE DEF s, t
  <1> DEFINE S == {n \in Nat : n <= N => Abreast(events, other, src, N, v[n], w[n])}
  <1>5. 0 \in S
    <2>1. 1 \in 1..(N + 1)
      BY <1>2
    <2>2. Claims(events, src, {}) = Claims(other, src, {})
      BY DEF Claims
    <2>3. Abreast(events, other, src, N, [start |-> 1, found |-> {}], [start |-> 1, found |-> {}])
      BY <2>1, <2>2 DEF Abreast
    <2>4. Abreast(events, other, src, N, v[0], w[0])
      BY <1>3, <1>4, <2>3
    <2> QED  BY <2>4
  <1>6. ASSUME NEW n \in Nat, n \in S PROVE n + 1 \in S
    <2> SUFFICES ASSUME n + 1 <= N PROVE Abreast(events, other, src, N, v[n + 1], w[n + 1])
      OBVIOUS
    <2>1. n + 1 \in 1..N /\ (n + 1) - 1 = n /\ Abreast(events, other, src, N, v[n], w[n])
      BY <1>2, <1>6
    <2>2. Abreast(events, other, src, N, Correlation!Pass(events, s, v[n], c), Correlation!Pass(other, t, w[n], c))
      BY <1>1, <2>1, PassAbreast
    <2> QED  BY <1>3, <1>4, <2>1, <2>2
  <1> HIDE DEF S
  <1>7. N \in S
    BY <1>2, <1>5, <1>6, InductiveSet
  <1> QED  BY <1>2, <1>3, <1>4, <1>7 DEF S, Abreast

\* What AttemptsCorrelatedOnce says of an answer r
ClaimsOf(findings) == {<<f.src, f.first, f.last, f.count, f.targets>> : f \in findings}

CorrelatedOnce(q, r) ==
      LET events == q.events
          c == q.config
          reported == UNION {Correlation!Range(f.evidence) : f \in r}
          enough(w) == /\ Cardinality(w) >= c.attempts
                       /\ Cardinality({events[i].dst : i \in w}) >= c.targets
      IN  r # Refused =>
            /\ Correlation!VerifyEvidence(events, r, c)
            /\ \A f, g \in r : f # g => Correlation!Range(f.evidence) \cap Correlation!Range(g.evidence) = {}
            /\ \A f \in r : /\ Correlation!Range(f.evidence) \subseteq Correlation!Attempts(events, f.src)
                            /\ enough(Correlation!Range(f.evidence))
                            /\ \A i, j \in Correlation!Range(f.evidence) : events[i].ts - events[j].ts <= c.window
            /\ \A i \in DOMAIN events \ reported :
                 /\ i \in Correlation!Attempts(events, events[i].src)
                 /\ enough(From(events, events[i].src, c, i))
                 => From(events, events[i].src, c, i) \cap reported # {}
            /\ ClaimsOf(r) = ClaimsOf(Correlation!CorrelateJsonl(Lists!Reverse(events), c))

Finding(events, src, x) ==
    [src |-> src, first |-> events[x[1]].ts, last |-> events[x[Len(x)]].ts,
     count |-> Len(x), targets |-> Correlation!Targets(events, x), evidence |-> x]

LEMMA FindingsOf ==
    ASSUME NEW events, NEW c, Correlation!ConfigAccepted(c), \A i \in DOMAIN events : Correlation!Normalizes(events[i])
    PROVE  /\ \A f : f \in Correlation!CorrelateJsonl(events, c) <=>
                 \E src \in Correlation!Sources(events) : \E x \in Correlation!Windows(events, src, c) :
                    f = Finding(events, src, x)
           /\ \A p : p \in ClaimsOf(Correlation!CorrelateJsonl(events, c)) <=>
                 \E src \in Correlation!Sources(events) :
                    p \in Claims(events, src, Correlation!Windows(events, src, c))
  <1> DEFINE r == Correlation!CorrelateJsonl(events, c)
             found(src) == Correlation!Windows(events, src, c)
             S == Correlation!Sources(events)
  <1>1. r = UNION {{Finding(events, src, x) : x \in found(src)} : src \in S}
    BY DEF Correlation!CorrelateJsonl, Finding
  <1> HIDE DEF r, found, S
  <1>2. \A f : f \in r <=> \E src \in S : \E x \in found(src) : f = Finding(events, src, x)
    BY <1>1
  <1>3. \A src, x : LET f == Finding(events, src, x)
                    IN  <<f.src, f.first, f.last, f.count, f.targets>> = Claim(events, src, x)
    BY DEF Finding, Claim
  <1>4. ASSUME NEW p PROVE p \in ClaimsOf(r) <=> \E src \in S : p \in Claims(events, src, found(src))
    <2>1. p \in ClaimsOf(r) <=> \E f \in r : p = <<f.src, f.first, f.last, f.count, f.targets>>
      BY DEF ClaimsOf
    <2>2. \A src : p \in Claims(events, src, found(src)) <=> \E x \in found(src) : p = Claim(events, src, x)
      BY DEF Claims
    <2>3. p \in ClaimsOf(r) <=> \E src \in S : \E x \in found(src) : p = Claim(events, src, x)
      <3>1. ASSUME NEW f \in r, p = <<f.src, f.first, f.last, f.count, f.targets>>
            PROVE  \E src \in S : \E x \in found(src) : p = Claim(events, src, x)
        <4>1. PICK src \in S : \E x \in found(src) : f = Finding(events, src, x)
          BY <1>2
        <4>2. PICK x \in found(src) : f = Finding(events, src, x)
          BY <4>1
        <4>3. p = Claim(events, src, x)
          BY <1>3, <3>1, <4>2
        <4> QED  BY <4>3
      <3>2. ASSUME NEW src \in S, NEW x \in found(src), p = Claim(events, src, x)
            PROVE  \E f \in r : p = <<f.src, f.first, f.last, f.count, f.targets>>
        <4>1. Finding(events, src, x) \in r
          BY <1>2
        <4> QED  BY <1>3, <3>2, <4>1
      <3> QED  BY <2>1, <3>1, <3>2
    <2> QED  BY <2>2, <2>3
  <1> QED  BY <1>2, <1>4 DEF r, found, S

LEMMA ReportCorrelatesOnce ==
    ASSUME NEW q, NEW r, Len(q.events) \in Nat, DOMAIN q.events = 1..Len(q.events),
           \A i \in DOMAIN q.events : q.events[i].ts \in Nat \cup {None} /\ q.events[i].dst \in Nat \cup {None},
           q.config.window \in Int, r = Correlation!CorrelateJsonl(q.events, q.config)
    PROVE  CorrelatedOnce(q, r)
  <1> SUFFICES ASSUME r # Refused PROVE CorrelatedOnce(q, r)
    BY DEF CorrelatedOnce
  <1> DEFINE events == q.events
             c == q.config
             other == Lists!Reverse(events)
             S == Correlation!Sources(events)
             found(src) == Correlation!Windows(events, src, c)
  <1>1. Correlation!ConfigAccepted(c) /\ \A i \in DOMAIN events : Correlation!Normalizes(events[i])
    BY DEF Correlation!CorrelateJsonl
  <1>2. Batch(events)
    <2>1. \A i \in DOMAIN events : events[i].ts \in Nat
      BY <1>1 DEF Correlation!Normalizes
    <2>2. \A i \in DOMAIN events : Correlation!IncompleteSyn(events[i]) => events[i].dst \in Nat
      BY DEF Correlation!IncompleteSyn
    <2> QED  BY <2>1, <2>2 DEF Batch
  <1>3. c.window \in Nat
    BY <1>1 DEF Correlation!ConfigAccepted
  <1>4. \A f : f \in r <=> \E src \in S : \E x \in found(src) : f = Finding(events, src, x)
    BY <1>1, FindingsOf
  <1>5. ASSUME NEW f \in r
        PROVE  /\ f.src \in S /\ f.evidence \in found(f.src) /\ f = Finding(events, f.src, f.evidence)
               /\ Correlation!Range(f.evidence) = Elements(f.evidence)
    <2>1. PICK src \in S : \E x \in found(src) : f = Finding(events, src, x)
      BY <1>4
    <2>2. PICK x \in found(src) : f = Finding(events, src, x)
      BY <2>1
    <2>3. f.src = src /\ f.evidence = x
      BY <2>2 DEF Finding
    <2> QED  BY <2>2, <2>3 DEF Correlation!Range, Elements
  <1>6. Correlation!VerifyEvidence(events, r, c)
    BY DEF Correlation!VerifyEvidence
  <1>7. ASSUME NEW f \in r
        PROVE  /\ Correlation!Range(f.evidence) \subseteq Correlation!Attempts(events, f.src)
               /\ Cardinality(Correlation!Range(f.evidence)) >= c.attempts
               /\ Cardinality({events[i].dst : i \in Correlation!Range(f.evidence)}) >= c.targets
               /\ \A i, j \in Correlation!Range(f.evidence) : events[i].ts - events[j].ts <= c.window
    <2>1. f.evidence \in Correlation!Windows(events, f.src, c) /\ Correlation!Range(f.evidence) = Elements(f.evidence)
      BY <1>5
    <2>2. /\ Elements(f.evidence) \subseteq Correlation!Attempts(events, f.src)
          /\ Cardinality(Elements(f.evidence)) = Len(f.evidence) /\ Len(f.evidence) >= c.attempts
          /\ Cardinality({events[i].dst : i \in Elements(f.evidence)}) >= c.targets
          /\ \A i, j \in Elements(f.evidence) : events[i].ts - events[j].ts <= c.window
      BY <1>2, <1>3, <2>1, FoundFits
    <2> QED  BY <2>1, <2>2
  <1>8. ASSUME NEW f \in r, NEW g \in r, f # g
        PROVE  Correlation!Range(f.evidence) \cap Correlation!Range(g.evidence) = {}
    <2>1. CASE f.src = g.src
      <3>1. f.evidence # g.evidence
        BY <1>5, <1>8, <2>1
      <3>2. Apart(found(f.src))
        BY <1>2, <1>3, WindowsFit
      <3> QED  BY <1>5, <2>1, <3>1, <3>2 DEF Apart
    <2>2. CASE f.src # g.src
      <3>1. Correlation!Attempts(events, f.src) \cap Correlation!Attempts(events, g.src) = {}
        BY <2>2 DEF Correlation!Attempts
      <3> QED  BY <1>7, <3>1
    <2> QED  BY <2>1, <2>2
  <1> DEFINE reported == UNION {Correlation!Range(f.evidence) : f \in r}
  <1>9. ASSUME NEW i \in DOMAIN events, i \in Correlation!Attempts(events, events[i].src),
               Cardinality(From(events, events[i].src, c, i)) >= c.attempts,
               Cardinality({events[j].dst : j \in From(events, events[i].src, c, i)}) >= c.targets
        PROVE  From(events, events[i].src, c, i) \cap reported # {}
    <2>1. events[i].src \in S
      BY <1>9 DEF Correlation!Attempts, Correlation!IncompleteSyn, Correlation!Sources
    <2>2. PICK x \in found(events[i].src) : From(events, events[i].src, c, i) \cap Elements(x) # {}
      <3> DEFINE src == events[i].src
      <3>1. /\ i \in Correlation!Attempts(events, src)
            /\ Cardinality(From(events, src, c, i)) >= c.attempts
            /\ Cardinality({events[j].dst : j \in From(events, src, c, i)}) >= c.targets
        BY <1>9
      <3> HIDE DEF src, events, c
      <3>2. \E x \in Correlation!Windows(events, src, c) : From(events, src, c, i) \cap Elements(x) # {}
        BY <1>2, <1>3, <3>1, LeftOut
      <3> QED  BY <3>2 DEF src, events, c
    <2> DEFINE f == Finding(events, events[i].src, x)
    <2>3. f \in r
      BY <1>4, <2>1, <2>2
    <2>4. f.evidence = x
      BY DEF Finding
    <2>5. Elements(x) \subseteq reported
      BY <1>5, <2>3, <2>4
    <2> QED  BY <2>2, <2>5
  <1>10. ClaimsOf(r) = ClaimsOf(Correlation!CorrelateJsonl(other, c))
    <2>1. /\ Batch(other) /\ DOMAIN other = DOMAIN events
          /\ \A i \in DOMAIN events : /\ Len(events) + 1 - i \in DOMAIN events
                                      /\ other[i] = events[Len(events) + 1 - i]
                                      /\ other[Len(events) + 1 - i] = events[i]
      BY <1>2, ReversedBatch
    <2>2. \A i \in DOMAIN other : Correlation!Normalizes(other[i])
      BY <1>1, <2>1
    <2>3. Correlation!Sources(other) = S
      <3> HIDE DEF other
      <3>1. \A i \in DOMAIN other : \E j \in DOMAIN events : other[i].src = events[j].src
        BY <2>1
      <3>2. \A i \in DOMAIN events : \E j \in DOMAIN other : events[i].src = other[j].src
        BY <2>1
      <3>3. {other[i].src : i \in DOMAIN other} = {events[i].src : i \in DOMAIN events}
        BY <3>1, <3>2
      <3> QED  BY <3>3 DEF Correlation!Sources
    <2>4. ASSUME NEW src PROVE Claims(events, src, found(src)) = Claims(other, src, Correlation!Windows(other, src, c))
      <3>1. Alike(events, Correlation!Ordered(events, src), other, Correlation!Ordered(other, src))
        BY <1>2, AlikeReversed
      <3> HIDE DEF other
      <3> QED  BY <1>2, <1>3, <2>1, <3>1, SameClaims
    <2>5. \A p : p \in ClaimsOf(r) <=> \E src \in S : p \in Claims(events, src, found(src))
      BY <1>1, FindingsOf
    <2>6. \A p : p \in ClaimsOf(Correlation!CorrelateJsonl(other, c)) <=>
             \E src \in S : p \in Claims(other, src, Correlation!Windows(other, src, c))
      BY <1>1, <2>2, <2>3, FindingsOf
    <2> HIDE DEF other, S, found
    <2>7. \A p : p \in ClaimsOf(r) <=> p \in ClaimsOf(Correlation!CorrelateJsonl(other, c))
      BY <2>4, <2>5, <2>6
    <2>8. ClaimsOf(r) \subseteq ClaimsOf(Correlation!CorrelateJsonl(other, c))
      BY <2>7
    <2>9. ClaimsOf(Correlation!CorrelateJsonl(other, c)) \subseteq ClaimsOf(r)
      BY <2>7
    <2> QED  BY <2>8, <2>9
  <1> QED  BY <1>6, <1>7, <1>8, <1>9, <1>10 DEF CorrelatedOnce

------------------------------------------------------------------------------
(* The DNS logs and the review queue (DnsWorkflow)                         *)

\* The rows of a host that count, among the first n
ScopedRows(rows, allowed, n, h) == {m \in 1..n : rows[m].host = h /\ h \in allowed /\ rows[m].wanted}

\* latest has every scoped host of the first n rows, with its latest instant and what
\* all rows of that instant say.
Newest(rows, here, entry) ==
    /\ \A m \in here : rows[m].ts <= entry.ts
    /\ \E m \in here : rows[m].ts = entry.ts
    /\ \A m \in here : rows[m].ts = entry.ts => entry.value = <<rows[m].reason, rows[m].addresses>>

Imported(rows, allowed, n, latest) ==
    /\ \A h \in DOMAIN latest : Newest(rows, ScopedRows(rows, allowed, n, h), latest[h])
    /\ \A m \in 1..n : rows[m].host \in allowed /\ rows[m].wanted => rows[m].host \in DOMAIN latest

LEMMA ScopedNext ==
    ASSUME NEW rows, NEW allowed, NEW n \in Nat, NEW h
    PROVE  /\ rows[n + 1].host = h /\ h \in allowed /\ rows[n + 1].wanted =>
                ScopedRows(rows, allowed, n + 1, h) = ScopedRows(rows, allowed, n, h) \cup {n + 1}
           /\ ~ (rows[n + 1].host = h /\ h \in allowed /\ rows[n + 1].wanted) =>
                ScopedRows(rows, allowed, n + 1, h) = ScopedRows(rows, allowed, n, h)
           /\ ScopedRows(rows, allowed, n, h) \subseteq 1..n
  BY DEF ScopedRows

LEMMA TakeImports ==
    ASSUME NEW rows, NEW allowed, NEW end, NEW n \in Nat, NEW latest,
           \A m \in 1..(n + 1) : rows[m].ts \in Nat,
           Imported(rows, allowed, n, latest),
           rows[n + 1].host \in allowed, rows[n + 1].wanted,
           Dns!Take(latest, rows, n + 1, end) # Refused
    PROVE  Imported(rows, allowed, n + 1, Dns!Take(latest, rows, n + 1, end))
  <1> DEFINE r == rows[n + 1]
             next == Dns!Take(latest, rows, n + 1, end)
             with(entry) == [h \in DOMAIN latest \cup {r.host} |-> IF h = r.host THEN entry ELSE latest[h]]
             here(h) == ScopedRows(rows, allowed, n, h)
  <1>1. here(r.host) \subseteq 1..n /\ ScopedRows(rows, allowed, n + 1, r.host) = here(r.host) \cup {n + 1}
    BY ScopedNext DEF ScopedRows
  <1>2. \A h : h # r.host => ScopedRows(rows, allowed, n + 1, h) = here(h)
    BY ScopedNext
  <1>3. r.ts \in Nat /\ \A m \in here(r.host) : rows[m].ts \in Nat
    BY <1>1
  <1>4. \A h \in DOMAIN latest : Newest(rows, here(h), latest[h])
    BY DEF Imported
  <1>5. ASSUME NEW entry, Newest(rows, here(r.host) \cup {n + 1}, entry), next = with(entry)
        PROVE  Imported(rows, allowed, n + 1, next)
    <2>1. DOMAIN next = DOMAIN latest \cup {r.host}
      BY <1>5
    <2>2. ASSUME NEW h \in DOMAIN next PROVE Newest(rows, ScopedRows(rows, allowed, n + 1, h), next[h])
      <3>1. CASE h = r.host
        BY <1>1, <1>5, <3>1
      <3>2. CASE h # r.host
        <4>1. h \in DOMAIN latest /\ next[h] = latest[h]
          BY <1>5, <2>1, <3>2
        <4> QED  BY <1>2, <1>4, <3>2, <4>1
      <3> QED  BY <3>1, <3>2
    <2>3. \A m \in 1..n : rows[m].host \in allowed /\ rows[m].wanted => rows[m].host \in DOMAIN latest
      BY DEF Imported
    <2>4. \A m \in 1..(n + 1) : m \in 1..n \/ m = n + 1
      OBVIOUS
    <2> QED  BY <2>1, <2>2, <2>3, <2>4 DEF Imported
  <1>6. CASE r.host \notin DOMAIN latest
    <2> DEFINE entry == [ts |-> r.ts, value |-> <<r.reason, r.addresses>>, lines |-> <<n + 1>>]
    <2>1. next = with(entry)
      BY <1>6 DEF Dns!Take
    <2>2. here(r.host) = {}
      BY <1>6 DEF Imported, ScopedRows
    <2>3. Newest(rows, here(r.host) \cup {n + 1}, entry)
      BY <1>3, <2>2 DEF Newest
    <2> HIDE DEF entry
    <2> QED  BY <1>5, <2>1, <2>3
  <1>7. CASE r.host \in DOMAIN latest
    <2> DEFINE prior == latest[r.host]
    <2>1. Newest(rows, here(r.host), prior)
      BY <1>4, <1>7
    <2>2. prior.ts \in Nat
      BY <1>3, <2>1 DEF Newest
    <2>3. CASE r.ts > prior.ts
      <3> DEFINE entry == [ts |-> r.ts, value |-> <<r.reason, r.addresses>>, lines |-> <<n + 1>>]
      <3>1. next = with(entry)
        BY <2>3 DEF Dns!Take
      <3>2. Newest(rows, here(r.host) \cup {n + 1}, entry)
        BY <1>3, <2>1, <2>2, <2>3 DEF Newest
      <3> HIDE DEF entry
      <3> QED  BY <1>5, <3>1, <3>2
    <2>4. CASE r.ts < prior.ts
      <3>1. next = latest
        BY <1>3, <1>7, <2>2, <2>4 DEF Dns!Take
      <3>2. Newest(rows, here(r.host) \cup {n + 1}, prior)
        BY <1>3, <2>1, <2>2, <2>4, SMTT(60) DEF Newest
      <3>3. \A h \in DOMAIN latest : Newest(rows, ScopedRows(rows, allowed, n + 1, h), latest[h])
        BY <1>1, <1>2, <1>4, <3>2
      <3>4. \A m \in 1..n : rows[m].host \in allowed /\ rows[m].wanted => rows[m].host \in DOMAIN latest
        BY DEF Imported
      <3>5. \A m \in 1..(n + 1) : m \in 1..n \/ m = n + 1
        OBVIOUS
      <3> QED  BY <1>7, <3>1, <3>3, <3>4, <3>5 DEF Imported
    <2>5. CASE r.ts = prior.ts
      <3> DEFINE entry == [prior EXCEPT !.lines = Append(@, n + 1)]
      <3>1. <<r.reason, r.addresses>> = prior.value /\ next = with(entry)
        BY <1>3, <1>7, <2>2, <2>5, SMTT(60) DEF Dns!Take
      <3>2. entry.ts = prior.ts /\ entry.value = prior.value
        OBVIOUS
      <3> HIDE DEF entry, prior
      <3>3. Newest(rows, here(r.host) \cup {n + 1}, entry)
        BY <1>3, <2>1, <2>2, <2>5, <3>1, <3>2 DEF Newest
      <3> QED  BY <1>5, <3>1, <3>3
    <2> QED  BY <1>3, <2>2, <2>3, <2>4, <2>5
  <1> QED  BY <1>6, <1>7

LEMMA LatestRuns ==
    ASSUME NEW rows, NEW allowed, NEW end, Len(rows) \in Nat
    PROVE  \E latest : /\ Dns!Latest(rows, allowed, end) = latest[Len(rows)]
                       /\ latest[0] = [h \in {} |-> None]
                       /\ \A n \in 1..Len(rows) :
                            latest[n] = IF latest[n - 1] = Refused THEN Refused
                                        ELSE IF rows[n].host \in allowed /\ rows[n].wanted
                                          THEN Dns!Take(latest[n - 1], rows, n, end)
                                        ELSE latest[n - 1]
  <1> DEFINE N == Len(rows)
             first == [h \in {} |-> None]
             step(x, n) == IF x = Refused THEN Refused
                           ELSE IF rows[n].host \in allowed /\ rows[n].wanted THEN Dns!Take(x, rows, n, end)
                           ELSE x
             upTo(m, f) == f = [n \in 0..m |-> IF n = 0 THEN first ELSE step(f[n - 1], n)]
             S == {m \in Nat : m <= N => \E f : upTo(m, f)}
  <1> HIDE DEF step, first
  <1>1. 0 \in S
    <2>1. upTo(0, [n \in 0..0 |-> first])
      OBVIOUS
    <2> QED  BY <2>1
  <1>2. ASSUME NEW m \in Nat, m \in S PROVE m + 1 \in S
    <2> SUFFICES ASSUME m + 1 <= N PROVE \E f : upTo(m + 1, f)
      OBVIOUS
    <2>1. PICK f : upTo(m, f)
      BY <1>2
    <2> DEFINE g == [n \in 0..(m + 1) |-> IF n = m + 1 THEN step(f[m], m + 1) ELSE f[n]]
    <2>2. ASSUME NEW n \in 0..(m + 1) PROVE g[n] = IF n = 0 THEN first ELSE step(g[n - 1], n)
      <3>1. CASE n = m + 1
        BY <3>1
      <3>2. CASE n \in 0..m
        <4>1. f[n] = IF n = 0 THEN first ELSE step(f[n - 1], n)
          BY <2>1, <3>2
        <4>2. g[n] = f[n] /\ (n # 0 => g[n - 1] = f[n - 1])
          BY <3>2
        <4> QED  BY <4>1, <4>2
      <3> QED  BY <3>1, <3>2
    <2>3. upTo(m + 1, g)
      BY <2>2
    <2> QED  BY <2>3
  <1> HIDE DEF S
  <1>3. N \in S
    BY <1>1, <1>2, InductiveSet
  <1> DEFINE latest == CHOOSE f : upTo(N, f)
  <1>4. upTo(N, latest)
    BY <1>3 DEF S
  <1>5. Dns!Latest(rows, allowed, end) = latest[N]
    BY DEF Dns!Latest, first, step
  <1> HIDE DEF latest
  <1>6. latest[0] = first /\ \A n \in 1..N : latest[n] = step(latest[n - 1], n)
    BY <1>4
  <1> QED  BY <1>5, <1>6 DEF first, step

LEMMA LatestImports ==
    ASSUME NEW rows, NEW allowed, NEW end, Len(rows) \in Nat, \A m \in 1..Len(rows) : rows[m].ts \in Nat,
           Dns!Latest(rows, allowed, end) # Refused
    PROVE  Imported(rows, allowed, Len(rows), Dns!Latest(rows, allowed, end))
  <1> DEFINE N == Len(rows)
  <1>1. PICK latest : /\ Dns!Latest(rows, allowed, end) = latest[N]
                      /\ latest[0] = [h \in {} |-> None]
                      /\ \A n \in 1..N :
                           latest[n] = IF latest[n - 1] = Refused THEN Refused
                                       ELSE IF rows[n].host \in allowed /\ rows[n].wanted
                                         THEN Dns!Take(latest[n - 1], rows, n, end)
                                       ELSE latest[n - 1]
    BY LatestRuns
  <1> DEFINE S == {n \in Nat : n <= N => latest[n] = Refused \/ Imported(rows, allowed, n, latest[n])}
  <1>2. 0 \in S
    <2>1. DOMAIN latest[0] = {}
      BY <1>1
    <2>2. 1..0 = {}
      OBVIOUS
    <2> QED  BY <2>1, <2>2 DEF Imported
  <1>3. ASSUME NEW n \in Nat, n \in S PROVE n + 1 \in S
    <2> SUFFICES ASSUME n + 1 <= N, latest[n + 1] # Refused PROVE Imported(rows, allowed, n + 1, latest[n + 1])
      OBVIOUS
    <2>1. n + 1 \in 1..N /\ (n + 1) - 1 = n
      OBVIOUS
    <2>2. latest[n] # Refused /\ Imported(rows, allowed, n, latest[n])
      BY <1>1, <1>3, <2>1
    <2>3. CASE rows[n + 1].host \in allowed /\ rows[n + 1].wanted
      <3>1. latest[n + 1] = Dns!Take(latest[n], rows, n + 1, end)
        BY <1>1, <2>1, <2>2, <2>3
      <3>2. \A m \in 1..(n + 1) : rows[m].ts \in Nat
        BY <2>1
      <3> QED  BY <2>2, <2>3, <3>1, <3>2, TakeImports
    <2>4. CASE ~ (rows[n + 1].host \in allowed /\ rows[n + 1].wanted)
      <3>1. latest[n + 1] = latest[n]
        BY <1>1, <2>1, <2>2, <2>4
      <3>2. \A h : ScopedRows(rows, allowed, n + 1, h) = ScopedRows(rows, allowed, n, h)
        BY <2>4 DEF ScopedRows
      <3>3. \A m \in 1..(n + 1) : m \in 1..n \/ m = n + 1
        OBVIOUS
      <3> QED  BY <2>2, <2>4, <3>1, <3>2, <3>3 DEF Imported
    <2> QED  BY <2>3, <2>4
  <1> HIDE DEF S
  <1>4. N \in S
    BY <1>2, <1>3, InductiveSet
  <1> QED  BY <1>1, <1>4 DEF S

\* The newest of some rows, what they say, and whether they say anything usable
NewestOf(rows, here) == {n \in here : \A m \in here : rows[m].ts <= rows[n].ts}
NowObserved(rows, here) == UNION {rows[n].addresses : n \in NewestOf(rows, here)}
Usable(rows, here) == NewestOf(rows, here) # {} /\ \A n \in NewestOf(rows, here) : rows[n].reason = ""

LEMMA NewestSays ==
    ASSUME NEW rows, NEW here, NEW entry, Newest(rows, here, entry), \A m \in here : rows[m].ts \in Nat
    PROVE  /\ Usable(rows, here) <=> entry.value[1] = ""
           /\ NowObserved(rows, here) = entry.value[2]
  <1>1. NewestOf(rows, here) = {n \in here : rows[n].ts = entry.ts}
    BY DEF Newest, NewestOf
  <1>2. NewestOf(rows, here) # {}
    BY <1>1 DEF Newest
  <1>3. \A n \in NewestOf(rows, here) : rows[n].reason = entry.value[1] /\ rows[n].addresses = entry.value[2]
    BY <1>1 DEF Newest
  <1> HIDE DEF Newest
  <1>4. NowObserved(rows, here) = entry.value[2]
    BY <1>2, <1>3 DEF NowObserved
  <1> QED  BY <1>2, <1>3, <1>4 DEF Usable

LEMMA ImportSays ==
    ASSUME NEW rows, NEW allowed, NEW end, Len(rows) \in Nat, \A m \in 1..Len(rows) : rows[m].ts \in Nat,
           Dns!ImportDns(rows, allowed, end) # Refused
    PROVE  LET s == Dns!ImportDns(rows, allowed, end)
               here(h) == ScopedRows(rows, allowed, Len(rows), h)
           IN  /\ s.time = end
               /\ \A h : h \in DOMAIN s.records <=> Usable(rows, here(h))
               /\ \A h \in DOMAIN s.records : s.records[h] = NowObserved(rows, here(h))
  <1> DEFINE latest == Dns!Latest(rows, allowed, end)
             s == Dns!ImportDns(rows, allowed, end)
             here(h) == ScopedRows(rows, allowed, Len(rows), h)
  <1>1. latest # Refused
    BY DEF Dns!ImportDns
  <1>2. Imported(rows, allowed, Len(rows), latest)
    BY <1>1, LatestImports
  <1>3. /\ s.time = end
        /\ DOMAIN s.records = {h \in DOMAIN latest : latest[h].value[1] = ""}
        /\ \A h \in DOMAIN s.records : s.records[h] = latest[h].value[2]
    BY <1>1 DEF Dns!ImportDns
  <1>4. \A h : \A m \in here(h) : rows[m].ts \in Nat
    BY DEF ScopedRows
  <1>5. ASSUME NEW h \in DOMAIN latest
        PROVE  (Usable(rows, here(h)) <=> latest[h].value[1] = "") /\ NowObserved(rows, here(h)) = latest[h].value[2]
    <2>1. Newest(rows, here(h), latest[h])
      BY <1>2 DEF Imported
    <2> QED  BY <1>4, <2>1, NewestSays
  <1>6. ASSUME NEW h, Usable(rows, here(h)) PROVE h \in DOMAIN latest
    <2>1. here(h) # {}
      BY <1>6 DEF Usable, NewestOf
    <2> QED  BY <1>2, <2>1 DEF Imported, ScopedRows
  <1> QED  BY <1>3, <1>5, <1>6

\* The findings of a workflow, in the terms of its documents
Scoped(w, h) == {n \in DOMAIN w.after : w.after[n].host = h /\ h \in w.allowed /\ w.after[n].wanted}

Diverges(w, h) ==
    /\ Usable(w.after, Scoped(w, h))
    /\ \E i \in {j \in DOMAIN w.rules : w.rules[j].host = h} :
         w.rules[i].expected # NowObserved(w.after, Scoped(w, h))

LEMMA ReviewOfStatus ==
    ASSUME NEW after, NEW rules, NEW h
    PROVE  LET rule == {i \in DOMAIN rules : rules[i].host = h}
               r == rules[CHOOSE i \in rule : TRUE]
           IN  Dns!ReviewOf(after, rules, h).status =
                 IF rule = {} THEN "no_review_rule"
                 ELSE IF h \notin DOMAIN after.records THEN "not_observed_current"
                 ELSE IF after.records[h] = r.expected THEN "matches_reviewed_addresses"
                 ELSE "address_policy_mismatch"
  <1> DEFINE rule == {i \in DOMAIN rules : rules[i].host = h}
  <1>1. CASE rule = {}
    BY <1>1 DEF Dns!ReviewOf, Dns!Hosts
  <1>2. CASE rule # {} /\ h \notin DOMAIN after.records
    BY <1>2 DEF Dns!ReviewOf, Dns!Hosts
  <1>3. CASE rule # {} /\ h \in DOMAIN after.records
    BY <1>3 DEF Dns!ReviewOf, Dns!Hosts
  <1> QED  BY <1>1, <1>2, <1>3

LEMMA LogsRead ==
    ASSUME NEW w \in Workflows
    PROVE  /\ Len(w.after) \in Nat /\ DOMAIN w.after = 1..Len(w.after)
           /\ \A m \in 1..Len(w.after) : w.after[m].ts \in Nat /\ w.after[m].host \in Nat
  <1>1. /\ w.after \in Seq({w.after[n] : n \in DOMAIN w.after})
        /\ \A n \in DOMAIN w.after : {w.after[n].host, w.after[n].ts} \subseteq Nat
    BY WorkflowAssumption
  <1>2. Len(w.after) \in Nat /\ DOMAIN w.after = 1..Len(w.after)
    BY <1>1, LenProperties
  <1> QED  BY <1>1, <1>2

LEMMA ReviewFinds ==
    ASSUME NEW w \in Workflows, Dns!Reviewed(w) # Refused
    PROVE  LET review == Dns!Reviewed(w)
           IN  /\ review.after.time = w.until
               /\ Dns!Mismatches(review) = {h \in w.allowed : Diverges(w, h)}
               /\ \A h \in Dns!Mismatches(review) : review.after.records[h] = NowObserved(w.after, Scoped(w, h))
  <1> DEFINE review == Dns!Reviewed(w)
             before == Dns!ImportDns(w.before, w.allowed, w.from)
             after == Dns!ImportDns(w.after, w.allowed, w.until)
             rule(h) == {i \in DOMAIN w.rules : w.rules[i].host = h}
             reviewed == Dns!Hosts(before) \cup Dns!Hosts(after) \cup {w.rules[i].host : i \in DOMAIN w.rules}
  <1>1. /\ Len(w.after) \in Nat /\ DOMAIN w.after = 1..Len(w.after)
        /\ \A m \in 1..Len(w.after) : w.after[m].ts \in Nat
    BY LogsRead
  <1>2. before # Refused /\ after # Refused /\ review = Dns!Review(before, after, w.rules, w.allowed)
    BY DEF Dns!Reviewed, Dns!ReviewImported
  <1> HIDE DEF review, before, after
  <1>3. /\ Dns!RulesAccepted(w.rules, w.allowed) /\ Dns!Compare(before, after, w.allowed) # Refused
        /\ review.after = after /\ DOMAIN review.reviews = reviewed
        /\ \A h \in reviewed : review.reviews[h] = Dns!ReviewOf(after, w.rules, h)
    BY <1>2 DEF Dns!Review, review
  <1>4. Dns!SnapshotAccepted(after, w.allowed)
    BY <1>3 DEF Dns!Compare
  <1>5. \A h : Scoped(w, h) = ScopedRows(w.after, w.allowed, Len(w.after), h)
    BY <1>1 DEF Scoped, ScopedRows
  <1>6. /\ after.time = w.until
        /\ \A h : h \in DOMAIN after.records <=> Usable(w.after, Scoped(w, h))
        /\ \A h \in DOMAIN after.records : after.records[h] = NowObserved(w.after, Scoped(w, h))
    BY <1>1, <1>2, <1>5, ImportSays DEF after
  <1>7. ASSUME NEW h \in reviewed
        PROVE  review.reviews[h].status = "address_policy_mismatch" <=> h \in w.allowed /\ Diverges(w, h)
    <2> DEFINE r == w.rules[CHOOSE i \in rule(h) : TRUE]
    <2>1. h \in DOMAIN after.records => h \in w.allowed
      BY <1>4 DEF Dns!SnapshotAccepted, Dns!Hosts
    <2>2. CASE rule(h) = {}
      BY <1>3, <2>2, ReviewOfStatus DEF Diverges
    <2>3. CASE rule(h) # {} /\ h \notin DOMAIN after.records
      BY <1>3, <1>6, <2>3, ReviewOfStatus DEF Diverges
    <2>4. CASE rule(h) # {} /\ h \in DOMAIN after.records
      <3>1. \A i \in rule(h) : w.rules[i] = r
        BY <1>3, <2>4 DEF Dns!RulesAccepted
      <3>2. Diverges(w, h) <=> after.records[h] # r.expected
        BY <1>6, <2>4, <3>1 DEF Diverges
      <3>3. review.reviews[h].status = IF after.records[h] = r.expected THEN "matches_reviewed_addresses"
                                       ELSE "address_policy_mismatch"
        BY <1>3, <2>4, ReviewOfStatus
      <3> QED  BY <2>1, <2>4, <3>2, <3>3
    <2> QED  BY <2>2, <2>3, <2>4
  <1>8. \A h : Diverges(w, h) => h \in DOMAIN after.records /\ h \in reviewed
    BY <1>6 DEF Diverges, Dns!Hosts
  <1>9. Dns!Mismatches(review) = {h \in w.allowed : Diverges(w, h)}
    BY <1>3, <1>7, <1>8 DEF Dns!Mismatches
  <1>10. /\ review.after.time = w.until
         /\ \A h \in Dns!Mismatches(review) : review.after.records[h] = NowObserved(w.after, Scoped(w, h))
    BY <1>3, <1>6, <1>8, <1>9
  <1> QED  BY <1>9, <1>10 DEF review

LEMMA BandValues ==
    ASSUME NEW s PROVE Dns!Band(s) \in {"urgent", "priority", "routine"}
  BY DEF Dns!Band

\* A score is a number.
LEMMA ScoreIsNumber ==
    ASSUME NEW a, a.impact \in DOMAIN Dns!Impact, a.exposure \in DOMAIN Dns!Exposure,
           a.authorization \in DOMAIN Dns!Authorization
    PROVE  Dns!Score(a) \in Int
  <1>1. Dns!Impact[a.impact] \in Int
    BY DEF Dns!Impact
  <1>2. Dns!Exposure[a.exposure] \in Int
    BY DEF Dns!Exposure
  <1>3. Dns!Authorization[a.authorization] \in Int
    BY DEF Dns!Authorization
  <1> QED  BY <1>1, <1>2, <1>3 DEF Dns!Score

LEMMA SoonerOrders ==
    ASSUME NEW S, S \subseteq Nat, NEW risk, \A h \in DOMAIN risk : risk[h] \in Int
    PROVE  TotalOrder(S, {p \in S \X S : Dns!Sooner(risk, p[1], p[2])})
  <1> DEFINE score(h) == IF h \in DOMAIN risk THEN risk[h] ELSE 0
             rank(h) == Dns!Order[Dns!BandOf(risk, h)]
  <1>1. \A h \in S : score(h) \in Int
    OBVIOUS
  <1>2. \A h \in S : rank(h) \in Int
    BY BandValues DEF Dns!Order, Dns!BandOf
  <1>3. \A g, h \in S : Dns!Sooner(risk, g, h) <=>
            \/ rank(g) < rank(h)
            \/ rank(g) = rank(h) /\ score(g) > score(h)
            \/ rank(g) = rank(h) /\ score(g) = score(h) /\ g < h
    BY DEF Dns!Sooner
  <1> HIDE DEF score, rank
  <1>4. \A g, h \in S : <<g, h>> \in {p \in S \X S : Dns!Sooner(risk, p[1], p[2])} <=> Dns!Sooner(risk, g, h)
    OBVIOUS
  <1>5. \A g \in S : g \in Int
    OBVIOUS
  <1> QED  BY <1>1, <1>2, <1>3, <1>4, <1>5 DEF TotalOrder

\* The queue: every mismatch once, by its band
LEMMA QueueOrdered ==
    ASSUME NEW review, NEW risk, NEW owners, Dns!Mismatches(review) \subseteq Nat,
           IsFiniteSet(Dns!Mismatches(review)), \A h \in DOMAIN risk : risk[h] \in Int
    PROVE  LET queue == Dns!BuildQueue(review, risk, owners)
           IN  /\ Len(queue) = Cardinality(Dns!Mismatches(review)) /\ Len(queue) \in Nat /\ DOMAIN queue = 1..Len(queue)
               /\ {queue[n].host : n \in DOMAIN queue} = Dns!Mismatches(review)
               /\ \A m, n \in DOMAIN queue : m < n => Dns!Order[queue[m].band] <= Dns!Order[queue[n].band]
               /\ \A n \in DOMAIN queue : /\ queue[n].band = Dns!BandOf(risk, queue[n].host)
                                          /\ queue[n].next = Dns!NextReview(risk, owners, queue[n].host)
  <1> DEFINE S == Dns!Mismatches(review)
             before == {p \in S \X S : Dns!Sooner(risk, p[1], p[2])}
             s == Arranged(S, before)
             N == Cardinality(S)
             queue == Dns!BuildQueue(review, risk, owners)
  <1> HIDE DEF S
  <1>1. /\ N \in Nat /\ s \in [1..N -> S]
        /\ \A k, l \in 1..N : <<s[k], s[l]>> \in before <=> k < l
        /\ \A i \in S : \E k \in 1..N : s[k] = i
    <2>1. TotalOrder(S, before)
      BY SoonerOrders DEF S
    <2>2. IsFiniteSet(S)
      BY DEF S
    <2> HIDE DEF before
    <2> QED  BY <2>1, <2>2, ArrangedInOrder
  <1>2. queue = [n \in 1..N |-> [host |-> s[n], band |-> Dns!BandOf(risk, s[n]),
                                 next |-> Dns!NextReview(risk, owners, s[n])]]
    <2>1. queue = [n \in DOMAIN s |-> [host |-> s[n], band |-> Dns!BandOf(risk, s[n]),
                                       next |-> Dns!NextReview(risk, owners, s[n])]]
      BY DEF Dns!BuildQueue, S, Dns!Arranged, Arranged, Dns!Cardinality, Cardinality
    <2> QED  BY <1>1, <2>1
  <1> HIDE DEF s, queue
  <1>3. Len(queue) = N /\ DOMAIN queue = 1..N
    BY <1>1, <1>2
  <1>4. {queue[n].host : n \in 1..N} = S
    BY <1>1, <1>2
  <1>5. ASSUME NEW m \in 1..N, NEW n \in 1..N, m < n
        PROVE  Dns!Order[queue[m].band] <= Dns!Order[queue[n].band]
    <2>1. <<s[m], s[n]>> \in before
      BY <1>1, <1>5
    <2>2. Dns!Sooner(risk, s[m], s[n])
      BY <2>1
    <2>3. \A h : Dns!Order[Dns!BandOf(risk, h)] \in Int
      BY BandValues DEF Dns!Order, Dns!BandOf
    <2>4. Dns!Order[Dns!BandOf(risk, s[m])] <= Dns!Order[Dns!BandOf(risk, s[n])]
      BY <2>2, <2>3 DEF Dns!Sooner
    <2> QED  BY <1>2, <2>4
  <1>6. \A n \in 1..N : /\ queue[n].band = Dns!BandOf(risk, queue[n].host)
                        /\ queue[n].next = Dns!NextReview(risk, owners, queue[n].host)
    BY <1>2
  <1>7. /\ Len(queue) = Cardinality(S) /\ Len(queue) \in Nat /\ DOMAIN queue = 1..Len(queue)
        /\ {queue[n].host : n \in DOMAIN queue} = S
        /\ \A m, n \in DOMAIN queue : m < n => Dns!Order[queue[m].band] <= Dns!Order[queue[n].band]
        /\ \A n \in DOMAIN queue : /\ queue[n].band = Dns!BandOf(risk, queue[n].host)
                                   /\ queue[n].next = Dns!NextReview(risk, owners, queue[n].host)
    BY <1>1, <1>3, <1>4, <1>5, <1>6
  <1> QED  BY <1>7 DEF S, queue

Assessed(w, h) ==
    /\ w.assessments # None
    /\ \E i \in DOMAIN w.assessments :
         /\ w.assessments[i].host = h /\ w.assessments[i].addresses = NowObserved(w.after, Scoped(w, h))
         /\ w.assessments[i].observed_at = w.until

KeepsFindings(w, report) ==
    LET queue == report.review_queue
        accepted(layers, assess, respond) == Dns!VerifyWorkflow(report, w,
           [layers |-> layers, risk_assessed |-> assess, team_responded |-> respond])
    IN  /\ {queue[n].host : n \in DOMAIN queue} = {h \in w.allowed : Diverges(w, h)}
        /\ Cardinality({queue[n].host : n \in DOMAIN queue}) = Len(queue)
        /\ \A m, n \in DOMAIN queue :
             m < n => Dns!Order[queue[m].band] <= Dns!Order[queue[n].band]
        /\ \A n \in DOMAIN queue : queue[n].band # "unassessed" <=> Assessed(w, queue[n].host)
        /\ Dns!VerifyWorkflow(report, w, None)
        /\ accepted({"risk_review"}, TRUE, FALSE) =>
             \A n \in DOMAIN queue : queue[n].next # "supply_assessment_facts"
        /\ accepted({"ownership_review"}, FALSE, TRUE) =>
             \A n \in DOMAIN queue : queue[n].next # "request_team_response"

\* A mismatch has a score if it is assessed as it is observed now.
LEMMA LayerAssesses ==
    ASSUME NEW w \in Workflows, Dns!Reviewed(w) # Refused, Dns!RiskLayer(w, Dns!Reviewed(w)) # Refused
    PROVE  LET risk == Dns!Layer(Dns!RiskLayer(w, Dns!Reviewed(w)))
           IN  /\ \A h \in DOMAIN risk : risk[h] \in Int
               /\ \A h \in Dns!Mismatches(Dns!Reviewed(w)) : h \in DOMAIN risk <=> Assessed(w, h)
  <1> DEFINE review == Dns!Reviewed(w)
             layer == Dns!RiskLayer(w, review)
             risk == Dns!Layer(layer)
             given == w.assessments
             S == {given[i].host : i \in DOMAIN given}
             of(h) == given[CHOOSE i \in DOMAIN given : given[i].host = h]
  <1>1. CASE given = None
    <2>1. risk = << >>
      BY <1>1 DEF Dns!RiskLayer, Dns!Layer
    <2>2. DOMAIN risk = {}
      BY <2>1
    <2>3. \A h : ~ Assessed(w, h)
      BY <1>1 DEF Assessed
    <2> QED  BY <2>2, <2>3
  <1>2. CASE given # None
    <2>1. layer = Dns!ScoreReview(review, given)
      BY <1>2 DEF Dns!RiskLayer
    <2>2. /\ \A i \in DOMAIN given : /\ given[i].impact \in DOMAIN Dns!Impact
                                     /\ given[i].exposure \in DOMAIN Dns!Exposure
                                     /\ given[i].authorization \in DOMAIN Dns!Authorization
          /\ None # Dns!ScoreReview(review, given)
      BY <1>2, WorkflowAssumption
    <2> HIDE DEF review
    <2>3. risk = layer
      BY <2>1, <2>2 DEF Dns!Layer
    <2> HIDE DEF layer
    <2>4. Dns!AssessmentsAccepted(review, given) /\ layer = [h \in S |-> Dns!Score(of(h))]
      BY <2>1 DEF Dns!ScoreReview, layer, review
    <2>5. ASSUME NEW h \in S PROVE Dns!Score(of(h)) \in Int
      <3>1. \E i \in DOMAIN given : of(h) = given[i]
        OBVIOUS
      <3> QED  BY <2>2, <3>1, ScoreIsNumber
    <2> HIDE DEF S, of
    <2>6. DOMAIN risk = S /\ \A h \in S : risk[h] \in Int
      BY <2>3, <2>4, <2>5
    <2> USE DEF S
    <2>7. /\ review.after.time = w.until
          /\ \A h \in Dns!Mismatches(review) : review.after.records[h] = NowObserved(w.after, Scoped(w, h))
      BY ReviewFinds DEF review
    <2>8. ASSUME NEW h \in Dns!Mismatches(review) PROVE h \in S <=> Assessed(w, h)
      BY <1>2, <2>4, <2>7, <2>8 DEF Dns!AssessmentsAccepted, Assessed
    <2>9. /\ \A h \in DOMAIN risk : risk[h] \in Int
          /\ \A h \in Dns!Mismatches(review) : h \in DOMAIN risk <=> Assessed(w, h)
      BY <2>6, <2>8
    <2> HIDE DEF risk
    <2> QED  BY <2>9 DEF risk, layer, review
  <1> QED  BY <1>1, <1>2

\* An import carries the instant it was made for.
LEMMA ImportIsDated ==
    ASSUME NEW rows, NEW allowed, NEW end, Dns!ImportDns(rows, allowed, end) # Refused
    PROVE  Dns!ImportDns(rows, allowed, end).time = end
  BY DEF Dns!ImportDns

\* What a report is rebuilt from gives the report: it keeps both instants, and its queue.
LEMMA RebuiltAsReported ==
    ASSUME NEW w \in Workflows, NEW report, report = Dns!ReviewLogs(w), report # Refused, w.queue
    PROVE  report = Dns!ReviewLogs(Dns!RebuiltFrom(report, w))
  <1> DEFINE v == Dns!RebuiltFrom(report, w)
             review == Dns!Reviewed(w)
             before == Dns!ImportDns(w.before, w.allowed, w.from)
             after == Dns!ImportDns(w.after, w.allowed, w.until)
  <1>1. review # Refused /\ report.review = review
    <2>1. report = Dns!Layered(w, review, Dns!RiskLayer(w, review), Dns!OwnershipLayer(w, review))
      BY DEF Dns!ReviewLogs, Dns!LayersOf
    <2> HIDE DEF review
    <2> QED  BY <2>1 DEF Dns!Layered
  <1>2. review.before.time = w.from /\ review.after.time = w.until
    <2>1. before # Refused /\ after # Refused /\ review = Dns!Review(before, after, w.rules, w.allowed)
      BY <1>1 DEF Dns!Reviewed, Dns!ReviewImported
    <2>2. before.time = w.from /\ after.time = w.until
      BY <2>1, ImportIsDated
    <2> HIDE DEF before, after, review
    <2>3. review.before = before /\ review.after = after
      BY <1>1, <2>1 DEF Dns!Review
    <2> QED  BY <2>2, <2>3
  <1>3. /\ v.before = w.before /\ v.after = w.after /\ v.allowed = w.allowed /\ v.rules = w.rules
        /\ v.assessments = w.assessments /\ v.responses = w.responses
        /\ v.from = report.review.before.time /\ v.until = report.review.after.time
    BY DEF Dns!RebuiltFrom
  <1>4. v.queue
    <2>1. report.review_queue # None
      BY WorkflowAssumption
    <2> QED  BY <2>1 DEF Dns!RebuiltFrom
  <1> HIDE DEF v, review
  <1>5. Dns!Reviewed(v) = Dns!Reviewed(w)
    <2>1. v.from = w.from /\ v.until = w.until
      BY <1>1, <1>2, <1>3
    <2> QED  BY <1>3, <2>1 DEF Dns!Reviewed, Dns!ReviewImported
  <1>6. ASSUME NEW r
        PROVE  Dns!RiskLayer(v, r) = Dns!RiskLayer(w, r) /\ Dns!OwnershipLayer(v, r) = Dns!OwnershipLayer(w, r)
    BY <1>3 DEF Dns!RiskLayer, Dns!OwnershipLayer
  <1>7. ASSUME NEW r, NEW risk, NEW owners PROVE Dns!Layered(v, r, risk, owners) = Dns!Layered(w, r, risk, owners)
    BY <1>4 DEF Dns!Layered
  <1>8. Dns!ReviewLogs(v) = Dns!ReviewLogs(w)
    BY <1>5, <1>6, <1>7 DEF Dns!ReviewLogs, Dns!LayersOf
  <1> QED  BY <1>8 DEF v

LEMMA QueueIsKept ==
    ASSUME NEW w \in Workflows, NEW report, report = Dns!ReviewLogs(w), report # Refused, w.queue
    PROVE  KeepsFindings(w, report)
  <1> DEFINE review == Dns!Reviewed(w)
             found == Dns!Mismatches(review)
             layer == Dns!RiskLayer(w, review)
             answered == Dns!OwnershipLayer(w, review)
             risk == Dns!Layer(layer)
             owners == Dns!Layer(answered)
             queue == report.review_queue
             all(layers, assess, respond) ==
               [layers |-> layers, risk_assessed |-> assess, team_responded |-> respond]
  <1>1. /\ review # Refused /\ layer # Refused
        /\ report = [review |-> review, risk_review |-> layer, ownership_review |-> answered,
                     review_queue |-> Dns!BuildQueue(review, risk, owners)]
    BY DEF Dns!ReviewLogs, Dns!LayersOf, Dns!Layered
  <1>2. found = {h \in w.allowed : Diverges(w, h)}
    BY <1>1, ReviewFinds
  <1>3. found \subseteq Nat /\ IsFiniteSet(found)
    <2> DEFINE named == {w.after[n].host : n \in 1..Len(w.after)}
    <2>1. Len(w.after) \in Nat /\ DOMAIN w.after = 1..Len(w.after) /\ named \subseteq Nat
      BY LogsRead
    <2>2. \A h : Diverges(w, h) => h \in named
      BY <2>1 DEF Diverges, Usable, NewestOf, Scoped
    <2>3. IsFiniteSet(named)
      <3> DEFINE host == [n \in 1..Len(w.after) |-> w.after[n].host]
      <3>1. host \in Surjection(1..Len(w.after), named)
        BY Fun_IsSurj
      <3>2. IsFiniteSet(1..Len(w.after))
        BY <2>1, FS_Interval
      <3> HIDE DEF named, host
      <3> QED  BY <3>1, <3>2, FS_Surjection
    <2>4. found \in SUBSET named
      BY <1>2, <2>2
    <2> QED  BY <2>1, <2>3, <2>4, FS_Subset
  <1>4. /\ \A h \in DOMAIN risk : risk[h] \in Int
        /\ \A h \in found : h \in DOMAIN risk <=> Assessed(w, h)
    BY <1>1, LayerAssesses
  <1> HIDE DEF review, layer, answered
  <1> HIDE DEF risk, owners, found
  <1>5. queue = Dns!BuildQueue(review, risk, owners)
    BY <1>1
  <1>6. /\ Len(queue) = Cardinality(found) /\ Len(queue) \in Nat /\ DOMAIN queue = 1..Len(queue)
        /\ {queue[n].host : n \in DOMAIN queue} = found
        /\ \A m, n \in DOMAIN queue : m < n => Dns!Order[queue[m].band] <= Dns!Order[queue[n].band]
        /\ \A n \in DOMAIN queue : /\ queue[n].band = Dns!BandOf(risk, queue[n].host)
                                   /\ queue[n].next = Dns!NextReview(risk, owners, queue[n].host)
    BY <1>3, <1>4, <1>5, QueueOrdered DEF found
  <1> HIDE DEF queue
  <1>7. \A n \in DOMAIN queue : queue[n].host \in found
    BY <1>6
  <1>8. \A n \in DOMAIN queue : queue[n].band # "unassessed" <=> Assessed(w, queue[n].host)
    <2>1. \A h : Dns!BandOf(risk, h) # "unassessed" <=> h \in DOMAIN risk
      BY BandValues DEF Dns!BandOf
    <2> QED  BY <1>4, <1>6, <1>7, <2>1
  <1>9. Dns!VerifyWorkflow(report, w, None)
    BY RebuiltAsReported DEF Dns!VerifyWorkflow
  <1>10. report.risk_review = layer /\ report.ownership_review = answered /\ report.review = review
    BY <1>1
  <1>11. ASSUME NEW layers \in SUBSET {"risk_review", "ownership_review"}, NEW assess \in BOOLEAN,
                NEW respond \in BOOLEAN, Dns!VerifyWorkflow(report, w, all(layers, assess, respond))
         PROVE  Dns!RequirementsMet(all(layers, assess, respond), report)
    <2>1. None # all(layers, assess, respond)
      BY WorkflowAssumption
    <2> QED  BY <1>11, <2>1 DEF Dns!VerifyWorkflow
  <1>12. ASSUME Dns!VerifyWorkflow(report, w, all({"risk_review"}, TRUE, FALSE)), NEW n \in DOMAIN queue
         PROVE  queue[n].next # "supply_assessment_facts"
    <2>1. Dns!RequirementsMet(all({"risk_review"}, TRUE, FALSE), report)
      BY <1>11, <1>12
    <2>2. DOMAIN risk = found
      BY <1>10, <2>1 DEF Dns!RequirementsMet, risk, found
    <2> QED  BY <1>6, <1>7, <2>2 DEF Dns!NextReview
  <1>13. ASSUME Dns!VerifyWorkflow(report, w, all({"ownership_review"}, FALSE, TRUE)), NEW n \in DOMAIN queue
         PROVE  queue[n].next # "request_team_response"
    <2>1. Dns!RequirementsMet(all({"ownership_review"}, FALSE, TRUE), report)
      BY <1>11, <1>13
    <2>2. DOMAIN owners = found
      BY <1>10, <2>1 DEF Dns!RequirementsMet, owners, found
    <2> QED  BY <1>6, <1>7, <2>2 DEF Dns!NextReview
  <1>14. {queue[n].host : n \in DOMAIN queue} = {h \in w.allowed : Diverges(w, h)}
    BY <1>2, <1>6
  <1>15. Cardinality({queue[n].host : n \in DOMAIN queue}) = Len(queue)
    BY <1>6
  <1> QED  BY <1>6, <1>8, <1>9, <1>12, <1>13, <1>14, <1>15 DEF KeepsFindings, queue

------------------------------------------------------------------------------
(* The case of several files and its largest bursts (CloudTrailCase)       *)

LEMMA CaseCardinality == ASSUME NEW S PROVE CloudTrail!Cardinality(S) = Cardinality(S)
  BY DEF CloudTrail!Cardinality, Cardinality

LEMMA CaseArranged == ASSUME NEW S, NEW before PROVE CloudTrail!Arranged(S, before) = Arranged(S, before)
  BY DEF CloudTrail!Arranged, Arranged, CloudTrail!Cardinality, Cardinality

\* Events of which no two have one ID
Unique(events) ==
    /\ Len(events) \in Nat /\ DOMAIN events = 1..Len(events)
    /\ \A i \in 1..Len(events) : events[i].time \in Nat /\ events[i].id \in Nat /\ events[i].id # None
    /\ \A i, j \in 1..Len(events) : events[i].id = events[j].id => i = j

Ranged(events) == {events[i] : i \in 1..Len(events)}

\* The failed sign-ins of one key, by time and then ID
Failed(all, key) == {e \in all : CloudTrail!FailedLogin(e) /\ CloudTrail!KeyOf(e) = key}

FailedOrder(all, key) ==
    {p \in Failed(all, key) \X Failed(all, key) :
       p[1].time < p[2].time \/ (p[1].time = p[2].time /\ p[1].id < p[2].id)}

\* They are sorted the same wherever they stand.
LEMMA FailuresArranged ==
    ASSUME NEW events, Unique(events), NEW key
    PROVE  LET all == Ranged(events)
           IN  /\ IsFiniteSet(Failed(all, key))
               /\ CloudTrail!Failures(events, key) = Arranged(Failed(all, key), FailedOrder(all, key))
  <1> DEFINE all == Ranged(events)
             F == Failed(all, key)
             I == {i \in DOMAIN events : CloudTrail!FailedLogin(events[i]) /\ CloudTrail!KeyOf(events[i]) = key}
             before == {p \in I \X I : CloudTrail!Before(events, p[1], p[2])}
             s == Arranged(I, before)
             n == Cardinality(I)
             T == [k \in 1..n |-> events[s[k]]]
             under(x) == {y \in F : <<y, x>> \in FailedOrder(all, key)}
  <1>1. I \in SUBSET (1..Len(events)) /\ IsFiniteSet(I)
    <2>1. I \in SUBSET (1..Len(events)) /\ IsFiniteSet(1..Len(events))
      BY FS_Interval DEF Unique
    <2> HIDE DEF I
    <2> QED  BY <2>1, FS_Subset
  <1>2. \A i, j \in I : <<i, j>> \in before <=>
           \/ events[i].time < events[j].time
           \/ events[i].time = events[j].time /\ events[i].id < events[j].id
    <2>1. \A i \in I : events[i].id # None /\ events[i].id \in Nat
      BY <1>1 DEF Unique
    <2>2. \A i, j \in I : events[i].id = events[j].id => i = j
      BY <1>1 DEF Unique
    <2>3. \A i \in I : i \in Int
      BY <1>1
    <2> HIDE DEF I
    <2> QED  BY <2>1, <2>2, <2>3 DEF CloudTrail!Before
  <1>3. TotalOrder(I, before)
    <2>1. \A i \in I : events[i].time \in Nat /\ events[i].id \in Nat
      BY <1>1 DEF Unique
    <2>2. \A i, j \in I : events[i].id = events[j].id => i = j
      BY <1>1 DEF Unique
    <2> HIDE DEF I, before
    <2> QED  BY <1>2, <2>1, <2>2 DEF TotalOrder
  <1>4. /\ n \in Nat /\ s \in [1..n -> I]
        /\ \A k, l \in 1..n : <<s[k], s[l]>> \in before <=> k < l
        /\ \A k, l \in 1..n : s[k] = s[l] => k = l
        /\ \A i \in I : \E k \in 1..n : s[k] = i
    <2> HIDE DEF I, before
    <2> QED  BY <1>1, <1>3, ArrangedInOrder
  <1>5. CloudTrail!Failures(events, key) = T
    <2>1. CloudTrail!Failures(events, key) = [k \in DOMAIN s |-> events[s[k]]]
      BY CaseArranged DEF CloudTrail!Failures
    <2> HIDE DEF s
    <2> QED  BY <1>4, <2>1
  <1> HIDE DEF s
  <1>6. /\ \A i \in I : events[i] \in F
        /\ \A e \in F : \E i \in I : e = events[i]
    BY <1>1 DEF Failed, Ranged, Unique
  <1>7. \A i, j \in I : <<events[i], events[j]>> \in FailedOrder(all, key) <=> <<i, j>> \in before
    <2> HIDE DEF I, before, all
    <2> QED  BY <1>2, <1>6 DEF FailedOrder
  <1>8. \A i, j \in I : events[i] = events[j] => i = j
    BY <1>1 DEF Unique
  <1> HIDE DEF I, before, n, F, all
  <1>9. /\ T \in [1..n -> F] /\ \A k, l \in 1..n : T[k] = T[l] => k = l
        /\ \A e \in F : \E k \in 1..n : T[k] = e
        /\ \A k, l \in 1..n : <<T[k], T[l]>> \in FailedOrder(all, key) <=> k < l
    <2>1. \A k \in 1..n : s[k] \in I /\ T[k] = events[s[k]]
      BY <1>4
    <2>2. \A e \in F : \E k \in 1..n : T[k] = e
      <3> SUFFICES ASSUME NEW e \in F PROVE \E k \in 1..n : T[k] = e
        OBVIOUS
      <3>1. PICK i \in I : e = events[i]
        BY <1>6
      <3>2. PICK k \in 1..n : s[k] = i
        BY <1>4
      <3> QED  BY <2>1, <3>1, <3>2
    <2>3. T \in [1..n -> F]
      BY <1>6, <2>1
    <2>4. \A k, l \in 1..n : T[k] = T[l] => k = l
      BY <1>4, <1>8, <2>1
    <2>5. \A k, l \in 1..n : <<T[k], T[l]>> \in FailedOrder(all, key) <=> k < l
      BY <1>4, <1>7, <2>1
    <2> QED  BY <2>2, <2>3, <2>4, <2>5
  <1> HIDE DEF T
  <1>10. IsFiniteSet(F) /\ Cardinality(F) = n
    <2>1. IsFiniteSet(1..n) /\ Cardinality(1..n) = n
      BY <1>4, FS_Interval
    <2>2. T \in Surjection(1..n, F)
      BY <1>9, Fun_IsSurj
    <2>3. T \in Injection(1..n, F)
      BY <1>9, Fun_IsInj
    <2>4. IsFiniteSet(F) /\ Cardinality(F) <= n
      BY <2>1, <2>2, FS_Surjection
    <2>5. n <= Cardinality(F)
      BY <2>1, <2>3, <2>4, FS_Injection
    <2>6. Cardinality(F) \in Nat
      BY <2>4, FS_CardinalityType
    <2> QED  BY <1>4, <2>4, <2>5, <2>6
  <1>11. ASSUME NEW k \in 1..n PROVE Cardinality(under(T[k])) = k - 1
    <2>1. under(T[k]) = Between(T, 1, k - 1)
      <3>1. \A l \in 1..n : T[l] \in under(T[k]) <=> l \in 1..(k - 1)
        BY <1>9
      <3>2. \A e \in under(T[k]) : \E l \in 1..n : T[l] = e
        BY <1>9
      <3>3. \A l \in 1..(k - 1) : l \in 1..n
        BY <1>4
      <3> QED  BY <3>1, <3>2, <3>3 DEF Between
    <2>2. 1 \in 1..n /\ k - 1 \in 0..n /\ 1 <= (k - 1) + 1
      BY <1>4
    <2>3. Cardinality(Between(T, 1, k - 1)) = (k - 1) - 1 + 1
      BY <1>4, <1>9, <2>2, BetweenCount
    <2>4. (k - 1) - 1 + 1 = k - 1
      BY <1>4
    <2> HIDE DEF under
    <2> QED  BY <2>1, <2>3, <2>4
  <1>12. ASSUME NEW k \in 1..n PROVE T[k] = CHOOSE e \in F : Cardinality(under(e)) = k - 1
    <2>1. ASSUME NEW e \in F, Cardinality(under(e)) = k - 1 PROVE e = T[k]
      <3>1. PICK l \in 1..n : T[l] = e
        BY <1>9
      <3>2. l - 1 = k - 1
        BY <1>11, <2>1, <3>1
      <3> QED  BY <1>4, <3>1, <3>2
    <2>2. T[k] \in F /\ Cardinality(under(T[k])) = k - 1
      BY <1>9, <1>11
    <2> HIDE DEF under
    <2> QED  BY <2>1, <2>2
  <1>13. Arranged(F, FailedOrder(all, key)) = [k \in 1..n |-> CHOOSE e \in F : Cardinality(under(e)) = k - 1]
    BY <1>10 DEF Arranged
  <1>14. T = [k \in 1..n |-> CHOOSE e \in F : Cardinality(under(e)) = k - 1]
    <2> HIDE DEF under
    <2> QED  BY <1>9, <1>12
  <1> QED  BY <1>5, <1>10, <1>13, <1>14 DEF F, all

Times(failures) == [n \in 1..Len(failures) |-> failures[n].time]

\* The failures that are too old leave the deque: what is left is what the window holds.
LEMMA ExpiredHolds ==
    ASSUME NEW failures, NEW ts, Timed(ts), ts = Times(failures), Len(failures) = Len(ts), NEW window \in Nat,
           NEW n \in 1..Len(ts), NEW left \in 1..n,
           \A k \in 1..(left - 1) : ts[n] - ts[k] > window
    PROVE  Holds(ts, window, n, CloudTrail!Expired(failures, left, n, window))
  <1> DEFINE T == {l \in left..n : ts[n] - ts[l] <= window}
             good(l) == /\ l \in left..n /\ ts[n] - ts[l] <= window
                        /\ \A k \in left..(l - 1) : ts[n] - ts[k] > window
             x == CloudTrail!Expired(failures, left, n, window)
  <1>1. /\ ts[n] \in Int /\ \A l \in 1..n : ts[l] \in Int /\ ts[l] = failures[l].time
        /\ Len(ts) \in Nat
    <2>2. Len(ts) \in Nat /\ \A l \in 1..Len(ts) : ts[l] \in Int
      BY DEF Timed
    <2>3. \A l \in 1..Len(failures) : ts[l] = failures[l].time
      BY DEF Times
    <2> QED  BY <2>2, <2>3
  <1>2. T \subseteq Nat /\ n \in T
    BY <1>1
  <1>3. PICK l \in T : \A k \in T : l <= k
    BY <1>2, LeastNat
  <1>4. good(l)
    BY <1>1, <1>3
  <1>5. good(x)
    <2>1. x = CHOOSE y \in left..n : /\ failures[n].time - failures[y].time <= window
                                     /\ \A k \in left..(y - 1) : failures[n].time - failures[k].time > window
      BY DEF CloudTrail!Expired
    <2>2. \A k \in left..n : failures[n].time - failures[k].time = ts[n] - ts[k]
      BY <1>1
    <2>3. \E y \in left..n : /\ failures[n].time - failures[y].time <= window
                             /\ \A k \in left..(y - 1) : failures[n].time - failures[k].time > window
      BY <1>4, <2>2
    <2>4. /\ x \in left..n /\ failures[n].time - failures[x].time <= window
          /\ \A k \in left..(x - 1) : failures[n].time - failures[k].time > window
      BY <2>1, <2>3
    <2> QED  BY <2>2, <2>4
  <1> QED  BY <1>1, <1>5 DEF Holds

\* The best burst so far is the widest that is large enough.
LargestSoFar(ts, window, threshold, n, best) ==
    /\ best = [left |-> best.left, first |-> best.first, last |-> best.last]
    /\ best.left \in 1..(n + 1) /\ best.last \in 0..n
    /\ n = 0 => best.left = 1
    /\ n > 0 => Holds(ts, window, n, best.left)
    /\ best.last = 0 => \A m \in 1..n : \A l : Holds(ts, window, m, l) => m - l + 1 < threshold
    /\ best.last # 0 =>
         /\ Holds(ts, window, best.last, best.first) /\ best.last - best.first + 1 >= threshold
         /\ \A m \in 1..n : \A l : Holds(ts, window, m, l) => m - l <= best.last - best.first

LEMMA ExtendKeepsLargest ==
    ASSUME NEW failures, NEW ts, Timed(ts), ts = Times(failures), Len(failures) = Len(ts), NEW window \in Nat, NEW threshold \in Nat,
           NEW n \in 1..Len(ts), NEW best,
           LargestSoFar(ts, window, threshold, n - 1, best)
    PROVE  LargestSoFar(ts, window, threshold, n, CloudTrail!Extend(failures, best, n, threshold, window))
  <1> DEFINE left == CloudTrail!Expired(failures, best.left, n, window)
             new == CloudTrail!Extend(failures, best, n, threshold, window)
  <1>1. Holds(ts, window, n, left)
    <2>1. best.left \in 1..n
      BY DEF LargestSoFar, Timed
    <2>2. ASSUME NEW k \in 1..(best.left - 1) PROVE ts[n] - ts[k] > window
      <3>1. n > 1 /\ ts[n - 1] - ts[k] > window
        BY <2>1 DEF LargestSoFar, Holds
      <3>2. /\ k \in 1..Len(ts) /\ n - 1 \in 1..Len(ts)
            /\ {ts[n], ts[n - 1], ts[k]} \subseteq Int /\ ts[n - 1] <= ts[n]
        BY <2>1, <3>1 DEF Timed
      <3> QED  BY <3>1, <3>2
    <2> QED  BY <2>1, <2>2, ExpiredHolds
  <1> HIDE DEF left
  <1>2. new = IF n - left + 1 >= threshold /\ (best.last = 0 \/ n - left + 1 > best.last - best.first + 1)
                THEN [left |-> left, first |-> left, last |-> n]
                ELSE [left |-> left, first |-> best.first, last |-> best.last]
    BY DEF CloudTrail!Extend, left, LargestSoFar
  <1>3. left \in 1..n
    BY <1>1 DEF Holds
  <1>4. \A l : Holds(ts, window, n, l) => l = left
    BY <1>1, HoldsOne
  <1>5. n \in Nat /\ n > 0 /\ best.last \in 0..(n - 1)
    BY DEF LargestSoFar, Timed
  <1>6. \A m \in 1..n : \A l : Holds(ts, window, m, l) => l \in Int /\ l >= 1
    BY DEF Holds
  <1>7. best.last # 0 =>
          /\ best.first \in 1..best.last
          /\ Holds(ts, window, best.last, best.first) /\ best.last - best.first + 1 >= threshold
          /\ \A m \in 1..(n - 1) : \A l : Holds(ts, window, m, l) => m - l <= best.last - best.first
    BY <1>5 DEF LargestSoFar, Holds
  <1>8. best.last = 0 => \A m \in 1..(n - 1) : \A l : Holds(ts, window, m, l) => m - l + 1 < threshold
    BY DEF LargestSoFar
  <1>9. CASE n - left + 1 >= threshold /\ (best.last = 0 \/ n - left + 1 > best.last - best.first + 1)
    <2>1. new = [left |-> left, first |-> left, last |-> n]
      BY <1>2, <1>9
    <2>2. ASSUME NEW m \in 1..n, NEW l, Holds(ts, window, m, l) PROVE m - l <= n - left
      <3>1. CASE m = n
        BY <1>3, <1>4, <2>2, <3>1
      <3>2. CASE m # n
        <4>1. m \in 1..(n - 1) /\ l \in Int
          BY <1>6, <2>2, <3>2
        <4> QED  BY <1>3, <1>5, <1>7, <1>8, <1>9, <2>2, <4>1
      <3> QED  BY <3>1, <3>2
    <2> QED  BY <1>1, <1>3, <1>5, <1>9, <2>1, <2>2 DEF LargestSoFar
  <1>10. CASE ~ (n - left + 1 >= threshold /\ (best.last = 0 \/ n - left + 1 > best.last - best.first + 1))
    <2>1. new = [left |-> left, first |-> best.first, last |-> best.last]
      BY <1>2, <1>10
    <2>2. ASSUME NEW m \in 1..n, NEW l, Holds(ts, window, m, l)
          PROVE  /\ best.last = 0 => m - l + 1 < threshold
                 /\ best.last # 0 => m - l <= best.last - best.first
      <3>1. CASE m = n
        BY <1>3, <1>4, <1>5, <1>7, <1>10, <2>2, <3>1
      <3>2. CASE m # n
        <4>1. m \in 1..(n - 1) /\ l \in Int
          BY <1>6, <2>2, <3>2
        <4> QED  BY <1>7, <1>8, <2>2, <4>1
      <3> QED  BY <3>1, <3>2
    <2> QED  BY <1>1, <1>3, <1>5, <1>7, <2>1, <2>2 DEF LargestSoFar
  <1> QED  BY <1>9, <1>10

LEMMA CaseScanRuns ==
    ASSUME NEW failures, Len(failures) \in Nat, NEW threshold, NEW window
    PROVE  \E scan : /\ CloudTrail!Scan(failures, threshold, window) = scan[Len(failures)]
                     /\ scan[0] = [left |-> 1, first |-> 1, last |-> 0]
                     /\ \A n \in 1..Len(failures) :
                          scan[n] = CloudTrail!Extend(failures, scan[n - 1], n, threshold, window)
  <1> DEFINE N == Len(failures)
             start == [left |-> 1, first |-> 1, last |-> 0]
             step(n, x) == CloudTrail!Extend(failures, x, n, threshold, window)
             upTo(m, f) == f = [n \in 0..m |-> IF n = 0 THEN start ELSE step(n, f[n - 1])]
             S == {m \in Nat : m <= N => \E f : upTo(m, f)}
  <1> HIDE DEF step, start
  <1>1. 0 \in S
    <2>1. upTo(0, [n \in 0..0 |-> start])
      OBVIOUS
    <2> QED  BY <2>1
  <1>2. ASSUME NEW m \in Nat, m \in S PROVE m + 1 \in S
    <2> SUFFICES ASSUME m + 1 <= N PROVE \E f : upTo(m + 1, f)
      OBVIOUS
    <2>1. PICK f : upTo(m, f)
      BY <1>2
    <2> DEFINE g == [n \in 0..(m + 1) |-> IF n = m + 1 THEN step(m + 1, f[m]) ELSE f[n]]
    <2>2. ASSUME NEW n \in 0..(m + 1) PROVE g[n] = IF n = 0 THEN start ELSE step(n, g[n - 1])
      <3>1. CASE n = m + 1
        BY <3>1
      <3>2. CASE n \in 0..m
        <4>1. f[n] = IF n = 0 THEN start ELSE step(n, f[n - 1])
          BY <2>1, <3>2
        <4>2. g[n] = f[n] /\ (n # 0 => g[n - 1] = f[n - 1])
          BY <3>2
        <4> QED  BY <4>1, <4>2
      <3> QED  BY <3>1, <3>2
    <2>3. upTo(m + 1, g)
      BY <2>2
    <2> QED  BY <2>3
  <1> HIDE DEF S
  <1>3. N \in S
    BY <1>1, <1>2, InductiveSet
  <1> DEFINE scan == CHOOSE f : upTo(N, f)
  <1>4. upTo(N, scan)
    BY <1>3 DEF S
  <1>5. CloudTrail!Scan(failures, threshold, window) = scan[N]
    BY DEF CloudTrail!Scan, start, step
  <1> HIDE DEF scan
  <1>6. scan[0] = start /\ \A n \in 1..N : scan[n] = step(n, scan[n - 1])
    BY <1>4
  <1> QED  BY <1>5, <1>6 DEF start, step

LEMMA CaseScanFindsLargest ==
    ASSUME NEW failures, NEW ts, Timed(ts), ts = Times(failures), Len(failures) = Len(ts),
           NEW window \in Nat, NEW threshold \in Nat
    PROVE  LargestSoFar(ts, window, threshold, Len(ts), CloudTrail!Scan(failures, threshold, window))
  <1>1. Len(ts) \in Nat
    BY DEF Timed
  <1>2. PICK scan : /\ CloudTrail!Scan(failures, threshold, window) = scan[Len(ts)]
                    /\ scan[0] = [left |-> 1, first |-> 1, last |-> 0]
                    /\ \A n \in 1..Len(ts) :
                         scan[n] = CloudTrail!Extend(failures, scan[n - 1], n, threshold, window)
    BY <1>1, CaseScanRuns, SMTT(60)
  <1> DEFINE S == {n \in Nat : n <= Len(ts) => LargestSoFar(ts, window, threshold, n, scan[n])}
  <1>3. 0 \in S
    BY <1>2 DEF LargestSoFar
  <1>4. ASSUME NEW n \in Nat, n \in S PROVE n + 1 \in S
    <2> SUFFICES ASSUME n + 1 <= Len(ts) PROVE LargestSoFar(ts, window, threshold, n + 1, scan[n + 1])
      OBVIOUS
    <2>1. n + 1 \in 1..Len(ts) /\ (n + 1) - 1 = n /\ LargestSoFar(ts, window, threshold, n, scan[n])
      BY <1>1, <1>4
    <2>2. LargestSoFar(ts, window, threshold, n + 1, CloudTrail!Extend(failures, scan[n], n + 1, threshold, window))
      BY <2>1, ExtendKeepsLargest
    <2> QED  BY <1>2, <2>1, <2>2
  <1> HIDE DEF S
  <1>5. Len(ts) \in S
    BY <1>1, <1>3, <1>4, InductiveSet
  <1> QED  BY <1>1, <1>2, <1>5 DEF S

\* Events that their IDs tell apart
Apiece(all) ==
    /\ \A e \in all : e.time \in Nat /\ e.id \in Nat /\ e.id # None
    /\ \A e, f \in all : e.id = f.id => e = f

\* A function on the first n positive numbers is a sequence of length n.
LEMMA SequenceOf == ASSUME NEW n \in Nat, NEW S, NEW s \in [1..n -> S] PROVE s \in Seq(S) /\ Len(s) = n
  <1>1. s \in Seq(S)
    BY SeqDef
  <1>2. Len(s) \in Nat /\ 1..Len(s) = 1..n
    BY <1>1, LenProperties
  <1>3. \A k \in Nat : k \in 1..Len(s) <=> k \in 1..n
    BY <1>2
  <1>4. (n # 0 => n <= Len(s)) /\ (Len(s) # 0 => Len(s) <= n)
    BY <1>2, <1>3
  <1> QED  BY <1>1, <1>2, <1>4

SignIns(all, key) == Arranged(Failed(all, key), FailedOrder(all, key))

LEMMA SignInsSorted ==
    ASSUME NEW all, Apiece(all), NEW key, IsFiniteSet(Failed(all, key))
    PROVE  LET s == SignIns(all, key)
               n == Cardinality(Failed(all, key))
               ts == Times(s)
           IN  /\ n \in Nat /\ s \in [1..n -> Failed(all, key)]
               /\ \A k, l \in 1..n : s[k] = s[l] => k = l
               /\ \A e \in Failed(all, key) : \E k \in 1..n : s[k] = e
               /\ Len(s) = n /\ Len(ts) = n /\ Timed(ts)
               /\ \A k \in 1..n : ts[k] = s[k].time
  <1> DEFINE F == Failed(all, key)
             before == FailedOrder(all, key)
             s == SignIns(all, key)
             n == Cardinality(F)
             ts == Times(s)
  <1>1. s = Arranged(F, before) /\ IsFiniteSet(F)
    BY DEF SignIns
  <1>2. \A e \in F : e.time \in Nat /\ e.id \in Nat
    BY DEF Apiece, Failed
  <1>3. \A e, f \in F : e.id = f.id => e = f
    BY DEF Apiece, Failed
  <1>4. \A e, f \in F : <<e, f>> \in before <=> e.time < f.time \/ (e.time = f.time /\ e.id < f.id)
    BY DEF FailedOrder
  <1> HIDE DEF F, before
  <1>5. TotalOrder(F, before)
    BY <1>2, <1>3, <1>4 DEF TotalOrder
  <1>6. /\ n \in Nat /\ s \in [1..n -> F]
        /\ \A k, l \in 1..n : <<s[k], s[l]>> \in before <=> k < l
        /\ \A k, l \in 1..n : s[k] = s[l] => k = l
        /\ \A e \in F : \E k \in 1..n : s[k] = e
    BY <1>1, <1>5, ArrangedInOrder
  <1> HIDE DEF s, n
  <1>7. Len(s) = n
    BY <1>6, SequenceOf
  <1>8. ts \in [1..n -> Nat] /\ \A k \in 1..n : ts[k] = s[k].time
    <2>1. ts = [k \in 1..n |-> s[k].time]
      BY <1>7 DEF Times
    <2>2. \A k \in 1..n : s[k].time \in Nat
      BY <1>2, <1>6
    <2> QED  BY <2>1, <2>2
  <1> HIDE DEF ts
  <1>9. Len(ts) = n
    BY <1>6, <1>8, SequenceOf
  <1>10. \A k, l \in 1..n : k <= l => ts[k] <= ts[l]
    <2> SUFFICES ASSUME NEW k \in 1..n, NEW l \in 1..n, k < l PROVE ts[k] <= ts[l]
      BY <1>8
    <2>1. <<s[k], s[l]>> \in before /\ s[k] \in F /\ s[l] \in F
      BY <1>6
    <2>2. s[k].time <= s[l].time
      BY <1>2, <1>4, <2>1
    <2> QED  BY <1>8, <2>2
  <1>11. Timed(ts)
    BY <1>6, <1>8, <1>9, <1>10 DEF Timed
  <1> QED  BY <1>6, <1>7, <1>8, <1>9, <1>11 DEF F, s, n, ts

\* The failed sign-ins of the key within the window up to that of e
Burst(all, key, window, e) == {x \in Failed(all, key) : x.time \in (e.time - window)..e.time}

\* The scan finds a burst of the key iff one is large enough, and then the largest one.
LEMMA BurstFound ==
    ASSUME NEW all, Apiece(all), NEW key, IsFiniteSet(Failed(all, key)),
           NEW threshold \in Nat, NEW window \in Nat
    PROVE  LET s == SignIns(all, key)
               best == CloudTrail!Scan(s, threshold, window)
               claim == CloudTrail!Claim(s, key, best)
           IN  /\ best.last # 0 <=> \E e \in Failed(all, key) : Cardinality(Burst(all, key, window, e)) >= threshold
               /\ best.last # 0 =>
                    /\ claim.count = Cardinality(claim.ids)
                    /\ \A e \in Failed(all, key) : Cardinality(Burst(all, key, window, e)) <= claim.count
  <1> DEFINE F == Failed(all, key)
             s == SignIns(all, key)
             n == Cardinality(F)
             ts == Times(s)
             best == CloudTrail!Scan(s, threshold, window)
             claim == CloudTrail!Claim(s, key, best)
             burst(e) == Burst(all, key, window, e)
  <1>1. /\ n \in Nat /\ s \in [1..n -> F]
        /\ \A k, l \in 1..n : s[k] = s[l] => k = l
        /\ \A e \in F : \E k \in 1..n : s[k] = e
        /\ Len(s) = n /\ Len(ts) = n /\ Timed(ts)
        /\ \A k \in 1..n : ts[k] = s[k].time
    BY SMTT(40), SignInsSorted
  <1>2. LargestSoFar(ts, window, threshold, n, best)
    BY <1>1, CaseScanFindsLargest
  <1>3. /\ \A e \in F : e.time \in Nat /\ e.id \in Nat /\ e.id # None
        /\ \A e, f \in F : e.id = f.id => e = f
    BY DEF Apiece, Failed
  <1>4. \A e : burst(e) = {x \in F : x.time \in (e.time - window)..e.time}
    BY DEF Burst
  <1>5. IsFiniteSet(F)
    OBVIOUS
  <1>6. /\ claim.count = best.last - best.first + 1
        /\ claim.ids = {s[k].id : k \in best.first..best.last} \ {None}
    BY DEF CloudTrail!Claim
  <1>1a. n \in Nat /\ \A k, l \in 1..n : s[k] = s[l] => k = l
    BY <1>1
  <1> HIDE DEF s, ts, best, F, n, claim, burst
  <1>7. ASSUME NEW e \in F
        PROVE  \E m \in 1..n : \E l : /\ Holds(ts, window, m, l) /\ l \in 1..m
                                      /\ Cardinality(burst(e)) = m - l + 1
    <2>1. PICK k \in 1..n : s[k] = e
      BY <1>1
    <2>2. PICK m \in k..n : \E l \in 1..m :
             /\ Holds(ts, window, m, l) /\ ts[m] = ts[k]
             /\ \A j \in 1..n : ts[j] \in (ts[k] - window)..ts[k] <=> j \in l..m
      BY <1>1, WindowIsInterval
    <2>3. PICK l \in 1..m :
             /\ Holds(ts, window, m, l) /\ ts[m] = ts[k]
             /\ \A j \in 1..n : ts[j] \in (ts[k] - window)..ts[k] <=> j \in l..m
      BY <2>2
    <2>4. m \in 1..n /\ l \in 1..n /\ m \in 0..n /\ l <= m + 1
      BY <1>1
    <2>5. burst(e) = Between(s, l, m)
      <3>1. \A j \in l..m : j \in 1..n
        BY <1>1, <2>4
      <3>2. \A j \in 1..n : s[j] \in burst(e) <=> j \in l..m
        BY <1>1, <1>4, <2>1, <2>3
      <3>3. \A x \in burst(e) : \E j \in 1..n : s[j] = x
        BY <1>1, <1>4
      <3> QED  BY <3>1, <3>2, <3>3 DEF Between
    <2>6. Cardinality(burst(e)) = m - l + 1
      <3>1. Cardinality(Between(s, l, m)) = m - l + 1
        BY ONLY <1>1a, <2>4, BetweenCount
      <3> QED  BY <2>5, <3>1
    <2> QED  BY <2>3, <2>4, <2>6
  <1>8. ASSUME best.last # 0
        PROVE  /\ best.last \in 1..n /\ best.first \in 1..best.last
               /\ Holds(ts, window, best.last, best.first) /\ best.last - best.first + 1 >= threshold
               /\ \A m \in 1..n : \A l : Holds(ts, window, m, l) => m - l <= best.last - best.first
    BY <1>1, <1>2, <1>8 DEF LargestSoFar, Holds
  <1>9. ASSUME best.last = 0, NEW e \in F PROVE Cardinality(burst(e)) < threshold
    <2>1. PICK m \in 1..n : \E l : /\ Holds(ts, window, m, l) /\ l \in 1..m
                                   /\ Cardinality(burst(e)) = m - l + 1
      BY <1>7
    <2> QED  BY <1>2, <1>9, <2>1 DEF LargestSoFar
  <1>10. ASSUME best.last # 0, NEW e \in F
         PROVE  Cardinality(burst(e)) <= best.last - best.first + 1
    <2>1. PICK m \in 1..n : \E l : /\ Holds(ts, window, m, l) /\ l \in 1..m
                                   /\ Cardinality(burst(e)) = m - l + 1
      BY <1>7
    <2>2. PICK l \in 1..m : Holds(ts, window, m, l) /\ Cardinality(burst(e)) = m - l + 1
      BY <2>1
    <2>3. m - l <= best.last - best.first
      BY <1>8, <1>10, <2>2
    <2>4. {m, l, best.last, best.first} \subseteq Int
      BY <1>8, <1>10
    <2> QED  BY <2>2, <2>3, <2>4
  <1>11. ASSUME best.last # 0
         PROVE  \E e \in F : Cardinality(burst(e)) >= threshold
    <2> DEFINE a == best.first
               b == best.last
               e == s[b]
    <2>1. b \in 1..n /\ a \in 1..b /\ Holds(ts, window, b, a) /\ b - a + 1 >= threshold
      BY <1>8, <1>11
    <2> HIDE DEF a, b
    <2>2. e \in F /\ a \in 1..n /\ b \in 0..n /\ a <= b + 1
      BY <1>1, <2>1
    <2>3. Between(s, a, b) \subseteq burst(e)
      <3> SUFFICES ASSUME NEW k \in a..b PROVE s[k] \in F /\ s[k].time \in (e.time - window)..e.time
        BY <1>4 DEF Between
      <3>1. k \in 1..n
        BY <1>1, <2>1
      <3>2. ts[a] <= ts[k] /\ ts[k] <= ts[b] /\ {ts[a], ts[b], ts[k]} \subseteq Int
        BY <1>1, <2>1, <2>2, <3>1 DEF Timed
      <3>3. ts[b] - ts[a] <= window
        BY <2>1 DEF Holds
      <3> QED  BY <1>1, <2>1, <3>1, <3>2, <3>3
    <2>4. IsFiniteSet(burst(e))
      <3>1. burst(e) \in SUBSET F
        BY <1>4
      <3> QED  BY <1>5, <3>1, FS_Subset
    <2>5. Cardinality(Between(s, a, b)) = b - a + 1
      BY ONLY <1>1a, <2>2, BetweenCount
    <2>6. Cardinality(Between(s, a, b)) <= Cardinality(burst(e))
      <3>1. Between(s, a, b) \in SUBSET burst(e)
        BY <2>3
      <3> QED  BY <2>4, <3>1, FS_Subset
    <2>7. Cardinality(burst(e)) \in Nat
      BY <2>4, FS_CardinalityType
    <2>8. Cardinality(burst(e)) >= threshold
      BY <1>1, <2>1, <2>5, <2>6, <2>7
    <2> QED  BY <2>2, <2>8
  <1>12. ASSUME best.last # 0
         PROVE  claim.count = Cardinality(claim.ids)
    <2> DEFINE a == best.first
               b == best.last
               ids == [k \in 1..n |-> s[k].id]
    <2>1. b \in 1..n /\ a \in 1..b /\ a \in 1..n /\ b \in 0..n /\ a <= b + 1
      BY <1>1, <1>8, <1>12
    <2>2. \A k, l \in 1..n : ids[k] = ids[l] => k = l
      BY <1>1, <1>3
    <2>3. claim.ids = Between(ids, a, b)
      <3>1. \A k \in a..b : k \in 1..n
        BY <1>1, <2>1
      <3>2. \A k \in a..b : ids[k] = s[k].id /\ s[k].id # None
        BY <1>1, <1>3, <3>1
      <3> QED  BY <1>6, <3>2 DEF Between
    <2> HIDE DEF ids, a, b
    <2>4. Cardinality(Between(ids, a, b)) = b - a + 1
      BY ONLY <1>1a, <2>1, <2>2, BetweenCount
    <2> QED  BY <1>6, <2>3, <2>4 DEF a, b
  <1>13. (best.last # 0 <=> \E e \in F : Cardinality(burst(e)) >= threshold)
    <2>1. ASSUME NEW e \in F PROVE Cardinality(burst(e)) \in Int
      <3>1. PICK m \in 1..n : \E l \in 1..m : Cardinality(burst(e)) = m - l + 1
        BY <1>7
      <3> QED  BY <3>1
    <2> QED  BY <1>9, <1>11, <2>1
  <1> QED  BY <1>6, <1>10, <1>12, <1>13 DEF F, s, best, claim, burst

KeysOf(all) == {CloudTrail!KeyOf(e) : e \in all}

\* What the case claims of its events
ClaimsFrom(all, threshold, window) ==
    {CloudTrail!Claim(SignIns(all, key), key, CloudTrail!Scan(SignIns(all, key), threshold, window)) :
       key \in {k \in KeysOf(all) : CloudTrail!Scan(SignIns(all, k), threshold, window).last # 0}}

LEMMA CandidatesAreClaims ==
    ASSUME NEW events, Unique(events), NEW threshold, NEW window
    PROVE  CloudTrail!Candidates(events, threshold, window) = ClaimsFrom(Ranged(events), threshold, window)
  <1> DEFINE all == Ranged(events)
             keys == {CloudTrail!KeyOf(events[i]) : i \in DOMAIN events}
             best(key) == CloudTrail!Scan(CloudTrail!Failures(events, key), threshold, window)
             other(key) == CloudTrail!Scan(SignIns(all, key), threshold, window)
  <1>1. keys = KeysOf(all)
    BY DEF Unique, Ranged, KeysOf
  <1>2. \A key : CloudTrail!Failures(events, key) = SignIns(all, key)
    BY FailuresArranged DEF SignIns
  <1>3. CloudTrail!Candidates(events, threshold, window) =
          {CloudTrail!Claim(CloudTrail!Failures(events, key), key, best(key)) : key \in {k \in keys : best(k).last # 0}}
    BY DEF CloudTrail!Candidates
  <1>4. ClaimsFrom(all, threshold, window) =
          {CloudTrail!Claim(SignIns(all, key), key, other(key)) : key \in {k \in keys : other(k).last # 0}}
    BY <1>1 DEF ClaimsFrom
  <1> QED  BY <1>2, <1>3, <1>4

\* The claims are of the largest bursts, and of the keys that have one.
LEMMA ClaimsAreLargest ==
    ASSUME NEW all, Apiece(all), IsFiniteSet(all), NEW threshold \in Nat, NEW window \in Nat
    PROVE  LET claims == ClaimsFrom(all, threshold, window)
           IN  /\ {c.key : c \in claims} =
                    {k \in KeysOf(all) : \E e \in Failed(all, k) : Cardinality(Burst(all, k, window, e)) >= threshold}
               /\ \A c \in claims : \A e \in Failed(all, c.key) :
                    Cardinality(Burst(all, c.key, window, e)) <= c.count /\ c.count = Cardinality(c.ids)
  <1> DEFINE best(k) == CloudTrail!Scan(SignIns(all, k), threshold, window)
             claim(k) == CloudTrail!Claim(SignIns(all, k), k, best(k))
             found == {k \in KeysOf(all) : best(k).last # 0}
             claims == ClaimsFrom(all, threshold, window)
             large(k) == \E e \in Failed(all, k) : Cardinality(Burst(all, k, window, e)) >= threshold
  <1>1. claims = {claim(k) : k \in found}
    BY DEF ClaimsFrom
  <1>2. \A k : claim(k).key = k
    BY DEF CloudTrail!Claim
  <1>3. ASSUME NEW k PROVE IsFiniteSet(Failed(all, k))
    <2>1. Failed(all, k) \in SUBSET all
      BY DEF Failed
    <2> QED  BY <2>1, FS_Subset
  <1>4. ASSUME NEW k
        PROVE  /\ best(k).last # 0 <=> large(k)
               /\ best(k).last # 0 =>
                    /\ claim(k).count = Cardinality(claim(k).ids)
                    /\ \A e \in Failed(all, k) : Cardinality(Burst(all, k, window, e)) <= claim(k).count
    BY <1>3, BurstFound
  <1> HIDE DEF best, claim, large, claims
  <1>5. {c.key : c \in claims} = {k \in KeysOf(all) : large(k)}
    BY <1>1, <1>2, <1>4
  <1>6. \A c \in claims : \A e \in Failed(all, c.key) :
          Cardinality(Burst(all, c.key, window, e)) <= c.count /\ c.count = Cardinality(c.ids)
    BY <1>1, <1>2, <1>4
  <1> QED  BY <1>5, <1>6 DEF claims, large

\* Files as they have been read, the places of their records, and the records
Files(files) ==
    /\ Len(files) \in Nat /\ DOMAIN files = 1..Len(files)
    /\ \A f \in 1..Len(files) : Len(files[f]) \in Nat /\ DOMAIN files[f] = 1..Len(files[f])

Places(files) == UNION {{[input |-> f, record |-> r] : r \in DOMAIN files[f]} : f \in DOMAIN files}
At(files, p) == files[p.input][p.record]
Records(files) == {At(files, p) : p \in Places(files)}

LEMMA PlacesAre ==
    ASSUME NEW files, Files(files)
    PROVE  /\ \A p \in Places(files) : /\ p = [input |-> p.input, record |-> p.record]
                                       /\ p.input \in 1..Len(files) /\ p.record \in 1..Len(files[p.input])
           /\ \A f \in 1..Len(files) : \A r \in 1..Len(files[f]) :
                [input |-> f, record |-> r] \in Places(files)
  <1>1. Len(files) \in Nat /\ DOMAIN files = 1..Len(files)
        /\ \A f \in 1..Len(files) : DOMAIN files[f] = 1..Len(files[f])
    BY DEF Files
  <1>2. ASSUME NEW p \in Places(files)
        PROVE  /\ p = [input |-> p.input, record |-> p.record]
               /\ p.input \in 1..Len(files) /\ p.record \in 1..Len(files[p.input])
    <2>1. PICK f \in DOMAIN files : p \in {[input |-> f, record |-> r] : r \in DOMAIN files[f]}
      BY DEF Places
    <2>2. PICK r \in DOMAIN files[f] : p = [input |-> f, record |-> r]
      BY <2>1
    <2> QED  BY <1>1, <2>2
  <1>3. ASSUME NEW f \in 1..Len(files), NEW r \in 1..Len(files[f])
        PROVE  [input |-> f, record |-> r] \in Places(files)
    <2>1. f \in DOMAIN files /\ r \in DOMAIN files[f]
      BY <1>1
    <2> DEFINE of(g) == {[input |-> g, record |-> x] : x \in DOMAIN files[g]}
    <2>2. [input |-> f, record |-> r] \in of(f)
      BY <2>1
    <2> HIDE DEF of
    <2>3. Places(files) = UNION {of(g) : g \in DOMAIN files}
      BY DEF Places, of
    <2> QED  BY <2>1, <2>2, <2>3
  <1> QED  BY <1>2, <1>3

\* The collection holds the records at the places P, each as one event, and every copy of it.
Held(files, P, c) ==
    /\ c.events \in Seq(Records(files)) /\ c.sources \in Seq(Seq(P)) /\ Len(c.sources) = Len(c.events)
    /\ \A i, j \in 1..Len(c.events) : c.events[i].id = c.events[j].id => i = j
    /\ \A p \in P : \E i \in 1..Len(c.events) : \E k \in 1..Len(c.sources[i]) : c.sources[i][k] = p
    /\ \A i \in 1..Len(c.events) :
         /\ Len(c.sources[i]) > 0
         /\ \A k \in 1..Len(c.sources[i]) : At(files, c.sources[i][k]) = c.events[i]

Formed(c) ==
    /\ c.refused \in BOOLEAN
    /\ c = [refused |-> c.refused, events |-> c.events, sources |-> c.sources]

Collecting(files, P, c) == Formed(c) /\ (~ c.refused => Held(files, P, c))

\* No two of the records have one ID and differ.
OneEach(files) == \A e, f \in Records(files) : e.id = f.id => e = f

LEMMA CaseFields ==
    ASSUME NEW c, Formed(c)
    PROVE  /\ [c EXCEPT !.refused = TRUE] = [refused |-> TRUE, events |-> c.events, sources |-> c.sources]
           /\ \A Y : [c EXCEPT !.sources = Y] = [refused |-> c.refused, events |-> c.events, sources |-> Y]
           /\ \A Y, Z : [c EXCEPT !.events = Y, !.sources = Z] = [refused |-> c.refused, events |-> Y, sources |-> Z]
  <1> DEFINE fields == {"refused", "events", "sources"}
  <1>1. ASSUME NEW d, DOMAIN d = fields, d = [x \in DOMAIN d |-> d[x]]
        PROVE  d = [refused |-> d.refused, events |-> d.events, sources |-> d.sources]
    BY <1>1
  <1>2. c = [refused |-> c.refused, events |-> c.events, sources |-> c.sources]
    BY DEF Formed
  <1>3. [c EXCEPT !.refused = TRUE] = [refused |-> TRUE, events |-> c.events, sources |-> c.sources]
    <2> DEFINE d == [c EXCEPT !.refused = TRUE]
    <2>1. d.refused = TRUE /\ d.events = c.events /\ d.sources = c.sources
      BY <1>2
    <2>2. DOMAIN d = fields /\ d = [x \in DOMAIN d |-> d[x]]
      BY <1>2
    <2> HIDE DEF d
    <2>3. d = [refused |-> TRUE, events |-> c.events, sources |-> c.sources]
      BY <1>1, <2>1, <2>2
    <2> QED  BY <2>3 DEF d
  <1>4. ASSUME NEW Y PROVE [c EXCEPT !.sources = Y] = [refused |-> c.refused, events |-> c.events, sources |-> Y]
    <2> DEFINE d == [c EXCEPT !.sources = Y]
    <2>1. d.refused = c.refused /\ d.events = c.events /\ d.sources = Y
      BY <1>2
    <2>2. DOMAIN d = fields /\ d = [x \in DOMAIN d |-> d[x]]
      BY <1>2
    <2> HIDE DEF d
    <2>3. d = [refused |-> c.refused, events |-> c.events, sources |-> Y]
      BY <1>1, <2>1, <2>2
    <2> QED  BY <2>3 DEF d
  <1>5. ASSUME NEW Y, NEW Z
        PROVE  [c EXCEPT !.events = Y, !.sources = Z] = [refused |-> c.refused, events |-> Y, sources |-> Z]
    <2> DEFINE d == [c EXCEPT !.events = Y, !.sources = Z]
    <2>1. d.refused = c.refused /\ d.events = Y /\ d.sources = Z
      BY <1>2
    <2>2. DOMAIN d = fields /\ d = [x \in DOMAIN d |-> d[x]]
      BY <1>2
    <2> HIDE DEF d
    <2>3. d = [refused |-> c.refused, events |-> Y, sources |-> Z]
      BY <1>1, <2>1, <2>2
    <2> QED  BY <2>3 DEF d
  <1> QED  BY <1>3, <1>4, <1>5

LEMMA CollectKeeps ==
    ASSUME NEW files, Files(files), NEW P, NEW c, Collecting(files, P, c), P \subseteq Places(files),
           NEW f \in 1..Len(files), NEW r \in 1..Len(files[f])
    PROVE  LET new == CloudTrail!Collect(c, files[f], f, r)
           IN  /\ Collecting(files, P \cup {[input |-> f, record |-> r]}, new)
               /\ c.refused => new.refused
               /\ OneEach(files) /\ ~ c.refused => ~ new.refused
  <1> DEFINE e == files[f][r]
             p == [input |-> f, record |-> r]
             Q == P \cup {p}
             known == {i \in DOMAIN c.events : c.events[i].id = e.id}
             k == CHOOSE i \in known : TRUE
             new == CloudTrail!Collect(c, files[f], f, r)
  <1>1. Formed(c)
    BY DEF Collecting
  <1>2. new = IF known = {}
                THEN [refused |-> c.refused, events |-> Append(c.events, e), sources |-> Append(c.sources, <<p>>)]
              ELSE IF c.events[k] # e
                THEN [refused |-> TRUE, events |-> c.events, sources |-> c.sources]
              ELSE [refused |-> c.refused, events |-> c.events,
                    sources |-> [c.sources EXCEPT ![k] = Append(@, p)]]
    <2> DEFINE E2 == Append(c.events, e)
               X2 == Append(c.sources, <<p>>)
               Y == [c.sources EXCEPT ![k] = Append(@, p)]
    <2>1. new = IF known = {} THEN [c EXCEPT !.events = E2, !.sources = X2]
                ELSE IF c.events[k] # e THEN [c EXCEPT !.refused = TRUE]
                ELSE [c EXCEPT !.sources = Y]
      BY DEF CloudTrail!Collect
    <2> HIDE DEF known, k, e, p, new, E2, X2, Y
    <2>2. /\ [c EXCEPT !.refused = TRUE] = [refused |-> TRUE, events |-> c.events, sources |-> c.sources]
          /\ [c EXCEPT !.sources = Y] = [refused |-> c.refused, events |-> c.events, sources |-> Y]
          /\ [c EXCEPT !.events = E2, !.sources = X2] = [refused |-> c.refused, events |-> E2, sources |-> X2]
      BY <1>1, CaseFields
    <2> QED  BY <2>1, <2>2 DEF E2, X2, Y
  <1>3. Formed(new) /\ (c.refused => new.refused)
    <2> DEFINE a == Append(c.events, e)
               x == Append(c.sources, <<p>>)
               y == [c.sources EXCEPT ![k] = Append(@, p)]
    <2>1. c.refused \in BOOLEAN
      BY <1>1 DEF Formed
    <2>2. \/ new = [refused |-> c.refused, events |-> a, sources |-> x]
          \/ new = [refused |-> TRUE, events |-> c.events, sources |-> c.sources]
          \/ new = [refused |-> c.refused, events |-> c.events, sources |-> y]
      BY <1>2
    <2> HIDE DEF a, x, y, new
    <2>3. ASSUME NEW b \in BOOLEAN, NEW v, NEW w, new = [refused |-> b, events |-> v, sources |-> w]
          PROVE  Formed(new) /\ new.refused = b
      BY <2>3 DEF Formed
    <2> QED  BY <2>1, <2>2, <2>3
  <1>4. p \in Places(files) /\ At(files, p) = e /\ e \in Records(files)
    BY PlacesAre DEF At, Records
  <1> HIDE DEF e, p, new
  <1>3a. ASSUME ~ c.refused => /\ ~ new.refused => Held(files, Q, new)
                               /\ new.refused => ~ OneEach(files)
         PROVE  /\ Collecting(files, Q, new)
                /\ c.refused => new.refused
                /\ OneEach(files) /\ ~ c.refused => ~ new.refused
    BY <1>3, <1>3a DEF Collecting
  <1>5. CASE c.refused
    BY <1>3a, <1>5 DEF p, new
  <1>6. CASE ~ c.refused
    <2> DEFINE E == c.events
               X == c.sources
               n == Len(E)
               V == Records(files)
    <2>1. /\ E \in Seq(V) /\ X \in Seq(Seq(P)) /\ Len(X) = n
          /\ \A i, j \in 1..n : E[i].id = E[j].id => i = j
          /\ \A q \in P : \E i \in 1..n : \E m \in 1..Len(X[i]) : X[i][m] = q
          /\ \A i \in 1..n : /\ Len(X[i]) > 0
                             /\ \A m \in 1..Len(X[i]) : At(files, X[i][m]) = E[i]
      BY <1>6 DEF Collecting, Held
    <2>2. /\ n \in Nat /\ DOMAIN E = 1..n /\ DOMAIN X = 1..n
          /\ \A i \in 1..n : E[i] \in V /\ X[i] \in Seq(P)
      BY <2>1, LenProperties, ElementOfSeq
    <2>3. \A i \in 1..n : X[i] \in Seq(Q) /\ Len(X[i]) \in Nat
      <3> SUFFICES ASSUME NEW i \in 1..n PROVE X[i] \in Seq(Q) /\ Len(X[i]) \in Nat
        OBVIOUS
      <3>1. X[i] \in Seq(P)
        BY <2>2
      <3> QED  BY <3>1, SeqDef, LenProperties
    <2>4. X \in Seq(Seq(Q))
      <3>1. X \in [1..n -> Seq(Q)]
        <4>1. X = [i \in 1..n |-> X[i]]
          BY <2>1, <2>2, SeqDef
        <4> QED  BY <2>3, <4>1
      <3> HIDE DEF X, Q, n
      <3> QED  BY <2>2, <3>1, SequenceOf
    <2>5. CASE known = {}
      <3>1. new = [refused |-> c.refused, events |-> Append(E, e), sources |-> Append(X, <<p>>)]
        BY <1>2, <2>5
      <3> DEFINE E2 == Append(E, e)
                 X2 == Append(X, <<p>>)
      <3>2. /\ E2 \in Seq(V) /\ Len(E2) = n + 1 /\ E2[n + 1] = e
            /\ \A i \in 1..n : E2[i] = E[i]
        BY <1>4, <2>1, AppendProperties
      <3>3. <<p>> \in Seq(Q) /\ Len(<<p>>) = 1 /\ <<p>>[1] = p
        OBVIOUS
      <3>4. /\ X2 \in Seq(Seq(Q)) /\ Len(X2) = n + 1 /\ X2[n + 1] = <<p>>
            /\ \A i \in 1..n : X2[i] = X[i]
        BY <2>1, <2>4, <3>3, AppendProperties
      <3>5. \A i \in 1..n : E[i].id # e.id
        BY <2>2, <2>5
      <3> HIDE DEF E2, X2, E, X, n, V, Q
      <3>6. \A i \in 1..(n + 1) : i \in 1..n \/ i = n + 1
        BY <2>2
      <3>7. \A i, j \in 1..(n + 1) : E2[i].id = E2[j].id => i = j
        <4>1. \A i, j \in 1..n : E[i].id = E[j].id => i = j
          BY <2>1
        <4>2. \A i \in 1..n : E2[i].id = E[i].id /\ E2[n + 1].id = e.id
          BY <3>2
        <4> QED  BY <3>5, <3>6, <4>1, <4>2
      <3>8. \A q \in Q : \E i \in 1..(n + 1) : \E m \in 1..Len(X2[i]) : X2[i][m] = q
        <4> SUFFICES ASSUME NEW q \in Q PROVE \E i \in 1..(n + 1) : \E m \in 1..Len(X2[i]) : X2[i][m] = q
          OBVIOUS
        <4>1. CASE q = p
          BY <2>2, <3>3, <3>4, <4>1
        <4>2. CASE q \in P
          <5>1. PICK i \in 1..n : \E m \in 1..Len(X[i]) : X[i][m] = q
            BY <2>1, <4>2
          <5>2. i \in 1..(n + 1) /\ X2[i] = X[i]
            BY <2>2, <3>4
          <5> QED  BY <5>1, <5>2
        <4> QED  BY <4>1, <4>2 DEF Q
      <3>9. \A i \in 1..(n + 1) : /\ Len(X2[i]) > 0
                                  /\ \A m \in 1..Len(X2[i]) : At(files, X2[i][m]) = E2[i]
        <4>1. \A m \in 1..1 : m = 1
          OBVIOUS
        <4>2. Len(X2[n + 1]) > 0 /\ \A m \in 1..Len(X2[n + 1]) : At(files, X2[n + 1][m]) = E2[n + 1]
          BY <1>4, <3>2, <3>3, <3>4, <4>1
        <4>3. \A i \in 1..n : Len(X[i]) > 0 /\ \A m \in 1..Len(X[i]) : At(files, X[i][m]) = E[i]
          BY <2>1
        <4>4. \A i \in 1..n : X2[i] = X[i] /\ E2[i] = E[i]
          BY <3>2, <3>4
        <4> QED  BY <3>6, <4>2, <4>3, <4>4
      <3>10. Held(files, Q, new) /\ ~ new.refused
        <4>1. new.events = E2 /\ new.sources = X2 /\ new.refused = c.refused
          BY <3>1 DEF E2, X2
        <4>2. new.events \in Seq(Records(files)) /\ new.sources \in Seq(Seq(Q))
          BY <3>2, <3>4, <4>1 DEF V
        <4>3. Len(new.events) = n + 1 /\ Len(new.sources) = n + 1
          BY <3>2, <3>4, <4>1
        <4> HIDE DEF new
        <4> QED  BY <1>6, <3>7, <3>8, <3>9, <4>1, <4>2, <4>3 DEF Held
      <3> QED  BY <1>3a, <3>10 DEF Q, p, new
    <2>6. CASE known # {}
      <3>1. k \in 1..n /\ E[k].id = e.id
        BY <2>2, <2>6
      <3> HIDE DEF known, k
      <3>2. CASE E[k] # e
        <4>1. new.refused
          BY <1>2, <2>6, <3>2
        <4>2. ~ OneEach(files)
          BY <1>4, <2>2, <3>1, <3>2 DEF OneEach
        <4> QED  BY <1>3a, <4>1, <4>2 DEF p, new
      <3>3. CASE E[k] = e
        <4> DEFINE X2 == [X EXCEPT ![k] = Append(@, p)]
        <4>1. new = [refused |-> c.refused, events |-> E, sources |-> X2]
          BY <1>2, <2>6, <3>3
        <4>2. /\ Append(X[k], p) \in Seq(Q) /\ Len(Append(X[k], p)) = Len(X[k]) + 1
              /\ Append(X[k], p)[Len(X[k]) + 1] = p
              /\ \A m \in 1..Len(X[k]) : Append(X[k], p)[m] = X[k][m]
          BY <2>3, <3>1, AppendProperties
        <4>3. /\ X2[k] = Append(X[k], p) /\ DOMAIN X2 = 1..n
              /\ \A i \in 1..n : i # k => X2[i] = X[i]
          BY <2>2, <3>1
        <4>4. X2 \in Seq(Seq(Q)) /\ Len(X2) = n
          <5>1. X2 \in [1..n -> Seq(Q)]
            BY <2>2, <2>3, <3>1, <4>2
          <5> HIDE DEF X2, Q, n
          <5> QED  BY <2>2, <5>1, SequenceOf
        <4> HIDE DEF E, X, X2, n, Q, V
        <4>5. \A q \in Q : \E i \in 1..n : \E m \in 1..Len(X2[i]) : X2[i][m] = q
          <5> SUFFICES ASSUME NEW q \in Q PROVE \E i \in 1..n : \E m \in 1..Len(X2[i]) : X2[i][m] = q
            OBVIOUS
          <5>1. CASE q = p
            <6>1. Len(X[k]) + 1 \in 1..Len(X2[k]) /\ X2[k][Len(X[k]) + 1] = p
              BY <2>3, <3>1, <4>2, <4>3
            <6> QED  BY <3>1, <5>1, <6>1
          <5>2. CASE q \in P
            <6>1. PICK i \in 1..n : \E m \in 1..Len(X[i]) : X[i][m] = q
              BY <2>1, <5>2
            <6>2. PICK m \in 1..Len(X[i]) : X[i][m] = q
              BY <6>1
            <6>3. m \in 1..Len(X2[i]) /\ X2[i][m] = q
              <7>1. CASE i = k
                BY <2>3, <4>2, <4>3, <6>2, <7>1, SMTT(60)
              <7>2. CASE i # k
                BY <4>3, <6>2, <7>2
              <7> QED  BY <7>1, <7>2
            <6> QED  BY <6>3
          <5> QED  BY <5>1, <5>2 DEF Q
        <4>6. \A i \in 1..n : Len(X2[i]) > 0 /\ \A m \in 1..Len(X2[i]) : At(files, X2[i][m]) = E[i]
          <5> SUFFICES ASSUME NEW i \in 1..n
                       PROVE  Len(X2[i]) > 0 /\ \A m \in 1..Len(X2[i]) : At(files, X2[i][m]) = E[i]
            OBVIOUS
          <5>1. CASE i = k
            <6>1. Len(X[k]) \in Nat /\ Len(X2[k]) = Len(X[k]) + 1
              BY <2>3, <3>1, <4>2, <4>3
            <6>2. ASSUME NEW m \in 1..Len(X2[k]) PROVE At(files, X2[k][m]) = E[k]
              <7>1. CASE m = Len(X[k]) + 1
                BY <1>4, <3>3, <4>2, <4>3, <7>1
              <7>2. CASE m \in 1..Len(X[k])
                BY <2>1, <3>1, <4>2, <4>3, <7>2
              <7> QED  BY <6>1, <7>1, <7>2
            <6> QED  BY <5>1, <6>1, <6>2
          <5>2. CASE i # k
            <6>1. X2[i] = X[i]
              BY <4>3, <5>2
            <6>2. Len(X[i]) > 0 /\ \A m \in 1..Len(X[i]) : At(files, X[i][m]) = E[i]
              BY <2>1
            <6> QED  BY <6>1, <6>2
          <5> QED  BY <5>1, <5>2
        <4>7. Held(files, Q, new) /\ ~ new.refused
          <5>1. new.events = E /\ new.sources = X2 /\ new.refused = c.refused
            BY <4>1
          <5>2. E \in Seq(V) /\ \A i, j \in 1..n : E[i].id = E[j].id => i = j
            BY <2>1
          <5>3. /\ new.events \in Seq(Records(files)) /\ new.sources \in Seq(Seq(Q))
                /\ Len(new.sources) = n /\ Len(new.events) = n
            BY <4>4, <5>1, <5>2 DEF V, n
          <5> QED  BY <1>6, <4>5, <4>6, <5>1, <5>2, <5>3 DEF Held
        <4> QED  BY <1>3a, <4>7 DEF Q, p, new
      <3> QED  BY <3>2, <3>3
    <2> QED  BY <2>5, <2>6
  <1> QED  BY <1>5, <1>6

FileRun(case, file, index, run) ==
    /\ CloudTrail!CollectFile(case, file, index) = run[Len(file)]
    /\ run[0] = case
    /\ \A r \in 1..Len(file) : run[r] = CloudTrail!Collect(run[r - 1], file, index, r)

LEMMA CollectFileRuns ==
    ASSUME NEW case, NEW file, NEW index, Len(file) \in Nat
    PROVE  \E run : FileRun(case, file, index, run)
  <1> DEFINE N == Len(file)
             step(x, n) == CloudTrail!Collect(x, file, index, n)
             upTo(m, f) == f = [n \in 0..m |-> IF n = 0 THEN case ELSE step(f[n - 1], n)]
             S == {m \in Nat : m <= N => \E f : upTo(m, f)}
  <1> HIDE DEF step
  <1>1. 0 \in S
    <2>1. upTo(0, [n \in 0..0 |-> case])
      OBVIOUS
    <2> QED  BY <2>1
  <1>2. ASSUME NEW m \in Nat, m \in S PROVE m + 1 \in S
    <2> SUFFICES ASSUME m + 1 <= N PROVE \E f : upTo(m + 1, f)
      OBVIOUS
    <2>1. PICK f : upTo(m, f)
      BY <1>2
    <2> DEFINE g == [n \in 0..(m + 1) |-> IF n = m + 1 THEN step(f[m], m + 1) ELSE f[n]]
    <2>2. ASSUME NEW n \in 0..(m + 1) PROVE g[n] = IF n = 0 THEN case ELSE step(g[n - 1], n)
      <3>1. CASE n = m + 1
        BY <3>1
      <3>2. CASE n \in 0..m
        <4>1. f[n] = IF n = 0 THEN case ELSE step(f[n - 1], n)
          BY <2>1, <3>2
        <4>2. g[n] = f[n] /\ (n # 0 => g[n - 1] = f[n - 1])
          BY <3>2
        <4> QED  BY <4>1, <4>2
      <3> QED  BY <3>1, <3>2
    <2>3. upTo(m + 1, g)
      BY <2>2
    <2> QED  BY <2>3
  <1> HIDE DEF S
  <1>3. N \in S
    BY <1>1, <1>2, InductiveSet
  <1> DEFINE run == CHOOSE f : upTo(N, f)
  <1>4. upTo(N, run)
    BY <1>3 DEF S
  <1>5. CloudTrail!CollectFile(case, file, index) = run[N]
    BY DEF CloudTrail!CollectFile, step
  <1> HIDE DEF run
  <1>6. run[0] = case /\ \A n \in 1..N : run[n] = step(run[n - 1], n)
    BY <1>4
  <1> QED  BY <1>5, <1>6 DEF step, FileRun

CollectionRun(files, account, run) ==
    /\ CloudTrail!Collected(files, account) = run[Len(files)]
    /\ run[0] = [refused |-> files = << >>, events |-> << >>, sources |-> << >>]
    /\ \A f \in 1..Len(files) :
         run[f] = IF run[f - 1].refused \/ ~ CloudTrail!FileAccepted(files[f], account)
                    THEN [run[f - 1] EXCEPT !.refused = TRUE]
                  ELSE CloudTrail!CollectFile(run[f - 1], files[f], f)

LEMMA CollectedRuns ==
    ASSUME NEW files, NEW account, Len(files) \in Nat
    PROVE  \E run : CollectionRun(files, account, run)
  <1> DEFINE N == Len(files)
             first == [refused |-> files = << >>, events |-> << >>, sources |-> << >>]
             step(x, n) == IF x.refused \/ ~ CloudTrail!FileAccepted(files[n], account)
                             THEN [x EXCEPT !.refused = TRUE]
                           ELSE CloudTrail!CollectFile(x, files[n], n)
             upTo(m, f) == f = [n \in 0..m |-> IF n = 0 THEN first ELSE step(f[n - 1], n)]
             S == {m \in Nat : m <= N => \E f : upTo(m, f)}
  <1> HIDE DEF step, first
  <1>1. 0 \in S
    <2>1. upTo(0, [n \in 0..0 |-> first])
      OBVIOUS
    <2> QED  BY <2>1
  <1>2. ASSUME NEW m \in Nat, m \in S PROVE m + 1 \in S
    <2> SUFFICES ASSUME m + 1 <= N PROVE \E f : upTo(m + 1, f)
      OBVIOUS
    <2>1. PICK f : upTo(m, f)
      BY <1>2
    <2> DEFINE g == [n \in 0..(m + 1) |-> IF n = m + 1 THEN step(f[m], m + 1) ELSE f[n]]
    <2>2. ASSUME NEW n \in 0..(m + 1) PROVE g[n] = IF n = 0 THEN first ELSE step(g[n - 1], n)
      <3>1. CASE n = m + 1
        BY <3>1
      <3>2. CASE n \in 0..m
        <4>1. f[n] = IF n = 0 THEN first ELSE step(f[n - 1], n)
          BY <2>1, <3>2
        <4>2. g[n] = f[n] /\ (n # 0 => g[n - 1] = f[n - 1])
          BY <3>2
        <4> QED  BY <4>1, <4>2
      <3> QED  BY <3>1, <3>2
    <2>3. upTo(m + 1, g)
      BY <2>2
    <2> QED  BY <2>3
  <1> HIDE DEF S
  <1>3. N \in S
    BY <1>1, <1>2, InductiveSet
  <1> DEFINE run == CHOOSE f : upTo(N, f)
  <1>4. upTo(N, run)
    BY <1>3 DEF S
  <1>5. CloudTrail!Collected(files, account) = run[N]
    BY DEF CloudTrail!Collected, first, step
  <1> HIDE DEF run
  <1>6. run[0] = first /\ \A n \in 1..N : run[n] = step(run[n - 1], n)
    BY <1>4
  <1> QED  BY <1>5, <1>6 DEF first, step, CollectionRun

\* The places up to record r of file f
Upto(files, f, r) == {p \in Places(files) : p.input < f \/ (p.input = f /\ p.record <= r)}

LEMMA UptoGrows ==
    ASSUME NEW files, Files(files), NEW f \in 1..Len(files)
    PROVE  /\ Upto(files, f, 0) = {p \in Places(files) : p.input < f}
           /\ Upto(files, f, Len(files[f])) = {p \in Places(files) : p.input < f + 1}
           /\ \A r \in 1..Len(files[f]) :
                Upto(files, f, r) = Upto(files, f, r - 1) \cup {[input |-> f, record |-> r]}
  <1>1. \A p \in Places(files) : /\ p = [input |-> p.input, record |-> p.record]
                                 /\ p.input \in 1..Len(files) /\ p.record \in 1..Len(files[p.input])
    BY PlacesAre
  <1>2. \A g \in 1..Len(files) : Len(files[g]) \in Nat
    BY DEF Files
  <1>3. Len(files) \in Nat
    BY DEF Files
  <1>4. Upto(files, f, 0) = {p \in Places(files) : p.input < f}
    BY <1>1, <1>2, <1>3 DEF Upto
  <1>5. Upto(files, f, Len(files[f])) = {p \in Places(files) : p.input < f + 1}
    BY <1>1, <1>2, <1>3 DEF Upto
  <1>6. ASSUME NEW r \in 1..Len(files[f])
        PROVE  Upto(files, f, r) = Upto(files, f, r - 1) \cup {[input |-> f, record |-> r]}
    <2> DEFINE p0 == [input |-> f, record |-> r]
    <2>1. p0 \in Places(files) /\ p0.input = f /\ p0.record = r
      BY PlacesAre
    <2>2. \A p \in Places(files) : p.input = f /\ p.record = r => p = p0
      BY <1>1
    <2> HIDE DEF p0
    <2>3. \A p \in Places(files) : /\ p.input \in Nat /\ (p.input = f => p.record \in Nat)
      BY <1>1, <1>2, <1>3
    <2>4. r \in Nat
      BY <1>2
    <2>5. Upto(files, f, r) = Upto(files, f, r - 1) \cup {p0}
      BY <2>1, <2>2, <2>3, <2>4 DEF Upto
    <2> QED  BY <2>5 DEF p0
  <1> QED  BY <1>4, <1>5, <1>6

LEMMA FileCollects ==
    ASSUME NEW files, Files(files), NEW f \in 1..Len(files), NEW c,
           Collecting(files, {p \in Places(files) : p.input < f}, c)
    PROVE  LET new == CloudTrail!CollectFile(c, files[f], f)
           IN  /\ Collecting(files, {p \in Places(files) : p.input < f + 1}, new)
               /\ c.refused => new.refused
               /\ OneEach(files) /\ ~ c.refused => ~ new.refused
  <1> DEFINE file == files[f]
             N == Len(file)
             new == CloudTrail!CollectFile(c, file, f)
             fine(r, x) == /\ Collecting(files, Upto(files, f, r), x)
                           /\ c.refused => x.refused
                           /\ OneEach(files) /\ ~ c.refused => ~ x.refused
  <1>1. N \in Nat
    BY DEF Files
  <1>2. PICK run : /\ new = run[N] /\ run[0] = c
                   /\ \A r \in 1..N : run[r] = CloudTrail!Collect(run[r - 1], file, f, r)
    <2>1. PICK run : FileRun(c, file, f, run)
      BY <1>1, CollectFileRuns
    <2> QED  BY <2>1 DEF FileRun
  <1> DEFINE S == {r \in Nat : r <= N => fine(r, run[r])}
  <1>3. 0 \in S
    <2>1. Upto(files, f, 0) = {p \in Places(files) : p.input < f}
      BY UptoGrows
    <2> QED  BY <1>2, <2>1
  <1>4. ASSUME NEW r \in Nat, r \in S PROVE r + 1 \in S
    <2> SUFFICES ASSUME r + 1 <= N PROVE fine(r + 1, run[r + 1])
      OBVIOUS
    <2>1. r + 1 \in 1..N /\ (r + 1) - 1 = r /\ fine(r, run[r])
      BY <1>1, <1>4
    <2>2. Upto(files, f, r + 1) = Upto(files, f, r) \cup {[input |-> f, record |-> r + 1]}
      BY <2>1, UptoGrows
    <2>3. run[r + 1] = CloudTrail!Collect(run[r], file, f, r + 1)
      BY <1>2, <2>1
    <2>4. Upto(files, f, r) \subseteq Places(files)
      BY DEF Upto
    <2> DEFINE x == run[r]
               y == CloudTrail!Collect(x, file, f, r + 1)
    <2>5. /\ Collecting(files, Upto(files, f, r) \cup {[input |-> f, record |-> r + 1]}, y)
          /\ x.refused => y.refused
          /\ OneEach(files) /\ ~ x.refused => ~ y.refused
      BY <2>1, <2>4, CollectKeeps
    <2> QED  BY <2>1, <2>2, <2>3, <2>5
  <1> HIDE DEF S
  <1>5. N \in S
    BY <1>1, <1>3, <1>4, InductiveSet
  <1>6. fine(N, new)
    BY <1>1, <1>2, <1>5 DEF S
  <1>7. Upto(files, f, N) = {p \in Places(files) : p.input < f + 1}
    BY UptoGrows
  <1> QED  BY <1>6, <1>7

\* A collection is refused unless there is a file, every file is accepted and the
\* copies of a record agree; it then holds all records.
Supplied(files, account) ==
    /\ files # << >> /\ OneEach(files)
    /\ \A f \in 1..Len(files) : CloudTrail!FileAccepted(files[f], account)

LEMMA CollectionHolds ==
    ASSUME NEW files, Files(files), NEW account
    PROVE  LET c == CloudTrail!Collected(files, account)
           IN  /\ Collecting(files, Places(files), c)
               /\ ~ c.refused <=> Supplied(files, account)
  <1> DEFINE N == Len(files)
             c == CloudTrail!Collected(files, account)
             P(f) == {p \in Places(files) : p.input < f + 1}
             accepted(f) == CloudTrail!FileAccepted(files[f], account)
             fine(f, x) == /\ Collecting(files, P(f), x)
                           /\ Supplied(files, account) => ~ x.refused
                           /\ ~ x.refused => files # << >> /\ \A g \in 1..f : accepted(g)
  <1>1. N \in Nat
    BY DEF Files
  <1>2. PICK run : /\ c = run[N]
                   /\ run[0] = [refused |-> files = << >>, events |-> << >>, sources |-> << >>]
                   /\ \A f \in 1..N :
                        run[f] = IF run[f - 1].refused \/ ~ accepted(f)
                                   THEN [run[f - 1] EXCEPT !.refused = TRUE]
                                 ELSE CloudTrail!CollectFile(run[f - 1], files[f], f)
    <2>1. PICK run : CollectionRun(files, account, run)
      BY <1>1, CollectedRuns
    <2> QED  BY <2>1 DEF CollectionRun
  <1> DEFINE S == {f \in Nat : f <= N => fine(f, run[f])}
  <1> HIDE DEF c
  <1>3. 0 \in S
    <2>1. P(0) = {}
      <3>1. \A p \in Places(files) : p.input \in 1..Len(files)
        BY PlacesAre
      <3> QED  BY <3>1
    <2>2. /\ run[0].refused = (files = << >>) /\ run[0].events = << >> /\ run[0].sources = << >>
          /\ run[0] = [refused |-> run[0].refused, events |-> run[0].events, sources |-> run[0].sources]
      BY <1>2
    <2>3. /\ << >> \in Seq(Records(files)) /\ << >> \in Seq(Seq({})) /\ Len(<< >>) = 0 /\ 1..0 = {}
      OBVIOUS
    <2>4. Held(files, {}, run[0])
      BY <2>2, <2>3 DEF Held
    <2>5. Formed(run[0])
      BY <2>2 DEF Formed
    <2>6. Supplied(files, account) => ~ run[0].refused
      BY <2>2 DEF Supplied
    <2>7. Collecting(files, P(0), run[0])
      BY <2>1, <2>4, <2>5 DEF Collecting
    <2>8. ~ run[0].refused => files # << >> /\ \A g \in 1..0 : accepted(g)
      <3>1. ~ run[0].refused => files # << >>
        BY <2>2
      <3>2. \A g \in 1..0 : accepted(g)
        OBVIOUS
      <3> QED  BY <3>1, <3>2
    <2> HIDE DEF P
    <2> QED  BY <2>6, <2>7, <2>8
  <1>4. ASSUME NEW n \in Nat, n \in S PROVE n + 1 \in S
    <2> SUFFICES ASSUME n + 1 <= N PROVE fine(n + 1, run[n + 1])
      OBVIOUS
    <2> DEFINE x == run[n]
               y == run[n + 1]
               f == n + 1
    <2>1. f \in 1..N /\ f - 1 = n /\ fine(n, x)
      BY <1>1, <1>4
    <2>2. y = IF x.refused \/ ~ accepted(f) THEN [x EXCEPT !.refused = TRUE]
              ELSE CloudTrail!CollectFile(x, files[f], f)
      BY <1>2, <2>1
    <2>3. \A g \in 1..f : g \in 1..n \/ g = f
      OBVIOUS
    <2> HIDE DEF x, y, accepted
    <2>4. CASE x.refused \/ ~ accepted(f)
      <3>1. Formed(x)
        BY <2>1 DEF Collecting
      <3>2. y = [refused |-> TRUE, events |-> x.events, sources |-> x.sources]
        BY <2>2, <2>4, <3>1, CaseFields
      <3>3. y.refused /\ Formed(y)
        BY <3>2 DEF Formed
      <3>4. ~ Supplied(files, account)
        BY <2>1, <2>4 DEF Supplied, accepted
      <3> QED  BY <3>3, <3>4 DEF Collecting, y
    <2>5. CASE ~ (x.refused \/ ~ accepted(f))
      <3>1. y = CloudTrail!CollectFile(x, files[f], f)
        BY <2>2, <2>5
      <3>2. Collecting(files, {p \in Places(files) : p.input < f}, x)
        BY <2>1
      <3>3. /\ Collecting(files, P(f), y)
            /\ OneEach(files) /\ ~ x.refused => ~ y.refused
        BY <2>1, <3>1, <3>2, FileCollects
      <3>4. Supplied(files, account) => ~ y.refused
        BY <2>5, <3>3 DEF Supplied
      <3>5. files # << >> /\ \A g \in 1..f : accepted(g)
        BY <2>1, <2>3, <2>5
      <3> HIDE DEF P
      <3> QED  BY <3>3, <3>4, <3>5 DEF y
    <2> QED  BY <2>4, <2>5
  <1> HIDE DEF S
  <1>5. N \in S
    BY <1>1, <1>3, <1>4, InductiveSet
  <1>6. fine(N, c)
    BY <1>1, <1>2, <1>5 DEF S
  <1>7. P(N) = Places(files)
    <2>1. \A p \in Places(files) : p.input \in 1..N
      BY PlacesAre
    <2> QED  BY <1>1, <2>1
  <1> HIDE DEF P
  <1>8. Collecting(files, Places(files), c)
    BY <1>6, <1>7
  <1>9. ASSUME ~ c.refused PROVE OneEach(files)
    <2>1. Held(files, Places(files), c)
      BY <1>8, <1>9 DEF Collecting
    <2>2. \A p \in Places(files) : \E i \in 1..Len(c.events) : At(files, p) = c.events[i]
      BY <2>1, SMTT(60) DEF Held
    <2>3. \A e \in Records(files) : \E i \in 1..Len(c.events) : e = c.events[i]
      BY <2>2 DEF Records
    <2>4. \A i, j \in 1..Len(c.events) : c.events[i].id = c.events[j].id => i = j
      BY <2>1 DEF Held
    <2> QED  BY <2>3, <2>4 DEF OneEach
  <1> QED  BY <1>6, <1>8, <1>9 DEF Supplied, c

FilesRead(files) ==
    /\ Files(files)
    /\ \A e \in Records(files) : e.time \in Nat /\ e.id \in Nat \cup {None}

\* The case holds the records and knows their places.
Holding(files, c) ==
    /\ Unique(c.events) /\ Ranged(c.events) = Records(files)
    /\ Apiece(Records(files)) /\ IsFiniteSet(Records(files))
    /\ CloudTrail!Range(c.events) = Records(files) /\ CloudTrail!IsInjective(c.events)
    /\ UNION {CloudTrail!Range(c.sources[i]) : i \in DOMAIN c.sources} = Places(files)
    /\ \A i \in DOMAIN c.events : \A p \in CloudTrail!Range(c.sources[i]) : At(files, p) = c.events[i]

LEMMA CollectedHolds ==
    ASSUME NEW files, FilesRead(files), NEW account, Supplied(files, account)
    PROVE  LET c == CloudTrail!Collected(files, account)
           IN  ~ c.refused /\ Holding(files, c)
  <1> DEFINE c == CloudTrail!Collected(files, account)
             E == c.events
             X == c.sources
             n == Len(E)
             U == Places(files)
             V == Records(files)
  <1>1. ~ c.refused /\ Held(files, U, c)
    BY CollectionHolds DEF FilesRead, Collecting
  <1>2. /\ E \in Seq(V) /\ X \in Seq(Seq(U)) /\ Len(X) = n
        /\ \A i, j \in 1..n : E[i].id = E[j].id => i = j
        /\ \A p \in U : \E i \in 1..n : \E k \in 1..Len(X[i]) : X[i][k] = p
        /\ \A i \in 1..n : /\ Len(X[i]) > 0
                           /\ \A k \in 1..Len(X[i]) : At(files, X[i][k]) = E[i]
    BY <1>1 DEF Held
  <1> HIDE DEF c
  <1>3. /\ n \in Nat /\ DOMAIN E = 1..n /\ DOMAIN X = 1..n
        /\ \A i \in 1..n : E[i] \in V /\ X[i] \in Seq(U)
    BY <1>2, LenProperties, ElementOfSeq
  <1>4. \A i \in 1..n : /\ Len(X[i]) \in Nat /\ DOMAIN X[i] = 1..Len(X[i])
                        /\ \A k \in 1..Len(X[i]) : X[i][k] \in U
    <2> SUFFICES ASSUME NEW i \in 1..n
                 PROVE  /\ Len(X[i]) \in Nat /\ DOMAIN X[i] = 1..Len(X[i])
                        /\ \A k \in 1..Len(X[i]) : X[i][k] \in U
      OBVIOUS
    <2>1. X[i] \in Seq(U)
      BY <1>3
    <2> HIDE DEF X
    <2> QED  BY <2>1, LenProperties, ElementOfSeq
  <1>5. \A e \in V : e.time \in Nat /\ e.id \in Nat /\ e.id # None
    <2> SUFFICES ASSUME NEW p \in U PROVE LET e == At(files, p) IN e.time \in Nat /\ e.id \in Nat /\ e.id # None
      BY DEF Records
    <2>1. p.input \in 1..Len(files) /\ p.record \in 1..Len(files[p.input])
      BY PlacesAre DEF FilesRead
    <2>2. CloudTrail!FileAccepted(files[p.input], account)
      BY <2>1 DEF Supplied
    <2>3. p.record \in DOMAIN files[p.input]
      BY <2>1 DEF FilesRead, Files
    <2>4. At(files, p).id # None
      BY <2>2, <2>3 DEF CloudTrail!FileAccepted, CloudTrail!ConvertAccepted, At
    <2>5. At(files, p) \in V
      BY DEF Records
    <2> QED  BY <2>4, <2>5 DEF FilesRead
  <1>6. Unique(E)
    BY <1>2, <1>3, <1>5 DEF Unique
  <1>7. ASSUME NEW p \in U PROVE \E i \in 1..n : At(files, p) = E[i]
    <2>1. PICK i \in 1..n : \E k \in 1..Len(X[i]) : X[i][k] = p
      BY <1>2
    <2>2. PICK k \in 1..Len(X[i]) : X[i][k] = p
      BY <2>1
    <2>3. At(files, X[i][k]) = E[i]
      BY <1>2
    <2> QED  BY <2>2, <2>3
  <1>8. Ranged(E) = V
    <2>1. \A e \in V : \E i \in 1..n : e = E[i]
      BY <1>7 DEF Records
    <2> HIDE DEF E, V, n
    <2> QED  BY <1>3, <2>1 DEF Ranged, n
  <1>9. Apiece(V)
    BY <1>5 DEF Apiece, Supplied, OneEach
  <1>10. CloudTrail!Range(E) = V
    BY <1>3, <1>8 DEF CloudTrail!Range, Ranged
  <1>11. CloudTrail!IsInjective(E)
    BY <1>2, <1>3 DEF CloudTrail!IsInjective
  <1>12. IsFiniteSet(V)
    <2> DEFINE f == [i \in 1..n |-> E[i]]
    <2>1. \A e \in V : \E i \in 1..n : e = E[i]
      BY <1>8 DEF Ranged
    <2> HIDE DEF E, V, n
    <2>2. f \in Surjection(1..n, V)
      <3>1. f \in [1..n -> V]
        BY <1>3
      <3>2. \A e \in V : \E i \in 1..n : f[i] = e
        BY <2>1
      <3> QED  BY <3>1, <3>2, Fun_IsSurj
    <2>3. IsFiniteSet(1..n)
      BY <1>3, FS_Interval
    <2> QED  BY <2>2, <2>3, FS_Surjection
  <1>13. \A i \in 1..n : CloudTrail!Range(X[i]) = {X[i][k] : k \in 1..Len(X[i])}
    BY <1>4 DEF CloudTrail!Range
  <1> HIDE DEF U, V, E, X, n
  <1>14. UNION {CloudTrail!Range(X[i]) : i \in DOMAIN X} = U
    <2>1. ASSUME NEW p \in U PROVE \E i \in 1..n : p \in CloudTrail!Range(X[i])
      <3>1. PICK i \in 1..n : \E k \in 1..Len(X[i]) : X[i][k] = p
        BY <1>2
      <3>2. CloudTrail!Range(X[i]) = {X[i][k] : k \in 1..Len(X[i])}
        BY <1>13
      <3>3. p \in {X[i][k] : k \in 1..Len(X[i])}
        BY <3>1
      <3> QED  BY <3>2, <3>3
    <2>2. ASSUME NEW i \in 1..n PROVE CloudTrail!Range(X[i]) \subseteq U
      <3>1. {X[i][k] : k \in 1..Len(X[i])} \subseteq U
        BY <1>4
      <3> QED  BY <1>13, <3>1
    <2> QED  BY <1>3, <2>1, <2>2
  <1>15. ASSUME NEW i \in 1..n PROVE \A p \in CloudTrail!Range(X[i]) : At(files, p) = E[i]
    <2>1. \A k \in 1..Len(X[i]) : At(files, X[i][k]) = E[i]
      BY <1>2
    <2> QED  BY <1>13, <2>1
  <1> QED  BY <1>1, <1>3, <1>6, <1>8, <1>9, <1>10, <1>11, <1>12, <1>14, <1>15 DEF Holding, U, V, E, X, c

\* The number of flagged lines is that of flagged events.
LEMMA FlaggedCount ==
    ASSUME NEW events, Unique(events)
    PROVE  CloudTrail!BuildHandoff(events).flagged =
             Cardinality({e \in Ranged(events) : CloudTrail!TriageEvent(e) # {}})
  <1> DEFINE I == {i \in DOMAIN events : CloudTrail!TriageEvent(events[i]) # {}}
             T == {e \in Ranged(events) : CloudTrail!TriageEvent(e) # {}}
             f == [i \in I |-> events[i]]
  <1>1. CloudTrail!BuildHandoff(events).flagged = Cardinality(I)
    BY CaseCardinality DEF CloudTrail!BuildHandoff
  <1>2. IsFiniteSet(I)
    <2>1. I \in SUBSET (1..Len(events)) /\ IsFiniteSet(1..Len(events))
      BY FS_Interval DEF Unique
    <2> HIDE DEF I
    <2> QED  BY <2>1, FS_Subset
  <1>3. f \in Bijection(I, T)
    <2>1. f \in [I -> T]
      BY DEF Ranged, Unique
    <2>2. \A i, j \in I : f[i] = f[j] => i = j
      BY DEF Unique
    <2>3. \A e \in T : \E i \in I : f[i] = e
      BY DEF Ranged, Unique
    <2> HIDE DEF f, I, T
    <2> QED  BY <2>1, <2>2, <2>3 DEF Bijection, Injection, Surjection, IsInjective
  <1> HIDE DEF f, I, T
  <1>4. Cardinality(T) = Cardinality(I)
    BY <1>2, <1>3, FS_Bijection DEF ExistsBijection
  <1> QED  BY <1>1, <1>4 DEF T

\* What a case tells is what its records tell.
Told(a) == <<CloudTrail!Range(a.events), {x.claim : x \in a.candidates}, a.handoff.flagged>>

TellsOf(all, threshold, window) ==
    <<all, ClaimsFrom(all, threshold, window), Cardinality({e \in all : CloudTrail!TriageEvent(e) # {}})>>

\* Every failed sign-in names its actor and its source.
Keyed(all) == \A e \in all : CloudTrail!FailedLogin(e) => None \notin {e.actor, e.source}

LEMMA KeyedEvents ==
    ASSUME NEW files, NEW collected, Holding(files, collected)
    PROVE  CloudTrail!KeyMissing(collected.events) <=> ~ Keyed(Records(files))
  <1>1. CloudTrail!Range(collected.events) = Records(files)
    BY DEF Holding
  <1>2. Records(files) = {collected.events[i] : i \in DOMAIN collected.events}
    BY <1>1 DEF CloudTrail!Range
  <1> QED  BY <1>2 DEF Keyed, CloudTrail!KeyMissing

LEMMA CaseTells ==
    ASSUME NEW files, FilesRead(files), NEW account, Supplied(files, account), Keyed(Records(files)),
           NEW threshold, NEW window, CloudTrail!SettingsAccepted(threshold, window)
    PROVE  LET c == CloudTrail!Collected(files, account)
               a == CloudTrail!BuildCase(files, account, threshold, window)
           IN  /\ a.events = c.events /\ a.sources = c.sources /\ Holding(files, c)
               /\ Told(a) = TellsOf(Records(files), threshold, window)
  <1> DEFINE c == CloudTrail!Collected(files, account)
             a == CloudTrail!BuildCase(files, account, threshold, window)
             lines(x) == {i \in DOMAIN c.events : c.events[i].id \in x.ids}
             found == CloudTrail!Candidates(c.events, threshold, window)
  <1>1. ~ c.refused /\ Holding(files, c)
    BY CollectedHolds
  <1>2. ~ CloudTrail!DuplicateFailure(c.events)
    BY <1>1 DEF Holding, Unique, CloudTrail!DuplicateFailure
  <1>3. a = CloudTrail!Case(files, c, threshold, window)
    BY <1>1, <1>2, KeyedEvents DEF CloudTrail!BuildCase
  <1>4. /\ a.events = c.events /\ a.sources = c.sources
        /\ a.handoff = CloudTrail!BuildHandoff(c.events)
        /\ a.candidates = {[claim |-> x, lines |-> lines(x)] : x \in found}
    BY <1>3 DEF CloudTrail!Case
  <1> HIDE DEF a, c, found, lines
  <1>5. {x.claim : x \in a.candidates} = found
    <2>1. ASSUME NEW x \in found PROVE \E y \in a.candidates : y.claim = x
      <3>1. [claim |-> x, lines |-> lines(x)] \in a.candidates
        BY <1>4
      <3> QED  BY <3>1
    <2>2. ASSUME NEW y \in a.candidates PROVE y.claim \in found
      <3>1. PICK x \in found : y = [claim |-> x, lines |-> lines(x)]
        BY <1>4
      <3> QED  BY <3>1
    <2> QED  BY <2>1, <2>2
  <1>6. found = ClaimsFrom(Records(files), threshold, window)
    BY <1>1, CandidatesAreClaims DEF Holding, found
  <1>7. a.handoff.flagged = Cardinality({e \in Records(files) : CloudTrail!TriageEvent(e) # {}})
    BY <1>1, <1>4, FlaggedCount DEF Holding
  <1>8. CloudTrail!Range(a.events) = Records(files)
    BY <1>1, <1>4 DEF Holding
  <1>9. Told(a) = TellsOf(Records(files), threshold, window)
    BY <1>5, <1>6, <1>7, <1>8 DEF Told, TellsOf
  <1> QED  BY <1>1, <1>4, <1>9 DEF a, c

\* Other files with the same ones among them supply the same records.
LEMMA SameFiles ==
    ASSUME NEW S, NEW files \in Seq(S), FilesRead(files), NEW other, Len(other) \in Nat, DOMAIN other = 1..Len(other),
           \A f \in 1..Len(files) : \E g \in 1..Len(other) : other[g] = files[f],
           \A g \in 1..Len(other) : \E f \in 1..Len(files) : other[g] = files[f],
           NEW account, Supplied(files, account)
    PROVE  FilesRead(other) /\ Records(other) = Records(files) /\ Supplied(other, account)
  <1>1. Files(files) /\ Files(other)
    BY DEF FilesRead, Files
  <1>2. ASSUME NEW e \in Records(files) PROVE e \in Records(other)
    <2>1. PICK p \in Places(files) : e = At(files, p)
      BY DEF Records
    <2>2. p.input \in 1..Len(files) /\ p.record \in 1..Len(files[p.input])
      BY <1>1, <2>1, PlacesAre
    <2>3. PICK g \in 1..Len(other) : other[g] = files[p.input]
      BY <2>2
    <2> DEFINE o == [input |-> g, record |-> p.record]
    <2>4. o \in Places(other)
      BY <1>1, <2>2, <2>3, PlacesAre
    <2>5. At(other, o) = e
      BY <2>1, <2>3 DEF At
    <2> QED  BY <2>4, <2>5 DEF Records
  <1>3. ASSUME NEW e \in Records(other) PROVE e \in Records(files)
    <2>1. PICK o \in Places(other) : e = At(other, o)
      BY DEF Records
    <2>2. o.input \in 1..Len(other) /\ o.record \in 1..Len(other[o.input])
      BY <1>1, <2>1, PlacesAre
    <2>3. PICK f \in 1..Len(files) : other[o.input] = files[f]
      BY <2>2
    <2> DEFINE p == [input |-> f, record |-> o.record]
    <2>4. p \in Places(files)
      BY <1>1, <2>2, <2>3, PlacesAre
    <2>5. At(files, p) = e
      BY <2>1, <2>3 DEF At
    <2> QED  BY <2>4, <2>5 DEF Records
  <1>4. Records(other) = Records(files)
    BY <1>2, <1>3
  <1>5. FilesRead(other)
    BY <1>1, <1>4 DEF FilesRead
  <1>6. other # << >>
    <2>1. Len(files) # 0
      BY EmptySeq DEF Supplied
    <2>2. 1 \in 1..Len(files)
      BY <1>1, <2>1 DEF Files
    <2>3. PICK g \in 1..Len(other) : other[g] = files[1]
      BY <2>2
    <2> QED  BY <2>3
  <1>7. \A g \in 1..Len(other) : CloudTrail!FileAccepted(other[g], account)
    BY DEF Supplied
  <1>8. OneEach(other)
    BY <1>4 DEF Supplied, OneEach
  <1> QED  BY <1>4, <1>5, <1>6, <1>7, <1>8 DEF Supplied

LEMMA ReversedFiles ==
    ASSUME NEW S, NEW files \in Seq(S), FilesRead(files), NEW account, Supplied(files, account)
    PROVE  LET other == Lists!Reverse(files)
           IN  FilesRead(other) /\ Records(other) = Records(files) /\ Supplied(other, account)
  <1> DEFINE n == Len(files)
             other == Lists!Reverse(files)
  <1>1. n \in Nat /\ DOMAIN files = 1..n
    BY DEF FilesRead, Files
  <1>2. other = [i \in 1..n |-> files[(n - i) + 1]]
    BY DEF Lists!Reverse
  <1> HIDE DEF n, other
  <1>3. \A i \in 1..n : (n - i) + 1 \in 1..n /\ (n - ((n - i) + 1)) + 1 = i
    BY <1>1
  <1>4. other \in [1..n -> {files[i] : i \in 1..n}]
    BY <1>2, <1>3
  <1>5. Len(other) = n
    BY <1>1, <1>4, SequenceOf
  <1>6. \A f \in 1..n : \E g \in 1..n : other[g] = files[f]
    <2> SUFFICES ASSUME NEW f \in 1..n PROVE \E g \in 1..n : other[g] = files[f]
      OBVIOUS
    <2>1. other[(n - f) + 1] = files[(n - ((n - f) + 1)) + 1] /\ (n - f) + 1 \in 1..n
      BY <1>2, <1>3
    <2> QED  BY <1>3, <2>1
  <1>7. \A g \in 1..n : \E f \in 1..n : other[g] = files[f]
    BY <1>2, <1>3
  <1>8. DOMAIN other = 1..n
    BY <1>2
  <1>9. FilesRead(other) /\ Records(other) = Records(files) /\ Supplied(other, account)
    BY <1>1, <1>5, <1>6, <1>7, <1>8, SameFiles DEF n
  <1> QED  BY <1>9 DEF other

LEMMA RepeatedFile ==
    ASSUME NEW S, NEW files \in Seq(S), FilesRead(files), NEW account, Supplied(files, account)
    PROVE  LET other == Append(files, files[1])
           IN  FilesRead(other) /\ Records(other) = Records(files) /\ Supplied(other, account)
  <1> DEFINE n == Len(files)
             other == Append(files, files[1])
  <1>1. n \in Nat /\ DOMAIN files = 1..n /\ n # 0
    BY LenProperties, EmptySeq DEF Supplied
  <1>2. files[1] \in S
    BY <1>1, ElementOfSeq
  <1>3. /\ other \in Seq(S) /\ Len(other) = n + 1 /\ other[n + 1] = files[1]
        /\ \A i \in 1..n : other[i] = files[i]
    BY <1>2, AppendProperties
  <1>4. DOMAIN other = 1..Len(other)
    BY <1>3, LenProperties
  <1> HIDE DEF n, other
  <1>5. \A i \in 1..(n + 1) : i \in 1..n \/ i = n + 1
    BY <1>1
  <1>6. \A f \in 1..n : f \in 1..(n + 1) /\ other[f] = files[f]
    BY <1>1, <1>3
  <1>7. \A g \in 1..(n + 1) : \E f \in 1..n : other[g] = files[f]
    BY <1>1, <1>3, <1>5
  <1>8. FilesRead(other) /\ Records(other) = Records(files) /\ Supplied(other, account)
    <2>1. Len(other) \in Nat /\ \A f \in 1..Len(files) : \E g \in 1..Len(other) : other[g] = files[f]
      BY <1>1, <1>3, <1>6 DEF n
    <2>2. \A g \in 1..Len(other) : \E f \in 1..Len(files) : other[g] = files[f]
      BY <1>3, <1>7 DEF n
    <2> QED  BY <1>4, <2>1, <2>2, SameFiles
  <1> QED  BY <1>8 DEF other

\* What CasesCountOnce says of the case a for the files of q
CountedOnce(q, a) ==
    LET all == UNION {CloudTrail!Range(q.files[f]) : f \in DOMAIN q.files}
        case(files) == CloudTrail!BuildCase(files, q.account, q.threshold, q.window)
        claims == {x.claim : x \in a.candidates}
    IN  a # Refused =>
          /\ CloudTrail!VerifyCase(a, q.files, q.account, q.threshold, q.window)
          /\ CloudTrail!Range(a.events) = all /\ CloudTrail!IsInjective(a.events)
          /\ UNION {CloudTrail!Range(a.sources[i]) : i \in DOMAIN a.sources} = Places(q.files)
          /\ \A i \in DOMAIN a.events : \A c \in CloudTrail!Range(a.sources[i]) : At(q.files, c) = a.events[i]
          /\ {c.key : c \in claims} =
               {k \in KeysOf(all) : \E e \in Failed(all, k) : Cardinality(Burst(all, k, q.window, e)) >= q.threshold}
          /\ \A c \in claims : \A e \in Failed(all, c.key) :
               Cardinality(Burst(all, c.key, q.window, e)) <= c.count /\ c.count = Cardinality(c.ids)
          /\ Told(case(Lists!Reverse(q.files))) = Told(a)
          /\ Told(case(Append(q.files, q.files[1]))) = Told(a)

LEMMA CaseCountsOnce ==
    ASSUME NEW q, NEW a, a = CloudTrail!BuildCase(q.files, q.account, q.threshold, q.window),
           NEW S, q.files \in Seq(S), FilesRead(q.files)
    PROVE  CountedOnce(q, a)
  <1> SUFFICES ASSUME a # Refused PROVE CountedOnce(q, a)
    BY DEF CountedOnce
  <1> DEFINE files == q.files
             all == UNION {CloudTrail!Range(files[f]) : f \in DOMAIN files}
             case(g) == CloudTrail!BuildCase(g, q.account, q.threshold, q.window)
             claims == {x.claim : x \in a.candidates}
             c == CloudTrail!Collected(files, q.account)
             V == Records(files)
  <1>1. CloudTrail!SettingsAccepted(q.threshold, q.window) /\ ~ c.refused /\ ~ CloudTrail!KeyMissing(c.events)
    BY DEF CloudTrail!BuildCase
  <1>2. q.threshold \in Nat /\ q.window \in Nat
    <2> DEFINE t == q.threshold
               w == q.window
    <2> HIDE DEF t, w
    <2>1. CloudTrail!SettingsAccepted(t, w)
      BY <1>1 DEF t, w
    <2>2. t \in Nat /\ w \in Nat
      BY <2>1 DEF CloudTrail!SettingsAccepted
    <2> QED  BY <2>2 DEF t, w
  <1>3. Supplied(files, q.account)
    BY <1>1, CollectionHolds DEF FilesRead
  <1>3a. Keyed(V)
    BY <1>1, <1>3, CollectedHolds, KeyedEvents
  <1>4. /\ a.events = c.events /\ a.sources = c.sources /\ Holding(files, c)
        /\ Told(a) = TellsOf(V, q.threshold, q.window)
    BY <1>3a, <1>1, <1>3, CaseTells
  <1>5. all = V
    <2>1. \A f \in DOMAIN files : CloudTrail!Range(files[f]) = {files[f][r] : r \in DOMAIN files[f]}
      BY DEF CloudTrail!Range
    <2>2. ASSUME NEW e \in V PROVE e \in all
      <3>1. PICK p \in Places(files) : e = At(files, p)
        BY DEF Records
      <3>2. p.input \in DOMAIN files /\ p.record \in DOMAIN files[p.input]
        BY <3>1, PlacesAre DEF FilesRead, Files
      <3>3. e \in CloudTrail!Range(files[p.input])
        BY <2>1, <3>1, <3>2 DEF At
      <3> QED  BY <3>2, <3>3
    <2>3. ASSUME NEW e \in all PROVE e \in V
      <3>1. PICK f \in DOMAIN files : e \in CloudTrail!Range(files[f])
        OBVIOUS
      <3>2. PICK r \in DOMAIN files[f] : e = files[f][r]
        BY <2>1, <3>1
      <3> DEFINE p == [input |-> f, record |-> r]
      <3>3. p \in Places(files)
        BY PlacesAre DEF FilesRead, Files
      <3>4. At(files, p) = e
        BY <3>2 DEF At
      <3> QED  BY <3>3, <3>4 DEF Records
    <2> QED  BY <2>2, <2>3
  <1>6. /\ CloudTrail!Range(a.events) = V /\ CloudTrail!IsInjective(a.events)
        /\ UNION {CloudTrail!Range(a.sources[i]) : i \in DOMAIN a.sources} = Places(files)
        /\ \A i \in DOMAIN a.events : \A p \in CloudTrail!Range(a.sources[i]) : At(files, p) = a.events[i]
    BY <1>4 DEF Holding
  <1>7. claims = ClaimsFrom(V, q.threshold, q.window)
    BY <1>4 DEF Told, TellsOf
  <1>8. /\ {x.key : x \in claims} =
             {k \in KeysOf(V) : \E e \in Failed(V, k) : Cardinality(Burst(V, k, q.window, e)) >= q.threshold}
        /\ \A x \in claims : \A e \in Failed(V, x.key) :
             Cardinality(Burst(V, x.key, q.window, e)) <= x.count /\ x.count = Cardinality(x.ids)
    <2>1. Apiece(V) /\ IsFiniteSet(V)
      BY <1>4 DEF Holding
    <2> HIDE DEF V, claims
    <2>2. LET found == ClaimsFrom(V, q.threshold, q.window)
          IN  /\ {x.key : x \in found} =
                   {k \in KeysOf(V) : \E e \in Failed(V, k) : Cardinality(Burst(V, k, q.window, e)) >= q.threshold}
              /\ \A x \in found : \A e \in Failed(V, x.key) :
                   Cardinality(Burst(V, x.key, q.window, e)) <= x.count /\ x.count = Cardinality(x.ids)
      BY ONLY <1>2, <2>1, ClaimsAreLargest
    <2> QED  BY <1>7, <2>2
  <1>9. CloudTrail!VerifyCase(a, files, q.account, q.threshold, q.window)
    BY DEF CloudTrail!VerifyCase
  <1>10. Told(case(Lists!Reverse(files))) = Told(a)
    BY <1>3a, <1>1, <1>3, <1>4, ReversedFiles, CaseTells
  <1>11. Told(case(Append(files, files[1]))) = Told(a)
    BY <1>3a, <1>1, <1>3, <1>4, RepeatedFile, CaseTells
  <1> HIDE DEF all, case, claims, c, V
  <1> QED  BY <1>5, <1>6, <1>8, <1>9, <1>10, <1>11 DEF CountedOnce, all, case, claims

------------------------------------------------------------------------------
(* The review of ARP observations (ArpReview)                               *)
LEMMA ArpCardinality == ASSUME NEW S PROVE Arp!Cardinality(S) = Cardinality(S)
  BY DEF Arp!Cardinality, Cardinality

LEMMA ArpArranged == ASSUME NEW S, NEW before PROVE Arp!Arranged(S, before) = Arranged(S, before)
  BY DEF Arp!Arranged, Arranged, Arp!Cardinality, Cardinality

\* The lines I in time: s lists them all, once each.
Scheduled(I, time, s) ==
    /\ Cardinality(I) \in Nat /\ s \in [1..Cardinality(I) -> I]
    /\ \A k, l \in 1..Cardinality(I) : s[k] = s[l] => k = l
    /\ \A i \in I : \E k \in 1..Cardinality(I) : s[k] = i
    /\ \A k, l \in 1..Cardinality(I) : k <= l => time[s[k]] <= time[s[l]]

LEMMA ScheduleSorts ==
    ASSUME NEW N \in Nat, NEW I \in SUBSET (1..N), NEW time, \A i \in I : time[i] \in Nat
    PROVE  Scheduled(I, time, Arp!Schedule(I, time)) /\ IsFiniteSet(I)
  <1> DEFINE before == {p \in I \X I : \/ time[p[1]] < time[p[2]]
                                       \/ time[p[1]] = time[p[2]] /\ p[1] < p[2]}
             s == Arranged(I, before)
             n == Cardinality(I)
  <1>1. IsFiniteSet(I)
    <2>1. IsFiniteSet(1..N)
      BY FS_Interval
    <2> QED  BY <2>1, FS_Subset
  <1>2. \A i, j \in I : <<i, j>> \in before <=> time[i] < time[j] \/ (time[i] = time[j] /\ i < j)
    OBVIOUS
  <1>3. TotalOrder(I, before)
    <2>1. \A i \in I : time[i] \in Nat /\ i \in Nat
      OBVIOUS
    <2> HIDE DEF before
    <2> QED  BY <1>2, <2>1 DEF TotalOrder
  <1>4. /\ n \in Nat /\ s \in [1..n -> I]
        /\ \A k, l \in 1..n : <<s[k], s[l]>> \in before <=> k < l
        /\ \A k, l \in 1..n : s[k] = s[l] => k = l
        /\ \A i \in I : \E k \in 1..n : s[k] = i
    <2> HIDE DEF before
    <2> QED  BY <1>1, <1>3, ArrangedInOrder
  <1>5. Arp!Schedule(I, time) = s
    BY ArpArranged DEF Arp!Schedule
  <1> HIDE DEF before, s
  <1>6. ASSUME NEW k \in 1..n, NEW l \in 1..n, k <= l PROVE time[s[k]] <= time[s[l]]
    <2>1. s[k] \in I /\ s[l] \in I /\ time[s[k]] \in Nat /\ time[s[l]] \in Nat
      BY <1>4
    <2>2. k < l => <<s[k], s[l]>> \in before
      BY <1>4
    <2>3. k < l \/ k = l
      BY <1>4, <1>6
    <2>4. CASE k = l
      BY <2>1, <2>4
    <2>5. CASE k < l
      <3>1. time[s[k]] < time[s[l]] \/ (time[s[k]] = time[s[l]] /\ s[k] < s[l])
        BY <1>2, <2>1, <2>2, <2>5
      <3> QED  BY <2>1, <3>1
    <2> QED  BY <2>3, <2>4, <2>5
  <1> QED  BY <1>1, <1>4, <1>5, <1>6 DEF Scheduled

\* What is not after t stands at the first places, and they are as many as bisect_right says.
LEMMA BisectCounts ==
    ASSUME NEW I, NEW time, \A i \in I : time[i] \in Nat, NEW s, Scheduled(I, time, s), NEW t \in Nat
    PROVE  /\ Arp!Bisect(s, t, time) \in 0..Cardinality(I)
           /\ \A k \in 1..Cardinality(I) : time[s[k]] <= t <=> k <= Arp!Bisect(s, t, time)
  <1> DEFINE n == Cardinality(I)
             T == {k \in 1..n : time[s[k]] <= t}
  <1>1. /\ n \in Nat /\ DOMAIN s = 1..n /\ \A k \in 1..n : time[s[k]] \in Nat
        /\ \A k, l \in 1..n : k <= l => time[s[k]] <= time[s[l]]
    BY DEF Scheduled
  <1>2. Arp!Bisect(s, t, time) = Cardinality(T)
    BY <1>1, ArpCardinality DEF Arp!Bisect
  <1> HIDE DEF n
  <1>3. \E g \in 0..n : T = 1..g
    <2>1. CASE T = {}
      BY <1>1, <2>1
    <2>2. CASE T # {}
      <3>1. PICK g \in T : \A k \in T : k <= g
        <4>1. T \subseteq 0..n
          OBVIOUS
        <4> QED  BY <1>1, <2>2, <4>1, GreatestUpTo
      <3>2. ASSUME NEW k \in 1..g PROVE k \in T
        <4>1. k \in 1..n /\ g \in 1..n /\ time[s[g]] <= t /\ time[s[k]] <= time[s[g]]
          BY <1>1, <3>2
        <4> QED  BY <1>1, <4>1
      <3>3. T = 1..g /\ g \in 0..n
        BY <3>1, <3>2
      <3> QED  BY <3>3
    <2> QED  BY <2>1, <2>2
  <1>4. PICK g \in 0..n : T = 1..g
    BY <1>3
  <1>5. Cardinality(T) = g
    <2>1. g \in Nat /\ 1 \in Nat /\ Cardinality(1..g) = IF 1 > g THEN 0 ELSE g - 1 + 1
      BY <1>1, FS_Interval
    <2>2. Cardinality(1..g) = g
      BY <2>1
    <2> HIDE DEF T
    <2> QED  BY <1>4, <2>2
  <1>6. \A k \in 1..n : time[s[k]] <= t <=> k <= g
    BY <1>1, <1>4
  <1> QED  BY <1>2, <1>5, <1>6 DEF n

\* Lines of a lease file
LeasesRead(leases) ==
    /\ Len(leases) \in Nat /\ DOMAIN leases = 1..Len(leases)
    /\ \A i \in DOMAIN leases : leases[i].starts \in Nat /\ leases[i].ends \in Nat

\* The lease found by bisection is active iff any is: the leases of one mapping do not
\* overlap, so no other can cover the instant.
LEMMA ActiveLeaseCovers ==
    ASSUME NEW leases, LeasesRead(leases), Arp!LeasesAccepted(leases), NEW o, o.time \in Nat
    PROVE  /\ Arp!ActiveLease(leases, o) \in Nat
           /\ {i \in DOMAIN leases : Covers(leases[i], o)} =
                IF Arp!ActiveLease(leases, o) > 0 THEN {Arp!ActiveLease(leases, o)} ELSE {}
  <1> DEFINE I == {i \in DOMAIN leases : Arp!SameMapping(leases[i], o)}
             time == Arp!Starts(leases)
             s == Arp!LeaseSchedule(leases, o)
             n == Cardinality(I)
             p == Arp!Bisect(s, o.time, time)
             N == Len(leases)
  <1>1. N \in Nat /\ I \in SUBSET (1..N) /\ \A i \in I : leases[i].starts \in Nat /\ leases[i].ends \in Nat
    BY DEF LeasesRead
  <1>2. \A i \in I : time[i] = leases[i].starts
    BY DEF Arp!Starts
  <1>3. s = Arp!Schedule(I, time)
    BY DEF Arp!LeaseSchedule
  <1> HIDE DEF time, s
  <1>4. Scheduled(I, time, s)
    <2> HIDE DEF I, N
    <2> QED  BY <1>1, <1>2, <1>3, ScheduleSorts
  <1>5. p \in 0..n /\ \A k \in 1..n : time[s[k]] <= o.time <=> k <= p
    <2>1. \A i \in I : time[i] \in Nat
      BY <1>1, <1>2
    <2> HIDE DEF I
    <2> QED  BY <1>4, <2>1, BisectCounts
  <1>6. \A k \in 2..n : leases[s[k - 1]].ends < leases[s[k]].starts
    <2>1. CASE n < 2
      BY <1>4, <2>1 DEF Scheduled
    <2>2. CASE n >= 2
      <3>1. s[1] \in I /\ Len(s) = n
        <4>1. n \in Nat /\ s \in [1..n -> I]
          BY <1>4 DEF Scheduled
        <4> HIDE DEF n, I
        <4> QED  BY <2>2, <4>1, SequenceOf
      <3>2. Arp!LeaseSchedule(leases, leases[s[1]]) = s
        <4>1. \A i \in DOMAIN leases : Arp!SameMapping(leases[i], leases[s[1]]) <=> Arp!SameMapping(leases[i], o)
          BY <3>1 DEF Arp!SameMapping
        <4>2. {i \in DOMAIN leases : Arp!SameMapping(leases[i], leases[s[1]])} = I
          BY <4>1
        <4> QED  BY <4>2, <1>3 DEF Arp!LeaseSchedule, time
      <3>3. LET r == Arp!LeaseSchedule(leases, leases[s[1]])
            IN  \A k \in 2..Len(r) : leases[r[k - 1]].ends < leases[r[k]].starts
        BY <3>1 DEF Arp!LeasesAccepted
      <3> QED  BY <3>1, <3>2, <3>3
    <2> QED  BY <1>4, <2>1, <2>2 DEF Scheduled
  <1>7. /\ n \in Nat /\ \A k \in 1..n : s[k] \in I /\ time[s[k]] = leases[s[k]].starts
        /\ \A k, l \in 1..n : k <= l => time[s[k]] <= time[s[l]]
        /\ \A i \in I : \E k \in 1..n : s[k] = i
    BY <1>2, <1>4 DEF Scheduled
  <1>8. Arp!ActiveLease(leases, o) = IF p > 0 /\ o.time <= leases[s[p]].ends THEN s[p] ELSE 0
    BY DEF Arp!ActiveLease, s, time
  <1>9. ASSUME NEW i \in DOMAIN leases, Covers(leases[i], o)
        PROVE  p > 0 /\ o.time <= leases[s[p]].ends /\ i = s[p]
    <2>1. i \in I
      BY <1>9 DEF Covers
    <2>2. PICK k \in 1..n : s[k] = i
      BY <1>7, <2>1
    <2>3. k <= p /\ o.time <= leases[s[k]].ends
      BY <1>5, <1>7, <1>9, <2>2 DEF Covers
    <2>4. ASSUME k < p PROVE FALSE
      <3>1. k + 1 \in 2..n /\ k + 1 \in 1..n /\ p \in 1..n /\ (k + 1) - 1 = k
        BY <1>5, <1>7, <2>4
      <3>2. leases[s[k]].ends < leases[s[k + 1]].starts
        BY <1>6, <3>1
      <3>3. time[s[k + 1]] <= time[s[p]] /\ time[s[p]] <= o.time
        BY <1>5, <1>7, <2>4, <3>1
      <3>4. /\ time[s[k + 1]] = leases[s[k + 1]].starts /\ time[s[p]] = leases[s[p]].starts
            /\ {leases[s[k]].ends, leases[s[k + 1]].starts, leases[s[p]].starts, o.time} \subseteq Nat
        BY <1>1, <1>7, <3>1
      <3> HIDE DEF s, time
      <3> QED  BY <2>3, <3>2, <3>3, <3>4
    <2>5. k = p
      BY <1>5, <1>7, <2>3, <2>4
    <2> QED  BY <2>2, <2>3, <2>5
  <1>10. ASSUME p > 0, o.time <= leases[s[p]].ends
         PROVE  s[p] \in DOMAIN leases /\ Covers(leases[s[p]], o)
    <2>1. p \in 1..n
      BY <1>5, <1>7, <1>10
    <2>2. s[p] \in I /\ leases[s[p]].starts <= o.time
      BY <1>5, <1>7, <2>1
    <2> QED  BY <1>10, <2>2 DEF Covers
  <1>11. p > 0 => s[p] \in 1..N
    BY <1>1, <1>5, <1>7
  <1> HIDE DEF I, N, p, n
  <1>12. 0 \in Nat /\ \A x \in 1..N : x \in Nat /\ x > 0
    BY <1>1
  <1> QED  BY <1>8, <1>9, <1>10, <1>11, <1>12

\* What is left of a list: its elements at the given places, in order.
PicksInOrder(q, s, places, m) ==
    \E a \in [1..m -> places] :
       /\ \A k \in 1..m : q[k] = s[a[k]]
       /\ \A k, l \in 1..m : a[k] < a[l] <=> k < l
       /\ \A i \in places : \E k \in 1..m : a[k] = i

LEMMA PickedInOrder ==
    ASSUME NEW n \in Nat, NEW s, NEW places \in SUBSET (1..n)
    PROVE  /\ Cardinality(places) \in Nat /\ DOMAIN Picked(s, places) = 1..Cardinality(places)
           /\ PicksInOrder(Picked(s, places), s, places, Cardinality(places))
  <1> DEFINE before == {p \in places \X places : p[1] < p[2]}
             a == Arranged(places, before)
             m == Cardinality(places)
  <1>1. IsFiniteSet(places)
    <2>1. IsFiniteSet(1..n)
      BY FS_Interval
    <2> QED  BY <2>1, FS_Subset
  <1>2. \A i, j \in places : <<i, j>> \in before <=> i < j
    OBVIOUS
  <1>3. TotalOrder(places, before)
    <2>1. \A i \in places : i \in Nat
      OBVIOUS
    <2> HIDE DEF before
    <2> QED  BY <1>2, <2>1 DEF TotalOrder
  <1>4. /\ m \in Nat /\ a \in [1..m -> places]
        /\ \A k, l \in 1..m : <<a[k], a[l]>> \in before <=> k < l
        /\ \A i \in places : \E k \in 1..m : a[k] = i
    <2> HIDE DEF before
    <2> QED  BY <1>1, <1>3, ArrangedInOrder
  <1>5. Picked(s, places) = [k \in DOMAIN a |-> s[a[k]]]
    BY DEF Picked
  <1> HIDE DEF before, a, m
  <1>6. \A k, l \in 1..m : a[k] < a[l] <=> k < l
    BY <1>2, <1>4
  <1>7. DOMAIN a = 1..m /\ \A k \in 1..m : Picked(s, places)[k] = s[a[k]]
    BY <1>4, <1>5
  <1>8. DOMAIN Picked(s, places) = 1..m
    BY <1>5, <1>7
  <1> QED  BY <1>4, <1>6, <1>7, <1>8 DEF m, PicksInOrder

LEMMA ArpPicked == ASSUME NEW s, NEW places PROVE Arp!Picked(s, places) = Picked(s, places)
  BY ArpArranged DEF Arp!Picked, Picked

\* Lines of a forwarding table
EntriesRead(entries) ==
    /\ Len(entries) \in Nat /\ DOMAIN entries = 1..Len(entries)
    /\ \A i \in DOMAIN entries : entries[i].at \in Nat

\* h lists the m captures r, the latest of all the last.
InCaptureOrder(entries, x, h, r, m) ==
    /\ m \in 0..2 /\ h \in [1..m -> r]
    /\ \A i \in r : \E k \in 1..m : h[k] = i
    /\ \A k, l \in 1..m : entries[h[k]].at < entries[h[l]].at <=> k < l
    /\ r # {} => Newer(entries, x, h[m]) = {}

\* The history of a station is what is recent among its last two captures, older first.
LEMMA HistoryIsRecent ==
    ASSUME NEW entries, EntriesRead(entries), Arp!ForwardingAccepted(entries), NEW x, x.time \in Nat,
           NEW maxAge \in Int
    PROVE  InCaptureOrder(entries, x, Arp!RecentForwardingHistory(entries, x, maxAge),
                          Recent(entries, x, maxAge), Cardinality(Recent(entries, x, maxAge)))
  <1> DEFINE I == {i \in DOMAIN entries : Arp!SameStation(entries[i], x)}
             time == Arp!Captured(entries)
             s == Arp!ForwardingSchedule(entries, x)
             n == Cardinality(I)
             p == Arp!Bisect(s, x.time, time)
             N == Len(entries)
             r == Recent(entries, x, maxAge)
             h == Arp!RecentForwardingHistory(entries, x, maxAge)
             places == {k \in (p - 1)..p : k > 0 /\ x.time - entries[s[k]].at <= maxAge}
  <1>1. N \in Nat /\ I \in SUBSET (1..N) /\ \A i \in I : entries[i].at \in Nat
    BY DEF EntriesRead
  <1>2. \A i \in I : time[i] = entries[i].at
    BY DEF Arp!Captured
  <1>3. s = Arp!Schedule(I, time)
    BY DEF Arp!ForwardingSchedule
  <1>4. h = Picked(s, places)
    BY ArpPicked DEF Arp!RecentForwardingHistory
  <1>5. \A i, j \in I : entries[i].at = entries[j].at => i = j
    <2>1. \A i, j \in I : Arp!SameStation(entries[i], entries[j])
      BY DEF Arp!SameStation
    <2> QED  BY <2>1 DEF Arp!ForwardingAccepted
  <1> HIDE DEF time, s, h
  <1>6. Scheduled(I, time, s)
    <2> HIDE DEF I, N
    <2> QED  BY <1>1, <1>2, <1>3, ScheduleSorts
  <1>7. p \in 0..n /\ \A k \in 1..n : time[s[k]] <= x.time <=> k <= p
    <2>1. \A i \in I : time[i] \in Nat
      BY <1>1, <1>2
    <2> HIDE DEF I
    <2> QED  BY <1>6, <2>1, BisectCounts
  <1> DEFINE at(k) == entries[s[k]].at
  <1>8. /\ n \in Nat /\ \A k \in 1..n : s[k] \in I /\ time[s[k]] = at(k) /\ at(k) \in Nat
        /\ \A i \in I : \E k \in 1..n : s[k] = i
        /\ \A k, l \in 1..n : s[k] = s[l] => k = l
    BY <1>1, <1>2, <1>6 DEF Scheduled
  <1>9. \A k, l \in 1..n : k < l => at(k) < at(l)
    <2> SUFFICES ASSUME NEW k \in 1..n, NEW l \in 1..n, k < l PROVE at(k) < at(l)
      OBVIOUS
    <2>1. k <= l => time[s[k]] <= time[s[l]]
      BY <1>6 DEF Scheduled
    <2>2. s[k] # s[l] /\ at(k) # at(l)
      BY <1>5, <1>8
    <2>3. at(k) <= at(l) /\ at(k) \in Nat /\ at(l) \in Nat
      BY <1>8, <2>1
    <2> QED  BY <2>2, <2>3
  <1>10. Captures(entries, x) = {s[k] : k \in 1..p}
    <2>1. \A k \in 1..n : s[k] \in Captures(entries, x) <=> k <= p
      BY <1>7, <1>8 DEF Captures
    <2>2. Captures(entries, x) \subseteq I
      BY DEF Captures
    <2> HIDE DEF I, n, p
    <2> QED  BY <1>7, <1>8, <2>1, <2>2
  <1> HIDE DEF I, n, p
  <1>11. ASSUME NEW k \in 1..p
         PROVE  /\ Newer(entries, x, s[k]) = {s[l] : l \in (k + 1)..p}
                /\ Cardinality(Newer(entries, x, s[k])) = p - k
    <2>1. \A l \in 1..p : at(l) > at(k) <=> l \in (k + 1)..p
      <3> SUFFICES ASSUME NEW l \in 1..p PROVE at(l) > at(k) <=> l \in (k + 1)..p
        OBVIOUS
      <3>1. k \in 1..n /\ l \in 1..n /\ at(k) \in Nat /\ at(l) \in Nat
        BY <1>7, <1>8
      <3>2. (k < l => at(k) < at(l)) /\ (l < k => at(l) < at(k)) /\ (k = l => at(k) = at(l))
        BY <1>9, <3>1
      <3> QED  BY <3>1, <3>2
    <2>2. Newer(entries, x, s[k]) = {s[l] : l \in {m \in 1..p : at(m) > at(k)}}
      BY <1>10 DEF Newer
    <2>3. {m \in 1..p : at(m) > at(k)} = (k + 1)..p
      BY <1>7, <2>1
    <2> DEFINE J == (k + 1)..p
               f == [l \in J |-> s[l]]
    <2>4. f \in Bijection(J, {s[l] : l \in J})
      <3>1. f \in [J -> {s[l] : l \in J}] /\ \A y \in {s[l] : l \in J} : \E l \in J : f[l] = y
        OBVIOUS
      <3>2. \A l, m \in J : f[l] = f[m] => l = m
        BY <1>7, <1>8
      <3> QED  BY <3>1, <3>2, Fun_IsBij
    <2>5. IsFiniteSet(J) /\ Cardinality(J) = p - k
      <3>1. k + 1 \in Int /\ p \in Int /\ k <= p
        BY <1>7
      <3>2. IsFiniteSet(J) /\ Cardinality(J) = IF k + 1 > p THEN 0 ELSE p - (k + 1) + 1
        BY <3>1, FS_Interval
      <3> HIDE DEF J
      <3> QED  BY <3>1, <3>2
    <2>6. Cardinality({s[l] : l \in J}) = Cardinality(J)
      <3> DEFINE K == {s[l] : l \in J}
      <3>1. ExistsBijection(J, K)
        BY <2>4 DEF ExistsBijection
      <3> HIDE DEF J, f, K
      <3>2. Cardinality(K) = Cardinality(J)
        BY <2>5, <3>1, FS_Bijection
      <3> QED  BY <3>2 DEF K
    <2> QED  BY <2>2, <2>3, <2>5, <2>6
  <1>12. places \in SUBSET (1..p)
    BY <1>7
  <1>13. r = {s[k] : k \in places}
    <2>1. \A k \in 1..p : s[k] \in r <=> k \in places
      <3> SUFFICES ASSUME NEW k \in 1..p PROVE s[k] \in r <=> k \in places
        OBVIOUS
      <3>1. s[k] \in r <=> p - k < 2 /\ x.time - at(k) <= maxAge
        BY <1>10, <1>11 DEF Recent
      <3>2. k \in (p - 1)..p <=> p - k < 2
        BY <1>7
      <3> QED  BY <3>1, <3>2
    <2>2. r \subseteq {s[k] : k \in 1..p}
      BY <1>10 DEF Recent
    <2> HIDE DEF r, places
    <2> QED  BY <1>12, <2>1, <2>2
  <1> DEFINE m == Cardinality(places)
  <1>14. m \in Nat /\ DOMAIN h = 1..m /\ PicksInOrder(h, s, places, m)
    <2>1. p \in Nat
      BY <1>7
    <2> HIDE DEF places
    <2> QED  BY <1>4, <1>12, <2>1, PickedInOrder
  <1>15. PICK a \in [1..m -> places] :
              /\ \A k \in 1..m : h[k] = s[a[k]]
              /\ \A k, l \in 1..m : a[k] < a[l] <=> k < l
              /\ \A i \in places : \E k \in 1..m : a[k] = i
    BY <1>14 DEF PicksInOrder
  <1>16. Cardinality(r) = m /\ m <= 2
    <2>1. IsFiniteSet(places) /\ m <= 2
      <3> DEFINE J == (p - 1)..p
      <3>1. p - 1 \in Int /\ p \in Int
        BY <1>7
      <3>2. IsFiniteSet(J) /\ Cardinality(J) = IF p - 1 > p THEN 0 ELSE p - (p - 1) + 1
        BY <3>1, FS_Interval
      <3>3. IsFiniteSet(J) /\ Cardinality(J) = 2
        BY <3>1, <3>2
      <3>4. places \in SUBSET J
        OBVIOUS
      <3> HIDE DEF places, J
      <3>5. IsFiniteSet(places) /\ Cardinality(places) \in Nat /\ Cardinality(places) <= Cardinality(J)
        BY <3>3, <3>4, FS_Subset, FS_CardinalityType
      <3> QED  BY <3>3, <3>5
    <2> DEFINE f == [k \in places |-> s[k]]
    <2>2. f \in Bijection(places, r)
      <3>1. f \in [places -> r] /\ \A y \in r : \E k \in places : f[k] = y
        BY <1>13
      <3>2. \A k, l \in places : f[k] = f[l] => k = l
        BY <1>7, <1>8, <1>12
      <3> HIDE DEF places, r, f
      <3> QED  BY <3>1, <3>2, Fun_IsBij
    <2>3. ExistsBijection(places, r)
      BY <2>2 DEF ExistsBijection
    <2> HIDE DEF places, r, f
    <2> QED  BY <2>1, <2>3, FS_Bijection
  <1> HIDE DEF places, r, m
  <1>17. ASSUME NEW k \in 1..m
         PROVE  h[k] = s[a[k]] /\ h[k] \in r /\ a[k] \in 1..p /\ a[k] \in places
    BY <1>12, <1>13, <1>15
  <1>18. \A i \in r : \E k \in 1..m : h[k] = i
    BY <1>13, <1>15
  <1>19. ASSUME NEW k \in 1..m, NEW l \in 1..m
         PROVE  entries[h[k]].at < entries[h[l]].at <=> k < l
    <2>1. a[k] \in 1..n /\ a[l] \in 1..n
      BY <1>7, <1>8, <1>17
    <2>2. (a[k] < a[l] => at(a[k]) < at(a[l])) /\ (a[l] < a[k] => at(a[l]) < at(a[k]))
      BY <1>9, <2>1
    <2>3. at(a[k]) \in Nat /\ at(a[l]) \in Nat /\ (a[k] = a[l] => at(a[k]) = at(a[l]))
      BY <1>8, <2>1
    <2>4. at(a[k]) < at(a[l]) <=> a[k] < a[l]
      BY <2>1, <2>2, <2>3
    <2> QED  BY <1>15, <1>17, <2>4
  <1>20. ASSUME r # {} PROVE Newer(entries, x, h[m]) = {}
    <2>1. m \in 1..m
      BY <1>14, <1>18, <1>20
    <2>2. p \in places
      <3>1. a[m] \in places /\ a[m] \in (p - 1)..p /\ a[m] \in 1..p /\ x.time - at(a[m]) <= maxAge
        BY <1>17, <2>1 DEF places
      <3>2. p \in 1..n /\ a[m] \in 1..n /\ at(p) \in Nat /\ at(a[m]) \in Nat
        BY <1>7, <1>8, <3>1
      <3>3. a[m] = p \/ at(a[m]) < at(p)
        BY <1>9, <3>1, <3>2
      <3>4. x.time - at(p) <= maxAge
        BY <3>1, <3>2, <3>3
      <3> QED  BY <3>2, <3>4 DEF places
    <2>3. PICK k \in 1..m : a[k] = p
      BY <1>15, <2>2
    <2>4. ~ (a[k] < a[m])
      BY <1>17, <2>1, <2>3
    <2>5. k = m
      BY <1>15, <2>1, <2>4
    <2>6. h[m] = s[p] /\ p \in 1..p
      BY <1>17, <2>1, <2>3, <2>5
    <2>7. (p + 1)..p = {}
      BY <1>7
    <2> QED  BY <1>11, <2>6, <2>7
  <1>21. Cardinality(r) \in 0..2 /\ h \in [1..Cardinality(r) -> r]
    <2>1. DOMAIN h = 1..m /\ \A k \in 1..m : h[k] \in r
      BY <1>14, <1>17
    <2>2. h = [k \in DOMAIN h |-> h[k]]
      BY <1>4 DEF Picked
    <2> QED  BY <1>14, <1>16, <2>1, <2>2
  <1>22. InCaptureOrder(entries, x, h, r, Cardinality(r))
    BY <1>16, <1>18, <1>19, <1>20, <1>21 DEF InCaptureOrder
  <1> QED  BY <1>22 DEF r, h

\* Lines of an observation file
LinesRead(o) == Len(o) \in Nat /\ DOMAIN o = 1..Len(o) /\ \A i \in DOMAIN o : o[i].time \in Nat

FindingsOfLines(in) ==
    {Arp!Finding(in, i, j) : i \in 1..Len(in.observations), j \in 1..Len(in.observations)}

\* The findings of the first n lines, by the line they are about
FoundChanges(in, n, found) ==
    /\ found \in Seq(FindingsOfLines(in))
    /\ \A k \in 1..Len(found) :
         /\ found[k].previous_line \in 1..n /\ found[k].current_line \in 1..n
         /\ Changes(in, found[k].previous_line, found[k].current_line)
         /\ found[k] = Arp!Finding(in, found[k].previous_line, found[k].current_line)
    /\ \A k, l \in 1..Len(found) : k < l => found[k].current_line < found[l].current_line
    /\ \A i, j \in 1..n : Changes(in, i, j) =>
         \E k \in 1..Len(found) : found[k].previous_line = i /\ found[k].current_line = j

\* The line each interface and IP was seen last
Remembered(o, n, previous) ==
    /\ DOMAIN previous = {Arp!Key(o[i]) : i \in 1..n}
    /\ \A i \in 1..n :
         /\ previous[Arp!Key(o[i])] \in i..n /\ Arp!Key(o[previous[Arp!Key(o[i])]]) = Arp!Key(o[i])
         /\ \A k \in (previous[Arp!Key(o[i])] + 1)..n : Arp!Key(o[k]) # Arp!Key(o[i])

OutOfOrder(o, n) == \E i, j \in 1..n : i < j /\ o[j].time < o[i].time

Watched(in, n, state) ==
    /\ Remembered(in.observations, n, state.previous)
    /\ FoundChanges(in, n, state.findings)
    /\ state.refused => ~ Arp!InputAccepted(in) \/ OutOfOrder(in.observations, n)
    /\ ~ state.refused => Arp!InputAccepted(in)

LEMMA ObservedRuns ==
    ASSUME NEW in, Len(in.observations) \in Nat
    PROVE  \E state : /\ Arp!Observed(in) = state[Len(in.observations)]
                      /\ state[0] = [refused |-> ~ Arp!InputAccepted(in), findings |-> << >>,
                                     previous |-> [k \in {} |-> 0]]
                      /\ \A j \in 1..Len(in.observations) : state[j] = Arp!Observe(in, state[j - 1], j)
  <1> DEFINE N == Len(in.observations)
             start == [refused |-> ~ Arp!InputAccepted(in), findings |-> << >>, previous |-> [k \in {} |-> 0]]
             step(x, n) == Arp!Observe(in, x, n)
             upTo(m, f) == f = [n \in 0..m |-> IF n = 0 THEN start ELSE step(f[n - 1], n)]
             S == {m \in Nat : m <= N => \E f : upTo(m, f)}
  <1> HIDE DEF step, start
  <1>1. 0 \in S
    <2>1. upTo(0, [n \in 0..0 |-> start])
      OBVIOUS
    <2> QED  BY <2>1
  <1>2. ASSUME NEW m \in Nat, m \in S PROVE m + 1 \in S
    <2> SUFFICES ASSUME m + 1 <= N PROVE \E f : upTo(m + 1, f)
      OBVIOUS
    <2>1. PICK f : upTo(m, f)
      BY <1>2
    <2> DEFINE g == [n \in 0..(m + 1) |-> IF n = m + 1 THEN step(f[m], m + 1) ELSE f[n]]
    <2>2. ASSUME NEW n \in 0..(m + 1) PROVE g[n] = IF n = 0 THEN start ELSE step(g[n - 1], n)
      <3>1. CASE n = m + 1
        BY <3>1
      <3>2. CASE n \in 0..m
        <4>1. f[n] = IF n = 0 THEN start ELSE step(f[n - 1], n)
          BY <2>1, <3>2
        <4>2. g[n] = f[n] /\ (n # 0 => g[n - 1] = f[n - 1])
          BY <3>2
        <4> QED  BY <4>1, <4>2
      <3> QED  BY <3>1, <3>2
    <2>3. upTo(m + 1, g)
      BY <2>2
    <2> QED  BY <2>3
  <1> HIDE DEF S
  <1>3. N \in S
    BY <1>1, <1>2, InductiveSet
  <1> DEFINE state == CHOOSE f : upTo(N, f)
  <1>4. upTo(N, state)
    BY <1>3 DEF S
  <1>5. Arp!Observed(in) = state[N]
    BY DEF Arp!Observed, start, step
  <1> HIDE DEF state
  <1>6. state[0] = start /\ \A n \in 1..N : state[n] = step(state[n - 1], n)
    <2>1. 0 \in 0..N /\ \A n \in 1..N : n \in 0..N /\ n # 0
      OBVIOUS
    <2>2. \A n \in 0..N : state[n] = IF n = 0 THEN start ELSE step(state[n - 1], n)
      BY <1>4
    <2> HIDE DEF N
    <2> QED  BY <2>1, <2>2
  <1> QED  BY <1>5, <1>6 DEF start, step

\* What the previous line of j is
LEMMA RememberedIs ==
    ASSUME NEW o, LinesRead(o), NEW j \in DOMAIN o, NEW previous, Remembered(o, j - 1, previous)
    PROVE  /\ Arp!Key(o[j]) \in DOMAIN previous =>
                /\ previous[Arp!Key(o[j])] \in 1..(j - 1) /\ Precedes(o, previous[Arp!Key(o[j])], j)
           /\ \A i \in 1..(j - 1) : Precedes(o, i, j) =>
                Arp!Key(o[j]) \in DOMAIN previous /\ previous[Arp!Key(o[j])] = i
  <1> DEFINE key(i) == Arp!Key(o[i])
             p == previous[key(j)]
  <1> HIDE DEF key
  <1>1. j \in Nat /\ j >= 1
    BY DEF LinesRead
  <1>2. /\ DOMAIN previous = {key(i) : i \in 1..(j - 1)}
        /\ \A i \in 1..(j - 1) :
             /\ previous[key(i)] \in i..(j - 1) /\ key(previous[key(i)]) = key(i)
             /\ \A k \in (previous[key(i)] + 1)..(j - 1) : key(k) # key(i)
    BY DEF Remembered, key
  <1>3. ASSUME key(j) \in DOMAIN previous
        PROVE  /\ p \in 1..(j - 1) /\ key(p) = key(j) /\ \A k \in (p + 1)..(j - 1) : key(k) # key(p)
    <2>1. PICK i \in 1..(j - 1) : key(j) = key(i)
      BY <1>2, <1>3
    <2> QED  BY <1>1, <1>2, <2>1
  <1>4. ASSUME NEW i \in 1..(j - 1), key(i) = key(j), \A k \in (i + 1)..(j - 1) : key(k) # key(i)
        PROVE  key(j) \in DOMAIN previous /\ p = i
    <2>1. key(j) \in DOMAIN previous
      BY <1>2, <1>4
    <2>2. p \in i..(j - 1) /\ key(p) = key(i)
      BY <1>2, <1>4
    <2>3. p \notin (i + 1)..(j - 1)
      BY <1>4, <2>2
    <2> QED  BY <1>1, <2>1, <2>2, <2>3
  <1>5. \A i : Precedes(o, i, j) <=> i < j /\ key(i) = key(j) /\ \A k \in (i + 1)..(j - 1) : key(k) # key(i)
    BY DEF Precedes, key
  <1>6. key(j) \in DOMAIN previous => p \in 1..(j - 1) /\ Precedes(o, p, j)
    BY <1>1, <1>3, <1>5
  <1>7. \A i \in 1..(j - 1) : Precedes(o, i, j) => key(j) \in DOMAIN previous /\ p = i
    BY <1>4, <1>5
  <1> QED  BY <1>6, <1>7 DEF key

LEMMA RemembersNext ==
    ASSUME NEW o, LinesRead(o), NEW j \in DOMAIN o, NEW previous, Remembered(o, j - 1, previous)
    PROVE  Remembered(o, j, [k \in DOMAIN previous \cup {Arp!Key(o[j])} |->
                               IF k = Arp!Key(o[j]) THEN j ELSE previous[k]])
  <1> DEFINE key(i) == Arp!Key(o[i])
             next == [k \in DOMAIN previous \cup {key(j)} |-> IF k = key(j) THEN j ELSE previous[k]]
  <1> HIDE DEF key
  <1>1. j \in Nat /\ j >= 1
    BY DEF LinesRead
  <1>2. /\ DOMAIN previous = {key(i) : i \in 1..(j - 1)}
        /\ \A i \in 1..(j - 1) :
             /\ previous[key(i)] \in i..(j - 1) /\ key(previous[key(i)]) = key(i)
             /\ \A k \in (previous[key(i)] + 1)..(j - 1) : key(k) # key(i)
    BY DEF Remembered, key
  <1>3. DOMAIN next = {key(i) : i \in 1..j}
    <2>1. \A i \in 1..j : i = j \/ i \in 1..(j - 1)
      BY <1>1
    <2>2. j \in 1..j /\ \A i \in 1..(j - 1) : i \in 1..j
      BY <1>1
    <2> QED  BY <1>2, <2>1, <2>2
  <1>4. ASSUME NEW i \in 1..j
        PROVE  /\ next[key(i)] \in i..j /\ key(next[key(i)]) = key(i)
               /\ \A k \in (next[key(i)] + 1)..j : key(k) # key(i)
    <2>1. CASE key(i) = key(j)
      <3>1. next[key(i)] = j
        BY <2>1
      <3> HIDE DEF next
      <3> QED  BY <1>1, <2>1, <3>1
    <2>2. CASE key(i) # key(j)
      <3>1. i \in 1..(j - 1)
        BY <1>1, <2>2
      <3>2. next[key(i)] = previous[key(i)]
        BY <1>2, <2>2, <3>1
      <3> DEFINE p == previous[key(i)]
      <3>3. p \in i..(j - 1) /\ key(p) = key(i) /\ \A k \in (p + 1)..(j - 1) : key(k) # key(i)
        BY <1>2, <3>1
      <3> HIDE DEF next, p
      <3>4. \A k \in (p + 1)..j : k = j \/ k \in (p + 1)..(j - 1)
        BY <1>1, <3>3
      <3>5. \A k \in (p + 1)..j : key(k) # key(i)
        BY <2>2, <3>3, <3>4
      <3> QED  BY <1>1, <3>2, <3>3, <3>5 DEF p
    <2> QED  BY <2>1, <2>2
  <1> HIDE DEF next
  <1>5. Remembered(o, j, next)
    BY <1>3, <1>4 DEF Remembered, key
  <1> QED  BY <1>5 DEF next, key

\* What one turn of the loop makes of the findings and of its refusal
LEMMA ObserveWatches ==
    ASSUME NEW in, LinesRead(in.observations), NEW j \in 1..Len(in.observations),
           NEW state, Watched(in, j - 1, state)
    PROVE  Watched(in, j, Arp!Observe(in, state, j))
  <1> DEFINE o == in.observations
             N == Len(o)
             key(i) == Arp!Key(o[i])
             known == key(j) \in DOMAIN state.previous
             i == IF known THEN state.previous[key(j)] ELSE 0
             p == IF i = 0 THEN o[j] ELSE o[i]
             new == p.mac # o[j].mac /\ o[j].time - p.time <= in.window
             f == Arp!Finding(in, i, j)
             next == Arp!Observe(in, state, j)
             F == state.findings
             G == IF new THEN Append(F, f) ELSE F
             S == FindingsOfLines(in)
  <1>1. /\ N \in Nat /\ j \in 1..N /\ DOMAIN o = 1..N /\ j - 1 \in 0..N
        /\ \A k \in 1..N : o[k].time \in Nat
    BY DEF LinesRead
  <1>2. /\ next.refused = (state.refused \/ o[j].time < p.time)
        /\ next.findings = G
        /\ next.previous = [k \in DOMAIN state.previous \cup {key(j)} |->
                              IF k = key(j) THEN j ELSE state.previous[k]]
    BY DEF Arp!Observe
  <1>3. /\ known => i \in 1..(j - 1) /\ Precedes(o, i, j)
        /\ ~ known => i = 0
        /\ \A k \in 1..(j - 1) : Precedes(o, k, j) => known /\ i = k
    <2>1. Remembered(o, j - 1, state.previous)
      BY DEF Watched
    <2>2. LinesRead(o) /\ j \in DOMAIN o
      BY <1>1
    <2> HIDE DEF o
    <2> QED  BY <2>1, <2>2, RememberedIs
  <1>4. Remembered(o, j, next.previous)
    <2>1. Remembered(o, j - 1, state.previous)
      BY DEF Watched
    <2>2. LinesRead(o) /\ j \in DOMAIN o
      BY <1>1
    <2> HIDE DEF o, next
    <2> QED  BY <1>2, <2>1, <2>2, RemembersNext
  <1>5. FoundChanges(in, j - 1, F) /\ F \in Seq(S) /\ Len(F) \in Nat
    BY DEF Watched, FoundChanges
  <1> HIDE DEF known, i, next
  <1>6. known => i \in 1..(j - 1) /\ i \in 1..N /\ i # 0 /\ p = o[i]
    BY <1>1, <1>3
  <1>7. ~ known => i = 0 /\ p = o[j] /\ ~ new
    BY <1>3
  <1>8. new => known /\ i \in 1..N /\ Changes(in, i, j)
    BY <1>3, <1>6, <1>7 DEF Changes
  <1>9. \A k \in 1..(j - 1) : Changes(in, k, j) => new /\ k = i
    BY <1>3, <1>6 DEF Changes
  <1> HIDE DEF p, new
  <1>10. ASSUME NEW k, NEW l \in 1..N PROVE Arp!Finding(in, k, l).previous_line = k /\ Arp!Finding(in, k, l).current_line = l
    BY DEF Arp!Finding
  <1>11. FoundChanges(in, j, G)
    <2>1. CASE ~ new
      <3>1. G = F
        BY <2>1
      <3>2. \A k, l \in 1..j : Changes(in, k, l) => k \in 1..(j - 1) /\ l \in 1..(j - 1)
        <4> SUFFICES ASSUME NEW k \in 1..j, NEW l \in 1..j, Changes(in, k, l)
                     PROVE  k \in 1..(j - 1) /\ l \in 1..(j - 1)
          OBVIOUS
        <4>1. k < l
          BY DEF Changes, Precedes
        <4>2. k \in 1..(j - 1)
          BY <1>1, <4>1
        <4>3. l # j
          BY <1>9, <2>1, <4>2
        <4> QED  BY <1>1, <4>2, <4>3
      <3>3. \A k \in 1..(j - 1) : k \in 1..j
        BY <1>1
      <3>4. ASSUME NEW k \in 1..Len(F)
            PROVE  /\ F[k].previous_line \in 1..j /\ F[k].current_line \in 1..j
                   /\ Changes(in, F[k].previous_line, F[k].current_line)
                   /\ F[k] = Arp!Finding(in, F[k].previous_line, F[k].current_line)
        BY <1>5, <3>3 DEF FoundChanges
      <3>5. ASSUME NEW k \in 1..j, NEW l \in 1..j, Changes(in, k, l)
            PROVE  \E m \in 1..Len(F) : F[m].previous_line = k /\ F[m].current_line = l
        BY <1>5, <3>2, <3>5 DEF FoundChanges
      <3>6. \A k, l \in 1..Len(F) : k < l => F[k].current_line < F[l].current_line
        BY <1>5 DEF FoundChanges
      <3> HIDE DEF F, G
      <3>7. FoundChanges(in, j, F)
        BY <1>5, <3>4, <3>5, <3>6 DEF FoundChanges, S
      <3> QED  BY <3>1, <3>7
    <2>2. CASE new
      <3>1. f \in S
        BY <1>1, <1>8, <2>2 DEF FindingsOfLines
      <3>2. /\ G \in Seq(S) /\ Len(G) = Len(F) + 1 /\ G[Len(F) + 1] = f
            /\ \A k \in 1..Len(F) : G[k] = F[k]
        <4> HIDE DEF S, f, F
        <4> QED  BY <1>5, <2>2, <3>1, AppendProperties
      <3>3. f.previous_line = i /\ f.current_line = j /\ f = Arp!Finding(in, i, j)
        BY <1>1, <1>10
      <3> DEFINE n == Len(F)
      <3>4. \A k \in 1..Len(G) : k = n + 1 \/ k \in 1..n
        BY <1>5, <3>2
      <3>5. ASSUME NEW k \in 1..n
            PROVE  /\ F[k].previous_line \in 1..(j - 1) /\ F[k].current_line \in 1..(j - 1)
                   /\ Changes(in, F[k].previous_line, F[k].current_line)
                   /\ F[k] = Arp!Finding(in, F[k].previous_line, F[k].current_line)
        BY <1>5 DEF FoundChanges
      <3>6. /\ \A k, l \in 1..n : k < l => F[k].current_line < F[l].current_line
            /\ \A k, l \in 1..(j - 1) : Changes(in, k, l) =>
                 \E m \in 1..n : F[m].previous_line = k /\ F[m].current_line = l
        BY <1>5 DEF FoundChanges
      <3> HIDE DEF f, F, G, S
      <3>7. n \in Nat /\ Len(G) = n + 1 /\ n + 1 \in 1..Len(G) /\ \A k \in 1..n : k \in 1..Len(G)
        BY <1>5, <3>2
      <3> HIDE DEF n
      <3>8. ASSUME NEW k \in 1..Len(G)
            PROVE  /\ G[k].previous_line \in 1..j /\ G[k].current_line \in 1..j
                   /\ Changes(in, G[k].previous_line, G[k].current_line)
                   /\ G[k] = Arp!Finding(in, G[k].previous_line, G[k].current_line)
        <4>1. CASE k = n + 1
          <5>1. G[k] = f
            BY <3>2, <4>1 DEF n
          <5>2. i \in 1..j /\ j \in 1..j
            BY <1>1, <1>6, <1>8, <2>2
          <5> QED  BY <1>8, <2>2, <3>3, <5>1, <5>2
        <4>2. CASE k \in 1..n
          <5>1. G[k] = F[k]
            BY <3>2, <4>2 DEF n
          <5>2. \A x \in 1..(j - 1) : x \in 1..j
            BY <1>1
          <5> QED  BY <3>5, <4>2, <5>1, <5>2
        <4> QED  BY <3>4, <4>1, <4>2
      <3>9. ASSUME NEW k \in 1..Len(G), NEW l \in 1..Len(G), k < l
            PROVE  G[k].current_line < G[l].current_line
        <4>1. k \in 1..n /\ G[k] = F[k]
          BY <3>2, <3>7, <3>9 DEF n
        <4>2. CASE l = n + 1
          <5>1. G[l].current_line = j
            BY <3>2, <3>3, <4>2 DEF n
          <5> QED  BY <1>1, <3>5, <4>1, <5>1
        <4>3. CASE l \in 1..n
          <5>1. G[l] = F[l]
            BY <3>2, <4>3 DEF n
          <5> QED  BY <3>6, <3>9, <4>1, <4>3, <5>1
        <4> QED  BY <3>4, <4>2, <4>3
      <3>10. ASSUME NEW k \in 1..j, NEW l \in 1..j, Changes(in, k, l)
             PROVE  \E m \in 1..Len(G) : G[m].previous_line = k /\ G[m].current_line = l
        <4>1. k < l
          BY <3>10 DEF Changes, Precedes
        <4>2. k \in 1..(j - 1)
          BY <1>1, <4>1
        <4>3. CASE l = j
          <5>1. k = i
            BY <1>9, <3>10, <4>2, <4>3
          <5>2. G[n + 1].previous_line = k /\ G[n + 1].current_line = l
            BY <3>2, <3>3, <4>3, <5>1 DEF n
          <5> QED  BY <3>7, <5>2
        <4>4. CASE l # j
          <5>1. l \in 1..(j - 1)
            BY <1>1, <4>4
          <5>2. PICK m \in 1..n : F[m].previous_line = k /\ F[m].current_line = l
            BY <3>6, <3>10, <4>2, <5>1
          <5>3. G[m] = F[m] /\ m \in 1..Len(G)
            BY <3>2, <3>7, <5>2 DEF n
          <5> QED  BY <5>2, <5>3
        <4> QED  BY <4>3, <4>4
      <3> QED  BY <3>2, <3>8, <3>9, <3>10 DEF FoundChanges, S
    <2> QED  BY <2>1, <2>2
  <1>12. next.refused => ~ Arp!InputAccepted(in) \/ OutOfOrder(o, j)
    <2>1. CASE state.refused
      <3>1. OutOfOrder(o, j - 1) => OutOfOrder(o, j)
        <4>1. \A k \in 1..(j - 1) : k \in 1..j
          BY <1>1
        <4> QED  BY <4>1 DEF OutOfOrder
      <3> QED  BY <2>1, <3>1 DEF Watched
    <2>2. CASE o[j].time < p.time
      <3>1. known
        <4>1. ~ (o[j].time < o[j].time)
          BY <1>1
        <4> QED  BY <1>7, <2>2, <4>1
      <3>2. i \in 1..j /\ j \in 1..j /\ i < j /\ o[j].time < o[i].time
        BY <1>1, <1>6, <2>2, <3>1
      <3> QED  BY <3>2 DEF OutOfOrder
    <2> QED  BY <1>2, <2>1, <2>2
  <1>13. ~ next.refused => Arp!InputAccepted(in)
    BY <1>2 DEF Watched
  <1> HIDE DEF o, G
  <1>14. Watched(in, j, next)
    BY <1>2, <1>4, <1>11, <1>12, <1>13 DEF Watched, o
  <1> QED  BY <1>14 DEF next

\* At the end of the loop
LEMMA ObservedWatches ==
    ASSUME NEW in, LinesRead(in.observations)
    PROVE  Watched(in, Len(in.observations), Arp!Observed(in))
  <1> DEFINE N == Len(in.observations)
  <1>1. N \in Nat
    BY DEF LinesRead
  <1>2. PICK state :
          /\ Arp!Observed(in) = state[N]
          /\ state[0] = [refused |-> ~ Arp!InputAccepted(in), findings |-> << >>, previous |-> [k \in {} |-> 0]]
          /\ \A j \in 1..N : state[j] = Arp!Observe(in, state[j - 1], j)
    BY <1>1, ObservedRuns
  <1> DEFINE S == {n \in Nat : n <= N => Watched(in, n, state[n])}
  <1>3. 0 \in S
    <2>1. Remembered(in.observations, 0, [k \in {} |-> 0])
      BY DEF Remembered
    <2>2. << >> \in Seq(FindingsOfLines(in)) /\ Len(<< >>) = 0
      BY EmptySeq
    <2>3. FoundChanges(in, 0, << >>)
      BY <2>2 DEF FoundChanges
    <2>4. /\ state[0].previous = [k \in {} |-> 0] /\ state[0].findings = << >>
          /\ state[0].refused = ~ Arp!InputAccepted(in)
      BY <1>2
    <2>5. Watched(in, 0, state[0])
      BY <2>1, <2>3, <2>4, Zenon DEF Watched
    <2> QED  BY <2>5
  <1>4. ASSUME NEW n \in Nat, n \in S PROVE n + 1 \in S
    <2> SUFFICES ASSUME n + 1 <= N PROVE Watched(in, n + 1, state[n + 1])
      OBVIOUS
    <2>1. n + 1 \in 1..N /\ (n + 1) - 1 = n /\ Watched(in, n, state[n])
      BY <1>1, <1>4
    <2>2. Watched(in, n + 1, Arp!Observe(in, state[n], n + 1))
      BY <2>1, ObserveWatches
    <2> QED  BY <1>2, <2>1, <2>2
  <1> HIDE DEF S
  <1>5. N \in S
    BY <1>1, <1>3, <1>4, InductiveSet
  <1> QED  BY <1>1, <1>2, <1>5 DEF S

\* The inputs of a review as they have been read
ReviewRead(in) ==
    /\ LinesRead(in.observations)
    /\ in.leases # Absent => LeasesRead(in.leases)
    /\ in.forwarding # Absent => EntriesRead(in.forwarding)
    /\ in.maxAge \in Int

PortsOf(in, x) == {in.forwarding[i].port : i \in RecentOf(in, x)}
Allows(in, x) == \E i \in RulesOf(in, x) : AllowedBy(in, x, i)

\* What the lease, the forwarding entries and the rule say of a finding about x
LeaseTold(in, x, f) ==
    in.leases # Absent =>
      (f.lease.status = "expected_reassignment" <=> \E i \in DOMAIN in.leases : Covers(in.leases[i], x))
ForwardingTold(in, x, f) ==
    in.forwarding # Absent =>
      /\ Arp!Range(f.forwarding.lines) = RecentOf(in, x)
      /\ f.forwarding.port_history = "port_move_observed" <=> Cardinality(PortsOf(in, x)) = 2
      /\ in.policy # Absent =>
           (f.forwarding.port_policy.status = "expected_port" <=> RecentOf(in, x) # {} /\ Allows(in, x))

PolicyClasses == {"expected_port", "unexpected_port", "no_matching_rule", "no_recent_forwarding_evidence"}

LEMMA LeaseIsTold ==
    ASSUME NEW in, ReviewRead(in), Arp!InputAccepted(in), NEW j \in DOMAIN in.observations, NEW i
    PROVE  LeaseTold(in, in.observations[j], Arp!Finding(in, i, j))
  <1> DEFINE x == in.observations[j]
             f == Arp!Finding(in, i, j)
  <1> SUFFICES ASSUME in.leases # Absent
               PROVE  f.lease.status = "expected_reassignment" <=>
                        \E k \in DOMAIN in.leases : Covers(in.leases[k], x)
    BY DEF LeaseTold
  <1>1. f.lease = Arp!LeaseStatus(in, x)
    BY DEF Arp!Finding
  <1>2. f.lease.status = IF Arp!ActiveLease(in.leases, x) > 0 THEN "expected_reassignment"
                         ELSE "unexplained_change"
    BY <1>1 DEF Arp!LeaseStatus
  <1>3. LeasesRead(in.leases) /\ x.time \in Nat
    BY DEF ReviewRead, LinesRead
  <1>4. Arp!LeasesAccepted(in.leases)
    BY DEF Arp!InputAccepted, Arp!OrEmpty
  <1> HIDE DEF x, f
  <1>5. Arp!ActiveLease(in.leases, x) > 0 <=> \E k \in DOMAIN in.leases : Covers(in.leases[k], x)
    <2>1. {k \in DOMAIN in.leases : Covers(in.leases[k], x)} =
            IF Arp!ActiveLease(in.leases, x) > 0 THEN {Arp!ActiveLease(in.leases, x)} ELSE {}
      BY <1>3, <1>4, ActiveLeaseCovers
    <2> QED  BY <2>1
  <1> QED  BY <1>2, <1>5

LEMMA TwoElements ==
    ASSUME NEW a, NEW b PROVE Cardinality({a, b}) = IF a = b THEN 1 ELSE 2
  <1>1. IsFiniteSet({a}) /\ Cardinality({a}) = 1
    BY FS_Singleton
  <1>2. Cardinality({a} \cup {b}) = IF b \in {a} THEN Cardinality({a}) ELSE Cardinality({a}) + 1
    BY <1>1, FS_AddElement
  <1>3. {a} \cup {b} = {a, b}
    OBVIOUS
  <1> QED  BY <1>1, <1>2, <1>3

\* h lists the recent captures about x, the older one first.
History(in, x, h) ==
    /\ Len(h) \in 0..2 /\ DOMAIN h = 1..Len(h) /\ h = [k \in 1..Len(h) |-> h[k]]
    /\ RecentOf(in, x) = {h[k] : k \in 1..Len(h)}
    /\ \A k \in 1..Len(h) : in.forwarding[h[k]].at \in Nat
    /\ \A k, l \in 1..Len(h) : in.forwarding[h[k]].at < in.forwarding[h[l]].at <=> k < l
    /\ Len(h) > 0 => Latest(in, x) = h[Len(h)]

HistoryOf(in, x) == Arp!RecentForwardingHistory(in.forwarding, x, in.maxAge)

LEMMA HistoryOrdered ==
    ASSUME NEW in, ReviewRead(in), Arp!InputAccepted(in), in.forwarding # Absent, NEW j \in DOMAIN in.observations
    PROVE  History(in, in.observations[j], HistoryOf(in, in.observations[j]))
  <1> DEFINE x == in.observations[j]
             E == in.forwarding
             h == HistoryOf(in, x)
             r == RecentOf(in, x)
             m == Cardinality(r)
  <1>1. EntriesRead(E) /\ x.time \in Nat /\ in.maxAge \in Int
    <2>1. EntriesRead(E)
      BY DEF ReviewRead
    <2>2. x.time \in Nat
      BY DEF ReviewRead, LinesRead
    <2>3. in.maxAge \in Int
      BY DEF ReviewRead
    <2> QED  BY <2>1, <2>2, <2>3, Zenon
  <1>2. Arp!ForwardingAccepted(E)
    BY DEF Arp!InputAccepted, Arp!OrEmpty
  <1>3. h = Arp!RecentForwardingHistory(E, x, in.maxAge) /\ r = Recent(E, x, in.maxAge)
    BY DEF HistoryOf, RecentOf
  <1> HIDE DEF x, h, r
  <1>4. /\ m \in 0..2 /\ h \in [1..m -> r] /\ \A k \in r : \E l \in 1..m : h[l] = k
        /\ \A k, l \in 1..m : E[h[k]].at < E[h[l]].at <=> k < l
        /\ r # {} => Newer(E, x, h[m]) = {}
    <2>1. InCaptureOrder(E, x, h, r, m)
      BY <1>1, <1>2, <1>3, HistoryIsRecent
    <2> HIDE DEF E, m
    <2> QED  BY <2>1 DEF InCaptureOrder
  <1> HIDE DEF m
  <1>5. Len(h) = m /\ DOMAIN h = 1..m /\ m \in Nat /\ h = [k \in 1..m |-> h[k]]
    BY <1>4, SequenceOf
  <1>6. r = {h[k] : k \in 1..m}
    BY <1>4
  <1>7. \A k \in r : k \in Captures(E, x) /\ k \in DOMAIN E /\ E[k].at \in Nat
    <2>1. \A k \in r : k \in Captures(E, x)
      BY <1>3 DEF Recent
    <2> QED  BY <1>1, <2>1 DEF Captures, EntriesRead
  <1>8. ASSUME m > 0 PROVE Latest(in, x) = h[m]
    <2>1. m \in 1..m /\ h[m] \in r
      BY <1>4, <1>8
    <2>2. ASSUME NEW k \in r, Newer(E, x, k) = {} PROVE k = h[m]
      <3>1. PICK l \in 1..m : h[l] = k
        BY <1>4
      <3>2. CASE l < m
        <4>1. E[h[l]].at < E[h[m]].at /\ h[m] \in Captures(E, x)
          BY <1>4, <1>7, <2>1, <3>2
        <4>2. E[h[m]].at \in Nat /\ E[h[l]].at \in Nat
          BY <1>4, <1>7, <2>1
        <4>3. h[m] \in Newer(E, x, k)
          BY <3>1, <4>1, <4>2 DEF Newer
        <4> QED  BY <2>2, <4>3
      <3>3. CASE ~ (l < m)
        BY <1>5, <3>1, <3>3
      <3> QED  BY <3>2, <3>3
    <2>3. Newer(E, x, h[m]) = {}
      BY <1>4, <2>1
    <2>4. Latest(in, x) = CHOOSE k \in r : Newer(E, x, k) = {}
      BY DEF Latest, r
    <2> QED  BY <2>1, <2>2, <2>3, <2>4
  <1>9. \A k \in 1..m : E[h[k]].at \in Nat
    BY <1>4, <1>7
  <1>10. History(in, x, h)
    BY <1>4, <1>5, <1>6, <1>8, <1>9 DEF History, r
  <1> QED  BY <1>10 DEF x, h

LEMMA ForwardingIsTold ==
    ASSUME NEW in, ReviewRead(in), Arp!InputAccepted(in), NEW j \in DOMAIN in.observations, NEW i
    PROVE  /\ ForwardingTold(in, in.observations[j], Arp!Finding(in, i, j))
           /\ in.policy # Absent => Arp!Finding(in, i, j).forwarding.port_policy.status \in PolicyClasses
  <1> DEFINE x == in.observations[j]
             f == Arp!Finding(in, i, j)
             E == in.forwarding
             h == HistoryOf(in, x)
             r == RecentOf(in, x)
             m == Len(h)
  <1>1. in.policy # Absent => E # Absent
    BY DEF Arp!InputAccepted
  <1> SUFFICES ASSUME E # Absent
               PROVE  /\ Arp!Range(f.forwarding.lines) = r
                      /\ f.forwarding.port_history = "port_move_observed" <=> Cardinality(PortsOf(in, x)) = 2
                      /\ in.policy # Absent =>
                           /\ f.forwarding.port_policy.status = "expected_port" <=> r # {} /\ Allows(in, x)
                           /\ f.forwarding.port_policy.status \in PolicyClasses
    BY <1>1 DEF ForwardingTold
  <1>2. /\ f.forwarding.lines = h
        /\ f.forwarding.port_history = Arp!PortHistoryStatus(in, h)
        /\ in.policy # Absent => f.forwarding.port_policy.status = Arp!PortPolicyStatus(in, x, h)
    <2>1. f.forwarding = Arp!ForwardingStatus(in, x)
      BY DEF Arp!Finding
    <2> HIDE DEF f, x
    <2> QED  BY <2>1 DEF Arp!ForwardingStatus, Arp!PolicyStatus, HistoryOf
  <1>3. /\ m \in 0..2 /\ DOMAIN h = 1..m /\ h = [k \in 1..m |-> h[k]] /\ r = {h[k] : k \in 1..m}
        /\ m > 0 => Latest(in, x) = h[m]
    BY HistoryOrdered DEF History
  <1> HIDE DEF f, x, h, r
  <1>4. Arp!Range(h) = r
    BY <1>3 DEF Arp!Range
  <1>5. Arp!PortHistoryStatus(in, h) = "port_move_observed" <=> Cardinality(PortsOf(in, x)) = 2
    <2>1. PortsOf(in, x) = {E[h[k]].port : k \in 1..m}
      BY <1>3 DEF PortsOf, r
    <2>2. CASE m = 0
      <3>1. PortsOf(in, x) = {}
        BY <2>1, <2>2
      <3>2. Cardinality(PortsOf(in, x)) = 0
        BY <3>1, FS_EmptySet
      <3> QED  BY <2>2, <3>2 DEF Arp!PortHistoryStatus
    <2>3. CASE m = 1
      <3>1. PortsOf(in, x) = {E[h[1]].port}
        BY <2>1, <2>3
      <3>2. Cardinality(PortsOf(in, x)) = 1
        BY <3>1, FS_Singleton
      <3> QED  BY <2>3, <3>2 DEF Arp!PortHistoryStatus
    <2>4. CASE m = 2
      <3> DEFINE older == E[h[1]].port
                 later == E[h[2]].port
      <3>1. PortsOf(in, x) = {older, later}
        BY <2>1, <2>4
      <3>2. Arp!PortHistoryStatus(in, h) = IF older # later THEN "port_move_observed" ELSE "stable_port"
        BY <2>4 DEF Arp!PortHistoryStatus
      <3> HIDE DEF older, later
      <3>3. Cardinality(PortsOf(in, x)) = IF older = later THEN 1 ELSE 2
        BY <3>1, TwoElements
      <3> QED  BY <3>2, <3>3
    <2> QED  BY <1>3, <2>2, <2>3, <2>4
  <1>6. /\ r = {} <=> h = << >>
        /\ h # << >> => Latest(in, x) = h[Len(h)]
    <2>1. m = 0 => h = << >> /\ r = {}
      BY <1>3
    <2>2. m > 0 => h # << >> /\ r # {}
      BY <1>3
    <2>3. m = 0 \/ m > 0
      BY <1>3
    <2>4. m > 0 => Latest(in, x) = h[Len(h)]
      BY <1>3
    <2> HIDE DEF m
    <2> QED  BY <2>1, <2>2, <2>3, <2>4
  <1>7. ASSUME in.policy # Absent
         PROVE  /\ Arp!PortPolicyStatus(in, x, h) = "expected_port" <=> r # {} /\ Allows(in, x)
                /\ Arp!PortPolicyStatus(in, x, h) \in PolicyClasses
    <2> DEFINE rule == {k \in DOMAIN in.policy : Arp!SameStation(in.policy[k], x)}
               s == Arp!PortPolicyStatus(in, x, h)
    <2>1. s = IF h = << >> THEN "no_recent_forwarding_evidence"
              ELSE IF rule = {} THEN "no_matching_rule"
              ELSE IF \E k \in rule : E[h[Len(h)]].port \in in.policy[k].ports
                THEN "expected_port" ELSE "unexpected_port"
      BY DEF Arp!PortPolicyStatus
    <2>2. s \in PolicyClasses
      BY <2>1 DEF PolicyClasses
    <2>3. s = "expected_port" <=> h # << >> /\ \E k \in rule : E[h[Len(h)]].port \in in.policy[k].ports
      BY <2>1
    <2>4. h # << >> => (Allows(in, x) <=> \E k \in rule : E[h[Len(h)]].port \in in.policy[k].ports)
      BY <1>6 DEF Allows, RulesOf, AllowedBy
    <2> QED  BY <1>6, <2>2, <2>3, <2>4
  <1> QED  BY <1>2, <1>4, <1>5, <1>7

LEMMA DisjointUnion ==
    ASSUME NEW S, NEW T, IsFiniteSet(S), IsFiniteSet(T), S \cap T = {}
    PROVE  IsFiniteSet(S \cup T) /\ Cardinality(S \cup T) = Cardinality(S) + Cardinality(T)
  <1>1. IsFiniteSet(S \cup T) /\ Cardinality(S \cup T) = Cardinality(S) + Cardinality(T) - Cardinality(S \cap T)
    BY FS_Union
  <1>2. Cardinality(S \cap T) = 0 /\ Cardinality(S) \in Nat /\ Cardinality(T) \in Nat
    BY FS_EmptySet, FS_CardinalityType
  <1> QED  BY <1>1, <1>2

\* Every finding is in one class of the policy.
LEMMA ClassesCountAll ==
    ASSUME NEW n \in Nat, NEW class, \A k \in 1..n : class[k] \in PolicyClasses
    PROVE  Cardinality({k \in 1..n : class[k] = "expected_port"})
             + Cardinality({k \in 1..n : class[k] = "unexpected_port"})
             + Cardinality({k \in 1..n : class[k] = "no_matching_rule"})
             + Cardinality({k \in 1..n : class[k] = "no_recent_forwarding_evidence"}) = n
  <1> DEFINE A == {k \in 1..n : class[k] = "expected_port"}
             B == {k \in 1..n : class[k] = "unexpected_port"}
             C == {k \in 1..n : class[k] = "no_matching_rule"}
             D == {k \in 1..n : class[k] = "no_recent_forwarding_evidence"}
  <1>1. IsFiniteSet(1..n) /\ Cardinality(1..n) = n
    <2>1. 1 \in Int /\ n \in Int /\ IsFiniteSet(1..n) /\ Cardinality(1..n) = IF 1 > n THEN 0 ELSE n - 1 + 1
      BY FS_Interval
    <2> QED  BY <2>1
  <1>2. {A, B, C, D} \subseteq SUBSET (1..n)
    OBVIOUS
  <1>3. A \cap B = {} /\ (A \cup B) \cap C = {} /\ (A \cup B \cup C) \cap D = {}
    OBVIOUS
  <1>4. A \cup B \cup C \cup D = 1..n
    BY DEF PolicyClasses
  <1> HIDE DEF A, B, C, D
  <1>5. IsFiniteSet(A) /\ IsFiniteSet(B) /\ IsFiniteSet(C) /\ IsFiniteSet(D)
    <2>1. \A S \in SUBSET (1..n) : IsFiniteSet(S)
      BY <1>1, FS_Subset
    <2> QED  BY <1>2, <2>1
  <1>6. IsFiniteSet(A \cup B) /\ Cardinality(A \cup B) = Cardinality(A) + Cardinality(B)
    BY <1>3, <1>5, DisjointUnion
  <1>7. /\ IsFiniteSet((A \cup B) \cup C)
        /\ Cardinality((A \cup B) \cup C) = Cardinality(A \cup B) + Cardinality(C)
    BY <1>3, <1>5, <1>6, DisjointUnion
  <1>8. Cardinality((A \cup B \cup C) \cup D) = Cardinality(A \cup B \cup C) + Cardinality(D)
    BY <1>3, <1>5, <1>7, DisjointUnion
  <1> QED  BY <1>1, <1>4, <1>6, <1>7, <1>8 DEF A, B, C, D

\* What ArpFindingsExplained says of the answer a to in
ExplainsFindings(in, a) ==
    a # Refused =>
      /\ in.policy # Absent =>
           a.policy["expected_port"] + a.policy["unexpected_port"] + a.policy["no_matching_rule"]
             + a.policy["no_recent_forwarding_evidence"] = Len(a.findings)
      /\ {<<f.previous_line, f.current_line>> : f \in Arp!Range(a.findings)} = ChangesOf(in)
      /\ \A k \in DOMAIN a.findings :
           LET f == a.findings[k]
               x == in.observations[f.current_line]
           IN  LeaseTold(in, x, f) /\ ForwardingTold(in, x, f)

\* What is reported: the findings of the loop
LEMMA ReviewReports ==
    ASSUME NEW in, LinesRead(in.observations), Arp!ReviewLines(in) # Refused
    PROVE  LET F == Arp!Observed(in).findings
           IN  /\ Arp!InputAccepted(in) /\ FoundChanges(in, Len(in.observations), F)
               /\ Arp!ReviewLines(in) = Arp!Reconciled(in, F)
               /\ Arp!Reconciled(in, F).findings = F
               /\ Len(F) \in Nat /\ DOMAIN F = 1..Len(F)
  <1> DEFINE end == Arp!Observed(in)
             F == end.findings
  <1>1. ~ end.refused /\ Arp!ReviewLines(in) = Arp!Reconciled(in, F)
    BY DEF Arp!ReviewLines
  <1>2. Watched(in, Len(in.observations), end)
    BY ObservedWatches
  <1> HIDE DEF end
  <1>3. Arp!InputAccepted(in) /\ FoundChanges(in, Len(in.observations), F)
    BY <1>1, <1>2 DEF Watched
  <1>4. Arp!Reconciled(in, F).findings = F
    BY DEF Arp!Reconciled, Arp!Report
  <1>5. Len(F) \in Nat /\ DOMAIN F = 1..Len(F)
    <2>1. F \in Seq(FindingsOfLines(in))
      BY <1>3 DEF FoundChanges
    <2> HIDE DEF F
    <2> QED  BY <2>1, LenProperties
  <1> QED  BY <1>1, <1>3, <1>4, <1>5 DEF end

LEMMA ReviewExplains ==
    ASSUME NEW in, ReviewRead(in) PROVE ExplainsFindings(in, Arp!ReviewLines(in))
  <1> DEFINE a == Arp!ReviewLines(in)
             F == Arp!Observed(in).findings
             o == in.observations
             N == Len(o)
             changed == ChangesOf(in)
  <1> SUFFICES ASSUME a # Refused PROVE ExplainsFindings(in, a)
    BY DEF ExplainsFindings
  <1>1. LinesRead(o)
    BY DEF ReviewRead
  <1>2. /\ Arp!InputAccepted(in) /\ FoundChanges(in, N, F) /\ a = Arp!Reconciled(in, F) /\ a.findings = F
        /\ Len(F) \in Nat /\ DOMAIN F = 1..Len(F)
    BY <1>1, ReviewReports
  <1> HIDE DEF a, F
  <1>3. DOMAIN o = 1..N
    BY <1>1 DEF LinesRead
  <1>4. ASSUME NEW k \in 1..Len(F)
        PROVE  /\ F[k].previous_line \in 1..N /\ F[k].current_line \in 1..N
               /\ Changes(in, F[k].previous_line, F[k].current_line)
               /\ F[k] = Arp!Finding(in, F[k].previous_line, F[k].current_line)
    BY <1>2 DEF FoundChanges
  <1>5. {<<f.previous_line, f.current_line>> : f \in Arp!Range(F)} = changed
    <2>1. Arp!Range(F) = {F[k] : k \in 1..Len(F)}
      BY <1>2 DEF Arp!Range
    <2>2. \A i, j \in 1..N : <<i, j>> \in changed <=> Changes(in, i, j)
      BY <1>3 DEF ChangesOf
    <2>3. changed \subseteq (1..N) \X (1..N)
      BY <1>3 DEF ChangesOf
    <2> HIDE DEF changed
    <2>4. ASSUME NEW k \in 1..Len(F) PROVE <<F[k].previous_line, F[k].current_line>> \in changed
      BY <1>4, <2>2
    <2>5. ASSUME NEW e \in changed
          PROVE  \E k \in 1..Len(F) : e = <<F[k].previous_line, F[k].current_line>>
      <3>1. PICK i \in 1..N, j \in 1..N : e = <<i, j>>
        BY <2>3
      <3>2. Changes(in, i, j)
        BY <2>2, <3>1
      <3>3. PICK k \in 1..Len(F) : F[k].previous_line = i /\ F[k].current_line = j
        BY <1>2, <3>2 DEF FoundChanges
      <3> QED  BY <3>1, <3>3
    <2> QED  BY <2>1, <2>4, <2>5
  <1>6. ASSUME NEW k \in 1..Len(F)
        PROVE  LeaseTold(in, o[F[k].current_line], F[k]) /\ ForwardingTold(in, o[F[k].current_line], F[k])
    <2>1. F[k].current_line \in DOMAIN o
      BY <1>3, <1>4
    <2>2. F[k] = Arp!Finding(in, F[k].previous_line, F[k].current_line)
      BY <1>4
    <2> DEFINE i == F[k].previous_line
               j == F[k].current_line
    <2>3. LeaseTold(in, o[j], Arp!Finding(in, i, j)) /\ ForwardingTold(in, o[j], Arp!Finding(in, i, j))
      BY <1>2, <2>1, LeaseIsTold, ForwardingIsTold
    <2> QED  BY <2>2, <2>3
  <1>7. ASSUME in.policy # Absent
        PROVE  a.policy["expected_port"] + a.policy["unexpected_port"] + a.policy["no_matching_rule"]
                 + a.policy["no_recent_forwarding_evidence"] = Len(a.findings)
    <2> DEFINE class == [k \in DOMAIN F |-> F[k].forwarding.port_policy.status]
               S(s) == {k \in 1..Len(F) : class[k] = s}
    <2>1. \A s \in PolicyClasses : a.policy[s] = Cardinality(S(s))
      <3>1. a.policy = [s \in {"expected_port", "unexpected_port", "no_matching_rule",
                              "no_recent_forwarding_evidence"} |-> Arp!Count(class, s)]
        BY <1>2, <1>7 DEF Arp!Reconciled, Arp!Report
      <3>2. \A s : Arp!Count(class, s) = Cardinality(S(s))
        BY <1>2, ArpCardinality DEF Arp!Count
      <3> HIDE DEF class, S
      <3> QED  BY <3>1, <3>2 DEF PolicyClasses
    <2>2. \A k \in 1..Len(F) : class[k] \in PolicyClasses
      <3> SUFFICES ASSUME NEW k \in 1..Len(F) PROVE class[k] \in PolicyClasses
        OBVIOUS
      <3> DEFINE i == F[k].previous_line
                 j == F[k].current_line
      <3>1. j \in DOMAIN o /\ F[k] = Arp!Finding(in, i, j)
        BY <1>3, <1>4
      <3>2. Arp!Finding(in, i, j).forwarding.port_policy.status \in PolicyClasses
        BY <1>2, <1>7, <3>1, ForwardingIsTold
      <3>3. class[k] = F[k].forwarding.port_policy.status
        BY <1>2
      <3> HIDE DEF class, i, j
      <3> QED  BY <3>1, <3>2, <3>3
    <2> HIDE DEF class
    <2>3. Cardinality(S("expected_port")) + Cardinality(S("unexpected_port"))
            + Cardinality(S("no_matching_rule")) + Cardinality(S("no_recent_forwarding_evidence")) = Len(F)
      BY <1>2, <2>2, ClassesCountAll
    <2> HIDE DEF S
    <2> QED  BY <1>2, <2>1, <2>3 DEF PolicyClasses
  <1>8. a.findings = F /\ DOMAIN a.findings = 1..Len(F)
    BY <1>2
  <1> QED  BY <1>5, <1>6, <1>7, <1>8 DEF ExplainsFindings

\* The parts of the evidence about x
LeaseEvidence(in, x) ==
    IF in.leases = Absent THEN {} ELSE {{k \in DOMAIN in.leases : Covers(in.leases[k], x)}}
CapturesOf(in, x) ==
    {<<k, in.forwarding[k].port, in.forwarding[Latest(in, x)].at - in.forwarding[k].at>> : k \in RecentOf(in, x)}
CaptureEvidence(in, x) == IF in.forwarding = Absent THEN {} ELSE {CapturesOf(in, x)}
Consulted(in, x) == IF RecentOf(in, x) = {} THEN {} ELSE RulesOf(in, x)
Allowing(in, x) == {k \in Consulted(in, x) : AllowedBy(in, x, k)}
RuleEvidence(in, x) ==
    IF in.forwarding = Absent \/ in.policy = Absent THEN {} ELSE {<<Consulted(in, x), Allowing(in, x)>>}

\* The lease fields with the line of the active lease, and the lines of the leases
LeaseFields(line) ==
    [status |-> IF line > 0 THEN "expected_reassignment" ELSE "unexplained_change", line |-> line]
LeaseLines(line) == IF line > 0 THEN {line} ELSE {}

LEMMA LeaseTells ==
    ASSUME NEW in, ReviewRead(in), Arp!InputAccepted(in), in.leases # Absent, NEW j \in DOMAIN in.observations
    PROVE  \E line \in Nat : /\ Arp!LeaseStatus(in, in.observations[j]) = LeaseFields(line)
                             /\ LeaseEvidence(in, in.observations[j]) = {LeaseLines(line)}
  <1> DEFINE x == in.observations[j]
             line == Arp!ActiveLease(in.leases, x)
  <1>1. LeasesRead(in.leases) /\ x.time \in Nat
    BY DEF ReviewRead, LinesRead
  <1>2. Arp!LeasesAccepted(in.leases)
    BY DEF Arp!InputAccepted, Arp!OrEmpty
  <1> HIDE DEF x
  <1>3. line \in Nat /\ {i \in DOMAIN in.leases : Covers(in.leases[i], x)} = LeaseLines(line)
    BY <1>1, <1>2, ActiveLeaseCovers DEF LeaseLines
  <1>4. Arp!LeaseStatus(in, x) = LeaseFields(line)
    BY DEF Arp!LeaseStatus, LeaseFields
  <1>5. LeaseEvidence(in, x) = {LeaseLines(line)}
    BY <1>3 DEF LeaseEvidence
  <1> HIDE DEF line
  <1> QED  BY <1>3, <1>4, <1>5 DEF x

LEMMA LeaseFieldsTell ==
    ASSUME NEW a \in Nat, NEW b \in Nat
    PROVE  /\ LeaseFields(a) # << >>
           /\ LeaseFields(a) = LeaseFields(b) <=> LeaseLines(a) = LeaseLines(b)
  <1>1. "line" \in DOMAIN LeaseFields(a) /\ "line" \notin DOMAIN << >>
    BY DEF LeaseFields
  <1>2. LeaseFields(a) = LeaseFields(b) <=> a = b
    <2>1. LeaseFields(a).line = a /\ LeaseFields(b).line = b
      BY DEF LeaseFields
    <2> QED  BY <2>1
  <1>3. LeaseLines(a) = LeaseLines(b) <=> a = b
    BY DEF LeaseLines
  <1> QED  BY <1>1, <1>2, <1>3

\* The lease fields of two findings are the same iff the same lease covers both.
LEMMA SameLeases ==
    ASSUME NEW in, ReviewRead(in), Arp!InputAccepted(in), NEW j \in DOMAIN in.observations,
           NEW jn, ReviewRead(jn), Arp!InputAccepted(jn), NEW l \in DOMAIN jn.observations
    PROVE  Arp!LeaseStatus(in, in.observations[j]) = Arp!LeaseStatus(jn, jn.observations[l])
             <=> LeaseEvidence(in, in.observations[j]) = LeaseEvidence(jn, jn.observations[l])
  <1> DEFINE x == in.observations[j]
             y == jn.observations[l]
  <1>1. /\ in.leases = Absent => Arp!LeaseStatus(in, x) = << >> /\ LeaseEvidence(in, x) = {}
        /\ jn.leases = Absent => Arp!LeaseStatus(jn, y) = << >> /\ LeaseEvidence(jn, y) = {}
    BY DEF Arp!LeaseStatus, LeaseEvidence
  <1>2. in.leases # Absent => \E a \in Nat : /\ Arp!LeaseStatus(in, x) = LeaseFields(a)
                                             /\ LeaseEvidence(in, x) = {LeaseLines(a)}
    BY LeaseTells
  <1>3. jn.leases # Absent => \E b \in Nat : /\ Arp!LeaseStatus(jn, y) = LeaseFields(b)
                                             /\ LeaseEvidence(jn, y) = {LeaseLines(b)}
    BY LeaseTells
  <1> DEFINE s == Arp!LeaseStatus(in, x)
             t == Arp!LeaseStatus(jn, y)
             S == LeaseEvidence(in, x)
             T == LeaseEvidence(jn, y)
  <1> SUFFICES s = t <=> S = T
    OBVIOUS
  <1> HIDE DEF x, y, s, t, S, T
  <1>4. CASE in.leases = Absent /\ jn.leases = Absent
    <2>1. s = << >> /\ S = {} /\ t = << >> /\ T = {}
      BY <1>1, <1>4 DEF s, t, S, T
    <2> QED  BY <2>1
  <1>5. CASE in.leases = Absent /\ jn.leases # Absent
    <2>1. PICK b \in Nat : t = LeaseFields(b) /\ T = {LeaseLines(b)}
      BY <1>3, <1>5 DEF t, T
    <2>2. s = << >> /\ S = {} /\ t # << >> /\ T # {}
      BY <1>1, <1>5, <2>1, LeaseFieldsTell DEF s, S
    <2> QED  BY <2>2
  <1>6. CASE in.leases # Absent /\ jn.leases = Absent
    <2>1. PICK a \in Nat : s = LeaseFields(a) /\ S = {LeaseLines(a)}
      BY <1>2, <1>6 DEF s, S
    <2>2. t = << >> /\ T = {} /\ s # << >> /\ S # {}
      BY <1>1, <1>6, <2>1, LeaseFieldsTell DEF t, T
    <2> QED  BY <2>2
  <1>7. CASE in.leases # Absent /\ jn.leases # Absent
    <2>1. PICK a \in Nat : s = LeaseFields(a) /\ S = {LeaseLines(a)}
      BY <1>2, <1>7 DEF s, S
    <2>2. PICK b \in Nat : t = LeaseFields(b) /\ T = {LeaseLines(b)}
      BY <1>3, <1>7 DEF t, T
    <2>3. LeaseFields(a) = LeaseFields(b) <=> LeaseLines(a) = LeaseLines(b)
      BY LeaseFieldsTell
    <2>4. {LeaseLines(a)} = {LeaseLines(b)} <=> LeaseLines(a) = LeaseLines(b)
      OBVIOUS
    <2> QED  BY <2>1, <2>2, <2>3, <2>4
  <1> QED  BY <1>4, <1>5, <1>6, <1>7

\* What a history of captures at the lines h with the ports p tells: each line and port,
\* with the seconds from the older to the latest.
Tells(h, p, elapsed) ==
    IF Len(h) = 0 THEN {}
    ELSE IF Len(h) = 1 THEN {<<h[1], p[1], 0>>}
    ELSE {<<h[1], p[1], elapsed>>, <<h[2], p[2], 0>>}

\* A history with its ports and its elapsed seconds
HistoryTold(h, p, elapsed) ==
    /\ Len(h) \in 0..2 /\ h = [k \in 1..Len(h) |-> h[k]] /\ p = [k \in 1..Len(h) |-> p[k]]
    /\ IF Len(h) < 2 THEN elapsed = Absent ELSE elapsed \in Int /\ elapsed > 0

LEMMA HistoryTells ==
    ASSUME NEW in, NEW x, NEW h, History(in, x, h)
    PROVE  /\ HistoryTold(h, Arp!PortsOfHistory(in, h), Arp!PortHistoryElapsed(in, h))
           /\ CapturesOf(in, x) = Tells(h, Arp!PortsOfHistory(in, h), Arp!PortHistoryElapsed(in, h))
  <1> DEFINE m == Len(h)
             E == in.forwarding
             p == Arp!PortsOfHistory(in, h)
             elapsed == Arp!PortHistoryElapsed(in, h)
             capture(k) == <<h[k], E[h[k]].port, E[h[m]].at - E[h[k]].at>>
  <1>1. /\ m \in 0..2 /\ DOMAIN h = 1..m /\ h = [k \in 1..m |-> h[k]]
        /\ RecentOf(in, x) = {h[k] : k \in 1..m} /\ \A k \in 1..m : E[h[k]].at \in Nat
        /\ \A k, l \in 1..m : E[h[k]].at < E[h[l]].at <=> k < l
        /\ m > 0 => Latest(in, x) = h[m]
    BY DEF History
  <1>2. p = [k \in 1..m |-> E[h[k]].port]
    BY <1>1 DEF Arp!PortsOfHistory
  <1>3. elapsed = IF m < 2 THEN Absent ELSE E[h[2]].at - E[h[1]].at
    BY DEF Arp!PortHistoryElapsed
  <1>4. m > 0 => CapturesOf(in, x) = {capture(k) : k \in 1..m}
    BY <1>1 DEF CapturesOf
  <1>5. m = 0 => CapturesOf(in, x) = {}
    BY <1>1 DEF CapturesOf
  <1> HIDE DEF E, p, elapsed
  <1>6. HistoryTold(h, p, elapsed)
    <2>1. p = [k \in 1..m |-> p[k]]
      BY <1>2
    <2>2. m = 2 => E[h[1]].at < E[h[2]].at /\ E[h[1]].at \in Nat /\ E[h[2]].at \in Nat
      BY <1>1
    <2>3. IF m < 2 THEN elapsed = Absent ELSE elapsed \in Int /\ elapsed > 0
      BY <1>1, <1>3, <2>2
    <2> QED  BY <1>1, <2>1, <2>3 DEF HistoryTold
  <1>7. CapturesOf(in, x) = Tells(h, p, elapsed)
    <2>1. CASE m = 0
      BY <1>5, <2>1 DEF Tells
    <2>2. CASE m = 1
      <3>1. {capture(k) : k \in 1..m} = {capture(1)}
        BY <2>2
      <3>2. capture(1) = <<h[1], p[1], 0>>
        BY <1>1, <1>2, <2>2
      <3> QED  BY <1>4, <2>2, <3>1, <3>2 DEF Tells
    <2>3. CASE m = 2
      <3>1. {capture(k) : k \in 1..m} = {capture(1), capture(2)}
        BY <2>3
      <3>2. capture(1) = <<h[1], p[1], elapsed>> /\ capture(2) = <<h[2], p[2], 0>>
        BY <1>1, <1>2, <1>3, <2>3
      <3> HIDE DEF capture
      <3> QED  BY <1>4, <2>3, <3>1, <3>2 DEF Tells
    <2> QED  BY <1>1, <2>1, <2>2, <2>3
  <1> QED  BY <1>6, <1>7 DEF p, elapsed

LEMMA SameHistories ==
    ASSUME NEW h, NEW p, NEW e, HistoryTold(h, p, e), NEW g, NEW r, NEW f, HistoryTold(g, r, f)
    PROVE  Tells(h, p, e) = Tells(g, r, f) <=> h = g /\ p = r /\ e = f
  <1> SUFFICES ASSUME NEW T, T = Tells(h, p, e), T = Tells(g, r, f) PROVE h = g /\ p = r /\ e = f
    OBVIOUS
  <1>1. /\ Len(h) \in 0..2 /\ h = [k \in 1..Len(h) |-> h[k]] /\ p = [k \in 1..Len(h) |-> p[k]]
        /\ IF Len(h) < 2 THEN e = Absent ELSE e \in Int /\ e > 0
    BY DEF HistoryTold
  <1>2. /\ Len(g) \in 0..2 /\ g = [k \in 1..Len(g) |-> g[k]] /\ r = [k \in 1..Len(g) |-> r[k]]
        /\ IF Len(g) < 2 THEN f = Absent ELSE f \in Int /\ f > 0
    BY DEF HistoryTold
  <1>3. /\ Len(h) = 0 => T = {}
        /\ Len(h) = 1 => T = {<<h[1], p[1], 0>>}
        /\ Len(h) = 2 => T = {<<h[1], p[1], e>>, <<h[2], p[2], 0>>}
    BY DEF Tells
  <1>4. /\ Len(g) = 0 => T = {}
        /\ Len(g) = 1 => T = {<<g[1], r[1], 0>>}
        /\ Len(g) = 2 => T = {<<g[1], r[1], f>>, <<g[2], r[2], 0>>}
    BY DEF Tells
  <1>5. Len(h) = Len(g) /\ \A k \in 1..Len(h) : h[k] = g[k] /\ p[k] = r[k]
    <2>1. CASE Len(h) = 0
      <3>1. T = {} /\ T # {<<g[1], r[1], 0>>} /\ T # {<<g[1], r[1], f>>, <<g[2], r[2], 0>>}
        <4>1. T = {}
          BY <1>3, <2>1
        <4> QED  BY <4>1
      <3>2. Len(g) = 0
        BY <1>2, <1>4, <3>1
      <3> QED  BY <2>1, <3>2
    <2>2. CASE Len(h) = 1
      <3>1. T = {<<h[1], p[1], 0>>} /\ T # {}
        BY <1>3, <2>2
      <3>2. Len(g) # 0 /\ Len(g) # 2
        <4>1. Len(g) = 2 => <<g[1], r[1], f>> \in T /\ f # 0
          BY <1>2, <1>4
        <4>2. <<g[1], r[1], f>> \in T => <<g[1], r[1], f>> = <<h[1], p[1], 0>>
          BY <3>1
        <4>3. <<g[1], r[1], f>> \in T => f = 0
          BY <4>2
        <4>4. Len(g) # 2
          BY <4>1, <4>3
        <4> QED  BY <1>4, <3>1, <4>4
      <3>3. Len(g) = 1 /\ <<h[1], p[1], 0>> = <<g[1], r[1], 0>>
        BY <1>2, <1>4, <3>1, <3>2
      <3> QED  BY <2>2, <3>3
    <2>3. CASE Len(h) = 2
      <3>1. T = {<<h[1], p[1], e>>, <<h[2], p[2], 0>>}
        BY <1>3, <2>3
      <3>2. e # 0
        BY <1>1, <2>3
      <3>3. Len(g) = 2
        <4>1. <<h[1], p[1], e>> \in T /\ T # {}
          BY <3>1
        <4>2. ASSUME Len(g) = 1 PROVE FALSE
          <5>1. <<h[1], p[1], e>> = <<g[1], r[1], 0>>
            BY <1>4, <4>1, <4>2
          <5>2. e = 0
            BY <5>1
          <5> QED  BY <3>2, <5>2
        <4>3. Len(g) # 0
          BY <1>4, <4>1
        <4> QED  BY <1>2, <4>2, <4>3
      <3>4. T = {<<g[1], r[1], f>>, <<g[2], r[2], 0>>} /\ f # 0
        BY <1>2, <1>4, <3>3
      <3>5. <<h[1], p[1], e>> = <<g[1], r[1], f>> /\ <<h[2], p[2], 0>> = <<g[2], r[2], 0>>
        BY <3>1, <3>2, <3>4
      <3> QED  BY <2>3, <3>3, <3>5
    <2> QED  BY <1>1, <2>1, <2>2, <2>3
  <1>6. e = f
    <2>1. CASE Len(h) < 2
      BY <1>1, <1>2, <1>5, <2>1
    <2>2. CASE Len(h) = 2
      <3>1. /\ T = {<<h[1], p[1], e>>, <<h[2], p[2], 0>>} /\ T = {<<g[1], r[1], f>>, <<g[2], r[2], 0>>}
            /\ e # 0 /\ f # 0
        BY <1>1, <1>2, <1>3, <1>4, <1>5, <2>2
      <3>2. <<h[1], p[1], e>> = <<g[1], r[1], f>>
        BY <3>1
      <3> QED  BY <3>2
    <2> QED  BY <1>1, <2>1, <2>2
  <1> QED  BY <1>1, <1>2, <1>5, <1>6

\* The policy fields with the rules that were consulted and those that allow the port
PolicyFields(rules, allowing, recent) ==
    [status |-> IF ~ recent THEN "no_recent_forwarding_evidence"
                ELSE IF rules = {} THEN "no_matching_rule"
                ELSE IF allowing # {} THEN "expected_port" ELSE "unexpected_port",
     line |-> rules]

\* One rule at most, and it allows the port or not
OneRule(rules, allowing, recent) ==
    /\ ~ recent => rules = {}
    /\ allowing = {} \/ allowing = rules

LEMMA PolicyTells ==
    ASSUME NEW in, Arp!InputAccepted(in), in.policy # Absent, NEW x, NEW h, History(in, x, h)
    PROVE  /\ OneRule(Consulted(in, x), Allowing(in, x), h # << >>)
           /\ Arp!PolicyStatus(in, x, h) = PolicyFields(Consulted(in, x), Allowing(in, x), h # << >>)
  <1> DEFINE R == RulesOf(in, x)
             C == Consulted(in, x)
             A == Allowing(in, x)
             port == in.forwarding[h[Len(h)]].port
             P == Arp!PolicyStatus(in, x, h)
  <1>1. /\ RecentOf(in, x) = {} <=> h = << >>
        /\ h # << >> => Latest(in, x) = h[Len(h)]
    <2>1. /\ Len(h) \in 0..2 /\ h = [k \in 1..Len(h) |-> h[k]]
          /\ RecentOf(in, x) = {h[k] : k \in 1..Len(h)}
          /\ Len(h) > 0 => Latest(in, x) = h[Len(h)]
      BY DEF History
    <2>2. Len(h) = 0 => h = << >> /\ RecentOf(in, x) = {}
      BY <2>1
    <2>3. Len(h) > 0 => h # << >> /\ RecentOf(in, x) # {}
      BY <2>1
    <2>4. Len(h) = 0 \/ Len(h) > 0
      BY <2>1
    <2>5. Len(h) > 0 => Latest(in, x) = h[Len(h)]
      BY <2>1
    <2> QED  BY <2>2, <2>3, <2>4, <2>5
  <1>2. \A k, l \in R : k = l
    <2>1. \A i, j \in DOMAIN in.policy : Arp!SameStation(in.policy[i], in.policy[j]) => i = j
      <3>1. Arp!PortPolicyAccepted(in.policy)
        BY DEF Arp!InputAccepted, Arp!OrEmpty
      <3> QED  BY <3>1 DEF Arp!PortPolicyAccepted
    <2>2. \A k, l \in R : Arp!SameStation(in.policy[k], in.policy[l]) /\ k \in DOMAIN in.policy /\ l \in DOMAIN in.policy
      BY DEF RulesOf, Arp!SameStation
    <2> QED  BY <2>1, <2>2
  <1>3. P = [status |-> Arp!PortPolicyStatus(in, x, h), line |-> Arp!PortPolicyLine(in, x, h)]
    BY DEF Arp!PolicyStatus
  <1>4. Arp!PortPolicyLine(in, x, h) = IF h = << >> THEN {} ELSE R
    BY DEF Arp!PortPolicyLine, RulesOf
  <1>5. Arp!PortPolicyStatus(in, x, h) =
          IF h = << >> THEN "no_recent_forwarding_evidence"
          ELSE IF R = {} THEN "no_matching_rule"
          ELSE IF \E i \in R : port \in in.policy[i].ports THEN "expected_port" ELSE "unexpected_port"
    BY DEF Arp!PortPolicyStatus, RulesOf
  <1>6. C = IF h = << >> THEN {} ELSE R
    BY <1>1 DEF Consulted
  <1>7. h # << >> => \A k : AllowedBy(in, x, k) <=> port \in in.policy[k].ports
    BY <1>1 DEF AllowedBy
  <1>8. A = {k \in C : AllowedBy(in, x, k)}
    BY DEF Allowing
  <1> HIDE DEF R, C, A, port, P
  <1>9. OneRule(C, A, h # << >>)
    <2>1. \A k, l \in C : k = l
      BY <1>2, <1>6
    <2>2. A = {} \/ A = C
      BY <1>8, <2>1
    <2> QED  BY <1>6, <2>2 DEF OneRule
  <1>10. Arp!PortPolicyStatus(in, x, h) = PolicyFields(C, A, h # << >>).status
    <2>1. CASE h = << >>
      BY <1>5, <2>1 DEF PolicyFields
    <2>2. CASE h # << >>
      <3>1. C = R /\ A = {k \in R : port \in in.policy[k].ports}
        BY <1>6, <1>7, <1>8, <2>2
      <3>2. A # {} <=> \E k \in R : port \in in.policy[k].ports
        BY <3>1
      <3>3. PolicyFields(C, A, TRUE).status =
              IF C = {} THEN "no_matching_rule" ELSE IF A # {} THEN "expected_port" ELSE "unexpected_port"
        BY DEF PolicyFields
      <3> QED  BY <1>5, <2>2, <3>1, <3>2, <3>3
    <2> QED  BY <2>1, <2>2
  <1>11. P = PolicyFields(C, A, h # << >>)
    <2>1. Arp!PortPolicyLine(in, x, h) = C
      BY <1>4, <1>6
    <2> QED  BY <1>3, <1>10, <2>1 DEF PolicyFields
  <1> QED  BY <1>9, <1>11 DEF C, A, P

LEMMA SameRules ==
    ASSUME NEW C, NEW A, NEW D, NEW B, NEW recent, OneRule(C, A, recent), OneRule(D, B, recent)
    PROVE  /\ PolicyFields(C, A, recent) # << >>
           /\ PolicyFields(C, A, recent) = PolicyFields(D, B, recent) <=> <<C, A>> = <<D, B>>
  <1>1. "line" \in DOMAIN PolicyFields(C, A, recent) /\ "line" \notin DOMAIN << >>
    BY DEF PolicyFields
  <1>2. ASSUME PolicyFields(C, A, recent) = PolicyFields(D, B, recent) PROVE C = D /\ A = B
    <2>1. PolicyFields(C, A, recent).line = C /\ PolicyFields(D, B, recent).line = D
      BY DEF PolicyFields
    <2>2. C = D
      BY <1>2, <2>1
    <2>3. CASE C = {}
      BY <2>2, <2>3 DEF OneRule
    <2>4. CASE C # {}
      <3>1. recent
        BY <2>4 DEF OneRule
      <3>2. /\ PolicyFields(C, A, recent).status = "expected_port" <=> A # {}
            /\ PolicyFields(D, B, recent).status = "expected_port" <=> B # {}
        BY <2>2, <2>4, <3>1 DEF PolicyFields
      <3>3. A = {} <=> B = {}
        BY <1>2, <3>2
      <3> QED  BY <2>2, <3>3 DEF OneRule
    <2> QED  BY <2>3, <2>4
  <1> QED  BY <1>1, <1>2

\* The forwarding fields with a history and the policy fields
ForwardingFields(h, p, elapsed, policy) ==
    [status |-> IF h = << >> THEN "no_recent_current_mac" ELSE "current_mac_observed",
     lines |-> h,
     ports |-> p,
     port_history |-> IF Len(h) < 2 THEN "insufficient_history"
                      ELSE IF p[1] # p[2] THEN "port_move_observed" ELSE "stable_port",
     elapsed |-> elapsed,
     port_policy |-> policy]

\* The policy fields and the evidence of the rules
PolicyTold(policy, evidence, recent) ==
    \/ policy = << >> /\ evidence = {}
    \/ \E C, A : /\ OneRule(C, A, recent) /\ policy = PolicyFields(C, A, recent)
                 /\ evidence = {<<C, A>>}

ForwardingHolds(fields, captures, rules) ==
    \E h, p, elapsed, policy :
       /\ HistoryTold(h, p, elapsed) /\ captures = {Tells(h, p, elapsed)}
       /\ PolicyTold(policy, rules, h # << >>)
       /\ fields = ForwardingFields(h, p, elapsed, policy)

LEMMA ForwardingTells ==
    ASSUME NEW in, ReviewRead(in), Arp!InputAccepted(in), in.forwarding # Absent, NEW j \in DOMAIN in.observations
    PROVE  LET x == in.observations[j]
           IN  ForwardingHolds(Arp!ForwardingStatus(in, x), CaptureEvidence(in, x), RuleEvidence(in, x))
  <1> DEFINE x == in.observations[j]
             h == HistoryOf(in, x)
             p == Arp!PortsOfHistory(in, h)
             elapsed == Arp!PortHistoryElapsed(in, h)
             policy == Arp!PolicyStatus(in, x, h)
             rules == RuleEvidence(in, x)
  <1>1. History(in, x, h)
    BY HistoryOrdered
  <1> HIDE DEF x
  <1>2. Arp!ForwardingStatus(in, x) =
          [status |-> IF h = << >> THEN "no_recent_current_mac" ELSE "current_mac_observed",
           lines |-> h, ports |-> p, port_history |-> Arp!PortHistoryStatus(in, h),
           elapsed |-> elapsed, port_policy |-> policy]
    BY DEF Arp!ForwardingStatus, HistoryOf
  <1> HIDE DEF h, policy, rules
  <1>3. HistoryTold(h, p, elapsed) /\ CapturesOf(in, x) = Tells(h, p, elapsed)
    BY <1>1, HistoryTells
  <1>4. CaptureEvidence(in, x) = {Tells(h, p, elapsed)}
    BY <1>3 DEF CaptureEvidence
  <1>5. PolicyTold(policy, rules, h # << >>)
    <2>1. CASE in.policy = Absent
      BY <2>1 DEF PolicyTold, policy, rules, RuleEvidence, Arp!PolicyStatus
    <2>2. CASE in.policy # Absent
      <3> DEFINE C == Consulted(in, x)
                 A == Allowing(in, x)
      <3>1. OneRule(C, A, h # << >>) /\ policy = PolicyFields(C, A, h # << >>)
        BY <1>1, <2>2, PolicyTells DEF policy
      <3>2. rules = {<<C, A>>}
        BY <2>2 DEF rules, RuleEvidence
      <3> HIDE DEF C, A
      <3> QED  BY <3>1, <3>2 DEF PolicyTold
    <2> QED  BY <2>1, <2>2
  <1>6. Arp!PortHistoryStatus(in, h) =
          IF Len(h) < 2 THEN "insufficient_history"
          ELSE IF p[1] # p[2] THEN "port_move_observed" ELSE "stable_port"
    <2>1. Len(h) \in 0..2 /\ DOMAIN h = 1..Len(h)
      BY <1>1 DEF History
    <2>2. Len(h) >= 2 => p[1] = in.forwarding[h[1]].port /\ p[2] = in.forwarding[h[2]].port
      BY <2>1 DEF Arp!PortsOfHistory
    <2> QED  BY <2>1, <2>2 DEF Arp!PortHistoryStatus
  <1> HIDE DEF p, elapsed
  <1>7. Arp!ForwardingStatus(in, x) = ForwardingFields(h, p, elapsed, policy)
    BY <1>2, <1>6 DEF ForwardingFields
  <1>8. ForwardingHolds(Arp!ForwardingStatus(in, x), CaptureEvidence(in, x), rules)
    BY <1>3, <1>4, <1>5, <1>7 DEF ForwardingHolds
  <1> QED  BY <1>8 DEF rules, x

LEMMA SamePolicies ==
    ASSUME NEW recent, NEW P, NEW R, PolicyTold(P, R, recent), NEW Q, NEW S, PolicyTold(Q, S, recent)
    PROVE  P = Q <=> R = S
  <1>1. CASE P = << >> /\ R = {}
    <2>1. CASE Q = << >> /\ S = {}
      BY <1>1, <2>1
    <2>2. CASE \E C, A : OneRule(C, A, recent) /\ Q = PolicyFields(C, A, recent) /\ S = {<<C, A>>}
      <3>1. PICK C, A : OneRule(C, A, recent) /\ Q = PolicyFields(C, A, recent) /\ S = {<<C, A>>}
        BY <2>2
      <3>2. Q # << >> /\ S # {}
        BY <3>1, SameRules
      <3> QED  BY <1>1, <3>2
    <2> QED  BY <2>1, <2>2 DEF PolicyTold
  <1>2. CASE \E C, A : OneRule(C, A, recent) /\ P = PolicyFields(C, A, recent) /\ R = {<<C, A>>}
    <2>1. PICK C, A : OneRule(C, A, recent) /\ P = PolicyFields(C, A, recent) /\ R = {<<C, A>>}
      BY <1>2
    <2>2. CASE Q = << >> /\ S = {}
      <3>1. P # << >> /\ R # {}
        BY <2>1, SameRules
      <3> QED  BY <2>2, <3>1
    <2>3. CASE \E D, B : OneRule(D, B, recent) /\ Q = PolicyFields(D, B, recent) /\ S = {<<D, B>>}
      <3>1. PICK D, B : OneRule(D, B, recent) /\ Q = PolicyFields(D, B, recent) /\ S = {<<D, B>>}
        BY <2>3
      <3>2. P = Q <=> <<C, A>> = <<D, B>>
        BY <2>1, <3>1, SameRules
      <3>3. R = S <=> <<C, A>> = <<D, B>>
        BY <2>1, <3>1
      <3> QED  BY <3>2, <3>3
    <2> QED  BY <2>2, <2>3 DEF PolicyTold
  <1> QED  BY <1>1, <1>2 DEF PolicyTold

LEMMA SameFields ==
    ASSUME NEW F, NEW C, NEW R, ForwardingHolds(F, C, R), NEW G, NEW D, NEW S, ForwardingHolds(G, D, S)
    PROVE  /\ F # << >> /\ C # {}
           /\ F = G <=> C = D /\ R = S
  <1>1. PICK h, p, e, P :
          /\ HistoryTold(h, p, e) /\ C = {Tells(h, p, e)} /\ PolicyTold(P, R, h # << >>)
          /\ F = ForwardingFields(h, p, e, P)
    BY DEF ForwardingHolds
  <1>2. PICK g, q, f, Q :
          /\ HistoryTold(g, q, f) /\ D = {Tells(g, q, f)} /\ PolicyTold(Q, S, g # << >>)
          /\ G = ForwardingFields(g, q, f, Q)
    BY DEF ForwardingHolds
  <1>3. C = D <=> h = g /\ p = q /\ e = f
    <2>1. Tells(h, p, e) = Tells(g, q, f) <=> h = g /\ p = q /\ e = f
      BY <1>1, <1>2, SameHistories
    <2>2. C = D <=> Tells(h, p, e) = Tells(g, q, f)
      BY <1>1, <1>2
    <2> QED  BY <2>1, <2>2
  <1>4. h = g => (R = S <=> P = Q)
    BY <1>1, <1>2, SamePolicies
  <1>5. F = G <=> h = g /\ p = q /\ e = f /\ P = Q
    <2>1. /\ F.lines = h /\ F.ports = p /\ F.elapsed = e /\ F.port_policy = P
          /\ G.lines = g /\ G.ports = q /\ G.elapsed = f /\ G.port_policy = Q
      BY <1>1, <1>2 DEF ForwardingFields
    <2>2. h = g /\ p = q /\ e = f /\ P = Q => F = G
      BY <1>1, <1>2
    <2> QED  BY <2>1, <2>2
  <1>6. F # << >>
    <2>1. "lines" \in DOMAIN F /\ "lines" \notin DOMAIN << >>
      BY <1>1 DEF ForwardingFields
    <2> QED  BY <2>1
  <1>7. C # {}
    BY <1>1
  <1> QED  BY <1>3, <1>4, <1>5, <1>6, <1>7

\* The forwarding fields of two findings are the same iff the captures and rules are.
LEMMA SameForwarding ==
    ASSUME NEW in, ReviewRead(in), Arp!InputAccepted(in), NEW j \in DOMAIN in.observations,
           NEW jn, ReviewRead(jn), Arp!InputAccepted(jn), NEW l \in DOMAIN jn.observations
    PROVE  LET x == in.observations[j]
               y == jn.observations[l]
           IN  Arp!ForwardingStatus(in, x) = Arp!ForwardingStatus(jn, y)
                 <=> CaptureEvidence(in, x) = CaptureEvidence(jn, y) /\ RuleEvidence(in, x) = RuleEvidence(jn, y)
  <1> DEFINE x == in.observations[j]
             y == jn.observations[l]
             F == Arp!ForwardingStatus(in, x)
             C == CaptureEvidence(in, x)
             R == RuleEvidence(in, x)
             G == Arp!ForwardingStatus(jn, y)
             D == CaptureEvidence(jn, y)
             S == RuleEvidence(jn, y)
  <1>1. in.forwarding = Absent => F = << >> /\ C = {} /\ R = {}
    BY DEF Arp!ForwardingStatus, CaptureEvidence, RuleEvidence
  <1>2. jn.forwarding = Absent => G = << >> /\ D = {} /\ S = {}
    BY DEF Arp!ForwardingStatus, CaptureEvidence, RuleEvidence
  <1>3. in.forwarding # Absent => ForwardingHolds(F, C, R)
    BY ForwardingTells
  <1>4. jn.forwarding # Absent => ForwardingHolds(G, D, S)
    BY ForwardingTells
  <1> HIDE DEF F, C, R, G, D, S
  <1>5. in.forwarding # Absent => F # << >> /\ C # {}
    BY <1>3, SameFields
  <1>6. jn.forwarding # Absent => G # << >> /\ D # {}
    BY <1>4, SameFields
  <1>7. in.forwarding # Absent /\ jn.forwarding # Absent => (F = G <=> C = D /\ R = S)
    BY <1>3, <1>4, SameFields
  <1>8. F = G <=> C = D /\ R = S
    BY <1>1, <1>2, <1>5, <1>6, <1>7
  <1> QED  BY <1>8 DEF F, C, R, G, D, S

\* Two findings are the same iff their evidence is.
LEMMA SameFindings ==
    ASSUME NEW in, ReviewRead(in), Arp!InputAccepted(in), NEW j \in DOMAIN in.observations, NEW i,
           NEW jn, ReviewRead(jn), Arp!InputAccepted(jn), NEW l \in DOMAIN jn.observations, NEW k
    PROVE  Arp!Finding(in, i, j) = Arp!Finding(jn, k, l) <=> Evidence(in, i, j) = Evidence(jn, k, l)
  <1> DEFINE x == in.observations[j]
             y == jn.observations[l]
             f == Arp!Finding(in, i, j)
             g == Arp!Finding(jn, k, l)
             d == Evidence(in, i, j)
             e == Evidence(jn, k, l)
  <1>1. /\ f = [previous_line |-> i, current_line |-> j, lease |-> Arp!LeaseStatus(in, x),
                forwarding |-> Arp!ForwardingStatus(in, x)]
        /\ g = [previous_line |-> k, current_line |-> l, lease |-> Arp!LeaseStatus(jn, y),
                forwarding |-> Arp!ForwardingStatus(jn, y)]
    BY DEF Arp!Finding
  <1>2. /\ d = [lines |-> <<i, j>>, leases |-> LeaseEvidence(in, x), captures |-> CaptureEvidence(in, x),
                rules |-> RuleEvidence(in, x)]
        /\ e = [lines |-> <<k, l>>, leases |-> LeaseEvidence(jn, y), captures |-> CaptureEvidence(jn, y),
                rules |-> RuleEvidence(jn, y)]
    BY DEF Evidence, LeaseEvidence, CaptureEvidence, CapturesOf, RuleEvidence, Consulted, Allowing
  <1>3. Arp!LeaseStatus(in, x) = Arp!LeaseStatus(jn, y) <=> LeaseEvidence(in, x) = LeaseEvidence(jn, y)
    BY SameLeases
  <1>4. Arp!ForwardingStatus(in, x) = Arp!ForwardingStatus(jn, y)
          <=> CaptureEvidence(in, x) = CaptureEvidence(jn, y) /\ RuleEvidence(in, x) = RuleEvidence(jn, y)
    BY SameForwarding
  <1> HIDE DEF x, y, f, g, d, e
  <1>5. f = g <=> /\ i = k /\ j = l /\ Arp!LeaseStatus(in, x) = Arp!LeaseStatus(jn, y)
                  /\ Arp!ForwardingStatus(in, x) = Arp!ForwardingStatus(jn, y)
    BY <1>1
  <1>6. d = e <=> /\ i = k /\ j = l /\ LeaseEvidence(in, x) = LeaseEvidence(jn, y)
                  /\ CaptureEvidence(in, x) = CaptureEvidence(jn, y) /\ RuleEvidence(in, x) = RuleEvidence(jn, y)
    BY <1>2
  <1>7. f = g <=> d = e
    BY <1>3, <1>4, <1>5, <1>6
  <1> QED  BY <1>7 DEF f, g, d, e

Transitions(in) == {TransitionOf(in, ij) : ij \in ChangesOf(in)}

\* The finding of each transition of a review: the one change that is an instance of it.
EventsShown(in, events) ==
    /\ DOMAIN events = Transitions(in)
    /\ \A e \in DOMAIN events :
         \E i, j \in DOMAIN in.observations :
            events[e] = Arp!Finding(in, i, j) /\ Shown(in, e) = {Evidence(in, i, j)}
    /\ \A e : e \notin DOMAIN events => Shown(in, e) = {}

LEMMA EventsExplain ==
    ASSUME NEW in, LinesRead(in.observations), Arp!Events(in) # Refused
    PROVE  Arp!InputAccepted(in) /\ EventsShown(in, Arp!Events(in))
  <1> DEFINE a == Arp!ReviewLines(in)
             F == a.findings
             n == Len(F)
             N == Len(in.observations)
             id(f) == Arp!Identity(in, f)
             events == Arp!Events(in)
             ids == Arp!Identities(in, F)
  <1>1. a # Refused /\ events = Arp!EventsOf(in, F, ids)
    BY DEF Arp!Events, Arp!EventsIn
  <1>2. Arp!Cardinality(ids) = n /\ events = Arp!Identified(in, F, ids)
    BY <1>1 DEF Arp!EventsOf
  <1>3. Arp!InputAccepted(in) /\ FoundChanges(in, N, F) /\ n \in Nat /\ DOMAIN F = 1..n
    <2>1. LET G == Arp!Observed(in).findings
          IN  /\ Arp!InputAccepted(in) /\ FoundChanges(in, N, G)
              /\ a = Arp!Reconciled(in, G) /\ Arp!Reconciled(in, G).findings = G
              /\ Len(G) \in Nat /\ DOMAIN G = 1..Len(G)
      BY <1>1, ReviewReports
    <2> HIDE DEF a
    <2> QED  BY <2>1
  <1> HIDE DEF a, F
  <1>4. Arp!Range(F) = {F[k] : k \in 1..n}
    BY <1>3 DEF Arp!Range
  <1>5. ids = {id(F[k]) : k \in 1..n}
    BY <1>4 DEF Arp!Identities
  <1> HIDE DEF n
  <1> DEFINE p(k) == F[k].previous_line
             c(k) == F[k].current_line
  <1>6. \A k \in 1..n : /\ p(k) \in 1..N /\ c(k) \in 1..N /\ Changes(in, p(k), c(k))
                        /\ F[k] = Arp!Finding(in, p(k), c(k))
    BY <1>3 DEF FoundChanges, n
  <1>7. \A i, j \in 1..N : Changes(in, i, j) => \E k \in 1..n : p(k) = i /\ c(k) = j
    BY <1>3 DEF FoundChanges, n
  <1>8. \A k \in 1..n : id(F[k]) = TransitionOf(in, <<p(k), c(k)>>)
    BY DEF Arp!Identity, TransitionOf
  <1>9. ChangesOf(in) = {<<p(k), c(k)>> : k \in 1..n}
    <2>1. DOMAIN in.observations = 1..N
      BY DEF LinesRead
    <2>2. \A i, j \in 1..N : <<i, j>> \in ChangesOf(in) <=> Changes(in, i, j)
      BY <2>1 DEF ChangesOf
    <2>3. ChangesOf(in) \subseteq (1..N) \X (1..N)
      BY <2>1 DEF ChangesOf
    <2> HIDE DEF p, c, N
    <2>4. ASSUME NEW k \in 1..n PROVE <<p(k), c(k)>> \in ChangesOf(in)
      BY <1>6, <2>2
    <2>5. ASSUME NEW e \in ChangesOf(in) PROVE \E k \in 1..n : e = <<p(k), c(k)>>
      <3>1. PICK i \in 1..N, j \in 1..N : e = <<i, j>>
        BY <2>3
      <3> QED  BY <1>7, <2>2, <3>1
    <2> QED  BY <2>4, <2>5
  <1> HIDE DEF p, c, id
  <1>10. ids = Transitions(in)
    BY <1>5, <1>8, <1>9 DEF Transitions
  <1>11. \A k, l \in 1..n : id(F[k]) = id(F[l]) => k = l
    <2> DEFINE g == [k \in 1..n |-> id(F[k])]
    <2>1. ids = {g[k] : k \in 1..n} /\ g = [k \in 1..n |-> g[k]] /\ \A k \in 1..n : g[k] = id(F[k])
      BY <1>5
    <2>2. Cardinality(ids) = n
      BY <1>2, ArpCardinality
    <2> HIDE DEF g, ids
    <2>3. \A k, l \in 1..n : g[k] = g[l] => k = l
      BY <1>3, <2>1, <2>2, AllDifferent
    <2> QED  BY <2>1, <2>3
  <1>12. events = [x \in ids |-> CHOOSE f \in Arp!Range(F) : id(f) = x]
    BY <1>2 DEF Arp!Identified, id
  <1> HIDE DEF events, ids
  <1>13. ASSUME NEW k \in 1..n
         PROVE  /\ events[id(F[k])] = F[k]
                /\ Shown(in, id(F[k])) = {Evidence(in, p(k), c(k))}
    <2>1. id(F[k]) \in ids
      BY <1>5
    <2>2. \A f \in Arp!Range(F) : id(f) = id(F[k]) => f = F[k]
      BY <1>4, <1>11
    <2>3. F[k] \in Arp!Range(F)
      BY <1>4
    <2>4. (CHOOSE f \in Arp!Range(F) : id(f) = id(F[k])) = F[k]
      BY <2>2, <2>3
    <2>5. events[id(F[k])] = F[k]
      BY <1>12, <2>1, <2>4
    <2>6. {ij \in ChangesOf(in) : TransitionOf(in, ij) = id(F[k])} = {<<p(k), c(k)>>}
      BY <1>8, <1>9, <1>11
    <2>7. Shown(in, id(F[k])) = {Evidence(in, ij[1], ij[2]) : ij \in {<<p(k), c(k)>>}}
      BY <2>6 DEF Shown
    <2> QED  BY <2>5, <2>7
  <1>14. DOMAIN events = ids
    BY <1>12
  <1>15. ASSUME NEW e \in ids
         PROVE  \E i, j \in DOMAIN in.observations :
                   events[e] = Arp!Finding(in, i, j) /\ Shown(in, e) = {Evidence(in, i, j)}
    <2>1. PICK k \in 1..n : e = id(F[k])
      BY <1>5
    <2>2. p(k) \in DOMAIN in.observations /\ c(k) \in DOMAIN in.observations
      BY <1>6 DEF LinesRead
    <2> QED  BY <1>6, <1>13, <2>1, <2>2
  <1>16. ASSUME NEW e, e \notin ids PROVE Shown(in, e) = {}
    <2>1. {ij \in ChangesOf(in) : TransitionOf(in, ij) = e} = {}
      BY <1>10, <1>16 DEF Transitions
    <2> QED  BY <2>1 DEF Shown
  <1>17. EventsShown(in, events)
    BY <1>10, <1>14, <1>15, <1>16 DEF EventsShown
  <1> QED  BY <1>3, <1>17 DEF events
\* Snapshots as they have been read
SnapshotsRead(q) ==
    /\ Len(q) \in Nat /\ DOMAIN q = 1..Len(q)
    /\ \A k \in 1..Len(q) :
         /\ q[k].time \in Nat /\ Len(q[k].rows) \in Nat /\ DOMAIN q[k].rows = 1..Len(q[k].rows)
         /\ \A i \in 1..Len(q[k].rows) : q[k].rows[i].iface \in Nat /\ q[k].rows[i].ip \in Nat

\* The places of the rows that have a MAC
RowPlaces(q) ==
    UNION {{[snapshot |-> k, row |-> i] : i \in (DOMAIN q[k].rows) \ Arp!Unresolved(q[k])} : k \in DOMAIN q}

LEMMA RowPlacesAre ==
    ASSUME NEW q, SnapshotsRead(q)
    PROVE  \A r \in RowPlaces(q) :
             /\ r = [snapshot |-> r.snapshot, row |-> r.row]
             /\ r.snapshot \in 1..Len(q) /\ r.row \in 1..Len(q[r.snapshot].rows)
  <1> SUFFICES ASSUME NEW r \in RowPlaces(q)
               PROVE  /\ r = [snapshot |-> r.snapshot, row |-> r.row]
                      /\ r.snapshot \in 1..Len(q) /\ r.row \in 1..Len(q[r.snapshot].rows)
    OBVIOUS
  <1>1. PICK k \in DOMAIN q :
          r \in {[snapshot |-> k, row |-> i] : i \in (DOMAIN q[k].rows) \ Arp!Unresolved(q[k])}
    BY DEF RowPlaces
  <1>2. PICK i \in DOMAIN q[k].rows : r = [snapshot |-> k, row |-> i]
    BY <1>1
  <1>3. k \in 1..Len(q) /\ i \in 1..Len(q[k].rows)
    BY <1>1, <1>2 DEF SnapshotsRead
  <1> QED  BY <1>2, <1>3

\* The elements of a function on a finite set are finitely many.
LEMMA FiniteRange == ASSUME NEW S, IsFiniteSet(S), NEW f PROVE IsFiniteSet({f[x] : x \in S})
  <1> DEFINE T == {f[x] : x \in S}
             g == [x \in S |-> f[x]]
  <1>1. g \in [S -> T] /\ \A y \in T : \E x \in S : g[x] = y
    OBVIOUS
  <1>2. g \in Surjection(S, T)
    BY <1>1, Fun_IsSurj
  <1> HIDE DEF T, g
  <1>3. IsFiniteSet(T)
    BY <1>2, FS_Surjection
  <1> QED  BY <1>3 DEF T

LEMMA RowPlacesFinite == ASSUME NEW q, SnapshotsRead(q) PROVE IsFiniteSet(RowPlaces(q))
  <1> DEFINE of(k) == {[snapshot |-> k, row |-> i] : i \in (DOMAIN q[k].rows) \ Arp!Unresolved(q[k])}
             all == {of(k) : k \in 1..Len(q)}
  <1>1. RowPlaces(q) = UNION all
    BY DEF RowPlaces, SnapshotsRead
  <1>2. ASSUME NEW k \in 1..Len(q) PROVE IsFiniteSet(of(k))
    <2> DEFINE I == 1..Len(q[k].rows)
               J == (DOMAIN q[k].rows) \ Arp!Unresolved(q[k])
               place == [i \in J |-> [snapshot |-> k, row |-> i]]
    <2>1. IsFiniteSet(I) /\ J \in SUBSET I
      <3>1. Len(q[k].rows) \in Nat /\ DOMAIN q[k].rows = I
        BY DEF SnapshotsRead
      <3>2. 1 \in Int /\ Len(q[k].rows) \in Int
        BY <3>1
      <3>3. IsFiniteSet(I)
        BY <3>2, FS_Interval
      <3> QED  BY <3>1, <3>3
    <2>2. of(k) = {place[i] : i \in J}
      OBVIOUS
    <2> HIDE DEF I, J, place, of
    <2>3. IsFiniteSet(J)
      BY <2>1, FS_Subset
    <2> QED  BY <2>2, <2>3, FiniteRange
  <1>3. IsFiniteSet(all)
    <2> DEFINE sets == [k \in 1..Len(q) |-> of(k)]
    <2>1. all = {sets[k] : k \in 1..Len(q)}
      OBVIOUS
    <2>2. IsFiniteSet(1..Len(q))
      <3>1. 1 \in Int /\ Len(q) \in Int
        BY DEF SnapshotsRead
      <3> QED  BY <3>1, FS_Interval
    <2> HIDE DEF sets, all
    <2> QED  BY <2>1, <2>2, FiniteRange
  <1>4. \A T \in all : IsFiniteSet(T)
    BY <1>2
  <1> HIDE DEF all
  <1> QED  BY <1>1, <1>3, <1>4, FS_UNION

\* Accepted snapshots are in the order of their times.
LEMMA SnapshotsInTime ==
    ASSUME NEW q, SnapshotsRead(q), Arp!ImportAccepted(q)
    PROVE  \A k, l \in 1..Len(q) : k < l => q[k].time < q[l].time
  <1> DEFINE N == Len(q)
             S == {l \in Nat : l <= N => \A k \in 1..N : k < l => q[k].time < q[l].time}
  <1>1. N \in Nat /\ \A k \in 1..N : q[k].time \in Nat
    BY DEF SnapshotsRead
  <1>2. 0 \in S
    OBVIOUS
  <1>3. ASSUME NEW l \in Nat, l \in S PROVE l + 1 \in S
    <2> SUFFICES ASSUME l + 1 <= N, NEW k \in 1..N, k < l + 1 PROVE q[k].time < q[l + 1].time
      OBVIOUS
    <2>1. l \in 1..N /\ l + 1 \in 1..N /\ l + 1 \in 2..N /\ (l + 1) - 1 = l
      BY <1>1
    <2>2. q[l].time < q[l + 1].time
      BY <2>1 DEF Arp!ImportAccepted
    <2>3. k = l \/ q[k].time < q[l].time
      BY <1>3, <2>1
    <2>4. q[k].time \in Nat /\ q[l].time \in Nat /\ q[l + 1].time \in Nat
      BY <1>1, <2>1
    <2> QED  BY <2>2, <2>3, <2>4
  <1> HIDE DEF S
  <1>4. \A l \in Nat : l \in S
    BY <1>2, <1>3, InductiveSet
  <1> QED  BY <1>1, <1>4 DEF S

\* The places in order: by snapshot and, in one, by interface and IP.
PlacesBefore(q) ==
    {p \in RowPlaces(q) \X RowPlaces(q) :
       \/ p[1].snapshot < p[2].snapshot
       \/ p[1].snapshot = p[2].snapshot /\ Arp!RowAt(q, p[1]).iface < Arp!RowAt(q, p[2]).iface
       \/ /\ p[1].snapshot = p[2].snapshot /\ Arp!RowAt(q, p[1]).iface = Arp!RowAt(q, p[2]).iface
          /\ Arp!RowAt(q, p[1]).ip < Arp!RowAt(q, p[2]).ip}

\* The references s: rows of all places, and no two give one observation
References(q, s) ==
    /\ Len(s) \in Nat /\ DOMAIN s = 1..Len(s)
    /\ \A n \in 1..Len(s) : s[n] \in RowPlaces(q)
    /\ \A r \in RowPlaces(q) : \E n \in 1..Len(s) : s[n] = r
    /\ \A m, n \in 1..Len(s) : m < n => s[m].snapshot <= s[n].snapshot
    /\ \A m, n \in 1..Len(s) : Arp!Observation(q, s[m]) = Arp!Observation(q, s[n]) => m = n

LEMMA ResolvedReferences ==
    ASSUME NEW q, SnapshotsRead(q), Arp!ImportAccepted(q) PROVE References(q, Arp!Resolved(q))
  <1> DEFINE S == RowPlaces(q)
             before == PlacesBefore(q)
             iface(r) == Arp!RowAt(q, r).iface
             ip(r) == Arp!RowAt(q, r).ip
             s == Arp!Resolved(q)
             n == Cardinality(S)
  <1>1. s = Arranged(S, before)
    BY ArpArranged DEF Arp!Resolved, RowPlaces, PlacesBefore
  <1>2. \A r \in S : r.snapshot \in 1..Len(q) /\ r.row \in 1..Len(q[r.snapshot].rows) /\ r = [snapshot |-> r.snapshot, row |-> r.row]
    BY RowPlacesAre
  <1>3. \A r \in S : r.snapshot \in Nat /\ iface(r) \in Nat /\ ip(r) \in Nat
    <2> SUFFICES ASSUME NEW r \in S PROVE r.snapshot \in Nat /\ iface(r) \in Nat /\ ip(r) \in Nat
      OBVIOUS
    <2>1. r.snapshot \in 1..Len(q) /\ r.row \in 1..Len(q[r.snapshot].rows) /\ Len(q) \in Nat
      BY <1>2 DEF SnapshotsRead
    <2>2. q[r.snapshot].rows[r.row].iface \in Nat /\ q[r.snapshot].rows[r.row].ip \in Nat
      BY <2>1 DEF SnapshotsRead
    <2> QED  BY <2>1, <2>2 DEF Arp!RowAt
  <1>4. ASSUME NEW r \in S, NEW t \in S, r.snapshot = t.snapshot, iface(r) = iface(t), ip(r) = ip(t)
        PROVE  r = t
    <2>1. Arp!SnapshotAccepted(q[r.snapshot])
      <3>1. r.snapshot \in DOMAIN q
        BY <1>2 DEF SnapshotsRead
      <3> QED  BY <3>1 DEF Arp!ImportAccepted
    <2>2. r.row \in DOMAIN q[r.snapshot].rows /\ t.row \in DOMAIN q[r.snapshot].rows
      BY <1>2, <1>4 DEF SnapshotsRead
    <2>3. Arp!Key(q[r.snapshot].rows[r.row]) = Arp!Key(q[r.snapshot].rows[t.row])
      BY <1>4 DEF Arp!Key, Arp!RowAt
    <2>4. r.row = t.row
      BY <2>1, <2>2, <2>3 DEF Arp!SnapshotAccepted
    <2> QED  BY <1>2, <1>4, <2>4
  <1>5. \A r, t \in S : <<r, t>> \in before <=>
          \/ r.snapshot < t.snapshot
          \/ r.snapshot = t.snapshot /\ iface(r) < iface(t)
          \/ r.snapshot = t.snapshot /\ iface(r) = iface(t) /\ ip(r) < ip(t)
    BY DEF PlacesBefore
  <1> HIDE DEF S, before, iface, ip, s
  <1>6. TotalOrder(S, before)
    BY <1>3, <1>4, <1>5 DEF TotalOrder
  <1>7. /\ n \in Nat /\ s \in [1..n -> S]
        /\ \A k, l \in 1..n : <<s[k], s[l]>> \in before <=> k < l
        /\ \A k, l \in 1..n : s[k] = s[l] => k = l
        /\ \A r \in S : \E k \in 1..n : s[k] = r
    <2>1. IsFiniteSet(S)
      BY RowPlacesFinite DEF S
    <2> QED  BY <1>1, <1>6, <2>1, ArrangedInOrder
  <1> HIDE DEF n
  <1>8. Len(s) = n /\ DOMAIN s = 1..n
    BY <1>7, SequenceOf
  <1>9. ASSUME NEW k \in 1..n, NEW l \in 1..n, k < l PROVE s[k].snapshot <= s[l].snapshot
    <2>1. s[k] \in S /\ s[l] \in S /\ <<s[k], s[l]>> \in before
      BY <1>7, <1>9
    <2>2. s[k].snapshot < s[l].snapshot \/ s[k].snapshot = s[l].snapshot
      BY <1>5, <2>1
    <2> QED  BY <1>3, <2>1, <2>2
  <1>10. ASSUME NEW k \in 1..n, NEW l \in 1..n, Arp!Observation(q, s[k]) = Arp!Observation(q, s[l])
         PROVE  k = l
    <2>1. s[k] \in S /\ s[l] \in S
      BY <1>7
    <2> DEFINE r == s[k]
               t == s[l]
    <2>2. q[r.snapshot].time = q[t.snapshot].time /\ iface(r) = iface(t) /\ ip(r) = ip(t)
      <3>1. \A p : /\ Arp!Observation(q, p).time = q[p.snapshot].time
                   /\ Arp!Observation(q, p).iface = iface(p) /\ Arp!Observation(q, p).ip = ip(p)
        BY DEF Arp!Observation, iface, ip
      <3> QED  BY <1>10, <3>1
    <2>3. r.snapshot = t.snapshot
      <3>1. r.snapshot \in 1..Len(q) /\ t.snapshot \in 1..Len(q) /\ Len(q) \in Nat
        BY <1>2, <2>1 DEF SnapshotsRead
      <3>2. q[r.snapshot].time \in Nat /\ q[t.snapshot].time \in Nat
        BY <3>1 DEF SnapshotsRead
      <3>3. \A a, b \in 1..Len(q) : a < b => q[a].time < q[b].time
        BY SnapshotsInTime
      <3> HIDE DEF r, t
      <3>4. ~ (r.snapshot < t.snapshot) /\ ~ (t.snapshot < r.snapshot)
        BY <2>2, <3>1, <3>2, <3>3
      <3> QED  BY <3>1, <3>4
    <2>4. r = t
      BY <1>4, <2>1, <2>2, <2>3
    <2> QED  BY <1>7, <2>4
  <1>11. (\A k \in 1..n : s[k] \in S) /\ \A r \in S : \E k \in 1..n : s[k] = r
    BY <1>7
  <1> HIDE DEF s
  <1>12. References(q, s)
    BY <1>7, <1>8, <1>9, <1>10, <1>11 DEF References, S
  <1> QED  BY <1>12 DEF s

\* What ArpTransitionsAccounted says of the import a of the snapshots q
AccountsImport(q, a) ==
    a # Refused =>
      /\ Arp!Events(ImportReview(a)) # Refused /\ Arp!Replays(q, a)
      /\ LeadBack(a.observations, a.references, q)

\* No answer to the review of an import a is a refusal.
AnswersDiffer(a) ==
    LET in == ImportReview(a)
        found == Arp!Observed(in).findings
    IN  Refused # Arp!Reconciled(in, found) /\ Refused # Arp!Identified(in, found, Arp!Identities(in, found))

\* A list of elements that all differ has as many as its places.
LEMMA DifferentCount ==
    ASSUME NEW n \in Nat, NEW f, \A k, l \in 1..n : f[k] = f[l] => k = l
    PROVE  Cardinality({f[k] : k \in 1..n}) = n
  <1> DEFINE T == {f[k] : k \in 1..n}
             g == [k \in 1..n |-> f[k]]
  <1>1. /\ g \in [1..n -> T] /\ \A y \in T : \E k \in 1..n : g[k] = y
        /\ \A k, l \in 1..n : g[k] = g[l] => k = l
    OBVIOUS
  <1>2. g \in Bijection(1..n, T)
    BY <1>1, Fun_IsBij
  <1>3. IsFiniteSet(1..n) /\ Cardinality(1..n) = n
    <2>1. 1 \in Int /\ n \in Int /\ IsFiniteSet(1..n) /\ Cardinality(1..n) = IF 1 > n THEN 0 ELSE n - 1 + 1
      BY FS_Interval
    <2> QED  BY <2>1
  <1>4. ExistsBijection(1..n, T)
    BY <1>2 DEF ExistsBijection
  <1> HIDE DEF T, g
  <1>5. Cardinality(T) = n
    BY <1>3, <1>4, FS_Bijection
  <1> QED  BY <1>5 DEF T

\* The observations of an import are the rows that its references name.
LEMMA ImportLeadsBack ==
    ASSUME NEW q, SnapshotsRead(q), Arp!ImportSnapshots(q) # Refused
    PROVE  LET a == Arp!ImportSnapshots(q) IN LeadBack(a.observations, a.references, q)
  <1> DEFINE a == Arp!ImportSnapshots(q)
             s == Arp!Resolved(q)
             N == Len(s)
  <1>1. /\ Arp!ImportAccepted(q) /\ a.references = s
        /\ a.observations = [n \in DOMAIN s |-> Arp!Observation(q, s[n])]
    BY DEF Arp!ImportSnapshots
  <1>2. References(q, s)
    BY <1>1, ResolvedReferences
  <1> HIDE DEF a, s
  <1>3. DOMAIN s = 1..N /\ \A r \in RowPlaces(q) : \E n \in 1..N : s[n] = r
    BY <1>2 DEF References
  <1>4. ASSUME NEW n \in DOMAIN a.observations
        PROVE  LET r == a.references[n]
                   row == q[r.snapshot].rows[r.row]
               IN  a.observations[n] = [time |-> q[r.snapshot].time, iface |-> row.iface,
                                        ip |-> row.ip, mac |-> row.mac]
    BY <1>1 DEF Arp!Observation, Arp!RowAt
  <1>5. ASSUME NEW k \in DOMAIN q, NEW i \in DOMAIN q[k].rows, q[k].rows[i].mac # None
        PROVE  \E n \in DOMAIN a.observations : a.references[n] = [snapshot |-> k, row |-> i]
    <2>1. i \notin Arp!Unresolved(q[k])
      BY <1>5 DEF Arp!Unresolved
    <2>2. [snapshot |-> k, row |-> i] \in RowPlaces(q)
      BY <2>1 DEF RowPlaces
    <2> QED  BY <1>1, <1>3, <2>2
  <1>6. LeadBack(a.observations, a.references, q)
    BY <1>4, <1>5 DEF LeadBack
  <1> QED  BY <1>6 DEF a

LEMMA ImportAccounts ==
    ASSUME NEW q, SnapshotsRead(q),
           Arp!ImportSnapshots(q) # Refused => AnswersDiffer(Arp!ImportSnapshots(q))
    PROVE  AccountsImport(q, Arp!ImportSnapshots(q))
  <1> DEFINE a == Arp!ImportSnapshots(q)
             s == Arp!Resolved(q)
             in == ImportReview(a)
             o == in.observations
             N == Len(s)
  <1> SUFFICES ASSUME a # Refused PROVE AccountsImport(q, a)
    BY DEF AccountsImport
  <1>1. /\ Arp!ImportAccepted(q) /\ a.references = s
        /\ a.observations = [n \in DOMAIN s |-> Arp!Observation(q, s[n])]
    BY DEF Arp!ImportSnapshots
  <1>2. References(q, s)
    BY <1>1, ResolvedReferences
  <1>3. Arp!Replays(q, a)
    BY DEF Arp!Replays
  <1>4. AnswersDiffer(a)
    OBVIOUS
  <1> HIDE DEF a, s
  <1>5. /\ in.observations = a.observations /\ in.leases = Absent /\ in.forwarding = Absent
        /\ in.policy = Absent /\ in.window = 1 /\ in.maxAge = 1
    BY DEF ImportReview
  <1>6. /\ N \in Nat /\ DOMAIN s = 1..N /\ \A n \in 1..N : s[n] \in RowPlaces(q)
        /\ \A m, n \in 1..N : m < n => s[m].snapshot <= s[n].snapshot
        /\ \A m, n \in 1..N : Arp!Observation(q, s[m]) = Arp!Observation(q, s[n]) => m = n
    BY <1>2 DEF References
  <1> HIDE DEF in
  <1>7. /\ o = [n \in 1..N |-> Arp!Observation(q, s[n])] /\ Len(o) = N /\ DOMAIN o = 1..N
        /\ \A n \in 1..N : o[n] = Arp!Observation(q, s[n])
    BY <1>1, <1>5, <1>6
  <1>8. ASSUME NEW n \in 1..N
        PROVE  s[n].snapshot \in 1..Len(q) /\ o[n].time = q[s[n].snapshot].time /\ o[n].time \in Nat
    <2>1. s[n].snapshot \in 1..Len(q)
      BY <1>6, RowPlacesAre
    <2>2. o[n].time = q[s[n].snapshot].time
      BY <1>7 DEF Arp!Observation
    <2> QED  BY <2>1, <2>2 DEF SnapshotsRead
  <1>9. LinesRead(o)
    BY <1>6, <1>7, <1>8 DEF LinesRead
  <1>10. ~ OutOfOrder(o, N)
    <2> SUFFICES ASSUME NEW m \in 1..N, NEW n \in 1..N, m < n PROVE ~ (o[n].time < o[m].time)
      BY DEF OutOfOrder
    <2>1. s[m].snapshot <= s[n].snapshot /\ s[m].snapshot \in 1..Len(q) /\ s[n].snapshot \in 1..Len(q)
      BY <1>6, <1>8
    <2>2. s[m].snapshot = s[n].snapshot \/ q[s[m].snapshot].time < q[s[n].snapshot].time
      <3>1. s[m].snapshot = s[n].snapshot \/ s[m].snapshot < s[n].snapshot
        <4>1. Len(q) \in Nat
          BY DEF SnapshotsRead
        <4> QED  BY <2>1, <4>1
      <3> QED  BY <1>1, <2>1, <3>1, SnapshotsInTime
    <2>3. o[m].time = q[s[m].snapshot].time /\ o[n].time = q[s[n].snapshot].time
          /\ o[m].time \in Nat /\ o[n].time \in Nat
      BY <1>8
    <2> HIDE DEF o
    <2> QED  BY <2>2, <2>3
  <1>11. Arp!InputAccepted(in)
    <2>1. Arp!OrEmpty(in.leases) = << >> /\ Arp!OrEmpty(in.forwarding) = << >> /\ Arp!OrEmpty(in.policy) = << >>
      BY <1>5 DEF Arp!OrEmpty
    <2>2. Arp!LeasesAccepted(<< >>) /\ Arp!ForwardingAccepted(<< >>) /\ Arp!PortPolicyAccepted(<< >>)
      BY DEF Arp!LeasesAccepted, Arp!ForwardingAccepted, Arp!PortPolicyAccepted
    <2>3. 1 \in 1..3600
      OBVIOUS
    <2> QED  BY <1>5, <2>1, <2>2, <2>3 DEF Arp!InputAccepted
  <1> DEFINE end == Arp!Observed(in)
             F == end.findings
             ids == Arp!Identities(in, F)
  <1>12. ~ end.refused /\ FoundChanges(in, N, F)
    <2>1. Watched(in, Len(o), end)
      BY <1>9, ObservedWatches
    <2> HIDE DEF end, o
    <2> QED  BY <1>7, <1>10, <1>11, <2>1 DEF Watched, o
  <1>13. Refused # Arp!Reconciled(in, F) /\ Refused # Arp!Identified(in, F, ids)
    BY <1>4 DEF AnswersDiffer, in
  <1>14. Arp!ReviewLines(in) = Arp!Reconciled(in, F) /\ Arp!Reconciled(in, F).findings = F
    BY <1>12 DEF Arp!ReviewLines, Arp!Reconciled, Arp!Report
  <1> HIDE DEF end
  <1>15. Arp!Events(in) = Arp!EventsOf(in, F, ids)
    BY <1>13, <1>14 DEF Arp!Events, Arp!EventsIn
  <1>16. /\ Len(F) \in Nat /\ DOMAIN F = 1..Len(F)
         /\ \A k \in 1..Len(F) : F[k].current_line \in 1..N
         /\ \A k, l \in 1..Len(F) : k < l => F[k].current_line < F[l].current_line
    <2>1. F \in Seq(FindingsOfLines(in))
      BY <1>12 DEF FoundChanges
    <2>2. Len(F) \in Nat /\ DOMAIN F = 1..Len(F)
      <3> HIDE DEF F
      <3> QED  BY <2>1, LenProperties
    <2> QED  BY <1>12, <2>2 DEF FoundChanges
  <1> HIDE DEF F
  <1>17. Cardinality(ids) = Len(F)
    <2> DEFINE id == [k \in 1..Len(F) |-> Arp!Identity(in, F[k])]
    <2>1. ids = {id[k] : k \in 1..Len(F)}
      BY <1>16 DEF Arp!Identities, Arp!Range
    <2>2. ASSUME NEW k \in 1..Len(F), NEW l \in 1..Len(F), id[k] = id[l] PROVE k = l
      <3> DEFINE m == F[k].current_line
                 n == F[l].current_line
      <3>1. o[m] = o[n]
        BY <2>2 DEF Arp!Identity
      <3>2. m \in 1..N /\ n \in 1..N
        BY <1>16
      <3>3. m = n
        BY <1>6, <1>7, <3>1, <3>2
      <3>4. ~ (k < l) /\ ~ (l < k)
        BY <1>6, <1>16, <3>2, <3>3
      <3> QED  BY <1>16, <3>4
    <2> HIDE DEF id, ids
    <2>3. Len(F) \in Nat /\ \A k, l \in 1..Len(F) : id[k] = id[l] => k = l
      BY <1>16, <2>2
    <2>4. Cardinality({id[k] : k \in 1..Len(F)}) = Len(F)
      <3> DEFINE c == Len(F)
      <3>1. c \in Nat /\ \A k, l \in 1..c : id[k] = id[l] => k = l
        BY <2>3
      <3> HIDE DEF c
      <3>2. Cardinality({id[k] : k \in 1..c}) = c
        BY <3>1, DifferentCount
      <3> QED  BY <3>2 DEF c
    <2> QED  BY <2>1, <2>4
  <1>18. Arp!Events(in) # Refused
    BY <1>13, <1>15, <1>17, ArpCardinality DEF Arp!EventsOf
  <1>19. LeadBack(a.observations, a.references, q)
    BY ImportLeadsBack DEF a
  <1> QED  BY <1>3, <1>18, <1>19 DEF AccountsImport, in

Opposite == [added |-> "not_observed", not_observed |-> "added", changed |-> "changed", unchanged |-> "unchanged"]

\* The comparison q the other way round
Swapped(q) ==
    LET swap(pair) == [before |-> pair.after, after |-> pair.before]
    IN  Arp!CompareReviews(q.after, q.before, swap(q.neighbors),
                           IF q.inventory = Absent THEN Absent ELSE swap(q.inventory))

Replayed(in, source) == source # Absent => LeadBack(in.observations, source.receipt.references, source.snapshots)

\* What ArpTransitionsAccounted says of the answer a to the comparison q
AccountsTransitions(q, a) ==
    a # Refused =>
      /\ Arp!VerifyComparison(q.before, q.after, q.neighbors, q.inventory, a)
      /\ DOMAIN a = Transitions(q.before) \cup Transitions(q.after)
      /\ \A e \in DOMAIN a :
           /\ a[e].status = "added" <=> e \notin Transitions(q.before)
           /\ a[e].status = "not_observed" <=> e \notin Transitions(q.after)
           /\ a[e].status = "unchanged" <=> Shown(q.before, e) = Shown(q.after, e)
           /\ Swapped(q)[e].status = Opposite[a[e].status]
      /\ Replayed(q.before, q.neighbors.before) /\ Replayed(q.after, q.neighbors.after)

\* The neighbor snapshots of a side as they have been read
SourceRead(source) == source # Absent => SnapshotsRead(source.snapshots)

LEMMA SidesReplay ==
    ASSUME NEW in, NEW source, SourceRead(source), Arp!ReceiptReplayed(in, source)
    PROVE  Replayed(in, source)
  <1> SUFFICES ASSUME source # Absent
               PROVE  LeadBack(in.observations, source.receipt.references, source.snapshots)
    BY DEF Replayed
  <1> DEFINE a == Arp!ImportSnapshots(source.snapshots)
  <1>1. source.receipt = a /\ a # Refused /\ in.observations = a.observations
    BY DEF Arp!ReceiptReplayed, Arp!Replays
  <1>2. SnapshotsRead(source.snapshots)
    BY DEF SourceRead
  <1>3. LeadBack(a.observations, a.references, source.snapshots)
    BY <1>1, <1>2, ImportLeadsBack
  <1> HIDE DEF a
  <1> QED  BY <1>1, <1>3

\* No inventory of both sides is a missing one.
InventoryThere(q) ==
    Absent # [before |-> Arp!Files(q.before, q.neighbors.before), after |-> Arp!Files(q.after, q.neighbors.after)]

LEMMA ComparisonAccounts ==
    ASSUME NEW q, ReviewRead(q.before), ReviewRead(q.after), InventoryThere(q),
           SourceRead(q.neighbors.before), SourceRead(q.neighbors.after)
    PROVE  AccountsTransitions(q, Arp!CompareReviews(q.before, q.after, q.neighbors, q.inventory))
  <1> DEFINE a == Arp!CompareReviews(q.before, q.after, q.neighbors, q.inventory)
             other == Swapped(q)
             before == q.before
             after == q.after
             B == Arp!Events(before)
             A == Arp!Events(after)
             sides == [before |-> q.neighbors.after, after |-> q.neighbors.before]
             inventory == IF q.inventory = Absent THEN Absent
                          ELSE [before |-> q.inventory.after, after |-> q.inventory.before]
  <1> SUFFICES ASSUME a # Refused PROVE AccountsTransitions(q, a)
    BY DEF AccountsTransitions
  <1>1. /\ Arp!InventoryAccepted(before, after, q.neighbors, q.inventory)
        /\ Arp!ReceiptReplayed(before, q.neighbors.before) /\ Arp!ReceiptReplayed(after, q.neighbors.after)
        /\ a = Arp!Compared(B, A)
    BY DEF Arp!CompareReviews
  <1>2. Arp!VerifyComparison(before, after, q.neighbors, q.inventory, a)
    BY DEF Arp!VerifyComparison
  <1>3. other = Arp!Compared(A, B)
    <2>1. sides.before = q.neighbors.after /\ sides.after = q.neighbors.before
      OBVIOUS
    <2>2. Arp!InventoryAccepted(after, before, sides, inventory)
      <3> DEFINE S == Arp!Files(before, q.neighbors.before)
                 T == Arp!Files(after, q.neighbors.after)
      <3>1. q.inventory = Absent => q.neighbors.before = Absent /\ q.neighbors.after = Absent
        BY <1>1 DEF Arp!InventoryAccepted, InventoryThere
      <3>2. q.inventory # Absent => q.inventory = [before |-> S, after |-> T]
        BY <1>1 DEF Arp!InventoryAccepted
      <3>3. q.inventory # Absent => inventory = [before |-> T, after |-> S]
        BY <3>2
      <3> HIDE DEF S, T, sides
      <3>4. q.inventory = Absent => inventory = Absent
        OBVIOUS
      <3> HIDE DEF inventory
      <3> QED  BY <2>1, <3>1, <3>3, <3>4 DEF Arp!InventoryAccepted, S, T
    <2>3. other = Arp!CompareReviews(after, before, sides, inventory)
      BY DEF Swapped
    <2> HIDE DEF sides, inventory
    <2> QED  BY <1>1, <2>1, <2>2, <2>3 DEF Arp!CompareReviews
  <1> HIDE DEF a, other
  <1>4. /\ B # Refused /\ A # Refused
        /\ a = [e \in DOMAIN B \cup DOMAIN A |-> Arp!Transition(B, A, e)]
        /\ other = [e \in DOMAIN A \cup DOMAIN B |-> Arp!Transition(A, B, e)]
    BY <1>1, <1>3 DEF Arp!Compared
  <1>5. LinesRead(before.observations) /\ LinesRead(after.observations)
    BY DEF ReviewRead
  <1>6. /\ Arp!InputAccepted(before) /\ EventsShown(before, B)
        /\ Arp!InputAccepted(after) /\ EventsShown(after, A)
    BY <1>4, <1>5, EventsExplain
  <1> HIDE DEF B, A
  <1>7. DOMAIN B = Transitions(before) /\ DOMAIN A = Transitions(after)
    BY <1>6 DEF EventsShown
  <1>8. ASSUME NEW e \in DOMAIN B, NEW x \in DOMAIN A, x = e
        PROVE  B[e] = A[e] <=> Shown(before, e) = Shown(after, e)
    <2>1. PICK i \in DOMAIN before.observations, j \in DOMAIN before.observations :
            B[e] = Arp!Finding(before, i, j) /\ Shown(before, e) = {Evidence(before, i, j)}
      BY <1>6 DEF EventsShown
    <2>2. PICK k \in DOMAIN after.observations, l \in DOMAIN after.observations :
            A[e] = Arp!Finding(after, k, l) /\ Shown(after, e) = {Evidence(after, k, l)}
      BY <1>6, <1>8 DEF EventsShown
    <2>3. Arp!Finding(before, i, j) = Arp!Finding(after, k, l) <=> Evidence(before, i, j) = Evidence(after, k, l)
      BY <1>6, SameFindings
    <2> HIDE DEF before, after
    <2> QED  BY <2>1, <2>2, <2>3
  <1>9. ASSUME NEW e \in DOMAIN a
        PROVE  /\ a[e].status = "added" <=> e \notin DOMAIN B
               /\ a[e].status = "not_observed" <=> e \notin DOMAIN A
               /\ a[e].status = "unchanged" <=> Shown(before, e) = Shown(after, e)
               /\ other[e].status = Opposite[a[e].status]
    <2>1. e \in DOMAIN B \cup DOMAIN A /\ e \in DOMAIN A \cup DOMAIN B
      BY <1>4
    <2>2. a[e].status = Arp!TransitionStatus(B, A, e) /\ other[e].status = Arp!TransitionStatus(A, B, e)
      BY <1>4, <2>1 DEF Arp!Transition
    <2>3. e \notin DOMAIN B => Shown(before, e) = {} /\ Shown(after, e) # {}
      BY <1>6, <2>1 DEF EventsShown
    <2>4. e \notin DOMAIN A => Shown(after, e) = {} /\ Shown(before, e) # {}
      BY <1>6, <2>1 DEF EventsShown
    <2>5. e \in DOMAIN B /\ e \in DOMAIN A => (B[e] = A[e] <=> Shown(before, e) = Shown(after, e))
      BY <1>8
    <2> DEFINE s == Arp!TransitionStatus(B, A, e)
               t == Arp!TransitionStatus(A, B, e)
               told == Shown(before, e)
               shown == Shown(after, e)
    <2> HIDE DEF told, shown
    <2>6. (s = "added" <=> e \notin DOMAIN B) /\ (s = "not_observed" <=> e \notin DOMAIN A)
      BY <2>1 DEF Arp!TransitionStatus
    <2>7. s = "unchanged" <=> e \in DOMAIN B /\ e \in DOMAIN A /\ B[e] = A[e]
      BY <2>1 DEF Arp!TransitionStatus
    <2>8. t = Opposite[s]
      BY <2>1 DEF Arp!TransitionStatus, Opposite
    <2>9. s = "unchanged" <=> told = shown
      BY <2>1, <2>3, <2>4, <2>5, <2>7 DEF told, shown
    <2> HIDE DEF s, t
    <2> QED  BY <2>2, <2>6, <2>8, <2>9 DEF s, t, told, shown
  <1>10. DOMAIN a = DOMAIN B \cup DOMAIN A
    BY <1>4
  <1>11. Replayed(before, q.neighbors.before) /\ Replayed(after, q.neighbors.after)
    BY <1>1, SidesReplay
  <1> QED  BY <1>2, <1>7, <1>9, <1>10, <1>11 DEF AccountsTransitions, other

------------------------------------------------------------------------------
(* The inductive invariant: a tool was given one of its inputs, and what it *)
(* has answered is what its algorithm makes of it.                          *)
Faithful(tool, inputs, F(_)) ==
    asked[1] = tool => /\ Question \in inputs
                       /\ answer # Nothing => answer = F(Question)

IInv ==
    /\ Faithful("resets", Resets, LAMBDA q : Tcp!ReviewBytes(q.rows, q.min, q.window))
    /\ Faithful("attempts", Batches, LAMBDA q : Correlation!CorrelateJsonl(q.events, q.config))
    /\ Faithful("arp", ArpInputs, LAMBDA q : Arp!ReviewLines(q))
    /\ Faithful("arp_pair", ArpPairs, LAMBDA q : Arp!CompareReviews(q.before, q.after, q.neighbors, q.inventory))
    /\ Faithful("neighbors", Snapshots, LAMBDA q : Arp!ImportSnapshots(q))
    /\ Faithful("case", Cases, LAMBDA q : CloudTrail!BuildCase(q.files, q.account, q.threshold, q.window))
    /\ Faithful("dns", Workflows, LAMBDA q : Dns!ReviewLogs(q))
    /\ Faithful("handoff", Handoffs, LAMBDA q : Handoff!HandoffVerified(q.handoff, q.now))
    /\ Faithful("reports", ReportPairs, LAMBDA q : Behavior!CompareReports(q.base, q.current))
    /\ Faithful("yara", Exercises, LAMBDA q : Behavior!RunManifestExercise(q))
    /\ Faithful("policy", Conformances,
                LAMBDA q : [oracle |-> Policy!EvaluateCases(q.doc, q.suite),
                            opa |-> Policy!RunOpaCases(q.doc, q.suite)])

LEMMA InitIInv == Init => IInv
  <1> SUFFICES ASSUME Init PROVE IInv
    OBVIOUS
  <1>1. answer = Nothing
    BY DEF Init
  <1>2. ASSUME NEW q \in Resets, asked = <<"resets", q>> PROVE IInv
    BY <1>1, <1>2 DEF IInv, Faithful, Question
  <1>3. ASSUME NEW q \in Batches, asked = <<"attempts", q>> PROVE IInv
    BY <1>1, <1>3 DEF IInv, Faithful, Question
  <1>4. ASSUME NEW q \in ArpInputs, asked = <<"arp", q>> PROVE IInv
    BY <1>1, <1>4 DEF IInv, Faithful, Question
  <1>5. ASSUME NEW q \in ArpPairs, asked = <<"arp_pair", q>> PROVE IInv
    BY <1>1, <1>5 DEF IInv, Faithful, Question
  <1>6. ASSUME NEW q \in Snapshots, asked = <<"neighbors", q>> PROVE IInv
    BY <1>1, <1>6 DEF IInv, Faithful, Question
  <1>7. ASSUME NEW q \in Cases, asked = <<"case", q>> PROVE IInv
    BY <1>1, <1>7 DEF IInv, Faithful, Question
  <1>8. ASSUME NEW q \in Workflows, asked = <<"dns", q>> PROVE IInv
    BY <1>1, <1>8 DEF IInv, Faithful, Question
  <1>9. ASSUME NEW q \in Handoffs, asked = <<"handoff", q>> PROVE IInv
    BY <1>1, <1>9 DEF IInv, Faithful, Question
  <1>10. ASSUME NEW q \in ReportPairs, asked = <<"reports", q>> PROVE IInv
    BY <1>1, <1>10 DEF IInv, Faithful, Question
  <1>11. ASSUME NEW q \in Exercises, asked = <<"yara", q>> PROVE IInv
    BY <1>1, <1>11 DEF IInv, Faithful, Question
  <1>12. ASSUME NEW q \in Conformances, asked = <<"policy", q>> PROVE IInv
    BY <1>1, <1>12 DEF IInv, Faithful, Question
  <1> QED  BY <1>2, <1>3, <1>4, <1>5, <1>6, <1>7, <1>8, <1>9, <1>10, <1>11, <1>12, Zenon DEF Init

LEMMA NextStep == ASSUME IInv, [Next]_vars PROVE IInv'
  <1> DEFINE step == /\ asked' = asked
                     /\ \/ answer' = answer
                        \/ /\ asked[1] = "resets"
                           /\ answer' = Tcp!ReviewBytes(Question.rows, Question.min, Question.window)
                        \/ /\ asked[1] = "attempts"
                           /\ answer' = Correlation!CorrelateJsonl(Question.events, Question.config)
                        \/ asked[1] = "arp" /\ answer' = Arp!ReviewLines(Question)
                        \/ /\ asked[1] = "arp_pair"
                           /\ answer' = Arp!CompareReviews(Question.before, Question.after,
                                                           Question.neighbors, Question.inventory)
                        \/ asked[1] = "neighbors" /\ answer' = Arp!ImportSnapshots(Question)
                        \/ /\ asked[1] = "case"
                           /\ answer' = CloudTrail!BuildCase(Question.files, Question.account,
                                                             Question.threshold, Question.window)
                        \/ asked[1] = "dns" /\ answer' = Dns!ReviewLogs(Question)
                        \/ asked[1] = "handoff" /\ answer' = Handoff!HandoffVerified(Question.handoff, Question.now)
                        \/ asked[1] = "reports" /\ answer' = Behavior!CompareReports(Question.base, Question.current)
                        \/ asked[1] = "yara" /\ answer' = Behavior!RunManifestExercise(Question)
                        \/ /\ asked[1] = "policy"
                           /\ answer' = [oracle |-> Policy!EvaluateCases(Question.doc, Question.suite),
                                         opa |-> Policy!RunOpaCases(Question.doc, Question.suite)]
  <1>1. ASSUME ReviewResets \/ CorrelateAttempts \/ ReviewArp \/ CompareArp \/ ImportNeighbors PROVE step
    BY <1>1 DEF ReviewResets, CorrelateAttempts, ReviewArp, CompareArp, ImportNeighbors, Asked
  <1>2. ASSUME BuildCase \/ ReviewDns PROVE step
    BY <1>2 DEF BuildCase, ReviewDns, Asked
  <1>3. ASSUME VerifyHandoff \/ CompareReports \/ RunYara \/ ConformPolicies PROVE step
    BY <1>3 DEF VerifyHandoff, CompareReports, RunYara, ConformPolicies, Asked
  <1>4. ASSUME UNCHANGED vars PROVE step
    BY <1>4 DEF vars
  <1>5. step
    BY <1>1, <1>2, <1>3, <1>4 DEF Next
  <1>6. Question' = Question
    BY <1>5 DEF Question
  <1>7. Faithful("resets", Resets, LAMBDA q : Tcp!ReviewBytes(q.rows, q.min, q.window))'
    BY <1>5, <1>6 DEF IInv, Faithful
  <1>8. Faithful("attempts", Batches, LAMBDA q : Correlation!CorrelateJsonl(q.events, q.config))'
    BY <1>5, <1>6 DEF IInv, Faithful
  <1>9. Faithful("arp", ArpInputs, LAMBDA q : Arp!ReviewLines(q))'
    BY <1>5, <1>6 DEF IInv, Faithful
  <1>10. Faithful("arp_pair", ArpPairs, LAMBDA q : Arp!CompareReviews(q.before, q.after, q.neighbors, q.inventory))'
    BY <1>5, <1>6 DEF IInv, Faithful
  <1>11. Faithful("neighbors", Snapshots, LAMBDA q : Arp!ImportSnapshots(q))'
    BY <1>5, <1>6 DEF IInv, Faithful
  <1>12. Faithful("case", Cases, LAMBDA q : CloudTrail!BuildCase(q.files, q.account, q.threshold, q.window))'
    BY <1>5, <1>6 DEF IInv, Faithful
  <1>13. Faithful("dns", Workflows, LAMBDA q : Dns!ReviewLogs(q))'
    BY <1>5, <1>6 DEF IInv, Faithful
  <1>14. Faithful("handoff", Handoffs, LAMBDA q : Handoff!HandoffVerified(q.handoff, q.now))'
    BY <1>5, <1>6 DEF IInv, Faithful
  <1>15. Faithful("reports", ReportPairs, LAMBDA q : Behavior!CompareReports(q.base, q.current))'
    BY <1>5, <1>6 DEF IInv, Faithful
  <1>16. Faithful("yara", Exercises, LAMBDA q : Behavior!RunManifestExercise(q))'
    BY <1>5, <1>6 DEF IInv, Faithful
  <1>17. Faithful("policy", Conformances,
              LAMBDA q : [oracle |-> Policy!EvaluateCases(q.doc, q.suite),
                          opa |-> Policy!RunOpaCases(q.doc, q.suite)])'
    BY <1>5, <1>6 DEF IInv, Faithful
  <1> QED  BY <1>7, <1>8, <1>9, <1>10, <1>11, <1>12, <1>13, <1>14, <1>15, <1>16, <1>17 DEF IInv, Faithful

\* The step from the invariant of every answer to what each property says of it
LEMMA AnswersFaithful == Spec => []IInv
  <1>1. Init => IInv
    BY InitIInv
  <1>2. IInv /\ [Next]_vars => IInv'
    BY NextStep
  <1> QED  BY <1>1, <1>2, PTL DEF Spec

\* A report names exactly the groups of which some window of window_seconds holds
\* min_resets rows, each with the largest such window and the earliest of the largest,
\* whatever the order of the lines (review_bytes).
THEOREM StrongestWindowsReported == Spec => []ResetWindowsStrongest
  <1>1. IInv => ResetWindowsStrongest
    <2> SUFFICES ASSUME IInv, asked[1] = "resets", answer # Nothing PROVE Strongest(Question, answer)
      BY DEF ResetWindowsStrongest, Answered, Strongest, FirstLargest, Largest, Lines, Until
    <2>1. Question \in Resets /\ answer = Tcp!ReviewBytes(Question.rows, Question.min, Question.window)
      BY DEF IInv, Faithful
    <2> DEFINE rows == Question.rows
    <2>2. /\ Len(rows) \in Nat /\ DOMAIN rows = 1..Len(rows) /\ (rows = << >> <=> Len(rows) = 0)
          /\ \A i \in DOMAIN rows : rows[i].ts \in Nat /\ rows[i].uid \in Nat
          /\ Question.min \in Nat /\ Question.window \in Nat
          /\ ~ Tcp!DuplicateUid(rows) => Refused # Tcp!Report(rows, Question.min, Question.window)
      BY <2>1, ResetAssumption, LenProperties, EmptySeq
    <2> QED  BY ONLY <2>1, <2>2, ReportIsStrongest
  <1> QED  BY <1>1, AnswersFaithful, PTL

\* Reported windows share no attempt and satisfy the configuration, no attempt that is
\* left out starts one that avoids them, and the same events in the opposite order lead
\* to the same claims (correlate_repeated_attempts).
THEOREM AttemptsAreCorrelatedOnce == Spec => []AttemptsCorrelatedOnce
  <1>1. IInv => AttemptsCorrelatedOnce
    <2> SUFFICES ASSUME IInv, asked[1] = "attempts", answer # Nothing PROVE CorrelatedOnce(Question, answer)
      BY DEF AttemptsCorrelatedOnce, Answered, CorrelatedOnce, ClaimsOf, From
    <2>1. Question \in Batches /\ answer = Correlation!CorrelateJsonl(Question.events, Question.config)
      BY DEF IInv, Faithful
    <2> DEFINE events == Question.events
    <2>2. /\ Len(events) \in Nat /\ DOMAIN events = 1..Len(events)
          /\ \A i \in DOMAIN events : events[i].ts \in Nat \cup {None} /\ events[i].dst \in Nat \cup {None}
          /\ Question.config.window \in Int
      BY <2>1, BatchAssumption, LenProperties
    <2> QED  BY ONLY <2>1, <2>2, ReportCorrelatesOnce
  <1> QED  BY <1>1, AnswersFaithful, PTL

\* Every recent change of an interface and IP, against its last line before, is one
\* finding; a lease, the recent forwarding entries and the port rule explain it exactly
\* when one covers it, they are the last two and the rule allows the port of the latest;
\* and every finding is in one class of the policy (review_lines).
THEOREM FindingsAreExplained == Spec => []ArpFindingsExplained
  <1>1. IInv => ArpFindingsExplained
    <2> SUFFICES ASSUME IInv, asked[1] = "arp", answer # Nothing PROVE ExplainsFindings(Question, answer)
      BY DEF ArpFindingsExplained, Answered, ExplainsFindings, LeaseTold, ForwardingTold, PortsOf,
             Allows
    <2>1. Question \in ArpInputs /\ answer = Arp!ReviewLines(Question)
      BY DEF IInv, Faithful
    <2>2. ReviewRead(Question)
      BY <2>1, ArpAssumption, LenProperties DEF ReviewRead, LinesRead, LeasesRead, EntriesRead
    <2> QED  BY ONLY <2>1, <2>2, ReviewExplains
  <1> QED  BY <1>1, AnswersFaithful, PTL

\* A transition is added or not observed exactly when one review only has it, and
\* unchanged exactly when the leases, the captures with their ports and ages and the
\* rules that are evidence of it are the same in both; the other way round every status
\* is the opposite.  The observations of a side with neighbor snapshots, and of an
\* import, are the rows they refer to (compare_reviews, import_snapshots).
THEOREM TransitionsAreAccounted == Spec => []ArpTransitionsAccounted
  <1>1. IInv => ArpTransitionsAccounted
    <2>1. ASSUME IInv, asked[1] = "arp_pair", answer # Nothing PROVE AccountsTransitions(Question, answer)
      <3> DEFINE q == Question
      <3>1. q \in ArpPairs /\ answer = Arp!CompareReviews(q.before, q.after, q.neighbors, q.inventory)
        BY <2>1 DEF IInv, Faithful
      <3>2. ReviewRead(q.before) /\ ReviewRead(q.after)
        BY <3>1, ArpAssumption, LenProperties DEF ReviewRead, LinesRead, LeasesRead, EntriesRead
      <3>3. SourceRead(q.neighbors.before) /\ SourceRead(q.neighbors.after)
        <4>1. \A source \in {q.neighbors.before, q.neighbors.after} :
                source # Absent => source.snapshots \in UNION {Retained(pair) : pair \in ArpPairs}
          BY <3>1 DEF Retained
        <4> DEFINE all == UNION {Retained(pair) : pair \in ArpPairs}
        <4>2. ASSUME NEW s \in all PROVE SnapshotsRead(s)
          <5>1. s \in Snapshots \cup all
            OBVIOUS
          <5> HIDE DEF all, q
          <5> QED  BY <5>1, ArpAssumption, LenProperties DEF SnapshotsRead, all
        <4> HIDE DEF all, q
        <4>3. \A source \in {q.neighbors.before, q.neighbors.after} : SourceRead(source)
          BY <4>1, <4>2 DEF SourceRead, all
        <4> QED  BY <4>3
      <3>4. InventoryThere(q)
        BY <3>1, ArpAssumption DEF InventoryThere
      <3> QED  BY ONLY <3>1, <3>2, <3>3, <3>4, ComparisonAccounts
    <2>2. ASSUME IInv, asked[1] = "neighbors", answer # Nothing PROVE AccountsImport(Question, answer)
      <3>1. Question \in Snapshots /\ answer = Arp!ImportSnapshots(Question)
        BY <2>2 DEF IInv, Faithful
      <3>2. SnapshotsRead(Question)
        BY <3>1, ArpAssumption, LenProperties DEF SnapshotsRead
      <3>3. Arp!ImportSnapshots(Question) # Refused => AnswersDiffer(Arp!ImportSnapshots(Question))
        BY <3>1, ArpAssumption DEF AnswersDiffer
      <3> QED  BY ONLY <3>1, <3>2, <3>3, ImportAccounts
    <2> QED  BY <2>1, <2>2 DEF ArpTransitionsAccounted, Answered, AccountsTransitions, AccountsImport,
                              Transitions, Opposite, Swapped, Replayed
  <1> QED  BY <1>1, AnswersFaithful, PTL

\* The case holds every supplied record as one event with all its copies, its candidates
\* are the largest bursts of the keys that have one, and the same files in the opposite
\* order, or with one of them twice, lead to the same (build_case).
THEOREM CaseCountsEachOnce == Spec => []CasesCountOnce
  <1>1. IInv => CasesCountOnce
    <2> SUFFICES ASSUME IInv, asked[1] = "case", answer # Nothing PROVE CountedOnce(Question, answer)
      BY DEF CasesCountOnce, Answered, CountedOnce, Told, Failed, Burst, KeysOf, At, Places
    <2>1. /\ Question \in Cases
          /\ answer = CloudTrail!BuildCase(Question.files, Question.account, Question.threshold, Question.window)
      BY DEF IInv, Faithful
    <2> DEFINE files == Question.files
    <2>2. /\ files \in Seq({files[f] : f \in DOMAIN files})
          /\ \A f \in DOMAIN files :
               /\ files[f] \in Seq({files[f][r] : r \in DOMAIN files[f]})
               /\ \A r \in DOMAIN files[f] : files[f][r].time \in Nat /\ files[f][r].id \in Nat \cup {None}
      BY <2>1, CaseAssumption
    <2>3. FilesRead(files)
      <3>1. Files(files)
        BY <2>2, LenProperties DEF Files
      <3>2. \A p \in Places(files) : p.input \in DOMAIN files /\ p.record \in DOMAIN files[p.input]
        BY <3>1, PlacesAre DEF Files
      <3> QED  BY <2>2, <3>1, <3>2 DEF FilesRead, Records, At
    <2> QED  BY ONLY <2>1, <2>2, <2>3, CaseCountsOnce
  <1> QED  BY <1>1, AnswersFaithful, PTL

\* The queue has every host of which the second log's newest usable answers differ from
\* the reviewed ones, once and by its band, assessed iff it was for those answers, and a
\* review that meets its requirements leaves none unassessed or unanswered (review_logs).
THEOREM QueueKeepsEveryFinding == Spec => []QueueKeepsFindings
  <1>1. IInv => QueueKeepsFindings
    <2> SUFFICES ASSUME IInv, asked[1] = "dns", answer # Nothing, answer # Refused, Question.queue
                 PROVE  KeepsFindings(Question, answer)
      BY DEF QueueKeepsFindings, Answered, KeepsFindings, Assessed, Diverges, Usable, NowObserved,
             NewestOf, Scoped
    <2>1. Question \in Workflows /\ answer = Dns!ReviewLogs(Question)
      BY DEF IInv, Faithful
    <2> QED  BY <2>1, QueueIsKept
  <1> QED  BY <1>1, AnswersFaithful, PTL

\* An accepted handoff has exactly one risk and one team-response attestation for each
\* finding, of the record supplied, by a key that is active and was granted that finding,
\* role and team, and still in force (verify_reviewed_handoff).
THEOREM HandoffsFullyAttested == Spec => []HandoffFullyAttested
  <1>1. IInv => HandoffFullyAttested
    <2> SUFFICES ASSUME IInv, asked[1] = "handoff", answer # Nothing, answer
                 PROVE  FullyAttested(Question.handoff, Question.now)
      BY DEF HandoffFullyAttested, Answered, FullyAttested
    <2>1. Question \in Handoffs /\ Handoff!HandoffVerified(Question.handoff, Question.now)
      BY DEF IInv, Faithful
    <2>2. /\ Question.now \in Nat /\ Question.handoff.approval.expires \in Nat
          /\ IsFiniteSet(DOMAIN Question.handoff.workflow.team)
          /\ Question.handoff.attestations
               \in Seq({Question.handoff.attestations[i] : i \in DOMAIN Question.handoff.attestations})
          /\ \A i \in DOMAIN Question.handoff.attestations : Question.handoff.attestations[i].expires \in Nat
          /\ \A i \in DOMAIN Question.handoff.authority.keys : Question.handoff.authority.keys[i].key # None
      BY <2>1, HandoffAssumption
    <2> QED  BY ONLY <2>1, <2>2, AcceptedIsFullyAttested
  <1> QED  BY <1>1, AnswersFaithful, PTL

------------------------------------------------------------------------------
\* What run_manifest_exercise returns is what the pinned rule matches in the pinned
\* fixture, whatever the files are replaced by after they were read.
THEOREM PinnedBytesAreScanned == Spec => []PinnedBytesScanned
  <1>1. IInv => PinnedBytesScanned
    BY DEF IInv, Faithful, PinnedBytesScanned, Answered, Behavior!RunManifestExercise,
           Behavior!RunExercise, Behavior!Scanned
  <1> QED  BY <1>1, AnswersFaithful, PTL

------------------------------------------------------------------------------
\* Two reports say the same when nothing of what is compared differs; in version 1
\* there are no mappings.
LEMMA UnchangedSaysTheSame ==
    ASSUME NEW base, NEW current, Accepted(base), Accepted(current)
    PROVE  /\ ObservationChanges(base, current) = {} <=> Observed(base) = Observed(current)
           /\ base.version = current.version =>
                ((base.version = 2 => MappingChanges(base, current) = {})
                   <=> {Plain(m) : m \in Mapped(base)} = {Plain(m) : m \in Mapped(current)})
  <1>1. CASE base.version = 2 /\ current.version = 2
    BY <1>1, MappingsChange, ObservationsChange
  <1>2. CASE base.version = 1 /\ current.version = 1
    <2>1. Mapped(base) = {} /\ Mapped(current) = {}
      BY <1>2 DEF Accepted, ReportRead, Mapped, Behavior!Range
    <2> QED  BY <1>2, <2>1, ObservationsChange
  <1>3. CASE base.version # current.version
    BY <1>3, ObservationsChange
  <1> QED  BY <1>1, <1>2, <1>3 DEF Accepted, ReportRead

\* What is listed for review is linked in a report that has it.
LEMMA ListedIsLinked ==
    ASSUME NEW base, NEW current, Accepted(base), Accepted(current),
           base.version = 2, current.version = 2, NEW entry \in ForReview(base, current)
    PROVE  entry.ids \cap Behavior!Summarize(base).unlinked
             \cap Behavior!Summarize(current).unlinked = {}
  <1> DEFINE linked(r) == UNION {Behavior!Range(r.mappings[i].ids) : i \in DOMAIN r.mappings}
  <1>1. entry.ids \subseteq UNION {Behavior!Range(m.ids) : m \in Mapped(base) \cup Mapped(current)}
    BY DEF ForReview, Shaken
  <1>2. ASSUME NEW r, Accepted(r), r.version = 2
        PROVE  /\ Behavior!Summarize(r).unlinked = Behavior!Ids(r) \ linked(r)
               /\ linked(r) = UNION {Behavior!Range(m.ids) : m \in Mapped(r)}
    <2>1. Behavior!Summarize(r).unlinked = Behavior!Ids(r) \ linked(r)
      BY <1>2 DEF Behavior!Summarize, Accepted
    <2>2. linked(r) = UNION {Behavior!Range(m.ids) : m \in Mapped(r)}
      BY DEF Mapped, Behavior!Range
    <2> QED  BY <2>1, <2>2
  <1> HIDE DEF linked
  <1> QED  BY <1>1, <1>2

\* What DependentsReviewed says of an answer
Reviewed(base, current, answered) ==
    LET entries(r) == Behavior!Range(r.observations)
        kept == {o.id : o \in entries(base) \cap entries(current)}
        mappings == Behavior!Range(base.mappings) \cup Behavior!Range(current.mappings)
        shaken(t) == (UNION {Behavior!Range(m.ids) : m \in {n \in mappings : n.technique = t}}) \ kept
        said(r) == [entries |-> entries(r), tools |-> Behavior!Sorted(r.tools),
                    environment |-> r.environment, version |-> r.version,
                    mappings |-> {[m EXCEPT !.ids = Behavior!Range(@)] : m \in Behavior!Range(r.mappings)}]
    IN  /\ answered.comparable =>
             answered.review = {[technique |-> t, ids |-> shaken(t)] :
                                t \in {u \in {m.technique : m \in mappings} : shaken(u) # {}}}
        /\ answered.status = "unchanged" <=> said(base) = said(current)
        /\ Behavior!CompareReports(current, base).review = answered.review
        /\ \A m \in answered.review :
             m.ids \cap Behavior!Summarize(base).unlinked
               \cap Behavior!Summarize(current).unlinked = {}

LEMMA ComparisonReviews ==
    ASSUME NEW base, NEW current, Accepted(base), Accepted(current), base.sample = current.sample
    PROVE  Reviewed(base, current, Behavior!CompareReports(base, current))
  <1> DEFINE answered == Behavior!CompareReports(base, current)
             comparable == base.version = 2 /\ current.version = 2
             plain(r) == {Plain(m) : m \in Mapped(r)}
             said(r) == [entries |-> Observed(r), tools |-> Behavior!Sorted(r.tools),
                         environment |-> r.environment, version |-> r.version, mappings |-> plain(r)]
  <1>1. /\ answered.comparable <=> comparable
        /\ answered.review = IF comparable THEN ForReview(base, current) ELSE {}
    BY ReviewListsDependents
  <1>2. Behavior!CompareReports(current, base).review = IF comparable THEN ForReview(current, base) ELSE {}
    BY ReviewListsDependents
  <1>3. ForReview(base, current) = ForReview(current, base)
    BY DEF ForReview, Shaken, Kept
  <1>4. answered.status = "unchanged" <=>
          /\ ObservationChanges(base, current) = {}
          /\ base.environment = current.environment
          /\ Behavior!Sorted(base.tools) = Behavior!Sorted(current.tools)
          /\ base.version = current.version
          /\ base.version = 2 => MappingChanges(base, current) = {}
    BY ReviewListsDependents
  <1>5. /\ ObservationChanges(base, current) = {} <=> Observed(base) = Observed(current)
        /\ base.version = current.version =>
             ((base.version = 2 => MappingChanges(base, current) = {}) <=> plain(base) = plain(current))
    BY UnchangedSaysTheSame
  <1> HIDE DEF answered, plain
  <1>6. answered.status = "unchanged" <=> said(base) = said(current)
    BY <1>4, <1>5
  <1>7. \A m \in answered.review :
          m.ids \cap Behavior!Summarize(base).unlinked \cap Behavior!Summarize(current).unlinked = {}
    BY <1>1, ListedIsLinked
  <1>8. answered.comparable =>
          answered.review = {[technique |-> t, ids |-> Shaken(base, current, t)] :
             t \in {u \in {m.technique : m \in Mapped(base) \cup Mapped(current)} :
                     Shaken(base, current, u) # {}}}
    BY <1>1 DEF ForReview
  <1>9. Behavior!CompareReports(current, base).review = answered.review
    BY <1>1, <1>2, <1>3
  <1> QED
    BY <1>6, <1>7, <1>8, <1>9 DEF Reviewed, answered, plain, Plain, Observed, Mapped, Shaken, Kept

\* A comparison lists for review each technique that rests on an observation which is
\* not in both reports as it was, with exactly these; it says "unchanged" only of reports
\* that say the same, lists the same the other way round, and lists nothing that both
\* summaries call unlinked (compare_reports).
THEOREM DependentsAreReviewed == Spec => []DependentsReviewed
  <1>1. ASSUME IInv, asked[1] = "reports", answer # Nothing, answer # Refused
        PROVE  /\ answer = Behavior!CompareReports(Question.base, Question.current)
               /\ Accepted(Question.base) /\ Accepted(Question.current)
               /\ Question.base.sample = Question.current.sample
    <2>1. Question \in ReportPairs /\ answer = Behavior!CompareReports(Question.base, Question.current)
      BY <1>1 DEF IInv, Faithful
    <2>2. ReportRead(Question.base) /\ ReportRead(Question.current)
      BY <2>1, ReportAssumption DEF ReportRead
    <2>3. /\ Behavior!ReportValid(Question.base) /\ Behavior!ReportValid(Question.current)
          /\ Question.base.sample = Question.current.sample
      BY <1>1, <2>1 DEF Behavior!CompareReports
    <2> QED  BY <2>1, <2>2, <2>3 DEF Accepted
  <1>2. IInv => DependentsReviewed
    <2> SUFFICES ASSUME IInv, asked[1] = "reports", answer # Nothing, answer # Refused
                 PROVE  Reviewed(Question.base, Question.current, answer)
      BY DEF DependentsReviewed, Answered, Reviewed
    <2> QED  BY <1>1, ComparisonReviews
  <1> QED  BY <1>2, AnswersFaithful, PTL

------------------------------------------------------------------------------
\* The instance of ToolPolicy that Reviews asks is ToolPolicy.
LEMMA SameCommands ==
    ASSUME NEW doc, NEW suite
    PROVE  /\ Policy!EvaluateCases(doc, suite) = EvaluateCases(doc, suite)
           /\ Policy!RunOpaCases(doc, suite) = RunOpaCases(doc, suite)
  <1>1. Policy!PolicyData(doc) = PolicyData(doc)
    BY DEF Policy!PolicyData, PolicyData, Policy!Names, Names, Policy!Texts, Texts,
           Policy!Entry, Entry, Policy!Strip, Strip
  <1>2. Policy!RawData(doc) = RawData(doc)
    BY DEF Policy!RawData, RawData, Policy!RawNames, RawNames, Policy!RawEntry, RawEntry,
           Policy!Members, Members, Policy!Names, Names, Policy!Strip, Strip,
           Policy!Unpadded, Unpadded
  <1>3. ASSUME NEW policy, NEW in PROVE Policy!Decide(policy, in) = Decide(policy, in)
    BY DEF Policy!Decide, Decide, Policy!Decision, Decision, Policy!RolesOf, RolesOf
  <1>4. ASSUME NEW data, NEW in, NEW d PROVE Policy!RegoAnswers(data, in, d) <=> RegoAnswers(data, in, d)
    BY DEF Policy!RegoAnswers, RegoAnswers, Policy!RegoDecisions, RegoDecisions, Policy!Decision,
           Decision, Policy!RoleAllowed, RoleAllowed, Policy!RequiresStepUp, RequiresStepUp
  <1>5. ASSUME NEW actual PROVE Policy!Mismatched(suite, actual) = Mismatched(suite, actual)
    BY DEF Policy!Mismatched, Mismatched
  <1>6. [i \in DOMAIN suite |-> Policy!Decide(Policy!PolicyData(doc), suite[i].input)]
          = [i \in DOMAIN suite |-> Decide(PolicyData(doc), suite[i].input)]
    BY <1>1, <1>3
  <1>7. Policy!EvaluateCases(doc, suite) = EvaluateCases(doc, suite)
    BY <1>5, <1>6 DEF Policy!EvaluateCases, EvaluateCases
  <1> DEFINE decisions == [effect : {"allow", "deny", "step_up"},
                           reason : {"unknown_tool", "role_not_allowed", "step_up_required",
                                     "authorized", "default_deny"}]
             opa(in) == CHOOSE d \in decisions : RegoAnswers(RawData(doc), in, d)
             policyOpa(in) == CHOOSE d \in decisions : Policy!RegoAnswers(Policy!RawData(doc), in, d)
  <1>8. ASSUME NEW in PROVE policyOpa(in) = opa(in)
    <2> HIDE DEF decisions
    <2> QED  BY <1>2, <1>4
  <1>9. /\ Policy!RunOpaCases(doc, suite) =
             Policy!Mismatched(suite, [i \in DOMAIN suite |-> policyOpa(suite[i].input)])
        /\ RunOpaCases(doc, suite) = Mismatched(suite, [i \in DOMAIN suite |-> opa(suite[i].input)])
    BY DEF Policy!RunOpaCases, RunOpaCases
  <1> HIDE DEF opa, policyOpa
  <1>10. [i \in DOMAIN suite |-> policyOpa(suite[i].input)] = [i \in DOMAIN suite |-> opa(suite[i].input)]
    BY <1>8
  <1> QED  BY <1>5, <1>7, <1>9, <1>10

\* policy_cli and opa_conformance_cli report the same mismatches with the same decisions
\* for every suite, if the texts of the policy files have no blanks around them and the
\* entries of an object have different names.
THEOREM CommandsAgree ==
    (\A q \in Conformances : PlainPolicy(q.doc)) => (Spec => []ReportsAgree)
  <1> SUFFICES ASSUME \A q \in Conformances : PlainPolicy(q.doc) PROVE Spec => []ReportsAgree
    OBVIOUS
  <1>1. IInv => ReportsAgree
    BY SameCommands, SuitesAgree DEF IInv, Faithful, ReportsAgree, Answered
  <1> QED  BY <1>1, AnswersFaithful, PTL
==============================================================================
