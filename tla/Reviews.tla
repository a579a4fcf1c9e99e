------------------------------- MODULE Reviews -------------------------------
(***************************************************************************)
(* The offline review tools, each asked once about one input: the answer of *)
(* the algorithm in the tool's own module is compared with what the tool    *)
(* promises, stated here without its loops, schedules and indexes.          *)
(***************************************************************************)
EXTENDS Integers, Sequences, FiniteSets

CONSTANTS
    Absent, None, Refused,  \* see the modules of the tools
    Nothing,                \* nothing has been answered
    \* The inputs each tool is asked about
    Resets, Batches, ArpInputs, ArpPairs, Snapshots, Cases, Workflows, Handoffs,
    ReportPairs, Exercises, Conformances,
    Yara(_, _)              \* EXTERNAL: the matches of a rule in a fixture

\* A handoff as it has been read: instants are seconds, its attestations an array
\* and its findings the entries of an object, and a key is a text.
ASSUME HandoffAssumption ==
    \A q \in Handoffs :
       LET h == q.handoff
       IN  /\ {q.now, h.approval.expires} \subseteq Nat
           /\ IsFiniteSet(DOMAIN h.workflow.team)
           /\ h.attestations \in Seq({h.attestations[i] : i \in DOMAIN h.attestations})
           /\ \A i \in DOMAIN h.attestations : h.attestations[i].expires \in Nat
           /\ \A i \in DOMAIN h.authority.keys : h.authority.keys[i].key # None

\* Reports as they have been read: arrays of observations and of mappings, each an
\* object with its own fields, and no mappings in version 1.
ASSUME ReportAssumption ==
    \A q \in ReportPairs : \A r \in {q.base, q.current} :
       LET o == r.observations
           m == r.mappings
       IN  /\ r.version \in {1, 2} /\ (r.version = 1 => m = << >>)
           /\ o \in Seq({o[i] : i \in DOMAIN o}) /\ m \in Seq({m[i] : i \in DOMAIN m})
           /\ \A i \in DOMAIN o : o[i] = [id |-> o[i].id, phase |-> o[i].phase,
                                          category |-> o[i].category, text |-> o[i].text]
           /\ \A i \in DOMAIN m : m[i] = [technique |-> m[i].technique, ids |-> m[i].ids,
                                          text |-> m[i].text]

VARIABLES asked, answer

Lists == INSTANCE SequencesExt
Tcp == INSTANCE TcpResetReview

\* Rows as they have been read: an array, instants and UIDs are ordered like
\* numbers, and no report is a refusal.
ASSUME ResetAssumption ==
    \A q \in Resets :
       /\ q.rows \in Seq({q.rows[i] : i \in DOMAIN q.rows})
       /\ \A i \in DOMAIN q.rows : {q.rows[i].ts, q.rows[i].uid} \subseteq Nat
       /\ {q.min, q.window} \subseteq Nat
       /\ ~ Tcp!DuplicateUid(q.rows) => Refused # Tcp!Report(q.rows, q.min, q.window)

\* A batch as it has been read: instants and targets are ordered like numbers.
ASSUME BatchAssumption ==
    \A q \in Batches :
       /\ q.events \in Seq({q.events[i] : i \in DOMAIN q.events})
       /\ \A i \in DOMAIN q.events : {q.events[i].ts, q.events[i].dst} \subseteq Nat \cup {None}
       /\ {q.config.window, q.config.attempts, q.config.targets} \subseteq Int

Correlation == INSTANCE EventCorrelation
Arp == INSTANCE ArpReview

\* What an import is reviewed with: nothing but its observations
ImportReview(import) ==
    [observations |-> import.observations, leases |-> Absent, forwarding |-> Absent,
     policy |-> Absent, window |-> 1, maxAge |-> 1]

\* The neighbor snapshots that a comparison is given
Retained(pair) ==
    {source.snapshots : source \in {pair.neighbors.before, pair.neighbors.after} \ {Absent}}

\* Lines and snapshots as they have been read: instants are ordered like numbers, and so
\* are interfaces and addresses of rows; an inventory is not a missing one, and no review
\* of an import is a refusal.
ASSUME ArpAssumption ==
    /\ \A in \in ArpInputs \cup {q.before : q \in ArpPairs} \cup {q.after : q \in ArpPairs} :
          /\ in.observations \in Seq({in.observations[i] : i \in DOMAIN in.observations})
          /\ \A i \in DOMAIN in.observations : in.observations[i].time \in Nat
          /\ in.leases # Absent =>
               /\ in.leases \in Seq({in.leases[i] : i \in DOMAIN in.leases})
               /\ \A i \in DOMAIN in.leases : {in.leases[i].starts, in.leases[i].ends} \subseteq Nat
          /\ in.forwarding # Absent =>
               /\ in.forwarding \in Seq({in.forwarding[i] : i \in DOMAIN in.forwarding})
               /\ \A i \in DOMAIN in.forwarding : in.forwarding[i].at \in Nat
          /\ in.maxAge \in Int
    /\ \A q \in ArpPairs :
          Absent # [before |-> Arp!Files(q.before, q.neighbors.before),
                    after |-> Arp!Files(q.after, q.neighbors.after)]
    /\ \A q \in Snapshots \cup UNION {Retained(pair) : pair \in ArpPairs} :
          /\ q \in Seq({q[k] : k \in DOMAIN q})
          /\ \A k \in DOMAIN q :
               /\ q[k].time \in Nat /\ q[k].rows \in Seq({q[k].rows[i] : i \in DOMAIN q[k].rows})
               /\ \A i \in DOMAIN q[k].rows : {q[k].rows[i].iface, q[k].rows[i].ip} \subseteq Nat
    /\ \A q \in Snapshots :
          Arp!ImportSnapshots(q) # Refused =>
             LET in == ImportReview(Arp!ImportSnapshots(q))
                 found == Arp!Observed(in).findings
             IN  /\ Refused # Arp!Reconciled(in, found)
                 /\ Refused # Arp!Identified(in, found, Arp!Identities(in, found))

CloudTrail == INSTANCE CloudTrailCase

\* Files as they have been read: arrays of records; instants and event IDs are ordered
\* like numbers.
ASSUME CaseAssumption ==
    \A q \in Cases :
       /\ q.files \in Seq({q.files[f] : f \in DOMAIN q.files})
       /\ \A f \in DOMAIN q.files :
            /\ q.files[f] \in Seq({q.files[f][r] : r \in DOMAIN q.files[f]})
            /\ \A r \in DOMAIN q.files[f] : /\ q.files[f][r].time \in Nat
                                            /\ q.files[f][r].id \in Nat \cup {None}

Dns == INSTANCE DnsWorkflow

\* The documents of a workflow as they have been read: instants and names are ordered
\* like numbers, assessments choose among the given factors, and neither a layer nor a
\* queue nor a requirements document is a missing one.
ASSUME WorkflowAssumption ==
    \A w \in Workflows :
       /\ w.after \in Seq({w.after[n] : n \in DOMAIN w.after})
       /\ \A n \in DOMAIN w.after : {w.after[n].host, w.after[n].ts} \subseteq Nat
       /\ w.assessments # None =>
            /\ \A i \in DOMAIN w.assessments :
                 LET a == w.assessments[i]
                 IN  /\ a.impact \in DOMAIN Dns!Impact /\ a.exposure \in DOMAIN Dns!Exposure
                     /\ a.authorization \in DOMAIN Dns!Authorization
            /\ Dns!Reviewed(w) # Refused => None # Dns!ScoreReview(Dns!Reviewed(w), w.assessments)
       /\ w.queue /\ Dns!ReviewLogs(w) # Refused => None # Dns!ReviewLogs(w).review_queue
       /\ \A l \in SUBSET {"risk_review", "ownership_review"}, assess, respond \in BOOLEAN :
            None # [layers |-> l, risk_assessed |-> assess, team_responded |-> respond]

Handoff == INSTANCE ReviewedHandoff
Behavior == INSTANCE BehaviorReport
Policy == INSTANCE ToolPolicy

vars == <<asked, answer>>

\* A tool is started on one input ...
Init ==
    /\ answer = Nothing
    /\ \/ \E q \in Resets : asked = <<"resets", q>>
       \/ \E q \in Batches : asked = <<"attempts", q>>
       \/ \E q \in ArpInputs : asked = <<"arp", q>>
       \/ \E q \in ArpPairs : asked = <<"arp_pair", q>>
       \/ \E q \in Snapshots : asked = <<"neighbors", q>>
       \/ \E q \in Cases : asked = <<"case", q>>
       \/ \E q \in Workflows : asked = <<"dns", q>>
       \/ \E q \in Handoffs : asked = <<"handoff", q>>
       \/ \E q \in ReportPairs : asked = <<"reports", q>>
       \/ \E q \in Exercises : asked = <<"yara", q>>
       \/ \E q \in Conformances : asked = <<"policy", q>>

\* ... and prints its answer.
Asked(tool) == asked[1] = tool /\ answer = Nothing /\ UNCHANGED asked

Question == asked[2]

ReviewResets ==
    Asked("resets") /\ answer' = Tcp!ReviewBytes(Question.rows, Question.min, Question.window)

CorrelateAttempts ==
    Asked("attempts") /\ answer' = Correlation!CorrelateJsonl(Question.events, Question.config)

ReviewArp == Asked("arp") /\ answer' = Arp!ReviewLines(Question)

CompareArp ==
    /\ Asked("arp_pair")
    /\ answer' = Arp!CompareReviews(Question.before, Question.after, Question.neighbors, Question.inventory)

ImportNeighbors == Asked("neighbors") /\ answer' = Arp!ImportSnapshots(Question)

BuildCase ==
    /\ Asked("case")
    /\ answer' = CloudTrail!BuildCase(Question.files, Question.account, Question.threshold, Question.window)

ReviewDns == Asked("dns") /\ answer' = Dns!ReviewLogs(Question)

VerifyHandoff ==
    Asked("handoff") /\ answer' = Handoff!HandoffVerified(Question.handoff, Question.now)

CompareReports ==
    Asked("reports") /\ answer' = Behavior!CompareReports(Question.base, Question.current)

RunYara == Asked("yara") /\ answer' = Behavior!RunManifestExercise(Question)

ConformPolicies ==
    /\ Asked("policy")
    /\ answer' = [oracle |-> Policy!EvaluateCases(Question.doc, Question.suite),
                  opa |-> Policy!RunOpaCases(Question.doc, Question.suite)]

Next ==
    \/ ReviewResets \/ CorrelateAttempts
    \/ ReviewArp \/ CompareArp \/ ImportNeighbors
    \/ BuildCase \/ ReviewDns \/ VerifyHandoff
    \/ CompareReports \/ RunYara \/ ConformPolicies

Spec == Init /\ [][Next]_vars

\* The answered input of a tool, and what its answer has to satisfy
Answered(tool, Holds(_)) == asked[1] = tool /\ answer # Nothing => Holds(Question)

------------------------------------------------------------------------------
(* tcp_reset_review: a group is reported iff some window_seconds of it, both *)
(* ends included, hold min_resets rows; its evidence is the largest such     *)
(* window and the earliest of the largest, whatever the order of the lines.  *)
ResetWindowsStrongest ==
    Answered("resets", LAMBDA q :
      LET rows == q.rows
          group(g) == {i \in DOMAIN rows :
                         rows[i].proto = "tcp" /\ rows[i].service = g[1] /\ rows[i].state = g[2]}
          until(g, i) == {j \in group(g) : rows[j].ts \in (rows[i].ts - q.window)..rows[i].ts}
          largest(g, i) == \A j \in group(g) : Cardinality(until(g, j)) <= Cardinality(until(g, i))
          first(g) == CHOOSE i \in group(g) : /\ largest(g, i)
                                              /\ \A j \in group(g) : largest(g, j) => rows[i].ts <= rows[j].ts
          groups == {rows[i].service : i \in DOMAIN rows} \X Tcp!ResetStates
          reported == {g \in groups : \E i \in group(g) : Cardinality(until(g, i)) >= q.min}
      IN  IF answer = Refused THEN \/ rows = << >> \/ q.min < 2 \/ q.window < 1
                                   \/ \E i, j \in DOMAIN rows : i # j /\ rows[i].uid = rows[j].uid
          ELSE /\ Tcp!VerifyReport(rows, answer, q.min, q.window)
               /\ {f.group : f \in answer.findings} = reported
               /\ \A f \in answer.findings :
                    /\ Tcp!Range(f.evidence) = until(f.group, first(f.group))
                    /\ Tcp!IsInjective(f.evidence))

(* The event normalizer: reported windows share no attempt, each satisfies  *)
(* the configuration, an unreported attempt starts no window that avoids    *)
(* the reported ones and satisfies it, and the same claims come from the    *)
(* same events in the opposite order.                                       *)
AttemptsCorrelatedOnce ==
    Answered("attempts", LAMBDA q :
      LET events == q.events
          c == q.config
          attempts(s) == Correlation!Attempts(events, s)
          evidence(f) == Correlation!Range(f.evidence)
          reported == UNION {evidence(f) : f \in answer}
          enough(w) == /\ Cardinality(w) >= c.attempts
                       /\ Cardinality({events[i].dst : i \in w}) >= c.targets
          from(i) == {j \in attempts(events[i].src) : events[j].ts \in events[i].ts..(events[i].ts + c.window)}
          claims(findings) == {<<f.src, f.first, f.last, f.count, f.targets>> : f \in findings}
      IN  answer # Refused =>
            /\ Correlation!VerifyEvidence(events, answer, c)
            /\ \A f, g \in answer : f # g => evidence(f) \cap evidence(g) = {}
            /\ \A f \in answer : /\ evidence(f) \subseteq attempts(f.src) /\ enough(evidence(f))
                                 /\ \A i, j \in evidence(f) : events[i].ts - events[j].ts <= c.window
            /\ \A i \in DOMAIN events \ reported :
                 i \in attempts(events[i].src) /\ enough(from(i)) => from(i) \cap reported # {}
            /\ claims(answer) = claims(Correlation!CorrelateJsonl(Lists!Reverse(events), c)))

------------------------------------------------------------------------------
\* What the lines of a review say of one another.  Line i is the last of its interface and
\* IP before line j, and the MAC has changed since, within the window.
Precedes(o, i, j) ==
    /\ i < j /\ Arp!Key(o[i]) = Arp!Key(o[j])
    /\ \A k \in (i + 1)..(j - 1) : Arp!Key(o[k]) # Arp!Key(o[i])

Changes(in, i, j) ==
    LET o == in.observations
    IN  Precedes(o, i, j) /\ o[i].mac # o[j].mac /\ o[j].time - o[i].time <= in.window

ChangesOf(in) ==
    {ij \in (DOMAIN in.observations) \X (DOMAIN in.observations) : Changes(in, ij[1], ij[2])}

\* A lease covers the observation x.
Covers(lease, x) == Arp!SameMapping(lease, x) /\ lease.starts <= x.time /\ x.time <= lease.ends

\* The captures of a station until x, and those of the last two that are recent
Captures(entries, x) == {i \in DOMAIN entries : Arp!SameStation(entries[i], x) /\ entries[i].at <= x.time}
Newer(entries, x, i) == {j \in Captures(entries, x) : entries[j].at > entries[i].at}
Recent(entries, x, maxAge) ==
    {i \in Captures(entries, x) : Cardinality(Newer(entries, x, i)) < 2 /\ x.time - entries[i].at <= maxAge}

RecentOf(in, x) == Recent(in.forwarding, x, in.maxAge)
Latest(in, x) == CHOOSE i \in RecentOf(in, x) : Newer(in.forwarding, x, i) = {}

\* Rule i of the policy is about the station of x; the port of its latest capture is allowed.
RulesOf(in, x) == {i \in DOMAIN in.policy : Arp!SameStation(in.policy[i], x)}
AllowedBy(in, x, i) == in.forwarding[Latest(in, x)].port \in in.policy[i].ports

(* arp_consistency: the findings are the consecutive observations of one IP *)
(* that differ within the window.  A change is expected iff some lease has  *)
(* the new mapping at that instant, and the switch evidence is what the     *)
(* last two captures no later than the observation say, if recent.  Each    *)
(* finding is in one class of the policy reconciliation.                    *)
ArpFindingsExplained ==
    Answered("arp", LAMBDA in :
      LET ports(x) == {in.forwarding[i].port : i \in RecentOf(in, x)}
          total(p) == p["expected_port"] + p["unexpected_port"] + p["no_matching_rule"]
                        + p["no_recent_forwarding_evidence"]
      IN  answer # Refused =>
            /\ in.policy # Absent => total(answer.policy) = Len(answer.findings)
            /\ {<<f.previous_line, f.current_line>> : f \in Arp!Range(answer.findings)} = ChangesOf(in)
            /\ \A k \in DOMAIN answer.findings :
                 LET f == answer.findings[k]
                     x == in.observations[f.current_line]
                 IN  /\ in.leases # Absent =>
                          (f.lease.status = "expected_reassignment" <=>
                             \E i \in DOMAIN in.leases : Covers(in.leases[i], x))
                     /\ in.forwarding # Absent =>
                          /\ Arp!Range(f.forwarding.lines) = RecentOf(in, x)
                          /\ f.forwarding.port_history = "port_move_observed" <=> Cardinality(ports(x)) = 2
                          /\ in.policy # Absent =>
                               (f.forwarding.port_policy.status = "expected_port" <=>
                                  RecentOf(in, x) # {} /\ \E i \in RulesOf(in, x) : AllowedBy(in, x, i)))

\* The evidence of a change: its lines, the lines of the leases that cover it, of each
\* recent capture the line, the port and how much it is older than the latest, and of the
\* rules those consulted and those that allow the port.  Input that was not supplied gives
\* no set.
Evidence(in, i, j) ==
    LET x == in.observations[j]
        recent == RecentOf(in, x)
        age(k) == in.forwarding[Latest(in, x)].at - in.forwarding[k].at
        consulted == IF recent = {} THEN {} ELSE RulesOf(in, x)
    IN  [lines |-> <<i, j>>,
         leases |-> IF in.leases = Absent THEN {}
                    ELSE {{k \in DOMAIN in.leases : Covers(in.leases[k], x)}},
         captures |-> IF in.forwarding = Absent THEN {}
                      ELSE {{<<k, in.forwarding[k].port, age(k)>> : k \in recent}},
         rules |-> IF in.forwarding = Absent \/ in.policy = Absent THEN {}
                   ELSE {<<consulted, {k \in consulted : AllowedBy(in, x, k)}>>}]

\* The transition that a change is an instance of, and the evidence of a transition
TransitionOf(in, ij) == <<in.observations[ij[1]], in.observations[ij[2]]>>
Shown(in, e) == {Evidence(in, ij[1], ij[2]) : ij \in {c \in ChangesOf(in) : TransitionOf(in, c) = e}}

\* Each observation is what the row says that its reference names, and a row with a MAC
\* is referred to.
LeadBack(observations, references, snapshots) ==
    /\ \A n \in DOMAIN observations :
         LET r == references[n]
             row == snapshots[r.snapshot].rows[r.row]
         IN  observations[n] = [time |-> snapshots[r.snapshot].time, iface |-> row.iface,
                                ip |-> row.ip, mac |-> row.mac]
    /\ \A k \in DOMAIN snapshots : \A i \in DOMAIN snapshots[k].rows :
         snapshots[k].rows[i].mac # None =>
           \E n \in DOMAIN observations : references[n] = [snapshot |-> k, row |-> i]

(* compare_reviews: a transition of either review is reported once; it is   *)
(* added or not observed when only one review has it, and unchanged exactly *)
(* when the leases, switch ports, ages and rules behind it are the same, on *)
(* the same lines.  Swapping the reviews swaps every status.  Observations  *)
(* with a neighbor receipt are what its snapshots say, and an accepted      *)
(* neighbor import always gives an input that can be reviewed and compared. *)
ArpTransitionsAccounted ==
    /\ Answered("arp_pair", LAMBDA q :
         LET transitions(in) == {TransitionOf(in, ij) : ij \in ChangesOf(in)}
             opposite == [added |-> "not_observed", not_observed |-> "added",
                          changed |-> "changed", unchanged |-> "unchanged"]
             swap(pair) == [before |-> pair.after, after |-> pair.before]
             inventory == IF q.inventory = Absent THEN Absent ELSE swap(q.inventory)
             swapped == Arp!CompareReviews(q.after, q.before, swap(q.neighbors), inventory)
             replayed(in, source) ==
               source # Absent => LeadBack(in.observations, source.receipt.references, source.snapshots)
         IN  answer # Refused =>
               /\ Arp!VerifyComparison(q.before, q.after, q.neighbors, q.inventory, answer)
               /\ DOMAIN answer = transitions(q.before) \cup transitions(q.after)
               /\ \A e \in DOMAIN answer :
                    /\ answer[e].status = "added" <=> e \notin transitions(q.before)
                    /\ answer[e].status = "not_observed" <=> e \notin transitions(q.after)
                    /\ answer[e].status = "unchanged" <=> Shown(q.before, e) = Shown(q.after, e)
                    /\ swapped[e].status = opposite[answer[e].status]
               /\ replayed(q.before, q.neighbors.before) /\ replayed(q.after, q.neighbors.after))
    /\ Answered("neighbors", LAMBDA q :
         answer # Refused =>
           /\ Arp!Events(ImportReview(answer)) # Refused /\ Arp!Replays(q, answer)
           /\ LeadBack(answer.observations, answer.references, q))

------------------------------------------------------------------------------
(* build_case: the case holds each supplied event once, with every copy of  *)
(* it as a source, a candidate is the largest burst of one actor and source *)
(* within the window, and neither depends on how the events came: the files *)
(* in the opposite order, or one of them supplied twice (if 32 files and    *)
(* 16 MiB still allow it), tell the same.                                   *)
CasesCountOnce ==
    Answered("case", LAMBDA q :
      LET all == UNION {CloudTrail!Range(q.files[f]) : f \in DOMAIN q.files}
          case(files) == CloudTrail!BuildCase(files, q.account, q.threshold, q.window)
          claims(c) == {x.claim : x \in c.candidates}
          told(c) == <<CloudTrail!Range(c.events), claims(c), c.handoff.flagged>>
          failed(k) == {e \in all : CloudTrail!FailedLogin(e) /\ CloudTrail!KeyOf(e) = k}
          burst(k, e) == {x \in failed(k) : x.time \in (e.time - q.window)..e.time}
          copies == UNION {CloudTrail!Range(answer.sources[i]) : i \in DOMAIN answer.sources}
          supplied == UNION {{[input |-> f, record |-> r] : r \in DOMAIN q.files[f]} : f \in DOMAIN q.files}
      IN  answer # Refused =>
            /\ CloudTrail!VerifyCase(answer, q.files, q.account, q.threshold, q.window)
            /\ CloudTrail!Range(answer.events) = all /\ CloudTrail!IsInjective(answer.events)
            /\ copies = supplied
            /\ \A i \in DOMAIN answer.events : \A c \in CloudTrail!Range(answer.sources[i]) :
                 q.files[c.input][c.record] = answer.events[i]
            /\ {c.key : c \in claims(answer)} =
                 {k \in {CloudTrail!KeyOf(e) : e \in all} :
                    \E e \in failed(k) : Cardinality(burst(k, e)) >= q.threshold}
            /\ \A c \in claims(answer) : \A e \in failed(c.key) :
                 Cardinality(burst(c.key, e)) <= c.count /\ c.count = Cardinality(c.ids)
            /\ told(case(Lists!Reverse(q.files))) = told(answer)
            /\ told(case(Append(q.files, q.files[1]))) = told(answer))

(* review_logs, from the two logs to the queue: the queued hosts are those  *)
(* whose latest answers in the second log are usable and differ from their  *)
(* rule, once each and the most urgent first; a finding is prioritized only *)
(* by an assessment of the very addresses that are observed now.  What a    *)
(* recipient's coverage requirements accept leaves nothing to supply.       *)
QueueKeepsFindings ==
    Answered("dns", LAMBDA w :
      LET scoped(h) == {n \in DOMAIN w.after : w.after[n].host = h /\ h \in w.allowed /\ w.after[n].wanted}
          latest(h) == {n \in scoped(h) : \A m \in scoped(h) : w.after[m].ts <= w.after[n].ts}
          observed(h) == UNION {w.after[n].addresses : n \in latest(h)}
          usable(h) == latest(h) # {} /\ \A n \in latest(h) : w.after[n].reason = ""
          ruled(h) == {i \in DOMAIN w.rules : w.rules[i].host = h}
          finding(h) == usable(h) /\ \E i \in ruled(h) : w.rules[i].expected # observed(h)
          queue == answer.review_queue
          assessed(h) == w.assessments # None /\ \E i \in DOMAIN w.assessments :
             /\ w.assessments[i].host = h /\ w.assessments[i].addresses = observed(h)
             /\ w.assessments[i].observed_at = w.until
          accepted(layers, assess, respond) == Dns!VerifyWorkflow(answer, w,
             [layers |-> layers, risk_assessed |-> assess, team_responded |-> respond])
      IN  answer # Refused /\ w.queue =>
            /\ {queue[n].host : n \in DOMAIN queue} = {h \in w.allowed : finding(h)}
            /\ Cardinality({queue[n].host : n \in DOMAIN queue}) = Len(queue)
            /\ \A m, n \in DOMAIN queue :
                 m < n => Dns!Order[queue[m].band] <= Dns!Order[queue[n].band]
            /\ \A n \in DOMAIN queue : queue[n].band # "unassessed" <=> assessed(queue[n].host)
            /\ Dns!VerifyWorkflow(answer, w, None)
            /\ accepted({"risk_review"}, TRUE, FALSE) =>
                 \A n \in DOMAIN queue : queue[n].next # "supply_assessment_facts"
            /\ accepted({"ownership_review"}, FALSE, TRUE) =>
                 \A n \in DOMAIN queue : queue[n].next # "request_team_response")

(* verify_reviewed_handoff: an accepted handoff has, for each finding, one  *)
(* risk and one team-response attestation of exactly the record supplied,   *)
(* each by a key that is active for the reviewers' audience and was granted *)
(* that finding, that role and, for a response, the very team the finding   *)
(* is routed to, and in force until a moment that is still ahead.           *)
HandoffFullyAttested ==
    Answered("handoff", LAMBDA q :
      LET h == q.handoff
          for(f, r) == {i \in DOMAIN h.attestations :
                          h.attestations[i].finding = f /\ h.attestations[i].role = r}
          record(f, r) == IF r = "risk" THEN h.workflow.risk[f] ELSE h.workflow.response[f]
          speaks(a, f, r) == \E k \in DOMAIN h.reviewers.keys :
             /\ h.reviewers.keys[k].key = a.signer /\ h.reviewers.keys[k].status = "active"
             /\ \E g \in h.reviewers.keys[k].grants :
                  /\ g.finding = f /\ g.role = r
                  /\ r = "team-response" => g.team = h.workflow.team[f]
      IN  answer =>
            /\ Len(h.attestations) = 2 * Cardinality(DOMAIN h.workflow.team)
            /\ \A f \in DOMAIN h.workflow.team, r \in Handoff!Roles :
                 \E i \in for(f, r) :
                    LET a == h.attestations[i]
                    IN  /\ for(f, r) = {i}
                        /\ a.record = record(f, r) /\ speaks(a, f, r)
                        /\ record(f, r).time <= a.issued /\ a.issued <= q.now /\ q.now + 1 <= a.expires
            /\ h.approval.signer # None /\ q.now + 1 <= h.approval.expires)

------------------------------------------------------------------------------
(* report_diff: every mapping of either report that rests on an observation *)
(* that is not in both reports as it is, is listed for review with exactly  *)
(* these observations, and no other; "unchanged" means that the reports say *)
(* the same, in whatever order; a comparison the other way round lists the  *)
(* same mappings; and none rests on what both summaries call unlinked.      *)
DependentsReviewed ==
    Answered("reports", LAMBDA q :
      LET entries(r) == Behavior!Range(r.observations)
          kept == {o.id : o \in entries(q.base) \cap entries(q.current)}
          mappings == Behavior!Range(q.base.mappings) \cup Behavior!Range(q.current.mappings)
          shaken(t) == (UNION {Behavior!Range(m.ids) : m \in {n \in mappings : n.technique = t}}) \ kept
          said(r) == [entries |-> entries(r), tools |-> Behavior!Sorted(r.tools),
                      environment |-> r.environment, version |-> r.version,
                      mappings |-> {[m EXCEPT !.ids = Behavior!Range(@)] : m \in Behavior!Range(r.mappings)}]
      IN  answer # Refused =>
            /\ answer.comparable =>
                 answer.review = {[technique |-> t, ids |-> shaken(t)] :
                                    t \in {u \in {m.technique : m \in mappings} : shaken(u) # {}}}
            /\ answer.status = "unchanged" <=> said(q.base) = said(q.current)
            /\ Behavior!CompareReports(q.current, q.base).review = answer.review
            /\ \A m \in answer.review :
                 m.ids \cap Behavior!Summarize(q.base).unlinked
                   \cap Behavior!Summarize(q.current).unlinked = {})

(* run_manifest_exercise: what it returns is what the pinned rule matches   *)
(* in the pinned fixture, even when the files are replaced meanwhile.       *)
PinnedBytesScanned ==
    Answered("yara", LAMBDA q :
       answer # Refused =>
          answer = q.manifest.expected /\ Yara(q.manifest.rule, q.manifest.fixture) = answer)

(* policy_cli and opa_conformance_cli report the same mismatches with the   *)
(* same decisions for one policy file and one suite: the oracle and         *)
(* aegis.rego are one contract, for a file without blanks around its texts. *)
ReportsAgree ==
    Answered("policy", LAMBDA q :
       Policy!PolicyAccepted(q.doc) /\ Policy!SuiteAccepted(q.suite) => answer.oracle = answer.opa)
==============================================================================
