---------------------------- MODULE DnsWorkflow ----------------------------
(***************************************************************************)
(* The saved-log DNS workflow: two Zeek logs are imported (zeek_dns_import),*)
(* compared (dns_review), reviewed against a policy (dns_policy_review),    *)
(* scored (dns_risk_review), answered by teams (dns_ownership_review),      *)
(* queued (dns_review_queue), and reproduced by a recipient                 *)
(* (zeek_dns_workflow, zeek_dns_workflow_verify).                           *)
(*                                                                          *)
(*   row         [host, wanted, ts, reason, addresses]; wanted: of the      *)
(*               selected record type; reason "" for a usable answer        *)
(*   rule        [host, team, expected]                                     *)
(*   assessment  [host, addresses, observed_at, impact, exposure,           *)
(*               authorization]                                             *)
(*   response    [finding, team, decision, reviewed_at]                     *)
(* A digest is the value that is hashed.                                    *)
(***************************************************************************)
EXTENDS Integers, Sequences, FiniteSets, Arrangement

CONSTANTS
    None,       \* a supplied document that was not given, a row that is not there
    Refused     \* the outcome of an input that raises ValueError

\* Mutated form: the last row of a host in the file counts.
TakeLast(latest, rows, n, end) ==
    LET r == rows[n]
    IN  IF r.ts > end THEN Refused
        ELSE [h \in DOMAIN latest \cup {r.host} |->
                IF h = r.host THEN [ts |-> r.ts, value |-> <<r.reason, r.addresses>>, lines |-> <<n>>]
                ELSE latest[h]]

\* import_dns for one scoped row of the selected type
Take(latest, rows, n, end) ==
    LET r == rows[n]
        value == <<r.reason, r.addresses>>
        known == r.host \in DOMAIN latest
        with(entry) == [h \in DOMAIN latest \cup {r.host} |-> IF h = r.host THEN entry ELSE latest[h]]
        prior == latest[r.host]
    IN  IF r.ts > end THEN Refused
        ELSE IF ~ known \/ r.ts > prior.ts THEN with([ts |-> r.ts, value |-> value, lines |-> <<n>>])
        ELSE IF r.ts < prior.ts THEN latest
        ELSE IF value # prior.value THEN Refused
        ELSE with([prior EXCEPT !.lines = Append(@, n)])

\* The loop over the rows: per host what its latest row says
Latest(rows, allowed, end) ==
    LET latest[n \in 0..Len(rows)] ==
          IF n = 0 THEN [h \in {} |-> None]
          ELSE IF latest[n - 1] = Refused THEN Refused
          ELSE IF rows[n].host \in allowed /\ rows[n].wanted THEN Take(latest[n - 1], rows, n, end)
          ELSE latest[n - 1]
    IN  latest[Len(rows)]

\* import_dns: the snapshot's records, and the receipt's references
ImportDns(rows, allowed, end) ==
    LET latest == Latest(rows, allowed, end)
        usable == {h \in DOMAIN latest : latest[h].value[1] = ""}
    IN  IF latest = Refused THEN Refused
        ELSE [time |-> end,
              records |-> [h \in usable |-> latest[h].value[2]],
              selected |-> [h \in usable |-> latest[h].lines],
              omitted |-> [h \in DOMAIN latest \ usable |-> latest[h].value[1]]]

------------------------------------------------------------------------------
\* dns_review: compare
Hosts(s) == DOMAIN s.records

ComparisonStatus(before, after, h) ==
    IF h \notin Hosts(before) THEN "first_observed"
    ELSE IF h \notin Hosts(after) THEN "not_observed_current"
    ELSE IF before.records[h] # after.records[h] THEN "changed" ELSE "unchanged"

\* _snapshot: the records are in scope, and none is without an address.
SnapshotAccepted(s, allowed) ==
    Hosts(s) \subseteq allowed /\ \A h \in Hosts(s) : s.records[h] # {}

Compare(before, after, allowed) ==
    IF \/ ~ SnapshotAccepted(before, allowed) \/ ~ SnapshotAccepted(after, allowed)
       \/ after.time <= before.time THEN Refused
    ELSE [h \in Hosts(before) \cup Hosts(after) |-> ComparisonStatus(before, after, h)]

\* dns_policy_review: review
RulesAccepted(rules, allowed) ==
    /\ \A i \in DOMAIN rules : rules[i].host \in allowed
    /\ \A i, j \in DOMAIN rules : rules[i].host = rules[j].host => i = j

ReviewOf(after, rules, h) ==
    LET rule == {i \in DOMAIN rules : rules[i].host = h}
        r == rules[CHOOSE i \in rule : TRUE]
        result(status, extra, missing) ==
          [status |-> status, team |-> IF rule = {} THEN None ELSE r.team,
           current_record |-> Cardinality({g \in Hosts(after) : h \in Hosts(after) /\ g <= h}),
           extra |-> extra, missing |-> missing]
    IN  IF rule = {} THEN result("no_review_rule", {}, {})
        ELSE IF h \notin Hosts(after) THEN result("not_observed_current", {}, {})
        ELSE LET observed == after.records[h]
             IN  result(IF observed = r.expected THEN "matches_reviewed_addresses"
                        ELSE "address_policy_mismatch",
                        observed \ r.expected, r.expected \ observed)

Review(before, after, rules, allowed) ==
    LET reviewed == Hosts(before) \cup Hosts(after) \cup {rules[i].host : i \in DOMAIN rules}
    IN  IF Compare(before, after, allowed) = Refused \/ ~ RulesAccepted(rules, allowed) THEN Refused
        ELSE [comparison |-> Compare(before, after, allowed), before |-> before, after |-> after, rules |-> rules,
              reviews |-> [h \in reviewed |-> ReviewOf(after, rules, h)]]

Mismatches(review) ==
    {h \in DOMAIN review.reviews : review.reviews[h].status = "address_policy_mismatch"}

\* finding_digest: the policy's bytes, the finding and the observation
FindingDigest(review, h) ==
    <<review.rules, h, review.reviews[h], review.after.time, review.after.records[h]>>

------------------------------------------------------------------------------
\* dns_risk_review: score_review
Impact == [low |-> 10, moderate |-> 30, high |-> 50]
Exposure == [internal |-> 0, restricted |-> 10, public |-> 25]
Authorization == [approved |-> -20, unreviewed |-> 20, denied |-> 35]

Score(a) ==
    LET uncapped == Impact[a.impact] + Exposure[a.exposure] + Authorization[a.authorization]
    IN  IF uncapped < 0 THEN 0 ELSE IF uncapped > 100 THEN 100 ELSE uncapped

Band(score) == IF score >= 70 THEN "urgent" ELSE IF score >= 40 THEN "priority" ELSE "routine"

\* An assessment names one current mismatch, and its current observation.
AssessmentsAccepted(review, assessments) ==
    /\ \A i \in DOMAIN assessments :
         /\ assessments[i].host \in Mismatches(review)
         /\ assessments[i].addresses = review.after.records[assessments[i].host]
         /\ assessments[i].observed_at = review.after.time
    /\ \A i, j \in DOMAIN assessments : assessments[i].host = assessments[j].host => i = j

\* The risk layer: the score of each assessed mismatch
ScoreReview(review, assessments) ==
    IF ~ AssessmentsAccepted(review, assessments) THEN Refused
    ELSE [h \in {assessments[i].host : i \in DOMAIN assessments} |->
            Score(assessments[CHOOSE i \in DOMAIN assessments : assessments[i].host = h])]

\* dns_ownership_review: review_ownership
ResponsesAccepted(review, responses) ==
    /\ \A i \in DOMAIN responses : \E h \in Mismatches(review) :
         /\ responses[i].finding = FindingDigest(review, h)
         /\ responses[i].team = review.reviews[h].team
         /\ responses[i].reviewed_at >= review.after.time
    /\ \A i, j \in DOMAIN responses : responses[i].finding = responses[j].finding => i = j

\* The ownership layer: the decision of each answered mismatch
ReviewOwnership(review, responses) ==
    LET of(h) == {i \in DOMAIN responses : responses[i].finding = FindingDigest(review, h)}
    IN  IF ~ ResponsesAccepted(review, responses) THEN Refused
        ELSE [h \in {m \in Mismatches(review) : of(m) # {}} |->
                responses[CHOOSE i \in of(h) : TRUE].decision]

------------------------------------------------------------------------------
\* dns_review_queue: build_queue; a layer that is not there is empty.
Layer(layer) == IF layer = None THEN << >> ELSE layer

BandOf(risk, h) == IF h \in DOMAIN risk THEN Band(risk[h]) ELSE "unassessed"

Order == [urgent |-> 0, priority |-> 1, routine |-> 2, unassessed |-> 3]

NextReview(risk, owners, h) ==
    IF h \notin DOMAIN risk THEN "supply_assessment_facts"
    ELSE IF h \notin DOMAIN owners THEN "request_team_response"
    ELSE IF owners[h] = "declined" THEN "resolve_declined_routing"
    ELSE "review_proposed_remediation"

\* The key of the sort: the band, the higher score, the name
Sooner(risk, g, h) ==
    LET score(k) == IF k \in DOMAIN risk THEN risk[k] ELSE 0
        b == Order[BandOf(risk, g)]
        c == Order[BandOf(risk, h)]
    IN  \/ b < c
        \/ b = c /\ score(g) > score(h)
        \/ b = c /\ score(g) = score(h) /\ g < h

BuildQueue(review, risk, owners) ==
    LET found == Mismatches(review)
        order == Arranged(found, {p \in found \X found : Sooner(risk, p[1], p[2])})
    IN  [n \in DOMAIN order |->
           [host |-> order[n], band |-> BandOf(risk, order[n]),
            next |-> NextReview(risk, owners, order[n])]]

------------------------------------------------------------------------------
\* zeek_dns_workflow: review_logs.  The inputs of one workflow are
\*   w == [before, after, from, until, allowed, rules, assessments, responses, queue]

ReviewImported(w, before, after) ==
    IF before = Refused THEN Refused
    ELSE IF after = Refused THEN Refused
    ELSE Review(before, after, w.rules, w.allowed)

Reviewed(w) ==
    ReviewImported(w, ImportDns(w.before, w.allowed, w.from), ImportDns(w.after, w.allowed, w.until))

RiskLayer(w, review) ==
    IF w.assessments = None THEN None ELSE ScoreReview(review, w.assessments)

OwnershipLayer(w, review) ==
    IF w.responses = None THEN None ELSE ReviewOwnership(review, w.responses)

Layered(w, review, risk, owners) ==
    IF review = Refused THEN Refused
    ELSE IF risk = Refused \/ owners = Refused THEN Refused
    ELSE [review |-> review, risk_review |-> risk, ownership_review |-> owners,
          review_queue |-> IF w.queue THEN BuildQueue(review, Layer(risk), Layer(owners)) ELSE None]

LayersOf(w, review) == Layered(w, review, RiskLayer(w, review), OwnershipLayer(w, review))

ReviewLogs(w) == LayersOf(w, Reviewed(w))

\* check_requirements: the layers the recipient wants, and their coverage
RequirementsMet(requirements, report) ==
    /\ \A layer \in requirements.layers : report[layer] # None
    /\ requirements.risk_assessed =>
         "risk_review" \in requirements.layers
         /\ DOMAIN Layer(report.risk_review) = Mismatches(report.review)
    /\ requirements.team_responded =>
         "ownership_review" \in requirements.layers
         /\ DOMAIN Layer(report.ownership_review) = Mismatches(report.review)

\* What a saved report is rebuilt from: the inputs supplied separately, with the two
\* instants and the presence of the queue as the report has them
RebuiltFrom(report, w) ==
    [before |-> w.before, after |-> w.after, allowed |-> w.allowed, rules |-> w.rules,
     assessments |-> w.assessments, responses |-> w.responses,
     from |-> report.review.before.time, until |-> report.review.after.time,
     queue |-> report.review_queue # None]

\* verify_workflow: the report is the one that is rebuilt, and meets the requirements.
VerifyWorkflow(report, w, requirements) ==
    /\ report # Refused /\ report = ReviewLogs(RebuiltFrom(report, w))
    /\ requirements = None \/ RequirementsMet(requirements, report)
==============================================================================
