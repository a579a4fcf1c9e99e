--------------------------- MODULE ReviewedHandoff ---------------------------
(***************************************************************************)
(* dns_authorized_handoff.py and dns_reviewer_handoff.py: a recipient       *)
(* accepts a reproduced DNS workflow under a signed approval of its         *)
(* requirements and one signed attestation for each finding and role.       *)
(*                                                                          *)
(* A statement is signed by its "signer" and verifies for the key that is   *)
(* its signer's.  The workflow is what it reproduces to: for each finding   *)
(* the routed team and the supplied risk and team-response records.         *)
(***************************************************************************)
EXTENDS Integers, Sequences, FiniteSets, Functions

CONSTANT None       \* the team of a risk grant

Roles == {"risk", "team-response"}

\* read_authorities: one entry per key
AuthorityAccepted(authority) ==
    /\ authority.maximum_validity > 0 /\ authority.keys # << >>
    /\ \A i, j \in DOMAIN authority.keys : authority.keys[i].key = authority.keys[j].key => i = j

\* read_reviewers: a risk grant has no team, any other has one.
ReviewersAccepted(reviewers) ==
    /\ AuthorityAccepted(reviewers)
    /\ \A i \in DOMAIN reviewers.keys :
         /\ reviewers.keys[i].grants # {}
         /\ \A g \in reviewers.keys[i].grants :
              g.role \in Roles /\ (g.role = "risk" <=> g.team = None)

Active(authority, key) ==
    \E i \in DOMAIN authority.keys :
       authority.keys[i].key = key /\ authority.keys[i].status = "active"

InForce(statement, authority, now) ==
    /\ statement.issued <= now /\ now < statement.expires
    /\ statement.expires - statement.issued \in 1..authority.maximum_validity

Verifies(statement) == statement.signer = statement.key

\* verify_approval: "context" stands for the requirements, scope and policy bytes.
ApprovalVerified(approval, context, authority, now) ==
    /\ AuthorityAccepted(authority)
    /\ approval.audience = authority.audience
    /\ Active(authority, approval.key)
    /\ InForce(approval, authority, now)
    /\ Verifies(approval)
    /\ approval.context = context

------------------------------------------------------------------------------
\* _expected: the record and the team for each finding and role.  Findings come
\* from the report, records from the supplied documents.
Expected(workflow) ==
    [fr \in {<<f, r>> : f \in DOMAIN workflow.team, r \in Roles} |->
       IF fr[2] = "risk" THEN [record |-> workflow.risk[fr[1]], team |-> None]
       ELSE [record |-> workflow.response[fr[1]], team |-> workflow.team[fr[1]]]]

\* ... which are refused unless they cover every finding.
Covered(workflow) ==
    /\ DOMAIN workflow.team # {}
    /\ DOMAIN workflow.risk = DOMAIN workflow.team
    /\ DOMAIN workflow.response = DOMAIN workflow.team

\* Mutated form: a grant holds for any team.
GrantedForAnyTeam(reviewers, a, team) ==
    \E i \in DOMAIN reviewers.keys :
       /\ reviewers.keys[i].key = a.key
       /\ \E g \in reviewers.keys[i].grants : g.finding = a.finding /\ g.role = a.role

Granted(reviewers, a, team) ==
    \E i \in DOMAIN reviewers.keys :
       /\ reviewers.keys[i].key = a.key
       /\ [finding |-> a.finding, role |-> a.role, team |-> team] \in reviewers.keys[i].grants

\* _verify_one: a record's own time is observed_at or reviewed_at.
AttestationVerified(a, expected, reviewers, now) ==
    /\ a.audience = reviewers.audience
    /\ Active(reviewers, a.key) /\ Granted(reviewers, a, expected.team)
    /\ InForce(a, reviewers, now)
    /\ a.issued >= expected.record.time
    /\ a.record = expected.record
    /\ Verifies(a)

\* verify_reviewed_handoff; "pinned": the reviewer policy has the expected digest,
\* "reproduced": verify_workflow succeeds under the recipient's requirements.
\*   h == [workflow, context, reproduced, approval, authority, reviewers, pinned,
\*         attestations]
HandoffVerified(h, now) ==
    /\ h.pinned /\ ReviewersAccepted(h.reviewers)
    /\ ApprovalVerified(h.approval, h.context, h.authority, now)
    /\ h.reproduced
    /\ h.reviewers.audience = h.authority.audience
    /\ Covered(h.workflow)
    /\ LET expected == Expected(h.workflow)
           identity(i) == <<h.attestations[i].finding, h.attestations[i].role>>
       IN  /\ Len(h.attestations) = Cardinality(DOMAIN expected)
           /\ \A i \in DOMAIN h.attestations :
                /\ identity(i) \in DOMAIN expected
                /\ \A j \in 1..(i - 1) : identity(j) # identity(i)
                /\ AttestationVerified(h.attestations[i], expected[identity(i)], h.reviewers, now)
==============================================================================
