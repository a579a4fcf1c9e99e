-------------------------- MODULE DnsResponsibility --------------------------
(***************************************************************************)
(* Acceptance of one reproduced DNS review task (dns_responsibility.py) and *)
(* the reading of a retained receipt (_receipt and _state of                *)
(* dns_assignment_journal.py).                                              *)
(*                                                                          *)
(* A digest identifies exact bytes, so an acceptance, an acceptance policy  *)
(* and a workflow report are each a member of a set and equal digests are   *)
(* equal members.  Claim[a] is the signed content of acceptance a,          *)
(* Authority[p] the content of policy p, and Handoff[w] what                *)
(* verify_reviewed_handoff and the report establish for workflow w.         *)
(***************************************************************************)
EXTENDS Naturals

CONSTANTS
    Acceptance,     \* digests of signed acceptance files
    Policy,         \* digests of acceptance-authority policies
    Workflow,       \* digests of workflow reports
    Key,            \* enrolled key identifiers
    Audience,       \* recipients
    Finding,        \* exact finding revisions
    Team,           \* review teams
    Instant,        \* the instants a clock or --at may supply
    Claim,          \* [Acceptance -> ClaimRecord]
    Authority,      \* [Policy -> AuthorityRecord]
    Handoff         \* [Workflow -> HandoffRecord]

Grant == [key : Key, finding : Finding, team : Team]

ClaimRecord ==
    [key : Key, signer : Key, audience : Audience, finding : Finding,
     team : Team, workflow : Workflow, policy : Policy,
     accepted : Instant, expires : Instant]

\* "active" holds the grants of the keys whose status is active.
AuthorityRecord ==
    [audience : Audience, maximum_validity : Nat, active : SUBSET Grant]

\* "reproduces" holds the instants at which the complete handoff verifies;
\* "accepted" the [finding, team, reviewed] of its accepted team responses.
HandoffRecord ==
    [audience : Audience, reproduces : SUBSET Instant,
     routed : SUBSET [finding : Finding, team : Team],
     accepted : SUBSET [finding : Finding, team : Team, reviewed : Instant]]

ASSUME InstantAssumption == Instant \subseteq Nat
ASSUME ClaimAssumption == Claim \in [Acceptance -> ClaimRecord]
ASSUME AuthorityAssumption == Authority \in [Policy -> AuthorityRecord]
ASSUME HandoffAssumption == Handoff \in [Workflow -> HandoffRecord]

------------------------------------------------------------------------------
\* The grant that lets the claim's key accept the claim's finding for its team.
GrantOf(a) ==
    [key |-> Claim[a].key, finding |-> Claim[a].finding, team |-> Claim[a].team]

\* Mutated form: any key's signature will do, active or not.
VerifyClaimAnyKey(a, w, p, now) ==
    /\ Claim[a].audience = Authority[p].audience
    /\ Claim[a].workflow = w
    /\ Claim[a].policy = p
    /\ Claim[a].accepted <= now
    /\ now < Claim[a].expires
    /\ Claim[a].signer = Claim[a].key

\* _verify_claim: context, active grant, validity interval, signature.
VerifyClaim(a, w, p, now) ==
    /\ Claim[a].audience = Authority[p].audience
    /\ Claim[a].workflow = w
    /\ Claim[a].policy = p
    /\ GrantOf(a) \in Authority[p].active
    /\ Claim[a].accepted <= now
    /\ now < Claim[a].expires
    /\ Claim[a].expires <= Claim[a].accepted + Authority[p].maximum_validity
    /\ Claim[a].signer = Claim[a].key

\* accept_responsibility: the handoff reproduces, the claim verifies, and the
\* routed team's response to this finding says accepted, before the claim.
AcceptResponsibility(a, w, p, now) ==
    /\ now \in Handoff[w].reproduces
    /\ VerifyClaim(a, w, p, now)
    /\ Claim[a].audience = Handoff[w].audience
    /\ [finding |-> Claim[a].finding, team |-> Claim[a].team] \in Handoff[w].routed
    /\ \E r \in Handoff[w].accepted :
          /\ r.finding = Claim[a].finding
          /\ r.team = Claim[a].team
          /\ r.reviewed <= Claim[a].accepted

------------------------------------------------------------------------------
\* A task is an audience and a finding revision; the team is not part of it.
Task == Audience \X Finding

TaskOf(a) == <<Claim[a].audience, Claim[a].finding>>

\* A retained receipt: the claim it copies, and the instant of verification.
Receipt == [acceptance : Acceptance, verified : Instant]

\* _receipt: the validity interval every read checks again.
ReceiptValid(r) ==
    /\ Claim[r.acceptance].accepted <= r.verified
    /\ r.verified < Claim[r.acceptance].expires

\* _state, the reading of a receipt under the caller's pinned policy and clock.
\* "clock_error" is the raised 'clock precedes acceptance'.
StateOf(r, pin, now) ==
    LET c == Claim[r.acceptance] IN
    IF c.policy # pin \/ c.audience # Authority[pin].audience
      THEN "policy_replaced"
    ELSE IF GrantOf(r.acceptance) \notin Authority[pin].active
      THEN "authority_inactive"
    ELSE IF now < c.accepted THEN "clock_error"
    ELSE IF now >= c.expires THEN "expired"
    ELSE "eligible_for_reverification"
==============================================================================
