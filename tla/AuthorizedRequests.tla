-------------------------- MODULE AuthorizedRequests --------------------------
(***************************************************************************)
(* authorize_signed_request of authorization.py: the policy input is        *)
(* checked, the request is verified and its nonce reserved                  *)
(* (SignedRequests), and only then a policy engine decides (ToolPolicy):    *)
(* the Python oracle on the loaded policy, or an installed OPA on the file, *)
(* run as a subprocess that may be missing, time out, fail or answer        *)
(* something malformed (opa_conformance.py).                                *)
(***************************************************************************)
EXTENDS SignedRequests, ToolPolicy

CONSTANTS
    PolicyDoc,      \* the policy file, given to both engines
    RiskInput       \* [risk_score, step_up_token_valid, engine] a caller may pass

ASSUME PolicyAssumption == PolicyAccepted(PolicyDoc)

VARIABLES
    input,          \* input[v]: the RiskInput of v's call
    outcome,        \* outcome[v]: the AuthorizationDecision of v's last call,
                    \* NoCall when it raised or there was none
    evaluated       \* requests for which this process has asked a policy engine

policyVars == <<input, outcome, evaluated>>
allVars == <<vars, policyVars>>

PolicyInput(v) ==
    [agent_id |-> call[v].request.agent_id, tool_name |-> call[v].request.tool_name,
     risk_score |-> input[v].risk_score,
     step_up_token_valid |-> input[v].step_up_token_valid]

AuthorizeInit ==
    /\ Init
    /\ input = [v \in Verifier |-> NoCall]
    /\ outcome = [v \in Verifier |-> NoCall]
    /\ evaluated = {}

\* PolicyInput.from_dict raises before the verification, so a bad risk score
\* leaves the nonce unused: only an accepted input starts a call.
Begin(v, r, credential, in) ==
    /\ in.risk_score \in 0..100
    /\ Receive(v, r, credential)
    /\ input' = [input EXCEPT ![v] = in]
    /\ outcome' = [outcome EXCEPT ![v] = NoCall]
    /\ UNCHANGED evaluated

Verify(v) == Reserve(v) /\ UNCHANGED policyVars

Decided(v, decision, stage) ==
    outcome' = [outcome EXCEPT ![v] =
        [request |-> call[v].request, input |-> input[v], effect |-> decision.effect,
         reason |-> decision.reason, stage |-> stage]]

\* A refused verification never reaches the policy.
DenyAtVerification(v) ==
    /\ call[v] # NoCall /\ call[v].answer \notin {"", "verified"}
    /\ Decided(v, Decision("deny", call[v].answer), "verification")
    /\ Return(v)
    /\ UNCHANGED <<input, evaluated>>

Evaluating(v, engine) ==
    call[v] # NoCall /\ call[v].answer = "verified" /\ input[v].engine = engine

\* The engine has been asked and the call returns.
EvaluationEnds(v) ==
    /\ evaluated' = evaluated \cup {call[v].request}
    /\ Return(v)
    /\ UNCHANGED input

EvaluateOracle(v) ==
    /\ Evaluating(v, "oracle")
    /\ Decided(v, Decide(PolicyData(PolicyDoc), PolicyInput(v)), "policy")
    /\ EvaluationEnds(v)

EvaluateOpa(v) ==
    /\ Evaluating(v, "opa")
    /\ \E d \in [effect : {"allow", "deny", "step_up"},
                 reason : {"unknown_tool", "role_not_allowed", "step_up_required",
                           "authorized", "default_deny"}] :
         RegoAnswers(RawData(PolicyDoc), PolicyInput(v), d) /\ Decided(v, d, "policy")
    /\ EvaluationEnds(v)

\* FileNotFoundError, TimeoutExpired, a failed exit, an answer that is not one
\* decision: OpaConformanceError leaves the call without a decision and without
\* a fall back to the oracle.
FailOpa(v) ==
    /\ Evaluating(v, "opa")
    /\ EvaluationEnds(v)
    /\ UNCHANGED outcome

AuthorizeRestart ==
    /\ Restart
    /\ input' = [v \in Verifier |-> NoCall]
    /\ outcome' = [v \in Verifier |-> NoCall]
    /\ evaluated' = {}

Step(v) == Verify(v) \/ DenyAtVerification(v) \/ EvaluateOracle(v) \/ EvaluateOpa(v) \/ FailOpa(v)

AuthorizeNext ==
    \/ \E v \in Verifier :
         \/ \E r \in Raw, credential \in Credential \cup {NoCredential}, in \in RiskInput :
              Begin(v, r, credential, in)
         \/ Step(v)
    \/ Tick /\ UNCHANGED policyVars
    \/ AuthorizeRestart

AuthorizeSpec == AuthorizeInit /\ [][AuthorizeNext]_allVars

------------------------------------------------------------------------------
\* A request reaches a policy engine once: denied, held for step-up or failed
\* there, it has used its nonce, and a retry needs a newly signed request
\* (authorization.py:60-76; README.md:126-127).
EvaluatedOnce ==
    [][\A v \in Verifier :
         Evaluating(v, input[v].engine) /\ call'[v] = NoCall /\ evaluated' # {}
             => call[v].request \notin evaluated]_allVars

\* "allow" means, whichever engine said so, that this process verified the request,
\* which an active agent's own key signed with these arguments, and that the agent
\* holds a role its tool lists, with a step-up token when the tool is sensitive and
\* the risk has reached the threshold.
AllowIsAuthorized ==
    \A v \in Verifier :
      outcome[v] # NoCall /\ outcome[v].effect = "allow" =>
        LET r == outcome[v].request
            policy == PolicyData(PolicyDoc)
        IN  /\ r \in verified \cap evaluated
            /\ \E c \in Credential : /\ c.agent_id = r.agent_id /\ c.status = "active"
                                     /\ r.signature = [key |-> c.public_key, over |-> Canonical(r)]
            /\ r.tool_name \in DOMAIN policy.tools
            /\ RolesOf(policy, r.agent_id) \cap policy.tools[r.tool_name].roles # {}
            /\ policy.tools[r.tool_name].sensitivity = "high" =>
                 \/ outcome[v].input.step_up_token_valid
                 \/ outcome[v].input.risk_score < policy.step_up_risk
==============================================================================
