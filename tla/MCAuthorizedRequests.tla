------------------------- MODULE MCAuthorizedRequests -------------------------
(***************************************************************************)
(* Two calls at a time about an analyst's and a responder's requests for a  *)
(* sensitive tool, at and below the step-up threshold, to both engines.     *)
(***************************************************************************)
EXTENDS AuthorizedRequests, TLC

CONSTANTS v1, v2

Verifiers == {v1, v2}
VerifierSymmetry == Permutations(Verifiers)

A == <<"a">>
B == <<"b">>
Key(agent) == [agent_id |-> agent, key |-> "key"]
Fields(agent, tool, args, timestamp) ==
    [agent_id |-> agent, session_id |-> "s", tool_name |-> tool, tool_args |-> args,
     timestamp |-> timestamp, nonce |-> <<"n">>]
With(fields, signature) ==
    [f \in RequestFields |-> IF f = "signature" THEN signature ELSE fields[f]]
Signed(fields) == With(fields, [key |-> Key(fields.agent_id), over |-> fields])

Objects ==
    {Signed(Fields(A, "quarantine", <<"x">>, 2)), Signed(Fields(B, "quarantine", <<"x">>, 1)),
     With(Fields(B, "quarantine", <<"y">>, 1),
          [key |-> Key(B), over |-> Fields(B, "quarantine", <<"x">>, 1)])}

Credentials == {[agent_id |-> a, status |-> "active", public_key |-> Key(a), key_version |-> 1] : a \in {A, B}}

Inputs ==
    {[risk_score |-> 70, step_up_token_valid |-> FALSE, engine |-> "oracle"],
     [risk_score |-> 70, step_up_token_valid |-> TRUE, engine |-> "opa"],
     [risk_score |-> 69, step_up_token_valid |-> FALSE, engine |-> "opa"]}

Plain(text) == [text |-> text, blanks |-> FALSE]

PlainDoc ==
    [schema_version |-> 1, exact_fields |-> TRUE, step_up_risk |-> 70,
     agent_roles |-> <<[name |-> Plain(A), roles |-> <<Plain("analyst")>>],
                       [name |-> Plain(B), roles |-> <<Plain("responder")>>]>>,
     tools |-> <<[name |-> Plain("quarantine"), roles |-> <<Plain("responder")>>,
                  sensitivity |-> Plain("high")]>>]
==============================================================================
