--------------------------- MODULE MCSignedRequests ---------------------------
(***************************************************************************)
(* Two verifiers, an active and a revoked agent, and five objects: a        *)
(* request, the same with other arguments under the old signature, a later  *)
(* request with the same nonce, one whose timestamp is at the last edge,    *)
(* and one with a field missing.                                            *)
(***************************************************************************)
EXTENDS SignedRequests, TLC

CONSTANTS v1, v2

Verifiers == {v1, v2}
VerifierSymmetry == Permutations(Verifiers)

A == <<"a">>
B == <<"b">>
Key(agent) == [agent_id |-> agent, key |-> "key"]

Fields(agent, args, timestamp, nonce) ==
    [agent_id |-> agent, session_id |-> "s", tool_name |-> "t", tool_args |-> args,
     timestamp |-> timestamp, nonce |-> nonce]
With(fields, signature) ==
    [f \in RequestFields |-> IF f = "signature" THEN signature ELSE fields[f]]
Signed(fields) ==
    With(fields, [key |-> Key(fields.agent_id), over |-> fields])

First == Fields(A, <<"x">>, 1, <<"n">>)
Objects ==
    {Signed(First),
     With(Fields(A, <<"y">>, 1, <<"n">>), [key |-> Key(A), over |-> First]),
     Signed(Fields(A, <<"x">>, 3, <<"n">>)),
     Signed(Fields(B, <<"x">>, 2, <<"n">>)),
     Signed(Fields(A, <<"x">>, 2, <<"n", "n", "n">>)),
     Fields(A, <<"x">>, 1, <<"m">>)}

Credentials ==
    {[agent_id |-> A, status |-> "active", public_key |-> Key(A), key_version |-> 1],
     [agent_id |-> B, status |-> "active", public_key |-> Key(B), key_version |-> 1],
     [agent_id |-> A, status |-> "revoked", public_key |-> Key(A), key_version |-> 1]}
==============================================================================
