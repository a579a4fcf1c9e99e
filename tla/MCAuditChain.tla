----------------------------- MODULE MCAuditChain -----------------------------
(***************************************************************************)
(* Chains of up to three records over three requests, with instants of two  *)
(* seconds, and one change to the copy.                                     *)
(***************************************************************************)
EXTENDS AuditChain, TLC

CONSTANTS r1, r2, r3

RequestIds == {r1, r2, r3}
RequestSymmetry == Permutations(RequestIds)

At(second, fraction) == [second |-> second, fraction |-> fraction]

\* One second has an instant with a fraction and one without.
Instants == {At(1, 0), At(1, 50), At(2, 0)}

Decisions ==
    {[effect |-> "allow", stage |-> "policy", key_version |-> 1],
     [effect |-> "deny", stage |-> "verification", key_version |-> NoKey],
     [effect |-> "allow", stage |-> "verification", key_version |-> NoKey]}
==============================================================================
