-------------------------- MODULE MCLifecycleJournal --------------------------
(***************************************************************************)
(* Two concurrent commands on one version-2 journal.                        *)
(***************************************************************************)
EXTENDS LifecycleJournal, MCDnsTasks

CONSTANTS q1, q2

Commands == {q1, q2}

CommandSymmetry == Permutations(Commands)

\* One policy, one task: an acceptance, two releases of it, an early successor.
OnePolicy == {"p1"}
OnePolicyAuthority == [p \in OnePolicy |-> McAuthority[p]]
Pair == {"d1", "d2"}
PairClaim == ClaimsOf(Pair)
PairRelease == {"r1", "r2"}
PairReleaseClaim == ReleasesOf(PairRelease)
\* Two policies: a releasable acceptance, its successor under the new policy.
PolicyPair == {"d1", "b1"}
PolicyPairClaim == ClaimsOf(PolicyPair)
OneRelease == {"r2"}
OneReleaseClaim == ReleasesOf(OneRelease)

==============================================================================
