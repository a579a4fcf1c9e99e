------------------------------ MODULE MCDnsTasks ------------------------------
(***************************************************************************)
(* A small world of DNS review tasks, shared by the journal runs: one       *)
(* audience, two findings, one team that keeps another key in reserve, and  *)
(* two policies for the same team (p2 is the re-encoded successor of p1     *)
(* that no longer lists k1 as active).                                      *)
(*                                                                          *)
(*   acceptance  finding  key  policy  window                               *)
(*   a1          f1       k1   p1      [0, 2)   short-lived first acceptance *)
(*   a2          f1       k2   p1      [1, 3)   competes, then follows       *)
(*   b1          f1       k2   p2      [1, 3)   the same task, new policy    *)
(*   c1          f2       k2   p1      [0, 1)   another task                 *)
(*   x1          f1       k1   p2      [0, 2)   signed by k1, revoked in p2  *)
(*   d1          f1       k1   p1      [0, 3)   long enough to be released   *)
(*   d2          f1       k2   p1      [1, 3)   a successor signed early     *)
(*   d3          f1       k2   p1      [2, 4)   a successor signed later     *)
(*                                                                          *)
(*   release     of   released, expires                                     *)
(*   r1          d1   1, 2                                                   *)
(*   r2          d1   1, 3    another release of the same acceptance         *)
(*   r3          d2   2, 3                                                   *)
(***************************************************************************)
EXTENDS Naturals, TLC

McPolicy == {"p1", "p2"}
McWorkflow == {"w1"}
McKey == {"k1", "k2"}
McAudience == {"soc"}
McFinding == {"f1", "f2"}
McTeam == {"dns"}
McInstant == 0..4

McClaimOf(k, f, p, from, until) ==
    [key |-> k, signer |-> k, audience |-> "soc", finding |-> f, team |-> "dns",
     workflow |-> "w1", policy |-> p, accepted |-> from, expires |-> until]

AllClaims ==
    "a1" :> McClaimOf("k1", "f1", "p1", 0, 2) @@
    "a2" :> McClaimOf("k2", "f1", "p1", 1, 3) @@
    "b1" :> McClaimOf("k2", "f1", "p2", 1, 3) @@
    "c1" :> McClaimOf("k2", "f2", "p1", 0, 1) @@
    "x1" :> McClaimOf("k1", "f1", "p2", 0, 2) @@
    "d1" :> McClaimOf("k1", "f1", "p1", 0, 3) @@
    "d2" :> McClaimOf("k2", "f1", "p1", 1, 3) @@
    "d3" :> McClaimOf("k2", "f1", "p1", 2, 4)

\* The run's own choice among them.
ClaimsOf(acceptances) == [a \in acceptances |-> AllClaims[a]]

McReleaseOf(a, from, until) ==
    [acceptance |-> a, task |-> <<"soc", AllClaims[a].finding>>,
     key |-> AllClaims[a].key, signer |-> AllClaims[a].key,
     policy |-> AllClaims[a].policy, released |-> from, expires |-> until]

AllReleases ==
    "r1" :> McReleaseOf("d1", 1, 2) @@
    "r2" :> McReleaseOf("d1", 1, 3) @@
    "r3" :> McReleaseOf("d2", 2, 3)

ReleasesOf(releases) == [r \in releases |-> AllReleases[r]]

McGrants(k) == {[key |-> k, finding |-> f, team |-> "dns"] : f \in McFinding}

McPolicyOf(keys) ==
    [audience |-> "soc", maximum_validity |-> 3,
     active |-> UNION {McGrants(k) : k \in keys}]

McAuthority == "p1" :> McPolicyOf({"k1", "k2"}) @@ "p2" :> McPolicyOf({"k2"})

McHandoff == "w1" :>
    [audience |-> "soc", reproduces |-> McInstant,
     routed |-> {[finding |-> f, team |-> "dns"] : f \in McFinding},
     accepted |-> {[finding |-> f, team |-> "dns", reviewed |-> 0] : f \in McFinding}]
==============================================================================
