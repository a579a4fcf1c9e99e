----------------------------- MODULE Arrangement -----------------------------
(***************************************************************************)
(* Sorting, as sorted and list.sort do it for keys that all differ (a tie   *)
(* of the key proper is decided by the position in a stable sort).          *)
(***************************************************************************)
EXTENDS Integers, FiniteSets

\* The pairs of S of which the first comes before the second make up "before".
\* At place k stands the element that has k - 1 others before it.
Arranged(S, before) ==
    [k \in 1..Cardinality(S) |->
       CHOOSE i \in S : Cardinality({j \in S : <<j, i>> \in before}) = k - 1]

\* A comprehension with a condition: the list s without all but the given places
Picked(s, places) ==
    LET order == Arranged(places, {p \in places \X places : p[1] < p[2]})
    IN  [n \in DOMAIN order |-> s[order[n]]]
==============================================================================
