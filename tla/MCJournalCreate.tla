--------------------------- MODULE MCJournalCreate ---------------------------
(***************************************************************************)
(* Two init commands and two register commands on one path.                 *)
(***************************************************************************)
EXTENDS JournalCreate, TLC

CONSTANTS c1, c2, u1, u2

Creators == {c1, c2}
Users == {u1, u2}

CommandSymmetry == Permutations(Creators) \cup Permutations(Users)
==============================================================================
