------------------------------ MODULE MCPublish ------------------------------
(***************************************************************************)
(* Three processes publishing to one path.                                  *)
(***************************************************************************)
EXTENDS Publish, TLC

CONSTANTS p1, p2, p3

Publishers == {p1, p2, p3}

PublisherSymmetry == Permutations(Publishers)
==============================================================================
