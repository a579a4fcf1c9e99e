------------------------- MODULE MCIdentifiedJournal -------------------------
(* The journal of version 1, 2 or 3 at its path, another journal with a    *)
(* retained acceptance, and, in the same place, older copies of the first. *)
EXTENDS IdentifiedJournal, TLC

CONSTANTS p, q, a, b, main, other

Journal(version, identity, rows) ==
    [version |-> version, identity |-> identity, rows |-> rows, releases |-> << >>]

\* The other journal is of another identity, of another version, or unrelated.
MCInitialFiles ==
    {(main :> Journal(3, "main", << >>)) @@ (other :> Journal(3, "other", <<a>>)),
     (main :> Journal(2, "none", <<a>>)) @@ (other :> Journal(3, "other", <<a>>)),
     (main :> Journal(1, "none", << >>)) @@ (other :> Journal(1, "none", <<b>>))}

Symmetry == Permutations({p, q})
==============================================================================
