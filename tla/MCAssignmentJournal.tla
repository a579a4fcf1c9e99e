------------------------- MODULE MCAssignmentJournal -------------------------
(***************************************************************************)
(* Two concurrent commands on one version-1 journal.                        *)
(***************************************************************************)
EXTENDS AssignmentJournal, MCDnsTasks

CONSTANTS q1, q2

Commands == {q1, q2}

CommandSymmetry == Permutations(Commands)

\* One task: a short acceptance, a competitor, and a policy successor.
OneTask == {"a1", "a2", "b1"}
OneTaskClaim == ClaimsOf(OneTask)

\* Two tasks, and an acceptance under a policy that revoked its key.
TwoTasks == {"a1", "a2", "c1", "x1"}
TwoTasksClaim == ClaimsOf(TwoTasks)
==============================================================================
