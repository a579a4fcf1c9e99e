--------------------------- MODULE AssignmentLedger ---------------------------
(***************************************************************************)
(* What a journal promises about responsibility for tasks, with no file, no *)
(* lock and no process: for each task the assignment that now counts, and   *)
(* the acceptances that have ever been assigned.  AssignmentJournal and     *)
(* LifecycleJournal implement it.                                           *)
(***************************************************************************)
EXTENDS DnsResponsibility

CONSTANTS
    NoAssignment,   \* current[t] of a task never accepted
    NotReleased     \* "released" of an assignment that was not given back

VARIABLES
    current,        \* [Task -> assignment or NoAssignment]
    used            \* acceptances ever assigned

ledgerVars == <<current, used>>

Assignment ==
    [acceptance : Acceptance, verified : Instant,
     released : Instant \cup {NotReleased}]

LedgerInit ==
    /\ current = [t \in Task |-> NoAssignment]
    /\ used = {}

\* An assignment binds a newcomer under policy p at "now" unless it was
\* registered under other policy bytes, has expired, or was given back before
\* the newcomer accepted.
Binds(s, a, now) ==
    /\ Claim[s.acceptance].policy = Claim[a].policy
    /\ now < Claim[s.acceptance].expires
    /\ \/ s.released = NotReleased
       \/ Claim[a].accepted < s.released

\* Somebody takes a task that binds nobody, with an acceptance never used.
Assign(a, now) ==
    LET t == TaskOf(a) IN
    /\ a \notin used
    /\ Claim[a].accepted <= now
    /\ now < Claim[a].expires
    /\ current[t] # NoAssignment =>
          /\ ~ Binds(current[t], a, now)
          /\ current[t].verified <= now
    /\ current' = [current EXCEPT ![t] =
          [acceptance |-> a, verified |-> now, released |-> NotReleased]]
    /\ used' = used \cup {a}

\* The assignee gives a task back, once, while the acceptance is in force.
GiveBack(t, now) ==
    /\ current[t] # NoAssignment
    /\ current[t].released = NotReleased
    /\ current[t].verified <= now
    /\ now < Claim[current[t].acceptance].expires
    /\ current' = [current EXCEPT ![t].released = now]
    /\ UNCHANGED used

LedgerNext ==
    \E now \in Instant :
       \/ \E a \in Acceptance : Assign(a, now)
       \/ \E t \in Task : GiveBack(t, now)

LedgerSpec == LedgerInit /\ [][LedgerNext]_ledgerVars
==============================================================================
