--------------------------- MODULE TcpResetReview ---------------------------
(***************************************************************************)
(* review_bytes of tcp_reset_review.py: one strongest window of recorded    *)
(* resets per responder service and reset state.                            *)
(*                                                                          *)
(* An input is the sequence of its rows in line order.  A row has its uid,  *)
(* proto, responder service (address and port), conn_state and ts.          *)
(***************************************************************************)
EXTENDS Integers, Sequences, Functions, Arrangement

CONSTANT Refused    \* the outcome of an input that raises ValueError

ResetStates == {"RSTO", "RSTR", "RSTOS0", "RSTRH"}

\* Two rows with one UID: the input is refused.
DuplicateUid(rows) == \E i, j \in DOMAIN rows : i < j /\ rows[i].uid = rows[j].uid

Earlier(r, s) == r.ts < s.ts \/ (r.ts = s.ts /\ r.uid < s.uid)

\* The lines of one group, by time and then UID
Group(rows, service, state) ==
    LET lines == {i \in DOMAIN rows : /\ rows[i].proto = "tcp"
                                      /\ rows[i].service = service /\ rows[i].state = state}
    IN  Arranged(lines, {p \in lines \X lines : Earlier(rows[p[1]], rows[p[2]])})

\* Mutated form: the left end moves up at an age equal to the window.
AdvancedExclusive(ts, left, right, window) ==
    CHOOSE l \in left..right : /\ l = right \/ ts[right] - ts[l] < window
                               /\ \A k \in left..(l - 1) : ts[right] - ts[k] >= window

\* The inner loop: the left end moves up while its row is older than the window.
Advanced(ts, left, right, window) ==
    CHOOSE l \in left..right : /\ ts[right] - ts[l] <= window
                               /\ \A k \in left..(l - 1) : ts[right] - ts[k] > window

\* The outer loop: the left end and the best window so far, from "first" to
\* "last" with "first" > "last" for none, with the n-th row added
Slide(ts, best, n, window) ==
    LET left == Advanced(ts, best.left, n, window)
    IN  IF n - left > best.last - best.first
          THEN [left |-> left, first |-> left, last |-> n]
          ELSE [best EXCEPT !.left = left]

Scan(ts, window) ==
    LET scan[n \in 0..Len(ts)] ==
          IF n = 0 THEN [left |-> 1, first |-> 1, last |-> 0]
          ELSE Slide(ts, scan[n - 1], n, window)
    IN  scan[Len(ts)]

\* The finding of one group, as the lines of its evidence
Selected(rows, group, window) ==
    LET best == Scan([k \in DOMAIN group |-> rows[group[k]].ts], window)
    IN  SubSeq(group, best.first, best.last)

Services(rows) == {rows[i].service : i \in DOMAIN rows}

Findings(rows, minResets, window) ==
    LET evidence(g) == Selected(rows, Group(rows, g[1], g[2]), window)
    IN  {[group |-> g, evidence |-> evidence(g)] :
           g \in {h \in Services(rows) \X ResetStates : Len(evidence(h)) >= minResets}}

\* The parameters that are accepted, without their upper bounds
ParametersAccepted(minResets, window) == minResets >= 2 /\ window >= 1

Report(rows, minResets, window) ==
    [non_tcp |-> Len(SelectSeq(rows, LAMBDA r : r.proto # "tcp")),
     tcp_states |-> [c \in {rows[i].state : i \in {k \in DOMAIN rows : rows[k].proto = "tcp"}} |->
                       Len(SelectSeq(rows, LAMBDA r : r.proto = "tcp" /\ r.state = c))],
     parameters |-> <<minResets, window>>,
     findings |-> Findings(rows, minResets, window)]

ReviewBytes(rows, minResets, window) ==
    IF rows = << >> \/ ~ ParametersAccepted(minResets, window) \/ DuplicateUid(rows) THEN Refused
    ELSE Report(rows, minResets, window)

\* verify_report: the whole report is rebuilt and compared.
VerifyReport(rows, report, minResets, window) ==
    report # Refused /\ report = ReviewBytes(rows, minResets, window)
==============================================================================
