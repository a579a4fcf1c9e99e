------------------------------ MODULE ArpReview ------------------------------
(***************************************************************************)
(* arp_consistency.py (review_lines), neighbor_import.py and                *)
(* compare_reviews.py: saved ARP observations are imported from neighbor    *)
(* snapshots, reviewed for recent changes of an IP's MAC against leases,    *)
(* switch forwarding entries and a port policy, and two reviews are         *)
(* compared by transition.                                                  *)
(*                                                                          *)
(*   observation  [time, iface, ip, mac]       lease  [starts, ends, iface, *)
(*   ip, mac]     forwarding  [at, iface, mac, port]     rule  [iface, mac, *)
(*   ports]                                                                 *)
(* Every input is the sequence of its lines; an optional one that was not   *)
(* supplied is Absent.  Instants are whole seconds.                         *)
(***************************************************************************)
EXTENDS Integers, Sequences, Functions, Arrangement

CONSTANTS
    Absent,     \* an optional input that was not supplied, and what depends on it
    None,       \* the MAC of a neighbor row without lladdr
    Refused     \* the outcome of an input that raises ObservationError

OrEmpty(input) == IF input = Absent THEN << >> ELSE input

\* A schedule is sorted by time, lines of one time keep their order.
Schedule(lines, time) ==
    Arranged(lines, {p \in lines \X lines : \/ time[p[1]] < time[p[2]]
                                            \/ time[p[1]] = time[p[2]] /\ p[1] < p[2]})

\* bisect_right: how many of the schedule are not after t
Bisect(schedule, t, time) == Cardinality({k \in DOMAIN schedule : time[schedule[k]] <= t})

SameMapping(x, y) == x.iface = y.iface /\ x.ip = y.ip /\ x.mac = y.mac
SameStation(x, y) == x.iface = y.iface /\ x.mac = y.mac

Starts(leases) == [i \in DOMAIN leases |-> leases[i].starts]

LeaseSchedule(leases, o) ==
    Schedule({i \in DOMAIN leases : SameMapping(leases[i], o)}, Starts(leases))

\* parse_lease
LeaseParses(lease) == lease.starts <= lease.ends

\* _index_leases: in the schedule of one mapping each lease starts after the end
\* of the one before it.
LeasesAccepted(leases) ==
    \A i \in DOMAIN leases :
       /\ LeaseParses(leases[i])
       /\ LET s == LeaseSchedule(leases, leases[i])
          IN  \A k \in 2..Len(s) : leases[s[k - 1]].ends < leases[s[k]].starts

\* Mutated form: a lease ends before its last instant.
ActiveLeaseExclusive(leases, o) ==
    LET s == LeaseSchedule(leases, o)
        p == Bisect(s, o.time, Starts(leases))
    IN  IF p > 0 /\ o.time < leases[s[p]].ends THEN s[p] ELSE 0

\* _active_lease: the line of the lease that covers the observation, or 0
ActiveLease(leases, o) ==
    LET s == LeaseSchedule(leases, o)
        p == Bisect(s, o.time, Starts(leases))
    IN  IF p > 0 /\ o.time <= leases[s[p]].ends THEN s[p] ELSE 0

Captured(entries) == [i \in DOMAIN entries |-> entries[i].at]

ForwardingSchedule(entries, o) ==
    Schedule({i \in DOMAIN entries : SameStation(entries[i], o)}, Captured(entries))

\* _index_forwarding_entries: one entry of a station per capture time
ForwardingAccepted(entries) ==
    \A i, j \in DOMAIN entries :
       SameStation(entries[i], entries[j]) /\ entries[i].at = entries[j].at => i = j

\* parse_port_policy_rule
RuleParses(rule) == rule.ports # {}

\* _index_port_policy: one rule per station
PortPolicyAccepted(rules) ==
    /\ \A i \in DOMAIN rules : RuleParses(rules[i])
    /\ \A i, j \in DOMAIN rules : SameStation(rules[i], rules[j]) => i = j

\* _recent_forwarding_history: those of the last two entries that are recent
RecentForwardingHistory(entries, o, maxAge) ==
    LET s == ForwardingSchedule(entries, o)
        p == Bisect(s, o.time, Captured(entries))
    IN  Picked(s, {k \in (p - 1)..p : k > 0 /\ o.time - entries[s[k]].at <= maxAge})

------------------------------------------------------------------------------
\* review_lines for one finding.  Its inputs are
\*   in == [observations, leases, forwarding, policy, window, maxAge]

\* The lease fields of a finding, or no field without lease input
LeaseStatus(in, o) ==
    IF in.leases = Absent THEN << >>
    ELSE [status |-> IF ActiveLease(in.leases, o) > 0 THEN "expected_reassignment"
                     ELSE "unexplained_change",
          line |-> ActiveLease(in.leases, o)]

PortHistoryStatus(in, history) ==
    IF Len(history) < 2 THEN "insufficient_history"
    ELSE IF in.forwarding[history[1]].port # in.forwarding[history[2]].port
      THEN "port_move_observed" ELSE "stable_port"

PortPolicyStatus(in, o, history) ==
    LET rule == {i \in DOMAIN in.policy : SameStation(in.policy[i], o)}
    IN  IF history = << >> THEN "no_recent_forwarding_evidence"
        ELSE IF rule = {} THEN "no_matching_rule"
        ELSE IF \E i \in rule : in.forwarding[history[Len(history)]].port \in in.policy[i].ports
          THEN "expected_port" ELSE "unexpected_port"

\* The line of the rule that was consulted, if there is one
PortPolicyLine(in, o, history) ==
    IF history = << >> THEN {} ELSE {i \in DOMAIN in.policy : SameStation(in.policy[i], o)}

\* The policy fields of a finding, or no field without policy input
PolicyStatus(in, o, history) ==
    IF in.policy = Absent THEN << >>
    ELSE [status |-> PortPolicyStatus(in, o, history), line |-> PortPolicyLine(in, o, history)]

\* previous_port and current_port, as far as they are known
PortsOfHistory(in, history) == [k \in DOMAIN history |-> in.forwarding[history[k]].port]

\* port_history_elapsed_seconds
PortHistoryElapsed(in, history) ==
    IF Len(history) < 2 THEN Absent
    ELSE in.forwarding[history[2]].at - in.forwarding[history[1]].at

\* Mutated form: the ports themselves are not told.
ForwardingStatusWithoutPorts(in, o) ==
    IF in.forwarding = Absent THEN << >>
    ELSE LET history == RecentForwardingHistory(in.forwarding, o, in.maxAge)
         IN  [status |-> IF history = << >> THEN "no_recent_current_mac" ELSE "current_mac_observed",
              lines |-> history,
              ports |-> << >>,
              port_history |-> PortHistoryStatus(in, history),
              elapsed |-> PortHistoryElapsed(in, history),
              port_policy |-> PolicyStatus(in, o, history)]

\* The forwarding fields of a finding, or no field without forwarding input.  "lines"
\* are previous_forwarding_line and forwarding_line, "ports" the ports they say.
ForwardingStatus(in, o) ==
    IF in.forwarding = Absent THEN << >>
    ELSE LET history == RecentForwardingHistory(in.forwarding, o, in.maxAge)
         IN  [status |-> IF history = << >> THEN "no_recent_current_mac" ELSE "current_mac_observed",
              lines |-> history,
              ports |-> PortsOfHistory(in, history),
              port_history |-> PortHistoryStatus(in, history),
              elapsed |-> PortHistoryElapsed(in, history),
              port_policy |-> PolicyStatus(in, o, history)]

\* A finding: its interface, IP, MACs and elapsed seconds are those of its two lines.
Finding(in, i, j) ==
    [previous_line |-> i, current_line |-> j,
     lease |-> LeaseStatus(in, in.observations[j]),
     forwarding |-> ForwardingStatus(in, in.observations[j])]

Key(o) == <<o.iface, o.ip>>

\* One turn of the loop: the prior observation of this interface and IP is
\* compared and then replaced, finding or not.
Observe(in, state, j) ==
    LET o == in.observations[j]
        i == IF Key(o) \in DOMAIN state.previous THEN state.previous[Key(o)] ELSE 0
        p == IF i = 0 THEN o ELSE in.observations[i]
    IN  [refused |-> state.refused \/ o.time < p.time,
         findings |-> IF p.mac # o.mac /\ o.time - p.time <= in.window
                        THEN Append(state.findings, Finding(in, i, j))
                        ELSE state.findings,
         previous |-> [k \in DOMAIN state.previous \cup {Key(o)} |->
                         IF k = Key(o) THEN j ELSE state.previous[k]]]

\* The bounds of both settings and what the indexes refuse
InputAccepted(in) ==
    /\ in.window \in 1..3600 /\ in.maxAge \in 1..3600
    /\ in.policy # Absent => in.forwarding # Absent
    /\ LeasesAccepted(OrEmpty(in.leases))
    /\ ForwardingAccepted(OrEmpty(in.forwarding))
    /\ PortPolicyAccepted(OrEmpty(in.policy))

Count(statuses, status) == Cardinality({k \in DOMAIN statuses : statuses[k] = status})

\* The report's findings and reconciliations: a remainder is counted as the
\* difference from all findings.
Report(in, found, expected, observed) ==
    [findings |-> found,
     leases |-> IF in.leases = Absent THEN Absent ELSE <<expected, Len(found) - expected>>,
     forwarding |-> IF in.forwarding = Absent THEN Absent ELSE <<observed, Len(found) - observed>>,
     ports |-> IF in.forwarding = Absent THEN Absent
               ELSE [s \in {"port_move_observed", "stable_port", "insufficient_history"} |->
                       Count([k \in DOMAIN found |-> found[k].forwarding.port_history], s)],
     policy |-> IF in.policy = Absent THEN Absent
                ELSE [s \in {"expected_port", "unexpected_port", "no_matching_rule",
                              "no_recent_forwarding_evidence"} |->
                        Count([k \in DOMAIN found |-> found[k].forwarding.port_policy.status], s)]]

Reconciled(in, found) ==
    Report(in, found,
           Count([k \in DOMAIN found |-> found[k].lease.status], "expected_reassignment"),
           Count([k \in DOMAIN found |-> found[k].forwarding.status], "current_mac_observed"))

\* The loop over the observations
Observed(in) ==
    LET state[j \in 0..Len(in.observations)] ==
          IF j = 0 THEN [refused |-> ~ InputAccepted(in), findings |-> << >>, previous |-> [k \in {} |-> 0]]
          ELSE Observe(in, state[j - 1], j)
    IN  state[Len(in.observations)]

ReviewLines(in) ==
    LET end == Observed(in)
    IN  IF end.refused THEN Refused ELSE Reconciled(in, end.findings)

------------------------------------------------------------------------------
\* neighbor_import: a snapshot is [time, rows], a row [iface, ip, mac, state]
\* with mac None for a missing lladdr.

SnapshotAccepted(snapshot) ==
    /\ \A i, j \in DOMAIN snapshot.rows :
         Key(snapshot.rows[i]) = Key(snapshot.rows[j]) => i = j
    /\ \A i \in DOMAIN snapshot.rows :
         snapshot.rows[i].mac = None => snapshot.rows[i].state \in {"INCOMPLETE", "FAILED"}

ImportAccepted(snapshots) ==
    /\ \A k \in 2..Len(snapshots) : snapshots[k - 1].time < snapshots[k].time
    /\ \A k \in DOMAIN snapshots : SnapshotAccepted(snapshots[k])

Unresolved(snapshot) == {i \in DOMAIN snapshot.rows : snapshot.rows[i].mac = None}

RowAt(snapshots, r) == snapshots[r.snapshot].rows[r.row]

\* The rows that have a MAC, by snapshot, interface and IP
Resolved(snapshots) ==
    LET places == UNION {{[snapshot |-> k, row |-> i] :
                            i \in (DOMAIN snapshots[k].rows) \ Unresolved(snapshots[k])} : k \in DOMAIN snapshots}
        before(r, t) == LET a == RowAt(snapshots, r)
                            b == RowAt(snapshots, t)
                        IN  \/ r.snapshot < t.snapshot
                            \/ r.snapshot = t.snapshot /\ a.iface < b.iface
                            \/ r.snapshot = t.snapshot /\ a.iface = b.iface /\ a.ip < b.ip
    IN  Arranged(places, {p \in places \X places : before(p[1], p[2])})

Observation(snapshots, r) ==
    LET row == RowAt(snapshots, r)
    IN  [time |-> snapshots[r.snapshot].time, iface |-> row.iface, ip |-> row.ip, mac |-> row.mac]

\* import_snapshots: the observations with the receipt.  The receipt refers each of
\* them to a snapshot row; "inputs" stands for the digest and instant of each snapshot.
ImportSnapshots(snapshots) ==
    LET references == Resolved(snapshots)
    IN  IF ~ ImportAccepted(snapshots) THEN Refused
        ELSE [inputs |-> snapshots, references |-> references,
              observations |-> [n \in DOMAIN references |-> Observation(snapshots, references[n])],
              unresolved |-> [k \in DOMAIN snapshots |-> Cardinality(Unresolved(snapshots[k]))]]

\* replay_receipt
Replays(snapshots, receipt) == receipt # Refused /\ receipt = ImportSnapshots(snapshots)

------------------------------------------------------------------------------
\* compare_reviews

\* The identity of a transition: the mapping's change and both times
Identity(in, f) == <<in.observations[f.previous_line], in.observations[f.current_line]>>

\* _review: the finding of each transition, unless two have one identity
Identities(in, findings) == {Identity(in, f) : f \in Range(findings)}

Identified(in, findings, identities) ==
    [e \in identities |-> CHOOSE f \in Range(findings) : Identity(in, f) = e]

EventsOf(in, findings, identities) ==
    IF Cardinality(identities) # Len(findings) THEN Refused ELSE Identified(in, findings, identities)

EventsIn(in, review) ==
    IF review = Refused THEN Refused
    ELSE EventsOf(in, review.findings, Identities(in, review.findings))

Events(in) == EventsIn(in, ReviewLines(in))

TransitionStatus(before, after, e) ==
    IF e \notin DOMAIN before THEN "added"
    ELSE IF e \notin DOMAIN after THEN "not_observed"
    ELSE IF before[e] = after[e] THEN "unchanged"
    ELSE "changed"

\* An entry of the comparison: the status, and the finding of each review that has one
Transition(before, after, e) ==
    [status |-> TransitionStatus(before, after, e),
     before |-> IF e \in DOMAIN before THEN before[e] ELSE Absent,
     after |-> IF e \in DOMAIN after THEN after[e] ELSE Absent]

Compared(before, after) ==
    IF before = Refused \/ after = Refused THEN Refused
    ELSE [e \in DOMAIN before \cup DOMAIN after |-> Transition(before, after, e)]

\* The files of one side by kind; a neighbor source is [snapshots, receipt].
Files(in, source) ==
    [observations |-> in.observations, leases |-> in.leases, forwarding |-> in.forwarding,
     policy |-> in.policy, receipt |-> IF source = Absent THEN Absent ELSE source.receipt]

\* _check_inventory: both sides have the expected kinds with the expected digests.
\* Without an inventory no neighbor source is accepted.
InventoryAccepted(before, after, neighbors, inventory) ==
    \/ inventory = [before |-> Files(before, neighbors.before), after |-> Files(after, neighbors.after)]
    \/ inventory = Absent /\ neighbors.before = Absent /\ neighbors.after = Absent

\* The observations are what the retained snapshots give again, receipt and all.
ReceiptReplayed(in, source) ==
    source # Absent =>
      /\ source.snapshots # << >> /\ Replays(source.snapshots, source.receipt)
      /\ in.observations = ImportSnapshots(source.snapshots).observations

CompareReviews(before, after, neighbors, inventory) ==
    IF /\ InventoryAccepted(before, after, neighbors, inventory)
       /\ ReceiptReplayed(before, neighbors.before) /\ ReceiptReplayed(after, neighbors.after)
      THEN Compared(Events(before), Events(after)) ELSE Refused

\* verify_comparison: the pinned report has to be the comparison itself.
VerifyComparison(before, after, neighbors, inventory, report) ==
    report # Refused /\ report = CompareReviews(before, after, neighbors, inventory)
==============================================================================
