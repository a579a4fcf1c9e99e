-------------------------- MODULE EventCorrelation --------------------------
(***************************************************************************)
(* The event normalizer's batch correlation: correlate_jsonl reads the      *)
(* lines, normalizer.py normalizes each, and correlation.py reports the     *)
(* non-overlapping windows of one source's repeated incomplete SYNs.        *)
(*                                                                          *)
(* A raw event is [fields, path, ts, src, dst, state, history]: the names   *)
(* of the keys it has (a part of what decides its shape) and the values     *)
(* that are read; None stands for a missing one.  dst is the target, with   *)
(* its port.                                                                *)
(***************************************************************************)
EXTENDS Integers, Sequences, Functions, Arrangement

CONSTANTS
    None,       \* a value that the event does not have
    Refused     \* the outcome of a batch that raises JsonlInputError

\* normalize_event: the source of the event by its shape, or a refusal
Shape(raw) ==
    IF {"timestamp", "event_type"} \subseteq raw.fields THEN "suricata"
    ELSE IF /\ "ts" \in raw.fields
            /\ {"uid", "id.orig_h", "_path"} \cap raw.fields # {} THEN "zeek"
    ELSE "unsupported"

\* _normalize_zeek: a record without a path is a connection.
EventType(raw) ==
    IF Shape(raw) = "zeek" /\ raw.path = None THEN "connection" ELSE raw.path

\* _utc_datetime and the event's own type are required.
Normalizes(raw) == Shape(raw) # "unsupported" /\ raw.ts # None /\ EventType(raw) # None

IncompleteSyn(raw) ==
    /\ Shape(raw) = "zeek" /\ EventType(raw) \in {"conn", "connection"}
    /\ raw.state = "S0" /\ raw.history = "S"
    /\ raw.src # None /\ raw.dst # None

\* The incomplete attempts of one source, and their order: by time, then target, then
\* position in the batch
Attempts(events, src) == {i \in DOMAIN events : IncompleteSyn(events[i]) /\ events[i].src = src}

Before(events, i, j) ==
    \/ events[i].ts < events[j].ts
    \/ events[i].ts = events[j].ts /\ events[i].dst < events[j].dst
    \/ events[i].ts = events[j].ts /\ events[i].dst = events[j].dst /\ i < j

Ordered(events, src) ==
    LET attempts == Attempts(events, src)
    IN  Arranged(attempts, {p \in attempts \X attempts : Before(events, p[1], p[2])})

Targets(events, window) == {events[window[k]].dst : k \in DOMAIN window}

\* CorrelationConfig: c = [window, attempts, targets]
ConfigAccepted(c) ==
    /\ c.window > 0 /\ c.attempts >= 2 /\ c.targets > 0 /\ c.targets <= c.attempts

Qualifies(events, window, c) ==
    Len(window) >= c.attempts /\ Cardinality(Targets(events, window)) >= c.targets

\* The inner loop: the first attempt after the start-th that is not within its window
End(events, ordered, start, c) ==
    CHOOSE e \in start..(Len(ordered) + 1) :
       /\ e > Len(ordered) \/ events[ordered[e]].ts - events[ordered[start]].ts > c.window
       /\ \A k \in start..(e - 1) : events[ordered[k]].ts - events[ordered[start]].ts <= c.window

\* Mutated form: after a finding the walk goes on with the next attempt.
PassOverlapping(events, ordered, walk, c) ==
    LET window == SubSeq(ordered, walk.start, End(events, ordered, walk.start, c) - 1)
    IN  IF walk.start > Len(ordered) THEN walk
        ELSE [start |-> walk.start + 1,
              found |-> walk.found \cup (IF Qualifies(events, window, c) THEN {window} ELSE {})]

\* One turn of the outer loop, with where it starts and the windows found so far
Pass(events, ordered, walk, c) ==
    LET end == End(events, ordered, walk.start, c)
        window == SubSeq(ordered, walk.start, end - 1)
    IN  IF walk.start > Len(ordered) THEN walk
        ELSE IF Qualifies(events, window, c) THEN [start |-> end, found |-> walk.found \cup {window}]
        ELSE [walk EXCEPT !.start = @ + 1]

\* correlate_repeated_attempts for one source: its findings, as event indices.  There
\* are at most as many turns as attempts.
Windows(events, src, c) ==
    LET ordered == Ordered(events, src)
        walk[n \in 0..Len(ordered)] ==
          IF n = 0 THEN [start |-> 1, found |-> {}] ELSE Pass(events, ordered, walk[n - 1], c)
    IN  walk[Len(ordered)].found

Sources(events) == {events[i].src : i \in DOMAIN events} \ {None}

\* correlate_jsonl: nothing is reported unless every line normalizes.  A finding
\* carries the claim that its to_dict prints and the lines of its evidence.
CorrelateJsonl(events, c) ==
    IF ~ ConfigAccepted(c) \/ \E i \in DOMAIN events : ~ Normalizes(events[i]) THEN Refused
    ELSE UNION {{[src |-> s, first |-> events[w[1]].ts, last |-> events[w[Len(w)]].ts,
                  count |-> Len(w), targets |-> Targets(events, w), evidence |-> w] :
                   w \in Windows(events, s, c)} : s \in Sources(events)}

\* evidence_verify: the whole report has to reproduce.
VerifyEvidence(events, report, c) ==
    report # Refused /\ report = CorrelateJsonl(events, c)
==============================================================================
