--------------------------- MODULE CloudTrailCase ---------------------------
(***************************************************************************)
(* CloudTrail import, triage, correlation of failed sign-ins and the        *)
(* offline case built from several saved files (cloudtrail_*.py).           *)
(*                                                                          *)
(* An event is [id, padded, account, time, name, outcome, mfa, errors,      *)
(* actor, source, root, note]: padded says that blanks surround the ID,     *)
(* name stands for eventName with its eventSource, outcome for the          *)
(* ConsoleLogin response, errors for errorCode or errorMessage, actor and   *)
(* source for the correlation key, note for the fields that no rule reads.  *)
(* Two events print the same canonical line iff they are equal.  A file is  *)
(* the sequence of its records.                                             *)
(* The bounds of a collection (32 files, 16 MiB, its number of events) are  *)
(* left out: every list of files here is within them.                       *)
(***************************************************************************)
EXTENDS Integers, Sequences, Functions, Arrangement

CONSTANTS
    None,       \* no eventID, no user name or principal, no source address
    Refused     \* the outcome of a document that raises

\* triage_event: the rules that match, with their severities
TriageEvent(e) ==
    {f \in {<<"CT001", "medium">>, <<"CT002", "high">>, <<"CT003", "medium">>,
            <<"CT003", "critical">>, <<"CT004", "high">>} :
       \/ f[1] = "CT001" /\ e.name = "ConsoleLogin" /\ e.outcome = "Failure"
       \/ f[1] = "CT002" /\ e.name = "ConsoleLogin" /\ e.outcome = "Success" /\ ~ e.mfa
       \/ /\ f[1] = "CT003" /\ e.name \in {"StopLogging", "DeleteTrail"}
          /\ f[2] = IF e.errors THEN "medium" ELSE "critical"
       \/ f[1] = "CT004" /\ e.root}

FailedLogin(e) == <<"CT001", "medium">> \in TriageEvent(e)

\* convert_records: the IDs of one file are there and differ.
ConvertAccepted(file) ==
    \A i, j \in DOMAIN file : file[i].id # None /\ (file[i].id = file[j].id => i = j)

------------------------------------------------------------------------------
\* correlate_failed_logins

KeyOf(e) == <<e.actor, e.source>>

\* _key: a failed sign-in has to name its actor and its source.
KeyMissing(events) ==
    \E i \in DOMAIN events : FailedLogin(events[i]) /\ None \in {events[i].actor, events[i].source}

\* A failed sign-in is refused when its ID was counted before.
DuplicateFailure(events) ==
    \E i, j \in DOMAIN events :
       /\ i < j /\ FailedLogin(events[i]) /\ FailedLogin(events[j])
       /\ events[i].id = events[j].id /\ events[i].id # None

\* One key's failures, as they are sorted: by time, then ID ("" for none), then position
Before(events, i, j) ==
    LET rank(k) == IF events[k].id = None THEN 0 ELSE events[k].id
    IN  \/ events[i].time < events[j].time
        \/ events[i].time = events[j].time /\ rank(i) < rank(j)
        \/ events[i].time = events[j].time /\ rank(i) = rank(j) /\ i < j

Failures(events, key) ==
    LET failed == {i \in DOMAIN events : FailedLogin(events[i]) /\ KeyOf(events[i]) = key}
        order == Arranged(failed, {p \in failed \X failed : Before(events, p[1], p[2])})
    IN  [n \in DOMAIN order |-> events[order[n]]]

\* The deque before the n-th failure joins it begins at "left": those that are too old
\* have left it.
Expired(failures, left, n, window) ==
    CHOOSE l \in left..n : /\ failures[n].time - failures[l].time <= window
                           /\ \A k \in left..(l - 1) : failures[n].time - failures[k].time > window

\* The n-th failure: the deque, and the best window so far, from "first" to "last" with
\* "last" 0 for none
Extend(failures, state, n, threshold, window) ==
    LET left == Expired(failures, state.left, n, window)
        length == n - left + 1
    IN  IF length >= threshold /\ (state.last = 0 \/ length > state.last - state.first + 1)
          THEN [left |-> left, first |-> left, last |-> n]
          ELSE [state EXCEPT !.left = left]

Scan(failures, threshold, window) ==
    LET scan[n \in 0..Len(failures)] ==
          IF n = 0 THEN [left |-> 1, first |-> 1, last |-> 0]
          ELSE Extend(failures, scan[n - 1], n, threshold, window)
    IN  scan[Len(failures)]

Claim(failures, key, best) ==
    [key |-> key, first |-> failures[best.first].time, last |-> failures[best.last].time,
     count |-> best.last - best.first + 1,
     ids |-> {failures[n].id : n \in best.first..best.last} \ {None}]

Candidates(events, threshold, window) ==
    LET best(key) == Scan(Failures(events, key), threshold, window)
    IN  {Claim(Failures(events, key), key, best(key)) :
            key \in {k \in {KeyOf(events[i]) : i \in DOMAIN events} : best(k).last # 0}}

\* correlate_failed_logins accepts these settings.
SettingsAccepted(threshold, window) == threshold \in 2..100 /\ window \in 1..3600

\* build_handoff: the timeline, by time and then source line, and its counts
BuildHandoff(events) ==
    LET earlier(i, j) == \/ events[i].time < events[j].time
                         \/ events[i].time = events[j].time /\ i < j
        order == Arranged(DOMAIN events, {p \in (DOMAIN events) \X (DOMAIN events) : earlier(p[1], p[2])})
    IN  [timeline |-> [n \in DOMAIN order |->
                         [line |-> order[n], findings |-> TriageEvent(events[order[n]])]],
         flagged |-> Cardinality({i \in DOMAIN events : TriageEvent(events[i]) # {}}),
         status |-> "unreviewed", containment |-> "not_performed"]

------------------------------------------------------------------------------
\* build_case

\* Mutated form: a record with a known ID is a copy, whatever it says.
CollectById(case, file, index, record) ==
    LET e == file[record]
        known == {i \in DOMAIN case.events : case.events[i].id = e.id}
        i == CHOOSE k \in known : TRUE
        copy == [input |-> index, record |-> record]
    IN  IF known = {}
          THEN [case EXCEPT !.events = Append(@, e), !.sources = Append(@, <<copy>>)]
          ELSE [case EXCEPT !.sources[i] = Append(@, copy)]

\* One record: a new event, another copy of one, or a conflict
Collect(case, file, index, record) ==
    LET e == file[record]
        known == {i \in DOMAIN case.events : case.events[i].id = e.id}
        i == CHOOSE k \in known : TRUE
        copy == [input |-> index, record |-> record]
    IN  IF known = {}
          THEN [case EXCEPT !.events = Append(@, e), !.sources = Append(@, <<copy>>)]
        ELSE IF case.events[i] # e THEN [case EXCEPT !.refused = TRUE]
        ELSE [case EXCEPT !.sources[i] = Append(@, copy)]

\* The records of one file
CollectFile(case, file, index) ==
    LET collected[r \in 0..Len(file)] ==
          IF r = 0 THEN case ELSE Collect(collected[r - 1], file, index, r)
    IN  collected[Len(file)]

FileAccepted(file, account) ==
    ConvertAccepted(file) /\ \A r \in DOMAIN file : file[r].account = account /\ ~ file[r].padded

\* The files one by one; what is refused stays refused.
Collected(files, account) ==
    LET collected[f \in 0..Len(files)] ==
          IF f = 0 THEN [refused |-> files = << >>, events |-> << >>, sources |-> << >>]
          ELSE IF collected[f - 1].refused \/ ~ FileAccepted(files[f], account)
            THEN [collected[f - 1] EXCEPT !.refused = TRUE]
          ELSE CollectFile(collected[f - 1], files[f], f)
    IN  collected[Len(files)]

\* The case: its unique events with all their copies, the handoff and the
\* candidates bound to the lines of the unique events
Case(files, collected, threshold, window) ==
    LET lines(c) == {i \in DOMAIN collected.events : collected.events[i].id \in c.ids}
    IN  [sources |-> collected.sources, events |-> collected.events,
         duplicates |-> Cardinality(UNION {{f} \X DOMAIN files[f] : f \in DOMAIN files}) - Len(collected.events),
         handoff |-> BuildHandoff(collected.events),
         candidates |-> {[claim |-> c, lines |-> lines(c)] :
                           c \in Candidates(collected.events, threshold, window)}]

BuildCase(files, account, threshold, window) ==
    LET collected == Collected(files, account)
    IN  IF \/ ~ SettingsAccepted(threshold, window) \/ collected.refused
           \/ DuplicateFailure(collected.events) \/ KeyMissing(collected.events) THEN Refused
        ELSE Case(files, collected, threshold, window)

\* verify_case: the retained case has to reproduce from the files.
VerifyCase(retained, files, account, threshold, window) ==
    retained # Refused /\ retained = BuildCase(files, account, threshold, window)
==============================================================================
