------------------------------ MODULE MCReviews ------------------------------
(***************************************************************************)
(* The inputs that each tool is asked about: every small input around the   *)
(* edges of its windows, schedules and identities.                          *)
(***************************************************************************)
EXTENDS Reviews, SequencesExt, TLC

\* Four resets of one group at any of five instants, in two orders of UID, and
\* pairs of rows that differ in group, protocol or UID
Reset(uid, proto, service, state, ts) ==
    [uid |-> uid, proto |-> proto, service |-> service, state |-> state, ts |-> ts]
MCResets ==
    {[rows |-> [i \in 1..4 |-> Reset(IF up THEN i ELSE 5 - i, "tcp", "s", "RSTO", ts[i])],
      min |-> min, window |-> window] :
         ts \in [1..4 -> 0..4], up \in BOOLEAN, min \in {2, 3}, window \in {1, 2}}
    \cup {[rows |-> <<Reset(1, "tcp", "s", "RSTO", 0), Reset(uid, proto, service, state, ts)>>,
           min |-> min, window |-> 1] :
             min \in {1, 2}, uid \in 1..2, proto \in {"tcp", "udp"}, service \in {"s", "t"},
             state \in {"RSTO", "RSTR", "SF"}, ts \in 0..2}

\* Four attempts of one source on two targets, and three events of two sources
\* that may be no attempts or not normalize
Event(src, ts, dst, state, fields) ==
    [fields |-> fields, path |-> "conn", ts |-> ts, src |-> src, dst |-> dst,
     state |-> state, history |-> "S"]
Zeek == {"ts", "uid"}
Config(window, attempts, targets) == [window |-> window, attempts |-> attempts, targets |-> targets]
MCBatches ==
    {[events |-> [i \in 1..4 |-> Event("a", ts[i], dst[i], "S0", Zeek)], config |-> c] :
        ts \in [1..4 -> 0..3], dst \in [1..4 -> 1..2], c \in {Config(1, 2, 1), Config(2, 3, 2)}}
    \cup {[events |-> [i \in 1..3 |-> Event(k[i][1], i, 1, k[i][2], k[i][3])], config |-> c] :
        k \in [1..3 -> {<<"a", "S0", Zeek>>, <<"b", "S0", Zeek>>, <<None, "S0", Zeek>>,
                        <<"a", "SF", Zeek>>, <<"a", "S0", {"ts"}>>}],
        c \in {Config(2, 2, 1), Config(2, 1, 1)}}

------------------------------------------------------------------------------
Observation(time, ip, mac) == [time |-> time, iface |-> 1, ip |-> ip, mac |-> mac]
Lease(starts, ends, mac) == [starts |-> starts, ends |-> ends, iface |-> 1, ip |-> 1, mac |-> mac]
Entry(at, mac, port) == [at |-> at, iface |-> 1, mac |-> mac, port |-> port]
Input(observations, leases, forwarding, policy, window, maxAge) ==
    [observations |-> observations, leases |-> leases, forwarding |-> forwarding,
     policy |-> policy, window |-> window, maxAge |-> maxAge]
PortRule(mac, ports) == [iface |-> 1, mac |-> mac, ports |-> ports]

\* One change of MAC, observed at instant 3
Changed == <<Observation(2, 1, 1), Observation(3, 1, 2)>>

\* Four observations of two addresses; a change against two leases; a change
\* against three captures of its station and a port rule
MCArpInputs ==
    {Input([i \in 1..4 |-> Observation(time[i], k[i][1], k[i][2])], Absent, Absent, Absent, window, 1) :
        time \in {<<0, 1, 2, 3>>, <<0, 0, 2, 3>>, <<1, 0, 1, 2>>},
        k \in [1..4 -> (1..2) \X (1..2)], window \in {1, 2}}
    \cup {Input(Changed, [i \in 1..2 |-> Lease(l[i][1], l[i][2], l[i][3])], Absent, Absent, 1, 1) :
        l \in [1..2 -> (1..4) \X (2..4) \X (1..2)]}
    \cup {Input(Changed, Absent, [i \in 1..3 |-> Entry(at[i], mac, port[i])], policy, 1, 2) :
        at \in [1..3 -> 0..4], port \in [1..3 -> 1..2], mac \in {1, 2},
        policy \in {Absent, <<PortRule(2, {1})>>}}
    \cup {Input(Changed, Absent, Absent, << >>, 1, 1)}

\* Two reviews of one or two changes with and without leases; the last one has a
\* transition twice
Sightings ==
    {<<Observation(0, 1, 1), Observation(1, 1, 2)>>,
     <<Observation(0, 1, 1), Observation(1, 1, 2), Observation(2, 1, 1)>>,
     <<Observation(1, 1, 2), Observation(2, 1, 1)>>,
     <<Observation(0, 2, 1), Observation(0, 1, 1), Observation(1, 1, 2), Observation(1, 2, 2)>>,
     [i \in 1..4 |-> Observation(0, 1, 1 + (i % 2))]}
ReviewInputs ==
    {Input(o, l, Absent, Absent, 1, 1) :
        o \in Sightings, l \in {Absent, << >>, <<Lease(1, 2, 2)>>, <<Lease(2, 2, 1), Lease(0, 1, 2)>>}}

\* One change with two captures of its station in any order, and up to two port rules
SwitchInputs ==
    {Input(Changed, Absent, [i \in 1..2 |-> Entry(at[i], 2, port[i])], policy, 1, 2) :
        at \in {<<1, 3>>, <<2, 3>>, <<3, 1>>, <<3, 4>>, <<0, 4>>}, port \in [1..2 -> 1..2],
        policy \in {Absent, << >>, <<PortRule(2, {1})>>, <<PortRule(2, {2})>>,
                     <<PortRule(1, {1}), PortRule(2, {1})>>}}
    \cup {Input(Changed, Absent, Absent, Absent, 1, 2)}

Pair(before, after, neighbors, inventory) ==
    [before |-> before, after |-> after, neighbors |-> neighbors, inventory |-> inventory]
Unsupplied == [before |-> Absent, after |-> Absent]

\* Four snapshots of one row, and two of rows of which some are unresolved
Row(ip, mac, state) == [iface |-> 1, ip |-> ip, mac |-> mac, state |-> state]
MCSnapshots ==
    {[k \in 1..4 |-> [time |-> time[k], rows |-> <<Row(1, mac[k], "REACHABLE")>>]] :
        time \in [1..4 -> 1..2] \cup {<<1, 2, 3, 4>>}, mac \in [1..4 -> 1..2]}
    \cup {<<[time |-> 1, rows |-> [i \in 1..2 |-> Row(k[i][1], k[i][2], k[i][3])]],
            [time |-> 2, rows |-> <<Row(2, 1, "STALE"), Row(1, 2, "STALE")>>]>> :
        k \in [1..2 -> (1..2) \X {1, None} \X {"REACHABLE", "FAILED"}]}

\* Sides with the observations of one import, the receipt of another and the snapshots
\* of a third, of which two differ in an unresolved row only and one is refused; and an
\* inventory of the two sides, of the sides swapped, or none
Neighbors ==
    {<<[time |-> 1, rows |-> <<Row(1, 1, "REACHABLE"), Row(2, None, row[1])>>],
       [time |-> 2, rows |-> <<Row(1, row[2], "STALE")>>]>> :
        row \in {<<"FAILED", 1>>, <<"FAILED", 2>>, <<"INCOMPLETE", 2>>, <<"STALE", 2>>}}
Imports == {Arp!ImportSnapshots(s) : s \in Neighbors} \ {Refused}
Sides ==
    {<<ImportReview(import), Absent>> : import \in Imports}
    \cup {<<ImportReview(import), [snapshots |-> s, receipt |-> receipt]>> :
             import, receipt \in Imports, s \in Neighbors \cup {<< >>}}
Declared(b, a) == [before |-> Arp!Files(b[1], b[2]), after |-> Arp!Files(a[1], a[2])]
NeighborPairs ==
    UNION {{Pair(b[1], a[1], [before |-> b[2], after |-> a[2]], inventory) :
              inventory \in {Absent, Declared(b, a), Declared(a, b)}} : b, a \in Sides}

MCArpPairs ==
    {Pair(b, a, Unsupplied, Absent) : b, a \in ReviewInputs}
    \cup {Pair(b, a, Unsupplied, Absent) : b, a \in SwitchInputs}
    \cup NeighborPairs

------------------------------------------------------------------------------
\* Two files of up to two records: failures of one key, one of them in another
\* version too, one of another key, a root event, and records that are refused
CloudEvent(id, time, source) ==
    [id |-> id, padded |-> FALSE, account |-> "m", time |-> time, name |-> "ConsoleLogin", outcome |-> "Failure",
     mfa |-> FALSE, errors |-> FALSE, actor |-> "u", source |-> source, root |-> FALSE, note |-> "x"]
CloudEvents ==
    {CloudEvent(1, 0, "i"), CloudEvent(2, 1, "i"), CloudEvent(3, 2, "i"), CloudEvent(4, 1, "j"),
     [CloudEvent(1, 0, "i") EXCEPT !.note = "y"],
     [CloudEvent(5, 1, "i") EXCEPT !.name = "StopLogging", !.root = TRUE],
     [CloudEvent(6, 1, "i") EXCEPT !.account = "n"], CloudEvent(None, 1, "i"),
     CloudEvent(7, 1, None), [CloudEvent(2, 1, "i") EXCEPT !.padded = TRUE]}
MCCases ==
    {[files |-> <<f, g>>, account |-> "m", threshold |-> 2, window |-> 1] :
        f \in SeqOf(CloudEvents, 2) \ {<< >>}, g \in SeqOf(CloudEvents, 2)}

------------------------------------------------------------------------------
\* A host's answers twice in the second log, or one of each of two hosts;
\* assessments and responses for what is observed, or for an older observation
Answers(hosts, times, values) ==
    {[host |-> h, wanted |-> TRUE, ts |-> t, reason |-> v[1], addresses |-> v[2]] :
        h \in hosts, t \in times, v \in values}
Values == {<<"", {1}>>, <<"", {2}>>, <<"", {1, 2}>>, <<"response_error", {}>>}
Rules == <<[host |-> 1, team |-> "alpha", expected |-> {1}], [host |-> 2, team |-> "beta", expected |-> {2}]>>
Log(after, assessments, responses, queue) ==
    [before |-> <<[host |-> 1, wanted |-> TRUE, ts |-> 1, reason |-> "", addresses |-> {1}]>>,
     after |-> after, from |-> 2, until |-> 5, allowed |-> {1, 2}, rules |-> Rules,
     assessments |-> assessments, responses |-> responses, queue |-> queue]
Assessment(host, addresses, at, impact) ==
    [host |-> host, addresses |-> addresses, observed_at |-> at, impact |-> impact,
     exposure |-> "public", authorization |-> "unreviewed"]
Logs == {<<a, b>> : a \in Answers({1}, {3, 4}, Values), b \in Answers({1, 2}, {3, 4}, Values)}
\* The team's answer to host 1's finding in the review of "after", if it has one
Response(after) ==
    LET review == Dns!Reviewed(Log(after, None, None, TRUE))
    IN  IF review = Refused THEN << >>
        ELSE IF 1 \notin Dns!Mismatches(review) THEN << >>
        ELSE <<[finding |-> Dns!FindingDigest(review, 1), team |-> "alpha",
                decision |-> "declined", reviewed_at |-> 5]>>
Older == <<[host |-> 1, wanted |-> TRUE, ts |-> 3, reason |-> "", addresses |-> {2}]>>
MCWorkflows ==
    {Log(after, assessments, responses, TRUE) :
        after \in Logs, responses \in {None, Response(Older)},
        assessments \in {None, <<Assessment(1, {2}, 5, "high")>>, <<Assessment(1, {1, 2}, 5, "low")>>,
                         <<Assessment(1, {2}, 4, "high")>>,
                         <<Assessment(2, {1}, 5, "moderate"), Assessment(1, {2}, 5, "low")>>}}
    \cup {Log(after, None, Response(after), queue) : after \in Logs, queue \in BOOLEAN}
    \cup {Log(<<Older[1], [Older[1] EXCEPT !.ts = t]>>, None, None, TRUE) : t \in {2, 6}}

------------------------------------------------------------------------------
\* Two findings of two teams: a valid handoff, with any key for any attestation,
\* any attestation in the place of another, and at every instant of its validity
Record(text) == [time |-> 1, text |-> text]
Work == [team |-> [f |-> "alpha", g |-> "beta"],
         risk |-> [f |-> Record("low"), g |-> Record("high")],
         response |-> [f |-> Record("accepted"), g |-> Record("declined")]]
Grant(finding, role, team) == [finding |-> finding, role |-> role, team |-> team]
KeyEntry(key, status, grants) == [key |-> key, status |-> status, grants |-> grants]
Reviewers ==
    [audience |-> "r", maximum_validity |-> 4, keys |->
       <<KeyEntry("risk", "active", {Grant(f, "risk", None) : f \in {"f", "g"}}),
         KeyEntry("alpha", "active", {Grant(f, "team-response", "alpha") : f \in {"f", "g"}}),
         KeyEntry("beta", "active", {Grant("g", "team-response", "beta")}),
         KeyEntry("former", "revoked", {Grant("g", "team-response", "beta")})>>]
Approvers == [audience |-> "r", maximum_validity |-> 4, keys |-> <<KeyEntry("owner", "active", {})>>]
Approval == [audience |-> "r", key |-> "owner", signer |-> "owner", issued |-> 1, expires |-> 5, context |-> "c"]
Attestation(finding, role, key, record) ==
    [audience |-> "r", key |-> key, signer |-> key, issued |-> 2, expires |-> 4,
     finding |-> finding, role |-> role, record |-> record]
Attestations(keys) ==
    <<Attestation("f", "risk", keys[1], Work.risk.f), Attestation("g", "risk", keys[2], Work.risk.g),
      Attestation("f", "team-response", keys[3], Work.response.f),
      Attestation("g", "team-response", keys[4], Work.response.g)>>
Valid == Attestations(<<"risk", "risk", "alpha", "beta">>)
HandoffOf(attestations) ==
    [workflow |-> Work, context |-> "c", reproduced |-> TRUE, approval |-> Approval,
     authority |-> Approvers, reviewers |-> Reviewers, pinned |-> TRUE, attestations |-> attestations]
MCHandoffs ==
    {[handoff |-> HandoffOf(Attestations(keys)), now |-> 3] :
        keys \in [1..4 -> {"risk", "alpha", "beta", "former"}]}
    \cup {[handoff |-> HandoffOf([i \in 1..4 |-> Valid[place[i]]]), now |-> now] :
        place \in [1..4 -> 1..4], now \in {2, 4}}
    \cup {[handoff |-> HandoffOf([Valid EXCEPT ![i] = a]), now |-> now] :
        i \in 1..4, now \in 1..5,
        a \in {Valid[1], [Valid[1] EXCEPT !.record = Work.risk.g], [Valid[1] EXCEPT !.issued = 0],
               [Valid[1] EXCEPT !.expires = 7], [Valid[3] EXCEPT !.signer = "beta"],
               [Valid[4] EXCEPT !.audience = "s"]}}
    \cup {[handoff |-> [HandoffOf(Valid) EXCEPT !.approval = a, !.pinned = p, !.workflow = w], now |-> now] :
        now \in {0, 2, 5}, p \in BOOLEAN, w \in {Work, [Work EXCEPT !.risk = [f |-> Record("low")]]},
        a \in {Approval, [Approval EXCEPT !.signer = "risk"], [Approval EXCEPT !.context = "d"]}}

------------------------------------------------------------------------------
\* Reports of one or two observations, in two orders and versions, with any of
\* seven sets of mappings
Note(id, text, phase) == [id |-> id, phase |-> phase, category |-> "file", text |-> text]
Mapping(technique, ids) == [technique |-> technique, ids |-> ids, text |-> "x"]
Report(version, observations, mappings, environment, tools) ==
    [version |-> version, sample |-> "h", environment |-> environment, tools |-> tools,
     observations |-> observations, mappings |-> mappings]
Notes == {<<Note(1, "x", "static"), Note(2, "x", "static")>>,
          <<Note(2, "x", "static"), Note(1, "x", "static")>>,
          <<Note(1, "y", "static"), Note(2, "x", "static")>>,
          <<Note(1, "x", "dynamic"), Note(2, "y", "static")>>, <<Note(1, "x", "static")>>}
Mappings == {<< >>, <<Mapping("t", <<1>>)>>, <<Mapping("t", <<1, 2>>)>>, <<Mapping("t", <<2, 1>>)>>,
             <<Mapping("t", <<1>>), Mapping("u", <<2>>)>>, <<Mapping("u", <<2>>), Mapping("t", <<1>>)>>,
             <<Mapping("u", <<1, 2>>)>>}
Reports ==
    {Report(2, o, m, "isolated_lab", <<"v">>) : o \in Notes, m \in Mappings}
    \cup {Report(1, o, << >>, e, t) : o \in Notes, e \in {"isolated_lab", "static_only"},
                                      t \in {<<"v">>, <<"v", "v">>}}
MCReportPairs == {[base |-> b, current |-> c] : b, c \in Reports}

\* A rule matches the fixture of its own number.
MCYara(rule, fixture) == IF rule = fixture THEN {"hit"} ELSE {}
Files == [rule : 1..2, fixture : 1..2]
MCExercises ==
    {[manifest |-> m, read |-> r, later |-> l] :
        m \in [rule : 1..2, fixture : 1..2, expected : {{}, {"hit"}}], r \in Files, l \in Files}

\* Policies with two agents and two tools, and suites of every single case and
\* of pairs around the step-up threshold
Plain(text) == [text |-> text, blanks |-> FALSE]
Doc(role, sensitivity) ==
    [schema_version |-> 1, exact_fields |-> TRUE, step_up_risk |-> 70,
     agent_roles |-> <<[name |-> Plain("a"), roles |-> <<Plain("analyst")>>],
                       [name |-> Plain("b"), roles |-> <<Plain("analyst"), Plain("responder")>>]>>,
     tools |-> <<[name |-> Plain("lookup"), roles |-> <<Plain("analyst")>>, sensitivity |-> Plain("low")],
                 [name |-> Plain("isolate"), roles |-> <<Plain(role)>>, sensitivity |-> Plain(sensitivity)]>>]
RiskInputs == [agent_id : {"a", "b", "c"}, tool_name : {"lookup", "isolate", "wipe"},
               risk_score : {69, 70, 71}, step_up_token_valid : BOOLEAN]
Expected == {Policy!Decision("allow", "authorized"), Policy!Decision("step_up", "step_up_required"),
             Policy!Decision("deny", "unknown_tool"), Policy!Decision("deny", "role_not_allowed")}
Case(id, in, expected) == [case_id |-> Plain(id), input |-> in, expected |-> expected]
MCConformances ==
    {[doc |-> Doc(role, s), suite |-> <<Case("1", in, x), Case("2", [in EXCEPT !.agent_id = "b"], x)>>] :
        role \in {"responder", "auditor"}, s \in Policy!Sensitivity, in \in RiskInputs, x \in Expected}
==============================================================================
