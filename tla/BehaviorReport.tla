--------------------------- MODULE BehaviorReport ---------------------------
(***************************************************************************)
(* The malware report tools: report_validator.py accepts a report of        *)
(* behavior notes, report_diff.py compares two of them, report_summary.py   *)
(* counts their coverage, and yara_exercise.py runs pinned rules against a  *)
(* pinned fixture.                                                          *)
(*                                                                          *)
(*   report       [version, sample, environment, tools, observations,       *)
(*                mappings]; mappings is << >> in version 1                 *)
(*   observation  [id, phase, category, text]                               *)
(*   mapping      [technique, ids, text]                                    *)
(* text stands for the claims of an entry that are only compared; tools and *)
(* ids are sequences, compared without their order.                         *)
(***************************************************************************)
EXTENDS Integers, Sequences, FiniteSets, Functions

CONSTANTS
    Refused,        \* the outcome of an input that raises
    Yara(_, _)      \* EXTERNAL: the matches of a rule in a fixture

Ids(report) == {report.observations[i].id : i \in DOMAIN report.observations}
Techniques(report) == {report.mappings[i].technique : i \in DOMAIN report.mappings}

\* _validate_attack_mappings
MappingsValid(report) ==
    /\ Cardinality(Techniques(report)) = Len(report.mappings)
    /\ \A i \in DOMAIN report.mappings :
         LET ids == report.mappings[i].ids
         IN  ids # << >> /\ IsInjective(ids) /\ Range(ids) \subseteq Ids(report)

\* validate_report: no error is found.
ReportValid(report) ==
    /\ report.observations # << >>
    /\ Cardinality(Ids(report)) = Len(report.observations)
    /\ (\E i \in DOMAIN report.observations : report.observations[i].phase = "dynamic")
         => report.environment = "isolated_lab"
    /\ report.version = 2 => MappingsValid(report)

------------------------------------------------------------------------------
\* report_diff

ById(report, id) ==
    report.observations[CHOOSE i \in DOMAIN report.observations : report.observations[i].id = id]

ByTechnique(report, technique) ==
    LET m == report.mappings[CHOOSE i \in DOMAIN report.mappings :
                               report.mappings[i].technique = technique]
    IN  [m EXCEPT !.ids = Range(@)]

\* _collection: left and right are functions from the identifiers.
Collection(left, right) ==
    LET both == DOMAIN left \cap DOMAIN right
        fields(id) == {f \in DOMAIN left[id] : left[id][f] # right[id][f]}
        changed == {id \in both : fields(id) # {}}
    IN  [added |-> DOMAIN right \ DOMAIN left, removed |-> DOMAIN left \ DOMAIN right,
         changed |-> [id \in changed |-> fields(id)],
         unchanged |-> Cardinality(both) - Cardinality(changed)]

ChangedIds(c) == c.added \cup c.removed \cup DOMAIN c.changed

\* The tools are compared sorted, with their repetitions.
Sorted(tools) == [t \in Range(tools) |-> Len(SelectSeq(tools, LAMBDA u : u = t))]

AnalysisChanged(base, current) ==
    {f \in {"environment", "tools"} :
       \/ f = "environment" /\ base.environment # current.environment
       \/ f = "tools" /\ Sorted(base.tools) # Sorted(current.tools)}

\* Mutated form: a mapping is looked up in the current report only.
AffectedInCurrent(base, current, ids) ==
    {[technique |-> t, ids |-> ids \cap UNION {Range(m.ids) :
                         m \in {n \in Range(current.mappings) : n.technique = t}}] :
       t \in {m.technique : m \in {n \in Range(current.mappings) : Range(n.ids) \cap ids # {}}}}

\* The techniques of either report that are linked to a changed observation
Affected(base, current, ids) ==
    LET mappings == Range(base.mappings \o current.mappings)
        linked(t) == ids \cap UNION {Range(m.ids) : m \in {n \in mappings : n.technique = t}}
    IN  {[technique |-> t, ids |-> linked(t)] :
           t \in {u \in {m.technique : m \in mappings} : linked(u) # {}}}

CompareReports(base, current) ==
    LET observations == Collection([id \in Ids(base) |-> ById(base, id)],
                                   [id \in Ids(current) |-> ById(current, id)])
        comparable == base.version = 2 /\ current.version = 2
        mappings == Collection([t \in Techniques(base) |-> ByTechnique(base, t)],
                               [t \in Techniques(current) |-> ByTechnique(current, t)])
        changed == \/ ChangedIds(observations) # {} \/ AnalysisChanged(base, current) # {}
                   \/ base.version # current.version
                   \/ comparable /\ ChangedIds(mappings) # {}
    IN  IF ~ (ReportValid(base) /\ ReportValid(current) /\ base.sample = current.sample)
          THEN Refused
        ELSE [status |-> IF changed THEN "changed" ELSE "unchanged",
              analysis |-> AnalysisChanged(base, current),
              observations |-> observations,
              comparable |-> comparable,
              mappings |-> IF comparable THEN {mappings} ELSE {},
              review |-> IF comparable
                           THEN Affected(base, current, ChangedIds(observations)) ELSE {}]

------------------------------------------------------------------------------
\* report_summary: what a mapping links and what none does, unknown in version 1
Summarize(report) ==
    LET linked == UNION {Range(report.mappings[i].ids) : i \in DOMAIN report.mappings}
        count(f, v) == Len(SelectSeq(report.observations, LAMBDA o : o[f] = v))
    IN  IF ~ ReportValid(report) THEN Refused
        ELSE [phases |-> [p \in {"static", "dynamic"} |-> count("phase", p)],
              linked |-> IF report.version = 2 THEN {Cardinality(linked)} ELSE {},
              unlinked |-> IF report.version = 2 THEN Ids(report) \ linked ELSE {}]

------------------------------------------------------------------------------
\* yara_exercise.  A file is replaced between two uses: read and later are its
\* bytes, by name, when it is read and afterwards.  e is
\*   [manifest, read, later], manifest [rule, fixture, expected]

\* run_exercise: what the scanner (external) matches in the bytes it is given.  A run
\* that ends in YaraExerciseError (no scanner, a timeout, its return code, output that
\* is no match in the fixture) is Refused.
RunExercise(files) == Yara(files.rule, files.fixture)

\* Mutated form: the reviewed paths are scanned, not the bytes that were read.
ScannedPaths(e) == e.later

\* The private copies that are scanned
Scanned(e) == e.read

\* run_manifest_exercise
RunManifestExercise(e) ==
    IF e.read.rule # e.manifest.rule \/ e.read.fixture # e.manifest.fixture THEN Refused
    ELSE IF RunExercise(Scanned(e)) # e.manifest.expected THEN Refused
    ELSE RunExercise(Scanned(e))
==============================================================================
