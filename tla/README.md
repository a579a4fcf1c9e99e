# A TLA+ model of the cybersecurity engineering lab

The repository collects small offline tools (Python, POSIX files, no service).
Three parts keep state under concurrency, time and failure: the DNS review
responsibility journal in `projects/asset-intelligence/dns-review`, the request
verification of `projects/zero-trust/aegis-threat-model` with its nonce store, and
the publication of private documents that every tool shares. They are modelled
step by step and proved about. The other tools are functions of the documents they are
given; their algorithms are operators, compared with direct definitions of what they
promise on every small input.

## Inventory

| Component | State it keeps | Operations | What is hard about it | What makes it correct | Status |
| --- | --- | --- | --- | --- | --- |
| Acceptance journal v1 (`dns_assignment_journal.py`) | a SQLite file: `acceptance_event` | `create`, `register`, `summary` | concurrent commands, evidence verified before the lock, expiry edges, lock timeouts, process death | one responsible acceptance per task and policy; a readable, append-only history; durable answers | modelled |
| Lifecycle journal v2 (`dns_assignment_lifecycle.py`) | the same, and `release_event` | `create`, `register`, `release`, `summary` | two tables read at two moments, retried releases, successors signed early, a policy change beside a release | a release precedes its successor; a released acceptance never counts again | modelled |
| Identified journal v3 (`dns_identified_journal.py`) | the same, and `journal_identity` | `create`, `enroll`, checkpoints, the v2 commands | the file may be replaced between opening and transaction; init cleans up after itself | every transaction is on the enrolled file; cleanup removes only its own file | modelled |
| Checkpoints (`dns_journal_checkpoint.py`, `dns_lifecycle_checkpoint.py`) | a published document, a pin kept elsewhere | `create`, `verify` | three reads; the journal moves on, is rolled back or replaced | a checkpoint is of one moment; a match means the pinned history is there | modelled |
| Responsibility (`dns_responsibility.py`) | none (a published receipt) | `create_acceptance`, `accept_responsibility` | intervals, key status, exact bytes | only an active grant accepts, inside its interval | modelled |
| Publication (`publish` in `dns_review.py`) | one directory entry | write, fsync, link, unlink | partial failure, power loss, two publishers | whole document or nothing; the first document stays | modelled |
| Handoffs (`dns_authorized_handoff.py`, `dns_reviewer_handoff.py`) | none | create and verify approvals and attestations | several authorities with their own intervals | every signature is by an active key of the pinned policy | partly |
| DNS reviews (`dns_review.py`, `dns_risk_review.py`, queue) | none | compare, policy, risk, ownership, queue | matching by name, address and time | nothing found is dropped on the way to the queue | modelled |
| Zeek import and workflow (`zeek_dns_import.py`) | none | import, review, verify | row order, ties of timestamps, coverage | the same inputs reproduce the report | partly |
| Request verification (`verification.py`) | nonces with their expiries | `verify_request`, `reserve` | skew, lifetime and purge meet at inclusive edges; the clock is read once | no request is verified twice | modelled |
| Audit chain (`audit_chain.py`) | a file of linked records | build, append, verify | time order as text; a chain rebuilt with good digests | two accepted chains with one head are one log up to it | modelled |
| Policy and authorization (`policy.py`, `authorization.py`, `opa_conformance.py`, `aegis.rego`) | none | `decide`, `authorize_signed_request`, conformance | two engines for one contract; the nonce is used up before policy is asked | allow only what was verified and is allowed | modelled |
| ARP review (`arp_consistency.py`, `compare_reviews.py`, `neighbor_import.py`) | none | review, compare, import, verify | bisection over leases and captures, inclusive ends; evidence that changes between two reviews; receipts that have to replay | every finding is explained by the nearest evidence; a transition is unchanged only if all its evidence is | modelled |
| TCP reset review (`tcp_reset_review.py`) | none | review, verify | a two-pointer window with ties | the window reported is the strongest | modelled |
| Event normalization and correlation (`correlation.py`) | none | normalize, correlate, verify | windows that do not overlap, inclusive | an attempt counts once | partly |
| CloudTrail cases (`cloudtrail_*.py`) | none (published cases) | import, triage, correlate, bundle, verify | copies and conflicts of one event | an event counts once, with all its sources | modelled |
| Malware report tools | none | validate, compare, summarise, YARA exercise | mappings that rest on changed observations; files replaced between check and scan | dependents are named; the bytes scanned are those pinned | modelled |
| Threat model registry | none | validate, render | formats | | not modelled |
| AWS cost plan and IAM analysis | none | arithmetic, pattern checks | formats, exact decimals | | not modelled |

Interaction. A command of the journal reads private files, has
`accept_responsibility` verify the reviewed handoff, the claim and the response
(pure, at the command's own instant), and only then asks SQLite for the write
lock. Journal versions inherit: v3 extends v2 extends v1, overriding `_connection`,
`register` and `summary`. Receipts, checkpoints and enrollments leave through
`publish`. `authorization.py` calls `verification.py` and then `policy.py` or OPA;
its caller records the decision in the audit chain. A reviewed handoff covers a workflow,
which covers the DNS reviews. The other tools share no state.

## Modules

The journal:

| Module | Models | State and actions |
| --- | --- | --- |
| `DnsResponsibility` | `dns_responsibility.py`, `_receipt`, `_state` | no state. A digest is the document it identifies: an acceptance, policy or workflow is a member of a set, `Claim`, `Authority`, `Handoff` are their contents |
| `JournalHistory`, `LifecycleHistory` | `_history`, `_releases` and the conflict checks of `register` and `release` | no state. A table is a sequence of rows; `HistoryOK` is "`_history` returns" |
| `SqliteStore` | external: SQLite with a rollback journal | `db`, `txn`, `reserved`, `pending`, `shared`; begin, write, the two halves of commit, rollback |
| `JournalCommand` | `_connection` and `main` | `pc`, `req`, `answer`; one action per step at which another process can interleave |
| `AssignmentLedger` | abstract: what a journal promises | `current` (per task) and `used`; `Assign`, `GiveBack`, atomic and without processes |
| `AssignmentJournal` | v1 `register`, `summary` | composes the above; refines `AssignmentLedger` |
| `LifecycleJournal` | v2 `register`, `release`, `summary` | the same with two tables; refines `AssignmentLedger` |
| `JournalCreate` | `create` of v1, v2, v3 and the schema checks of `_connection` | `file` (how many statements of the script have run, and rows), `at`, `user` |
| `IdentifiedJournal` | v3 construction, transactions and `enroll`, checkpoints of all versions | `file` (per inode), `path`, `proc`, `published`, `enrolled`; external `Replace` and `Copy` put another journal or an older copy at the path |

The other components:

| Module | Models | State and actions |
| --- | --- | --- |
| `Publish` | `publish` | `path`, `temporary`, `content`, `pc`, `outage` |
| `SignedRequests` | `verify_request`, `MemoryNonceStore` | `clock`, `expirations`, `call`, `verified`; `Receive` (all checks before the nonce, at the caller's reading), `Reserve`, `Return`, `Tick`, `Restart` |
| `ToolPolicy` | `PolicyData`, `decide`, `aegis.rego`, the suites and conformance commands | no state |
| `AuthorizedRequests` | `authorize_signed_request` | composes the two: `Begin`, `Verify`, `DenyAtVerification`, `EvaluateOracle`, `EvaluateOpa`, `FailOpa` |
| `AuditChain` | build, append, `verify_audit_chain` | `log` grows while a `copy` that went through `changes` is walked record by record |
| `TcpResetReview`, `EventCorrelation`, `ArpReview`, `CloudTrailCase`, `DnsWorkflow`, `ReviewedHandoff`, `BehaviorReport` | the algorithms of those components | no state: an operator per function, with the code's order of steps where it decides the answer |
| `Arrangement` | external: `sorted`, `list.sort`; a comprehension with a condition | no state: the element with k others before it stands at place k + 1 |
| `Reviews` | the commands of those tools | `asked` and `answer`: a tool is asked once and answers or refuses |

The theorems are in `JournalHistoryProofs` (lemmas of the journals' operators),
`AssignmentJournalProofs`, `LifecycleJournalProofs`, `IdentifiedJournalProofs`,
`FileCreationProofs` (`JournalCreate` and `Publish`), `ToolPolicyProofs`,
`AuthorizedRequestsProofs` (`SignedRequests`, its composition with the policy, and `AuditChain`) and
`ReviewsProofs`; the `MC...` modules hold the small instances (`MCDnsTasks` is the world of tasks
the journals share). Where one proof module is about two specifications, the second
has names of its own: `PublishSpec`, `AuditSpec`.

How `register` becomes actions. `Verify` is everything before the lock, with the
instant, the pin and the expected predecessor fixed there; `Begin` or `BeginBusy`
is `BEGIN IMMEDIATE`; `Replay`, `Insert` or `Refuse` is the decision, on the rows
the transaction sees; `StartCommit`, then `Commit` or `CommitBusy`, is the end of
`with connection`; `Reply` is the printed answer; `Crash` may come at any step.
A command whose evidence does not verify changes nothing and is not an action. A
summary is `StartSummary` and `EndSummary`, a read transaction whose SELECTs are at
different moments; in v2 its second table is read later.

How a checkpoint becomes actions. `Construct` is the constructor, which in version 3
checks the identity once; `Connect` opens whatever file the path names then;
`BeginRead` is the transaction, with the identity checked again inside it;
`ReadRows`, `CheckReleases` and `ReadReleases` are the three SELECTs of
`build_checkpoint`; `Publish` or `Verify` comes after the transaction has ended.
`register` and `release` are one append here (`BeginWrite`, `Commit`): what
they may append is the subject of `LifecycleJournal`.

Beside some operators stands a mutated form: a bug the code could have had.
No specification uses it; it is what the property must reject.

Abstractions. Digests do not collide, so SHA-256 is the value it digests. A signature
verifies exactly if it is by the claimed key over these fields, and canonical JSON
is injective. Instants are numbers; in the journals each call brings any of them, so clocks
are independent and may run backwards, while the verifiers of one process share a
clock that only advances. JSON, field and size checks of a row the journal itself
wrote are left out. Hand edits of the database are outside the code's promise
(`RESPONSIBILITY.md`) and outside the model; whole files put in its place are inside.

## Runs

| Run | Question | Instance |
| --- | --- | --- |
| `journal_v1` | the inductive invariant `IInv`, `Succession`, `AnswerDurable`, `AppendOnly`; `ImplementsLedger` | two processes, three acceptances of one task (a short one, a competitor, one under the successor policy), five instants, three rows |
| `journal_v1_two_tasks` | `Readable` at a full journal, `AuthorityNeverInactive`, `CommandsEnd` | two tasks, a revoked key, two rows |
| `lifecycle_v2` | `Readable`, `Succession`, `SummaryConsistent`, `ReleaseAnswered`, `NoReactivation` | an acceptance, two releases of it, a successor signed before either, two events |
| `lifecycle_policies` | `ReleasePrecedesSuccessor`, `ImplementsLedger` | a release of an acceptance whose policy is being replaced |
| `create` | `AdmittedIsProtected`, `CreatedStays` | versions 1 and 3, two inits, two registers, two rows |
| `create_v2` | `RetainedIsProtected`, violated: see Findings | the same for version 2 |
| `identified_journal` | `EnrolledOnly`, `CheckpointIsOneMoment`, `MatchedHasPinned` | two commands, two files (a journal and another, or two unidentified ones), three rows and releases, one checkpoint |
| `publish` | `WholeAtPath`, `SuccessIsOwn`, `NoLitter`, `FirstStays` | three publishers, one power loss |
| `authorized_requests` | `VerifiedOnce`, `ReplayHasOriginal`, `EvaluatedOnce`, `AllowIsAuthorized` | two verifiers, an analyst's and a responder's request and one with changed arguments, risk at and below the threshold, both engines; skew 1, delay up to 1, lifetime 4 |
| `signed_requests_edge` | `VerifiedOnce`, violated: see Findings | lifetime 2, exactly twice the skew, no delay |
| `audit_chain` | `HeadIdentifiesLog`, `AcceptedInTimeOrder` | three records, one change, three instants in two seconds |
| `reviews` | one property per tool, below | every tool on every small input around its edges |

What `reviews` asks. Each property states the answer directly, without the tool's order of
work, and most of them also ask the tool again about a reordered, swapped or repeated input.

- `ResetWindowsStrongest`: a group is reported if some window of it is large enough, with the largest
  such window and the earliest of the largest.
- `AttemptsCorrelatedOnce`: reported windows share no attempt, each satisfies the configuration,
  no attempt that was left over starts another that would, and the events in the opposite order lead to
  the same claims.
- `ArpFindingsExplained`: findings are the changes between consecutive observations; their lease and
  switch evidence is what a search through all leases and captures finds.
- `ArpTransitionsAccounted`: a comparison names every transition of either review once, "unchanged" exactly when
  the lines, leases, captures, ports, ages and policy rules behind it are the same in both. Sides with a neighbor
  receipt have the observations of its snapshots; an imported neighbor table can be reviewed and traced back. The
  pairs have leases, or two captures in any order with up to two port rules, or receipts and inventories that
  belong to the sides, to each other's or to none.
- `CasesCountOnce`: a case holds each event once with every copy of it as a source, whatever the order
  and repetition of the files.
- `QueueKeepsFindings`: the queued hosts are those whose latest usable answers differ from their rule,
  prioritized only by an assessment of those very addresses.
- `HandoffFullyAttested`: an accepted handoff has, for each finding, one attestation of each role, by a
  key that is active, granted it and in force.
- `DependentsReviewed`: a mapping that rests on a changed observation is listed.
- `PinnedBytesScanned`: what is returned is what the pinned rule matches in the pinned fixture.
- `ReportsAgree`: the oracle and `aegis.rego` report the same decisions and mismatches.

Bounds. `MAX_EVENTS` is 2 or 3 instead of 2000, and small enough to be reached.
Two processes suffice for what a lock can let through: a third could only hold or
wait for the same single RESERVED lock, and the proofs are for any number. Instants
0..4 put a call before, inside, at the end of and after every interval. `MAX_ROWS`
bounds the rows of `JournalCreate`; `MaxEvents` and `MaxPublished` those of
`IdentifiedJournal`: two rows and a release, or three rows, let a copy be taken, outgrown and brought
back at the same length. `MaxTime` ends the clock after every request of the run has become stale.
`MaxLength` 3 gives a chain a first, a middle and a last record; `MaxChanges` 1 includes a
record built anew with a valid digest. Identifiers have up to two and nonces one or two
characters. Processes are symmetric; the run with a liveness property uses no symmetry.

Deadlock is checked wherever a system can go on. It is not in `create`, `create_v2`, `publish`,
`audit_chain` and `reviews`, which end: every command has run, the
verifier has answered.

Fairness is weak fairness of each process's `Step`: a started command keeps
running, because no step of it waits without a bound. SQLite gives up after
`busy_timeout` (`BeginBusy`, `CommitBusy`). Nothing is assumed of who gets the lock,
and neither starting a command nor dying is fair. It is used in
`journal_v1_two_tasks`; the other runs ask for safety only.

Properties worth a word. `Readable` is not a type: a row the reader refuses
makes the journal useless for good, and it is the insertion checks and the UNIQUE
column together that exclude it. `MatchedHasPinned` is about the file that was read, and stays
true while it grows; it excludes a journal that was rolled back and grew to the pinned
length again. `HeadIdentifiesLog` says what the `head_hash` of the answer is good for. The verifier takes no
expected head: a chain that was cut short, or rebuilt from the first record, verifies
(`audit_chain.py:212-218`), and comparing its head with one known from elsewhere is the reader's own step.

## Findings

`create_v2`: the version-2 script sets `user_version` before it creates the release
table and triggers (`dns_assignment_lifecycle.py:72`), and `executescript` commits
statement by statement. An init that dies, or that loses the write lock to a
register, leaves a journal that version-2 commands open and append to, while
`release_no_update` or `release_no_delete` is missing. `RESPONSIBILITY.md:229` says
that append-only triggers prevent ordinary updates and deletes; lines 206-207 warn
of an incomplete database, to be inspected, which this one does not look like.
Version 1 sets its number last. Version 3 requires the identity row, the last
statement of all, and unlinks the file when init fails.

`signed_requests_edge`: `verify_request` accepts a `nonce_ttl_seconds` of exactly twice
`max_skew_seconds` (`verification.py:230`), accepts a timestamp that differs by exactly the skew,
and keeps a nonce only while its expiry is later than now. A request first
verified when its timestamp is the full skew ahead is verified again in the one second when
the full skew has passed since its timestamp. `verification.py:231` says that such a lifetime covers
twice the skew, line 224 that the nonce is one-time. The defaults (skew 60, lifetime 300)
are not affected: the theorem needs `TTL > 2 * Skew + Lateness`, with `Lateness` the
longest time between a caller's reading of the clock and its reservation.

## Proofs

All results are for any number of processes and any values of the constants that
satisfy the named assumptions below; a theorem that needs more says so as a hypothesis.

| Module | Theorems | State |
| --- | --- | --- |
| `AssignmentJournalProofs` | `Invariant`, `TypeCorrect`, `JournalReadable`, `OneResponsible`, `NeverInactive`, `RowsAppendOnly`, `AnswersAreDurable`, `Refinement` | `IInv`, `TypeOK`, `Readable`, `Succession`, `AuthorityNeverInactive`, `AppendOnly`, `AnswerDurable`, `Ledger!LedgerSpec` |
| `LifecycleJournalProofs` | `Invariant`, `TablesReadable`, `OneResponsible`, `ReleasesPrecede`, `SummariesConsistent`, `NeverReactivated`, `ReleasesAreAnswered`, `Refinement` | `IInv`, `Readable`, `Succession`, `ReleasePrecedesSuccessor`, `SummaryConsistent`, `NoReactivation`, `ReleaseAnswered`, `Ledger!LedgerSpec` |
| `IdentifiedJournalProofs` | `IdentifiedInvariant`, `AppendsAreEnrolled`, `CheckpointsAreOneMoment`, `MatchedIsRetained` | `IdentifiedInv`, `EnrolledOnly`, `CheckpointIsOneMoment`, `MatchedHasPinned` |
| `FileCreationProofs` | `Invariant`, `FinishedStays`, `AdmissionsProtected`, `AcceptancesProtected` | of `JournalCreate`: `IInv`, `CreatedStays`, `AdmittedIsProtected` for versions 1 and 3, and for every version `AcceptanceProtected` |
| | `PublishInvariant`, `PathIsWhole`, `SuccessOwnsPath`, `NothingLeft`, `FirstDocumentStays` | of `Publish`: `PublishInv`, `WholeAtPath`, `SuccessIsOwn`, `NoLitter`, `FirstStays` |
| `ToolPolicyProofs` | `EnginesAgree`, `SuitesAgree` | the oracle and the Rego rules decide alike, and so do the commands over a suite, under `PlainPolicy` |
| `AuthorizedRequestsProofs` | `RequestsVerifiedOnce`, `ReplaysHaveOriginals` | of `SignedRequests`: `VerifiedOnce` under `LifetimeCovers`, `ReplayHasOriginal` under `Separable` |
| | `AuthorizedVerifiedOnce`, `AuthorizedReplays`, `RequestsEvaluatedOnce`, `AllowsAreAuthorized` | the four properties of the composition, under the hypotheses of its parts |
| | `ChainInvariant`, `KnownHeadIdentifiesLog`, `AcceptedChainsInTimeOrder` | of `AuditChain`: `ChainInv`, `HeadIdentifiesLog`, `AcceptedInTimeOrder` |
| `ReviewsProofs` | `HandoffsFullyAttested`, `DependentsAreReviewed`, `PinnedBytesAreScanned`, `CommandsAgree` | `HandoffFullyAttested`, `DependentsReviewed`, `PinnedBytesScanned`, and `ReportsAgree` under `PlainPolicy` |
| | `StrongestWindowsReported`, `AttemptsAreCorrelatedOnce`, `CaseCountsEachOnce`, `QueueKeepsEveryFinding` | `ResetWindowsStrongest`, `AttemptsCorrelatedOnce`, `CasesCountOnce`, `QueueKeepsFindings` |
| | `FindingsAreExplained`, `TransitionsAreAccounted` | `ArpFindingsExplained`, `ArpTransitionsAccounted` |

Assumptions. The constants have the record types of `DnsResponsibility`, instants
are naturals, `MAX_EVENTS` is a natural; `NoDigest`, `NoRelease`, `NotReleased`, `NoAssignment`,
`NoTransaction`, `NoFile`, `NoDocument`, `NoOne` and `NoCall` are not values of the kind they stand
beside; `Versions` are among 1 to 3; an `Instant` of the audit chain is a second and a
fraction; `FilesAssumption`, `TimingAssumption`, `RequestAssumption`, `PolicyAssumption`,
`HandoffAssumption`, `ReportAssumption`, `ResetAssumption`, `BatchAssumption`, `ArpAssumption`, `CaseAssumption`
and `WorkflowAssumption` say what the parsers and `verify_request` itself
enforce: arrays are finite sequences, records have their own fields, expiries are instants,
version-1 reports have no mappings, assessments use the factors of the tables; what is sorted (instants,
identifiers, names, addresses) is represented by naturals, and a report is not `Refused`, nor an inventory or a queue
a missing one. TLC evaluates them in the runs. The hypotheses:
`LifetimeCovers` is `TTL > 2 * Skew + Lateness`, `Separable` that no agent
identifier holds a colon, `PlainPolicy` that no name, role or sensitivity of the policy file has padding
and the names of an object are different, `Versions \subseteq {1, 3}` that the journal is not of version 2,
whose promise `create_v2` refutes.

Version 1. `Readable` and `Succession` alone are not inductive: nothing in them
says that what a process is about to commit was decided on the rows that are
committed when it commits. `LockInv` (whoever decides, has inserted or commits holds
RESERVED, and there is one such process) and `TransactionInv` (a deciding transaction
sees the committed rows; an inserted one holds them and one admitted row more) say
it. Then only `Commit` changes rows (`StepTransactions`), and an admitted row keeps
`Readable` (`AdmittedReadable`) and `Succession` (`AdmittedSucceeds`). The latter needs
`Authorized`: the previous row's key is still granted its task under the same policy
bytes, so the check can only have let the newcomer pass because of expiry
(`NotCompeting`). The refinement maps each task to its newest row; a commit is an
`Assign` (`CommitAssigns`), every other step a stutter. The lemmas of
`JournalHistoryProofs` carry it: the newest row of a task is unique (`LatestUnique`),
is what `CHOOSE` chooses (`LatestIs`) and depends only on the rows before it (`LatestPrefix`).

Version 2 has the same locks, with `TransactionInv` also saying that a reader sees the
committed tables while it reads, and `TablesInv` in place of readability: both tables load,
every row's key is granted, every row that follows another has its reason (`Succeeds`), and a
release stands before the row that took its row's place (`Precedes`). `Commit` adds
one row to one table. The heart is that a release may only name its
task's newest row, so at that moment it has no successor to precede, and that a later
`register` finds it in the transaction that decides. The refinement maps a release to
`GiveBack` (`ReleaseGivesBack`) and a registration to `Assign` (`RegisterAssigns`).

Identified journal. A file changes only by a `Commit`, which holds the file's RESERVED lock and waits
for its readers, or by `Copy`, onto a file nobody has open. So a reader's rows
stay a prefix of its file's until it ends its transaction, and all of it at the last read;
afterwards they stay a prefix, because appends are all that happens to an open file.

Requests. While a request in `verified` may still pass the skew check at the reading of a pending
call, its nonce has not expired at that reading: its expiry is at least the first reading plus
`TTL`, the two readings differ by at most twice the skew, and a purge uses a reading at most
`Lateness` later. The composition inherits both results, since its steps are those
of `SignedRequests` or leave its variables alone. It adds that a request is evaluated by the one call that
verified it, and that an allow was begun with its own agent's active key and passed the engine's rules;
`EnginesAgree` makes this one argument for both engines.

Creation. Only the init that made the file is at work on it or has finished it (`OneMaker`), so no
other init unlinks it, and its own cleanup in version 3 comes before it is done. In
versions 1 and 2 what a register saw when it opened the file stays so (`OpenedStays`); in version 3 the file may
vanish under it, and a transaction needs the identity that only a finished init has given out.
`Admitted` joins the two: a transaction, and every row, has the release table where the
version has one and, in version 3, a finished init behind it. Version 1 then has its whole script
because `user_version` is the last statement; version 2 has it fourth of seven, hence
`AcceptancesProtected` only.

Publication. The invariant says whose file the path names and that this file was written and
synchronized before it was linked; a power loss may take the name away, never the content.

Audit chain. `HeadIdentifiesLog` speaks of a walk that has ended; the invariant must speak of every
record on the way. `Agrees` does: wherever a checked record of the copy has the digest of a record of the log,
it is that record and everything before it is the log. A step of the walk keeps it because a digest
covers the previous one: equal digests at a position are equal links, so the records before them have
equal digests as well, for which it holds already. An append keeps it by the same reading from the other side: a
checked record with the new digest would follow one with the old head's.

Handoffs and reports. The lemma `AnswersFaithful` ties an answer to the algorithm that made it; what is proved
of interest is about the algorithms, at every size of their inputs. A handoff is refused when
it repeats a finding and role, names an unexpected one, or has not exactly as many attestations as are
expected; a list without repetitions as long as the finite set it is drawn from leaves nothing out
(`ListCovers`), so every finding has each role, once. In a comparison, `len(set)` equal to
`len(list)` makes identifiers unique (`AllDifferent`), so the entry the code finds by its key
(`CHOOSE`) is the entry meant; then the three change lists (added, removed, changed) together are
whatever the two reports do not share (`ObservationsChange`, `MappingsChange`), and what is
listed for review is what is rested on and not shared (`DependentsAffected`), which is the same in either
direction. `CommandsAgree` carries `EnginesAgree` over a suite.

Loops over arrays. The scans of the remaining tools are recursive functions of the number of elements
done (`Scan`, `Windows`, `Latest`, `Collected`); the proofs state what holds after each element and
conclude with `InductiveSet`, induction stated over sets of naturals, because the library's
induction theorems take a predicate. Sorting rests on `ArrangedInOrder`: under an order the
number of elements before one of them is its rank, ranks are different and below the size, so each
place has its element and the places are in order. A scan of sorted instants sees, as the window of
an instant, an interval of places (`WindowIsInterval`), so counting a set of rows is
subtracting two indexes.

- Resets: after each row, what was kept is the first among the widest windows that end so far
  (`SlideKeepsBest`). Two rows of one instant end windows of different widths; the wider one is
  the later row's, which is why the largest window by time is found (`EvidenceIsWidest`).
- Attempts: `Walked` says of the walk that each window found satisfies the configuration and ends before
  the walk stands, that no two share an attempt, and that every attempt left behind is in one of them or starts
  none. For the opposite order, reversing a batch maps its attempts one to one with instant and target
  (`AlikeReversed`), and then the sorted groups agree place by place: if the attempt at a place came
  earlier than its counterpart, those up to it would have too few places to go (`CarriedAlike`,
  `TooFewPlaces`). So the two walks are abreast (`PassAbreast`).
- Queue: `Imported` says of the import that a host is in the table when a wanted row named it, with the
  instant and value of its newest rows, which all say the same. That is what the reviews compare
  (`ImportSays`, `ReviewFinds`), and the layers carry an assessment to its finding by host, addresses and
  end of observation (`LayerAssesses`).
- Case: `Held` says of the collection that events have different IDs, and that each record read so far
  is listed as a source, and that what is listed with an event equals it. The failures of a key, sorted, are the
  same for any list of the same events, since they have IDs (`FailuresArranged`,
  `SignInsSorted`); `LargestSoFar` is the invariant of the scan. So candidates are a function of the set of
  records (`ClaimsAreLargest`, `CaseTells`), which neither reversing the files nor repeating one
  changes.

- ARP lines: `Watched` says of the loop that `previous` has the last line of each interface and IP seen so
  far (`Remembered`) and that the findings are those of the changes up to here, in the order of their
  lines (`FoundChanges`). A schedule is sorted, so `bisect_right` counts what is not later than an instant
  (`BisectCounts`). Leases of one mapping do not overlap, so no lease but the one at that place can cover the
  instant (`ActiveLeaseCovers`); one capture per station and instant makes the last two places the two
  newest captures (`HistoryIsRecent`).
- Two reviews: no two findings of an accepted review have one identity (`AllDifferent` again), so the finding a
  transition is listed with is its only one (`EventsExplain`). A finding and its evidence determine each other, field by
  field: the lease line, the two captures with their ports and the time between them, the rule consulted and its
  verdict (`SameLeases`, `SameHistories`, `SameRules`, `SameFindings`); so two findings are equal, as the code
  compares them, exactly when the evidence is (`ComparisonAccounts`). In an import the observations are in order
  of their instants and all differ, so its review is neither refused nor ambiguous (`ImportAccounts`), and
  a comparison that replays a receipt has just these observations (`SidesReplay`).

Only model-checked: `CommandsEnd`, liveness under fairness.

## What the properties leave out

- Padded policy files. The oracle strips names and roles (`policy.py:97`), OPA reads the file as it
  is, so the engines may decide a padded file differently. `ReportsAgree` and `EnginesAgree`
  are for files without padding.
- Agent identifiers with a colon. The nonce key is `agent_id:nonce`, so two such agents may share
  a key, and one is told of a replay it did not make. `ReplayHasOriginal` is for identifiers without.
- Instants of one second in the audit chain. Text with a fraction sorts before text
  without, so an accepted chain may go back within a second and a chain in true order may
  be rejected. `AcceptedInTimeOrder` is about seconds.
- Superseded conflicts of Zeek rows. The `README.md` of `dns-review` (167-168) has conflicting latest responses
  at equal timestamps fail, regardless of file order; `zeek_dns_import.py:85-90` fails on a conflict that is
  the latest so far, so a conflict that a newer row supersedes fails or not depending on their order. The
  model follows the code; `QueueKeepsFindings` is about what was not refused.
- The second successor of a released acceptance. `ReleasePrecedesSuccessor` is about the next row of
  the task. A third acceptance signed before the first release may follow once the
  second has ended, since the code compares with the latest predecessor's release only
  (`dns_assignment_lifecycle.py:110-117`).
- A change of policy. `Succession` does not say that two acceptances under the same
  policy are never in force together: between them may stand one under another policy, since any
  change of the policy bytes frees the task (stated in `RESPONSIBILITY.md`), including a
  change back.
- Liveness of version 2. Its commands take the steps of `JournalCommand` that
  `CommandsEnd` checks in version 1; no run repeats it.
- SQLite's PENDING lock in `IdentifiedJournal`: there a commit waits while there are readers,
  and may end at any time. `SqliteStore` has it.
- Sequences of reviews: in `Reviews` a behaviour is one question and its answer, as these tools
  keep nothing between calls.

## Not modelled

- The threat model registry, the AWS cost plan, IAM analysis, Terraform and CloudFormation: no state and no
  algorithm beyond field checks, pattern matching and decimal arithmetic.
- `attack.py`, `zeek_tsv.py`, the benchmark, rendering, argument handling and the demos.
- The commands that create approvals and attestations: they sign with a private key and
  then call the verification that is modelled.
- The syntax of JSON, TSV, YAML, ARP and lease lines. A line is its parsed fields or
  a refusal; the difficulty is in formats, which unit tests reach.

- Which step of `publish` failed: an error of writing, fsync or link is `Fail`, followed by the cleanup. A failing
  open, which leaves nothing, and a failing unlink, which would leave the private copy, are not steps of the
  model. Likewise, every way in which a YARA run ends in an error is one refusal.
- Fractions of seconds in ARP lines, whose elapsed times are cut to whole seconds, and the record type of a DNS
  workflow: its rows are marked as wanted or not.
- The bounds of inputs of the review tools (numbers of files, bytes, rows). They refuse larger inputs before
  anything else, so the answers of the model on larger ones are not the code's. For a case with one of its
  files added, "the same" means as far as both lists are within the bounds.

What could follow: a version-2 run with three acceptances of one task.
