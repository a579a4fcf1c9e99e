-------------------------- MODULE IdentifiedJournal --------------------------
(***************************************************************************)
(* The commands of an enrolled version-3 journal and the checkpoints of all *)
(* three versions, over database files that may be replaced at their path   *)
(* by another journal, or by an older copy, between any two steps           *)
(* (dns_identified_journal.py, dns_lifecycle_checkpoint.py and              *)
(* dns_journal_checkpoint.py).                                              *)
(*                                                                          *)
(* The rows are the digests of the acceptances, the releases those of the   *)
(* acceptances they release: which of them register and release admit is    *)
(* the subject of LifecycleJournal.                                         *)
(***************************************************************************)
EXTENDS Naturals, Sequences, SequencesExt

CONSTANTS
    Proc,           \* command invocations that may run concurrently
    Inode,          \* database files
    Acceptance,     \* acceptance digests
    Identity,       \* journal identifiers, and "none"
    Enrolled,       \* the journal identifier of the enrollment
    NoPin,          \* a command without a pinned checkpoint
    NoFile,         \* the inode of a command that has not connected
    InitialFiles,   \* the database files there are at first
    MaxEvents,      \* bound on the rows and releases of a file
    MaxPublished    \* bound on the checkpoints

\* A database file, and the document of a checkpoint of it; versions 1 and 2
\* have the identity "none".
JournalFile == [version : 1..3, identity : Identity,
                rows : Seq(Acceptance), releases : Seq(Acceptance)]

ASSUME FilesAssumption ==
    /\ InitialFiles \subseteq [Inode -> JournalFile]
    /\ {Enrolled, "none"} \subseteq Identity

VARIABLES
    file,       \* file[i]: [version, identity, rows, releases], committed
    path,       \* the inode that the journal's path names
    proc,       \* proc[p]: the command p runs, see Idle
    published,  \* the checkpoints that were created, the pins of verify
    enrolled    \* the enrollment was created

vars == <<file, path, proc, published, enrolled>>

\* shared and reserved: the SQLite locks of p on its inode
Idle == [phase |-> "idle", op |-> "none", version |-> 3, inode |-> NoFile, shared |-> FALSE,
         reserved |-> FALSE, rows |-> << >>, releases |-> << >>, pin |-> NoPin]

Init ==
    /\ file \in InitialFiles
    /\ path \in Inode
    /\ proc = [p \in Proc |-> Idle]
    /\ published = {}
    /\ enrolled = FALSE

At(p, phase) == proc[p].phase = phase
Set(p, record) == proc' = [proc EXCEPT ![p] = record]
File(p) == file[proc[p].inode]

\* The identity check of IdentifiedJournal._connection; versions 1 and 2 have none.
Identified(version, f) == version = 3 => f.identity = Enrolled

\* ReleasesOK as far as it is about the two tables together
Valid(rows, releases) == IsInjective(releases) /\ ToSet(releases) \subseteq ToSet(rows)

------------------------------------------------------------------------------
\* The constructor, which in version 3 checks the identity in a transaction of its
\* own.  append stands for register and release; without an enrollment only its
\* own command can name the identifier.
Construct(p) ==
    /\ At(p, "idle")
    /\ \E op \in {"append", "enroll", "checkpoint", "verify"}, version \in {file[i].version : i \in Inode} :
       \E pin \in {NoPin} \cup {d \in published : d.version = version} :
         /\ op = "verify" <=> pin # NoPin
         /\ op = "enroll" => version = 3
         /\ version = 3 => enrolled \/ op = "enroll"
         /\ version = 3 => file[path].version = version /\ Identified(version, file[path])
         /\ Set(p, [Idle EXCEPT !.phase = "constructed", !.op = op, !.version = version, !.pin = pin])
    /\ UNCHANGED <<file, path, published, enrolled>>

\* _connection opens the path and reads the version; the connection stays with
\* the inode it opened.
Connect(p) ==
    /\ At(p, "constructed") /\ file[path].version = proc[p].version
    /\ Set(p, [proc[p] EXCEPT !.phase = "connected", !.inode = path])
    /\ UNCHANGED <<file, path, published, enrolled>>

\* Mutated form: the identity was checked when the journal was constructed.
BeginWriteUnidentified(p) ==
    /\ At(p, "connected") /\ proc[p].op = "append"
    /\ \A q \in Proc : ~ (proc[q].reserved /\ proc[q].inode = proc[p].inode)
    /\ Set(p, [proc[p] EXCEPT !.phase = "writing", !.reserved = TRUE])
    /\ UNCHANGED <<file, path, published, enrolled>>

\* BEGIN IMMEDIATE, and the identity check under it
BeginWrite(p) ==
    /\ At(p, "connected") /\ proc[p].op = "append"
    /\ \A q \in Proc : ~ (proc[q].reserved /\ proc[q].inode = proc[p].inode)
    /\ Identified(proc[p].version, File(p))
    /\ Set(p, [proc[p] EXCEPT !.phase = "writing", !.reserved = TRUE])
    /\ UNCHANGED <<file, path, published, enrolled>>

\* The command's INSERT and its COMMIT, which waits for the readers
Commit(p) ==
    /\ At(p, "writing")
    /\ \A q \in Proc : ~ (proc[q].shared /\ proc[q].inode = proc[p].inode)
    /\ Valid(File(p).rows, File(p).releases)
    /\ Len(File(p).rows) + Len(File(p).releases) < MaxEvents
    /\ \E a \in Acceptance :
         \/ /\ a \notin ToSet(File(p).rows)
            /\ file' = [file EXCEPT ![proc[p].inode].rows = Append(@, a)]
         \/ /\ proc[p].version > 1 /\ a \in ToSet(File(p).rows) \ ToSet(File(p).releases)
            /\ file' = [file EXCEPT ![proc[p].inode].releases = Append(@, a)]
    /\ Set(p, Idle)
    /\ UNCHANGED <<path, published, enrolled>>

\* Mutated form: each SELECT is a transaction of its own.
BeginReadAutocommit(p) ==
    /\ At(p, "connected") /\ proc[p].op # "append"
    /\ Identified(proc[p].version, File(p))
    /\ Set(p, [proc[p] EXCEPT !.phase = "reading"])
    /\ UNCHANGED <<file, path, published, enrolled>>

\* BEGIN, and the identity check under it
BeginRead(p) ==
    /\ At(p, "connected") /\ proc[p].op # "append"
    /\ Identified(proc[p].version, File(p))
    /\ Set(p, [proc[p] EXCEPT !.phase = "reading", !.shared = TRUE])
    /\ UNCHANGED <<file, path, published, enrolled>>

\* _history, all that a version-1 checkpoint reads
ReadRows(p) ==
    /\ At(p, "reading")
    /\ LET last == proc[p].version = 1
       IN  Set(p, [proc[p] EXCEPT !.phase = IF last THEN "read" ELSE "rows",
                                  !.shared = @ /\ ~ last, !.rows = File(p).rows])
    /\ UNCHANGED <<file, path, published, enrolled>>

\* _releases: the second read, validated and dropped
CheckReleases(p) ==
    /\ At(p, "rows") /\ Valid(proc[p].rows, File(p).releases)
    /\ Set(p, [proc[p] EXCEPT !.phase = "validated"])
    /\ UNCHANGED <<file, path, published, enrolled>>

\* The third read, which the checkpoint is made of, ends the transaction.
ReadReleases(p) ==
    /\ At(p, "validated")
    /\ Set(p, [proc[p] EXCEPT !.phase = "read", !.shared = FALSE,
                              !.releases = File(p).releases])
    /\ UNCHANGED <<file, path, published, enrolled>>

\* build_checkpoint's document: the digest stands for what is hashed.
Document(c) ==
    [version |-> c.version, identity |-> IF c.version = 3 THEN Enrolled ELSE "none",
     rows |-> c.rows, releases |-> c.releases]

\* create_checkpoint publishes it, after the transaction.
Publish(p) ==
    /\ At(p, "read") /\ proc[p].op = "checkpoint"
    /\ Cardinality(published) < MaxPublished
    /\ published' = published \cup {Document(proc[p])}
    /\ Set(p, Idle)
    /\ UNCHANGED <<file, path, enrolled>>

\* enroll publishes the enrollment of a valid store.
Enroll(p) ==
    /\ At(p, "read") /\ proc[p].op = "enroll"
    /\ enrolled' = TRUE
    /\ Set(p, Idle)
    /\ UNCHANGED <<file, path, published>>

\* Mutated form: the claimed fields are compared, not the digest.
MatchesCounts(c) ==
    LET d == Document(c)
    IN  /\ d.version = c.pin.version /\ d.identity = c.pin.identity
        /\ Len(d.rows) = Len(c.pin.rows) /\ Len(d.releases) = Len(c.pin.releases)

Matches(c) == Document(c) = c.pin

\* verify_checkpoint's comparison with the pinned document
Verify(p) ==
    /\ At(p, "read") /\ proc[p].op = "verify" /\ Matches(proc[p])
    /\ Set(p, [proc[p] EXCEPT !.phase = "matched"])
    /\ UNCHANGED <<file, path, published, enrolled>>

\* A refusal, a busy timeout or a crash: the locks are dropped.
End(p) ==
    /\ ~ At(p, "idle")
    /\ Set(p, Idle)
    /\ UNCHANGED <<file, path, published, enrolled>>

\* EXTERNAL: another file is renamed to the path, or the files are copied.
Replace ==
    /\ path' \in Inode \ {path}
    /\ UNCHANGED <<file, proc, published, enrolled>>

Copy ==
    /\ \E i \in Inode \ {path} :
         /\ \A p \in Proc : proc[p].inode # i
         /\ file' = [file EXCEPT ![i] = file[path]]
    /\ UNCHANGED <<path, proc, published, enrolled>>

Step(p) ==
    \/ Construct(p) \/ Connect(p) \/ BeginWrite(p) \/ Commit(p)
    \/ BeginRead(p) \/ ReadRows(p) \/ CheckReleases(p) \/ ReadReleases(p)
    \/ Publish(p) \/ Enroll(p) \/ Verify(p) \/ End(p)

Next == (\E p \in Proc : Step(p)) \/ Replace \/ Copy

Spec == Init /\ [][Next]_vars

------------------------------------------------------------------------------
(* Every committed append of an enrolled command lands in a journal of the  *)
(* enrolled identity, whatever the path named when the command was built.   *)
EnrolledOnly ==
    [][\A p \in Proc : At(p, "writing") /\ proc[p].version = 3 /\ file'[proc[p].inode] # File(p)
                        => File(p).identity = Enrolled]_vars

(* What the three reads of one checkpoint captured is what the file held    *)
(* when the last of them was made: no commit falls between them.            *)
CheckpointIsOneMoment ==
    [][\A p \in Proc : ~ At(p, "read") /\ proc'[p].phase = "read"
                        => /\ proc'[p].rows = File(p).rows
                           /\ proc'[p].version > 1 => proc'[p].releases = File(p).releases]_vars

(* A verdict that the checkpoint matched means that the file that was read  *)
(* is of the pinned identity and has the whole pinned history, whatever has *)
(* been appended since: a journal that was rolled back, and grew to the     *)
(* same length again, is not accepted.                                      *)
MatchedHasPinned ==
    \A p \in Proc : At(p, "matched") =>
       /\ Identified(proc[p].pin.version, File(p))
       /\ IsPrefix(proc[p].pin.rows, File(p).rows)
       /\ IsPrefix(proc[p].pin.releases, File(p).releases)
==============================================================================
