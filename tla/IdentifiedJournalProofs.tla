----------------------- MODULE IdentifiedJournalProofs -----------------------
(***************************************************************************)
(* What the identity check and the read transaction of version 3 ensure     *)
(* while files are replaced at the journal's path, for any number of        *)
(* commands, files and rows.                                                *)
(*                                                                          *)
(* A command stays with the file it opened, and a file that is open is      *)
(* changed by Commit only: it appends, keeps the identity, and waits for    *)
(* the readers.  So what a reader has read stays a prefix of the file, and  *)
(* equals it as long as the reader holds its lock.                          *)
(***************************************************************************)
EXTENDS IdentifiedJournal, SequenceTheorems, TLAPS

Op == {"none", "append", "enroll", "checkpoint", "verify"}

Phase == {"idle", "constructed", "connected", "writing", "reading", "rows",
          "validated", "read", "matched"}

\* The phases in which the command has opened a file, in which its transaction
\* has passed the identity check, and in which it reads.
Open == {"connected", "writing", "reading", "rows", "validated", "read", "matched"}
Checked == Open \ {"connected"}
Reading == {"reading", "rows", "validated"}

Command ==
    [phase : Phase, op : Op, version : 1..3, inode : Inode \cup {NoFile},
     shared : BOOLEAN, reserved : BOOLEAN, rows : Seq(Acceptance),
     releases : Seq(Acceptance), pin : JournalFile \cup {NoPin}]

TypeOK ==
    /\ file \in [Inode -> JournalFile]
    /\ path \in Inode
    /\ proc \in [Proc -> Command]
    /\ published \subseteq JournalFile
    /\ enrolled \in BOOLEAN

OpenInv(p) == proc[p].phase \in Open => proc[p].inode \in Inode

IdentityInv(p) == proc[p].phase \in Checked => Identified(proc[p].version, File(p))

ReadingInv(p) ==
    /\ proc[p].phase \in Reading => proc[p].shared
    /\ proc[p].phase \notin {"read", "matched"} => proc[p].releases = << >>
    /\ proc[p].phase \in {"rows", "validated"} => proc[p].rows = File(p).rows

HistoryInv(p) ==
    proc[p].phase \in {"read", "matched"} =>
       /\ IsPrefix(proc[p].rows, File(p).rows)
       /\ IsPrefix(proc[p].releases, File(p).releases)

MatchInv(p) == proc[p].phase = "matched" => proc[p].pin = Document(proc[p])

CommandInv(p) ==
    OpenInv(p) /\ IdentityInv(p) /\ ReadingInv(p) /\ HistoryInv(p) /\ MatchInv(p)

IdentifiedInv == TypeOK /\ \A p \in Proc : CommandInv(p)

------------------------------------------------------------------------------
(* Sequences                                                                *)

\* A sequence is a prefix of itself, and stays one of what is appended to.
LEMMA PrefixReflexive ==
    ASSUME NEW S, NEW s \in Seq(S)
    PROVE  IsPrefix(s, s)
  BY LenProperties DEF IsPrefix

LEMMA PrefixAppend ==
    ASSUME NEW S, NEW s \in Seq(S), NEW t \in Seq(S), NEW x \in S, IsPrefix(s, t)
    PROVE  IsPrefix(s, Append(t, x))
  <1>1. Len(s) \in Nat /\ Len(t) \in Nat  BY LenProperties
  <1>2. /\ Append(t, x) \in Seq(S) /\ Len(Append(t, x)) = Len(t) + 1
        /\ \A i \in 1..Len(t) : Append(t, x)[i] = t[i]
    BY AppendProperties
  <1>3. Len(s) <= Len(t) /\ SubSeq(s, 1, Len(s)) = SubSeq(t, 1, Len(s))
    BY DEF IsPrefix
  <1>4. SubSeq(Append(t, x), 1, Len(s)) = [i \in 1..Len(s) |-> Append(t, x)[i]]
    BY <1>1, <1>2, <1>3, SMT
  <1>5. SubSeq(t, 1, Len(s)) = [i \in 1..Len(s) |-> t[i]]
    BY <1>1, <1>3, SMT
  <1>6. \A i \in 1..Len(s) : Append(t, x)[i] = t[i]  BY <1>1, <1>2, <1>3, SMT
  <1>7. SubSeq(Append(t, x), 1, Len(s)) = SubSeq(t, 1, Len(s))
    BY <1>4, <1>5, <1>6
  <1>8. Len(s) <= Len(Append(t, x))  BY <1>1, <1>2, <1>3, SMT
  <1> QED  BY <1>3, <1>7, <1>8 DEF IsPrefix

------------------------------------------------------------------------------
(* The inductive invariant                                                  *)

\* A command that has not begun has the type of a command.
LEMMA IdleType == Idle \in Command
  <1>1. << >> \in Seq(Acceptance)  BY EmptySeq
  <1> QED  BY <1>1 DEF Idle, Command, Phase, Op

\* Before the first command nothing is read and no file is open.
LEMMA InitIdentified == Init => IdentifiedInv
  <1> SUFFICES ASSUME Init PROVE IdentifiedInv  OBVIOUS
  <1>2. TypeOK  BY IdleType, FilesAssumption DEF Init, TypeOK
  <1>3. ASSUME NEW p \in Proc PROVE CommandInv(p)
    BY <1>2 DEF Init, Idle, CommandInv, OpenInv, IdentityInv, ReadingInv, HistoryInv,
                MatchInv, Open, Checked, Reading
  <1> QED  BY <1>2, <1>3 DEF IdentifiedInv

\* What a checkpoint documents has the type of a database file.
LEMMA DocumentType ==
    ASSUME NEW c \in Command
    PROVE  Document(c) \in JournalFile
  BY FilesAssumption DEF Document, Command, JournalFile

\* A step of one command that leaves the files and the path alone disturbs no
\* other command.
LEMMA OwnStep ==
    ASSUME IdentifiedInv, NEW p \in Proc, NEW c \in Command, Set(p, c),
           UNCHANGED <<file, path>>, published' \subseteq JournalFile,
           enrolled' \in BOOLEAN, CommandInv(p)'
    PROVE  IdentifiedInv'
  <1>1. TypeOK'  BY DEF IdentifiedInv, TypeOK, Set
  <1>2. ASSUME NEW q \in Proc \ {p} PROVE CommandInv(q)'
    <2>1. proc'[q] = proc[q]  BY DEF IdentifiedInv, TypeOK, Set
    <2>2. CommandInv(q)  BY DEF IdentifiedInv
    <2> QED
      BY <2>1, <2>2 DEF CommandInv, OpenInv, IdentityInv, ReadingInv, HistoryInv,
                        MatchInv, File
  <1> QED  BY <1>1, <1>2 DEF IdentifiedInv

\* Each step of a command that leaves the files alone.
LEMMA ReaderSteps ==
    ASSUME IdentifiedInv, NEW p \in Proc,
           \/ Construct(p) \/ Connect(p) \/ BeginWrite(p) \/ BeginRead(p)
           \/ ReadRows(p) \/ CheckReleases(p) \/ ReadReleases(p)
           \/ Publish(p) \/ Enroll(p) \/ Verify(p) \/ End(p)
    PROVE  IdentifiedInv'
  <1>1. /\ TypeOK /\ CommandInv(p) /\ proc[p] \in Command
        /\ file \in [Inode -> JournalFile]
    BY DEF IdentifiedInv, TypeOK
  <1>2. << >> \in Seq(Acceptance)  BY EmptySeq
  <1>3. Idle \in Command  BY IdleType
  <1> USE DEF CommandInv, OpenInv, IdentityInv, ReadingInv, HistoryInv, MatchInv,
              Open, Checked, Reading, At, File
  <1>4. CASE Construct(p)
    <2>1. PICK op \in {"append", "enroll", "checkpoint", "verify"},
               version \in {file[i].version : i \in Inode} :
          \E pin \in {NoPin} \cup {d \in published : d.version = version} :
            Set(p, [Idle EXCEPT !.phase = "constructed", !.op = op,
                                !.version = version, !.pin = pin])
      BY <1>4 DEF Construct
    <2>2. PICK pin \in {NoPin} \cup {d \in published : d.version = version} :
            Set(p, [Idle EXCEPT !.phase = "constructed", !.op = op,
                                !.version = version, !.pin = pin])
      BY <2>1
    <2> DEFINE c == [Idle EXCEPT !.phase = "constructed", !.op = op,
                                 !.version = version, !.pin = pin]
    <2>3. version \in 1..3 /\ pin \in JournalFile \cup {NoPin}
      BY <1>1 DEF TypeOK, JournalFile
    <2>4. c \in Command  BY <1>2, <2>3 DEF Idle, Command, Phase, Op
    <2>5. c.phase = "constructed" /\ c.releases = << >>  BY DEF Idle
    <2>6. proc'[p] = c  BY <1>1, <2>2 DEF Set, TypeOK
    <2>7. CommandInv(p)'  BY <2>5, <2>6
    <2> QED  BY <1>1, <1>4, <2>2, <2>4, <2>7, OwnStep DEF Construct, TypeOK
  <1>5. CASE Connect(p)
    <2> DEFINE c == [proc[p] EXCEPT !.phase = "connected", !.inode = path]
    <2>1. c \in Command  BY <1>1 DEF Command, Phase, Op, TypeOK
    <2>2. /\ c.phase = "connected" /\ c.inode \in Inode
          /\ c.releases = << >>
      BY <1>1, <1>5 DEF Command, TypeOK, Connect
    <2>3. proc'[p] = c  BY <1>1, <1>5 DEF Set, TypeOK, Connect
    <2>4. CommandInv(p)'  BY <2>2, <2>3
    <2> QED  BY <1>1, <1>5, <2>1, <2>4, OwnStep DEF Connect, TypeOK
  <1>6. CASE BeginWrite(p)
    <2> DEFINE c == [proc[p] EXCEPT !.phase = "writing", !.reserved = TRUE]
    <2>1. c \in Command  BY <1>1 DEF Command, Phase, Op
    <2>2. /\ c.phase = "writing" /\ c.inode = proc[p].inode /\ c.version = proc[p].version
          /\ c.releases = proc[p].releases
      BY <1>1 DEF Command
    <2>3. proc'[p] = c /\ file' = file  BY <1>1, <1>6 DEF Set, TypeOK, BeginWrite
    <2>4. CommandInv(p)'  BY <1>1, <1>6, <2>2, <2>3 DEF BeginWrite, Identified
    <2> QED  BY <1>1, <1>6, <2>1, <2>4, OwnStep DEF BeginWrite, TypeOK
  <1>7. CASE BeginRead(p)
    <2> DEFINE c == [proc[p] EXCEPT !.phase = "reading", !.shared = TRUE]
    <2>1. c \in Command  BY <1>1 DEF Command, Phase, Op
    <2>2. /\ c.phase = "reading" /\ c.inode = proc[p].inode /\ c.version = proc[p].version
          /\ c.releases = proc[p].releases /\ c.shared
      BY <1>1 DEF Command
    <2>3. proc'[p] = c /\ file' = file  BY <1>1, <1>7 DEF Set, TypeOK, BeginRead
    <2>4. CommandInv(p)'  BY <1>1, <1>7, <2>2, <2>3 DEF BeginRead, Identified
    <2> QED  BY <1>1, <1>7, <2>1, <2>4, OwnStep DEF BeginRead, TypeOK
  <1>8. CASE ReadRows(p)
    <2> DEFINE last == proc[p].version = 1
               c == [proc[p] EXCEPT !.phase = IF last THEN "read" ELSE "rows",
                                    !.shared = @ /\ ~ last, !.rows = File(p).rows]
    <2>1. proc[p].inode \in Inode /\ File(p) \in JournalFile
      BY <1>1, <1>8 DEF ReadRows
    <2>2. File(p).rows \in Seq(Acceptance) /\ File(p).releases \in Seq(Acceptance)
      BY <2>1 DEF JournalFile
    <2>3. c \in Command  BY <1>1, <2>2 DEF Command, Phase, Op
    <2>4. /\ c.phase = (IF last THEN "read" ELSE "rows") /\ c.rows = File(p).rows
          /\ c.inode = proc[p].inode /\ c.version = proc[p].version
          /\ c.releases = << >> /\ c.shared = (proc[p].shared /\ ~ last)
      BY <1>1, <1>8 DEF Command, ReadRows
    <2>5. proc'[p] = c /\ file' = file  BY <1>1, <1>8 DEF Set, TypeOK, ReadRows
    <2>6. IsPrefix(File(p).rows, File(p).rows)  BY <2>2, PrefixReflexive
    <2>7. IsPrefix(<< >>, File(p).releases)  BY <2>2, LenProperties DEF IsPrefix
    <2>8. proc[p].shared /\ Identified(proc[p].version, File(p))
      BY <1>1, <1>8 DEF ReadRows
    <2>9. CommandInv(p)'
      <3> HIDE DEF c
      <3>1. CASE last  BY <2>1, <2>4, <2>5, <2>6, <2>7, <2>8, <3>1 DEF Identified
      <3>2. CASE ~ last  BY <2>1, <2>4, <2>5, <2>6, <2>7, <2>8, <3>2 DEF Identified
      <3> QED  BY <3>1, <3>2
    <2> QED  BY <1>1, <1>8, <2>3, <2>9, OwnStep DEF ReadRows, TypeOK
  <1>9. CASE CheckReleases(p)
    <2> DEFINE c == [proc[p] EXCEPT !.phase = "validated"]
    <2>1. c \in Command  BY <1>1 DEF Command, Phase, Op
    <2>2. /\ c.phase = "validated" /\ c.inode = proc[p].inode /\ c.version = proc[p].version
          /\ c.releases = proc[p].releases /\ c.rows = proc[p].rows
          /\ c.shared = proc[p].shared
      BY <1>1 DEF Command
    <2>3. proc'[p] = c /\ file' = file  BY <1>1, <1>9 DEF Set, TypeOK, CheckReleases
    <2>4. CommandInv(p)'  BY <1>1, <1>9, <2>2, <2>3 DEF CheckReleases, Identified
    <2> QED  BY <1>1, <1>9, <2>1, <2>4, OwnStep DEF CheckReleases, TypeOK
  <1>10. CASE ReadReleases(p)
    <2> DEFINE c == [proc[p] EXCEPT !.phase = "read", !.shared = FALSE,
                                    !.releases = File(p).releases]
    <2>1. proc[p].inode \in Inode /\ File(p) \in JournalFile
      BY <1>1, <1>10 DEF ReadReleases
    <2>2. File(p).rows \in Seq(Acceptance) /\ File(p).releases \in Seq(Acceptance)
      BY <2>1 DEF JournalFile
    <2>3. c \in Command  BY <1>1, <2>2 DEF Command, Phase, Op
    <2>4. /\ c.phase = "read" /\ c.rows = File(p).rows /\ c.releases = File(p).releases
          /\ c.inode = proc[p].inode /\ c.version = proc[p].version
      BY <1>1, <1>10 DEF Command, ReadReleases
    <2>5. proc'[p] = c /\ file' = file  BY <1>1, <1>10 DEF Set, TypeOK, ReadReleases
    <2>6. /\ IsPrefix(File(p).rows, File(p).rows)
          /\ IsPrefix(File(p).releases, File(p).releases)
      BY <2>2, PrefixReflexive
    <2>7. Identified(proc[p].version, File(p))  BY <1>1, <1>10 DEF ReadReleases
    <2>8. CommandInv(p)'  BY <2>1, <2>4, <2>5, <2>6, <2>7 DEF Identified
    <2> QED  BY <1>1, <1>10, <2>3, <2>8, OwnStep DEF ReadReleases, TypeOK
  <1>11. CASE Verify(p)
    <2> DEFINE c == [proc[p] EXCEPT !.phase = "matched"]
    <2>1. c \in Command  BY <1>1 DEF Command, Phase, Op
    <2>2. /\ c.phase = "matched" /\ c.inode = proc[p].inode /\ c.version = proc[p].version
          /\ c.releases = proc[p].releases /\ c.rows = proc[p].rows
          /\ c.pin = proc[p].pin
      BY <1>1 DEF Command
    <2>3. proc'[p] = c /\ file' = file  BY <1>1, <1>11 DEF Set, TypeOK, Verify
    <2>4. Document(c) = Document(proc[p])  BY <2>2 DEF Document
    <2>5. c.pin = Document(c)  BY <1>11, <2>2, <2>4 DEF Verify, Matches
    <2>6. CommandInv(p)'
      <3> HIDE DEF c
      <3> QED  BY <1>1, <1>11, <2>2, <2>3, <2>5 DEF Verify, Identified
    <2> QED  BY <1>1, <1>11, <2>1, <2>6, OwnStep DEF Verify, TypeOK
  <1>12. CASE Publish(p) \/ Enroll(p) \/ End(p)
    <2>1. Set(p, Idle) /\ UNCHANGED <<file, path>>
      BY <1>12 DEF Publish, Enroll, End
    <2>2. published' \subseteq JournalFile /\ enrolled' \in BOOLEAN
      BY <1>1, <1>12, DocumentType DEF Publish, Enroll, End, TypeOK
    <2>3. proc'[p] = Idle  BY <1>1, <2>1 DEF Set, TypeOK
    <2>4. CommandInv(p)'  BY <2>3 DEF Idle
    <2> QED  BY <1>3, <2>1, <2>2, <2>4, OwnStep
  <1> QED  BY <1>4, <1>5, <1>6, <1>7, <1>8, <1>9, <1>10, <1>11, <1>12

\* The append of a command is seen by the commands that have its file open: none of
\* them holds a read transaction, and what the others have read stays a prefix.
LEMMA CommitStep ==
    ASSUME IdentifiedInv, NEW p \in Proc, Commit(p)
    PROVE  IdentifiedInv'
  <1> DEFINE i == proc[p].inode
             f == file[i]
  <1>1. /\ TypeOK /\ i \in Inode /\ f \in JournalFile
    BY DEF IdentifiedInv, TypeOK, CommandInv, OpenInv, Commit, At, Open
  <1>2. f.rows \in Seq(Acceptance) /\ f.releases \in Seq(Acceptance)
    BY <1>1 DEF JournalFile
  <1>3. PICK a \in Acceptance :
           \/ file' = [file EXCEPT ![i].rows = Append(@, a)]
           \/ file' = [file EXCEPT ![i].releases = Append(@, a)]
    BY DEF Commit
  <1>4. Append(f.rows, a) \in Seq(Acceptance) /\ Append(f.releases, a) \in Seq(Acceptance)
    BY <1>2, AppendProperties
  <1>5. /\ file' \in [Inode -> JournalFile]
        /\ file'[i].identity = f.identity
        /\ file'[i].rows \in {f.rows, Append(f.rows, a)}
        /\ file'[i].releases \in {f.releases, Append(f.releases, a)}
        /\ \A j \in Inode \ {i} : file'[j] = file[j]
    <2> DEFINE r == [f EXCEPT !.rows = Append(f.rows, a)]
               l == [f EXCEPT !.releases = Append(f.releases, a)]
    <2>1. /\ r \in JournalFile /\ r.identity = f.identity
          /\ r.rows = Append(f.rows, a) /\ r.releases = f.releases
      BY <1>1, <1>4 DEF JournalFile
    <2>2. /\ l \in JournalFile /\ l.identity = f.identity
          /\ l.rows = f.rows /\ l.releases = Append(f.releases, a)
      BY <1>1, <1>4 DEF JournalFile
    <2>3. file' = [file EXCEPT ![i] = r] \/ file' = [file EXCEPT ![i] = l]
      BY <1>3
    <2> HIDE DEF r, l
    <2> QED  BY <1>1, <2>1, <2>2, <2>3 DEF TypeOK
  <1>6. proc' = [proc EXCEPT ![p] = Idle] /\ UNCHANGED <<path, published, enrolled>>
    BY DEF Commit, Set
  <1>7. TypeOK'  BY <1>1, <1>5, <1>6, IdleType DEF TypeOK
  <1>8. CommandInv(p)'
    BY <1>1, <1>6 DEF Idle, TypeOK, CommandInv, OpenInv, IdentityInv, ReadingInv,
                      HistoryInv, MatchInv, Open, Checked, Reading
  <1>9. ASSUME NEW q \in Proc \ {p} PROVE CommandInv(q)'
    <2>1. proc'[q] = proc[q] /\ proc[q] \in Command  BY <1>1, <1>6 DEF TypeOK
    <2>2. CommandInv(q)  BY DEF IdentifiedInv
    <2>3. CASE proc[q].inode # i \/ proc[q].phase \notin Open
      <3>1. proc[q].phase \in Open => File(q)' = File(q)
        BY <1>5, <2>1, <2>2, <2>3 DEF CommandInv, OpenInv, File
      <3> QED
        BY <2>1, <2>2, <3>1 DEF CommandInv, OpenInv, IdentityInv, ReadingInv,
             HistoryInv, MatchInv, Open, Checked, Reading
    <2>4. CASE proc[q].inode = i /\ proc[q].phase \in Open
      <3>1. ~ proc[q].shared  BY <2>4 DEF Commit
      <3>2. proc[q].phase \notin Reading
        BY <2>2, <3>1 DEF CommandInv, ReadingInv
      <3>3. File(q) = f /\ File(q)' = file'[i]  BY <2>1, <2>4 DEF File
      <3>4. HistoryInv(q)'
        <4> SUFFICES ASSUME proc[q].phase \in {"read", "matched"}
                     PROVE  /\ IsPrefix(proc[q].rows, file'[i].rows)
                            /\ IsPrefix(proc[q].releases, file'[i].releases)
          BY <2>1, <3>3 DEF HistoryInv
        <4>1. IsPrefix(proc[q].rows, f.rows) /\ IsPrefix(proc[q].releases, f.releases)
          BY <2>2, <3>3 DEF CommandInv, HistoryInv
        <4>2. proc[q].rows \in Seq(Acceptance) /\ proc[q].releases \in Seq(Acceptance)
          BY <2>1 DEF Command
        <4>3. /\ IsPrefix(proc[q].rows, Append(f.rows, a))
              /\ IsPrefix(proc[q].releases, Append(f.releases, a))
          BY <1>2, <4>1, <4>2, PrefixAppend
        <4> QED  BY <1>5, <4>1, <4>3
      <3>5. IdentityInv(q)'
        BY <1>5, <2>1, <2>2, <3>3 DEF CommandInv, IdentityInv, Identified
      <3> QED
        BY <2>1, <2>2, <2>4, <3>2, <3>4, <3>5
        DEF CommandInv, OpenInv, ReadingInv, MatchInv, Reading
    <2> QED  BY <2>3, <2>4
  <1> QED  BY <1>7, <1>8, <1>9 DEF IdentifiedInv

\* A file that changes its place, or a copy over a file that nobody has open,
\* disturbs no command.
LEMMA PathSteps ==
    ASSUME IdentifiedInv, Replace \/ Copy
    PROVE  IdentifiedInv'
  <1>1. TypeOK /\ proc' = proc  BY DEF IdentifiedInv, Replace, Copy
  <1>2. TypeOK'  BY <1>1 DEF TypeOK, Replace, Copy
  <1>3. ASSUME NEW q \in Proc PROVE CommandInv(q)'
    <2>1. CommandInv(q)  BY DEF IdentifiedInv
    <2>2. proc[q].phase \in Open => File(q)' = File(q)
      BY <1>1, <2>1 DEF CommandInv, OpenInv, File, Replace, Copy, TypeOK
    <2> QED
      BY <1>1, <2>1, <2>2 DEF CommandInv, OpenInv, IdentityInv, ReadingInv,
           HistoryInv, MatchInv, Open, Checked, Reading
  <1> QED  BY <1>2, <1>3 DEF IdentifiedInv

\* The inductive invariant: a command keeps the file it opened, has passed the
\* identity check on it, and what it read is what the file held, of which nothing
\* is lost since (dns_identified_journal.py:46-51, 72-118).
THEOREM IdentifiedInvariant == Spec => []IdentifiedInv
  <1>1. Init => IdentifiedInv  BY InitIdentified
  <1>2. IdentifiedInv /\ [Next]_vars => IdentifiedInv'
    <2> SUFFICES ASSUME IdentifiedInv, [Next]_vars PROVE IdentifiedInv'  OBVIOUS
    <2>1. CASE Next
      <3>1. ASSUME NEW p \in Proc, Step(p) PROVE IdentifiedInv'
        BY <3>1, ReaderSteps, CommitStep DEF Step
      <3> QED  BY <2>1, <3>1, PathSteps DEF Next
    <2>2. CASE UNCHANGED vars
      BY <2>2 DEF vars, IdentifiedInv, TypeOK, CommandInv, OpenInv, IdentityInv,
                  ReadingInv, HistoryInv, MatchInv, File
    <2> QED  BY <2>1, <2>2
  <1> QED  BY <1>1, <1>2, PTL DEF Spec

------------------------------------------------------------------------------
(* What follows                                                             *)

\* Every append of an enrolled command is made to a journal of the enrolled identity,
\* whatever happened to the path (dns_identified_journal.py:72-85).
THEOREM AppendsAreEnrolled == Spec => EnrolledOnly
  <1>1. IdentifiedInv /\ [Next]_vars =>
          [\A p \in Proc : At(p, "writing") /\ proc[p].version = 3
                             /\ file'[proc[p].inode] # File(p)
                           => File(p).identity = Enrolled]_vars
    BY DEF IdentifiedInv, CommandInv, IdentityInv, Identified, Checked, Open, At
  <1> QED  BY <1>1, IdentifiedInvariant, PTL DEF Spec, EnrolledOnly

\* A checkpoint's reads are of one moment: when the last of them has been made, they
\* are together what the file then holds (dns_identified_journal.py:99-118).
THEOREM CheckpointsAreOneMoment == Spec => CheckpointIsOneMoment
  <1>1. ASSUME IdentifiedInv, Next, NEW p \in Proc,
               ~ At(p, "read"), proc'[p].phase = "read"
        PROVE  /\ proc'[p].rows = File(p).rows
               /\ proc'[p].version > 1 => proc'[p].releases = File(p).releases
    <2>1. TypeOK /\ CommandInv(p) /\ proc[p] \in Command
      BY <1>1 DEF IdentifiedInv, TypeOK
    <2>2. ReadRows(p) \/ ReadReleases(p)
      <3>1. PICK q \in Proc : Step(q)  BY <1>1 DEF Next, Replace, Copy, At
      <3>2. \E c : Set(q, c)
        BY <3>1 DEF Step, Construct, Connect, BeginWrite, Commit, BeginRead,
             ReadRows, CheckReleases, ReadReleases, Publish, Enroll, Verify, End
      <3>3. q = p  BY <1>1, <2>1, <3>2 DEF Set, At, TypeOK
      <3>4. Step(p)  BY <3>1, <3>3
      <3>5. ASSUME NEW c, Set(p, c) PROVE proc'[p] = c
        BY <2>1, <3>5 DEF Set, TypeOK
      <3>6. Construct(p) => proc'[p].phase = "constructed"
        BY <3>5 DEF Construct, Idle
      <3>7. /\ Connect(p) => proc'[p].phase = "connected"
            /\ BeginWrite(p) => proc'[p].phase = "writing"
            /\ BeginRead(p) => proc'[p].phase = "reading"
            /\ CheckReleases(p) => proc'[p].phase = "validated"
            /\ Verify(p) => proc'[p].phase = "matched"
        <4>1. Connect(p) => proc'[p] = [proc[p] EXCEPT !.phase = "connected", !.inode = path]
          BY <3>5 DEF Connect
        <4>2. BeginWrite(p) => proc'[p] = [proc[p] EXCEPT !.phase = "writing", !.reserved = TRUE]
          BY <3>5 DEF BeginWrite
        <4>3. BeginRead(p) => proc'[p] = [proc[p] EXCEPT !.phase = "reading", !.shared = TRUE]
          BY <3>5 DEF BeginRead
        <4>4. CheckReleases(p) => proc'[p] = [proc[p] EXCEPT !.phase = "validated"]
          BY <3>5 DEF CheckReleases
        <4>5. Verify(p) => proc'[p] = [proc[p] EXCEPT !.phase = "matched"]
          BY <3>5 DEF Verify
        <4> QED  BY <2>1, <4>1, <4>2, <4>3, <4>4, <4>5 DEF Command
      <3>8. Commit(p) \/ Publish(p) \/ Enroll(p) \/ End(p) => proc'[p] = Idle
        BY <3>5 DEF Commit, Publish, Enroll, End
      <3>9. Idle.phase = "idle"  BY DEF Idle
      <3> QED  BY <1>1, <3>4, <3>6, <3>7, <3>8, <3>9 DEF Step
    <2>3. CASE ReadRows(p)
      BY <1>1, <2>1, <2>3 DEF ReadRows, Set, TypeOK, Command
    <2>4. CASE ReadReleases(p)
      BY <1>1, <2>1, <2>4
      DEF ReadReleases, Set, TypeOK, Command, CommandInv, ReadingInv, At
    <2> QED  BY <2>2, <2>3, <2>4
  <1>2. IdentifiedInv /\ [Next]_vars =>
          [\A p \in Proc : ~ At(p, "read") /\ proc'[p].phase = "read"
                           => /\ proc'[p].rows = File(p).rows
                              /\ proc'[p].version > 1 =>
                                   proc'[p].releases = File(p).releases]_vars
    BY <1>1
  <1> QED  BY <1>2, IdentifiedInvariant, PTL DEF Spec, CheckpointIsOneMoment

\* A checkpoint that matched is one whose whole history the file holds, under the
\* identity it was pinned with (dns_identified_journal.py:136-142).
THEOREM MatchedIsRetained == Spec => []MatchedHasPinned
  <1>1. IdentifiedInv => MatchedHasPinned
    <2> SUFFICES ASSUME IdentifiedInv, NEW p \in Proc, At(p, "matched")
                 PROVE  /\ Identified(proc[p].pin.version, File(p))
                        /\ IsPrefix(proc[p].pin.rows, File(p).rows)
                        /\ IsPrefix(proc[p].pin.releases, File(p).releases)
      BY DEF MatchedHasPinned
    <2>1. CommandInv(p)  BY DEF IdentifiedInv
    <2>2. /\ proc[p].pin.version = proc[p].version
          /\ proc[p].pin.rows = proc[p].rows
          /\ proc[p].pin.releases = proc[p].releases
      BY <2>1 DEF CommandInv, MatchInv, At, Document
    <2> QED
      BY <2>1, <2>2 DEF CommandInv, IdentityInv, HistoryInv, At, Checked, Open
  <1> QED  BY <1>1, IdentifiedInvariant, PTL
==============================================================================
