-------------------------- MODULE FileCreationProofs --------------------------
(***************************************************************************)
(* How files come to a path: journals that init makes there, and documents  *)
(* that publish links there.  In both, several processes want one path, and *)
(* only what is complete may be found.                                      *)
(*                                                                          *)
(* A journal file, for any number of init and register commands and every   *)
(* version: only the init that made the file can still be at work on it, so *)
(* nobody else unlinks it.  What a register has seen of the file stays true *)
(* of it in versions 1 and 2, whose files are never unlinked; in version 3, *)
(* whose file may vanish under a register that has opened it, what is       *)
(* admitted rests on the init that has finished.                            *)
(*                                                                          *)
(* A document, for any number of publishers and a power loss at any of      *)
(* their steps: what is linked was synced before and is not written again.  *)
(***************************************************************************)
EXTENDS JournalCreate, Publish, SequenceTheorems, TLAPS

------------------------------------------------------------------------------
(***************************************************************************)
(* Initialization of a journal (JournalCreate)                             *)
(***************************************************************************)

(* The inductive invariant                                                  *)

TypeOK ==
    /\ version \in Versions
    /\ file \in [creator : Creator \cup {NoOne}, ran : 0..Len(Script), rows : Nat]
    /\ at \in [Creator -> {"idle", "running", "created", "failed"}]
    /\ user \in [User -> {"idle", "opened", "writing"}]

\* An absent file holds nothing.
AbsentIsEmpty == ~ Exists => file = NoFile

\* Whoever is at work on the file, or has finished it, made it.
OneMaker == \A c \in Creator : at[c] \in {"running", "created"} => file.creator = c

FinishedIsWhole == \A c \in Creator : at[c] = "created" => file.ran = Len(Script)

\* What a register saw when it opened the file is still so, but in version 3.
OpenedStays == \A u \in User : user[u] # "idle" => version = 3 \/ Has("user_version")

\* What a transaction needs has been there ever since the first one.
Admitted ==
    Locked \/ file.rows > 0 =>
      /\ Exists /\ Has("user_version")
      /\ version >= 2 => Has("release_event")
      /\ version = 3 => at[file.creator] = "created"

IInv == TypeOK /\ AbsentIsEmpty /\ OneMaker /\ FinishedIsWhole /\ OpenedStays /\ Admitted

------------------------------------------------------------------------------
(* The scripts                                                              *)

Statement ==
    {"acceptance_event", "event_no_update", "event_no_delete", "user_version",
     "release_event", "release_no_update", "release_no_delete",
     "journal_identity", "identity_no_update", "identity_no_delete", "identity_row"}

\* The first statements of a script, and where "user_version" stands in it
Runs(s, n) ==
    /\ s \in Seq(Statement) /\ Len(s) = n
    /\ s[2] = "event_no_update" /\ s[3] = "event_no_delete"
    /\ n >= 4 /\ \A i \in 1..n : s[i] = "user_version" <=> i = 4

LEMMA Followed ==
    ASSUME NEW s, NEW n \in Nat, Runs(s, n),
           NEW t \in Seq(Statement), \A i \in DOMAIN t : t[i] # "user_version"
    PROVE  Runs(s \o t, n + Len(t))
  <1>1. /\ s \in Seq(Statement) /\ Len(s) = n
        /\ Len(t) \in Nat /\ DOMAIN t = 1..Len(t)
    BY LenProperties DEF Runs
  <1>2. /\ s \o t \in Seq(Statement) /\ Len(s \o t) = n + Len(t)
        /\ \A i \in 1..(n + Len(t)) : (s \o t)[i] = IF i <= n THEN s[i] ELSE t[i - n]
    BY <1>1, ConcatProperties
  <1>3. n >= 4 /\ (s \o t)[2] = s[2] /\ (s \o t)[3] = s[3]
    BY <1>1, <1>2 DEF Runs
  <1>4. ASSUME NEW i \in 1..(n + Len(t)) PROVE (s \o t)[i] = "user_version" <=> i = 4
    <2>1. CASE i <= n
      BY <1>2, <2>1 DEF Runs
    <2>2. CASE i > n
      <3>1. i - n \in DOMAIN t /\ (s \o t)[i] = t[i - n]
        BY <1>1, <1>2, <2>2
      <3> QED  BY <1>3, <2>2, <3>1
    <2> QED  BY <1>1, <2>1, <2>2
  <1> QED  BY <1>2, <1>3, <1>4 DEF Runs

\* Every script begins with the acceptance table, its triggers and user_version.
LEMMA Scripts ==
    ASSUME version \in Versions
    PROVE  Runs(Script, CASE version = 1 -> 4 [] version = 2 -> 7 [] version = 3 -> 11)
  <1> DEFINE Accepting == AcceptanceSql \o <<"user_version">>
             Releasing == Accepting \o ReleaseSql
             Identifying == Releasing \o IdentitySql
  <1>1. Runs(Accepting, 4)
    <2>1. /\ AcceptanceSql \in Seq(Statement) /\ Len(AcceptanceSql) = 3
          /\ AcceptanceSql[1] = "acceptance_event"
          /\ AcceptanceSql[2] = "event_no_update" /\ AcceptanceSql[3] = "event_no_delete"
      BY DEF AcceptanceSql, Statement
    <2>2. <<"user_version">> \in Seq(Statement) /\ Len(<<"user_version">>) = 1
      BY DEF Statement
    <2>3. /\ Accepting \in Seq(Statement) /\ Len(Accepting) = 4
          /\ \A i \in 1..3 : Accepting[i] = AcceptanceSql[i]
          /\ Accepting[4] = "user_version"
      <3> DEFINE last == <<"user_version">>
      <3>1. last \in Seq(Statement) /\ Len(last) = 1 /\ last[1] = "user_version"
        BY <2>2
      <3> HIDE DEF last
      <3>2. /\ AcceptanceSql \o last \in Seq(Statement) /\ Len(AcceptanceSql \o last) = 4
            /\ \A i \in 1..3 : (AcceptanceSql \o last)[i] = AcceptanceSql[i]
            /\ (AcceptanceSql \o last)[4] = last[1]
        BY <2>1, <3>1, ConcatProperties
      <3> QED  BY <3>1, <3>2 DEF last
    <2> HIDE DEF Accepting
    <2>4. \A i \in 1..4 : i \in 1..3 \/ i = 4
      OBVIOUS
    <2>5. \A i \in 1..3 : AcceptanceSql[i] # "user_version"
      BY DEF AcceptanceSql
    <2> QED  BY <2>1, <2>3, <2>4, <2>5 DEF Runs
  <1> HIDE DEF Accepting
  <1>2. Runs(Releasing, 7)
    <2>1. /\ ReleaseSql \in Seq(Statement) /\ Len(ReleaseSql) = 3
          /\ \A i \in DOMAIN ReleaseSql : ReleaseSql[i] # "user_version"
      BY DEF ReleaseSql, Statement
    <2>2. 4 + 3 = 7 /\ 4 \in Nat
      OBVIOUS
    <2> QED  BY <1>1, <2>1, <2>2, Followed
  <1> HIDE DEF Releasing
  <1>3. Runs(Identifying, 10)
    <2>1. /\ IdentitySql \in Seq(Statement) /\ Len(IdentitySql) = 3
          /\ \A i \in DOMAIN IdentitySql : IdentitySql[i] # "user_version"
      BY DEF IdentitySql, Statement
    <2>2. 7 + 3 = 10 /\ 7 \in Nat
      OBVIOUS
    <2> QED  BY <1>2, <2>1, <2>2, Followed
  <1> HIDE DEF Identifying
  <1>4. Runs(Identifying \o <<"identity_row">>, 11)
    <2>1. /\ <<"identity_row">> \in Seq(Statement) /\ Len(<<"identity_row">>) = 1
          /\ \A i \in DOMAIN <<"identity_row">> : <<"identity_row">>[i] # "user_version"
      BY DEF Statement
    <2>2. 10 + 1 = 11 /\ 10 \in Nat
      OBVIOUS
    <2> QED  BY <1>3, <2>1, <2>2, Followed
  <1>5. version \in {1, 2, 3}
    BY VersionsAssumption
  <1>6. Script = CASE version = 1 -> Accepting [] version = 2 -> Releasing
                   [] version = 3 -> Identifying \o <<"identity_row">>
    BY DEF Script, Accepting, Releasing, Identifying
  <1> QED  BY <1>1, <1>2, <1>4, <1>5, <1>6

\* The script as the steps use it
LEMMA ScriptFacts ==
    ASSUME TypeOK
    PROVE  /\ Len(Script) \in Nat /\ Len(Script) >= 4 /\ DOMAIN Script = 1..Len(Script)
           /\ version = 1 => Len(Script) = 4
           /\ Script[2] = "event_no_update" /\ Script[3] = "event_no_delete"
           /\ \A i \in 1..Len(Script) : Script[i] = "user_version" <=> i = 4
           /\ file.ran \in Nat /\ file.ran <= Len(Script)
  <1>1. version \in Versions /\ version \in {1, 2, 3}
    BY VersionsAssumption DEF TypeOK
  <1>2. PICK n \in {4, 7, 11} : Runs(Script, n) /\ (version = 1 => n = 4)
    BY <1>1, Scripts
  <1>3. Script \in Seq(Statement) /\ Len(Script) = n
    BY <1>2 DEF Runs
  <1>4. DOMAIN Script = 1..Len(Script)
    BY <1>3, LenProperties
  <1>5. file.ran \in 0..Len(Script)
    BY DEF TypeOK
  <1> QED  BY <1>2, <1>3, <1>4, <1>5 DEF Runs

\* The script is that of the version, which no step changes.
LEMMA ScriptStays == version' = version => Script' = Script
  BY DEF Script

\* A statement that has taken effect stays so while the file does.
LEMMA HasStays ==
    ASSUME TypeOK, version' = version, file'.ran \in Nat, file.ran <= file'.ran, NEW s, Has(s)
    PROVE  Has(s)'
  BY ScriptStays, ScriptFacts DEF Has

------------------------------------------------------------------------------
(* The steps                                                                *)

LEMMA InitInvariant == Init => IInv
  <1> SUFFICES ASSUME Init PROVE IInv
    OBVIOUS
  <1>1. version \in Versions /\ file = NoFile
    BY DEF Init
  <1>2. 0 \in 0..Len(Script)
    <2>1. Len(Script) \in Nat
      BY <1>1, Scripts, LenProperties DEF Runs
    <2> QED  BY <2>1
  <1> QED
    BY <1>1, <1>2 DEF Init, NoFile, IInv, TypeOK, AbsentIsEmpty, OneMaker, FinishedIsWhole,
         OpenedStays, Admitted, Locked, Exists

\* A new file: there was none, so nobody is at work and nothing was admitted.
LEMMA CreateStep ==
    ASSUME IInv, NEW c \in Creator, Create(c)
    PROVE  IInv'
  <1>1. /\ version' = version /\ user' = user /\ Script' = Script
        /\ file = NoFile /\ file' = [creator |-> c, ran |-> 0, rows |-> 0]
        /\ at' = [at EXCEPT ![c] = "running"]
    BY ScriptStays DEF IInv, AbsentIsEmpty, Create, NoFile
  <1>2. c # NoOne /\ file.creator = NoOne /\ \A d \in Creator : d # NoOne
    BY <1>1, NoOneAssumption DEF NoFile
  <1>3. \A d \in Creator : at[d] \notin {"running", "created"}
    BY <1>2 DEF IInv, OneMaker
  <1>4. TypeOK'
    BY <1>1, ScriptFacts DEF IInv, TypeOK
  <1>5. ~ Locked /\ file.rows = 0 /\ ~ Has("user_version")
    <2>1. file.ran = 0 /\ file.rows = 0
      BY <1>1 DEF NoFile
    <2> QED  BY <1>2, <2>1 DEF Has, IInv, Admitted, Exists
  <1>6. AbsentIsEmpty' /\ OneMaker' /\ FinishedIsWhole'
    BY <1>1, <1>2, <1>3 DEF AbsentIsEmpty, OneMaker, FinishedIsWhole, Exists, IInv, TypeOK
  <1>7. OpenedStays' /\ Admitted'
    BY <1>1, <1>5 DEF IInv, OpenedStays, Admitted, Locked
  <1> QED  BY <1>4, <1>6, <1>7 DEF IInv

\* A failed or dead init: the file stays as it is.
LEMMA LeaveStep ==
    ASSUME IInv, NEW c \in Creator, at[c] \in {"idle", "running"},
           at' = [at EXCEPT ![c] = "failed"], UNCHANGED <<version, file, user>>
    PROVE  IInv'
  <1>1. Script' = Script /\ TypeOK'
    BY ScriptStays DEF IInv, TypeOK
  <1>2. AbsentIsEmpty' /\ OneMaker' /\ FinishedIsWhole' /\ OpenedStays'
    BY <1>1 DEF IInv, TypeOK, AbsentIsEmpty, OneMaker, FinishedIsWhole, OpenedStays, Exists, Has
  <1>3. Admitted'
    <2>1. \A d : at[d] = "created" => d # c
      OBVIOUS
    <2>2. version = 3 /\ (Locked \/ file.rows > 0)
            => file.creator \in Creator /\ at'[file.creator] = "created"
      BY <2>1 DEF IInv, TypeOK, Admitted, Exists
    <2> QED  BY <1>1, <2>2 DEF IInv, Admitted, Exists, Has, Locked
  <1> QED  BY <1>1, <1>2, <1>3 DEF IInv

\* Version 3 unlinks what it made: nothing was admitted to it, for it was not
\* finished, and no other init is at work on it.
LEMMA UnlinkStep ==
    ASSUME IInv, NEW c \in Creator, at[c] = "running", version = 3, file' = NoFile,
           at' = [at EXCEPT ![c] = "failed"], UNCHANGED <<version, user>>
    PROVE  IInv'
  <1>1. Script' = Script /\ TypeOK'
    BY ScriptStays, ScriptFacts DEF IInv, TypeOK, NoFile
  <1>2. \A d \in Creator : at[d] \in {"running", "created"} => d = c
    BY DEF IInv, OneMaker
  <1>3. ~ Locked
    BY <1>2 DEF IInv, TypeOK, Admitted, Exists
  <1>4. AbsentIsEmpty' /\ OneMaker' /\ FinishedIsWhole' /\ OpenedStays'
    BY <1>1, <1>2 DEF IInv, TypeOK, AbsentIsEmpty, OneMaker, FinishedIsWhole, OpenedStays
  <1>5. Admitted'
    BY <1>3 DEF Admitted, Locked, NoFile
  <1> QED  BY <1>1, <1>4, <1>5 DEF IInv

LEMMA RunStep ==
    ASSUME IInv, NEW c \in Creator, RunStatement(c)
    PROVE  IInv'
  <1>1. /\ version' = version /\ at' = at /\ user' = user /\ Script' = Script
        /\ file.ran \in Nat /\ Len(Script) \in Nat /\ file.ran < Len(Script)
        /\ file' = [file EXCEPT !.ran = file.ran + 1]
    BY ScriptStays, ScriptFacts DEF RunStatement, IInv
  <1>2. /\ file'.creator = file.creator /\ file'.rows = file.rows
        /\ file'.ran = file.ran + 1
    BY <1>1 DEF IInv, TypeOK
  <1>3. TypeOK'
    BY <1>1 DEF IInv, TypeOK
  <1>4. file.creator = c /\ c # NoOne
    BY NoOneAssumption DEF RunStatement, IInv, OneMaker
  <1>5. AbsentIsEmpty' /\ OneMaker' /\ FinishedIsWhole'
    BY <1>1, <1>2, <1>4 DEF IInv, AbsentIsEmpty, OneMaker, FinishedIsWhole, Exists
  <1>6. \A s : Has(s) => Has(s)'
    BY <1>1, <1>2, HasStays DEF IInv
  <1>7. OpenedStays' /\ Admitted'
    BY <1>1, <1>2, <1>6 DEF IInv, OpenedStays, Admitted, Locked, Exists
  <1> QED  BY <1>3, <1>5, <1>7 DEF IInv

LEMMA FinishStep ==
    ASSUME IInv, NEW c \in Creator, Finish(c)
    PROVE  IInv'
  <1>1. /\ Script' = Script /\ version' = version /\ file' = file /\ user' = user
        /\ at' = [at EXCEPT ![c] = "created"] /\ at[c] = "running" /\ file.ran = Len(Script)
    BY ScriptStays DEF Finish
  <1>2. TypeOK' /\ file.creator = c
    BY <1>1 DEF IInv, TypeOK, OneMaker
  <1> QED
    BY <1>1, <1>2 DEF IInv, TypeOK, AbsentIsEmpty, OneMaker, FinishedIsWhole, OpenedStays,
         Admitted, Locked, Exists, Has

\* Both endings of a failed init
LEMMA FailStep ==
    ASSUME IInv, NEW c \in Creator, StatementFails(c) \/ FinishFails(c)
    PROVE  IInv'
  BY LeaveStep, UnlinkStep DEF StatementFails, FinishFails

\* A register's steps leave the inits alone.
LEMMA UserStep ==
    ASSUME IInv, NEW u \in User, Open(u) \/ Begin(u) \/ AppendRow(u) \/ GiveUp(u)
    PROVE  IInv'
  <1>1. /\ version' = version /\ at' = at /\ Script' = Script
        /\ file'.creator = file.creator /\ file'.ran = file.ran
        /\ file \in [creator : Creator \cup {NoOne}, ran : 0..Len(Script), rows : Nat]
        /\ \A s : Has(s)' <=> Has(s)
    <2>1. version' = version /\ at' = at /\ Script' = Script
      BY ScriptStays DEF Open, Begin, AppendRow, GiveUp
    <2>2. file \in [creator : Creator \cup {NoOne}, ran : 0..Len(Script), rows : Nat]
      BY DEF IInv, TypeOK
    <2>3. file'.creator = file.creator /\ file'.ran = file.ran
      BY <2>2 DEF Open, Begin, AppendRow, GiveUp
    <2> QED  BY <2>1, <2>2, <2>3 DEF Has
  <1>2. TypeOK'
    BY <1>1 DEF IInv, TypeOK, Open, Begin, AppendRow, GiveUp
  <1>3. AbsentIsEmpty'
    BY <1>1 DEF IInv, AbsentIsEmpty, Admitted, Exists, Locked, Open, Begin, AppendRow, GiveUp
  <1>4. OneMaker' /\ FinishedIsWhole'
    BY <1>1 DEF IInv, OneMaker, FinishedIsWhole
  <1>5. OpenedStays'
    <2> SUFFICES ASSUME NEW w \in User, user'[w] # "idle", version # 3
                 PROVE  Has("user_version")
      BY <1>1 DEF OpenedStays
    <2>1. user[w] # "idle" \/ Open(u)
      BY DEF IInv, TypeOK, Begin, AppendRow, GiveUp
    <2> QED  BY <2>1 DEF IInv, OpenedStays, Open
  <1>6. Admitted'
    <2>1. CASE Begin(u)
      <3>1. Exists /\ (version >= 2 => Has("release_event"))
            /\ (version = 3 => at[file.creator] = "created")
        BY <2>1 DEF Begin
      <3>2. Has("user_version")
        <4>1. CASE version # 3
          BY <2>1, <4>1 DEF IInv, OpenedStays, Begin
        <4>2. CASE version = 3
          <5>1. file.ran = Len(Script)
            BY <1>1, <3>1, <4>2 DEF IInv, FinishedIsWhole, Exists
          <5>2. \E i \in 1..Len(Script) : Script[i] = "user_version"
            BY ScriptFacts DEF IInv
          <5> QED  BY <5>1, <5>2 DEF Has
        <4> QED  BY <4>1, <4>2
      <3> QED  BY <1>1, <3>1, <3>2 DEF Admitted, Exists
    <2>2. CASE Open(u) \/ AppendRow(u) \/ GiveUp(u)
      <3>1. Locked' \/ file'.rows > 0 => Locked \/ file.rows > 0
        BY <1>1, <2>2 DEF IInv, TypeOK, Locked, Open, AppendRow, GiveUp
      <3> QED  BY <1>1, <3>1 DEF IInv, Admitted, Exists
    <2> QED  BY <2>1, <2>2
  <1> QED  BY <1>2, <1>3, <1>4, <1>5, <1>6 DEF IInv

LEMMA StepInvariant == IInv /\ [Next]_vars => IInv'
  <1> SUFFICES ASSUME IInv, [Next]_vars PROVE IInv'
    OBVIOUS
  <1>1. CASE UNCHANGED vars
    BY <1>1 DEF vars, IInv, TypeOK, Script, AbsentIsEmpty, OneMaker, FinishedIsWhole, OpenedStays,
         Admitted, Locked, Exists, Has
  <1>2. ASSUME NEW c \in Creator, CreateExists(c) \/ CrashCreator(c)
        PROVE  IInv'
    BY <1>2, LeaveStep DEF CreateExists, CrashCreator
  <1> QED
    BY <1>1, <1>2, CreateStep, RunStep, FailStep, FinishStep, UserStep DEF Next

------------------------------------------------------------------------------
(* The theorems                                                             *)

\* Only the init that made the file is at work on it, and a transaction finds what
\* it needs (dns_assignment_journal.py:124-161, dns_identified_journal.py:53-85).
THEOREM Invariant == Spec => []IInv
  BY InitInvariant, StepInvariant, PTL DEF Spec

\* The file of a finished init stays, whole, in every version
\* (dns_assignment_journal.py:128, dns_identified_journal.py:58-70).
THEOREM FinishedStays == Spec => []CreatedStays
  <1>1. IInv => CreatedStays
    BY DEF IInv, OneMaker, FinishedIsWhole, CreatedStays
  <1> QED  BY <1>1, Invariant, PTL

\* In versions 1 and 3 whatever a journal admits is protected by every trigger of
\* the version: user_version is the last statement of the one, and the other
\* admits nothing before its init has finished (dns_assignment_journal.py:34-38,
\* dns_identified_journal.py:21-27, 72-85).
THEOREM AdmissionsProtected == Versions \subseteq {1, 3} => (Spec => []AdmittedIsProtected)
  <1> SUFFICES ASSUME Versions \subseteq {1, 3} PROVE Spec => []AdmittedIsProtected
    OBVIOUS
  <1>1. ASSUME IInv, Locked \/ file.rows > 0 PROVE \A trigger \in Triggers : Has(trigger)
    <2>1. version \in {1, 3} /\ Exists /\ Has("user_version")
      BY <1>1 DEF IInv, TypeOK, Admitted
    <2>2. file.ran = Len(Script)
      <3>1. CASE version = 1
        BY <2>1, <3>1, <1>1, ScriptFacts DEF IInv, Has
      <3>2. CASE version = 3
        BY <1>1, <2>1, <3>2 DEF IInv, TypeOK, Admitted, FinishedIsWhole, Exists
      <3> QED  BY <2>1, <3>1, <3>2
    <2>3. \A i \in DOMAIN Script : Has(Script[i])
      BY <1>1, <2>2, ScriptFacts DEF IInv, Has
    <2> QED  BY <2>3 DEF Triggers, ToSet
  <1>2. IInv => AdmittedIsProtected
    BY <1>1 DEF AdmittedIsProtected
  <1> QED  BY <1>2, Invariant, PTL

\* In every version, 2 too, the acceptance table that a transaction writes to has
\* its triggers; what version 2 may lack is those of the release table, which come
\* after user_version (dns_assignment_journal.py:34-38, dns_assignment_lifecycle.py:70-72).
AcceptanceProtected ==
    Locked \/ file.rows > 0 => Has("event_no_update") /\ Has("event_no_delete")

THEOREM AcceptancesProtected == Spec => []AcceptanceProtected
  <1>1. IInv => AcceptanceProtected
    <2> SUFFICES ASSUME IInv, Locked \/ file.rows > 0
                 PROVE  Has("event_no_update") /\ Has("event_no_delete")
      BY DEF AcceptanceProtected
    <2>1. file.ran >= 4
      BY ScriptFacts DEF IInv, Admitted, Has
    <2> QED  BY <2>1, ScriptFacts DEF IInv, Has
  <1> QED  BY <1>1, Invariant, PTL

------------------------------------------------------------------------------
(***************************************************************************)
(* Publication of a document (Publish)                                     *)
(***************************************************************************)

PublishTypeOK ==
    /\ path \in Publisher \cup {NoDocument}
    /\ temporary \subseteq Publisher
    /\ content \in [Publisher -> {"none", "empty", "written", "synced", "torn"}]
    /\ pc \in [Publisher -> {"idle", "opened", "written", "synced", "linked", "failing",
                             "succeeded", "failed", "dead"}]
    /\ outage \in BOOLEAN

\* What is linked was synced before, and is not written again: the publisher that
\* the path names has come past its link.
Linked ==
    /\ \A p \in Publisher :
         /\ pc[p] \in {"synced", "linked"} => content[p] = "synced"
         /\ pc[p] = "linked" => path = p
         /\ path = p => pc[p] \in {"linked", "succeeded", "dead"}
    /\ WholeAtPath

PublishInv == PublishTypeOK /\ Linked /\ SuccessIsOwn /\ NoLitter

LEMMA PublishInitStep == PublishInit => PublishInv
  BY NoDocumentAssumption
     DEF PublishInit, PublishInv, PublishTypeOK, Linked, WholeAtPath, SuccessIsOwn, NoLitter

\* The steps before the link change a file that no path names.
LEMMA WriteSteps ==
    ASSUME PublishInv, NEW p \in Publisher, OpenTemporary(p) \/ Write(p) \/ Sync(p)
    PROVE  PublishInv'
  <1>1. path # p
    BY DEF PublishInv, Linked, PublishTypeOK, OpenTemporary, Write, Sync
  <1>2. PublishTypeOK'
    BY DEF PublishInv, PublishTypeOK, OpenTemporary, Write, Sync, Goto
  <1>3. /\ path' = path /\ outage' = outage
        /\ \A q \in Publisher \ {p} : pc'[q] = pc[q] /\ content'[q] = content[q]
        /\ pc'[p] \in {"opened", "written", "synced"}
        /\ pc'[p] = "synced" => content'[p] = "synced"
        /\ temporary' \subseteq temporary \cup {p}
    BY DEF PublishInv, PublishTypeOK, OpenTemporary, Write, Sync, Goto
  <1>4. Linked'
    BY <1>1, <1>2, <1>3 DEF PublishInv, Linked, WholeAtPath, PublishTypeOK
  <1>5. SuccessIsOwn' /\ NoLitter'
    BY <1>3 DEF PublishInv, SuccessIsOwn, NoLitter
  <1> QED  BY <1>2, <1>4, <1>5 DEF PublishInv

\* The link names a file whose data is on disk.
LEMMA LinkStep ==
    ASSUME PublishInv, NEW p \in Publisher, Link(p)
    PROVE  PublishInv'
  <1>1. /\ path = NoDocument /\ path' = p /\ content' = content /\ content[p] = "synced"
        /\ temporary' = temporary /\ outage' = outage
        /\ pc'[p] = "linked" /\ \A q \in Publisher \ {p} : pc'[q] = pc[q]
    BY DEF PublishInv, PublishTypeOK, Linked, Link, Goto
  <1>2. PublishTypeOK'  BY DEF PublishInv, PublishTypeOK, Link, Goto
  <1>3. \A q \in Publisher : q # NoDocument  BY NoDocumentAssumption
  <1>4. Linked'
    BY <1>1, <1>3 DEF PublishInv, Linked, WholeAtPath
  <1>5. SuccessIsOwn' /\ NoLitter'
    BY <1>1, <1>3 DEF PublishInv, SuccessIsOwn, NoLitter
  <1> QED  BY <1>2, <1>4, <1>5 DEF PublishInv

\* The end of a publish, whichever way, leaves the path alone.
LEMMA EndSteps ==
    ASSUME PublishInv, NEW p \in Publisher, Fail(p) \/ Unlink(p) \/ Crash(p)
    PROVE  PublishInv'
  <1>1. /\ path' = path /\ content' = content /\ outage' = outage
        /\ temporary' \subseteq temporary
        /\ \A q \in Publisher \ {p} : pc'[q] = pc[q]
        /\ pc'[p] \in {"failing", "succeeded", "failed", "dead"}
        /\ pc'[p] = "failing" => pc[p] \in {"opened", "written", "synced"}
        /\ pc'[p] = "succeeded" => pc[p] = "linked"
        /\ pc'[p] = "failed" => pc[p] = "failing"
        /\ pc'[p] \in {"succeeded", "failed"} => p \notin temporary'
    BY DEF PublishInv, PublishTypeOK, Fail, Unlink, Crash, Goto
  <1>2. PublishTypeOK'  BY DEF PublishInv, PublishTypeOK, Fail, Unlink, Crash, Goto
  <1>3. Linked'
    BY <1>1 DEF PublishInv, Linked, WholeAtPath
  <1>4. SuccessIsOwn' /\ NoLitter'
    BY <1>1 DEF PublishInv, Linked, SuccessIsOwn, NoLitter
  <1> QED  BY <1>2, <1>3, <1>4 DEF PublishInv

\* A power loss tears only what no path names.
LEMMA PowerLossStep == ASSUME PublishInv, PowerLoss PROVE PublishInv'
  <1>1. /\ path' \in {path, NoDocument} /\ temporary' \subseteq temporary /\ outage' = TRUE
        /\ \A q \in Publisher :
             /\ pc'[q] = IF Ended(q) THEN pc[q] ELSE "dead"
             /\ content[q] = "synced" => content'[q] = "synced"
    BY DEF PublishInv, PublishTypeOK, PowerLoss
  <1>2. PublishTypeOK'
    <2>1. content' \in [Publisher -> {"none", "empty", "written", "synced", "torn"}]
      BY DEF PublishInv, PublishTypeOK, PowerLoss
    <2>2. pc' \in [Publisher -> {"idle", "opened", "written", "synced", "linked", "failing",
                                 "succeeded", "failed", "dead"}]
      BY DEF PublishInv, PublishTypeOK, PowerLoss
    <2> QED  BY <1>1, <2>1, <2>2 DEF PublishInv, PublishTypeOK
  <1>3. Linked'
    BY <1>1, NoDocumentAssumption DEF PublishInv, PublishTypeOK, Linked, WholeAtPath, Ended
  <1>4. SuccessIsOwn' /\ NoLitter'
    BY <1>1 DEF PublishInv, SuccessIsOwn, NoLitter, Ended
  <1> QED  BY <1>2, <1>3, <1>4 DEF PublishInv

\* The inductive invariant (dns_review.py:159-171).
THEOREM PublishInvariant == PublishSpec => []PublishInv
  <1>1. ASSUME PublishInv, [PublishNext]_publishVars PROVE PublishInv'
    <2>1. CASE PublishNext
      BY <1>1, <2>1, WriteSteps, LinkStep, EndSteps, PowerLossStep DEF PublishNext
    <2>2. CASE UNCHANGED publishVars
      BY <1>1, <2>2
         DEF publishVars, PublishInv, PublishTypeOK, Linked, WholeAtPath, SuccessIsOwn, NoLitter
    <2> QED  BY <1>1, <2>1, <2>2
  <1> QED  BY PublishInitStep, <1>1, PTL DEF PublishSpec

\* Whoever opens the path finds nothing or one whole document: its name is made
\* after its data has been synced, and power loss tears no synced data.
THEOREM PathIsWhole == PublishSpec => []WholeAtPath
  <1>1. PublishInv => WholeAtPath  BY DEF PublishInv, Linked
  <1> QED  BY PublishInvariant, <1>1, PTL

\* A publish that returned has its own document at the path, unless power was lost.
THEOREM SuccessOwnsPath == PublishSpec => []SuccessIsOwn
  <1>1. PublishInv => SuccessIsOwn  BY DEF PublishInv
  <1> QED  BY PublishInvariant, <1>1, PTL

\* A publish that returned or raised has left no temporary copy.
THEOREM NothingLeft == PublishSpec => []NoLitter
  <1>1. PublishInv => NoLitter  BY DEF PublishInv
  <1> QED  BY PublishInvariant, <1>1, PTL

\* The first document at the path stays there, whoever publishes afterwards.
THEOREM FirstDocumentStays == PublishSpec => FirstStays
  <1>1. ASSUME PublishInv, [PublishNext]_publishVars
        PROVE  [path # NoDocument => path' = path \/ (outage' /\ ~ outage)]_publishVars
    BY <1>1 DEF PublishNext, OpenTemporary, Write, Sync, Link, Fail, Unlink, Crash, PowerLoss,
         publishVars
  <1> QED  BY PublishInvariant, <1>1, PTL DEF PublishSpec, FirstStays
==============================================================================
