---------------------------- MODULE JournalCreate ----------------------------
(***************************************************************************)
(* Initialization of a journal file (create of versions 1, 2 and 3) while   *)
(* other init commands want the same path and a register command already    *)
(* tries to use it.                                                         *)
(*                                                                          *)
(* executescript runs its statements one by one, each in its own            *)
(* transaction, so a crash, or a register that holds the write lock when    *)
(* the next statement comes, leaves every prefix of the script behind.      *)
(* SCHEMA sets user_version last.  Version 2 replaces the number in place   *)
(* and appends the release table AFTER it; version 3 appends its identity   *)
(* table too, and inserts the identity row in a last transaction.           *)
(***************************************************************************)
EXTENDS Naturals, Sequences, SequencesExt

CONSTANTS
    Creator,        \* init commands for one path
    User,           \* register commands on that path
    NoOne,          \* nobody
    Versions,       \* the journal versions an init may be of
    MAX_ROWS        \* bound on the rows appended in a behaviour

ASSUME VersionsAssumption == Versions \subseteq 1..3
ASSUME NoOneAssumption == NoOne \notin Creator \cup User

VARIABLES
    version,        \* VERSION of the class whose create runs: 1, 2 or 3
    file,           \* the file at the path
    at,             \* at[c]: where init c is
    user            \* user[u]: where register u is

vars == <<version, file, at, user>>

------------------------------------------------------------------------------
(* The scripts                                                              *)

AcceptanceSql == <<"acceptance_event", "event_no_update", "event_no_delete">>
ReleaseSql == <<"release_event", "release_no_update", "release_no_delete">>
IdentitySql == <<"journal_identity", "identity_no_update", "identity_no_delete">>

\* Mutated form: user_version is set before the tables it stands for.
ScriptVersionFirst ==
    CASE version = 1 -> <<"user_version">> \o AcceptanceSql
      [] version = 2 -> <<"user_version">> \o AcceptanceSql \o ReleaseSql
      [] version = 3 -> <<"user_version">> \o AcceptanceSql \o ReleaseSql
                           \o IdentitySql \o <<"identity_row">>

\* cls.SQL, and for version 3 the INSERT of the identity that follows it.
Script ==
    CASE version = 1 -> AcceptanceSql \o <<"user_version">>
      [] version = 2 -> AcceptanceSql \o <<"user_version">> \o ReleaseSql
      [] version = 3 -> AcceptanceSql \o <<"user_version">> \o ReleaseSql
                           \o IdentitySql \o <<"identity_row">>

\* The append-only triggers a finished journal of this version has.
Triggers ==
    ToSet(Script) \cap
       {"event_no_update", "event_no_delete", "release_no_update",
        "release_no_delete", "identity_no_update", "identity_no_delete"}

\* "ran" counts the statements that have run on the file.
NoFile == [creator |-> NoOne, ran |-> 0, rows |-> 0]

\* A statement of the script has taken effect.
Has(statement) == \E i \in 1..file.ran : Script[i] = statement

Init ==
    /\ version \in Versions
    /\ file = NoFile
    /\ at = [c \in Creator |-> "idle"]
    /\ user = [u \in User |-> "idle"]

Exists == file.creator # NoOne

\* A register holds RESERVED from BEGIN IMMEDIATE to its end.
Locked == \E u \in User : user[u] = "writing"

------------------------------------------------------------------------------
(* create                                                                   *)

\* os.open with O_CREAT and O_EXCL makes the empty file.
Create(c) ==
    /\ at[c] = "idle"
    /\ ~ Exists
    /\ file' = [NoFile EXCEPT !.creator = c]
    /\ at' = [at EXCEPT ![c] = "running"]
    /\ UNCHANGED <<version, user>>

\* Mutated form: the exclusive open stands inside version 3's try block.
CreateExistsUnlinking(c) ==
    /\ at[c] = "idle"
    /\ Exists
    /\ file' = IF version = 3 THEN NoFile ELSE file
    /\ at' = [at EXCEPT ![c] = "failed"]
    /\ UNCHANGED <<version, user>>

\* The path is taken: FileExistsError, before version 3's try block.
CreateExists(c) ==
    /\ at[c] = "idle"
    /\ Exists
    /\ at' = [at EXCEPT ![c] = "failed"]
    /\ UNCHANGED <<version, file, user>>

\* The next statement of the script takes the write lock, commits and is done.
RunStatement(c) ==
    /\ at[c] = "running"
    /\ file.ran < Len(Script)
    /\ ~ Locked
    /\ file' = [file EXCEPT !.ran = @ + 1]
    /\ UNCHANGED <<version, at, user>>

\* A statement fails (the lock is busy, the disk is full): version 3 unlinks the
\* file it made, versions 1 and 2 leave it.
StatementFails(c) ==
    /\ at[c] = "running"
    /\ file.ran < Len(Script)
    /\ file' = IF version = 3 THEN NoFile ELSE file
    /\ at' = [at EXCEPT ![c] = "failed"]
    /\ UNCHANGED <<version, user>>

\* The script is done; cls(path) opens the journal and init prints its success.
Finish(c) ==
    /\ at[c] = "running"
    /\ file.ran = Len(Script)
    /\ at' = [at EXCEPT ![c] = "created"]
    /\ UNCHANGED <<version, file, user>>

\* cls(path) fails to open what was made: version 3 unlinks it, too.
FinishFails(c) ==
    /\ at[c] = "running"
    /\ file.ran = Len(Script)
    /\ file' = IF version = 3 THEN NoFile ELSE file
    /\ at' = [at EXCEPT ![c] = "failed"]
    /\ UNCHANGED <<version, user>>

\* The process dies: no handler runs, whatever the script has done stays.
CrashCreator(c) ==
    /\ at[c] = "running"
    /\ at' = [at EXCEPT ![c] = "failed"]
    /\ UNCHANGED <<version, file, user>>

------------------------------------------------------------------------------
(* register on the path, as far as the schema decides it                    *)

\* _connection before BEGIN: user_version and the acceptance table.
Open(u) ==
    /\ user[u] = "idle"
    /\ Has("user_version") /\ Has("acceptance_event")
    /\ user' = [user EXCEPT ![u] = "opened"]
    /\ UNCHANGED <<version, file, at>>

\* BEGIN IMMEDIATE; then the enrolled identity (version 3) and, with the
\* history, the release table (versions 2 and 3) are required.  The identity is
\* drawn by init and first known outside it when init has printed it.
Begin(u) ==
    /\ user[u] = "opened"
    /\ Exists
    /\ ~ Locked
    /\ version >= 2 => Has("release_event")
    /\ version = 3 => 
          /\ Has("journal_identity") /\ Has("identity_row")
          /\ at[file.creator] = "created"
    /\ user' = [user EXCEPT ![u] = "writing"]
    /\ UNCHANGED <<version, file, at>>

\* The row is inserted and committed.
AppendRow(u) ==
    /\ user[u] = "writing"
    /\ file.rows < MAX_ROWS
    /\ file' = [file EXCEPT !.rows = @ + 1]
    /\ user' = [user EXCEPT ![u] = "idle"]
    /\ UNCHANGED <<version, at>>

\* Any failed check, lock timeout, rollback or death ends the command.
GiveUp(u) ==
    /\ user[u] # "idle"
    /\ user' = [user EXCEPT ![u] = "idle"]
    /\ UNCHANGED <<version, file, at>>

------------------------------------------------------------------------------
Next ==
    \/ \E c \in Creator :
          \/ Create(c) \/ CreateExists(c) \/ RunStatement(c)
          \/ StatementFails(c) \/ Finish(c) \/ FinishFails(c) \/ CrashCreator(c)
    \/ \E u \in User : Open(u) \/ Begin(u) \/ AppendRow(u) \/ GiveUp(u)

Spec == Init /\ [][Next]_vars

------------------------------------------------------------------------------
(* Properties                                                               *)

\* A journal that admits a writing transaction has every append-only trigger of
\* its version ("Append-only triggers prevent ordinary SQL updates/deletes",
\* RESPONSIBILITY.md): no interrupted init leaves a usable, unprotected file.
AdmittedIsProtected ==
    Locked \/ file.rows > 0 => \A trigger \in Triggers : Has(trigger)

\* The same of what is left behind: rows retained in a file no init is still
\* working on are protected.
RetainedIsProtected ==
    /\ file.rows > 0
    /\ \A c \in Creator : at[c] # "running"
    => \A trigger \in Triggers : Has(trigger)

\* "Initialization never ... replaces an existing file": the file a finished
\* init reported stays, complete, whatever other inits do and however they fail.
CreatedStays ==
    \A c \in Creator : at[c] = "created" =>
       /\ file.creator = c
       /\ file.ran = Len(Script)
==============================================================================
