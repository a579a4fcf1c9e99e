---------------------------- MODULE JournalCommand ----------------------------
(***************************************************************************)
(* The life of one command on a journal, shared by the journal versions:    *)
(* AssignmentJournal._connection and the part of main around it.            *)
(* A writing command goes idle, verified, deciding, inserted, committing,   *)
(* done; a summary goes idle, reading.  Every lock wait may give up, and    *)
(* the process may die at any step.                                         *)
(***************************************************************************)
EXTENDS SqliteStore

CONSTANTS
    NoRequest       \* req of a process with no verified request

VARIABLES
    pc,             \* where each command is
    req,            \* what the command was asked, verified before the lock
    answer          \* the answer a writing command is about to print

commandVars == <<storeVars, pc, req, answer>>

Steps == {"idle", "verified", "deciding", "inserted", "committing", "done", "reading"}

CommandInit(empty) ==
    /\ StoreInit(empty)
    /\ pc = [p \in Proc |-> "idle"]
    /\ req = [p \in Proc |-> NoRequest]
    /\ answer = [p \in Proc |-> "none"]

Goto(p, step) == pc' = [pc EXCEPT ![p] = step]

\* The command ends, with or without success: nothing of it is left but the file.
Leave(p) ==
    /\ Goto(p, "idle")
    /\ req' = [req EXCEPT ![p] = NoRequest]
    /\ answer' = [answer EXCEPT ![p] = "none"]

\* The arguments are read and what can be checked without the journal holds.
\* A command that fails these checks ends with nothing changed.
Start(p, requests) ==
    /\ pc[p] = "idle"
    /\ \E q \in requests : req' = [req EXCEPT ![p] = q]
    /\ Goto(p, "verified")
    /\ UNCHANGED <<storeVars, answer>>

BeginUnlocked(p) ==
    /\ pc[p] = "verified"
    /\ BeginDeferred(p)
    /\ Goto(p, "deciding")
    /\ UNCHANGED <<req, answer>>

\* _connection(write=True) reaches BEGIN IMMEDIATE and gets the lock.
Begin(p) ==
    /\ pc[p] = "verified"
    /\ BeginImmediate(p)
    /\ Goto(p, "deciding")
    /\ UNCHANGED <<req, answer>>

WaitsForever(p) == FALSE

\* The busy timeout ends while another transaction holds the lock.
BeginBusy(p) ==
    /\ pc[p] = "verified"
    /\ reserved # {}
    /\ Leave(p)
    /\ UNCHANGED storeVars

\* A decision to write: the transaction's database becomes "value".
DecideWrite(p, value) ==
    /\ pc[p] = "deciding"
    /\ Write(p, value)
    /\ Goto(p, "inserted")
    /\ UNCHANGED <<req, answer>>

\* A decision to answer from the history: the transaction ends empty.
DecideAnswer(p, result) ==
    /\ pc[p] = "deciding"
    /\ answer' = [answer EXCEPT ![p] = result]
    /\ Goto(p, "done")
    /\ Abandon(p)
    /\ UNCHANGED req

\* Mutated form: the command ends without closing its connection.
DecideRefuseUnclosed(p) ==
    /\ pc[p] = "deciding"
    /\ Leave(p)
    /\ UNCHANGED storeVars

\* Any raised error rolls the transaction back and ends the command.
DecideRefuse(p) ==
    /\ pc[p] = "deciding"
    /\ Leave(p)
    /\ Abandon(p)

\* Leaving "with connection" commits: PENDING first,
StartCommit(p) ==
    /\ pc[p] = "inserted"
    /\ Pend(p)
    /\ Goto(p, "committing")
    /\ UNCHANGED <<req, answer>>

\* then EXCLUSIVE once the readers are gone.
Commit(p, result) ==
    /\ pc[p] = "committing"
    /\ CommitExclusive(p)
    /\ answer' = [answer EXCEPT ![p] = result]
    /\ Goto(p, "done")
    /\ UNCHANGED req

\* A reader outlasts the busy timeout: rolled back, and the command fails.
CommitBusy(p) ==
    /\ pc[p] = "committing"
    /\ shared # {}
    /\ Leave(p)
    /\ Abandon(p)

\* main prints the answer and exits.
Reply(p) ==
    /\ pc[p] = "done"
    /\ Leave(p)
    /\ UNCHANGED storeVars

StartSummaryUnlocked(p) ==
    /\ pc[p] = "idle"
    /\ AutocommitRead(p)
    /\ Goto(p, "reading")
    /\ UNCHANGED <<req, answer>>

\* BEGIN and the first SELECT of a read-only connection.
StartSummary(p) ==
    /\ pc[p] = "idle"
    /\ BeginRead(p)
    /\ Goto(p, "reading")
    /\ UNCHANGED <<req, answer>>

\* The last SELECT is done, the connection closed, the counts printed.
EndSummary(p) ==
    /\ pc[p] = "reading"
    /\ Leave(p)
    /\ Abandon(p)

\* The process dies: its locks go and its transaction is rolled back.
Crash(p) ==
    /\ pc[p] # "idle"
    /\ Leave(p)
    /\ Abandon(p)
==============================================================================
