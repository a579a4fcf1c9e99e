------------------------------- MODULE Publish -------------------------------
(***************************************************************************)
(* publish of dns_review.py, by which every private receipt, checkpoint and *)
(* enrollment reaches its path: a temporary file in the same directory is   *)
(* written, flushed, fsynced, hard-linked to the path, and unlinked.        *)
(*                                                                          *)
(* Several processes may publish to one path, each may die between two      *)
(* steps, and the machine may lose power: what was not fsynced may then be  *)
(* torn, and a directory entry the code never fsyncs may disappear.         *)
(***************************************************************************)
CONSTANTS
    Publisher,      \* processes publishing to the same path
    NoDocument      \* nothing at the path

ASSUME NoDocumentAssumption == NoDocument \notin Publisher

VARIABLES
    path,           \* the publisher whose file the path names, or NoDocument
    temporary,      \* publishers whose temporary name exists
    content,        \* content[p]: p's inode is none, empty, written, synced or torn
    pc,             \* idle, opened, written, synced, linked or failing; and then
                    \* succeeded, failed or dead
    outage          \* power has been lost

publishVars == <<path, temporary, content, pc, outage>>

PublishInit ==
    /\ path = NoDocument
    /\ temporary = {}
    /\ content = [p \in Publisher |-> "none"]
    /\ pc = [p \in Publisher |-> "idle"]
    /\ outage = FALSE

Goto(p, step) == pc' = [pc EXCEPT ![p] = step]

------------------------------------------------------------------------------
\* NamedTemporaryFile in the directory of the path.
OpenTemporary(p) ==
    /\ pc[p] = "idle"
    /\ temporary' = temporary \cup {p}
    /\ content' = [content EXCEPT ![p] = "empty"]
    /\ Goto(p, "opened")
    /\ UNCHANGED <<path, outage>>

WriteUnflushed(p) ==
    /\ pc[p] = "opened"
    /\ Goto(p, "synced")
    /\ content' = [content EXCEPT ![p] = "written"]
    /\ UNCHANGED <<path, temporary, outage>>

\* write and flush
Write(p) ==
    /\ pc[p] = "opened"
    /\ content' = [content EXCEPT ![p] = "written"]
    /\ Goto(p, "written")
    /\ UNCHANGED <<path, temporary, outage>>

\* os.fsync
Sync(p) ==
    /\ pc[p] = "written"
    /\ content' = [content EXCEPT ![p] = "synced"]
    /\ Goto(p, "synced")
    /\ UNCHANGED <<path, temporary, outage>>

\* Mutated form: os.replace.
LinkReplacing(p) ==
    /\ pc[p] = "synced"
    /\ path' = p
    /\ Goto(p, "linked")
    /\ UNCHANGED <<temporary, content, outage>>

\* os.link, which refuses an existing name.
Link(p) ==
    /\ pc[p] = "synced"
    /\ path = NoDocument
    /\ path' = p
    /\ Goto(p, "linked")
    /\ UNCHANGED <<temporary, content, outage>>

\* FileExistsError or another error of os.link, or of a step before it.
Fail(p) ==
    /\ pc[p] \in {"opened", "written", "synced"}
    /\ Goto(p, "failing")
    /\ UNCHANGED <<path, temporary, content, outage>>

\* Mutated form: the exception of os.link is swallowed.
UnlinkSwallowing(p) ==
    /\ pc[p] \in {"linked", "failing"}
    /\ temporary' = temporary \ {p}
    /\ Goto(p, "succeeded")
    /\ UNCHANGED <<path, content, outage>>

\* Mutated form: unlink stands after os.link, not in finally.
UnlinkOnSuccess(p) ==
    /\ pc[p] \in {"linked", "failing"}
    /\ temporary' = IF pc[p] = "linked" THEN temporary \ {p} ELSE temporary
    /\ Goto(p, IF pc[p] = "linked" THEN "succeeded" ELSE "failed")
    /\ UNCHANGED <<path, content, outage>>

\* finally: the temporary name goes; the exception, if any, goes on.
Unlink(p) ==
    /\ pc[p] \in {"linked", "failing"}
    /\ temporary' = temporary \ {p}
    /\ Goto(p, IF pc[p] = "linked" THEN "succeeded" ELSE "failed")
    /\ UNCHANGED <<path, content, outage>>

Ended(p) == pc[p] \in {"idle", "succeeded", "failed", "dead"}

\* The process dies: its temporary file stays.
Crash(p) ==
    /\ ~ Ended(p)
    /\ Goto(p, "dead")
    /\ UNCHANGED <<path, temporary, content, outage>>

\* Every running process dies, unsynced data may tear, and names created since
\* the directory was last written back may be gone.
PowerLoss ==
    /\ ~ outage
    /\ outage' = TRUE
    /\ pc' = [p \in Publisher |-> IF Ended(p) THEN pc[p] ELSE "dead"]
    /\ \E survives \in SUBSET temporary : temporary' = survives
    /\ path' \in {path, NoDocument}
    /\ \E torn \in SUBSET {p \in Publisher : content[p] \in {"empty", "written"}} :
          content' = [p \in Publisher |-> IF p \in torn THEN "torn" ELSE content[p]]

PublishNext ==
    \/ \E p \in Publisher :
          \/ OpenTemporary(p) \/ Write(p) \/ Sync(p) \/ Link(p)
          \/ Fail(p) \/ Unlink(p) \/ Crash(p)
    \/ PowerLoss

PublishSpec == PublishInit /\ [][PublishNext]_publishVars

------------------------------------------------------------------------------
(* Properties                                                               *)

\* Whoever opens the path finds nothing or one publisher's whole document, even
\* after a power loss: the name is made only when the data is on disk.
WholeAtPath == path # NoDocument => content[path] = "synced"

\* The first document to reach the path stays: no later publish, successful or
\* failed, replaces or removes it.  Only the outage may take the name away.
FirstStays == [][path # NoDocument => path' = path \/ (outage' /\ ~ outage)]_publishVars

\* A publish that returns has put its own document there.
SuccessIsOwn == \A p \in Publisher : pc[p] = "succeeded" => path = p \/ outage

\* A publish that returns or raises leaves no temporary file with a private copy.
NoLitter == \A p \in Publisher : pc[p] \in {"succeeded", "failed"} => p \notin temporary
==============================================================================
