----------------------------- MODULE SqliteStore -----------------------------
(***************************************************************************)
(* EXTERNAL: SQLite in journal_mode=DELETE, as _connection of               *)
(* dns_assignment_journal.py uses it.                                       *)
(*                                                                          *)
(* A write transaction starts with BEGIN IMMEDIATE (the RESERVED lock, one  *)
(* holder) and commits by PENDING, which admits no new reader, and then     *)
(* EXCLUSIVE, which waits for the readers to leave.  A lock wait ends in an *)
(* error after the busy timeout, so every wait has a giving-up alternative  *)
(* in the modules that use this one.  A dead process's locks are dropped by *)
(* the kernel and its uncommitted pages are rolled back.                    *)
(***************************************************************************)
CONSTANTS
    Proc,           \* command invocations that may run concurrently
    NoTransaction   \* txn of a process outside a transaction

VARIABLES
    db,             \* the committed database
    txn,            \* txn[p]: the database p's transaction sees
    reserved,       \* holders of the RESERVED lock
    pending,        \* holders of PENDING, waiting for EXCLUSIVE
    shared          \* processes inside a read transaction

storeVars == <<db, txn, reserved, pending, shared>>

StoreInit(empty) ==
    /\ db = empty
    /\ txn = [p \in Proc |-> NoTransaction]
    /\ reserved = {}
    /\ pending = {}
    /\ shared = {}

\* Mutated form: BEGIN takes no RESERVED lock before the first write.
BeginDeferred(p) ==
    /\ pending = {}
    /\ reserved' = reserved \cup {p}
    /\ txn' = [txn EXCEPT ![p] = db]
    /\ UNCHANGED <<db, pending, shared>>

\* BEGIN IMMEDIATE succeeds.
BeginImmediate(p) ==
    /\ reserved = {}
    /\ reserved' = {p}
    /\ txn' = [txn EXCEPT ![p] = db]
    /\ UNCHANGED <<db, pending, shared>>

\* An uncommitted INSERT of the RESERVED holder.
Write(p, value) ==
    /\ txn' = [txn EXCEPT ![p] = value]
    /\ UNCHANGED <<db, reserved, pending, shared>>

\* COMMIT first takes PENDING.
Pend(p) ==
    /\ pending' = pending \cup {p}
    /\ UNCHANGED <<db, txn, reserved, shared>>

\* End of p's part in the locks, whatever it held.
Unlock(p) ==
    /\ txn' = [txn EXCEPT ![p] = NoTransaction]
    /\ reserved' = reserved \ {p}
    /\ pending' = pending \ {p}
    /\ shared' = shared \ {p}

\* COMMIT gets EXCLUSIVE and the transaction's pages become the database.
CommitExclusive(p) ==
    /\ p \in pending
    /\ shared = {}
    /\ db' = txn[p]
    /\ Unlock(p)

\* ROLLBACK, close, a read transaction's end, or the process's death.
Abandon(p) ==
    /\ db' = db
    /\ Unlock(p)

\* Mutated form: each SELECT in its own transaction, no SHARED lock kept.
AutocommitRead(p) ==
    /\ pending = {}
    /\ txn' = [txn EXCEPT ![p] = db]
    /\ UNCHANGED <<db, reserved, pending, shared>>

\* The first SELECT of a BEGIN transaction takes SHARED.
BeginRead(p) ==
    /\ pending = {}
    /\ shared' = shared \cup {p}
    /\ txn' = [txn EXCEPT ![p] = db]
    /\ UNCHANGED <<db, reserved, pending>>
==============================================================================
