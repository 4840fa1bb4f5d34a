--------------------------- MODULE BlockchainStore ---------------------------
(***************************************************************************)
(* The blockchain store (blockchain_storage/src/store.rs) used by several  *)
(* threads at once, as in the store's concurrency tests: a main thread     *)
(* creates the store and sets the storage version through Store methods,   *)
(* spawns writer threads, each bumping the version in one read-write       *)
(* transaction, and reader threads, each reading the version twice in one  *)
(* read-only transaction, joins them and reads the version.                *)
(*                                                                         *)
(* A Store method runs in a transaction of its own                         *)
(* (delegate_to_transaction: transaction_ro for &self, transaction_rw and  *)
(* storage::commit for &mut self), so it is one step.  The isolation of    *)
(* the storage layer's transactions is not among the sources; it follows   *)
(* spec §5: one                                                            *)
(* read-write transaction at a time, and read-only transactions that see   *)
(* the last committed state when they start.  The version is the only     *)
(* key the threads touch: StoreVersion in DBValues.                        *)
(***************************************************************************)
EXTENDS Integers, FiniteSets, FiniteSetsExt

CONSTANTS
    Writers,        \* threads running a read-write bump transaction
    Readers,        \* threads running a read-only transaction
    Bump,           \* Bump[w]: what writer w adds to the version
    InitialVersion, \* the version main sets before spawning
    NoValue,        \* an absent entry of DBValues
    None            \* no thread holds the write transaction

Threads == Writers \cup Readers

VARIABLES
    db,        \* the committed StoreVersion entry
    lock,      \* the thread whose read-write transaction is open
    pc,        \* each thread's place in its program
    view,      \* each thread's transaction view of the entry
    v1, v2,    \* the versions a thread has read
    mainPc,    \* the main thread's place
    final      \* the version main reads after the join

vars == <<db, lock, pc, view, v1, v2, mainPc, final>>

\* get_storage_version on a view: read_value, then unwrap_or_default.
GetStorageVersion(x) == IF x = NoValue THEN 0 ELSE x

-----------------------------------------------------------------------------
(* The main thread.                                                         *)

Init ==
    /\ db = NoValue
    /\ lock = None
    /\ pc = [t \in Threads |-> "begin"]
    /\ view = [t \in Threads |-> NoValue]
    /\ v1 = [t \in Threads |-> 0]
    /\ v2 = [t \in Threads |-> 0]
    /\ mainPc = "new"
    /\ final = 0

\* A Store method taking &mut self: transaction_rw, the write, commit.
StoreWrite(value) ==
    /\ lock = None
    /\ db' = value

\* Store::new_empty: set_storage_version(1) through the Store.
NewEmpty ==
    /\ mainPc = "new"
    /\ StoreWrite(1)
    /\ mainPc' = "setup"
    /\ UNCHANGED <<lock, pc, view, v1, v2, final>>

\* store.set_storage_version(InitialVersion), then the threads are spawned.
SetStorageVersion ==
    /\ mainPc = "setup"
    /\ StoreWrite(InitialVersion)
    /\ mainPc' = "spawned"
    /\ UNCHANGED <<lock, pc, view, v1, v2, final>>

\* The joins of every spawned thread.
Join ==
    /\ mainPc = "spawned"
    /\ \A t \in Threads : pc[t] = "done"
    /\ mainPc' = "joined"
    /\ UNCHANGED <<db, lock, pc, view, v1, v2, final>>

\* store.get_storage_version(): a Store method taking &self, one read-only
\* transaction.
StoreRead ==
    /\ mainPc = "joined"
    /\ final' = GetStorageVersion(db)
    /\ mainPc' = "done"
    /\ UNCHANGED <<db, lock, pc, view, v1, v2>>

-----------------------------------------------------------------------------
(* Transactions of the spawned threads.                                     *)

Running(t, from, to) ==
    /\ mainPc = "spawned"
    /\ pc[t] = from
    /\ pc' = [pc EXCEPT ![t] = to]

\* Mutant: a read-write transaction opened without excluding other writers.
TransactionRwUnlocked(t) ==
    /\ Running(t, "begin", "read")
    /\ view' = [view EXCEPT ![t] = db]
    /\ UNCHANGED <<db, lock, v1, v2, mainPc, final>>

\* store.transaction_rw(): waits until no other read-write transaction is
\* open, and works on the committed state.
TransactionRw(t) ==
    /\ Running(t, "begin", "read")
    /\ lock = None
    /\ lock' = t
    /\ view' = [view EXCEPT ![t] = db]
    /\ UNCHANGED <<db, v1, v2, mainPc, final>>

\* store.transaction_ro(): a snapshot of the committed state.
TransactionRo(t) ==
    /\ Running(t, "begin", "read")
    /\ view' = [view EXCEPT ![t] = db]
    /\ UNCHANGED <<db, lock, v1, v2, mainPc, final>>

\* StoreTx::get_storage_version inside the transaction.
ReadInTx(t) == GetStorageVersion(view[t])

\* A writer reads the version, v = tx.get_storage_version()?.
WriterRead(t) ==
    /\ Running(t, "read", "write")
    /\ v1' = [v1 EXCEPT ![t] = ReadInTx(t)]
    /\ UNCHANGED <<db, lock, view, v2, mainPc, final>>

\* tx.set_storage_version(v + bump): write_value into the transaction.
WriterWrite(t) ==
    /\ Running(t, "write", "commit")
    /\ view' = [view EXCEPT ![t] = v1[t] + Bump[t]]
    /\ UNCHANGED <<db, lock, v1, v2, mainPc, final>>

\* Mutant: commit publishes the writes but the transaction stays open.
CommitKeepsLock(t) ==
    /\ Running(t, "commit", "done")
    /\ db' = view[t]
    /\ UNCHANGED <<lock, view, v1, v2, mainPc, final>>

\* StoreTx::commit (storage::commit in run, or tx.commit()): the writes
\* become the committed state and the write transaction ends.
Commit(t) ==
    /\ Running(t, "commit", "done")
    /\ db' = view[t]
    /\ lock' = None
    /\ UNCHANGED <<view, v1, v2, mainPc, final>>

\* A reader's two reads, v1 and v2, in its read-only transaction.
ReaderRead1(t) ==
    /\ Running(t, "read", "read2")
    /\ v1' = [v1 EXCEPT ![t] = ReadInTx(t)]
    /\ UNCHANGED <<db, lock, view, v2, mainPc, final>>

ReaderRead2(t) ==
    /\ Running(t, "read2", "done")
    /\ v2' = [v2 EXCEPT ![t] = ReadInTx(t)]
    /\ UNCHANGED <<db, lock, view, v1, mainPc, final>>

WriterStep(t) ==
    TransactionRw(t) \/ WriterRead(t) \/ WriterWrite(t) \/ Commit(t)

ReaderStep(t) == TransactionRo(t) \/ ReaderRead1(t) \/ ReaderRead2(t)

MainStep == NewEmpty \/ SetStorageVersion \/ Join \/ StoreRead

Next ==
    \/ MainStep
    \/ \E t \in Writers : WriterStep(t)
    \/ \E t \in Readers : ReaderStep(t)

\* Threads are OS threads: each one that can step eventually does.
Spec ==
    /\ Init /\ [][Next]_vars
    /\ WF_vars(MainStep)
    /\ \A t \in Writers : WF_vars(WriterStep(t))
    /\ \A t \in Readers : WF_vars(ReaderStep(t))

-----------------------------------------------------------------------------
(* Properties.                                                              *)

\* The write transaction is held only by a writer between transaction_rw
\* and commit, and every variable has its type.
TypeOK ==
    /\ lock \in Writers \cup {None}
    /\ lock /= None => pc[lock] \in {"read", "write", "commit"}
    /\ pc \in [Threads -> {"begin", "read", "read2", "write", "commit", "done"}]
    /\ mainPc \in {"new", "setup", "spawned", "joined", "done"}

\* After the joins, the version is the initial one plus every writer's
\* bump: concurrent read-modify-write transactions lose no update (the
\* final assertion of test_storage_transactions).
BumpsNotLost ==
    mainPc = "done" =>
        final = InitialVersion + MapThenSumSet(LAMBDA w : Bump[w], Writers)

\* The test program ends: every transaction eventually opens and commits,
\* and main reads the final version.
ProgramTerminates == <>(mainPc = "done")

=============================================================================
