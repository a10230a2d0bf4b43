------------------------------ MODULE KVEngine ------------------------------
(* The storage engine: one LevelDBStore and its connections (LevelDBEngine). *)
(* The store keeps the committed data, the write slot and the number of     *)
(* snapshots, each call on it under one mutex; a connection keeps its       *)
(* transaction: a buffer of writes, a snapshot, and whether it believes to  *)
(* hold the slot.  A call is split into several actions where what others   *)
(* do between two of its critical sections matters.  Calls that are refused *)
(* (Busy, NotFound, a closed store, a failed commit, which keeps buffer and *)
(* slot) change nothing.                                                    *)
EXTENDS Naturals, FiniteSets

CONSTANTS
    Conn,        \* connections
    Key, Value,
    Prefix,      \* the keys that remove_range() covers, as a set of ranges
    Initial,     \* the committed data when the store is created
    Absent,      \* no value: the key is not there, or was removed
    Untouched,   \* the transaction has no put or remove for the key
    Nil,         \* no owner, no transaction, no snapshot
    Careful      \* connections neither write outside a transaction while they
                 \* hold the slot nor give it back inside one, and nobody
                 \* closes the store under a holder, as the sessions behave

Data == [Key -> Value \cup {Absent}]
Op == [op : Value \cup {Absent, Untouched}, wiped : BOOLEAN]
Buffer == [Key -> Op]     \* of writes, see below

ASSUME EngineAssumption ==
    /\ Initial \in Data
    /\ Prefix \subseteq SUBSET Key
    /\ Careful \in BOOLEAN
    /\ Nil \notin Conn \cup Data \cup Buffer
    /\ Absent \notin Value /\ Untouched \notin Value \cup {Absent}

VARIABLES
    open,        \* is_open_
    db,          \* committed data
    owner,       \* write_owner_
    snapshots,   \* snapshot_count_
    iterators,   \* connections with a registered iterator
    conn,        \* state of every connection
    call         \* what is left to do of a connection's running call

vars == <<open, db, owner, snapshots, iterators, conn, call>>

-----------------------------------------------------------------------------
(* Write buffers.  TxBuffer keeps per key the last put or remove (view_)    *)
(* and the ranges removed, ordered by sequence number; it also keeps the    *)
(* log of all operations.  Per key that comes to the last put or remove and *)
(* whether a range removal followed it.  A WriteBatch has the same form.    *)
Empty == [k \in Key |-> [op |-> Untouched, wiped |-> FALSE]]
Put(k, v) == [Empty EXCEPT ![k].op = v]
Remove(k) == [Empty EXCEPT ![k].op = Absent]
RemoveRange(ks) == [k \in Key |-> [op |-> Untouched, wiped |-> k \in ks]]

(* Appends the operations of batch b to buffer t. *)
Then(t, b) ==
    [k \in Key |-> IF b[k].op # Untouched THEN b[k]
                   ELSE [t[k] EXCEPT !.wiped = @ \/ b[k].wiped]]

(* TxBuffer::lookup() over the data below it. *)
LookupIn(t, below, k) ==
    IF t[k].wiped THEN Absent
    ELSE IF t[k].op = Untouched THEN below[k] ELSE t[k].op

(* MergingIterator::settle(): what a scan shows for k.  A key that is only  *)
(* in the data below is passed through without asking lookup().             *)
ScanIn(t, below, k) ==
    IF t[k].op = Untouched THEN below[k] ELSE LookupIn(t, below, k)

(* apply_batch_locked(): a range removal becomes one delete per key that    *)
(* the data hold when the batch is applied.                                 *)
Apply(d, t) ==
    [k \in Key |-> IF t[k].wiped /\ d[k] # Absent THEN Absent
                   ELSE IF t[k].op # Untouched THEN t[k].op ELSE d[k]]

-----------------------------------------------------------------------------
(* Connections. *)
Calls == {"none", "apply", "release", "finish"}
Connection ==
    [tx : Buffer \cup {Nil},         \* tx_
     snapshot : Data \cup {Nil},     \* snapshot_
     slot : BOOLEAN,                 \* write_slot_
     base : Data \cup {Nil}]         \* ghost: committed data at begin

Fresh == [tx |-> Nil, snapshot |-> Nil, slot |-> FALSE, base |-> Nil]
Done == [at |-> "none", batch |-> Empty]

(* What a connection reads below its buffer, and with it. *)
Below(c) == IF conn[c].snapshot # Nil THEN conn[c].snapshot ELSE db
Lookup(c, k) ==
    IF conn[c].tx = Nil THEN Below(c)[k] ELSE LookupIn(conn[c].tx, Below(c), k)
Exists(c, k) == Lookup(c, k) # Absent
Scanned(c, k) ==
    IF conn[c].tx = Nil THEN Below(c)[k] ELSE ScanIn(conn[c].tx, Below(c), k)

Idle(c) == call[c].at = "none"
Free(c) == owner \in {Nil, c}

(* release_snapshot() and LevelDBStore::release_write_slot(). *)
Dropped(n) == IF n.snapshot # Nil THEN snapshots - 1 ELSE snapshots
Unowned(c) == IF owner = c THEN Nil ELSE owner

Init ==
    /\ open = TRUE /\ db = Initial /\ owner = Nil
    /\ snapshots = 0 /\ iterators = {}
    /\ conn = [c \in Conn |-> Fresh]
    /\ call = [c \in Conn |-> Done]

-----------------------------------------------------------------------------
(* The store. *)
Open ==
    /\ ~open
    /\ open' = TRUE
    /\ UNCHANGED <<db, owner, snapshots, iterators, conn, call>>

(* close() is refused while iterators or snapshots live; it frees the slot. *)
Close ==
    /\ open /\ iterators = {} /\ snapshots = 0
    /\ Careful => owner = Nil
    /\ open' = FALSE /\ owner' = Nil
    /\ UNCHANGED <<db, snapshots, iterators, conn, call>>

NewIterator(c) ==
    /\ Idle(c) /\ open /\ c \notin iterators
    /\ iterators' = iterators \cup {c}
    /\ UNCHANGED <<open, db, owner, snapshots, conn, call>>

UnregisterIterator(c) ==
    /\ Idle(c) /\ c \in iterators
    /\ iterators' = iterators \ {c}
    /\ UNCHANGED <<open, db, owner, snapshots, conn, call>>

DisconnectForgets(c) ==                                         \* mutant
    /\ Idle(c) /\ c \notin iterators
    /\ conn' = [conn EXCEPT ![c] = Fresh]
    /\ owner' = IF conn[c].slot THEN Unowned(c) ELSE owner
    /\ UNCHANGED <<open, db, snapshots, iterators, call>>

(* A connection is destroyed with its transaction and a new one takes its   *)
(* place in the model.                                                      *)
Disconnect(c) ==
    /\ Idle(c) /\ c \notin iterators
    /\ conn' = [conn EXCEPT ![c] = Fresh]
    /\ snapshots' = Dropped(conn[c])
    /\ owner' = IF conn[c].slot THEN Unowned(c) ELSE owner
    /\ UNCHANGED <<open, db, iterators, call>>

-----------------------------------------------------------------------------
(* Transactions. *)
BeginTransactionNoSnapshot(c) ==                                \* mutant
    /\ Idle(c) /\ open /\ conn[c].tx = Nil
    /\ conn' = [conn EXCEPT ![c].tx = Empty, ![c].base = db]
    /\ UNCHANGED <<open, db, owner, snapshots, iterators, call>>

BeginTransaction(c) ==
    /\ Idle(c) /\ open /\ conn[c].tx = Nil
    /\ conn' = [conn EXCEPT ![c].tx = Empty, ![c].snapshot = db, ![c].base = db]
    /\ snapshots' = snapshots + 1
    /\ UNCHANGED <<open, db, owner, iterators, call>>

(* The slot is taken and the snapshot given up. *)
Acquired(n) == [n EXCEPT !.slot = TRUE, !.snapshot = Nil]

AcquireWriteSlotKeepsSnapshot(c) ==                             \* mutant
    /\ Idle(c) /\ open /\ ~conn[c].slot /\ Free(c)
    /\ owner' = c
    /\ conn' = [conn EXCEPT ![c].slot = TRUE]
    /\ UNCHANGED <<open, db, snapshots, iterators, call>>

AcquireWriteSlot(c) ==
    /\ Idle(c) /\ open /\ ~conn[c].slot /\ Free(c)
    /\ owner' = c
    /\ conn' = [conn EXCEPT ![c] = Acquired(@)]
    /\ snapshots' = Dropped(conn[c])
    /\ UNCHANGED <<open, db, iterators, call>>

ReleaseWriteSlot(c) ==
    /\ Idle(c) /\ conn[c].slot
    /\ Careful => conn[c].tx = Nil
    /\ owner' = Unowned(c)
    /\ conn' = [conn EXCEPT ![c].slot = FALSE]
    /\ UNCHANGED <<open, db, snapshots, iterators, call>>

(* put(), remove() and write_batch() in a transaction: ensure_write_slot(), *)
(* then the operations go to the buffer.                                    *)
Write(c, b) ==
    /\ Idle(c) /\ open /\ conn[c].tx # Nil
    /\ conn[c].slot \/ Free(c)
    /\ LET n == IF conn[c].slot THEN conn[c] ELSE Acquired(conn[c])
       IN  conn' = [conn EXCEPT ![c] = [n EXCEPT !.tx = Then(@, b)]]
    /\ owner' = IF conn[c].slot THEN owner ELSE c
    /\ snapshots' = IF conn[c].slot THEN snapshots ELSE Dropped(conn[c])
    /\ UNCHANGED <<open, db, iterators, call>>

AutoAcquireUnchecked(c, b) ==                                   \* mutant
    /\ Idle(c) /\ open /\ conn[c].tx = Nil
    /\ Careful => ~conn[c].slot
    /\ call' = [call EXCEPT ![c] = [at |-> "apply", batch |-> b]]
    /\ UNCHANGED <<open, db, owner, snapshots, iterators, conn>>

(* The same three outside a transaction: the slot for the one write. *)
AutoAcquire(c, b) ==
    /\ Idle(c) /\ open /\ conn[c].tx = Nil /\ Free(c)
    /\ Careful => ~conn[c].slot
    /\ owner' = c
    /\ call' = [call EXCEPT ![c] = [at |-> "apply", batch |-> b]]
    /\ UNCHANGED <<open, db, snapshots, iterators, conn>>

(* The write fails when the store was closed meanwhile, or on an I/O error. *)
AutoApply(c) ==
    /\ call[c].at = "apply"
    /\ \/ open /\ db' = Apply(db, call[c].batch)
       \/ db' = db
    /\ call' = [call EXCEPT ![c] = [@ EXCEPT !.at = "release"]]
    /\ UNCHANGED <<open, owner, snapshots, iterators, conn>>

AutoRelease(c) ==
    /\ call[c].at = "release"
    /\ owner' = Unowned(c)
    /\ call' = [call EXCEPT ![c] = Done]
    /\ UNCHANGED <<open, db, snapshots, iterators, conn>>

CommitTransaction(c) ==
    /\ Idle(c) /\ open /\ conn[c].tx # Nil
    /\ db' = Apply(db, conn[c].tx)
    /\ conn' = [conn EXCEPT ![c].tx = Nil]
    /\ call' = [call EXCEPT ![c].at = "finish"]
    /\ UNCHANGED <<open, owner, snapshots, iterators>>

RollbackTransaction(c) ==
    /\ Idle(c) /\ open /\ conn[c].tx # Nil
    /\ conn' = [conn EXCEPT ![c].tx = Nil]
    /\ call' = [call EXCEPT ![c].at = "finish"]
    /\ UNCHANGED <<open, db, owner, snapshots, iterators>>

FinishKeepsSlot(c) ==                                           \* mutant
    /\ call[c].at = "finish"
    /\ conn' = [conn EXCEPT ![c] = Fresh]
    /\ snapshots' = Dropped(conn[c])
    /\ call' = [call EXCEPT ![c] = Done]
    /\ UNCHANGED <<open, db, owner, iterators>>

(* The end of commit and rollback: the snapshot and the slot go back. *)
Finish(c) ==
    /\ call[c].at = "finish"
    /\ conn' = [conn EXCEPT ![c] = Fresh]
    /\ snapshots' = Dropped(conn[c])
    /\ owner' = IF conn[c].slot THEN Unowned(c) ELSE owner
    /\ call' = [call EXCEPT ![c] = Done]
    /\ UNCHANGED <<open, db, iterators>>

Batches ==
    {Put(k, v) : k \in Key, v \in Value} \cup {Remove(k) : k \in Key}
        \cup {RemoveRange(ks) : ks \in Prefix}

Next ==
    \/ Open
    \/ Close
    \/ \E c \in Conn :
          \/ NewIterator(c)
          \/ UnregisterIterator(c)
          \/ Disconnect(c)
          \/ BeginTransaction(c)
          \/ AcquireWriteSlot(c)
          \/ ReleaseWriteSlot(c)
          \/ \E b \in Batches : Write(c, b) \/ AutoAcquire(c, b)
          \/ AutoApply(c)
          \/ AutoRelease(c)
          \/ CommitTransaction(c)
          \/ RollbackTransaction(c)
          \/ Finish(c)

Spec == Init /\ [][Next]_vars

-----------------------------------------------------------------------------
TypeOK ==
    /\ open \in BOOLEAN
    /\ db \in Data
    /\ owner \in Conn \cup {Nil}
    /\ snapshots \in Nat
    /\ iterators \subseteq Conn
    /\ conn \in [Conn -> Connection]
    /\ call \in [Conn -> [at : Calls, batch : Buffer]]

(* The connection that is writing: it believes to hold the slot, or it is   *)
(* inside a write outside a transaction.                                    *)
Writing(c) == conn[c].slot \/ call[c].at \in {"apply", "release"}

(* The store and its connections agree on who writes: a writer is the owner *)
(* the store has recorded, so there is at most one, and no path of commit,  *)
(* rollback, destructor or write outside a transaction leaves the slot with *)
(* a connection that is not writing, where nobody would release it.         *)
SlotAgrees == \A c \in Conn : Writing(c) <=> owner = c

(* snapshot_count_ counts the snapshots of the connections, so that close() *)
(* never frees the database under one.                                      *)
SnapshotsCounted ==
    /\ snapshots = Cardinality({c \in Conn : conn[c].snapshot # Nil})
    /\ ~open => \A c \in Conn : conn[c].snapshot = Nil

(* Repeatable read for a transaction that has not written: it reads what    *)
(* was committed when it began, whatever others commit.                     *)
ReadOnlyRepeatable ==
    \A c \in Conn : conn[c].tx # Nil /\ ~conn[c].slot => Below(c) = conn[c].base

(* The view of the slot's holder is frozen: the committed data change under *)
(* it only when it commits itself.                                          *)
HolderViewFrozen ==
    [][db' # db => \A c \in Conn : conn[c].slot => conn'[c].tx # conn[c].tx]_vars

(* Claim of storage/kv_engine/readme.en.md that the code does not keep. *)

(* A commit makes public what the transaction read: put, then remove_range, *)
(* is deleted.                                                              *)
CommitsWhatItRead ==
    [][\A c \in Conn : db' # db /\ conn[c].tx # Nil /\ conn'[c].tx = Nil
                          => \A k \in Key : db'[k] = Lookup(c, k)]_vars
=============================================================================
