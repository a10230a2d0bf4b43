---------------------------- MODULE SessionProofs ----------------------------
(* Theorems about the engine and the sessions that use it, for every set of *)
(* connections, keys, values, rows and statements.  First KVEngine alone:   *)
(* the store and its connections agree on the writer, a transaction that    *)
(* has not written reads what was committed when it began, and the data     *)
(* never change under the holder of the slot.  Then Session, whose steps    *)
(* are calls of the engine: sessions leave nothing behind in it, the        *)
(* catalog and the row counts stay right, INSERT never overwrites and a     *)
(* SELECT over one range sees one version of the table.                     *)
EXTENDS Session, TLAPS, FiniteSetTheorems, SequenceTheorems

-----------------------------------------------------------------------------
(* The engine. *)

(* The connections as the proofs need them: the fields have their types,    *)
(* nobody writes outside a transaction while holding the slot, nothing is   *)
(* buffered without the slot, and before that a transaction reads from the  *)
(* snapshot it took when it began.                                          *)
ConnInv(n, k) ==
    /\ k.at \in {"apply", "release"} => ~n.slot /\ n.tx = Nil
    /\ n.tx # Nil /\ ~n.slot => /\ n.tx = Empty
                                /\ n.snapshot = n.base
                                /\ n.base \in Data

EngineInv ==
    /\ db \in Data
    /\ conn \in [Conn -> Connection]
    /\ call \in [Conn -> [at : Calls, batch : Buffer]]
    /\ SlotAgrees
    /\ \A c \in Conn : ConnInv(conn[c], call[c])

-----------------------------------------------------------------------------
(* Buffers: the operations that make them, and what applying one yields. *)
LEMMA EmptyType == Empty \in Buffer
  BY DEF Empty, Buffer, Op

LEMMA BatchType == Batches \subseteq Buffer
  <1>1. \A k \in Key, v \in Value : Put(k, v) \in Buffer
    BY DEF Put, Empty, Buffer, Op
  <1>2. \A k \in Key : Remove(k) \in Buffer
    BY DEF Remove, Empty, Buffer, Op
  <1>3. \A ks \in Prefix : RemoveRange(ks) \in Buffer
    BY DEF RemoveRange, Buffer, Op
  <1> QED BY <1>1, <1>2, <1>3 DEF Batches

LEMMA ThenType ==
  ASSUME NEW t \in Buffer, NEW b \in Buffer
  PROVE  Then(t, b) \in Buffer
  BY DEF Then, Buffer, Op

LEMMA ApplyType ==
  ASSUME NEW d \in Data, NEW t \in Buffer
  PROVE  Apply(d, t) \in Data
  BY DEF Apply, Buffer, Op, Data

LEMMA ApplyEmpty ==
  ASSUME NEW d \in Data
  PROVE  Apply(d, Empty) = d
  BY DEF Apply, Empty, Data

LEMMA FreshType == Fresh \in Connection
  BY DEF Fresh, Connection

-----------------------------------------------------------------------------
(* Every step of careful callers keeps the invariant. *)
LEMMA InitInv == Init => EngineInv
  <1> SUFFICES ASSUME Init PROVE EngineInv
    OBVIOUS
  <1>1. db \in Data /\ conn \in [Conn -> Connection]
    BY EngineAssumption, FreshType DEF Init
  <1>2. call \in [Conn -> [at : Calls, batch : Buffer]]
    BY EmptyType DEF Init, Done, Calls
  <1>3. \A c \in Conn : ~conn[c].slot /\ conn[c].tx = Nil /\ call[c].at = "none"
    BY DEF Init, Fresh, Done
  <1>4. \A c \in Conn : owner # c
    BY EngineAssumption DEF Init
  <1> QED BY <1>1, <1>2, <1>3, <1>4 DEF EngineInv, SlotAgrees, Writing, ConnInv

(* A step that changes one connection, its call and the owner. *)
LEMMA OneConnection ==
  ASSUME EngineInv, NEW c \in Conn,
         NEW n \in Connection, NEW k \in [at : Calls, batch : Buffer],
         db' \in Data,
         conn' = [conn EXCEPT ![c] = n], call' = [call EXCEPT ![c] = k],
         ConnInv(n, k),
         \A d \in Conn \ {c} : owner' = d <=> owner = d,
         (n.slot \/ k.at \in {"apply", "release"}) <=> owner' = c
  PROVE  EngineInv'
  <1>1. conn' \in [Conn -> Connection] /\ call' \in [Conn -> [at : Calls, batch : Buffer]]
    BY DEF EngineInv
  <1>2. conn'[c] = n /\ call'[c] = k
    BY DEF EngineInv
  <1>3. \A d \in Conn \ {c} : conn'[d] = conn[d] /\ call'[d] = call[d]
    BY DEF EngineInv
  <1>4. \A d \in Conn : ConnInv(conn'[d], call'[d])
    BY <1>2, <1>3 DEF EngineInv
  <1>5. SlotAgrees'
    BY <1>2, <1>3 DEF EngineInv, SlotAgrees, Writing
  <1> QED BY <1>1, <1>4, <1>5 DEF EngineInv, ConnInv

(* Steps that touch no connection, no call and no owner. *)
LEMMA NoConnection ==
  ASSUME EngineInv, UNCHANGED <<db, owner, conn, call>>
  PROVE  EngineInv'
  BY DEF EngineInv, SlotAgrees, Writing, ConnInv

(* The clients of the engine write batches of any form. *)
EngineStep == Next \/ \E c \in Conn, b \in Buffer : Write(c, b)

LEMMA StepInv ==
  ASSUME Careful, EngineInv, EngineStep
  PROVE  EngineInv'
  <1> USE DEF Idle, Calls
  <1>1. CASE Open
    BY <1>1, NoConnection DEF Open
  <1>2. CASE Close
    BY <1>2, NoConnection DEF Close
  <1>3. ASSUME NEW c \in Conn, NewIterator(c) \/ UnregisterIterator(c)
        PROVE  EngineInv'
    BY <1>3, NoConnection DEF NewIterator, UnregisterIterator
  <1> DEFINE T == [at : Calls, batch : Buffer]
  <1>4. \A c \in Conn : conn[c] \in Connection /\ call[c] \in T
    BY DEF EngineInv
  <1>5. \A c \in Conn : /\ conn = [conn EXCEPT ![c] = conn[c]]
                         /\ call = [call EXCEPT ![c] = call[c]]
    BY DEF EngineInv
  <1>6. \A c \in Conn : ConnInv(conn[c], call[c]) /\ (Writing(c) <=> owner = c)
    BY DEF EngineInv, SlotAgrees
  <1>7. Done \in T
    BY EmptyType DEF Done
  <1>8. ASSUME NEW c \in Conn, Disconnect(c) PROVE EngineInv'
    <2>1. ConnInv(Fresh, call[c])
      BY <1>8 DEF Disconnect, ConnInv, Fresh
    <2>2. owner' # c /\ \A d \in Conn \ {c} : owner' = d <=> owner = d
      BY <1>8, <1>6, EngineAssumption DEF Disconnect, Writing, Unowned
    <2>3. db' \in Data /\ conn' = [conn EXCEPT ![c] = Fresh]
          /\ call' = [call EXCEPT ![c] = call[c]]
      BY <1>8, <1>5 DEF Disconnect, EngineInv
    <2>4. ~Fresh.slot /\ call[c].at = "none"
      BY <1>8 DEF Disconnect, Fresh
    <2> QED BY <1>4, <2>1, <2>2, <2>3, <2>4, FreshType, OneConnection
  <1>9. ASSUME NEW c \in Conn, BeginTransaction(c) PROVE EngineInv'
    <2> DEFINE n == [conn[c] EXCEPT !.tx = Empty, !.snapshot = db, !.base = db]
    <2>1. n \in Connection /\ n.slot = conn[c].slot
      BY <1>4, EmptyType DEF Connection, EngineInv
    <2>2. ConnInv(n, call[c])
      BY <1>9, <1>4 DEF BeginTransaction, ConnInv, Connection, EngineInv
    <2>3. db' \in Data /\ conn' = [conn EXCEPT ![c] = n]
          /\ call' = [call EXCEPT ![c] = call[c]] /\ owner' = owner
      BY <1>9, <1>5 DEF BeginTransaction, EngineInv
    <2>4. (n.slot \/ call[c].at \in {"apply", "release"}) <=> owner' = c
      BY <1>6, <2>1, <2>3 DEF Writing
    <2> HIDE DEF n
    <2> QED BY <1>4, <2>1, <2>2, <2>3, <2>4, OneConnection
  <1>10. ASSUME NEW c \in Conn, AcquireWriteSlot(c) PROVE EngineInv'
    <2>1. Acquired(conn[c]) \in Connection /\ Acquired(conn[c]).slot
      BY <1>4 DEF Acquired, Connection
    <2>2. ConnInv(Acquired(conn[c]), call[c])
      BY <1>10, <2>1 DEF AcquireWriteSlot, ConnInv
    <2>3. db' \in Data /\ conn' = [conn EXCEPT ![c] = Acquired(conn[c])]
          /\ call' = [call EXCEPT ![c] = call[c]] /\ owner' = c
      BY <1>10, <1>5 DEF AcquireWriteSlot, EngineInv
    <2>4. \A d \in Conn \ {c} : owner' = d <=> owner = d
      BY <1>10, EngineAssumption DEF AcquireWriteSlot, Free
    <2> QED BY <1>4, <2>1, <2>2, <2>3, <2>4, OneConnection
  <1>11. ASSUME NEW c \in Conn, ReleaseWriteSlot(c) PROVE EngineInv'
    <2> DEFINE n == [conn[c] EXCEPT !.slot = FALSE]
    <2>1. n \in Connection /\ ~n.slot /\ n.tx = Nil
      BY <1>11, <1>4 DEF ReleaseWriteSlot, Connection
    <2>2. ConnInv(n, call[c])
      BY <2>1 DEF ConnInv
    <2>3. db' \in Data /\ conn' = [conn EXCEPT ![c] = n]
          /\ call' = [call EXCEPT ![c] = call[c]] /\ call[c].at = "none"
      BY <1>11, <1>5 DEF ReleaseWriteSlot, EngineInv
    <2>4. owner' # c /\ \A d \in Conn \ {c} : owner' = d <=> owner = d
      BY <1>11, <1>6, EngineAssumption DEF ReleaseWriteSlot, Writing, Unowned
    <2> HIDE DEF n
    <2> QED BY <1>4, <2>1, <2>2, <2>3, <2>4, OneConnection
  <1>12. ASSUME NEW c \in Conn, NEW b \in Buffer, Write(c, b) PROVE EngineInv'
    <2> DEFINE m == IF conn[c].slot THEN conn[c] ELSE Acquired(conn[c])
               n == [m EXCEPT !.tx = Then(@, b)]
    <2>1. m \in Connection /\ m.slot /\ m.tx = conn[c].tx
      BY <1>4 DEF Acquired, Connection
    <2>2. conn[c].tx \in Buffer
      BY <1>12, <1>4 DEF Write, Connection
    <2>3. n \in Connection /\ n.slot
      BY <2>1, <2>2, ThenType DEF Connection
    <2>4. db' \in Data /\ conn' = [conn EXCEPT ![c] = n]
          /\ call' = [call EXCEPT ![c] = call[c]] /\ call[c].at = "none"
      BY <1>12, <1>5 DEF Write, EngineInv
    <2>5. ConnInv(n, call[c])
      BY <2>3, <2>4 DEF ConnInv
    <2>6. owner' = c /\ \A d \in Conn \ {c} : owner' = d <=> owner = d
      BY <1>12, <1>6, EngineAssumption DEF Write, Writing, Free
    <2> HIDE DEF n, m
    <2> QED BY <1>4, <2>3, <2>4, <2>5, <2>6, OneConnection
  <1>13. ASSUME NEW c \in Conn, NEW b \in Buffer, AutoAcquire(c, b)
         PROVE  EngineInv'
    <2> DEFINE k == [at |-> "apply", batch |-> b]
    <2>1. k \in T /\ k.at = "apply"
      OBVIOUS
    <2>2. ConnInv(conn[c], k)
      BY <1>13 DEF AutoAcquire, ConnInv
    <2>3. db' \in Data /\ conn' = [conn EXCEPT ![c] = conn[c]]
          /\ call' = [call EXCEPT ![c] = k] /\ owner' = c
      BY <1>13, <1>5 DEF AutoAcquire, EngineInv
    <2>4. \A d \in Conn \ {c} : owner' = d <=> owner = d
      BY <1>13, EngineAssumption DEF AutoAcquire, Free
    <2> HIDE DEF k
    <2> QED BY <1>4, <2>1, <2>2, <2>3, <2>4, OneConnection
  <1>14. ASSUME NEW c \in Conn, AutoApply(c) PROVE EngineInv'
    <2> DEFINE k == [call[c] EXCEPT !.at = "release"]
    <2>1. k \in T /\ k.at = "release" /\ call[c].batch \in Buffer
      BY <1>4
    <2>2. ConnInv(conn[c], k) /\ owner = c
      BY <1>14, <1>6, <2>1 DEF AutoApply, ConnInv, Writing
    <2>3. conn' = [conn EXCEPT ![c] = conn[c]] /\ call' = [call EXCEPT ![c] = k]
          /\ owner' = owner
      BY <1>14, <1>5 DEF AutoApply
    <2>4. db' \in Data
      BY <1>14, <2>1, ApplyType DEF AutoApply, EngineInv
    <2> HIDE DEF k
    <2> QED BY <1>4, <2>1, <2>2, <2>3, <2>4, OneConnection
  <1>15. ASSUME NEW c \in Conn, AutoRelease(c) PROVE EngineInv'
    <2>1. ConnInv(conn[c], Done) /\ ~conn[c].slot /\ Done.at = "none"
      BY <1>15, <1>6 DEF AutoRelease, ConnInv, Done
    <2>2. db' \in Data /\ conn' = [conn EXCEPT ![c] = conn[c]]
          /\ call' = [call EXCEPT ![c] = Done]
      BY <1>15, <1>5 DEF AutoRelease, EngineInv
    <2>3. owner' # c /\ \A d \in Conn \ {c} : owner' = d <=> owner = d
      BY <1>15, <1>6, EngineAssumption DEF AutoRelease, Writing, Unowned
    <2> QED BY <1>4, <1>7, <2>1, <2>2, <2>3, OneConnection
  <1>16. ASSUME NEW c \in Conn, CommitTransaction(c) \/ RollbackTransaction(c)
         PROVE  EngineInv'
    <2> DEFINE n == [conn[c] EXCEPT !.tx = Nil]
               k == [call[c] EXCEPT !.at = "finish"]
    <2>1. n \in Connection /\ n.tx = Nil /\ n.slot = conn[c].slot
      BY <1>4 DEF Connection
    <2>2. k \in T /\ k.at = "finish" /\ call[c].at = "none"
      BY <1>16, <1>4 DEF CommitTransaction, RollbackTransaction
    <2>3. ConnInv(n, k)
      BY <2>1, <2>2 DEF ConnInv
    <2>4. conn' = [conn EXCEPT ![c] = n] /\ call' = [call EXCEPT ![c] = k]
          /\ owner' = owner
      BY <1>16 DEF CommitTransaction, RollbackTransaction
    <2>5. conn[c].tx \in Buffer
      BY <1>16, <1>4 DEF CommitTransaction, RollbackTransaction, Connection
    <2>6. db' \in Data
      BY <1>16, <2>5, ApplyType DEF CommitTransaction, RollbackTransaction, EngineInv
    <2>7. n.slot <=> owner' = c
      BY <1>6, <2>1, <2>2, <2>4 DEF Writing
    <2> HIDE DEF n, k
    <2> QED BY <2>1, <2>2, <2>3, <2>4, <2>6, <2>7, OneConnection
  <1>17. ASSUME NEW c \in Conn, Finish(c) PROVE EngineInv'
    <2>1. ConnInv(Fresh, Done) /\ ~Fresh.slot /\ Done.at = "none"
      BY DEF ConnInv, Fresh, Done
    <2>2. db' \in Data /\ conn' = [conn EXCEPT ![c] = Fresh]
          /\ call' = [call EXCEPT ![c] = Done]
      BY <1>17 DEF Finish, EngineInv
    <2>3. owner' # c /\ \A d \in Conn \ {c} : owner' = d <=> owner = d
      BY <1>17, <1>6, EngineAssumption DEF Finish, Writing, Unowned
    <2> QED BY <1>7, <2>1, <2>2, <2>3, FreshType, OneConnection
  <1> QED BY <1>1, <1>2, <1>3, <1>8, <1>9, <1>10, <1>11, <1>12, <1>13, <1>14,
             <1>15, <1>16, <1>17, BatchType DEF Next, EngineStep

LEMMA StutterInv ==
  ASSUME EngineInv, UNCHANGED vars
  PROVE  EngineInv'
  BY NoConnection DEF vars

-----------------------------------------------------------------------------
(* The invariant holds in every state careful callers can reach. *)
THEOREM EngineInvariant == Careful => (Spec => []EngineInv)
  <1> SUFFICES ASSUME Careful PROVE Spec => []EngineInv
    OBVIOUS
  <1>1. Init => EngineInv
    BY InitInv
  <1>2. EngineInv /\ [Next]_vars => EngineInv'
    BY StepInv, StutterInv DEF EngineStep
  <1> QED BY <1>1, <1>2, PTL DEF Spec

(* acquire_write_slot(), release_write_slot() and every path that ends a    *)
(* transaction: the owner the store has recorded is the one that writes.    *)
THEOREM SlotTheorem == Careful => (Spec => []SlotAgrees)
  <1>1. EngineInv => SlotAgrees
    BY DEF EngineInv
  <1> QED BY <1>1, EngineInvariant, PTL

(* begin_transaction(): until its first write a transaction reads the data  *)
(* committed when it began.                                                 *)
THEOREM ReadOnlyTheorem == Careful => (Spec => []ReadOnlyRepeatable)
  <1>1. EngineInv => ReadOnlyRepeatable
    BY EngineAssumption DEF EngineInv, ConnInv, ReadOnlyRepeatable, Below
  <1> QED BY <1>1, EngineInvariant, PTL

(* acquire_write_slot(): nobody else's write reaches the data while a       *)
(* connection holds the slot, so that it may read without a snapshot.       *)
THEOREM FrozenTheorem == Careful => (Spec => HolderViewFrozen)
  <1> DEFINE Frozen == db' # db => \A c \in Conn : conn[c].slot => conn'[c].tx # conn[c].tx
  <1> SUFFICES ASSUME Careful PROVE Spec => HolderViewFrozen
    OBVIOUS
  <1>1. ASSUME EngineInv, Next PROVE Frozen
    <2> SUFFICES ASSUME db' # db, NEW c \in Conn, conn[c].slot
                 PROVE  conn'[c].tx # conn[c].tx
      OBVIOUS
    <2>1. owner = c /\ call[c].at \notin {"apply", "release"}
      BY <1>1 DEF EngineInv, SlotAgrees, ConnInv, Writing
    <2>2. ASSUME NEW d \in Conn, AutoApply(d) PROVE FALSE
      <3>1. owner = d
        BY <1>1, <2>2 DEF EngineInv, SlotAgrees, Writing, AutoApply
      <3> QED BY <2>1, <2>2, <3>1 DEF AutoApply
    <2>3. ASSUME NEW d \in Conn, CommitTransaction(d) PROVE conn'[c].tx # conn[c].tx
      <3>1. CASE d = c
        BY <1>1, <2>3, <3>1 DEF CommitTransaction, EngineInv
      <3>2. CASE d # c
        <4>1. ~conn[d].slot
          BY <1>1, <2>1, <3>2 DEF EngineInv, SlotAgrees, Writing
        <4>2. conn[d].tx = Empty
          BY <1>1, <2>3, <4>1 DEF EngineInv, ConnInv, CommitTransaction
        <4> QED BY <1>1, <2>3, <4>2, ApplyEmpty DEF CommitTransaction, EngineInv
      <3> QED BY <3>1, <3>2
    <2>4. \E d \in Conn : AutoApply(d) \/ CommitTransaction(d)
      BY <1>1 DEF Next, Open, Close, NewIterator, UnregisterIterator, Disconnect,
          BeginTransaction, AcquireWriteSlot, ReleaseWriteSlot, Write,
          AutoAcquire, AutoRelease, RollbackTransaction, Finish
    <2> QED BY <2>2, <2>3, <2>4
  <1>2. EngineInv /\ [Next]_vars => [Frozen]_vars
    BY <1>1
  <1> QED BY <1>2, EngineInvariant, PTL DEF Spec, HolderViewFrozen

-----------------------------------------------------------------------------
(* The snapshots.  A connection has one only inside a transaction or while  *)
(* its commit or rollback is being finished, so that beginning another one  *)
(* never loses it; this needs no care of the callers.                       *)
Pinned == {c \in Conn : conn[c].snapshot # Nil}
SnapshotInv ==
    /\ db \in Data
    /\ conn \in [Conn -> Connection]
    /\ call \in [Conn -> [at : Calls, batch : Buffer]]
    /\ \A c \in Conn : conn[c].snapshot # Nil => conn[c].tx # Nil \/ call[c].at = "finish"
    /\ IsFiniteSet(Pinned) /\ snapshots = Cardinality(Pinned)
    /\ ~open => Pinned = {}

(* A step that gives connection c another state and leaves the others. *)
LEMMA SnapshotStep ==
  ASSUME SnapshotInv, NEW c \in Conn, db' \in Data, open' = open,
         NEW n \in Connection, NEW k \in [at : Calls, batch : Buffer],
         conn' = [conn EXCEPT ![c] = n], call' = [call EXCEPT ![c] = k],
         n.snapshot # Nil => n.tx # Nil \/ k.at = "finish",
         \/ (n.snapshot = Nil <=> conn[c].snapshot = Nil) /\ snapshots' = snapshots
         \/ n.snapshot = Nil /\ snapshots' = Dropped(conn[c])
         \/ /\ n.snapshot # Nil /\ conn[c].snapshot = Nil
            /\ open /\ snapshots' = snapshots + 1
  PROVE  SnapshotInv'
  <1>1. /\ conn' \in [Conn -> Connection]
        /\ call' \in [Conn -> [at : Calls, batch : Buffer]]
        /\ conn'[c] = n /\ call'[c] = k
        /\ \A d \in Conn \ {c} : conn'[d] = conn[d] /\ call'[d] = call[d]
    BY DEF SnapshotInv
  <1>2. \A d \in Conn : conn'[d].snapshot # Nil =>
           conn'[d].tx # Nil \/ call'[d].at = "finish"
    BY <1>1 DEF SnapshotInv
  <1>3. /\ IsFiniteSet(Pinned') /\ snapshots' = Cardinality(Pinned')
        /\ ~open' => Pinned' = {}
    <2>1. CASE (n.snapshot = Nil <=> conn[c].snapshot = Nil) /\ snapshots' = snapshots
      <3>1. Pinned' = Pinned
        BY <2>1, <1>1 DEF Pinned
      <3> QED BY <3>1, <2>1 DEF SnapshotInv
    <2>2. CASE n.snapshot = Nil /\ conn[c].snapshot # Nil /\ snapshots' = Dropped(conn[c])
      <3>1. Pinned' = Pinned \ {c} /\ c \in Pinned
        BY <2>2, <1>1 DEF Pinned
      <3>2. IsFiniteSet(Pinned') /\ Cardinality(Pinned') = Cardinality(Pinned) - 1
        BY <3>1, FS_RemoveElement DEF SnapshotInv
      <3> QED BY <3>1, <3>2, <2>2 DEF SnapshotInv, Dropped
    <2>3. CASE /\ n.snapshot # Nil /\ conn[c].snapshot = Nil
               /\ open /\ snapshots' = snapshots + 1
      <3>1. Pinned' = Pinned \cup {c} /\ c \notin Pinned
        BY <2>3, <1>1 DEF Pinned
      <3>2. IsFiniteSet(Pinned') /\ Cardinality(Pinned') = Cardinality(Pinned) + 1
        BY <3>1, FS_AddElement DEF SnapshotInv
      <3> QED BY <3>2, <2>3 DEF SnapshotInv
    <2> QED BY <2>1, <2>2, <2>3 DEF Dropped
  <1> QED BY <1>1, <1>2, <1>3 DEF SnapshotInv

LEMMA SnapshotNext ==
  ASSUME SnapshotInv, [Next]_vars
  PROVE  SnapshotInv'
  <1> USE DEF Idle, Calls
  <1> DEFINE T == [at : Calls, batch : Buffer]
  <1>0. ASSUME UNCHANGED <<db, snapshots, conn, call>>, ~open' => ~open \/ snapshots = 0
        PROVE  SnapshotInv'
    <2>1. Pinned' = Pinned
      BY <1>0 DEF Pinned
    <2>2. snapshots = 0 => Pinned = {}
      BY FS_EmptySet DEF SnapshotInv
    <2> QED BY <1>0, <2>1, <2>2 DEF SnapshotInv
  <1>1. CASE Open \/ Close \/ UNCHANGED vars
    BY <1>0, <1>1 DEF Open, Close, vars
  <1>2. ASSUME NEW c \in Conn, NewIterator(c) \/ UnregisterIterator(c) PROVE SnapshotInv'
    BY <1>0, <1>2 DEF NewIterator, UnregisterIterator
  <1>3. \A c \in Conn : /\ conn[c] \in Connection /\ call[c] \in T
                        /\ conn = [conn EXCEPT ![c] = conn[c]]
                        /\ call = [call EXCEPT ![c] = call[c]]
                        /\ conn[c].snapshot # Nil => conn[c].tx # Nil \/ call[c].at = "finish"
    BY DEF SnapshotInv
  <1>4. Done \in T /\ Done.at = "none" /\ Fresh.snapshot = Nil
    BY EmptyType DEF Done, Fresh
  <1>5. ASSUME NEW c \in Conn, Disconnect(c) \/ Finish(c) PROVE SnapshotInv'
    <2>1. /\ db' \in Data /\ open' = open /\ snapshots' = Dropped(conn[c])
          /\ conn' = [conn EXCEPT ![c] = Fresh]
          /\ \E k \in T : call' = [call EXCEPT ![c] = k]
      BY <1>5, <1>3, <1>4 DEF Disconnect, Finish, SnapshotInv
    <2> QED BY <2>1, <1>4, FreshType, SnapshotStep
  <1>6. ASSUME NEW c \in Conn, BeginTransaction(c) PROVE SnapshotInv'
    <2> DEFINE n == [conn[c] EXCEPT !.tx = Empty, !.snapshot = db, !.base = db]
    <2>1. n \in Connection /\ n.tx = Empty /\ n.snapshot = db
      BY <1>3, EmptyType DEF Connection, SnapshotInv
    <2>2. n.snapshot # Nil /\ conn[c].snapshot = Nil
      BY <1>6, <1>3, <2>1, EngineAssumption DEF BeginTransaction, SnapshotInv
    <2>3. n.tx # Nil
      BY <2>1, EmptyType, EngineAssumption
    <2>4. /\ db' \in Data /\ open' = open /\ open /\ snapshots' = snapshots + 1
          /\ conn' = [conn EXCEPT ![c] = n] /\ call' = [call EXCEPT ![c] = call[c]]
      BY <1>6, <1>3 DEF BeginTransaction, SnapshotInv
    <2> HIDE DEF n
    <2> QED BY <2>1, <2>2, <2>3, <2>4, <1>3, SnapshotStep
  <1>7. ASSUME NEW c \in Conn, AcquireWriteSlot(c) PROVE SnapshotInv'
    <2>1. Acquired(conn[c]) \in Connection /\ Acquired(conn[c]).snapshot = Nil
      BY <1>3 DEF Acquired, Connection
    <2>2. /\ db' \in Data /\ open' = open /\ snapshots' = Dropped(conn[c])
          /\ conn' = [conn EXCEPT ![c] = Acquired(conn[c])]
          /\ call' = [call EXCEPT ![c] = call[c]]
      BY <1>7, <1>3 DEF AcquireWriteSlot, SnapshotInv
    <2> QED BY <2>1, <2>2, <1>3, SnapshotStep
  <1>8. ASSUME NEW c \in Conn, ReleaseWriteSlot(c) PROVE SnapshotInv'
    <2> DEFINE n == [conn[c] EXCEPT !.slot = FALSE]
    <2>1. n \in Connection /\ n.snapshot = conn[c].snapshot /\ n.tx = conn[c].tx
      BY <1>3 DEF Connection
    <2>2. /\ db' \in Data /\ open' = open /\ snapshots' = snapshots
          /\ conn' = [conn EXCEPT ![c] = n] /\ call' = [call EXCEPT ![c] = call[c]]
      BY <1>8, <1>3 DEF ReleaseWriteSlot, SnapshotInv
    <2> HIDE DEF n
    <2> QED BY <2>1, <2>2, <1>3, SnapshotStep
  <1>9. ASSUME NEW c \in Conn, NEW b \in Batches, Write(c, b) PROVE SnapshotInv'
    <2> DEFINE m == IF conn[c].slot THEN conn[c] ELSE Acquired(conn[c])
               n == [m EXCEPT !.tx = Then(@, b)]
    <2>1. /\ m \in Connection /\ m.tx = conn[c].tx
          /\ m.snapshot = IF conn[c].slot THEN conn[c].snapshot ELSE Nil
      BY <1>3 DEF Acquired, Connection
    <2>2. conn[c].tx \in Buffer /\ Then(conn[c].tx, b) \in Buffer
      BY <1>9, <1>3, BatchType, ThenType DEF Write, Connection
    <2> HIDE DEF m
    <2>3. n \in Connection /\ n.tx = Then(conn[c].tx, b) /\ n.snapshot = m.snapshot
      BY <2>1, <2>2 DEF Connection
    <2>4. n.tx # Nil
      BY <2>2, <2>3, EngineAssumption
    <2>5. /\ db' \in Data /\ open' = open
          /\ snapshots' = IF conn[c].slot THEN snapshots ELSE Dropped(conn[c])
          /\ conn' = [conn EXCEPT ![c] = n] /\ call' = [call EXCEPT ![c] = call[c]]
      BY <1>9, <1>3 DEF Write, SnapshotInv, m
    <2> HIDE DEF n
    <2> QED BY <2>1, <2>3, <2>4, <2>5, <1>3, SnapshotStep
  <1>10. ASSUME NEW c \in Conn, NEW b \in Batches, AutoAcquire(c, b)
         PROVE  SnapshotInv'
    <2> DEFINE k == [at |-> "apply", batch |-> b]
    <2>1. k \in T
      BY BatchType
    <2>2. /\ db' \in Data /\ open' = open /\ snapshots' = snapshots
          /\ conn' = [conn EXCEPT ![c] = conn[c]] /\ call' = [call EXCEPT ![c] = k]
          /\ conn[c].snapshot = Nil
      BY <1>10, <1>3 DEF AutoAcquire, SnapshotInv
    <2> HIDE DEF k
    <2> QED BY <2>1, <2>2, <1>3, SnapshotStep
  <1>11. ASSUME NEW c \in Conn, AutoApply(c) \/ AutoRelease(c) PROVE SnapshotInv'
    <2>1. call[c].at \in {"apply", "release"}
      BY <1>11 DEF AutoApply, AutoRelease
    <2>2. [call[c] EXCEPT !.at = "release"] \in T
      BY <1>3
    <2>3. \E k \in T : call' = [call EXCEPT ![c] = k]
      BY <1>11, <2>2, <1>4 DEF AutoApply, AutoRelease
    <2>4. db' \in Data
      BY <1>11, <1>3, ApplyType DEF AutoApply, AutoRelease, SnapshotInv
    <2>5. /\ open' = open /\ snapshots' = snapshots
          /\ conn' = [conn EXCEPT ![c] = conn[c]]
      BY <1>11, <1>3 DEF AutoApply, AutoRelease
    <2>6. conn[c].snapshot # Nil => conn[c].tx # Nil
      BY <2>1, <1>3
    <2> QED BY <2>3, <2>4, <2>5, <2>6, <1>3, SnapshotStep
  <1>12. ASSUME NEW c \in Conn, CommitTransaction(c) \/ RollbackTransaction(c)
         PROVE  SnapshotInv'
    <2> DEFINE n == [conn[c] EXCEPT !.tx = Nil]
               k == [call[c] EXCEPT !.at = "finish"]
    <2>1. n \in Connection /\ n.snapshot = conn[c].snapshot /\ k \in T /\ k.at = "finish"
      BY <1>3 DEF Connection
    <2>2. conn[c].tx \in Buffer
      BY <1>12, <1>3 DEF CommitTransaction, RollbackTransaction, Connection
    <2>3. db' \in Data
      BY <1>12, <2>2, ApplyType DEF CommitTransaction, RollbackTransaction, SnapshotInv
    <2>4. /\ open' = open /\ snapshots' = snapshots
          /\ conn' = [conn EXCEPT ![c] = n] /\ call' = [call EXCEPT ![c] = k]
      BY <1>12 DEF CommitTransaction, RollbackTransaction
    <2> HIDE DEF n, k
    <2> QED BY <2>1, <2>3, <2>4, SnapshotStep
  <1> QED BY <1>1, <1>2, <1>5, <1>6, <1>7, <1>8, <1>9, <1>10, <1>11, <1>12 DEF Next

(* snapshot_count_ is the number of snapshots the connections have, and the *)
(* store is never closed under one, whatever the connections do             *)
(* (begin_transaction, release_snapshot, close).                            *)
THEOREM SnapshotTheorem == Spec => []SnapshotsCounted
  <1>1. Init => SnapshotInv
    <2> SUFFICES ASSUME Init PROVE SnapshotInv
      OBVIOUS
    <2>1. Pinned = {}
      BY DEF Init, Fresh, Pinned
    <2>2. db \in Data /\ conn \in [Conn -> Connection]
      BY EngineAssumption, FreshType DEF Init
    <2>3. call \in [Conn -> [at : Calls, batch : Buffer]]
      BY EmptyType DEF Init, Done, Calls
    <2> QED BY <2>1, <2>2, <2>3, FS_EmptySet DEF Init, SnapshotInv, Fresh
  <1>2. SnapshotInv /\ [Next]_vars => SnapshotInv'
    BY SnapshotNext
  <1>3. SnapshotInv => SnapshotsCounted
    BY DEF SnapshotInv, SnapshotsCounted, Pinned
  <1> QED BY <1>1, <1>2, <1>3, PTL DEF Spec

-----------------------------------------------------------------------------
(* The sessions. *)

(* What the theorems need of the clients: a transaction of several          *)
(* statements drops nothing.  A range removal in a transaction that has put *)
(* some of the keys is not what the transaction reads (CommitsWhatItRead).  *)
Separated ==
    Explicit => \A w \in Statements : w.kind \notin {"drop table", "drop database"}

Places == {"idle", "slot", "begin", "run", "commit", "rollback"}
SessionState ==
    [tx : BOOLEAN, failed : BOOLEAN, use : BOOLEAN, at : Places,
     stmt : Statements \cup {Nil}]

(* How a session s and its connection n with call k belong together over    *)
(* data d, wherever the statement is.  A holder of the slot reads the       *)
(* committed data below its buffer, although the transaction of a statement *)
(* takes a snapshot.                                                        *)
Shape(s, n, k, d) ==
    /\ k.at \in {"none", "finish"}
    /\ k.at = "finish" => s.at = "idle" /\ ~s.tx
    /\ s.tx => s.at \in {"idle", "slot", "run"} /\ Explicit
    /\ s.failed => s.tx /\ s.at = "idle"
    /\ n.tx # Nil <=> s.tx \/ s.at \in {"run", "commit", "rollback"}
    /\ s.at \in {"begin", "run", "commit", "rollback"} => n.slot
    /\ ~s.tx /\ s.at \in {"idle", "slot"} /\ k.at = "none" => n = Fresh
    /\ s.at \in {"slot", "begin", "run"} => s.stmt \in Statements
    /\ n.slot /\ k.at = "none" => n.snapshot \in {Nil, d}

(* What a connection reads, and the data a buffer makes of d. *)
Under(n, d) == IF n.snapshot # Nil THEN n.snapshot ELSE d
Reads(n, d, k) ==
    IF n.tx = Nil THEN Under(n, d)[k] ELSE LookupIn(n.tx, Under(n, d), k)
View(t, d) == [k \in Key |-> LookupIn(t, d, k)]

(* A transaction that may still commit shows whole data; it has removed no  *)
(* range, except as the only statement that is left to be committed.        *)
TxInv(s, t, d) ==
    /\ s.at # "rollback" /\ ~s.failed => Whole(View(t, d)) /\ Counted(View(t, d))
    /\ s.at = "run" /\ ~s.tx => t = Empty
    /\ s.at = "commit" => \A k \in Key : t[k].wiped => t[k].op = Untouched
    /\ s.at \notin {"commit", "rollback"} => \A k \in Key : ~t[k].wiped

(* A cursor u: the session waits for it, what the session reads now is one  *)
(* of its versions, and what it has read, in one range, is one of them.     *)
Row == Value \cup {Absent}
Cursor ==
    [plan : Plans, left : Seq(SUBSET Rows),
     got : UNION {[rs -> Row] : rs \in SUBSET Rows},
     versions : SUBSET [Rows -> Row]]
Seen(n, d) == [r \in Rows |-> Reads(n, d, r)]
CursorInv(s, n, k, u, d) ==
    /\ s.at = "idle" /\ k.at = "none" /\ ~s.failed
    /\ u \in Cursor
    /\ Seen(n, d) \in u.versions
    /\ Len(u.plan) = 1 =>
          \/ u.left = u.plan /\ DOMAIN u.got = {}
          \/ u.left = << >> /\ \E v \in u.versions :
                                  \A r \in DOMAIN u.got : u.got[r] = v[r]

Local(s, n, k, u, d) ==
    /\ Shape(s, n, k, d)
    /\ n.tx # Nil => TxInv(s, n.tx, d)
    /\ u # Nil => CursorInv(s, n, k, u, d)

SessionInv ==
    /\ EngineInv
    /\ open = TRUE
    /\ sess \in [Conn -> SessionState]
    /\ DOMAIN cursor = Conn
    /\ Whole(db) /\ Counted(db)
    /\ \A c \in Conn : Local(sess[c], conn[c], call[c], cursor[c], db)

-----------------------------------------------------------------------------
(* Buffers over data. *)
LEMMA ViewType ==
  ASSUME NEW t \in Buffer, NEW d \in Data
  PROVE  View(t, d) \in Data
  BY DEF View, LookupIn, Buffer, Op, Data

LEMMA ViewEmpty ==
  ASSUME NEW d \in Data
  PROVE  View(Empty, d) = d
  BY DEF View, LookupIn, Empty, Data

(* Appending a batch shows what the batch shows over what was shown. *)
LEMMA ViewThen ==
  ASSUME NEW t \in Buffer, NEW b \in Buffer, NEW d \in Data
  PROVE  View(Then(t, b), d) = View(b, View(t, d))
  <1> SUFFICES ASSUME NEW k \in Key
               PROVE  LookupIn(Then(t, b), d, k) = LookupIn(b, View(t, d), k)
    BY DEF View
  <1>1. View(t, d)[k] = LookupIn(t, d, k)
    BY DEF View
  <1>2. t[k] \in Op /\ b[k] \in Op
    BY DEF Buffer
  <1>3. CASE b[k].op # Untouched
    BY <1>3 DEF LookupIn, Then
  <1>4. CASE b[k].op = Untouched
    <2>1. Then(t, b)[k] = [t[k] EXCEPT !.wiped = t[k].wiped \/ b[k].wiped]
      BY <1>4 DEF Then
    <2>2. /\ Then(t, b)[k].op = t[k].op
          /\ Then(t, b)[k].wiped = (t[k].wiped \/ b[k].wiped)
      BY <2>1, <1>2 DEF Op
    <2> QED BY <1>1, <1>4, <2>2 DEF LookupIn
  <1> QED BY <1>3, <1>4

(* A buffer that puts nothing below a removed range commits what it shows. *)
LEMMA ApplyIsView ==
  ASSUME NEW t \in Buffer, NEW d \in Data,
         \A k \in Key : t[k].wiped => t[k].op = Untouched
  PROVE  Apply(d, t) = View(t, d)
  BY DEF Apply, View, LookupIn, Buffer, Data

(* Without removed ranges a scan shows what a lookup shows. *)
LEMMA ScanIsLookup ==
  ASSUME NEW t \in Buffer, NEW d, NEW k \in Key, ~t[k].wiped
  PROVE  ScanIn(t, d, k) = LookupIn(t, d, k)
  BY DEF ScanIn, LookupIn

(* Ranges a buffer has removed after it is continued. *)
LEMMA ThenWiped ==
  ASSUME NEW t \in Buffer, NEW b \in Buffer, \A k \in Key : ~t[k].wiped
  PROVE  /\ (\A k \in Key : ~b[k].wiped) => \A k \in Key : ~Then(t, b)[k].wiped
         /\ t = Empty /\ (\A k \in Key : b[k].wiped => b[k].op = Untouched)
              => \A k \in Key : Then(t, b)[k].wiped => Then(t, b)[k].op = Untouched
  BY DEF Then, Buffer, Op, Empty

-----------------------------------------------------------------------------
(* The batches of the statements, and what they show over data v. *)
Patch(v, ks, x) == [j \in Key |-> IF j \in ks THEN x ELSE v[j]]

LEMMA MetaKeys ==
  /\ Databases \in Key /\ Tables \in Key /\ Schema \in Key /\ Stats \in Key
  /\ Rows \subseteq Key
  /\ Listed \in Value /\ Unlisted \in Value /\ 0 \in Value /\ Listed # Unlisted
  /\ Absent \notin Value /\ Untouched \notin Value /\ Untouched # Absent
  /\ Listed # Absent /\ Unlisted # Absent
  <1>1. 0 = Unlisted /\ 1 = Listed
    BY DEF Listed, Unlisted
  <1> QED BY <1>1, SessionAssumption, EngineAssumption

LEMMA PutShows ==
  ASSUME NEW k \in Key, NEW x \in Value, NEW v \in Data
  PROVE  /\ Put(k, x) \in Buffer
         /\ \A j \in Key : ~Put(k, x)[j].wiped
         /\ View(Put(k, x), v) = Patch(v, {k}, x)
  <1>1. Put(k, x) \in Buffer
    BY DEF Put, Empty, Buffer, Op
  <1>2. \A j \in Key : /\ Put(k, x)[j].op = IF j = k THEN x ELSE Untouched
                       /\ ~Put(k, x)[j].wiped
    BY DEF Put, Empty
  <1>3. x # Untouched
    BY MetaKeys
  <1>4. View(Put(k, x), v) = Patch(v, {k}, x)
    BY <1>2, <1>3 DEF View, LookupIn, Patch
  <1> QED BY <1>1, <1>2, <1>4

LEMMA RemoveShows ==
  ASSUME NEW k \in Key, NEW v \in Data
  PROVE  /\ Remove(k) \in Buffer
         /\ \A j \in Key : ~Remove(k)[j].wiped
         /\ View(Remove(k), v) = Patch(v, {k}, Absent)
  <1>1. Remove(k) \in Buffer
    BY DEF Remove, Empty, Buffer, Op
  <1>2. \A j \in Key : /\ Remove(k)[j].op = IF j = k THEN Absent ELSE Untouched
                       /\ ~Remove(k)[j].wiped
    BY DEF Remove, Empty
  <1>3. Absent # Untouched
    BY MetaKeys
  <1>4. View(Remove(k), v) = Patch(v, {k}, Absent)
    BY <1>2, <1>3 DEF View, LookupIn, Patch
  <1> QED BY <1>1, <1>2, <1>4

LEMMA RangeShows ==
  ASSUME NEW ks \in SUBSET Key, NEW v \in Data
  PROVE  /\ RemoveRange(ks) \in Buffer
         /\ \A j \in Key : RemoveRange(ks)[j].op = Untouched
         /\ View(RemoveRange(ks), v) = Patch(v, ks, Absent)
  <1>1. RemoveRange(ks) \in Buffer
    BY DEF RemoveRange, Buffer, Op
  <1>2. \A j \in Key : /\ RemoveRange(ks)[j].op = Untouched
                       /\ RemoveRange(ks)[j].wiped <=> (j \in ks)
    BY DEF RemoveRange
  <1>3. View(RemoveRange(ks), v) = Patch(v, ks, Absent)
    BY <1>2 DEF View, LookupIn, Patch
  <1> QED BY <1>1, <1>2, <1>3

LEMMA PutAllShows ==
  ASSUME NEW ks \in SUBSET Key, NEW x \in Value, NEW v \in Data
  PROVE  /\ PutAll(ks, x) \in Buffer
         /\ \A j \in Key : ~PutAll(ks, x)[j].wiped
         /\ View(PutAll(ks, x), v) = Patch(v, ks, x)
  <1>1. \A j \in Key : Put(j, x)[j] \in Op /\ Empty[j] \in Op
    BY PutShows, EmptyType DEF Buffer
  <1>2. \A j \in Key : /\ Put(j, x)[j].op = x /\ ~Put(j, x)[j].wiped
                       /\ Empty[j].op = Untouched /\ ~Empty[j].wiped
    BY DEF Put, Empty
  <1>3. PutAll(ks, x) \in Buffer
    BY <1>1 DEF PutAll, Buffer
  <1>4. \A j \in Key : /\ PutAll(ks, x)[j].op = IF j \in ks THEN x ELSE Untouched
                       /\ ~PutAll(ks, x)[j].wiped
    BY <1>2 DEF PutAll
  <1>5. x # Untouched
    BY MetaKeys
  <1>6. View(PutAll(ks, x), v) = Patch(v, ks, x)
    BY <1>4, <1>5 DEF View, LookupIn, Patch
  <1> QED BY <1>3, <1>4, <1>6

LEMMA RemoveAllShows ==
  ASSUME NEW ks \in SUBSET Key, NEW v \in Data
  PROVE  /\ RemoveAll(ks) \in Buffer
         /\ \A j \in Key : ~RemoveAll(ks)[j].wiped
         /\ View(RemoveAll(ks), v) = Patch(v, ks, Absent)
  <1>1. \A j \in Key : Remove(j)[j] \in Op /\ Empty[j] \in Op
    BY RemoveShows, EmptyType DEF Buffer
  <1>2. \A j \in Key : /\ Remove(j)[j].op = Absent /\ ~Remove(j)[j].wiped
                       /\ Empty[j].op = Untouched /\ ~Empty[j].wiped
    BY DEF Remove, Empty
  <1>3. RemoveAll(ks) \in Buffer
    BY <1>1 DEF RemoveAll, Buffer
  <1>4. \A j \in Key : /\ RemoveAll(ks)[j].op = IF j \in ks THEN Absent ELSE Untouched
                       /\ ~RemoveAll(ks)[j].wiped
    BY <1>2 DEF RemoveAll
  <1>5. Absent # Untouched
    BY MetaKeys
  <1>6. View(RemoveAll(ks), v) = Patch(v, ks, Absent)
    BY <1>4, <1>5 DEF View, LookupIn, Patch
  <1> QED BY <1>3, <1>4, <1>6

LEMMA EmptyShows ==
  ASSUME NEW v \in Data
  PROVE  Empty \in Buffer /\ (\A j \in Key : ~Empty[j].wiped) /\ View(Empty, v) = v
  BY EmptyType, ViewEmpty DEF Empty

-----------------------------------------------------------------------------
(* What a statement makes of whole data: v is what its connection reads. *)
Present(v) == {r \in Rows : v[r] # Absent}

LEMMA CountIs ==
  ASSUME NEW v \in Data
  PROVE  /\ IsFiniteSet(Present(v)) /\ Cardinality(Present(v)) \in Nat
         /\ Cardinality(Present(v)) \in Value
         /\ Counted(v) <=> IF v[Stats] = Absent THEN Cardinality(Present(v)) = 0
                           ELSE v[Stats] = Cardinality(Present(v))
  <1>1. IsFiniteSet(Rows) /\ Present(v) \in SUBSET Rows
    BY SessionAssumption DEF Present
  <1>2. /\ IsFiniteSet(Present(v)) /\ Cardinality(Present(v)) \in Nat
        /\ Cardinality(Rows) \in Nat /\ Cardinality(Present(v)) <= Cardinality(Rows)
    BY <1>1, FS_Subset, FS_CardinalityType
  <1>3. Cardinality(Present(v)) \in 0 .. Cardinality(Rows)
    BY <1>2
  <1>4. Cardinality(Present(v)) \in Value
    BY <1>3, SessionAssumption
  <1> QED BY <1>2, <1>4 DEF Counted, Present

(* Data that differ only in rows, with the row count brought up to date. *)
LEMMA Recounted ==
  ASSUME NEW v \in Data, NEW u \in Data, Whole(v), v[Schema] # Absent,
         \A k \in Key \ (Rows \cup {Stats}) : u[k] = v[k],
         u[Stats] = Cardinality(Present(u))
  PROVE  Whole(u) /\ Counted(u)
  <1>1. u[Stats] # Absent
    BY CountIs, MetaKeys
  <1>2. u[Databases] = v[Databases] /\ u[Tables] = v[Tables] /\ u[Schema] = v[Schema]
    BY MetaKeys, SessionAssumption
  <1>3. v[Stats] # Absent
    BY DEF Whole
  <1> QED BY <1>1, <1>2, <1>3, CountIs DEF Whole

(* The rows that are removed, or are not there. *)
LEMMA NoRows ==
  ASSUME NEW v \in Data, \A r \in Rows : v[r] = Absent
  PROVE  Cardinality(Present(v)) = 0
  <1>1. Present(v) = {}
    BY DEF Present
  <1> QED BY <1>1, FS_EmptySet

(* touch_table() writes the new count. *)
LEMMA TouchPuts ==
  ASSUME NEW c \in Conn, NEW v \in Data, \A k \in Key : Lookup(c, k) = v[k],
         v[Tables] = Listed, v[Stats] # Absent, v[Stats] \in Nat,
         NEW up \in Nat, NEW down \in Nat, down <= v[Stats] + up
  PROVE  TouchTable(c, up, down) = Put(Stats, v[Stats] + up - down)
  BY MetaKeys DEF TouchTable, ReadMeta, TableExists, WriteMeta

(* The batch of a statement over the data it reads. *)
Good(b, v) ==
    /\ b \in Buffer
    /\ Whole(View(b, v)) /\ Counted(View(b, v))
    /\ \A k \in Key : b[k].wiped => b[k].op = Untouched
Unranged(b) == \A k \in Key : ~b[k].wiped

LEMMA EmptyGood ==
  ASSUME NEW v \in Data, Whole(v), Counted(v)
  PROVE  Good(Empty, v) /\ Unranged(Empty)
  BY EmptyShows DEF Good, Unranged

LEMMA UnrangedThen ==
  ASSUME NEW a \in Buffer, NEW b \in Buffer, Unranged(a), Unranged(b)
  PROVE  Unranged(Then(a, b)) /\ \A k \in Key : Then(a, b)[k].wiped => Then(a, b)[k].op = Untouched
  BY DEF Then, Buffer, Op, Unranged

(* Rows are changed and the number of rows there are then is written. *)
LEMMA RowsGood ==
  ASSUME NEW v \in Data, Whole(v), v[Schema] # Absent, NEW a \in Buffer, Unranged(a),
         \A k \in Key \ Rows : View(a, v)[k] = v[k],
         NEW m, m = Cardinality(Present(View(a, v)))
  PROVE  LET b == Then(a, Put(Stats, m)) IN Good(b, v) /\ Unranged(b)
  <1> DEFINE u == View(a, v)
             b == Put(Stats, m)
             z == View(Then(a, b), v)
  <1>1. u \in Data /\ m \in Value
    BY ViewType, CountIs
  <1>2. b \in Buffer /\ Unranged(b) /\ View(b, u) = Patch(u, {Stats}, m)
    BY <1>1, PutShows, MetaKeys DEF Unranged
  <1>3. z = Patch(u, {Stats}, m)
    BY <1>2, ViewThen
  <1> HIDE DEF b
  <1>4. z \in Data /\ Then(a, b) \in Buffer
    BY <1>2, ThenType, ViewType
  <1>5. Present(z) = Present(u) /\ z[Stats] = m
    BY <1>3, MetaKeys, SessionAssumption DEF Present, Patch
  <1>6. \A k \in Key \ (Rows \cup {Stats}) : z[k] = v[k]
    BY <1>3 DEF Patch
  <1>7. Whole(z) /\ Counted(z)
    <2> HIDE DEF z
    <2> QED BY <1>4, <1>5, <1>6, Recounted
  <1>8. Unranged(Then(a, b)) /\ \A k \in Key : Then(a, b)[k].wiped => Then(a, b)[k].op = Untouched
    BY <1>2, UnrangedThen
  <1> QED BY <1>4, <1>7, <1>8 DEF Good, b

(* Facts about a table that exists. *)
LEMMA TableIs ==
  ASSUME NEW v \in Data, Whole(v), Counted(v), v[Schema] # Absent
  PROVE  /\ v[Stats] # Absent /\ v[Tables] = Listed
         /\ v[Stats] = Cardinality(Present(v)) /\ v[Stats] \in Nat
  BY CountIs DEF Whole

LEMMA InsertGood ==
  ASSUME NEW c \in Conn, NEW v \in Data, \A k \in Key : Lookup(c, k) = v[k],
         Whole(v), Counted(v), NEW rs \in SUBSET Rows, NEW x \in Value,
         v[Schema] # Absent, \A r \in rs : v[r] = Absent
  PROVE  LET b == Then(PutAll(rs, x), TouchTable(c, Cardinality(rs), 0))
         IN  Good(b, v) /\ Unranged(b)
  <1> DEFINE a == PutAll(rs, x)
             u == View(a, v)
             m == v[Stats] + Cardinality(rs) - 0
  <1>1. rs \in SUBSET Key /\ IsFiniteSet(rs) /\ Cardinality(rs) \in Nat
    BY MetaKeys, SessionAssumption, FS_Subset, FS_CardinalityType
  <1>2. a \in Buffer /\ Unranged(a) /\ u = Patch(v, rs, x)
    BY <1>1, PutAllShows DEF Unranged
  <1>3. Present(u) = Present(v) \cup rs /\ Present(v) \cap rs = {}
    BY <1>1, <1>2, MetaKeys DEF Present, Patch
  <1>4. IsFiniteSet(Present(v)) /\ Cardinality(Present(v)) \in Nat
    BY CountIs
  <1>5. Cardinality(Present(v) \cup rs) =
          Cardinality(Present(v)) + Cardinality(rs) - Cardinality(Present(v) \cap rs)
    BY <1>1, <1>4, FS_Union
  <1>6. Cardinality(Present(v) \cap rs) = 0
    BY <1>3, FS_EmptySet
  <1>7. Cardinality(Present(u)) = m
    BY <1>1, <1>3, <1>4, <1>5, <1>6, TableIs
  <1>8. TouchTable(c, Cardinality(rs), 0) = Put(Stats, m)
    BY <1>1, TouchPuts, TableIs
  <1>9. \A k \in Key \ Rows : u[k] = v[k]
    BY <1>2 DEF Patch
  <1> HIDE DEF a, m
  <1> QED BY <1>2, <1>7, <1>8, <1>9, RowsGood DEF a

LEMMA UpdateGood ==
  ASSUME NEW c \in Conn, NEW v \in Data, \A k \in Key : Lookup(c, k) = v[k],
         Whole(v), Counted(v), NEW rs \in SUBSET Rows, NEW x \in Value,
         v[Schema] # Absent, \A r \in rs : v[r] # Absent
  PROVE  LET b == Then(PutAll(rs, x), TouchTable(c, 0, 0))
         IN  Good(b, v) /\ Unranged(b)
  <1> DEFINE a == PutAll(rs, x)
             u == View(a, v)
             m == v[Stats] + 0 - 0
  <1>1. rs \in SUBSET Key
    BY MetaKeys
  <1>2. a \in Buffer /\ Unranged(a) /\ u = Patch(v, rs, x)
    BY <1>1, PutAllShows DEF Unranged
  <1>3. Present(u) = Present(v)
    BY <1>1, <1>2, MetaKeys DEF Present, Patch
  <1>4. Cardinality(Present(u)) = m
    BY <1>3, TableIs
  <1>5. TouchTable(c, 0, 0) = Put(Stats, m)
    BY TouchPuts, TableIs
  <1>6. \A k \in Key \ Rows : u[k] = v[k]
    BY <1>2 DEF Patch
  <1> HIDE DEF a, m
  <1> QED BY <1>2, <1>4, <1>5, <1>6, RowsGood DEF a

LEMMA DeleteGood ==
  ASSUME NEW c \in Conn, NEW v \in Data, \A k \in Key : Lookup(c, k) = v[k],
         Whole(v), Counted(v), NEW rs \in SUBSET Rows,
         v[Schema] # Absent, \A r \in rs : v[r] # Absent
  PROVE  LET b == Then(RemoveAll(rs), TouchTable(c, 0, Cardinality(rs)))
         IN  Good(b, v) /\ Unranged(b)
  <1> DEFINE a == RemoveAll(rs)
             u == View(a, v)
             m == v[Stats] + 0 - Cardinality(rs)
  <1>1. rs \in SUBSET Key /\ IsFiniteSet(rs) /\ Cardinality(rs) \in Nat
    BY MetaKeys, SessionAssumption, FS_Subset, FS_CardinalityType
  <1>2. a \in Buffer /\ Unranged(a) /\ u = Patch(v, rs, Absent)
    BY <1>1, RemoveAllShows DEF Unranged
  <1>3. Present(u) = Present(v) \ rs /\ Present(v) \cap rs = rs /\ rs \in SUBSET Present(v)
    BY <1>1, <1>2, MetaKeys DEF Present, Patch
  <1>4. IsFiniteSet(Present(v)) /\ Cardinality(Present(v)) \in Nat
    BY CountIs
  <1>5. /\ Cardinality(Present(v) \ rs) =
             Cardinality(Present(v)) - Cardinality(Present(v) \cap rs)
        /\ Cardinality(rs) <= Cardinality(Present(v))
    BY <1>3, <1>4, FS_Difference, FS_Subset
  <1>6. Cardinality(Present(u)) = m
    <2>1. Cardinality(Present(u)) = Cardinality(Present(v)) - Cardinality(rs)
      BY <1>3, <1>5
    <2>2. v[Stats] = Cardinality(Present(v))
      BY TableIs
    <2> QED BY <2>1, <2>2, <1>1, <1>4
  <1>7. TouchTable(c, 0, Cardinality(rs)) = Put(Stats, m)
    BY <1>1, <1>4, <1>5, TouchPuts, TableIs
  <1>8. \A k \in Key \ Rows : u[k] = v[k]
    BY <1>2 DEF Patch
  <1> HIDE DEF a, m
  <1> QED BY <1>2, <1>6, <1>7, <1>8, RowsGood DEF a


LEMMA PatchType ==
  ASSUME NEW v \in Data, NEW ks, NEW x \in Value \cup {Absent}
  PROVE  Patch(v, ks, x) \in Data
  BY DEF Patch, Data

(* A statement that ends with puts or removes of single keys. *)
LEMMA CleanThen ==
  ASSUME NEW a \in Buffer, NEW b \in Buffer, Unranged(b),
         \A k \in Key : a[k].wiped => a[k].op = Untouched
  PROVE  /\ Then(a, b) \in Buffer
         /\ \A k \in Key : Then(a, b)[k].wiped => Then(a, b)[k].op = Untouched
  <1>1. Then(a, b) \in Buffer
    BY ThenType
  <1>2. \A k \in Key : Then(a, b)[k].wiped => Then(a, b)[k].op = Untouched
    BY DEF Then, Buffer, Op, Unranged
  <1> QED BY <1>1, <1>2

LEMMA CreateTableGood ==
  ASSUME NEW v \in Data, Whole(v), Counted(v),
         v[Databases] = Listed, v[Tables] # Listed
  PROVE  Good(CreateTable, v) /\ Unranged(CreateTable)
  <1> DEFINE a1 == Put(Schema, Listed)
             a2 == Put(Stats, 0)
             a3 == Put(Tables, Listed)
             v1 == Patch(v, {Schema}, Listed)
             v2 == Patch(v1, {Stats}, 0)
             v3 == Patch(v2, {Tables}, Listed)
  <1>1. v1 \in Data /\ v2 \in Data /\ v3 \in Data
    BY PatchType, MetaKeys
  <1>2. a1 \in Buffer /\ Unranged(a1) /\ View(a1, v) = v1
    BY PutShows, MetaKeys DEF Unranged
  <1>3. a2 \in Buffer /\ Unranged(a2) /\ View(a2, v1) = v2
    BY <1>1, PutShows, MetaKeys DEF Unranged
  <1>4. a3 \in Buffer /\ Unranged(a3) /\ View(a3, v2) = v3
    BY <1>1, PutShows, MetaKeys DEF Unranged
  <1>5. v[Stats] = Absent /\ Cardinality(Present(v)) = 0
    BY CountIs DEF Whole
  <1>6. /\ v3[Schema] = Listed /\ v3[Stats] = 0 /\ v3[Tables] = Listed
        /\ v3[Databases] = Listed /\ Present(v3) = Present(v)
    BY MetaKeys, SessionAssumption DEF Patch, Present
  <1> HIDE DEF a1, a2, a3, v1, v2, v3
  <1>7. Then(a1, a2) \in Buffer /\ Unranged(Then(a1, a2)) /\ View(Then(a1, a2), v) = v2
    BY <1>2, <1>3, ThenType, UnrangedThen, ViewThen
  <1> DEFINE b == Then(Then(a1, a2), a3)
  <1>8. b \in Buffer /\ Unranged(b) /\ View(b, v) = v3
    BY <1>4, <1>7, ThenType, UnrangedThen, ViewThen
  <1>9. Whole(v3)
    BY <1>6, MetaKeys DEF Whole
  <1>10. Counted(v3)
    BY <1>1, <1>5, <1>6, MetaKeys, CountIs
  <1>11. CreateTable = b
    BY DEF CreateTable, WriteMeta, a1, a2, a3
  <1> QED BY <1>8, <1>9, <1>10, <1>11 DEF Good, Unranged

LEMMA CreateDatabaseGood ==
  ASSUME NEW v \in Data, Whole(v), Counted(v), v[Databases] # Listed
  PROVE  Good(CreateDatabase, v) /\ Unranged(CreateDatabase)
  <1> DEFINE a1 == Put(Databases, Listed)
             a2 == Put(Tables, Unlisted)
             v1 == Patch(v, {Databases}, Listed)
             v2 == Patch(v1, {Tables}, Unlisted)
             b == Then(a1, a2)
  <1>1. v1 \in Data /\ v2 \in Data
    BY PatchType, MetaKeys
  <1>2. a1 \in Buffer /\ Unranged(a1) /\ View(a1, v) = v1
    BY PutShows, MetaKeys DEF Unranged
  <1>3. a2 \in Buffer /\ Unranged(a2) /\ View(a2, v1) = v2
    BY <1>1, PutShows, MetaKeys DEF Unranged
  <1>4. v[Tables] = Absent /\ v[Schema] = Absent /\ v[Stats] = Absent
        /\ Cardinality(Present(v)) = 0
    BY CountIs, MetaKeys DEF Whole
  <1>5. /\ v2[Schema] = Absent /\ v2[Stats] = Absent /\ v2[Tables] = Unlisted
        /\ v2[Databases] = Listed /\ Present(v2) = Present(v)
    BY <1>4, MetaKeys, SessionAssumption DEF Patch, Present
  <1> HIDE DEF a1, a2, v1, v2
  <1>6. b \in Buffer /\ Unranged(b) /\ View(b, v) = v2
    BY <1>2, <1>3, ThenType, UnrangedThen, ViewThen
  <1>7. Whole(v2)
    BY <1>5, MetaKeys DEF Whole
  <1>8. Counted(v2)
    BY <1>1, <1>4, <1>5, CountIs
  <1>9. CreateDatabase = b
    BY DEF CreateDatabase, WriteMeta, a1, a2
  <1> QED BY <1>6, <1>7, <1>8, <1>9 DEF Good, Unranged

LEMMA DropTableGood ==
  ASSUME NEW v \in Data, Whole(v), v[Databases] = Listed
  PROVE  Good(DropTable, v)
  <1> DEFINE a1 == RemoveRange(Rows)
             a2 == RemoveAll({Schema, Stats})
             a3 == Put(Tables, Unlisted)
             v1 == Patch(v, Rows, Absent)
             v2 == Patch(v1, {Schema, Stats}, Absent)
             v3 == Patch(v2, {Tables}, Unlisted)
  <1>1. v1 \in Data /\ v2 \in Data /\ v3 \in Data
    BY PatchType, MetaKeys
  <1>2. /\ a1 \in Buffer /\ View(a1, v) = v1
        /\ \A k \in Key : a1[k].wiped => a1[k].op = Untouched
    BY RangeShows, MetaKeys
  <1>3. a2 \in Buffer /\ Unranged(a2) /\ View(a2, v1) = v2
    <2>1. {Schema, Stats} \in SUBSET Key
      BY MetaKeys
    <2> QED BY <1>1, <2>1, RemoveAllShows DEF Unranged
  <1>4. a3 \in Buffer /\ Unranged(a3) /\ View(a3, v2) = v3
    BY <1>1, PutShows, MetaKeys DEF Unranged
  <1>5. /\ v3[Schema] = Absent /\ v3[Stats] = Absent /\ v3[Tables] = Unlisted
        /\ v3[Databases] = Listed /\ \A r \in Rows : v3[r] = Absent
    BY MetaKeys, SessionAssumption DEF Patch
  <1> HIDE DEF a1, a2, a3, v1, v2, v3
  <1>6. /\ Then(a1, a2) \in Buffer /\ View(Then(a1, a2), v) = v2
        /\ \A k \in Key : Then(a1, a2)[k].wiped => Then(a1, a2)[k].op = Untouched
    BY <1>2, <1>3, CleanThen, ViewThen
  <1> DEFINE b == Then(Then(a1, a2), a3)
  <1>7. /\ b \in Buffer /\ View(b, v) = v3
        /\ \A k \in Key : b[k].wiped => b[k].op = Untouched
    BY <1>4, <1>6, CleanThen, ViewThen
  <1>8. Whole(v3)
    BY <1>5, MetaKeys DEF Whole
  <1>9. Counted(v3)
    BY <1>1, <1>5, CountIs, NoRows
  <1>10. DropTable = b
    BY DEF DropTable, WriteMeta, RemovePrefix, a1, a2, a3
  <1> QED BY <1>7, <1>8, <1>9, <1>10 DEF Good

LEMMA DropDatabaseGood ==
  ASSUME NEW v \in Data
  PROVE  Good(DropDatabase, v)
  <1> DEFINE ks == Rows \cup {Schema, Stats}
             a1 == RemoveRange(ks)
             a2 == Remove(Tables)
             a3 == Put(Databases, Unlisted)
             v1 == Patch(v, ks, Absent)
             v2 == Patch(v1, {Tables}, Absent)
             v3 == Patch(v2, {Databases}, Unlisted)
  <1>1. v1 \in Data /\ v2 \in Data /\ v3 \in Data
    BY PatchType, MetaKeys
  <1>2. /\ a1 \in Buffer /\ View(a1, v) = v1
        /\ \A k \in Key : a1[k].wiped => a1[k].op = Untouched
    <2>1. ks \in SUBSET Key
      BY MetaKeys
    <2> HIDE DEF ks
    <2> QED BY <2>1, RangeShows
  <1>3. a2 \in Buffer /\ Unranged(a2) /\ View(a2, v1) = v2
    BY <1>1, RemoveShows, MetaKeys DEF Unranged
  <1>4. a3 \in Buffer /\ Unranged(a3) /\ View(a3, v2) = v3
    BY <1>1, PutShows, MetaKeys DEF Unranged
  <1>5. /\ v3[Schema] = Absent /\ v3[Stats] = Absent /\ v3[Tables] = Absent
        /\ v3[Databases] = Unlisted /\ \A r \in Rows : v3[r] = Absent
    BY MetaKeys, SessionAssumption DEF Patch
  <1> HIDE DEF a1, a2, a3, v1, v2, v3
  <1>6. /\ Then(a1, a2) \in Buffer /\ View(Then(a1, a2), v) = v2
        /\ \A k \in Key : Then(a1, a2)[k].wiped => Then(a1, a2)[k].op = Untouched
    BY <1>2, <1>3, CleanThen, ViewThen
  <1> DEFINE b == Then(Then(a1, a2), a3)
  <1>7. /\ b \in Buffer /\ View(b, v) = v3
        /\ \A k \in Key : b[k].wiped => b[k].op = Untouched
    BY <1>4, <1>6, CleanThen, ViewThen
  <1>8. Whole(v3)
    BY <1>5, MetaKeys DEF Whole
  <1>9. Counted(v3)
    BY <1>1, <1>5, CountIs, NoRows
  <1>10. DropDatabase = b
    BY DEF DropDatabase, WriteMeta, RemovePrefix, a1, a2, a3
  <1> QED BY <1>7, <1>8, <1>9, <1>10 DEF Good

(* Every statement that succeeds leaves whole data. *)
LEMMA EffectGood ==
  ASSUME NEW c \in Conn, NEW v \in Data,
         \A k \in Key : Lookup(c, k) = v[k] /\ Scanned(c, k) = v[k],
         Whole(v), Counted(v), NEW w \in Statement, Runs(c, w)
  PROVE  /\ Good(Effect(c, w), v)
         /\ w.kind \notin {"drop table", "drop database"} => Unranged(Effect(c, w))
  <1>1. w.rows \in SUBSET Rows /\ w.value \in Value /\ w.kind \in Kinds
    BY DEF Statement
  <1>2. \A k \in Key : Lookup(c, k) = v[k]
    OBVIOUS
  <1>3. CASE w.kind = "insert"
    <2>1. v[Schema] # Absent /\ \A r \in w.rows : v[r] = Absent
      BY <1>1, <1>3, MetaKeys DEF Runs, OpenTable, HasSchema, ReadMeta, Unseen, Exists
    <2>2. Effect(c, w) = Then(PutAll(w.rows, w.value), TouchTable(c, Cardinality(w.rows), 0))
      BY <1>3 DEF Effect, InsertRows
    <2> QED BY <1>1, <1>2, <2>1, <2>2, InsertGood
  <1>4. CASE w.kind \in {"update", "delete"}
    <2> DEFINE rs == Selected(c, w.rows)
    <2>1. v[Schema] # Absent
      BY <1>4, MetaKeys DEF Runs, OpenTable, HasSchema, ReadMeta
    <2>2. rs \in SUBSET Rows /\ \A r \in rs : v[r] # Absent
      BY <1>1, MetaKeys DEF Selected, Shown
    <2>3. \/ Effect(c, w) = Empty
          \/ Effect(c, w) = Then(PutAll(rs, w.value), TouchTable(c, 0, 0))
          \/ Effect(c, w) = Then(RemoveAll(rs), TouchTable(c, 0, Cardinality(rs)))
      BY <1>4 DEF Effect, UpdateRows, DeleteRows
    <2> HIDE DEF rs
    <2> QED BY <1>1, <1>2, <2>1, <2>2, <2>3, EmptyGood, UpdateGood, DeleteGood
  <1>5. CASE w.kind = "create table"
    <2>1. v[Databases] = Listed /\ v[Tables] # Listed
      BY <1>5, MetaKeys DEF Runs, DatabaseExists, TableExists, ReadMeta
    <2> QED BY <2>1, <1>5, CreateTableGood DEF Effect
  <1>6. CASE w.kind = "drop table"
    <2>1. v[Databases] = Listed
      BY <1>6, MetaKeys DEF Runs, DatabaseExists, ReadMeta
    <2> QED BY <2>1, <1>6, DropTableGood DEF Effect
  <1>7. CASE w.kind = "create database"
    <2>1. v[Databases] # Listed
      BY <1>7, MetaKeys DEF Runs, DatabaseExists, ReadMeta
    <2> QED BY <2>1, <1>7, CreateDatabaseGood DEF Effect
  <1>8. CASE w.kind = "drop database"
    BY <1>8, DropDatabaseGood DEF Effect
  <1>9. CASE w.kind = "use"
    BY <1>9, EmptyGood DEF Effect
  <1> QED BY <1>1, <1>3, <1>4, <1>5, <1>6, <1>7, <1>8, <1>9 DEF Kinds

-----------------------------------------------------------------------------
(* Steps of one session. *)
LEMMA OneSession ==
  ASSUME SessionInv, EngineInv', open' = TRUE, db' = db, NEW c \in Conn,
         NEW s \in SessionState, sess' = [sess EXCEPT ![c] = s],
         \A e \in Conn \ {c} : /\ conn'[e] = conn[e] /\ call'[e] = call[e]
                               /\ cursor'[e] = cursor[e],
         DOMAIN cursor' = Conn,
         Local(s, conn'[c], call'[c], cursor'[c], db)
  PROVE  SessionInv'
  <1>1. sess' \in [Conn -> SessionState] /\ sess'[c] = s
        /\ \A e \in Conn \ {c} : sess'[e] = sess[e]
    BY DEF SessionInv
  <1>2. \A e \in Conn : Local(sess'[e], conn'[e], call'[e], cursor'[e], db')
    BY <1>1 DEF SessionInv
  <1>3. Whole(db') /\ Counted(db')
    BY DEF SessionInv
  <1> QED BY <1>1, <1>2, <1>3 DEF SessionInv

(* What the invariant says of one session. *)
LEMMA SessionFacts ==
  ASSUME SessionInv, NEW c \in Conn
  PROVE  /\ sess[c] \in SessionState /\ conn[c] \in Connection
         /\ call[c] \in [at : Calls, batch : Buffer] /\ db \in Data
         /\ Shape(sess[c], conn[c], call[c], db)
         /\ conn[c].tx # Nil => conn[c].tx \in Buffer /\ TxInv(sess[c], conn[c].tx, db)
         /\ cursor[c] # Nil => CursorInv(sess[c], conn[c], call[c], cursor[c], db)
         /\ sess[c].at # "idle" \/ call[c].at # "none" => cursor[c] = Nil
  BY DEF SessionInv, EngineInv, Local, Connection, CursorInv

LEMMA NilCursor ==
  ASSUME SessionInv, EngineInv', open' = TRUE, db' = db, NEW c \in Conn,
         NEW s \in SessionState, sess' = [sess EXCEPT ![c] = s],
         \A e \in Conn \ {c} : conn'[e] = conn[e] /\ call'[e] = call[e],
         cursor' = cursor, cursor[c] = Nil,
         Shape(s, conn'[c], call'[c], db),
         conn'[c].tx # Nil => TxInv(s, conn'[c].tx, db)
  PROVE  SessionInv'
  <1>1. Local(s, conn'[c], call'[c], cursor'[c], db)
    BY DEF Local
  <1>2. DOMAIN cursor' = Conn
    BY DEF SessionInv
  <1> QED BY <1>1, <1>2, OneSession

LEMMA IsCareful == Careful
  BY SessionAssumption

LEMMA PrepareInv ==
  ASSUME SessionInv, NEW c \in Conn, NEW w \in Statements, Prepare(c, w)
  PROVE  SessionInv'
  <1> DEFINE s == [sess[c] EXCEPT !.at = "slot", !.stmt = w]
  <1>1. /\ sess' = [sess EXCEPT ![c] = s] /\ UNCHANGED vars /\ cursor' = cursor
        /\ sess[c].at = "idle" /\ call[c].at = "none" /\ cursor[c] = Nil /\ ~sess[c].failed
    BY DEF Prepare, SessionInv, Ready, Idle
  <1>2. /\ s \in SessionState /\ s.at = "slot" /\ s.stmt = w /\ s.tx = sess[c].tx
        /\ s.failed = sess[c].failed
    BY SessionFacts DEF SessionState, Places
  <1> HIDE DEF s
  <1>3. Shape(s, conn[c], call[c], db)
    BY <1>1, <1>2, SessionFacts DEF Shape
  <1>4. conn[c].tx # Nil => TxInv(s, conn[c].tx, db)
    BY <1>1, <1>2, SessionFacts DEF TxInv
  <1>5. EngineInv'
    BY <1>1, StutterInv DEF SessionInv
  <1> QED BY <1>1, <1>2, <1>3, <1>4, <1>5, NilCursor DEF vars, SessionInv

LEMMA TakeSlotInv ==
  ASSUME SessionInv, NEW c \in Conn, TakeSlot(c)
  PROVE  SessionInv'
  <1> DEFINE s == [sess[c] EXCEPT !.at = IF sess[c].tx THEN "run" ELSE "begin"]
  <1>1. /\ sess' = [sess EXCEPT ![c] = s] /\ cursor' = cursor
        /\ sess[c].at = "slot" /\ cursor[c] = Nil
    BY SessionFacts DEF TakeSlot, SessionInv, Goto
  <1>2. /\ s \in SessionState /\ s.at = (IF sess[c].tx THEN "run" ELSE "begin")
        /\ s.stmt = sess[c].stmt /\ s.tx = sess[c].tx /\ s.failed = sess[c].failed
    BY SessionFacts DEF SessionState, Places
  <1>3. /\ ~sess[c].failed /\ sess[c].stmt \in Statements /\ call[c].at = "none"
        /\ conn[c].slot => sess[c].tx
        /\ sess[c].tx => conn[c].tx # Nil /\ Explicit
        /\ ~sess[c].tx => conn[c].tx = Nil
    BY <1>1, SessionFacts DEF Shape, Fresh
  <1> HIDE DEF s
  <1>4. CASE conn[c].slot
    <2>1. UNCHANGED vars
      BY <1>4 DEF TakeSlot
    <2>2. Shape(s, conn[c], call[c], db)
      BY <1>1, <1>2, <1>3, <1>4, SessionFacts DEF Shape
    <2>3. conn[c].tx # Nil => TxInv(s, conn[c].tx, db)
      BY <1>1, <1>2, <1>3, <1>4, SessionFacts DEF TxInv
    <2>4. EngineInv'
      BY <2>1, StutterInv DEF SessionInv
    <2> QED BY <1>1, <1>2, <2>1, <2>2, <2>3, <2>4, NilCursor DEF vars, SessionInv
  <1>5. CASE ~conn[c].slot
    <2> DEFINE n == Acquired(conn[c])
    <2>1. AcquireWriteSlot(c)
      BY <1>5 DEF TakeSlot
    <2>2. /\ conn' = [conn EXCEPT ![c] = n] /\ call' = call /\ db' = db /\ open' = open
      BY <2>1 DEF AcquireWriteSlot
    <2>3. conn'[c] = n /\ \A e \in Conn \ {c} : conn'[e] = conn[e]
      BY <2>2 DEF SessionInv, EngineInv
    <2>4. n.slot /\ n.snapshot = Nil /\ n.tx = conn[c].tx
      BY SessionFacts DEF Acquired, Connection
    <2>5. EngineInv'
      BY <2>1, StepInv, IsCareful DEF EngineStep, Next, SessionInv
    <2> HIDE DEF n
    <2>6. Shape(s, n, call[c], db)
      BY <1>1, <1>2, <1>3, <2>4, SessionFacts DEF Shape
    <2>7. n.tx # Nil => TxInv(s, n.tx, db)
      BY <1>1, <1>2, <1>3, <2>4, SessionFacts DEF TxInv
    <2> QED BY <1>1, <1>2, <2>2, <2>3, <2>5, <2>6, <2>7, NilCursor DEF SessionInv
  <1> QED BY <1>4, <1>5

LEMMA BusyInv ==
  ASSUME SessionInv, NEW c \in Conn, Busy(c)
  PROVE  SessionInv'
  <1> DEFINE s == [sess[c] EXCEPT !.at = "idle", !.stmt = Nil]
  <1>1. /\ sess' = [sess EXCEPT ![c] = s] /\ UNCHANGED vars /\ cursor' = cursor
        /\ sess[c].at = "slot" /\ cursor[c] = Nil
    BY SessionFacts DEF Busy, SessionInv
  <1>2. /\ s \in SessionState /\ s.at = "idle" /\ s.tx = sess[c].tx
        /\ s.failed = sess[c].failed
    BY SessionFacts DEF SessionState, Places
  <1> HIDE DEF s
  <1>3. Shape(s, conn[c], call[c], db)
    BY <1>1, <1>2, SessionFacts DEF Shape
  <1>4. conn[c].tx # Nil => TxInv(s, conn[c].tx, db)
    BY <1>1, <1>2, SessionFacts DEF TxInv
  <1>5. EngineInv'
    BY <1>1, StutterInv DEF SessionInv
  <1> QED BY <1>1, <1>2, <1>3, <1>4, <1>5, NilCursor DEF vars, SessionInv

LEMMA AutoBeginInv ==
  ASSUME SessionInv, NEW c \in Conn, AutoBegin(c)
  PROVE  SessionInv'
  <1> DEFINE s == [sess[c] EXCEPT !.at = "run"]
             n == [conn[c] EXCEPT !.tx = Empty, !.snapshot = db, !.base = db]
  <1>1. /\ sess' = [sess EXCEPT ![c] = s] /\ cursor' = cursor
        /\ sess[c].at = "begin" /\ cursor[c] = Nil /\ BeginTransaction(c)
    BY SessionFacts DEF AutoBegin, SessionInv, Goto
  <1>2. /\ s \in SessionState /\ s.at = "run" /\ s.tx = sess[c].tx
        /\ s.failed = sess[c].failed /\ s.stmt = sess[c].stmt
    BY SessionFacts DEF SessionState, Places
  <1>3. conn' = [conn EXCEPT ![c] = n] /\ call' = call /\ db' = db /\ open' = open
    BY <1>1 DEF BeginTransaction
  <1>4. conn'[c] = n /\ \A e \in Conn \ {c} : conn'[e] = conn[e]
    BY <1>3 DEF SessionInv, EngineInv
  <1>5. n.tx = Empty /\ n.snapshot = db /\ n.slot = conn[c].slot
    BY SessionFacts DEF Connection
  <1>6. EngineInv'
    BY <1>1, StepInv, IsCareful DEF EngineStep, Next, SessionInv
  <1>7. Empty # Nil /\ ~sess[c].failed /\ ~sess[c].tx /\ conn[c].slot
    BY <1>1, EmptyType, EngineAssumption, SessionFacts DEF Shape
  <1> HIDE DEF s, n
  <1>8. Shape(s, n, call[c], db)
    BY <1>1, <1>2, <1>5, <1>7, SessionFacts DEF Shape
  <1>9. TxInv(s, n.tx, db)
    BY <1>2, <1>5, <1>7, EmptyShows, SessionFacts DEF TxInv, SessionInv
  <1> QED BY <1>1, <1>2, <1>3, <1>4, <1>6, <1>8, <1>9, NilCursor DEF SessionInv

(* A running statement reads the data its transaction would leave. *)
LEMMA RunReads ==
  ASSUME SessionInv, NEW c \in Conn, sess[c].at = "run"
  PROVE  /\ conn[c].tx # Nil /\ conn[c].tx \in Buffer /\ call[c].at = "none" /\ conn[c].slot
         /\ View(conn[c].tx, db) \in Data
         /\ \A k \in Key : /\ Lookup(c, k) = View(conn[c].tx, db)[k]
                           /\ Scanned(c, k) = View(conn[c].tx, db)[k]
         /\ Whole(View(conn[c].tx, db)) /\ Counted(View(conn[c].tx, db))
         /\ \A k \in Key : ~conn[c].tx[k].wiped
         /\ sess[c].stmt \in Statement /\ sess[c].stmt \in Statements /\ ~sess[c].failed
  <1>1. /\ conn[c].tx # Nil /\ conn[c].slot /\ call[c].at = "none" /\ ~sess[c].failed
        /\ conn[c].snapshot \in {Nil, db} /\ sess[c].stmt \in Statements
    BY SessionFacts DEF Shape
  <1>2. conn[c].tx \in Buffer /\ TxInv(sess[c], conn[c].tx, db) /\ db \in Data
    BY <1>1, SessionFacts
  <1>3. Below(c) = db
    BY <1>1 DEF Below
  <1>4. \A k \in Key : ~conn[c].tx[k].wiped
    BY <1>2 DEF TxInv
  <1>5. \A k \in Key : /\ Lookup(c, k) = LookupIn(conn[c].tx, db, k)
                       /\ Scanned(c, k) = ScanIn(conn[c].tx, db, k)
    BY <1>1, <1>3 DEF Lookup, Scanned
  <1>6. \A k \in Key : ScanIn(conn[c].tx, db, k) = LookupIn(conn[c].tx, db, k)
    BY <1>2, <1>4, ScanIsLookup
  <1>7. \A k \in Key : View(conn[c].tx, db)[k] = LookupIn(conn[c].tx, db, k)
    BY DEF View
  <1>8. Whole(View(conn[c].tx, db)) /\ Counted(View(conn[c].tx, db))
    BY <1>1, <1>2 DEF TxInv
  <1>9. sess[c].stmt \in Statement
    BY <1>1, SessionAssumption
  <1> QED BY <1>1, <1>2, <1>4, <1>5, <1>6, <1>7, <1>8, <1>9, ViewType

(* The write of a running statement: only its buffer changes. *)
LEMMA RunWrites ==
  ASSUME SessionInv, NEW c \in Conn, sess[c].at = "run",
         NEW b \in Buffer, Write(c, b)
  PROVE  /\ EngineInv' /\ call' = call /\ db' = db /\ open' = open
         /\ \A e \in Conn \ {c} : conn'[e] = conn[e]
         /\ conn'[c].tx = Then(conn[c].tx, b) /\ conn'[c].tx # Nil
         /\ conn'[c].slot /\ conn'[c].snapshot = conn[c].snapshot
  <1> DEFINE n == [conn[c] EXCEPT !.tx = Then(conn[c].tx, b)]
  <1>1. conn[c].slot /\ conn[c].tx \in Buffer
    BY RunReads
  <1>2. conn' = [conn EXCEPT ![c] = n] /\ call' = call /\ db' = db /\ open' = open
    BY <1>1 DEF Write
  <1>3. conn'[c] = n /\ \A e \in Conn \ {c} : conn'[e] = conn[e]
    BY <1>2 DEF SessionInv, EngineInv
  <1>4. n.tx = Then(conn[c].tx, b) /\ n.slot = conn[c].slot /\ n.snapshot = conn[c].snapshot
    BY SessionFacts DEF Connection
  <1>5. Then(conn[c].tx, b) # Nil
    BY <1>1, ThenType, EngineAssumption
  <1>6. EngineInv'
    BY StepInv, IsCareful DEF EngineStep, SessionInv
  <1> HIDE DEF n
  <1> QED BY <1>1, <1>2, <1>3, <1>4, <1>5, <1>6

LEMMA RunOkInv ==
  ASSUME Separated, SessionInv, NEW c \in Conn, RunOk(c)
  PROVE  SessionInv'
  <1> DEFINE w == sess[c].stmt
             b == Effect(c, w)
             t == conn[c].tx
             v == View(t, db)
             s == [sess[c] EXCEPT !.use = UseAfter(sess[c], w),
                      !.at = IF sess[c].tx THEN "idle" ELSE "commit",
                      !.stmt = IF sess[c].tx THEN Nil ELSE w]
  <1>1. /\ sess[c].at = "run" /\ Runs(c, w) /\ Write(c, b)
        /\ sess' = [sess EXCEPT ![c] = s] /\ cursor' = cursor /\ cursor[c] = Nil
    BY SessionFacts DEF RunOk, SessionInv
  <1>2. /\ s \in SessionState /\ s.at = (IF sess[c].tx THEN "idle" ELSE "commit")
        /\ s.tx = sess[c].tx /\ s.failed = sess[c].failed
    <2>1. UseAfter(sess[c], w) \in BOOLEAN
      BY SessionFacts DEF UseAfter, SessionState
    <2> HIDE DEF w
    <2>2. w \in Statements \cup {Nil}
      BY SessionFacts DEF SessionState, w
    <2> QED BY <2>1, <2>2, SessionFacts DEF SessionState, Places
  <1>3. /\ t # Nil /\ t \in Buffer /\ call[c].at = "none" /\ conn[c].slot /\ v \in Data
        /\ \A k \in Key : Lookup(c, k) = v[k] /\ Scanned(c, k) = v[k]
        /\ Whole(v) /\ Counted(v) /\ Unranged(t) /\ w \in Statement /\ w \in Statements
        /\ ~sess[c].failed
    BY <1>1, RunReads DEF Unranged
  <1> HIDE DEF w, v, s
  <1>4. /\ Good(b, v)
        /\ w.kind \notin {"drop table", "drop database"} => Unranged(b)
    BY <1>1, <1>3, EffectGood
  <1> HIDE DEF b
  <1>5. b \in Buffer
    BY <1>4 DEF Good
  <1>6. /\ EngineInv' /\ call' = call /\ db' = db /\ open' = open
        /\ \A e \in Conn \ {c} : conn'[e] = conn[e]
        /\ conn'[c].tx = Then(t, b) /\ conn'[c].tx # Nil
        /\ conn'[c].slot /\ conn'[c].snapshot = conn[c].snapshot
    BY <1>1, <1>5, RunWrites
  <1>7. Shape(s, conn'[c], call[c], db)
    BY <1>1, <1>2, <1>3, <1>6, SessionFacts DEF Shape
  <1>8. View(Then(t, b), db) = View(b, v)
    BY <1>3, <1>5, ViewThen, SessionFacts DEF v
  <1>9. Whole(View(Then(t, b), db)) /\ Counted(View(Then(t, b), db))
    BY <1>4, <1>8 DEF Good
  <1>10. sess[c].tx => Unranged(Then(t, b))
    <2>1. sess[c].tx => w.kind \notin {"drop table", "drop database"}
      BY <1>3, SessionFacts DEF Separated, Shape
    <2> QED BY <1>3, <1>4, <1>5, <2>1, UnrangedThen
  <1>11. ~sess[c].tx => \A k \in Key : Then(t, b)[k].wiped => Then(t, b)[k].op = Untouched
    <2>1. ~sess[c].tx => t = Empty
      BY <1>1, <1>3, SessionFacts DEF TxInv
    <2> QED BY <1>3, <1>4, <1>5, <2>1, ThenWiped DEF Good, Unranged
  <1>12. TxInv(s, Then(t, b), db)
    BY <1>2, <1>9, <1>10, <1>11 DEF TxInv, Unranged
  <1> QED BY <1>1, <1>2, <1>6, <1>7, <1>12, NilCursor DEF SessionInv

LEMMA RunFailsInv ==
  ASSUME SessionInv, NEW c \in Conn, RunFails(c)
  PROVE  SessionInv'
  <1> DEFINE w == sess[c].stmt
             t == conn[c].tx
             v == View(t, db)
             s == [sess[c] EXCEPT !.failed = sess[c].tx /\ ~PlanFails(c, w),
                      !.at = IF sess[c].tx THEN "idle" ELSE "rollback",
                      !.stmt = Nil]
  <1>1. /\ sess[c].at = "run"
        /\ sess' = [sess EXCEPT ![c] = s] /\ cursor' = cursor /\ cursor[c] = Nil
    BY SessionFacts DEF RunFails, SessionInv
  <1>2. PICK b \in Leftovers(c, w) : Write(c, b)
    BY DEF RunFails
  <1>3. /\ s \in SessionState /\ s.at = (IF sess[c].tx THEN "idle" ELSE "rollback")
        /\ s.tx = sess[c].tx /\ s.failed = (sess[c].tx /\ ~PlanFails(c, w))
    <2>1. (sess[c].tx /\ ~PlanFails(c, w)) \in BOOLEAN
      BY SessionFacts DEF SessionState, PlanFails
    <2> QED BY <2>1, SessionFacts DEF SessionState, Places
  <1>4. /\ t # Nil /\ t \in Buffer /\ call[c].at = "none" /\ conn[c].slot
        /\ Whole(v) /\ Counted(v) /\ Unranged(t) /\ w \in Statement
    BY <1>1, RunReads DEF Unranged
  <1> HIDE DEF w, v, s
  <1>5. b \in Buffer /\ Unranged(b) /\ (PlanFails(c, w) => b = Empty)
    <2>1. CASE b = Empty
      BY <2>1, EmptyType DEF Unranged, Empty
    <2>2. CASE b # Empty
      <3>1. /\ HasSchema(c) /\ w.kind = "insert"
            /\ \E rs \in SUBSET Unseen(c, w) : b = PutAll(rs, w.value)
        BY <2>2 DEF Leftovers
      <3>2. PICK rs \in SUBSET Unseen(c, w) : b = PutAll(rs, w.value)
        BY <3>1
      <3>3. rs \in SUBSET Key /\ w.value \in Value
        BY <1>4, MetaKeys DEF Unseen, Statement
      <3>4. b \in Buffer /\ Unranged(b)
        BY <3>2, <3>3, PutAllShows, SessionFacts DEF Unranged
      <3>5. ~PlanFails(c, w)
        BY <3>1 DEF PlanFails
      <3> QED BY <3>4, <3>5
    <2> QED BY <2>1, <2>2
  <1>6. /\ EngineInv' /\ call' = call /\ db' = db /\ open' = open
        /\ \A e \in Conn \ {c} : conn'[e] = conn[e]
        /\ conn'[c].tx = Then(t, b) /\ conn'[c].tx # Nil
        /\ conn'[c].slot /\ conn'[c].snapshot = conn[c].snapshot
    BY <1>1, <1>2, <1>5, RunWrites
  <1>7. Shape(s, conn'[c], call[c], db)
    BY <1>1, <1>3, <1>4, <1>6, SessionFacts DEF Shape
  <1>8. PlanFails(c, w) => View(Then(t, b), db) = v
    <2>1. View(Then(t, b), db) = View(b, v) /\ v \in Data
      BY <1>4, <1>5, ViewThen, ViewType, SessionFacts DEF v
    <2> QED BY <2>1, <1>5, ViewEmpty
  <1>9. Unranged(Then(t, b))
    BY <1>4, <1>5, UnrangedThen
  <1>10. TxInv(s, Then(t, b), db)
    BY <1>3, <1>4, <1>8, <1>9 DEF TxInv, Unranged
  <1> QED BY <1>1, <1>3, <1>6, <1>7, <1>10, NilCursor DEF SessionInv

-----------------------------------------------------------------------------
(* The ends of transactions. *)
LEMMA VersionAdded ==
  ASSUME NEW s, NEW k, NEW u, NEW d \in Data, NEW d2 \in Data,
         CursorInv(s, Fresh, k, u, d)
  PROVE  CursorInv(s, Fresh, k, [u EXCEPT !.versions = @ \cup {RowsOf(d2)}], d2)
  <1> DEFINE z == [u EXCEPT !.versions = @ \cup {RowsOf(d2)}]
  <1>1. u \in Cursor
    BY DEF CursorInv
  <1>2. RowsOf(d2) \in [Rows -> Row]
    BY MetaKeys DEF RowsOf, Row, Data
  <1>3. /\ z \in Cursor /\ z.plan = u.plan /\ z.left = u.left /\ z.got = u.got
        /\ z.versions = u.versions \cup {RowsOf(d2)}
    BY <1>1, <1>2 DEF Cursor
  <1>4. Seen(Fresh, d2) = RowsOf(d2)
    BY DEF Seen, Reads, Under, Fresh, RowsOf
  <1> HIDE DEF z
  <1>5. CursorInv(s, Fresh, k, z, d2)
    BY <1>3, <1>4 DEF CursorInv
  <1> QED BY <1>5 DEF z

LEMMA CommitInv ==
  ASSUME SessionInv, NEW c \in Conn, cursor[c] = Nil, CommitTransaction(c), Witness,
         NEW s \in SessionState, sess' = [sess EXCEPT ![c] = s],
         s.at = "idle", ~s.tx, ~s.failed,
         sess[c].at \in {"idle", "commit"}, ~sess[c].failed
  PROVE  SessionInv'
  <1> DEFINE t == conn[c].tx
             n == [conn[c] EXCEPT !.tx = Nil]
             k == [call[c] EXCEPT !.at = "finish"]
  <1>1. /\ t # Nil /\ t \in Buffer /\ TxInv(sess[c], t, db) /\ db \in Data
        /\ call[c].at = "none"
    BY SessionFacts DEF CommitTransaction, Idle
  <1>2. /\ conn' = [conn EXCEPT ![c] = n] /\ call' = [call EXCEPT ![c] = k]
        /\ open' = open /\ db' = Apply(db, t)
    BY DEF CommitTransaction
  <1>3. /\ conn'[c] = n /\ call'[c] = k
        /\ \A e \in Conn \ {c} : conn'[e] = conn[e] /\ call'[e] = call[e]
    BY <1>2 DEF SessionInv, EngineInv
  <1>4. n.tx = Nil /\ k.at = "finish"
    BY SessionFacts DEF Connection
  <1> HIDE DEF n, k
  <1>5. EngineInv'
    BY StepInv, IsCareful DEF EngineStep, Next, SessionInv
  <1>6. db' = View(t, db) /\ db' \in Data /\ Whole(db') /\ Counted(db')
    <2>1. \A j \in Key : t[j].wiped => t[j].op = Untouched
      BY <1>1 DEF TxInv
    <2>2. Whole(View(t, db)) /\ Counted(View(t, db))
      BY <1>1 DEF TxInv
    <2> QED BY <1>1, <1>2, <2>1, <2>2, ApplyIsView, ViewType
  <1>7. \A e \in Conn \ {c} : db' = db \/ ~conn[e].slot
    <2>1. CASE conn[c].slot
      BY <2>1 DEF SessionInv, EngineInv, SlotAgrees, Writing
    <2>2. CASE ~conn[c].slot
      <3>1. t = Empty
        BY <1>1, <2>2 DEF SessionInv, EngineInv, ConnInv
      <3> QED BY <3>1, <1>1, <1>2, ApplyEmpty
    <2> QED BY <2>1, <2>2
  <1>8. DOMAIN cursor' = Conn /\ cursor'[c] = Nil
    BY DEF Witness
  <1>9. Local(s, conn'[c], call'[c], cursor'[c], db')
    BY <1>3, <1>4, <1>8 DEF Local, Shape
  <1>10. ASSUME NEW e \in Conn \ {c}
         PROVE  Local(sess[e], conn[e], call[e], cursor'[e], db')
    <2>1. conn[e].tx # Nil /\ ~conn[e].slot =>
            conn[e].tx = Empty /\ conn[e].snapshot \in Data
      BY DEF SessionInv, EngineInv, ConnInv
    <2>2. Shape(sess[e], conn[e], call[e], db')
      BY <1>7, SessionFacts DEF Shape
    <2>3. conn[e].tx # Nil => TxInv(sess[e], conn[e].tx, db')
      <3>1. CASE db' = db
        BY <3>1, SessionFacts
      <3>2. CASE ~conn[e].slot
        BY <3>2, <2>1, <1>6, EmptyShows DEF TxInv
      <3> QED BY <3>1, <3>2, <1>7
    <2>4. cursor'[e] # Nil => CursorInv(sess[e], conn[e], call[e], cursor'[e], db')
      <3>1. CASE cursor[e] = Nil
        BY <3>1 DEF Witness
      <3>2. CASE cursor[e] # Nil /\ conn[e].tx # Nil
        <4>1. cursor'[e] = cursor[e]
          BY <3>2 DEF Witness
        <4>2. CASE db' = db
          BY <4>1, <4>2, SessionFacts
        <4>3. CASE ~conn[e].slot
          <5>1. Seen(conn[e], db') = Seen(conn[e], db)
            BY <2>1, <3>2, <4>3, EngineAssumption DEF Seen, Reads, Under
          <5> QED BY <3>2, <4>1, <5>1, SessionFacts DEF CursorInv
        <4> QED BY <4>2, <4>3, <1>7
      <3>3. CASE cursor[e] # Nil /\ conn[e].tx = Nil
        <4>1. CursorInv(sess[e], conn[e], call[e], cursor[e], db)
          BY <3>3, SessionFacts
        <4>2. conn[e] = Fresh
          BY <3>3, <4>1, SessionFacts DEF Shape, CursorInv
        <4>3. cursor'[e] = [cursor[e] EXCEPT !.versions = @ \cup {RowsOf(db')}]
          BY <3>3 DEF Witness
        <4> QED BY <4>1, <4>2, <4>3, <1>1, <1>6, VersionAdded
      <3> QED BY <3>1, <3>2, <3>3
    <2> QED BY <2>2, <2>3, <2>4 DEF Local
  <1>11. sess' \in [Conn -> SessionState] /\ sess'[c] = s
         /\ \A e \in Conn \ {c} : sess'[e] = sess[e]
    BY DEF SessionInv
  <1>12. \A e \in Conn : Local(sess'[e], conn'[e], call'[e], cursor'[e], db')
    BY <1>3, <1>9, <1>10, <1>11
  <1>13. open' = TRUE
    BY <1>2 DEF SessionInv
  <1> QED BY <1>5, <1>6, <1>8, <1>11, <1>12, <1>13 DEF SessionInv

LEMMA AutoCommitInv ==
  ASSUME SessionInv, NEW c \in Conn, AutoCommit(c)
  PROVE  SessionInv'
  <1> DEFINE s == [sess[c] EXCEPT !.at = "idle", !.stmt = Nil]
  <1>1. /\ sess' = [sess EXCEPT ![c] = s] /\ sess[c].at = "commit" /\ cursor[c] = Nil
        /\ CommitTransaction(c) /\ Witness
    BY SessionFacts DEF AutoCommit, SessionInv
  <1>2. /\ s \in SessionState /\ s.at = "idle" /\ s.tx = sess[c].tx
        /\ s.failed = sess[c].failed
    BY SessionFacts DEF SessionState, Places
  <1>3. ~sess[c].tx /\ ~sess[c].failed
    BY <1>1, SessionFacts DEF Shape
  <1> HIDE DEF s
  <1> QED BY <1>1, <1>2, <1>3, CommitInv

LEMMA CommitStatementInv ==
  ASSUME SessionInv, NEW c \in Conn, CommitStatement(c)
  PROVE  SessionInv'
  <1> DEFINE s == [sess[c] EXCEPT !.tx = FALSE]
  <1>1. /\ sess' = [sess EXCEPT ![c] = s] /\ sess[c].at = "idle" /\ cursor[c] = Nil
        /\ CommitTransaction(c) /\ Witness /\ ~sess[c].failed
    BY DEF CommitStatement, SessionInv, Ready
  <1>2. /\ s \in SessionState /\ s.at = sess[c].at /\ ~s.tx
        /\ s.failed = sess[c].failed
    BY SessionFacts DEF SessionState, Places
  <1> HIDE DEF s
  <1> QED BY <1>1, <1>2, CommitInv

LEMMA AutoCommitFailsInv ==
  ASSUME SessionInv, NEW c \in Conn, AutoCommitFails(c)
  PROVE  SessionInv'
  <1> DEFINE s == [sess[c] EXCEPT !.at = "rollback", !.stmt = Nil]
  <1>1. /\ sess' = [sess EXCEPT ![c] = s] /\ UNCHANGED vars /\ cursor' = cursor
        /\ sess[c].at = "commit" /\ cursor[c] = Nil
    BY SessionFacts DEF AutoCommitFails, SessionInv
  <1>2. /\ s \in SessionState /\ s.at = "rollback" /\ s.tx = sess[c].tx
        /\ s.failed = sess[c].failed
    BY SessionFacts DEF SessionState, Places
  <1> HIDE DEF s
  <1>3. Shape(s, conn[c], call[c], db)
    BY <1>1, <1>2, SessionFacts DEF Shape
  <1>4. conn[c].tx # Nil => TxInv(s, conn[c].tx, db)
    BY <1>1, <1>2, SessionFacts DEF TxInv
  <1>5. EngineInv'
    BY <1>1, StutterInv DEF SessionInv
  <1> QED BY <1>1, <1>2, <1>3, <1>4, <1>5, NilCursor DEF vars, SessionInv

LEMMA RollbackInv ==
  ASSUME SessionInv, NEW c \in Conn, cursor[c] = Nil, RollbackTransaction(c), cursor' = cursor,
         NEW s \in SessionState, sess' = [sess EXCEPT ![c] = s],
         s.at = "idle", ~s.tx, ~s.failed
  PROVE  SessionInv'
  <1> DEFINE n == [conn[c] EXCEPT !.tx = Nil]
             k == [call[c] EXCEPT !.at = "finish"]
  <1>1. /\ conn' = [conn EXCEPT ![c] = n] /\ call' = [call EXCEPT ![c] = k]
        /\ open' = open /\ db' = db
    BY DEF RollbackTransaction
  <1>2. /\ conn'[c] = n /\ call'[c] = k
        /\ \A e \in Conn \ {c} : conn'[e] = conn[e] /\ call'[e] = call[e]
    BY <1>1 DEF SessionInv, EngineInv
  <1>3. n.tx = Nil /\ k.at = "finish"
    BY SessionFacts DEF Connection
  <1>4. EngineInv'
    BY StepInv, IsCareful DEF EngineStep, Next, SessionInv
  <1> HIDE DEF n, k
  <1>5. Shape(s, conn'[c], call'[c], db)
    BY <1>2, <1>3 DEF Shape
  <1> QED BY <1>1, <1>2, <1>3, <1>4, <1>5, NilCursor DEF SessionInv

LEMMA RollbacksInv ==
  ASSUME SessionInv, NEW c \in Conn, AutoRollback(c) \/ RollbackStatement(c)
  PROVE  SessionInv'
  <1>1. CASE AutoRollback(c)
    <2> DEFINE s == [sess[c] EXCEPT !.at = "idle"]
    <2>1. /\ sess' = [sess EXCEPT ![c] = s] /\ sess[c].at = "rollback" /\ cursor[c] = Nil
          /\ RollbackTransaction(c) /\ cursor' = cursor
      BY <1>1, SessionFacts DEF AutoRollback, SessionInv, Goto
    <2>2. /\ s \in SessionState /\ s.at = "idle" /\ s.tx = sess[c].tx
          /\ s.failed = sess[c].failed
      BY SessionFacts DEF SessionState, Places
    <2>3. ~sess[c].tx /\ ~sess[c].failed
      BY <2>1, SessionFacts DEF Shape
    <2> HIDE DEF s
    <2> QED BY <2>1, <2>2, <2>3, RollbackInv
  <1>2. CASE RollbackStatement(c)
    <2> DEFINE s == [sess[c] EXCEPT !.tx = FALSE, !.failed = FALSE]
    <2>1. /\ sess' = [sess EXCEPT ![c] = s] /\ sess[c].at = "idle" /\ cursor[c] = Nil
          /\ RollbackTransaction(c) /\ cursor' = cursor
      BY <1>2 DEF RollbackStatement, SessionInv, Ready
    <2>2. s \in SessionState /\ s.at = sess[c].at /\ ~s.tx /\ ~s.failed
      BY SessionFacts DEF SessionState, Places
    <2> HIDE DEF s
    <2> QED BY <2>1, <2>2, RollbackInv
  <1> QED BY <1>1, <1>2

LEMMA BeginStatementInv ==
  ASSUME SessionInv, NEW c \in Conn, BeginStatement(c)
  PROVE  SessionInv'
  <1> DEFINE s == [sess[c] EXCEPT !.tx = TRUE, !.failed = FALSE]
             n == [conn[c] EXCEPT !.tx = Empty, !.snapshot = db, !.base = db]
  <1>1. /\ sess' = [sess EXCEPT ![c] = s] /\ cursor' = cursor /\ cursor[c] = Nil
        /\ sess[c].at = "idle" /\ call[c].at = "none" /\ BeginTransaction(c)
        /\ ~sess[c].tx /\ Explicit
    BY DEF BeginStatement, SessionInv, Ready, Idle
  <1>2. s \in SessionState /\ s.at = sess[c].at /\ s.tx /\ ~s.failed
    BY SessionFacts DEF SessionState, Places
  <1>3. conn' = [conn EXCEPT ![c] = n] /\ call' = call /\ db' = db /\ open' = open
    BY <1>1 DEF BeginTransaction
  <1>4. conn'[c] = n /\ \A e \in Conn \ {c} : conn'[e] = conn[e]
    BY <1>3 DEF SessionInv, EngineInv
  <1>5. n.tx = Empty /\ n.snapshot = db
    BY SessionFacts DEF Connection
  <1>6. EngineInv'
    BY <1>1, StepInv, IsCareful DEF EngineStep, Next, SessionInv
  <1>7. Empty # Nil
    BY EmptyType, EngineAssumption
  <1> HIDE DEF s, n
  <1>8. Shape(s, n, call[c], db)
    BY <1>1, <1>2, <1>5, <1>7, SessionFacts DEF Shape
  <1>9. TxInv(s, n.tx, db)
    BY <1>1, <1>2, <1>5, EmptyShows, SessionFacts DEF TxInv, SessionInv
  <1> QED BY <1>1, <1>2, <1>3, <1>4, <1>6, <1>8, <1>9, NilCursor DEF SessionInv

LEMMA FinishesInv ==
  ASSUME SessionInv, NEW c \in Conn, EngineFinishes(c)
  PROVE  SessionInv'
  <1>1. /\ Finish(c) /\ cursor' = cursor /\ sess' = [sess EXCEPT ![c] = sess[c]]
        /\ call[c].at = "finish" /\ cursor[c] = Nil
    BY SessionFacts DEF EngineFinishes, sessionVars, SessionInv, Finish
  <1>2. /\ conn' = [conn EXCEPT ![c] = Fresh] /\ call' = [call EXCEPT ![c] = Done]
        /\ open' = open /\ db' = db
    BY <1>1 DEF Finish
  <1>3. /\ conn'[c] = Fresh /\ call'[c] = Done
        /\ \A e \in Conn \ {c} : conn'[e] = conn[e] /\ call'[e] = call[e]
    BY <1>2 DEF SessionInv, EngineInv
  <1>4. Fresh.tx = Nil /\ ~Fresh.slot /\ Done.at = "none"
    BY DEF Fresh, Done
  <1>5. EngineInv'
    BY <1>1, StepInv, IsCareful DEF EngineStep, Next, SessionInv
  <1>6. Shape(sess[c], Fresh, Done, db)
    BY <1>1, <1>4, SessionFacts DEF Shape
  <1> QED BY <1>1, <1>2, <1>3, <1>4, <1>5, <1>6, NilCursor, SessionFacts DEF SessionInv

LEMMA EndSessionInv ==
  ASSUME SessionInv, NEW c \in Conn, EndSession(c)
  PROVE  SessionInv'
  <1>1. /\ Disconnect(c) /\ sess' = [sess EXCEPT ![c] = NewSession]
        /\ cursor' = [cursor EXCEPT ![c] = Nil] /\ call[c].at = "none"
    BY DEF EndSession, Disconnect, Idle
  <1>2. /\ conn' = [conn EXCEPT ![c] = Fresh] /\ call' = call /\ open' = open /\ db' = db
    BY <1>1 DEF Disconnect
  <1>3. /\ conn'[c] = Fresh /\ cursor'[c] = Nil /\ DOMAIN cursor' = Conn
        /\ \A e \in Conn \ {c} : conn'[e] = conn[e] /\ cursor'[e] = cursor[e]
    BY <1>1, <1>2 DEF SessionInv, EngineInv
  <1>4. Fresh.tx = Nil /\ ~Fresh.slot
    BY DEF Fresh
  <1>5. EngineInv'
    BY <1>1, StepInv, IsCareful DEF EngineStep, Next, SessionInv
  <1>6. /\ NewSession \in SessionState /\ NewSession.at = "idle" /\ ~NewSession.tx
        /\ ~NewSession.failed
    BY DEF NewSession, SessionState, Places
  <1>7. Local(NewSession, Fresh, call[c], Nil, db)
    BY <1>1, <1>4, <1>6 DEF Local, Shape
  <1> QED BY <1>1, <1>2, <1>3, <1>5, <1>6, <1>7, OneSession DEF SessionInv

-----------------------------------------------------------------------------
(* Cursors. *)
LEMMA LookupIsReads ==
  ASSUME NEW c \in Conn, NEW k
  PROVE  Lookup(c, k) = Reads(conn[c], db, k)
  BY DEF Lookup, Below, Reads, Under

LEMMA ReadsType ==
  ASSUME NEW n \in Connection, NEW d \in Data
  PROVE  Seen(n, d) \in [Rows -> Row]
  <1>1. Under(n, d) \in Data
    BY DEF Under, Connection
  <1>2. ASSUME NEW r \in Rows PROVE Reads(n, d, r) \in Row
    <2>1. r \in Key
      BY MetaKeys
    <2>2. CASE n.tx = Nil
      BY <1>1, <2>1, <2>2 DEF Reads, Data, Row
    <2>3. CASE n.tx # Nil
      <3>1. n.tx \in Buffer
        BY <2>3 DEF Connection
      <3>2. n.tx[r] \in Op /\ Under(n, d)[r] \in Row
        BY <3>1, <1>1, <2>1 DEF Buffer, Data, Row
      <3> QED BY <2>3, <3>2 DEF Reads, LookupIn, Op, Row
    <2> QED BY <2>2, <2>3
  <1> QED BY <1>2 DEF Seen

(* A step that moves only the cursor of c. *)
LEMMA CursorStep ==
  ASSUME SessionInv, NEW c \in Conn, NEW u,
         cursor' = [cursor EXCEPT ![c] = u], UNCHANGED <<sess, vars>>,
         u # Nil => CursorInv(sess[c], conn[c], call[c], u, db)
  PROVE  SessionInv'
  <1>1. EngineInv'
    BY StutterInv DEF SessionInv
  <1>2. UNCHANGED <<conn, call, db, open, sess>>
    BY DEF vars
  <1>3. cursor'[c] = u /\ DOMAIN cursor' = Conn
        /\ \A e \in Conn \ {c} : cursor'[e] = cursor[e]
    BY DEF SessionInv
  <1>4. Local(sess[c], conn'[c], call'[c], cursor'[c], db)
    BY <1>2, <1>3, SessionFacts DEF Local
  <1>5. sess' = [sess EXCEPT ![c] = sess[c]] /\ sess[c] \in SessionState
    BY <1>2 DEF SessionInv
  <1>6. open' = TRUE
    BY <1>2 DEF SessionInv
  <1> QED BY <1>1, <1>2, <1>3, <1>4, <1>5, <1>6, OneSession, ZenonT(40)

LEMMA OpenCursorInv ==
  ASSUME SessionInv, NEW c \in Conn, NEW p \in Plans, OpenCursor(c, p)
  PROVE  SessionInv'
  <1> DEFINE f == [r \in Rows |-> Lookup(c, r)]
             g == [r \in {} |-> Absent]
             u == [plan |-> p, left |-> p, got |-> g, versions |-> {f}]
  <1>1. /\ cursor' = [cursor EXCEPT ![c] = u] /\ UNCHANGED <<sess, vars>>
        /\ sess[c].at = "idle" /\ call[c].at = "none" /\ ~sess[c].failed
    BY DEF OpenCursor, Ready, Idle
  <1>2. f = Seen(conn[c], db) /\ f \in [Rows -> Row]
    <2>1. f = Seen(conn[c], db)
      BY LookupIsReads DEF Seen
    <2> HIDE DEF f
    <2> QED BY <2>1, ReadsType, SessionFacts
  <1>3. g \in [{} -> Row] /\ DOMAIN g = {} /\ {} \in SUBSET Rows
    OBVIOUS
  <1>4. g \in UNION {[rs -> Row] : rs \in SUBSET Rows}
    BY <1>3
  <1>5. p \in Seq(SUBSET Rows)
    BY SessionAssumption
  <1> HIDE DEF f, g
  <1>6. u \in Cursor
    BY <1>2, <1>4, <1>5 DEF Cursor
  <1>7. u.plan = p /\ u.left = p /\ u.got = g /\ u.versions = {f}
    OBVIOUS
  <1> HIDE DEF u
  <1>8. CursorInv(sess[c], conn[c], call[c], u, db)
    BY <1>1, <1>2, <1>3, <1>6, <1>7 DEF CursorInv
  <1> QED BY <1>1, <1>8, CursorStep

LEMMA ReadRangeInv ==
  ASSUME SessionInv, NEW c \in Conn, ReadRange(c)
  PROVE  SessionInv'
  <1> DEFINE o == cursor[c]
             rs == Head(o.left)
             point == o.plan = <<rs>> /\ Cardinality(rs) = 1
             f == Seen(conn[c], db)
             g == [r \in DOMAIN o.got \cup rs |->
                     IF r \in rs THEN Shown(c, r, point) ELSE o.got[r]]
             u == [o EXCEPT !.left = Tail(o.left), !.got = g]
  <1>1. o # Nil /\ o.left # << >> /\ UNCHANGED <<sess, vars>>
    BY DEF ReadRange
  <1>2. CursorInv(sess[c], conn[c], call[c], o, db) /\ o \in Cursor
    BY <1>1, SessionFacts DEF CursorInv
  <1>3. o.left \in Seq(SUBSET Rows) /\ o.plan \in Seq(SUBSET Rows)
    BY <1>2, SessionAssumption DEF Cursor
  <1>4. rs \in SUBSET Rows /\ Tail(o.left) \in Seq(SUBSET Rows)
    BY <1>1, <1>3
  <1>5. cursor' = [cursor EXCEPT ![c] = u]
    BY DEF ReadRange, SessionInv
  <1>6. f \in [Rows -> Row] /\ \A r \in Rows : f[r] = Lookup(c, r)
    <2>1. \A r \in Rows : f[r] = Lookup(c, r)
      BY LookupIsReads DEF Seen
    <2>2. f \in [Rows -> Row]
      BY ReadsType, SessionFacts
    <2> QED BY <2>1, <2>2
  <1>7. \A r \in Rows : Scanned(c, r) = Lookup(c, r)
    <2>1. CASE conn[c].tx = Nil
      BY <2>1 DEF Scanned, Lookup
    <2>2. CASE conn[c].tx # Nil
      <3>1. sess[c].at = "idle"
        BY <1>2 DEF CursorInv
      <3>2. conn[c].tx \in Buffer /\ \A k \in Key : ~conn[c].tx[k].wiped
        BY <2>2, <3>1, SessionFacts DEF TxInv
      <3>3. \A r \in Rows : ~conn[c].tx[r].wiped
        BY <3>2, MetaKeys
      <3> QED BY <2>2, <3>3 DEF Scanned, Lookup, ScanIn, LookupIn
    <2> QED BY <2>1, <2>2
  <1>8. \A r \in rs : Shown(c, r, point) = f[r]
    BY <1>4, <1>6, <1>7 DEF Shown
  <1>9. PICK qs \in SUBSET Rows : o.got \in [qs -> Row]
    BY <1>2 DEF Cursor
  <1> HIDE DEF rs, f, point, o
  <1>10. g \in [qs \cup rs -> Row] /\ DOMAIN g = qs \cup rs /\ \A r \in rs : g[r] = f[r]
    BY <1>4, <1>6, <1>8, <1>9
  <1>11. g \in UNION {[ks -> Row] : ks \in SUBSET Rows}
    <2>1. qs \cup rs \in SUBSET Rows
      BY <1>4, <1>9
    <2> HIDE DEF g
    <2> QED BY <2>1, <1>10
  <1> HIDE DEF g
  <1>12. /\ u \in Cursor /\ u.plan = o.plan /\ u.left = Tail(o.left) /\ u.got = g
         /\ u.versions = o.versions
    BY <1>2, <1>4, <1>11 DEF Cursor
  <1> HIDE DEF u
  <1>13. f \in u.versions
    BY <1>2, <1>12 DEF CursorInv, f
  <1>14. Len(u.plan) = 1 =>
           u.left = << >> /\ \A r \in DOMAIN u.got : u.got[r] = f[r]
    <2> SUFFICES ASSUME Len(u.plan) = 1
                 PROVE  u.left = << >> /\ \A r \in DOMAIN u.got : u.got[r] = f[r]
      OBVIOUS
    <2>1. o.left = o.plan /\ DOMAIN o.got = {}
      BY <1>1, <1>2, <1>12 DEF CursorInv
    <2>2. Tail(o.left) = << >>
      <3>1. Len(o.left) = 1 /\ o.left \in Seq(SUBSET Rows)
        BY <2>1, <1>3, <1>12
      <3>2. Tail(o.left) \in Seq(SUBSET Rows) /\ Len(Tail(o.left)) = 0
        BY <3>1, <1>1
      <3> QED BY <3>2, EmptySeq
    <2>3. qs = {}
      BY <2>1, <1>9
    <2> QED BY <1>10, <1>12, <2>2, <2>3
  <1>15. CursorInv(sess[c], conn[c], call[c], u, db)
    BY <1>2, <1>12, <1>13, <1>14 DEF CursorInv, f
  <1> QED BY <1>1, <1>5, <1>15, CursorStep

LEMMA CloseCursorInv ==
  ASSUME SessionInv, NEW c \in Conn, CloseCursor(c)
  PROVE  SessionInv'
  BY CursorStep DEF CloseCursor

-----------------------------------------------------------------------------
(* The invariant of the sessions. *)
LEMMA SessionInitInv == SessionInit => SessionInv
  <1> SUFFICES ASSUME SessionInit PROVE SessionInv
    OBVIOUS
  <1>1. EngineInv /\ open = TRUE /\ db = Initial
    BY InitInv DEF SessionInit, Init
  <1>2. /\ NewSession \in SessionState /\ NewSession.at = "idle" /\ ~NewSession.tx
        /\ ~NewSession.failed
    BY DEF NewSession, SessionState, Places
  <1>3. Fresh.tx = Nil /\ ~Fresh.slot /\ Done.at = "none"
    BY DEF Fresh, Done
  <1>4. Local(NewSession, Fresh, Done, Nil, db)
    BY <1>2, <1>3 DEF Local, Shape
  <1>5. \A c \in Conn : /\ sess[c] = NewSession /\ conn[c] = Fresh
                        /\ call[c] = Done /\ cursor[c] = Nil
    BY DEF SessionInit, Init
  <1>6. sess \in [Conn -> SessionState] /\ DOMAIN cursor = Conn
    BY <1>2 DEF SessionInit
  <1>7. Whole(db) /\ Counted(db)
    BY <1>1, SessionAssumption
  <1> QED BY <1>1, <1>4, <1>5, <1>6, <1>7 DEF SessionInv

LEMMA SessionStepInv ==
  ASSUME Separated, SessionInv, [SessionNext]_allVars
  PROVE  SessionInv'
  <1>1. CASE UNCHANGED allVars
    <2>1. EngineInv'
      BY <1>1, NoConnection DEF allVars, SessionInv
    <2> QED BY <1>1, <2>1 DEF allVars, SessionInv
  <1>2. ASSUME NEW c \in Conn, StatementStep(c) PROVE SessionInv'
    BY <1>2, TakeSlotInv, BusyInv, AutoBeginInv, RunOkInv, RunFailsInv, AutoCommitInv,
       AutoCommitFailsInv, RollbacksInv, FinishesInv DEF StatementStep
  <1> QED BY <1>1, <1>2, PrepareInv, BeginStatementInv, CommitStatementInv, RollbacksInv,
             EndSessionInv, OpenCursorInv, ReadRangeInv, CloseCursorInv DEF SessionNext

(* SessionInv is inductive: every call of Session::execute_parsed() leaves  *)
(* the session, its engine connection and the stored data as it says.       *)
THEOREM SessionInvariant == Separated => (SessionSpec => []SessionInv)
  <1> SUFFICES ASSUME Separated PROVE SessionSpec => []SessionInv
    OBVIOUS
  <1>1. SessionInv /\ [SessionNext]_allVars => SessionInv'
    BY SessionStepInv
  <1> QED BY <1>1, SessionInitInv, PTL DEF SessionSpec

(* Session::execute_parsed(), the AutoCommit guard and the engine's commit  *)
(* and rollback: between statements a session outside a transaction has     *)
(* neither slot nor snapshot nor buffer, one inside still has its           *)
(* transaction.                                                             *)
THEOREM NothingLeftBehind == Separated => (SessionSpec => []SessionsHoldNothing)
  <1>1. SessionInv => SessionsHoldNothing
    <2> SUFFICES ASSUME SessionInv, NEW c \in Conn, sess[c].at = "idle", call[c].at = "none"
                 PROVE  IF sess[c].tx THEN conn[c].tx # Nil
                        ELSE conn[c] = Fresh /\ owner # c
      BY DEF SessionsHoldNothing, Idle
    <2>1. CASE sess[c].tx
      BY <2>1, SessionFacts DEF Shape
    <2>2. CASE ~sess[c].tx
      <3>1. conn[c] = Fresh
        BY <2>2, SessionFacts DEF Shape
      <3>2. ~Writing(c)
        BY <3>1 DEF Writing, Fresh
      <3> QED BY <2>2, <3>1, <3>2 DEF SessionInv, EngineInv, SlotAgrees
    <2> QED BY <2>1, <2>2
  <1> QED BY <1>1, SessionInvariant, PTL

(* KVCatalog: CREATE and DROP of tables and databases, by sessions whose    *)
(* validation may be stale when they run, keep the committed catalog whole. *)
THEOREM CatalogStaysWhole == Separated => (SessionSpec => []CatalogConsistent)
  <1>1. SessionInv => CatalogConsistent
    BY DEF SessionInv, CatalogConsistent
  <1> QED BY <1>1, SessionInvariant, PTL

(* KVCatalog::touch_table(): the committed row count is the number of the   *)
(* committed rows.                                                          *)
THEOREM RowCountsStayExact == Separated => (SessionSpec => []RowCountExact)
  <1>1. SessionInv => RowCountExact
    BY DEF SessionInv, RowCountExact
  <1> QED BY <1>1, SessionInvariant, PTL

(* ScanExecutor and MergingIterator: a SELECT over one range or point       *)
(* returns the table as it was at one moment of its life.                   *)
THEOREM SelectsSeeOneVersion == Separated => (SessionSpec => []SelectSeesOneVersion)
  <1>1. SessionInv => SelectSeesOneVersion
    <2> SUFFICES ASSUME SessionInv, NEW c \in Conn, cursor[c] # Nil,
                        Len(cursor[c].plan) = 1, cursor[c].left = << >>
                 PROVE  \E v \in cursor[c].versions :
                           \A r \in DOMAIN cursor[c].got : cursor[c].got[r] = v[r]
      BY DEF SelectSeesOneVersion
    <2>1. CursorInv(sess[c], conn[c], call[c], cursor[c], db)
      BY SessionFacts
    <2>2. cursor[c].left # cursor[c].plan
      <3>1. Len(<< >>) # 1
        BY ONLY SMT
      <3> QED BY <3>1, Zenon
    <2> QED BY <2>1, <2>2 DEF CursorInv
  <1> QED BY <1>1, SessionInvariant, PTL

(* Table::insert(): an INSERT that succeeds found none of its rows, neither *)
(* committed nor in its transaction.                                        *)
THEOREM InsertsNeverOverwrite == Separated => (SessionSpec => InsertNeverOverwrites)
  <1> DEFINE Fine ==
        \A c \in Conn :
          /\ sess[c].at = "run" /\ sess[c].stmt.kind = "insert"
          /\ sess'[c].at \in {"idle", "commit"} /\ ~sess'[c].failed
          => \A r \in sess[c].stmt.rows : LookupIn(conn[c].tx, db, r) = Absent
  <1> SUFFICES ASSUME Separated PROVE SessionSpec => InsertNeverOverwrites
    OBVIOUS
  <1>1. ASSUME SessionInv, SessionNext PROVE Fine
    <2> SUFFICES ASSUME NEW c \in Conn, sess[c].at = "run", sess[c].stmt.kind = "insert",
                        sess'[c].at \in {"idle", "commit"}, ~sess'[c].failed,
                        NEW r \in sess[c].stmt.rows
                 PROVE  LookupIn(conn[c].tx, db, r) = Absent
      OBVIOUS
    <2> DEFINE v == View(conn[c].tx, db)
    <2>1. /\ v \in Data /\ (\A k \in Key : Lookup(c, k) = v[k]) /\ Whole(v) /\ Counted(v)
          /\ sess[c].stmt \in Statement
      BY <1>1, RunReads
    <2>2. r \in Rows /\ r \in Key /\ v[r] = LookupIn(conn[c].tx, db, r)
      BY <2>1, MetaKeys DEF Statement, View
    <2>3. RunOk(c) \/ RunFails(c)
      <3>1. PICK d \in Conn :
               \/ \E w \in Statements : Prepare(d, w)
               \/ StatementStep(d) \/ BeginStatement(d) \/ CommitStatement(d)
               \/ RollbackStatement(d) \/ EndSession(d)
               \/ \E p \in Plans : OpenCursor(d, p)
               \/ ReadRange(d) \/ CloseCursor(d)
        BY <1>1 DEF SessionNext
      <3>2. sess' # sess
        OBVIOUS
      <3>3. d = c
        <4> SUFFICES ASSUME d # c PROVE sess'[c] = sess[c]
          OBVIOUS
        <4>1. c \in DOMAIN sess
          BY <1>1 DEF SessionInv
        <4>2. CASE StatementStep(d)
          BY <4>1, <4>2 DEF StatementStep, TakeSlot, Goto, Busy, AutoBegin, RunOk, RunFails,
             AutoCommit, AutoCommitFails, AutoRollback, EngineFinishes, sessionVars
        <4>3. CASE ~StatementStep(d)
          BY <3>1, <4>1, <4>3 DEF Prepare, BeginStatement, CommitStatement,
             RollbackStatement, EndSession, OpenCursor, ReadRange, CloseCursor
        <4> QED BY <4>2, <4>3
      <3> QED BY <3>1, <3>2, <3>3 DEF Prepare, StatementStep, TakeSlot, Busy, AutoBegin,
             AutoCommit, AutoCommitFails, AutoRollback, EngineFinishes, Ready,
             sessionVars, BeginStatement, CommitStatement, RollbackStatement, EndSession,
             OpenCursor, ReadRange, CloseCursor
    <2>4. CASE RunOk(c)
      <3>1. Runs(c, sess[c].stmt)
        BY <2>4 DEF RunOk
      <3>2. Lookup(c, r) = Absent
        BY <3>1 DEF Runs, Unseen, Exists
      <3> QED BY <2>1, <2>2, <3>2
    <2>5. CASE RunFails(c)
      <3>1. PlanFails(c, sess[c].stmt)
        <4> DEFINE s == [sess[c] EXCEPT
                     !.failed = sess[c].tx /\ ~PlanFails(c, sess[c].stmt),
                     !.at = IF sess[c].tx THEN "idle" ELSE "rollback", !.stmt = Nil]
        <4>1. sess'[c] = s
          BY <2>5, <1>1 DEF RunFails, SessionInv
        <4>2. /\ s.at = (IF sess[c].tx THEN "idle" ELSE "rollback")
              /\ s.failed <=> sess[c].tx /\ ~PlanFails(c, sess[c].stmt)
          BY <1>1, SessionFacts DEF SessionState
        <4>3. s.at \in {"idle", "commit"} /\ ~s.failed
          BY <4>1
        <4> HIDE DEF s
        <4>4. sess[c].tx
          BY <4>2, <4>3
        <4> QED BY <4>2, <4>3, <4>4
      <3>2. v[Schema] = Absent
        BY <3>1, <2>1, MetaKeys DEF PlanFails, HasSchema, ReadMeta
      <3>3. Present(v) = {}
        BY <2>1, <3>2, CountIs, FS_EmptySet DEF Whole
      <3> QED BY <2>2, <3>3 DEF Present
    <2> QED BY <2>3, <2>4, <2>5
  <1>2. SessionInv /\ [SessionNext]_allVars => [Fine]_allVars
    BY <1>1
  <1> QED BY <1>2, SessionInvariant, PTL DEF SessionSpec, InsertNeverOverwrites
=============================================================================
