------------------------------ MODULE Iterators ------------------------------
(* Scans of a connection: the iterators of the two engines, the cursor over *)
(* a transaction's buffer (OverlayCursor) and MergingIterator, which merges *)
(* them.  Keys are integers.  A scan s has the engine, the data pinned when *)
(* it was opened, the half-open range and its direction; every position is  *)
(* a key within the range or End, because an iterator that has left its     *)
(* range refuses to move and only a seek brings it back.                    *)
EXTENDS Integers, FiniteSets

End == -1                    \* no position: valid() is false
Unbounded == -3              \* a bound that is not given
Removed == -4                \* the tombstone of a buffered remove

Scan(engine, data, start, end, forward) ==
    [engine |-> engine, data |-> data, start |-> start, end |-> end,
     forward |-> forward]

InRange(s, k) ==
    /\ s.start = Unbounded \/ s.start <= k
    /\ s.end = Unbounded \/ k < s.end
Clip(s, k) == IF k # End /\ InRange(s, k) THEN k ELSE End

(* An ordered map: lower_bound and the moves of leveldb::Iterator. *)
Smallest(S) == IF S = {} THEN End ELSE CHOOSE k \in S : \A l \in S : k <= l
Largest(S) == IF S = {} THEN End ELSE CHOOSE k \in S : \A l \in S : l <= k
AtOrAfter(S, k) == Smallest({l \in S : l >= k})
JustAfter(S, k) == Smallest({l \in S : l > k})
AtOrBefore(S, k) == Largest({l \in S : l <= k})
JustBefore(S, k) == Largest({l \in S : l < k})

-----------------------------------------------------------------------------
(* LevelDBIterator: over all keys of the database, checked against the      *)
(* range after each move.                                                   *)
LevelKeys(s) == DOMAIN s.data
(* Seek(end), and back one when that found a key at or after the end. *)
LevelLastBefore(s, end) ==
    LET found == AtOrAfter(LevelKeys(s), end)
    IN  IF found = End THEN End ELSE JustBefore(LevelKeys(s), found)

LevelFirst(s) ==
    IF s.forward
    THEN IF s.start = Unbounded THEN Smallest(LevelKeys(s))
         ELSE AtOrAfter(LevelKeys(s), s.start)
    ELSE IF s.end = Unbounded THEN Largest(LevelKeys(s))
         ELSE LevelLastBefore(s, s.end)
LevelLast(s) ==
    IF s.forward
    THEN IF s.end = Unbounded THEN Largest(LevelKeys(s))
         ELSE LevelLastBefore(s, s.end)
    ELSE IF s.start = Unbounded THEN Largest(LevelKeys(s))
         ELSE LET found == AtOrAfter(LevelKeys(s), s.start)
              IN  IF found > s.start THEN JustBefore(LevelKeys(s), found) ELSE found
LevelSeek(s, k) ==
    LET found == AtOrAfter(LevelKeys(s), k)
    IN  IF s.forward
        THEN AtOrAfter(LevelKeys(s), IF s.start # Unbounded /\ k < s.start
                                     THEN s.start ELSE k)
        ELSE IF s.end # Unbounded /\ k >= s.end THEN LevelFirst(s)
        ELSE IF found = End THEN Largest(LevelKeys(s))
        ELSE IF found > k THEN JustBefore(LevelKeys(s), found) ELSE found

(* MockIterator: over the rows of the range, copied when it was created. *)
Rows(s) == {k \in DOMAIN s.data : InRange(s, k)}
MockFirst(s) == IF s.forward THEN Smallest(Rows(s)) ELSE Largest(Rows(s))
MockLast(s) == IF s.forward THEN Largest(Rows(s)) ELSE Smallest(Rows(s))
MockSeek(s, k) ==
    IF ~s.forward THEN AtOrBefore(Rows(s), k)
    ELSE AtOrAfter(Rows(s), IF s.start # Unbounded /\ k < s.start
                            THEN s.start ELSE k)

-----------------------------------------------------------------------------
(* The data's iterator, whichever engine it is of. *)
IsLevel(s) == s.engine = "leveldb"
SeekToFirst(s) == Clip(s, IF IsLevel(s) THEN LevelFirst(s) ELSE MockFirst(s))
SeekToLast(s) == Clip(s, IF IsLevel(s) THEN LevelLast(s) ELSE MockLast(s))
SeekTo(s, k) == Clip(s, IF IsLevel(s) THEN LevelSeek(s, k) ELSE MockSeek(s, k))
Forth(s, k) ==
    IF k = End THEN End
    ELSE Clip(s, IF s.forward THEN JustAfter(DOMAIN s.data, k)
                 ELSE JustBefore(DOMAIN s.data, k))
Back(s, k) ==
    IF k = End THEN End
    ELSE Clip(s, IF s.forward THEN JustBefore(DOMAIN s.data, k)
                 ELSE JustAfter(DOMAIN s.data, k))

-----------------------------------------------------------------------------
(* TxBuffer: the keys put or removed (view_) with what was done to each.   *)
(* The range removals of DDL statements are left to KVEngine.               *)
NoWrites == [k \in {} |-> Removed]
BufferPut(tx, k, v) ==
    [l \in DOMAIN tx \cup {k} |-> IF l = k THEN v ELSE tx[l]]
BufferRemove(tx, k) == BufferPut(tx, k, Removed)
IsTombstone(tx, k) == k \in DOMAIN tx /\ tx[k] = Removed

(* What point reads see: get() asks the buffer, then the data. *)
Visible(data, tx) ==
    {k \in DOMAIN data \cup DOMAIN tx : ~IsTombstone(tx, k)}
View(data, tx) ==
    [k \in Visible(data, tx) |-> IF k \in DOMAIN tx THEN tx[k] ELSE data[k]]

(* OverlayCursor: over the keys of view_.  seek() is not limited to the     *)
(* range, so before its start it may find a key outside.                    *)
OverlayStart(s, tx) ==
    LET keys == {k \in DOMAIN tx : InRange(s, k)}
    IN  IF s.forward THEN Smallest(keys) ELSE Largest(keys)
OverlayFinish(s, tx) ==
    LET keys == {k \in DOMAIN tx : InRange(s, k)}
    IN  IF s.forward THEN Largest(keys) ELSE Smallest(keys)
OverlaySeek(s, tx, k) ==
    Clip(s, IF s.forward THEN AtOrAfter(DOMAIN tx, k)
            ELSE AtOrBefore(DOMAIN tx, k))
OverlayForth(s, tx, k) ==
    IF k = End THEN End
    ELSE Clip(s, IF s.forward THEN JustAfter(DOMAIN tx, k)
                 ELSE JustBefore(DOMAIN tx, k))
OverlayBack(s, tx, k) ==
    IF k = End THEN End
    ELSE Clip(s, IF s.forward THEN JustBefore(DOMAIN tx, k)
                 ELSE JustAfter(DOMAIN tx, k))

-----------------------------------------------------------------------------
(* MergingIterator: the positions d in the data and o in the buffer, and    *)
(* the current key and value.                                               *)
At(d, o, k, v) == [d |-> d, o |-> o, key |-> k, value |-> v]
Exhausted == At(End, End, End, Removed)
Valid(it) == it.key # End

EarlierInScan(s, k, l) == IF s.forward THEN k < l ELSE k > l
OverlayFirst(s, d, o) == o # End /\ (d = End \/ EarlierInScan(s, o, d))

(* settle(): a key of the buffer wins over the data's; a tombstone takes    *)
(* the data's key with it; a key that only the data have is passed through. *)
RECURSIVE Settle(_, _, _, _)
Settle(s, tx, d, o) ==
    IF d = End /\ o = End THEN Exhausted
    ELSE IF OverlayFirst(s, d, o)
    THEN IF IsTombstone(tx, o) THEN Settle(s, tx, d, OverlayForth(s, tx, o))
         ELSE At(d, o, o, tx[o])
    ELSE IF d = o
    THEN IF IsTombstone(tx, o)
         THEN Settle(s, tx, Forth(s, d), OverlayForth(s, tx, o))
         ELSE At(d, o, d, tx[o])
    ELSE At(d, o, d, s.data[d])

NewIterator(s, tx) == Settle(s, tx, SeekToFirst(s), OverlayStart(s, tx))

NextItemForgetsOverlay(s, tx, it) ==                            \* mutant
    IF ~Valid(it) THEN it
    ELSE Settle(s, tx, IF it.d = it.key THEN Forth(s, it.d) ELSE it.d, it.o)
(* next(): both sources advance when both stand on the current key. *)
NextItem(s, tx, it) ==
    IF ~Valid(it) THEN it
    ELSE Settle(s, tx,
                IF it.d = it.key THEN Forth(s, it.d) ELSE it.d,
                IF it.o = it.key THEN OverlayForth(s, tx, it.o) ELSE it.o)

SeekItem(s, tx, k) == Settle(s, tx, SeekTo(s, k), OverlaySeek(s, tx, k))

(* Past tombstones, towards the start of the scan. *)
RECURSIVE BackPastRemoved(_, _, _)
BackPastRemoved(s, tx, d) ==
    IF d # End /\ IsTombstone(tx, d)
    THEN BackPastRemoved(s, tx, Back(s, d)) ELSE d
RECURSIVE OverlayBackPastRemoved(_, _, _)
OverlayBackPastRemoved(s, tx, o) ==
    IF o # End /\ IsTombstone(tx, o)
    THEN OverlayBackPastRemoved(s, tx, OverlayBack(s, tx, o)) ELSE o
(* later_in_scan() of the two candidates. *)
LaterOf(s, d, o) ==
    IF d = End THEN o
    ELSE IF o # End /\ EarlierInScan(s, d, o) THEN o ELSE d

Predecessor(s, tx, k) ==
    LET d == SeekTo(s, k)
        o == OverlaySeek(s, tx, k)
    IN  LaterOf(s,
          BackPastRemoved(s, tx, IF d = End THEN SeekToLast(s) ELSE Back(s, d)),
          OverlayBackPastRemoved(s, tx, IF o = End THEN OverlayFinish(s, tx)
                                        ELSE OverlayBack(s, tx, o)))
LastItem(s, tx) ==
    LaterOf(s, BackPastRemoved(s, tx, SeekToLast(s)),
            OverlayBackPastRemoved(s, tx, OverlayFinish(s, tx)))

(* prev() and seek_to_last(): find the key, then seek both sources to it. *)
PrevItem(s, tx, it) ==
    IF ~Valid(it) THEN it
    ELSE LET k == Predecessor(s, tx, it.key)
         IN  IF k = End THEN Exhausted ELSE SeekItem(s, tx, k)
SeekToLastItem(s, tx) ==
    LET k == LastItem(s, tx)
    IN  IF k = End THEN Exhausted ELSE SeekItem(s, tx, k)
=============================================================================
