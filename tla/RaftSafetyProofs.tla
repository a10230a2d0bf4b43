-------------------------- MODULE RaftSafetyProofs --------------------------
(***************************************************************************)
(* What a raft group has committed stays committed.  The invariant is that *)
(* the group has a history in which every node is upright, every message   *)
(* on its way is true and every vote is fair; every step of the group      *)
(* leads to a state with a history that goes on.  From it follow the       *)
(* agreement of the servers on what is committed, what a leader and its    *)
(* store have of what clients were told, that a running server takes back  *)
(* nothing it has committed, and, with an invariant on rounds of           *)
(* heartbeats, that a read sees all that was acknowledged before it.       *)
(***************************************************************************)
EXTENDS RaftHistoryProofs

-----------------------------------------------------------------------------
(* A follower takes a snapshot. *)

(* A longer beginning of the history has more values. *)
LEMMA ValuesGrow ==
    ASSUME NEW W, NEW k \in Nat, NEW l \in Nat, k <= l
    PROVE  Values(W, k) \subseteq Values(W, l)
<1>1. 1 .. k \subseteq 1 .. l
  OBVIOUS
<1> QED
  BY <1>1 DEF Values

(* restore(): the store becomes that of the snapshot. *)
LEMMA RestoredUpright ==
    ASSUME NEW W \in World, NEW n \in Node, Upright(W, n),
           NEW m \in InstallSnapshotRequest, VouchedSnapshot(W, m),
           n.applied <= m.index, NEW r \in Node, SameCore(n, r),
           r.next = n.next, r.match = n.match, r.out = n.out, r.told = n.told,
           r.applied = n.applied, r.results = n.results, r.up = n.up,
           r.data = m.data
    PROVE  Upright(W, r)
<1>1. n.applied \in Nat /\ m.index \in Nat /\ r.applied <= r.commit
  BY NodeFields DEF Node, InstallSnapshotRequest, Upright, Core, Committed, SameCore
<1>2. Core(W, r)
  BY <1>1, SameCoreHolds DEF Upright
<1>3. Values(W, n.applied) \subseteq Values(W, m.index)
  BY <1>1, ValuesGrow
<1>4. Stores(W, r)
  BY <1>3 DEF Upright, Stores, VouchedSnapshot, SameCore
<1>5. Progress(W, r) /\ Answers(W, r)
  BY DEF Upright, Progress, Answers, SameCore
<1>6. Outgoing(W, r)
  <2>1. \A m1 : Solicits(r, m1) = Solicits(n, m1)
    BY SameSolicits
  <2> QED
    BY <2>1 DEF Upright, Outgoing, SameCore
<1> QED
  BY <1>2, <1>4, <1>5, <1>6 DEF Upright

(* install_snapshot() of the log store where entries remain. *)
LEMMA KeptTail ==
    ASSUME NEW n \in NodeState, NEW b \in Nat, n.snapIndex <= b, b < LastIndex(n),
           NEW r \in NodeState, r.snapIndex = b,
           r.log = SubSeq(n.log, b - n.snapIndex + 1, Len(n.log))
    PROVE  /\ LastIndex(r) = LastIndex(n) /\ LastTerm(r) = LastTerm(n)
           /\ \A i \in 1 .. Len(r.log) :
                /\ i + (b - n.snapIndex) \in 1 .. Len(n.log)
                /\ r.log[i] = n.log[i + (b - n.snapIndex)]
                /\ r.snapIndex + i = n.snapIndex + (i + (b - n.snapIndex))
           /\ r.log # << >> /\ n.log # << >>
<1> DEFINE d == b - n.snapIndex
<1>1. /\ n.log \in Seq(Entry) /\ n.snapIndex \in Nat /\ Len(n.log) \in Nat
      /\ LastIndex(n) = n.snapIndex + Len(n.log)
      /\ LastIndex(r) = r.snapIndex + Len(r.log)
  BY NodeFields DEF LastIndex
<1>r. r.log \in Seq(Entry) /\ Len(r.log) \in Nat
  <2>1. r.log \in Seq(Entry)
    BY ONLY NodeFields, r \in NodeState
  <2> QED
    BY ONLY <2>1
<1>2. d \in Nat /\ d < Len(n.log) /\ b = n.snapIndex + d
  BY ONLY <1>1, b \in Nat, n.snapIndex <= b, b < LastIndex(n)
<1>c. r.log = SubSeq(n.log, d + 1, Len(n.log))
  BY <1>2
<1> HIDE DEF d
<1>3. Len(r.log) = Len(n.log) - d
  BY ONLY <1>1, <1>2, <1>c
<1>4. \A i \in 1 .. Len(r.log) :
        i + d \in 1 .. Len(n.log) /\ r.log[i] = n.log[i + d]
  <2> TAKE i \in 1 .. Len(r.log)
  <2>1. i \in Nat /\ i >= 1 /\ i <= Len(n.log) - d
    BY ONLY <1>1, <1>2, <1>3, i \in 1 .. Len(r.log)
  <2>2. i + d \in 1 .. Len(n.log) /\ i + d = (d + 1) + i - 1
    BY ONLY <1>1, <1>2, <2>1
  <2>3. SubSeq(n.log, d + 1, Len(n.log))[i] = n.log[(d + 1) + i - 1]
    BY ONLY <1>1, <1>2, <2>1, <1>c
  <2> QED
    BY <1>c, <2>2, <2>3
<1>5. LastIndex(r) = LastIndex(n)
  BY ONLY <1>1, <1>2, <1>3, r.snapIndex = b
<1>6. Len(r.log) \in 1 .. Len(r.log) /\ Len(r.log) + d = Len(n.log)
  BY ONLY <1>1, <1>r, <1>2, <1>3
<1>7. r.log[Len(r.log)] = n.log[Len(n.log)]
  BY <1>4, <1>6
<1>8. n.log # << >> /\ r.log # << >>
  <2>1. Len(n.log) # 0 /\ Len(r.log) # 0
    BY ONLY <1>1, <1>r, <1>2, <1>6
  <2> QED
    BY ONLY <1>1, <1>r, <2>1
<1>9. LastTerm(r) = LastTerm(n)
  BY <1>7, <1>8, LastTermType
<1>10. \A i \in 1 .. Len(r.log) : r.snapIndex + i = n.snapIndex + (i + d)
  BY ONLY <1>1, <1>2, r.snapIndex = b
<1> QED
  BY <1>4, <1>5, <1>8, <1>9, <1>10 DEF d

(* n has taken the snapshot up to k, which the leader of its term sent. *)
Installs(W, n, k) ==
    /\ Upright(W, n) /\ n.role = "Follower" /\ W.logs[n.term] # << >>
    /\ n.applied <= k /\ ChosenBy(W, k, n.term)
    /\ Durable => Threshold # 0 /\ Values(W, k) \subseteq n.data

(* r has the boundary k and what n has behind it. *)
Installed(W, n, r, k) ==
    /\ r.id = n.id /\ r.term = n.term /\ r.role = n.role
    /\ r.snapIndex = k /\ r.snapTerm = ChosenTerm(W, k)
    /\ r.log = SubSeq(n.log, MinOf(k - n.snapIndex, Len(n.log)) + 1, Len(n.log))
    /\ r.applied = k /\ r.commit = MaxOf(n.commit, k)
    /\ r.next = n.next /\ r.match = n.match /\ r.out = n.out /\ r.told = n.told
    /\ r.data = n.data /\ r.results = n.results /\ r.up = n.up

(* An entry that n held is not ahead of the snapshot that replaces all of  *)
(* its log, or it is lost.                                                 *)
LEMMA HeldBehindSnapshot ==
    ASSUME NEW W \in World, Lawful(W), NEW n \in Node, NEW k \in Nat,
           Installs(W, n, k), LastIndex(n) <= k,
           NEW j \in Nat, NEW t \in Nat, <<n.id, j, t>> \in W.held
    PROVE  (Has(W, n.term, j, t) /\ j <= k) \/ Lost(W, j, t)
<1> DEFINE T == n.term
           L == LastTerm(n)
           e == LastIndex(n)
<1>1. /\ n \in NodeState /\ T \in Nat /\ n.snapIndex \in Nat /\ n.id \in Server
      /\ n.log \in Seq(Entry) /\ Len(n.log) \in Nat /\ n.applied \in Nat
      /\ n.snapIndex <= n.applied
  BY NodeFields DEF Node
<1>2. L \in Nat /\ e \in Nat /\ e = n.snapIndex + Len(n.log)
  BY <1>1, LastTermType
<1>3. Committed(W, n) /\ Copied(W, n) /\ Recorded(W, n) /\ W.terms[n.id] = T
  BY DEF Installs, Upright, Core, Recorded
<1>4. Own(W, j, t) /\ t <= T
  <2>1. Own(W, <<n.id, j, t>>[2], <<n.id, j, t>>[3])
        /\ <<n.id, j, t>>[3] <= W.terms[<<n.id, j, t>>[1]]
    BY Zenon DEF Lawful, HeldIsOwn
  <2> QED
    BY <1>3, <2>1
<1>5. /\ LastGe(n, j, t) \/ Lost(W, j, t)
      /\ t = T => j <= e
  BY <1>3 DEF Recorded
<1>6. CASE t = T
  BY <1>1, <1>2, <1>4, <1>5, <1>6 DEF Own
<1>7. CASE t < T /\ ~Lost(W, j, t)
  <2>1. Has(W, T, j, t)
    BY <1>1, <1>4, <1>7 DEF Lawful, LogsComplete, Installs
  <2>2. CASE j > k
    <3>1. L > t
      BY <1>2, <1>5, <1>7, <2>2 DEF LastGe
    <3>2. CASE n.log = << >>
      <4>1. L = ChosenTerm(W, n.snapIndex)
        BY <1>1, <1>3, <3>2, LastTermType DEF Committed
      <4>2. n.snapIndex # 0 /\ L = W.chosen[n.snapIndex].term
        BY <1>2, <3>1, <4>1 DEF ChosenTerm
      <4>3. Agree(W.chosen, W.logs[T], k)
        BY <1>1, ChosenInLog DEF Installs
      <4>4. n.snapIndex \in 1 .. k /\ n.snapIndex \in 1 .. j
        BY <1>1, <2>2, <4>2 DEF Installs
      <4>5. L = W.logs[T][n.snapIndex].term
        BY <4>2, <4>3, <4>4 DEF Agree
      <4>6. W.logs[T][n.snapIndex].term <= W.logs[T][j].term
        BY <1>1, <2>1, <4>4 DEF Lawful, LogsOrdered, Has
      <4>7. L <= t
        <5>1. W.logs[T][j].term = t
          BY ONLY <2>1 DEF Has
        <5> QED
          BY ONLY <4>5, <4>6, <5>1
      <4> QED
        BY ONLY <1>2, <3>1, <4>7, t \in Nat
    <3>3. CASE n.log # << >>
      <4>1. Follows(W, n, L) /\ L = n.log[Len(n.log)].term
        BY <1>1, <1>3, <3>3, LastTermType DEF Copied
      <4>2. Len(n.log) \in 1 .. Len(n.log)
        BY <1>1, <3>3
      <4>3. n.log[Len(n.log)] = W.logs[L][e]
        BY <1>2, <4>1, <4>2 DEF Follows
      <4>4. W.logs[L] \in Seq(Entry) /\ Len(W.logs[L]) \in Nat
        BY <1>2, WorldFields
      <4>5. e \in 1 .. Len(W.logs[L]) /\ W.logs[L] # << >>
        BY <1>1, <1>2, <4>1, <4>2, <4>4, SMTT(30) DEF Follows
      <4>6. Has(W, L, j, t)
        BY <1>2, <1>4, <1>7, <3>1, <4>5 DEF Lawful, LogsComplete
      <4>7. e \in 1 .. j
        BY <1>2, <2>2, <4>5
      <4>8. W.logs[L][e].term <= W.logs[L][j].term
        BY <1>2, <4>6, <4>7 DEF Lawful, LogsOrdered, Has
      <4>9. W.logs[L][j].term = t /\ W.logs[L][e].term = L
        BY <4>1, <4>3, <4>6 DEF Has
      <4>10. L <= t
        BY <4>8, <4>9
      <4> QED
        BY ONLY <1>2, <3>1, <4>10, t \in Nat
    <3> QED
      BY <3>2, <3>3
  <2> QED
    BY <2>1, <2>2
<1> QED
  BY <1>1, <1>4, <1>6, <1>7

(* A follower that took a snapshot for all of its log has every entry it   *)
(* held, or it is lost.                                                    *)
LEMMA InstalledRecorded ==
    ASSUME NEW W \in World, Lawful(W), NEW n \in Node, NEW k \in Nat,
           Installs(W, n, k), LastIndex(n) <= k,
           NEW r \in Node, Installed(W, n, r, k), r.log = << >>
    PROVE  Recorded(W, r)
<1> DEFINE T == n.term
<1>1. /\ n \in NodeState /\ r \in NodeState /\ T \in Nat
      /\ r.term = T /\ r.id = n.id /\ r.snapIndex = k
      /\ r.snapTerm = ChosenTerm(W, k)
  BY NodeFields DEF Node, Installed
<1>2. Recorded(W, n) /\ W.terms[n.id] = T
  BY DEF Installs, Upright, Core, Recorded
<1>3. LastIndex(r) = k /\ LastTerm(r) = ChosenTerm(W, k)
  BY <1>1, LastTermType
<1>4. Agree(W.chosen, W.logs[T], k)
  BY <1>1, ChosenInLog DEF Installs
<1>5. LastIndex(r) <= Len(W.logs[T])
  BY <1>3, <1>4 DEF Agree
<1>6. LastIndex(r) # 0 => LastTerm(r) = W.logs[T][LastIndex(r)].term
  BY <1>3, <1>4 DEF Agree, ChosenTerm
<1>7. ASSUME NEW j \in Nat, NEW t \in Nat, <<r.id, j, t>> \in W.held
      PROVE  /\ LastGe(r, j, t) \/ Lost(W, j, t)
             /\ t = r.term => j <= LastIndex(r) /\ ~(j > r.snapIndex)
  <2>1. (Has(W, T, j, t) /\ j <= k) \/ Lost(W, j, t)
    BY <1>1, <1>7, HeldBehindSnapshot
  <2>2. LastGe(r, j, t) \/ Lost(W, j, t)
    BY <1>1, <1>3, <1>5, <1>6, <2>1, LeaderLastGe
  <2>3. t = T => j <= LastIndex(n)
    BY <1>1, <1>2, <1>7 DEF Recorded
  <2>4. LastIndex(n) \in Nat
    BY <1>1, LastIndexType
  <2> QED
    BY <1>1, <1>3, <2>2, <2>3, <2>4
<1>8. \A i \in 1 .. Len(r.log) : FALSE
  OBVIOUS
<1> QED
  BY <1>1, <1>2, <1>7, <1>8 DEF Recorded

(* install_snapshot() of the log store. *)
LEMMA InstalledUpright ==
    ASSUME NEW W \in World, Lawful(W), NEW n \in Node, NEW k \in Nat,
           Installs(W, n, k), NEW r \in Node, Installed(W, n, r, k)
    PROVE  Upright(W, r)
<1> DEFINE T == n.term
<1>1. /\ n \in NodeState /\ r \in NodeState /\ T \in Nat /\ n.snapIndex \in Nat
      /\ n.commit \in Nat /\ n.applied \in Nat /\ n.snapIndex <= n.applied
      /\ n.log \in Seq(Entry) /\ Len(n.log) \in Nat
  BY NodeFields DEF Node
<1>2. /\ r.id = n.id /\ r.term = T /\ r.role = n.role
      /\ r.snapIndex = k /\ r.snapTerm = ChosenTerm(W, k)
      /\ r.applied = k /\ r.commit = MaxOf(n.commit, k)
      /\ r.next = n.next /\ r.match = n.match /\ r.out = n.out /\ r.told = n.told
      /\ r.data = n.data /\ r.results = n.results /\ r.up = n.up
  BY DEF Installed
<1>3. /\ Committed(W, n) /\ Copied(W, n) /\ Recorded(W, n) /\ n.role = "Follower"
      /\ n.applied <= k /\ ChosenBy(W, k, T)
  BY DEF Installs, Upright, Core
<1>4. /\ n.snapIndex <= k /\ LastIndex(n) \in Nat
      /\ LastIndex(n) = n.snapIndex + Len(n.log)
      /\ n.commit <= LastIndex(n)
  BY <1>1, <1>3, LastTermType DEF Committed
<1>5. ChosenBy(W, r.commit, T) /\ r.commit <= Len(W.chosen)
  <2>1. PICK t \in Nat : ChosenBy(W, n.commit, t) /\ t <= T
    BY <1>3 DEF Committed
  <2>2. ChosenBy(W, n.commit, T)
    BY <1>1, <2>1, ChosenByLess
  <2>3. ChosenBy(W, r.commit, T) /\ r.commit \in Nat
    BY <1>1, <1>2, <1>3, <2>2 DEF MaxOf
  <2> QED
    BY <2>3, ChosenLength
<1>6. ASSUME k < LastIndex(n) PROVE Core(W, r)
  <2> DEFINE d == k - n.snapIndex
  <2>1. MinOf(k - n.snapIndex, Len(n.log)) = k - n.snapIndex
    BY <1>1, <1>4, <1>6 DEF MinOf
  <2>2. r.log = SubSeq(n.log, k - n.snapIndex + 1, Len(n.log))
    BY <2>1 DEF Installed
  <2>3. /\ LastIndex(r) = LastIndex(n) /\ LastTerm(r) = LastTerm(n)
        /\ \A i \in 1 .. Len(r.log) :
             /\ i + d \in 1 .. Len(n.log)
             /\ r.log[i] = n.log[i + d]
             /\ r.snapIndex + i = n.snapIndex + (i + d)
        /\ r.log # << >> /\ n.log # << >>
    BY <1>1, <1>2, <1>4, <1>6, <2>2, KeptTail
  <2> HIDE DEF d
  <2>4. Committed(W, r)
    <3>1. \A i \in 1 .. Len(r.log) : r.snapIndex + i <= r.commit =>
            r.log[i] = W.chosen[r.snapIndex + i]
      <4> TAKE i \in 1 .. Len(r.log)
      <4> HAVE r.snapIndex + i <= r.commit
      <4>1. k + i > k /\ k + i <= MaxOf(n.commit, k)
        BY <1>2
      <4>2. r.snapIndex + i <= n.commit
        BY <1>1, <1>2, <4>1 DEF MaxOf
      <4>3. n.snapIndex + (i + d) <= n.commit /\ i + d \in 1 .. Len(n.log)
        BY <2>3, <4>2
      <4>4. n.log[i + d] = W.chosen[n.snapIndex + (i + d)]
        BY <1>3, <4>3 DEF Committed
      <4> QED
        BY <2>3, <4>4
    <3>2. r.applied <= r.commit /\ r.commit <= LastIndex(r)
      BY <1>1, <1>2, <1>4, <1>6, <2>3 DEF MaxOf
    <3> QED
      BY <1>1, <1>2, <1>3, <1>5, <3>1, <3>2 DEF Committed
  <2>5. Copied(W, r)
    <3>1. \A L : Follows(W, n, L) => Follows(W, r, L)
      BY <2>3 DEF Follows
    <3> QED
      BY <1>2, <1>3, <2>3, <3>1 DEF Copied
  <2>6. Recorded(W, r)
    <3>1. \A i \in 1 .. Len(r.log) :
            <<r.id, r.snapIndex + i, r.log[i].term>> \in W.held
      BY <1>2, <1>3, <2>3 DEF Recorded
    <3>2. ASSUME NEW j \in Nat, NEW t \in Nat, <<r.id, j, t>> \in W.held
          PROVE  /\ LastGe(r, j, t) \/ Lost(W, j, t)
                 /\ t = r.term => j <= LastIndex(r)
      BY <1>2, <1>3, <2>3, <3>2 DEF Recorded, LastGe
    <3>3. ASSUME NEW j \in Nat, NEW t \in Nat, <<r.id, j, t>> \in W.held,
                 t = r.term, j > r.snapIndex
          PROVE  r.log[j - r.snapIndex].term = t
      <4>1. j > n.snapIndex /\ j <= LastIndex(n)
        BY <1>1, <1>2, <1>3, <1>4, <3>3 DEF Recorded
      <4>2. n.log[j - n.snapIndex].term = t
        BY <1>2, <1>3, <3>3, <4>1 DEF Recorded
      <4>3. j - r.snapIndex \in 1 .. Len(r.log)
        <5>1. LastIndex(r) = r.snapIndex + Len(r.log) /\ Len(r.log) \in Nat
          BY <1>1, NodeFields DEF LastIndex
        <5>2. j <= LastIndex(r) /\ r.snapIndex \in Nat
          BY <1>2, <2>3, <4>1
        <5> QED
          BY ONLY <3>3, <5>1, <5>2
      <4>4. (j - r.snapIndex) + d = j - n.snapIndex
        BY <1>1, <1>2 DEF d
      <4>5. r.log[j - r.snapIndex] = n.log[(j - r.snapIndex) + d]
        BY <2>3, <4>3
      <4> QED
        BY <4>2, <4>4, <4>5
    <3> QED
      BY <1>2, <1>3, <3>1, <3>2, <3>3 DEF Recorded
  <2> QED
    BY <2>4, <2>5, <2>6 DEF Core
<1>7. ASSUME LastIndex(n) <= k PROVE Core(W, r)
  <2>1. MinOf(k - n.snapIndex, Len(n.log)) = Len(n.log)
    BY <1>1, <1>4, <1>7 DEF MinOf
  <2>2. r.log = << >>
    <3>1. r.log = SubSeq(n.log, Len(n.log) + 1, Len(n.log))
      BY <2>1 DEF Installed
    <3> QED
      BY ONLY <1>1, <3>1
  <2>3. LastIndex(r) = k /\ r.commit = k
    BY <1>1, <1>2, <1>4, <1>7, <2>2, LastTermType DEF MaxOf
  <2>4. \A i \in 1 .. Len(r.log) : FALSE
    BY ONLY <2>2
  <2>5. Committed(W, r)
    BY <1>1, <1>2, <1>3, <1>5, <2>3, <2>4 DEF Committed
  <2>6. Copied(W, r)
    BY <1>2, <1>3, <2>2 DEF Copied
  <2>7. Recorded(W, r)
    BY <1>7, <2>2, InstalledRecorded
  <2> QED
    BY <2>5, <2>6, <2>7 DEF Core
<1>8. Core(W, r)
  BY <1>1, <1>4, <1>6, <1>7
<1>9. Progress(W, r) /\ Answers(W, r)
  BY <1>2 DEF Installs, Upright, Progress, Answers
<1>10. Stores(W, r)
  <2>1. Values(W, n.applied) \subseteq Values(W, k)
    BY <1>1, <1>3, ValuesGrow
  <2>2. ASSUME Durable
        PROVE  /\ Threshold # 0 /\ Values(W, k) \subseteq n.data
               /\ n.results \subseteq n.data
               /\ n.results \subseteq Values(W, n.applied) /\ n.up
    BY <2>2 DEF Installs, Upright, Stores
  <2>3. ASSUME Durable PROVE n.results \subseteq Values(W, k)
    BY <2>1, <2>2, <2>3
  <2> QED
    BY <1>2, <2>2, <2>3 DEF Stores
<1>11. Outgoing(W, r)
  <2>1. \A m : Solicits(n, m) => Solicits(r, m)
    BY <1>2, <1>3 DEF Solicits
  <2>2. Outgoing(W, n)
    BY DEF Installs, Upright
  <2> QED
    BY <1>2, <2>1, <2>2 DEF Outgoing
<1> QED
  BY <1>8, <1>9, <1>10, <1>11 DEF Upright

-----------------------------------------------------------------------------
(* The invariant: the group has a history. *)

(* Voter v has nothing that candidate n lacks, unless it is lost. *)
Ballot(W, v, n) ==
    \A j, t \in Nat : <<v, j, t>> \in W.held /\ t < n.term =>
      LastGe(n, j, t) \/ Lost(W, j, t)

(* What is on its way is true of the history and of its sender. *)
WireVouched(W) ==
    \A f, s \in Server : \A i \in DOMAIN net[f][s] :
      Vouched(W, f, net[f][s][i]) /\ Solicits(node[f], net[f][s][i])
(* Whoever wrote the log of a term was elected. *)
LogsElected(W) == \A T \in Nat : W.logs[T] # << >> => \E e \in elected : e[2] = T
(* Whoever voted for a candidate has nothing that the candidate lacks. *)
BallotsFair(W) ==
    \A c \in cast :
      node[c[2]].role = "Candidate" /\ node[c[2]].term = c[3]
        => Ballot(W, c[1], node[c[2]])
(* A server that got a vote reached the term, and every vote is on record. *)
VotesKnown ==
    /\ \A c \in cast : c[3] <= node[c[2]].term
    /\ \A s \in Server : node[s].votedFor # Nil =>
         <<s, node[s].votedFor, node[s].term>> \in cast

SafeIn(W) ==
    /\ Lawful(W) /\ \A s \in Server : Upright(W, node[s])
    /\ WireVouched(W) /\ LogsElected(W) /\ BallotsFair(W) /\ VotesKnown
    /\ \A c \in told : Truthful(W, c)

SafetyInv == \E W \in World : SafeIn(W)

(* The vote of n is an old one, one for itself, or a fair one. *)
VoteFits(U, s, n) ==
    \/ n.votedFor \in {Nil, s}
    \/ n.votedFor = node[s].votedFor /\ n.term = node[s].term
    \/ /\ n.term <= node[n.votedFor].term
       /\ node[n.votedFor].role = "Candidate" /\ node[n.votedFor].term = n.term
            => Ballot(U, s, node[n.votedFor])

(* The step of s that ends as n leads from W to U. *)
SafeStep(W, U, s, n) ==
    /\ n \in NodeState /\ n.snapIndex <= n.applied /\ n.id = s
    /\ n.term >= node[s].term
    /\ Extends(W, U, s) /\ Lawful(U) /\ Upright(U, n)
    /\ \A T \in Nat : U.logs[T] = W.logs[T] \/ (n.role = "Leader" /\ T = n.term)
    /\ n.role = "Candidate" => n.term > node[s].term \/ SameEnd(node[s], n)
    /\ VoteFits(U, s, n)

(* A node is as upright once its messages and answers have left. *)
LEMMA SentUpright ==
    ASSUME NEW W, NEW n \in NodeState, Upright(W, n),
           NEW r, r = [n EXCEPT !.out = [t \in Server |-> << >>], !.told = {}]
    PROVE  Upright(W, r) /\ SameCore(n, r) /\ r.votedFor = n.votedFor
<1>1. /\ SameCore(n, r) /\ r.votedFor = n.votedFor
      /\ r.next = n.next /\ r.match = n.match /\ r.applied = n.applied
      /\ r.data = n.data /\ r.results = n.results /\ r.up = n.up
      /\ r.out = [t \in Server |-> << >>] /\ r.told = {}
  BY DEF NodeState, SameCore
<1>2. r.applied <= r.commit
  BY <1>1 DEF SameCore, Upright, Core, Committed
<1>3. Core(W, r)
  BY <1>1, <1>2, SameCoreHolds DEF Upright
<1>4. Progress(W, r)
  BY <1>1 DEF Upright, Progress, SameCore
<1>5. Stores(W, r)
  BY <1>1 DEF Upright, Stores, SameCore
<1>6. Outgoing(W, r) /\ Answers(W, r)
  BY <1>1 DEF Outgoing, Answers
<1> QED
  BY <1>1, <1>3, <1>4, <1>5, <1>6 DEF Upright

(* A node that takes no part in the step stays upright, for no other node  *)
(* leads in the term of the leader.                                        *)
LEMMA OthersUpright ==
    ASSUME Inv, Inv', NEW W \in World, NEW U \in World, SafeIn(W),
           NEW s \in Server, NEW n, SafeStep(W, U, s, n),
           NEW wire \in Wire, Become(s, n, wire), NEW v \in Server, v # s
    PROVE  Upright(U, node[v])
<1>1. /\ node[v] \in NodeState /\ node[v].id = v
      /\ node[v].snapIndex <= node[v].applied /\ Upright(W, node[v])
      /\ node[v].term \in Nat
  BY NodeFields DEF Inv, TypeInv, TypeOK, SafeIn
<1>2. Extends(W, U, s)
  BY DEF SafeStep
<1>3. U.terms[v] = W.terms[v] /\ \A x \in U.held \ W.held : x[1] # v
  BY <1>2 DEF Extends
<1>4. ASSUME node[v].role = "Leader"
      PROVE  U.logs[node[v].term] = W.logs[node[v].term]
  <2>1. Inv' => ElectionSafety'
    BY OneLeader, PTL
  <2>2. <<v, node[v].term>> \in elected
    BY <1>4 DEF Inv, ElectionInv, LeadersAreElected
  <2>3. elected \subseteq elected'
        /\ (n.role = "Leader" => <<s, n.term>> \in elected')
    BY DEF Become
  <2>4. CASE n.role = "Leader" /\ node[v].term = n.term
    <3>1. <<v, n.term>> \in elected' /\ <<s, n.term>> \in elected'
      BY <2>2, <2>3, <2>4
    <3>2. <<v, n.term>>[2] = <<s, n.term>>[2] => <<v, n.term>> = <<s, n.term>>
      BY <2>1, <3>1, Zenon DEF ElectionSafety
    <3> QED
      BY <3>2
  <2> QED
    BY <1>1, <2>4 DEF SafeStep
<1> QED
  BY <1>1, <1>2, <1>3, <1>4, UprightGrows

(* What the step leaves on its way. *)
LEMMA BecomeWire ==
    ASSUME Inv, NEW W \in World, NEW U \in World, SafeIn(W),
           NEW s \in Server, NEW n, SafeStep(W, U, s, n),
           NEW wire \in Wire, PartOf(wire), Become(s, n, wire)
    PROVE  WireVouched(U)'
<1> DEFINE r == [n EXCEPT !.out = [t \in Server |-> << >>], !.told = {}]
<1>1. n \in NodeState /\ n.id = s /\ Extends(W, U, s) /\ Upright(U, n)
  BY DEF SafeStep
<1>2. /\ node'[s] = r /\ \A t \in Server \ {s} : node'[t] = node[t]
  BY DEF Become, Inv, TypeInv, TypeOK
<1>3. SameCore(n, r)
  BY <1>1, SentUpright
<1> HIDE DEF r
<1>4. /\ \A f \in Server \ {s}, t \in Server : net'[f][t] = wire[f][t]
      /\ \A t \in Server : net'[s][t] = Enqueue(wire[s][t], n.out[t])
  BY DEF Become, Wire
<1>5. ASSUME NEW f \in Server, NEW t \in Server, NEW i \in DOMAIN wire[f][t]
      PROVE  Vouched(U, f, wire[f][t][i]) /\ Solicits(node'[f], wire[f][t][i])
  <2>1. PICK j \in DOMAIN net[f][t] : wire[f][t][i] = net[f][t][j]
    BY DEF PartOf
  <2> DEFINE m == net[f][t][j]
  <2>2. m \in Message /\ Vouched(W, f, m) /\ Solicits(node[f], m)
    BY <2>1 DEF Inv, TypeInv, TypeOK, SafeIn, WireVouched
  <2> HIDE DEF m
  <2>3. Vouched(U, f, m)
    BY <1>1, <2>2, VouchedGrows
  <2>4. CASE f # s
    BY <1>2, <2>1, <2>2, <2>3, <2>4 DEF m
  <2>5. CASE f = s
    <3>1. n.term \in Nat /\ node[s].term \in Nat
      BY <1>1, NodeFields DEF Inv, TypeInv, TypeOK
    <3>2. m.type = "RequestVote" => m.term \in Nat
      BY <2>2, MessageOfType DEF RequestVoteRequest
    <3>3. Solicits(n, m)
      BY <2>2, <2>5, <3>1, <3>2 DEF Solicits, SafeStep, SameEnd
    <3>4. Solicits(r, m)
      BY <1>3, <3>3, SameSolicits
    <3> QED
      BY <1>2, <2>1, <2>3, <2>5, <3>4 DEF m
  <2> QED
    BY <2>4, <2>5
<1>6. ASSUME NEW f \in Server, NEW t \in Server, NEW i \in DOMAIN net'[f][t]
      PROVE  Vouched(U, f, net'[f][t][i]) /\ Solicits(node'[f], net'[f][t][i])
  <2>1. CASE f # s
    BY <1>4, <1>5, <2>1
  <2>2. CASE f = s
    <3>1. wire[s][t] \in Seq(Message) /\ n.out[t] \in Seq(Message)
      BY <1>1, NodeFields DEF Wire
    <3>2. net'[f][t] = Enqueue(wire[s][t], n.out[t])
      BY <1>4, <2>2
    <3>3. \/ \E j \in DOMAIN wire[s][t] : net'[f][t][i] = wire[s][t][j]
          \/ \E j \in DOMAIN n.out[t] : net'[f][t][i] = n.out[t][j]
      BY <3>1, <3>2, EnqueueType
    <3>4. ASSUME NEW j \in DOMAIN n.out[t]
          PROVE  Vouched(U, s, n.out[t][j]) /\ Solicits(r, n.out[t][j])
      <4>1. Vouched(U, s, n.out[t][j]) /\ Solicits(n, n.out[t][j])
        BY <1>1, <3>4 DEF Upright, Outgoing
      <4> QED
        BY <1>3, <4>1, SameSolicits
    <3> QED
      BY <1>2, <1>5, <2>2, <3>3, <3>4
  <2> QED
    BY <2>1, <2>2
<1> QED
  BY <1>6 DEF WireVouched

(* What a voter held when it voted is all it ever has of earlier terms. *)
LEMMA BallotGrows ==
    ASSUME NEW W \in World, NEW U \in World, NEW s \in Server, Extends(W, U, s),
           NEW v \in Server, NEW n, n.term \in Nat, NEW r, SameEnd(n, r),
           v = s => n.term <= W.terms[s],
           Ballot(W, v, n)
    PROVE  Ballot(U, v, r)
<1> SUFFICES ASSUME NEW j \in Nat, NEW t \in Nat, <<v, j, t>> \in U.held, t < r.term
             PROVE  LastGe(r, j, t) \/ Lost(U, j, t)
  BY DEF Ballot
<1>1. W.terms[s] \in Nat /\ t < n.term
  BY WorldFields DEF SameEnd
<1>2. <<v, j, t>> \in W.held
  <2>1. CASE <<v, j, t>> \notin W.held
    <3>1. <<v, j, t>>[1] = s /\ <<v, j, t>>[3] >= W.terms[s]
      BY <2>1, Zenon DEF Extends
    <3>2. v = s /\ t >= W.terms[s]
      BY <3>1
    <3> QED
      BY <1>1, <3>2
  <2> QED
    BY <2>1
<1>3. LastGe(n, j, t) \/ Lost(W, j, t)
  BY <1>1, <1>2 DEF Ballot
<1>4. CASE LastGe(n, j, t)
  BY <1>4 DEF LastGe, SameEnd
<1>5. CASE Lost(W, j, t)
  BY <1>5, ExtendsLost
<1> QED
  BY <1>3, <1>4, <1>5

(* The votes that there were before the step. *)
LEMMA OldBallots ==
    ASSUME Inv, NEW W \in World, NEW U \in World, SafeIn(W),
           NEW s \in Server, NEW n, SafeStep(W, U, s, n),
           NEW c \in cast, NEW r, SameCore(n, r)
    PROVE  /\ c[2] # s /\ node[c[2]].role = "Candidate" /\ node[c[2]].term = c[3]
                => Ballot(U, c[1], node[c[2]])
           /\ c[2] = s /\ r.role = "Candidate" /\ r.term = c[3]
                => Ballot(U, c[1], r)
<1>1. c[1] \in Server /\ c[2] \in Server /\ c[3] \in Nat
  BY DEF Inv, TypeInv, TypeOK
<1>2. \A v \in Server : node[v].term \in Nat /\ W.terms[v] = node[v].term
  BY NodeFields DEF Inv, TypeInv, TypeOK, SafeIn, Upright, Core, Recorded
<1>3. c[3] <= node[c[1]].term
  BY <1>1, <1>2 DEF Inv, ElectionInv, VotesBindTheVoter
<1>4. Extends(W, U, s) /\ n.term \in Nat
  BY NodeFields DEF SafeStep
<1>5. ASSUME NEW g \in Server, node[g].role = "Candidate", node[g].term = c[3],
             g = c[2], NEW q, SameEnd(node[g], q)
      PROVE  Ballot(U, c[1], q)
  <2>1. Ballot(W, c[1], node[g])
    BY <1>5 DEF SafeIn, BallotsFair
  <2>2. c[1] = s => node[g].term <= W.terms[s]
    BY <1>2, <1>3, <1>5
  <2> QED
    BY <1>1, <1>2, <1>4, <1>5, <2>1, <2>2, BallotGrows
<1>6. SameEnd(node[c[2]], node[c[2]])
  BY DEF SameEnd
<1>7. ASSUME c[2] = s, r.role = "Candidate", r.term = c[3]
      PROVE  Ballot(U, c[1], r)
  <2>1. c[3] <= node[s].term
    BY <1>7 DEF SafeIn, VotesKnown
  <2>2. n.role = "Candidate" /\ n.term = c[3] /\ SameEnd(n, r)
    BY <1>7, SameCoreEnd DEF SameCore
  <2>3. SameEnd(node[s], n)
    BY <1>1, <1>2, <2>1, <2>2 DEF SafeStep
  <2>4. SameEnd(node[s], r) /\ node[s].role = "Candidate" /\ node[s].term = c[3]
    BY <2>2, <2>3 DEF SameEnd
  <2> QED
    BY <1>5, <1>7, <2>4
<1> QED
  BY <1>1, <1>5, <1>6, <1>7

(* A step keeps the votes fair: whoever voted has nothing that its         *)
(* candidate lacks.                                                        *)
LEMMA BecomeBallots ==
    ASSUME Inv, NEW W \in World, NEW U \in World, SafeIn(W),
           NEW s \in Server, NEW n, SafeStep(W, U, s, n),
           NEW wire \in Wire, Become(s, n, wire)
    PROVE  BallotsFair(U)' /\ VotesKnown'
<1> DEFINE r == [n EXCEPT !.out = [t \in Server |-> << >>], !.told = {}]
<1>1. /\ n \in NodeState /\ n.id = s /\ Upright(U, n) /\ n.term >= node[s].term
      /\ n.term \in Nat
  BY NodeFields DEF SafeStep
<1>2. /\ node'[s] = r /\ \A t \in Server \ {s} : node'[t] = node[t]
  BY DEF Become, Inv, TypeInv, TypeOK
<1>3. SameCore(n, r) /\ Upright(U, r) /\ r.votedFor = n.votedFor
  BY <1>1, SentUpright
<1>4. r.term = n.term /\ r.id = s /\ r.role = n.role
  BY <1>1, <1>3 DEF SameCore
<1> HIDE DEF r
<1>5. /\ \A v \in Server : node[v].term \in Nat
      /\ \A c \in cast : c[1] \in Server /\ c[2] \in Server /\ c[3] \in Nat
  BY NodeFields DEF Inv, TypeInv, TypeOK
<1>6. cast' = IF n.votedFor = Nil THEN cast ELSE cast \cup {<<s, n.votedFor, n.term>>}
  BY DEF Become
<1>7. \A c \in cast : c[3] <= node[c[2]].term
  BY DEF SafeIn, VotesKnown
<1>8. ASSUME NEW c \in cast PROVE c[3] <= node'[c[2]].term
  BY <1>1, <1>2, <1>4, <1>5, <1>7
<1>9. ASSUME NEW c \in cast, node'[c[2]].role = "Candidate", node'[c[2]].term = c[3]
      PROVE  Ballot(U, c[1], node'[c[2]])
  BY <1>2, <1>3, <1>5, <1>9, OldBallots
<1>10. ASSUME n.votedFor # Nil
       PROVE  LET g == n.votedFor
              IN  /\ n.term <= node'[g].term
                  /\ node'[g].role = "Candidate" /\ node'[g].term = n.term
                       => Ballot(U, s, node'[g])
  <2> DEFINE g == n.votedFor
  <2>1. g \in Server
    BY <1>1, <1>10, NodeFields
  <2>2. CASE g = s
    <3>1. Ballot(U, s, r)
      BY <1>3, <1>4 DEF Upright, Core, Recorded, Ballot
    <3> QED
      BY <1>1, <1>2, <1>4, <2>2, <3>1
  <2>3. CASE g # s /\ n.votedFor = node[s].votedFor /\ n.term = node[s].term
    <3>1. <<s, g, n.term>> \in cast
      BY <1>10, <2>3 DEF SafeIn, VotesKnown
    <3>2. /\ <<s, g, n.term>>[1] = s /\ <<s, g, n.term>>[2] = g
          /\ <<s, g, n.term>>[3] = n.term
      OBVIOUS
    <3> HIDE DEF g
    <3> QED
      BY <1>8, <1>9, <3>1, <3>2 DEF g
  <2>4. CASE g # s /\ ~(n.votedFor = node[s].votedFor /\ n.term = node[s].term)
    <3>1. node'[g] = node[g]
      BY <1>2, <2>1, <2>4
    <3> QED
      BY <1>10, <2>4, <3>1 DEF SafeStep, VoteFits
  <2> QED
    BY <2>2, <2>3, <2>4
<1>11. ASSUME NEW c \in cast'
       PROVE  /\ c[3] <= node'[c[2]].term
              /\ node'[c[2]].role = "Candidate" /\ node'[c[2]].term = c[3]
                   => Ballot(U, c[1], node'[c[2]])
  <2>1. CASE c \in cast
    BY <1>8, <1>9, <2>1
  <2>2. CASE c \notin cast
    <3>1. n.votedFor # Nil /\ c = <<s, n.votedFor, n.term>>
      BY <1>6, <2>2
    <3> QED
      BY <1>10, <3>1
  <2> QED
    BY <2>1, <2>2
<1>12. ASSUME NEW v \in Server, node'[v].votedFor # Nil
       PROVE  <<v, node'[v].votedFor, node'[v].term>> \in cast'
  <2>1. CASE v = s
    BY <1>2, <1>3, <1>4, <1>6, <1>12, <2>1
  <2>2. CASE v # s
    BY <1>2, <1>6, <1>12, <2>2 DEF SafeIn, VotesKnown
  <2> QED
    BY <2>1, <2>2
<1> QED
  BY <1>11, <1>12 DEF BallotsFair, VotesKnown

(* A step of one server leads from a history to a history. *)
LEMMA BecomeSafe ==
    ASSUME Inv, Inv', NEW W \in World, NEW U \in World, SafeIn(W),
           NEW s \in Server, NEW n, SafeStep(W, U, s, n),
           NEW wire \in Wire, PartOf(wire), Become(s, n, wire)
    PROVE  SafeIn(U)'
<1> DEFINE r == [n EXCEPT !.out = [t \in Server |-> << >>], !.told = {}]
<1>1. n \in NodeState /\ Upright(U, n) /\ Extends(W, U, s) /\ Lawful(U)
  BY DEF SafeStep
<1>2. /\ node'[s] = r /\ \A t \in Server \ {s} : node'[t] = node[t]
  BY DEF Become, Inv, TypeInv, TypeOK
<1>3. Upright(U, r)
  BY <1>1, SentUpright
<1> HIDE DEF r
<1>4. \A v \in Server : Upright(U, node'[v])
  BY <1>2, <1>3, OthersUpright
<1>5. WireVouched(U)' /\ BallotsFair(U)' /\ VotesKnown'
  BY BecomeWire, BecomeBallots
<1>6. LogsElected(U)'
  <2>1. /\ elected \subseteq elected'
        /\ n.role = "Leader" => <<s, n.term>> \in elected'
    BY DEF Become
  <2>2. ASSUME NEW T \in Nat, U.logs[T] # << >>
        PROVE  \E e \in elected' : e[2] = T
    <3>1. CASE U.logs[T] = W.logs[T]
      BY <2>1, <2>2, <3>1 DEF SafeIn, LogsElected
    <3>2. CASE n.role = "Leader" /\ T = n.term
      <4>1. <<s, n.term>> \in elected' /\ <<s, n.term>>[2] = T
        BY <2>1, <3>2
      <4> QED
        BY <4>1
    <3> QED
      BY <3>1, <3>2 DEF SafeStep
  <2> QED
    BY <2>2 DEF LogsElected
<1>7. ASSUME NEW c \in told' PROVE Truthful(U, c)
  <2>1. told' = told \cup n.told /\ told \subseteq Applied \cup ReadServed
    BY DEF Become, Inv, TypeInv, TypeOK
  <2>2. CASE c \in told
    BY <1>1, <2>1, <2>2, TruthfulGrows DEF SafeIn
  <2>3. CASE c \in n.told
    BY <1>1, <2>3 DEF Upright, Answers
  <2> QED
    BY <2>1, <2>2, <2>3
<1>8. Lawful(U)'
  BY <1>1
<1>9. \A v \in Server : Upright(U, node[v])'
  BY <1>4
<1>10. \A c \in told' : Truthful(U, c)'
  BY <1>7
<1> QED
  BY <1>5, <1>6, <1>8, <1>9, <1>10 DEF SafeIn

(* A step of one server to an upright node keeps the history of the group. *)
LEMMA EndsSafe ==
    ASSUME Inv, Inv', NEW W \in World, NEW U \in World, SafeIn(W),
           NEW s \in Server, NEW n, SafeStep(W, U, s, n), Ends(s, n)
    PROVE  SafeIn(U)'
<1>1. CASE Become(s, n, net)
  <2>1. net \in Wire /\ PartOf(net)
    BY DEF Inv, TypeInv, TypeOK, Wire, PartOf
  <2> QED
    BY <1>1, <2>1, BecomeSafe
<1>2. ASSUME NEW f \in Server, net[f][s] # << >>, Handled(f, s, n)
      PROVE  SafeIn(U)'
  <2> DEFINE wire == [net EXCEPT ![f][s] = Tail(@)]
  <2>1. wire \in Wire /\ PartOf(wire)
    BY <1>2, ArrivingMessage
  <2>2. Become(s, n, wire)
    BY <1>2 DEF Handled
  <2> HIDE DEF wire
  <2> QED
    BY <2>1, <2>2, BecomeSafe
<1> QED
  BY <1>1, <1>2 DEF Ends

-----------------------------------------------------------------------------
(* The steps. *)

(* A step leads to a state with a history that goes on from W. *)
SafeAfter(W) == \E U \in World, s \in Server : Extends(W, U, s) /\ SafeIn(U)'

(* The nodes of a group with a history are upright. *)
LEMMA NodeUpright ==
    ASSUME Inv, NEW W \in World, SafeIn(W), NEW s \in Server
    PROVE  /\ Lawful(W) /\ Upright(W, node[s])
           /\ node[s] \in Node /\ node[s] \in NodeState /\ node[s].id = s
           /\ node[s].term \in Nat /\ W.terms[s] = node[s].term
<1>1. node[s] \in Node /\ node[s].id = s /\ node[s] \in NodeState
  BY Books, NodeOfServer DEF Node
<1>2. Lawful(W) /\ Upright(W, node[s])
  BY DEF SafeIn
<1>3. W.terms[s] = node[s].term
  BY <1>1, <1>2 DEF Upright, Core, Recorded
<1> QED
  BY <1>1, <1>2, <1>3, NodeFields

(* What arrives is true of the history and of its sender. *)
LEMMA ArrivingVouched ==
    ASSUME Inv, NEW W \in World, SafeIn(W), NEW f \in Server, NEW s \in Server,
           net[f][s] # << >>
    PROVE  /\ Vouched(W, f, Head(net[f][s])) /\ Solicits(node[f], Head(net[f][s]))
           /\ Head(net[f][s]) \in Message
BY ArrivingMessage DEF SafeIn, WireVouched

(* A step of s that makes it no leader or candidate. *)
LEMMA QuietSafe ==
    ASSUME Inv, Inv', NEW W \in World, SafeIn(W), NEW s \in Server,
           NEW n \in Node, NEW U \in World, Grows(W, U, s), Upright(U, n),
           Advances(node[s], n),
           n.term > node[s].term => n.votedFor \in {Nil, s},
           n.role = "Candidate" => SameEnd(node[s], n), Ends(s, n)
    PROVE  SafeAfter(W)
<1>1. /\ node[s] \in NodeState /\ node[s].id = s /\ node[s].term \in Nat
  BY NodeUpright
<1>2. n \in NodeState /\ n.snapIndex <= n.applied /\ n.term \in Nat
  BY NodeFields DEF Node
<1>3. n.id = s /\ n.term >= node[s].term
  BY <1>1, <1>2 DEF Advances, SameVote
<1>4. VoteFits(U, s, n)
  <2>1. CASE n.term > node[s].term
    BY <2>1 DEF VoteFits
  <2>2. CASE n.term = node[s].term
    BY <2>2 DEF VoteFits, Advances, SameVote
  <2> QED
    BY <1>1, <1>2, <1>3, <2>1, <2>2
<1>5. SafeStep(W, U, s, n)
  BY <1>2, <1>3, <1>4 DEF SafeStep, Grows
<1>6. SafeIn(U)'
  BY <1>5, EndsSafe
<1> QED
  BY <1>6 DEF SafeAfter, Grows

(* A step of s that ends as leader. *)
LEMMA LeadSafe ==
    ASSUME Inv, Inv', NEW W \in World, SafeIn(W), NEW s \in Server,
           NEW n \in Node, NEW U \in World, Leads(W, U, s, n.term),
           Upright(U, n), n.role = "Leader", n.id = s,
           n.term >= node[s].term,
           \/ n.votedFor = s
           \/ n.votedFor = node[s].votedFor /\ n.term = node[s].term,
           Ends(s, n)
    PROVE  SafeAfter(W)
<1>1. n \in NodeState /\ n.snapIndex <= n.applied
  BY DEF Node
<1>2. VoteFits(U, s, n)
  BY DEF VoteFits
<1>3. \A T \in Nat : U.logs[T] = W.logs[T] \/ (n.role = "Leader" /\ T = n.term)
  BY DEF Leads
<1>4. SafeStep(W, U, s, n)
  BY <1>1, <1>2, <1>3 DEF SafeStep, Leads
<1>5. SafeIn(U)'
  BY <1>4, EndsSafe
<1> QED
  BY <1>5 DEF SafeAfter, Leads

(* tick() without an election. *)
LEMMA TickIdleSafe ==
    ASSUME Inv, Inv', NEW W \in World, SafeIn(W), NEW s \in Server,
           TickIdle(s) \/ TickHeartbeat(s)
    PROVE  SafeAfter(W)
<1>1. /\ Lawful(W) /\ Upright(W, node[s]) /\ node[s] \in Node
      /\ Grows(W, W, s)
  BY NodeUpright, GrowsReflexive
<1>2. PICK n \in {node[s], SendHeartbeats(node[s])},
           limit \in Limits(node[s]) :
             /\ Become(s, AfterTick(n, limit), net)
             /\ n = node[s] \/ node[s].role = "Leader"
  BY DEF TickIdle, TickHeartbeat
<1>3. n \in Node /\ SameVote(node[s], n) /\ Upright(W, n) /\ SameEnd(node[s], n)
  <2>1. CASE n = node[s]
    BY <1>1, <2>1 DEF SameVote, SameEnd
  <2>2. CASE node[s].role = "Leader" /\ n = SendHeartbeats(node[s])
    BY <1>1, <2>2, SendHeartbeatsType, SendHeartbeatsUpright, SameCoreEnd
  <2> QED
    BY <1>2, <2>1, <2>2
<1>4. limit \in Nat
  BY <1>1, LimitsType
<1> DEFINE r == AfterTick(n, limit)
<1>5. r \in Node /\ SameVote(n, r) /\ Upright(W, r) /\ SameEnd(n, r)
  BY <1>3, <1>4, AfterTickType, AfterTickUpright
<1>6. Ends(s, r)
  BY <1>2 DEF Ends
<1> HIDE DEF r
<1>7. Advances(node[s], r) /\ r.term = node[s].term /\ SameEnd(node[s], r)
  BY <1>3, <1>5 DEF Advances, SameVote, SameEnd
<1>8. node[s].term \in Nat
  BY NodeUpright
<1> QED
  BY <1>1, <1>5, <1>6, <1>7, <1>8, QuietSafe

(* tick() failing to compact. *)
LEMMA TickCompactionFailsSafe ==
    ASSUME Inv, Inv', NEW W \in World, SafeIn(W), NEW s \in Server,
           TickCompactionFails(s)
    PROVE  SafeAfter(W)
<1> DEFINE r == ApplyCommitted(node[s], Bound["log"])
<1>1. /\ Lawful(W) /\ Upright(W, node[s]) /\ node[s] \in Node
      /\ Grows(W, W, s) /\ Bound["log"] \in Nat /\ node[s].term \in Nat
  BY NodeUpright, GrowsReflexive, Books
<1>2. r \in Node /\ SameVote(node[s], r) /\ Upright(W, r) /\ SameCore(node[s], r)
  BY <1>1, ApplyCommittedType, ApplyCommittedUpright
<1>3. Ends(s, r)
  BY DEF TickCompactionFails, Ends
<1> HIDE DEF r
<1>4. Advances(node[s], r) /\ r.term = node[s].term /\ SameEnd(node[s], r)
  BY <1>2, SameCoreEnd DEF Advances, SameVote
<1> QED
  BY <1>1, <1>2, <1>3, <1>4, QuietSafe

(* A server that becomes leader of a term finds it without a log. *)
LEMMA TermIsNew ==
    ASSUME Inv, Inv', NEW W \in World, SafeIn(W), NEW s \in Server,
           NEW T \in Nat, <<s, T>> \notin elected,
           NEW n, n.role = "Leader", n.term = T, Ends(s, n)
    PROVE  W.logs[T] = << >>
<1>1. elected' = elected \cup {<<s, T>>}
  BY DEF Ends, Handled, Become
<1>2. ElectionSafety'
  BY OneLeader, PTL
<1>3. ASSUME NEW e \in elected, e[2] = T PROVE FALSE
  <2>1. e \in elected' /\ <<s, T>> \in elected'
    BY <1>1
  <2>2. e = <<s, T>>
    BY <1>2, <1>3, <2>1 DEF ElectionSafety
  <2> QED
    BY <2>2
<1> QED
  BY <1>3 DEF SafeIn, LogsElected

(* start_election(), in a group of one straight to become_leader(). *)
LEMMA TickElectionSafe ==
    ASSUME Inv, Inv', LogInv, NEW W \in World, SafeIn(W), NEW s \in Server,
           TickElection(s)
    PROVE  SafeAfter(W)
<1> DEFINE c == Campaign(node[s])
           b == IF HasQuorum(1) THEN BecomeLeader(c, Bound["log"])
                                ELSE RequestVotes(c)
           r == AfterTick(b, Bound["log"])
<1>1. /\ Lawful(W) /\ Upright(W, node[s]) /\ node[s] \in Node
      /\ node[s].id = s /\ node[s].term \in Nat
  BY NodeUpright
<1>2. /\ c \in Node /\ c.id = s /\ c.term = node[s].term + 1
      /\ c.role = "Candidate" /\ c.votedFor = s /\ c.votes = {s}
  BY <1>1, CampaignType
<1>3. PICK U \in World : Grows(W, U, s) /\ Upright(U, c)
  BY <1>1, CampaignUpright
<1>4. Ends(s, r) /\ Bound["log"] \in Nat
  BY Books DEF TickElection, Ends
<1> HIDE DEF c
<1>5. <<s, c.term>> \notin elected /\ c.term \in Nat
  BY <1>1, <1>2, NotYetElected
<1>6. Lawful(U) /\ U.logs = W.logs
  BY <1>3 DEF Grows
<1>7. CASE HasQuorum(1)
  <2> DEFINE l == BecomeLeader(c, Bound["log"])
  <2>1. /\ l \in Node /\ l.term = c.term /\ l.role = "Leader" /\ l.id = s
        /\ l.votedFor = s
    BY <1>2, <1>4, BecomeLeaderType
  <2>2. b = l
    BY <1>7
  <2> HIDE DEF l, b
  <2>3. r \in Node /\ SameVote(l, r)
    BY <1>4, <2>1, <2>2, AfterTickType
  <2>4. r.term = c.term /\ r.role = "Leader" /\ r.id = s /\ r.votedFor = s
    BY <2>1, <2>3 DEF SameVote
  <2>5. U.logs[c.term] = << >>
    <3> HIDE DEF r
    <3> QED
      BY <1>4, <1>5, <1>6, <2>4, TermIsNew
  <2>6. Backers(U, c)
    <3>1. Cardinality({s}) = 1
      BY FS_Singleton
    <3>2. Recorded(U, c)
      BY <1>3 DEF Upright, Core
    <3>3. U.terms[s] >= c.term
      BY <1>2, <1>5, <3>2 DEF Recorded
    <3>4. \A j, t \in Nat : <<s, j, t>> \in U.held =>
            LastGe(c, j, t) \/ Lost(U, j, t)
      BY <1>2, <3>2 DEF Recorded
    <3>5. HasQuorum(Cardinality({s})) /\ {s} \in SUBSET Server
      BY <1>7, <3>1
    <3> QED
      BY <3>3, <3>4, <3>5 DEF Backers
  <2>7. PICK X \in World : Leads(U, X, s, c.term) /\ Upright(X, l)
    BY <1>2, <1>3, <1>4, <1>6, <2>5, <2>6, BecomeLeaderUpright DEF l
  <2>8. Upright(X, r)
    BY <1>4, <2>1, <2>2, <2>7, AfterTickUpright
  <2> HIDE DEF r
  <2>9. Leads(W, X, s, c.term)
    BY <1>3, <2>7, GrowsLeads, LeadsTransitive
  <2>10. r.term >= node[s].term
    BY <1>1, <1>2, <2>4
  <2> QED
    BY <1>4, <2>3, <2>4, <2>8, <2>9, <2>10, LeadSafe
<1>8. CASE ~HasQuorum(1)
  <2> DEFINE q == RequestVotes(c)
  <2>1. q \in Node /\ SameVote(c, q) /\ Upright(U, q)
    BY <1>2, <1>3, RequestVotesType, RequestVotesUpright
  <2>2. b = q
    BY <1>8
  <2> HIDE DEF q, b
  <2>3. r \in Node /\ SameVote(q, r) /\ Upright(U, r)
    BY <1>4, <2>1, <2>2, AfterTickType, AfterTickUpright
  <2> HIDE DEF r
  <2>4. /\ r \in NodeState /\ r.snapIndex <= r.applied /\ r.id = s
        /\ r.term = c.term /\ r.votedFor = s
    BY <1>2, <2>1, <2>3 DEF SameVote, Node
  <2>5. r.term > node[s].term /\ r.term >= node[s].term
    BY <1>1, <1>2, <2>4
  <2>6. VoteFits(U, s, r)
    BY <2>4 DEF VoteFits
  <2>7. SafeStep(W, U, s, r)
    BY <1>3, <2>3, <2>4, <2>5, <2>6 DEF SafeStep, Grows
  <2>8. SafeIn(U)'
    BY <1>4, <2>7, EndsSafe
  <2> QED
    BY <1>3, <2>8 DEF SafeAfter, Grows
<1> QED
  BY <1>7, <1>8

(* start_election() failing to write. *)
LEMMA TickElectionFailsSafe ==
    ASSUME Inv, Inv', NEW W \in World, SafeIn(W), NEW s \in Server,
           TickElectionFails(s)
    PROVE  SafeAfter(W)
<1> DEFINE unsaved == [node[s] EXCEPT !.leader = Nil]
           alone == BecomeLeaderFailed(Campaign(node[s]))
<1>1. /\ Lawful(W) /\ Upright(W, node[s]) /\ node[s] \in Node
      /\ node[s] \in NodeState /\ node[s].id = s /\ node[s].term \in Nat
  BY NodeUpright
<1>2. /\ unsaved \in Node /\ SameVote(node[s], unsaved)
      /\ SameCore(node[s], unsaved) /\ Upright(W, unsaved)
  <2>1. unsaved \in NodeState
    <3>1. Nil \in Server \cup {Nil}
      OBVIOUS
    <3> QED
      BY <1>1, <3>1, Zenon DEF NodeState
  <2>2. /\ SameVote(node[s], unsaved) /\ SameCore(node[s], unsaved)
        /\ unsaved.applied = node[s].applied
        /\ unsaved.next = node[s].next /\ unsaved.match = node[s].match
        /\ unsaved.out = node[s].out /\ unsaved.told = node[s].told
        /\ unsaved.data = node[s].data /\ unsaved.results = node[s].results
        /\ unsaved.up = node[s].up
    BY <1>1 DEF NodeState, SameVote, SameCore
  <2> HIDE DEF unsaved
  <2>3. unsaved.applied <= unsaved.commit
    BY <1>1, <2>2 DEF Upright, Core, Committed, SameCore
  <2>4. Upright(W, unsaved)
    BY <1>1, <2>2, <2>3, SameCoreUpright
  <2>5. unsaved \in Node
    BY <1>1, <2>1, <2>2 DEF Node, SameCore
  <2> QED
    BY <2>2, <2>4, <2>5
<1>3. /\ alone \in Node /\ alone.id = s /\ alone.role = "Follower"
      /\ alone.term = node[s].term + 1 /\ alone.votedFor = s
      /\ \E U \in World : Grows(W, U, s) /\ Upright(U, alone)
  <2> DEFINE c == Campaign(node[s])
  <2>1. /\ c \in Node /\ c.id = s /\ c.term = node[s].term + 1
        /\ c.votedFor = s
    BY <1>1, CampaignType
  <2>2. PICK U \in World : Grows(W, U, s) /\ Upright(U, c)
    BY <1>1, CampaignUpright
  <2> HIDE DEF c
  <2>3. Lawful(U)
    BY <2>2 DEF Grows
  <2>4. PICK X \in World : Grows(U, X, s) /\ Upright(X, BecomeLeaderFailed(c))
    BY <2>1, <2>2, <2>3, BecomeLeaderFailedUpright
  <2>5. Grows(W, X, s)
    BY <2>2, <2>4, GrowsTransitive
  <2>6. /\ BecomeLeaderFailed(c) \in Node /\ BecomeLeaderFailed(c).id = s
        /\ BecomeLeaderFailed(c).role = "Follower"
        /\ BecomeLeaderFailed(c).term = c.term
        /\ BecomeLeaderFailed(c).votedFor = s
    BY <2>1, BecomeLeaderFailedType
  <2>7. alone = BecomeLeaderFailed(c)
    BY DEF c
  <2> HIDE DEF alone
  <2> QED
    BY <2>1, <2>4, <2>5, <2>6, <2>7
<1>4. PICK n \in {unsaved, alone} : Become(s, AfterTick(n, Bound["log"]), net)
  BY DEF TickElectionFails
<1> HIDE DEF unsaved, alone
<1>5. /\ n \in Node /\ Advances(node[s], n)
      /\ n.term > node[s].term => n.votedFor = s
      /\ n.role = "Candidate" => SameEnd(node[s], n)
  <2>1. CASE n = unsaved
    BY <1>1, <1>2, <2>1, SameCoreEnd DEF Advances, SameVote
  <2>2. CASE n = alone
    BY <1>1, <1>3, <2>2 DEF Advances
  <2> QED
    BY <1>4, <2>1, <2>2
<1>6. PICK U \in World : Grows(W, U, s) /\ Upright(U, n)
  BY <1>1, <1>2, <1>3, <1>4, GrowsReflexive
<1> DEFINE r == AfterTick(n, Bound["log"])
<1>7. r \in Node /\ SameVote(n, r) /\ Upright(U, r) /\ SameEnd(n, r)
  BY <1>5, <1>6, Books, AfterTickType, AfterTickUpright
<1>8. Ends(s, r)
  BY <1>4 DEF Ends
<1> HIDE DEF r
<1>9. Advances(node[s], r)
  BY <1>1, <1>5, <1>7, AdvancesTransitive DEF Advances
<1>10. /\ r.term > node[s].term => r.votedFor \in {Nil, s}
       /\ r.role = "Candidate" => SameEnd(node[s], r)
  BY <1>5, <1>7 DEF SameVote, SameEnd
<1> QED
  BY <1>6, <1>7, <1>8, <1>9, <1>10, QuietSafe

(* propose() adds to the log of the leader's term. *)
LEMMA ProposeSafe ==
    ASSUME Inv, Inv', NEW W \in World, SafeIn(W), NEW s \in Server,
           NEW v \in Value, Propose(s, v)
    PROVE  SafeAfter(W)
<1> DEFINE a == AppendOwn(node[s], v)
           p == [index |-> LastIndex(a), value |-> v]
           n == [a EXCEPT !.pending = @ \cup {p}]
<1>1. /\ Lawful(W) /\ Upright(W, node[s]) /\ node[s] \in Node
      /\ node[s].role = "Leader" /\ node[s].id = s /\ node[s].term \in Nat
  BY NodeUpright DEF Propose
<1>2. a \in Node /\ SameVote(node[s], a)
  BY <1>1, AppendOwnType DEF Command
<1>3. PICK U \in World : Leads(W, U, s, node[s].term) /\ Upright(U, a)
  BY <1>1, AppendOwnUpright DEF Command
<1>4. PICK limit \in Limits(n) :
        Become(s, SendHeartbeats(AdvanceCommit(n, limit)), net)
  BY DEF Propose
<1> HIDE DEF a
<1>5. n \in Node /\ SameVote(a, n) /\ Upright(U, n)
  <2>1. a \in NodeState
    BY <1>2 DEF Node
  <2>2. p \in PendingProposal
    BY <2>1, LastIndexType DEF PendingProposal
  <2> HIDE DEF p
  <2>3. a.pending \cup {p} \in SUBSET PendingProposal
    BY <2>1, <2>2, NodeFields
  <2>4. n \in NodeState
    BY <2>1, <2>3, Zenon DEF NodeState
  <2>5. /\ SameVote(a, n) /\ SameCore(a, n) /\ n.applied = a.applied
        /\ n.next = a.next /\ n.match = a.match /\ n.out = a.out
        /\ n.told = a.told /\ n.data = a.data /\ n.results = a.results
        /\ n.up = a.up
    BY <2>1 DEF NodeState, SameVote, SameCore
  <2> HIDE DEF n
  <2>6. n.applied <= n.commit
    BY <1>3, <2>5 DEF Upright, Core, Committed, SameCore
  <2>7. Upright(U, n)
    BY <1>3, <2>5, <2>6, SameCoreUpright
  <2> QED
    BY <1>2, <2>4, <2>5, <2>7 DEF Node, SameCore
<1> HIDE DEF n
<1>6. limit \in Nat /\ n.role = "Leader" /\ n.id = s /\ Lawful(U)
  BY <1>1, <1>2, <1>3, <1>5, LimitsType DEF SameVote, Leads
<1> DEFINE c == AdvanceCommit(n, limit)
           r == SendHeartbeats(c)
<1>7. c \in Node /\ SameVote(n, c)
  BY <1>5, <1>6, AdvanceCommitType
<1>8. PICK X \in World : Chooses(U, X, s) /\ Upright(X, c)
  BY <1>5, <1>6, AdvanceCommitUpright
<1> HIDE DEF c
<1>9. Lawful(X) /\ Grows(U, X, s) /\ c.role = "Leader"
  BY <1>6, <1>7, <1>8, ChoosesGrows DEF Chooses, SameVote
<1>10. r \in Node /\ SameVote(c, r) /\ Upright(X, r)
  BY <1>7, <1>8, <1>9, SendHeartbeatsType, SendHeartbeatsUpright
<1>11. Ends(s, r)
  BY <1>4 DEF c, Ends
<1> HIDE DEF r
<1>12. /\ r.id = s /\ r.role = "Leader" /\ r.term = node[s].term
       /\ r.votedFor = node[s].votedFor
  BY <1>1, <1>2, <1>5, <1>7, <1>10 DEF SameVote
<1>13. Leads(W, X, s, r.term) /\ r.term >= node[s].term
  BY <1>1, <1>3, <1>9, <1>12, GrowsLeads, LeadsTransitive
<1> QED
  BY <1>10, <1>11, <1>12, <1>13, LeadSafe

(* read_barrier() *)
LEMMA ReadIndexSafe ==
    ASSUME Inv, Inv', NEW W \in World, SafeIn(W), NEW s \in Server, ReadIndex(s)
    PROVE  SafeAfter(W)
<1> DEFINE n == SendHeartbeats(node[s])
           b == [round |-> n.round, target |-> n.commit, need |-> Acknowledged]
           a == [n EXCEPT !.barriers = @ \cup {b}]
           r == EvaluateReadBarriers(a)
<1>1. /\ Lawful(W) /\ Upright(W, node[s]) /\ node[s] \in Node
      /\ node[s].role = "Leader" /\ node[s].id = s /\ node[s].term \in Nat
      /\ Grows(W, W, s)
  BY NodeUpright, GrowsReflexive DEF ReadIndex
<1>2. n \in Node /\ SameVote(node[s], n) /\ Upright(W, n)
  BY <1>1, SendHeartbeatsType, SendHeartbeatsUpright
<1>3. Ends(s, r)
  BY DEF ReadIndex, Ends
<1> HIDE DEF n
<1>4. n \in NodeState
  BY <1>2 DEF Node
<1>5. Acknowledged \in SUBSET Value
  <2>1. \A x \in told : x.type = "Applied" => x.command \in Value
    BY DEF Inv, TypeInv, TypeOK, Applied, ReadServed
  <2> QED
    BY <2>1 DEF Acknowledged
<1>6. b \in ReadBarrier
  BY <1>4, <1>5, NodeFields DEF ReadBarrier
<1> HIDE DEF b
<1>7. n.barriers \cup {b} \in SUBSET ReadBarrier
  BY <1>4, <1>6, NodeFields
<1>8. a \in NodeState
  BY <1>4, <1>7, Zenon DEF NodeState
<1>9. /\ SameVote(n, a) /\ SameCore(n, a) /\ a.applied = n.applied
      /\ a.next = n.next /\ a.match = n.match /\ a.out = n.out
      /\ a.told = n.told /\ a.data = n.data /\ a.results = n.results
      /\ a.up = n.up
  BY <1>4 DEF NodeState, SameVote, SameCore
<1> HIDE DEF a
<1>10. a.applied <= a.commit
  BY <1>2, <1>9 DEF Upright, Core, Committed, SameCore
<1>11. a \in Node /\ Upright(W, a)
  BY <1>2, <1>8, <1>9, <1>10, SameCoreUpright DEF Node, SameCore
<1>12. r \in Node /\ SameVote(a, r) /\ Upright(W, r)
  BY <1>11, EvaluateReadBarriersType, EvaluateReadBarriersUpright
<1> HIDE DEF r
<1>13. /\ Advances(node[s], r) /\ r.term = node[s].term /\ r.role = "Leader"
  BY <1>1, <1>2, <1>9, <1>12 DEF SameVote, Advances
<1> QED
  BY <1>1, <1>3, <1>12, <1>13, QuietSafe

(* Stepping down to a newer term. *)
LEMMA StepDownSafe ==
    ASSUME Inv, Inv', NEW W \in World, SafeIn(W), NEW f \in Server,
           NEW s \in Server,
           HandleRequestVoteFails(f, s) \/ HandleNewerTerm(f, s)
    PROVE  SafeAfter(W)
<1> DEFINE r == BecomeFollower(node[s], Head(net[f][s]).term, Nil)
<1>1. /\ net[f][s] # << >> /\ Handled(f, s, r)
  BY Zenon DEF HandleRequestVoteFails, HandleNewerTerm, Arrives
<1>2. /\ Lawful(W) /\ Upright(W, node[s]) /\ node[s] \in Node
      /\ node[s].id = s /\ node[s].term \in Nat /\ Nil \in Server \cup {Nil}
  BY NodeUpright
<1>3. Head(net[f][s]).term \in Nat
  BY <1>1, ArrivingMessage, MessageOfType
<1>4. /\ r \in Node /\ Advances(node[s], r) /\ r.role = "Follower"
      /\ r.term = MaxOf(node[s].term, Head(net[f][s]).term)
      /\ r.votedFor = IF Head(net[f][s]).term > node[s].term THEN Nil
                      ELSE node[s].votedFor
  BY <1>2, <1>3, BecomeFollowerType, BecomeFollowerAdvances
<1>5. PICK U \in World : Grows(W, U, s) /\ Upright(U, r)
  BY <1>2, <1>3, BecomeFollowerUpright
<1>6. Ends(s, r)
  BY <1>1 DEF Ends
<1> HIDE DEF r
<1>7. r.term > node[s].term => r.votedFor = Nil
  BY <1>2, <1>3, <1>4 DEF MaxOf
<1> QED
  BY <1>4, <1>5, <1>6, <1>7, QuietSafe

(* Ignoring an outdated response. *)
LEMMA HandleOutdatedSafe ==
    ASSUME Inv, Inv', NEW W \in World, SafeIn(W), NEW f \in Server,
           NEW s \in Server, HandleOutdated(f, s)
    PROVE  SafeAfter(W)
<1>1. Ends(s, node[s])
  BY DEF HandleOutdated, Arrives, Ends
<1>2. /\ node[s] \in Node /\ Upright(W, node[s]) /\ Grows(W, W, s)
      /\ node[s].term \in Nat
  BY NodeUpright, GrowsReflexive
<1>3. Advances(node[s], node[s]) /\ SameEnd(node[s], node[s])
  BY DEF Advances, SameVote, SameEnd
<1> QED
  BY <1>1, <1>2, <1>3, QuietSafe

(* log_is_up_to_date(): what the voter has the candidate has. *)
LEMMA UpToDateBallot ==
    ASSUME NEW U \in World, NEW n \in NodeState, Recorded(U, n),
           NEW c \in NodeState,
           LogIsUpToDate(n, LastIndex(c), LastTerm(c))
    PROVE  Ballot(U, n.id, c)
<1> SUFFICES ASSUME NEW j \in Nat, NEW t \in Nat, <<n.id, j, t>> \in U.held
             PROVE  LastGe(c, j, t) \/ Lost(U, j, t)
  BY DEF Ballot
<1>1. LastGe(n, j, t) \/ Lost(U, j, t)
  BY DEF Recorded
<1>2. /\ LastTerm(n) \in Nat /\ LastIndex(n) \in Nat
      /\ LastTerm(c) \in Nat /\ LastIndex(c) \in Nat
  BY LastTermType
<1> QED
  BY <1>1, <1>2 DEF LastGe, LogIsUpToDate

(* handle_request_vote() *)
LEMMA HandleRequestVoteSafe ==
    ASSUME Inv, Inv', NEW W \in World, SafeIn(W), NEW f \in Server,
           NEW s \in Server, HandleRequestVote(f, s)
    PROVE  SafeAfter(W)
<1> DEFINE m == Head(net[f][s])
           n == IF m.term > node[s].term THEN BecomeFollower(node[s], m.term, Nil)
                                         ELSE node[s]
           granted == /\ m.term = n.term
                      /\ n.votedFor \in {Nil, f}
                      /\ LogIsUpToDate(n, m.lastIndex, m.lastTerm)
           reply == [type |-> "RequestVoteResponse", term |-> n.term,
                     granted |-> granted]
           a == [n EXCEPT !.votedFor = IF granted THEN f ELSE @]
           r == Send(a, f, reply)
<1>1. net[f][s] # << >> /\ m.type = "RequestVote" /\ m.term \in Nat
  <2>1. net[f][s] # << >> /\ m.type = "RequestVote"
    BY DEF HandleRequestVote, Arrives
  <2> QED
    BY <2>1, ArrivingMessage, MessageOfType
<1>2. /\ Lawful(W) /\ Upright(W, node[s]) /\ node[s] \in Node
      /\ node[s].id = s /\ node[s].term \in Nat
      /\ node[f] \in NodeState /\ node[f].term \in Nat
  BY NodeUpright
<1>3. Solicits(node[f], m)
  BY <1>1, ArrivingVouched
<1>4. /\ n \in Node /\ n.id = s /\ n.term >= node[s].term
      /\ \/ n = node[s]
         \/ n.role = "Follower" /\ n.votedFor = Nil
      /\ \E U \in World : Grows(W, U, s) /\ Upright(U, n)
  <2>1. CASE m.term > node[s].term
    <3>1. n = BecomeFollower(node[s], m.term, Nil) /\ Nil \in Server \cup {Nil}
      BY <2>1
    <3> HIDE DEF n, m
    <3>2. /\ n \in Node /\ n.id = s /\ n.role = "Follower" /\ n.votedFor = Nil
          /\ n.term = MaxOf(node[s].term, m.term)
      BY <1>1, <1>2, <2>1, <3>1, BecomeFollowerType
    <3>3. \E U \in World : Grows(W, U, s) /\ Upright(U, n)
      BY <1>1, <1>2, <3>1, BecomeFollowerUpright
    <3> QED
      BY <1>1, <1>2, <3>2, <3>3 DEF MaxOf
  <2>2. CASE ~(m.term > node[s].term)
    <3>1. n = node[s]
      BY <2>2
    <3> HIDE DEF n, m
    <3> QED
      BY <1>2, <3>1, GrowsReflexive
  <2> QED
    BY <2>1, <2>2
<1>5. Ends(s, r)
  BY <1>1 DEF HandleRequestVote, Ends
<1> HIDE DEF m, n
<1>6. PICK U \in World : Grows(W, U, s) /\ Upright(U, n)
  BY <1>4
<1>7. n \in NodeState /\ n.term \in Nat
  BY <1>4, NodeFields DEF Node
<1>8. reply \in RequestVoteResponse
  BY <1>7, NodeFields DEF RequestVoteResponse
<1>9. reply \in Message /\ Vouched(U, s, reply) /\ \A x : Solicits(x, reply)
  BY <1>8 DEF Message, Vouched, Solicits
<1>10. (IF granted THEN f ELSE n.votedFor) \in Server \cup {Nil}
  BY <1>7, NodeFields
<1>11. granted => /\ m.term = n.term
                  /\ LogIsUpToDate(n, m.lastIndex, m.lastTerm)
  OBVIOUS
<1> HIDE DEF granted, reply
<1>12. a \in NodeState
  BY <1>7, <1>10, Zenon DEF NodeState
<1>13. /\ SameCore(n, a) /\ a.applied = n.applied
       /\ a.next = n.next /\ a.match = n.match /\ a.out = n.out
       /\ a.told = n.told /\ a.data = n.data /\ a.results = n.results
       /\ a.up = n.up /\ a.votedFor = IF granted THEN f ELSE n.votedFor
  BY <1>7 DEF NodeState, SameCore
<1> HIDE DEF a
<1>14. a.applied <= a.commit
  BY <1>6, <1>13 DEF Upright, Core, Committed, SameCore
<1>15. Upright(U, a) /\ a.id = s
  BY <1>4, <1>6, <1>13, <1>14, SameCoreUpright DEF SameCore
<1>16. Upright(U, r) /\ SameCore(a, r)
  BY <1>9, <1>12, <1>15, SendUpright
<1>17. r \in NodeState /\ r.applied = a.applied /\ r.votedFor = a.votedFor
  <2>1. [a.out EXCEPT ![f] = Append(@, reply)] \in [Server -> Seq(Message)]
    BY <1>9, <1>12, NodeFields
  <2>2. r \in NodeState
    BY <1>12, <2>1, Zenon DEF NodeState, Send
  <2>3. r.applied = a.applied /\ r.votedFor = a.votedFor
    BY <1>12 DEF NodeState, Send
  <2> QED
    BY <2>2, <2>3
<1> HIDE DEF r
<1>18. /\ SameCore(n, r) /\ r.applied = n.applied /\ SameEnd(n, r)
       /\ r.votedFor = IF granted THEN f ELSE n.votedFor
  <2>1. SameCore(n, r)
    BY <1>13, <1>16 DEF SameCore
  <2> QED
    BY <1>13, <1>17, <2>1, SameCoreEnd
<1>19. VoteFits(U, s, r)
  <2>1. CASE granted
    <3>1. r.votedFor = f /\ r.term = m.term /\ n.term = m.term
      BY <1>11, <1>18, <2>1 DEF SameCore
    <3>2. m.term <= node[f].term
      BY <1>1, <1>3 DEF Solicits
    <3>3. ASSUME node[f].role = "Candidate", node[f].term = r.term
          PROVE  Ballot(U, s, node[f])
      <4>1. m.lastIndex = LastIndex(node[f]) /\ m.lastTerm = LastTerm(node[f])
        BY <1>1, <1>3, <3>1, <3>3 DEF Solicits
      <4>2. Recorded(U, n)
        BY <1>6 DEF Upright, Core
      <4> QED
        BY <1>2, <1>4, <1>7, <1>11, <2>1, <4>1, <4>2, UpToDateBallot
    <3> QED
      BY <3>1, <3>2, <3>3 DEF VoteFits
  <2>2. CASE ~granted
    BY <1>4, <1>18, <2>2 DEF VoteFits, SameCore
  <2> QED
    BY <2>1, <2>2
<1>20. r.role = "Candidate" => SameEnd(node[s], r)
  BY <1>4, <1>18 DEF SameEnd
<1>21. r.snapIndex <= r.applied /\ r.id = s /\ r.term >= node[s].term
  BY <1>4, <1>18 DEF SameCore, Node
<1>22. SafeStep(W, U, s, r)
  BY <1>6, <1>16, <1>17, <1>19, <1>20, <1>21 DEF SafeStep, Grows
<1>23. SafeIn(U)'
  BY <1>5, <1>22, EndsSafe
<1> QED
  BY <1>6, <1>23 DEF SafeAfter, Grows

(* handle_request_vote_response(), with or without enough votes. *)
LEMMA HandleRequestVoteResponseSafe ==
    ASSUME Inv, Inv', LogInv, NEW W \in World, SafeIn(W), NEW f \in Server,
           NEW s \in Server,
           \/ HandleRequestVoteResponse(f, s)
           \/ HandleRequestVoteResponseFails(f, s)
    PROVE  SafeAfter(W)
<1> DEFINE m == Head(net[f][s])
           n == [node[s] EXCEPT !.votes = @ \cup {f}]
<1>1. /\ net[f][s] # << >> /\ node[s].role = "Candidate"
      /\ m.type = "RequestVoteResponse" /\ m.granted /\ m.term = node[s].term
  BY DEF HandleRequestVoteResponse, HandleRequestVoteResponseFails,
         Arrives, VoteCounts
<1>2. /\ Lawful(W) /\ Upright(W, node[s]) /\ node[s] \in Node
      /\ node[s] \in NodeState /\ node[s].id = s /\ node[s].term \in Nat
      /\ Grows(W, W, s)
  BY NodeUpright, GrowsReflexive
<1>3. <<s, node[s].term>> \notin elected
  BY <1>1 DEF LogInv, ElectedBefore
<1>4. n \in NodeState
  <2>1. node[s].votes \cup {f} \in SUBSET Server
    BY <1>2, NodeFields
  <2> QED
    BY <1>2, <2>1, Zenon DEF NodeState
<1>5. /\ n.votedFor = node[s].votedFor /\ n.votes = node[s].votes \cup {f}
      /\ SameCore(node[s], n) /\ n.applied = node[s].applied
      /\ n.next = node[s].next /\ n.match = node[s].match
      /\ n.out = node[s].out /\ n.told = node[s].told /\ n.data = node[s].data
      /\ n.results = node[s].results /\ n.up = node[s].up
  BY <1>2 DEF NodeState, SameCore
<1>6. \/ Handled(f, s, n)
      \/ \E limit \in Limits(n) : /\ HasQuorum(Cardinality(n.votes))
                                  /\ Handled(f, s, BecomeLeader(n, limit))
      \/ Handled(f, s, BecomeLeaderFailed(n))
  BY DEF HandleRequestVoteResponse, HandleRequestVoteResponseFails
<1>7. \A v \in node[s].votes \cup {f} : <<v, s, node[s].term>> \in cast
  <2>1. Granted(net[f][s][1]) /\ 1 \in DOMAIN net[f][s] /\ m = net[f][s][1]
    BY <1>1, ArrivingMessage DEF Granted
  <2>2. <<f, s, node[s].term>> \in cast
    BY <1>1, <2>1 DEF Inv, ElectionInv, GrantsAreCast
  <2>3. \A v \in node[s].votes : <<v, s, node[s].term>> \in cast
    BY <1>1 DEF Inv, ElectionInv, VotesAreCast
  <2> QED
    BY <2>2, <2>3
<1> HIDE DEF n, m
<1>8. n.applied <= n.commit
  BY <1>2, <1>5 DEF Upright, Core, Committed, SameCore
<1>9. /\ n \in Node /\ Upright(W, n) /\ SameEnd(node[s], n)
      /\ n.id = s /\ n.term = node[s].term /\ n.role = "Candidate"
  BY <1>1, <1>2, <1>4, <1>5, <1>8, SameCoreUpright, SameCoreEnd DEF Node, SameCore
<1>10. CASE Handled(f, s, n)
  <2>1. Ends(s, n)
    BY <1>1, <1>10 DEF Ends
  <2>2. n.snapIndex <= n.applied /\ n.term >= node[s].term
    BY <1>2, <1>9 DEF Node
  <2>3. VoteFits(W, s, n)
    BY <1>5, <1>9 DEF VoteFits
  <2>4. SafeStep(W, W, s, n)
    BY <1>2, <1>4, <1>9, <2>2, <2>3 DEF SafeStep, Grows
  <2>5. SafeIn(W)'
    BY <2>1, <2>4, EndsSafe
  <2> QED
    BY <1>2, <2>5 DEF SafeAfter, Grows
<1>11. ASSUME NEW limit \in Limits(n), HasQuorum(Cardinality(n.votes)),
              Handled(f, s, BecomeLeader(n, limit))
       PROVE  SafeAfter(W)
  <2> DEFINE r == BecomeLeader(n, limit)
  <2>1. limit \in Nat
    BY <1>9, LimitsType
  <2>2. /\ r \in Node /\ r.role = "Leader" /\ r.term = node[s].term
        /\ r.id = s /\ r.votedFor = node[s].votedFor
    BY <1>5, <1>9, <2>1, BecomeLeaderType
  <2>3. Ends(s, r)
    BY <1>1, <1>11 DEF Ends
  <2>4. W.logs[n.term] = << >>
    <3> HIDE DEF r
    <3> QED
      BY <1>2, <1>3, <1>9, <2>2, <2>3, TermIsNew
  <2>5. Backers(W, n)
    <3>1. ASSUME NEW v \in n.votes
          PROVE  W.terms[v] >= n.term /\ Ballot(W, v, n)
      <4> DEFINE c == <<v, s, node[s].term>>
      <4>1. c \in cast /\ v \in Server
        BY <1>4, <1>5, <1>7, <3>1, NodeFields
      <4>2. c[1] = v /\ c[2] = s /\ c[3] = node[s].term
        OBVIOUS
      <4> HIDE DEF c
      <4>3. node[v].term \in Nat /\ W.terms[v] = node[v].term
        BY <4>1, NodeUpright
      <4>4. node[s].term <= node[v].term
        BY <1>2, <4>1, <4>2, <4>3 DEF Inv, ElectionInv, VotesBindTheVoter
      <4>5. Ballot(W, v, node[s])
        BY <1>1, <4>1, <4>2 DEF SafeIn, BallotsFair
      <4>6. Ballot(W, v, n)
        BY <1>9, <4>5 DEF Ballot, LastGe, SameEnd
      <4> QED
        BY <1>2, <1>9, <4>3, <4>4, <4>6
    <3>2. n.votes \in SUBSET Server
      BY <1>4, NodeFields
    <3> QED
      BY <1>11, <3>1, <3>2 DEF Backers, Ballot
  <2>6. PICK U \in World : Leads(W, U, s, n.term) /\ Upright(U, r)
    BY <1>2, <1>9, <2>1, <2>4, <2>5, BecomeLeaderUpright
  <2> HIDE DEF r
  <2>7. r.term >= node[s].term /\ r.term = n.term
    BY <1>2, <1>9, <2>2
  <2> QED
    BY <2>2, <2>3, <2>6, <2>7, LeadSafe
<1>12. CASE Handled(f, s, BecomeLeaderFailed(n))
  <2> DEFINE r == BecomeLeaderFailed(n)
  <2>1. /\ r \in Node /\ r.id = s /\ r.term = node[s].term
        /\ r.votedFor = node[s].votedFor /\ r.role = "Follower"
    BY <1>5, <1>9, BecomeLeaderFailedType
  <2>2. PICK U \in World : Grows(W, U, s) /\ Upright(U, r)
    BY <1>2, <1>9, BecomeLeaderFailedUpright
  <2>3. Ends(s, r)
    BY <1>1, <1>12 DEF Ends
  <2> HIDE DEF r
  <2>4. Advances(node[s], r)
    BY <1>2, <2>1 DEF Advances
  <2> QED
    BY <1>2, <2>1, <2>2, <2>3, <2>4, QuietSafe
<1> QED
  BY <1>6, <1>10, <1>11, <1>12

-----------------------------------------------------------------------------
(* The handlers of a leader's messages. *)

(* s heeds the sender of an arriving message as n. *)
Heeds(W, U, f, s, n) ==
    /\ n = Heed(node[s], Head(net[f][s]), f)
    /\ n \in Node /\ n.id = s /\ n.role = "Follower"
    /\ n.term = Head(net[f][s]).term /\ Advances(node[s], n)
    /\ n.term > node[s].term => n.votedFor = Nil
    /\ n.applied = node[s].applied
    /\ Grows(W, U, s) /\ Upright(U, n) /\ Vouched(U, f, Head(net[f][s]))

(* Heeding an arriving message leads to an upright follower. *)
LEMMA HeedSafe ==
    ASSUME Inv, NEW W \in World, SafeIn(W), NEW f \in Server, NEW s \in Server,
           net[f][s] # << >>, Head(net[f][s]).term >= node[s].term
    PROVE  \E U \in World : Heeds(W, U, f, s, Heed(node[s], Head(net[f][s]), f))
<1> DEFINE m == Head(net[f][s])
           n == Heed(node[s], m, f)
<1>1. /\ Lawful(W) /\ Upright(W, node[s]) /\ node[s] \in Node
      /\ node[s].id = s /\ node[s].term \in Nat
  BY NodeUpright
<1>2. m \in Message /\ m.term \in Nat /\ Vouched(W, f, m)
  BY ArrivingVouched, MessageOfType
<1> HIDE DEF m
<1>3. n \in Node /\ Advances(node[s], n)
  BY <1>1, <1>2, HeedType
<1>4. m.term >= node[s].term
  BY DEF m
<1>5. /\ n.role = "Follower" /\ n.term = m.term /\ SameStores(node[s], n)
      /\ \E U \in World : Grows(W, U, s) /\ Upright(U, n)
  BY <1>1, <1>2, <1>4, HeedUpright
<1>6. m.term > node[s].term => n.votedFor = Nil
  BY <1>1, <1>2, BecomeFollowerType DEF Heed
<1> HIDE DEF n
<1>7. PICK U \in World : Grows(W, U, s) /\ Upright(U, n)
  BY <1>5
<1>8. Vouched(U, f, m)
  BY <1>2, <1>7, VouchedGrows DEF Grows
<1>9. n.id = s /\ n.applied = node[s].applied
  BY <1>1, <1>5 DEF SameStores
<1> QED
  BY <1>3, <1>5, <1>6, <1>7, <1>8, <1>9 DEF Heeds, n, m

(* What a handler makes of n, and its reply. *)
LEMMA HeedingSafe ==
    ASSUME Inv, Inv', NEW W \in World, SafeIn(W), NEW f \in Server,
           NEW s \in Server, net[f][s] # << >>, NEW U \in World, NEW n,
           Heeds(W, U, f, s, n), NEW X \in World, Grows(U, X, s),
           NEW r \in Node, SameVote(n, r), Upright(X, r), Handled(f, s, r)
    PROVE  SafeAfter(W)
<1>1. node[s] \in Node
  BY NodeUpright
<1>2. Advances(n, r) /\ r.role = "Follower" /\ r.term = n.term
      /\ r.votedFor = n.votedFor
  BY DEF Advances, SameVote, Heeds
<1>3. Advances(node[s], r)
  BY <1>1, <1>2, AdvancesTransitive DEF Heeds
<1>4. Grows(W, X, s)
  BY GrowsTransitive DEF Heeds
<1>5. r.term > node[s].term => r.votedFor \in {Nil, s}
  BY <1>2 DEF Heeds
<1>6. Ends(s, r)
  BY DEF Ends
<1> QED
  BY <1>2, <1>3, <1>4, <1>5, <1>6, QuietSafe

(* handle_append_entries() and handle_install_snapshot() of an old term. *)
LEMMA HandleStaleSafe ==
    ASSUME Inv, Inv', NEW W \in World, SafeIn(W), NEW f \in Server,
           NEW s \in Server,
           HandleAppendEntriesStale(f, s) \/ HandleInstallSnapshotStale(f, s)
    PROVE  SafeAfter(W)
<1> DEFINE m == Head(net[f][s])
           reply == AppendReply(node[s], m, FALSE, 0, 0)
           answer == SnapshotReply(node[s], FALSE)
<1>1. net[f][s] # << >>
  BY DEF HandleAppendEntriesStale, HandleInstallSnapshotStale, Arrives
<1>2. /\ node[s] \in Node /\ node[s] \in NodeState /\ node[s].id = s
      /\ Upright(W, node[s]) /\ Grows(W, W, s) /\ node[s].term \in Nat
  BY NodeUpright, GrowsReflexive
<1>3. PICK x \in Plain :
        /\ Vouched(W, s, x) /\ Solicits(node[s], x)
        /\ Handled(f, s, Send(node[s], f, x))
  <2>1. CASE HandleAppendEntriesStale(f, s)
    <3>1. m \in AppendEntriesRequest /\ Handled(f, s, Send(node[s], f, reply))
      BY <2>1, ArrivingMessage, MessageOfType
      DEF HandleAppendEntriesStale, Arrives
    <3>2. reply \in Plain
      BY <1>2, <3>1, AppendReplyType
    <3> QED
      BY <3>1, <3>2 DEF AppendReply, Vouched, Solicits
  <2>2. CASE HandleInstallSnapshotStale(f, s)
    <3>1. Handled(f, s, Send(node[s], f, answer))
      BY <2>2 DEF HandleInstallSnapshotStale
    <3>2. answer \in Plain
      BY <1>2, SnapshotReplyType
    <3> QED
      BY <3>1, <3>2 DEF SnapshotReply, Vouched, Solicits
  <2> QED
    BY <2>1, <2>2
<1> DEFINE r == Send(node[s], f, x)
<1>4. x \in Message
  BY DEF Plain
<1>5. r \in Node /\ SameVote(node[s], r) /\ Upright(W, r) /\ SameCore(node[s], r)
  BY <1>2, <1>3, <1>4, SendType, SendUpright
<1>6. Ends(s, r)
  BY <1>1, <1>3 DEF Ends
<1> HIDE DEF r
<1>7. Advances(node[s], r) /\ SameEnd(node[s], r) /\ r.term = node[s].term
  BY <1>5, SameCoreEnd DEF Advances, SameVote
<1> QED
  BY <1>2, <1>5, <1>6, <1>7, QuietSafe

(* A reply that claims nothing. *)
LEMMA ReplySafe ==
    ASSUME Inv, Inv', NEW W \in World, SafeIn(W), NEW f \in Server,
           NEW s \in Server, net[f][s] # << >>, NEW U \in World, NEW n,
           Heeds(W, U, f, s, n), NEW X \in World, Grows(U, X, s),
           NEW r \in Node, SameVote(n, r), Upright(X, r), NEW x \in Plain,
           x.type \in {"AppendEntriesResponse", "InstallSnapshotResponse"},
           x.type = "AppendEntriesResponse" => ~x.success,
           Handled(f, s, Send(r, f, x))
    PROVE  SafeAfter(W)
<1>1. x \in Message /\ r \in NodeState
  BY DEF Plain, Node
<1>2. Vouched(X, r.id, x) /\ Solicits(r, x)
  BY DEF Vouched, Solicits
<1> DEFINE e == Send(r, f, x)
<1>3. e \in Node /\ SameVote(r, e) /\ Upright(X, e)
  BY <1>1, <1>2, SendType, SendUpright
<1> HIDE DEF e
<1>4. SameVote(n, e) /\ Handled(f, s, e)
  BY <1>3 DEF SameVote, e
<1> QED
  BY <1>3, <1>4, HeedingSafe

(* handle_append_entries() failing the log check. *)
LEMMA HandleAppendEntriesInconsistentSafe ==
    ASSUME Inv, Inv', NEW W \in World, SafeIn(W), NEW f \in Server,
           NEW s \in Server, HandleAppendEntriesInconsistent(f, s)
    PROVE  SafeAfter(W)
<1> DEFINE m == Head(net[f][s])
           n == Heed(node[s], m, f)
           reply == AppendReply(n, m, FALSE, 0, LastIndex(n))
<1>1. /\ net[f][s] # << >> /\ m.type = "AppendEntries"
      /\ m.term >= node[s].term /\ Handled(f, s, Send(n, f, reply))
  BY Zenon DEF HandleAppendEntriesInconsistent, Arrives
<1>2. m \in AppendEntriesRequest
  BY <1>1, ArrivingMessage, MessageOfType
<1>3. PICK U \in World : Heeds(W, U, f, s, n)
  BY <1>1, HeedSafe
<1> HIDE DEF m, n
<1>4. n \in Node /\ Upright(U, n) /\ Grows(U, U, s) /\ SameVote(n, n)
  BY <1>3, GrowsReflexive DEF Heeds, Grows, SameVote
<1>5. reply \in Plain
  <2>1. LastIndex(n) \in Nat
    BY <1>4, LastIndexType DEF Node
  <2> QED
    BY <1>2, <1>4, <2>1, AppendReplyType
<1>6. reply.type = "AppendEntriesResponse" /\ ~reply.success
  BY DEF AppendReply
<1> HIDE DEF reply
<1> QED
  BY <1>1, <1>3, <1>4, <1>5, <1>6, ReplySafe

(* handle_append_entries() giving up half way. *)
LEMMA HandleAppendEntriesRefusedSafe ==
    ASSUME Inv, Inv', NEW W \in World, SafeIn(W), NEW f \in Server,
           NEW s \in Server,
           HandleAppendEntriesRefused(f, s) \/ HandleAppendEntriesFails(f, s)
    PROVE  SafeAfter(W)
<1> DEFINE m == Head(net[f][s])
           n == Heed(node[s], m, f)
           merged(k) == Merge(n, m, k)
           truncated(k) == [merged(k) EXCEPT !.log =
                               SubSeq(@, 1, m.prevIndex + k - n.snapIndex)]
<1>1. /\ net[f][s] # << >> /\ m.type = "AppendEntries" /\ Consistent(n, m)
      /\ m.term >= node[s].term
  BY Zenon DEF HandleAppendEntriesRefused, HandleAppendEntriesFails, Arrives
<1>2. m \in AppendEntriesRequest
  BY <1>1, ArrivingMessage, MessageOfType
<1>3. PICK k \in 0 .. Len(m.entries) - 1 :
        \/ OfRequestTerm(m, k) /\ Handled(f, s, merged(k))
        \/ OfRequestTerm(m, k + 1) /\ Handled(f, s, merged(k))
        \/ /\ OfRequestTerm(m, k + 1)
           /\ ConflictAt(merged(k), m, k + 1)
           /\ Handled(f, s, truncated(k))
  BY DEF HandleAppendEntriesRefused, HandleAppendEntriesFails
<1>4. PICK U \in World : Heeds(W, U, f, s, n)
  BY <1>1, HeedSafe
<1>5. Vouched(U, f, m) /\ n.term = m.term /\ n.role = "Follower"
  BY <1>4 DEF Heeds
<1> HIDE DEF m, n
<1>6. n \in Node /\ Upright(U, n) /\ n.id = s /\ Lawful(U)
  BY <1>4 DEF Heeds, Grows
<1>7. Accepts(U, n, m)
  BY <1>1, <1>5, <1>6 DEF Accepts, Vouched
<1>8. k \in 0 .. Len(m.entries) /\ k \in Nat
  <2>1. Len(m.entries) \in Nat
    BY <1>2 DEF AppendEntriesRequest
  <2> QED
    BY <2>1
<1> DEFINE a == merged(k)
           t == truncated(k)
<1>9. CASE OfRequestTerm(m, k) /\ Handled(f, s, a)
  <2>1. a \in Node /\ SameVote(n, a)
    BY <1>1, <1>2, <1>6, <1>8, MergeType
  <2>2. PICK X \in World : Grows(U, X, s) /\ Upright(X, a)
    BY <1>2, <1>6, <1>7, <1>8, <1>9, MergeUpright
  <2> HIDE DEF merged, a
  <2> QED
    BY <1>1, <1>4, <1>9, <2>1, <2>2, HeedingSafe
<1>10. OfRequestTerm(m, k + 1) => OfRequestTerm(m, k)
  BY <1>8 DEF OfRequestTerm
<1>11. CASE /\ OfRequestTerm(m, k + 1) /\ ConflictAt(a, m, k + 1)
            /\ Handled(f, s, t)
  <2>1. /\ t \in Node /\ SameVote(n, t)
        /\ \E X \in World : Grows(U, X, s) /\ Upright(X, t)
    BY <1>2, <1>6, <1>7, <1>11, TruncatedUpright
  <2>2. PICK X \in World : Grows(U, X, s) /\ Upright(X, t)
    BY <2>1
  <2> HIDE DEF merged, truncated, a, t
  <2> QED
    BY <1>1, <1>4, <1>11, <2>1, <2>2, HeedingSafe
<1> QED
  BY <1>3, <1>9, <1>10, <1>11

(* handle_append_entries() *)
LEMMA HandleAppendEntriesSafe ==
    ASSUME Inv, Inv', NEW W \in World, SafeIn(W), NEW f \in Server,
           NEW s \in Server, HandleAppendEntries(f, s)
    PROVE  SafeAfter(W)
<1> DEFINE m == Head(net[f][s])
           h == Heed(node[s], m, f)
           n == Merge(h, m, Len(m.entries))
           commit == IF m.commit > n.commit
                     THEN MinOf(m.commit, LastIndex(n)) ELSE n.commit
           c == [n EXCEPT !.commit = commit]
           reply(r) == AppendReply(r, m, TRUE, Matched(r, m), 0)
           result(limit) == Send(ApplyCommitted(c, limit), f,
                                 reply(ApplyCommitted(c, limit)))
<1>1. /\ net[f][s] # << >> /\ m.type = "AppendEntries" /\ Consistent(h, m)
      /\ m.term >= node[s].term /\ OfRequestTerm(m, Len(m.entries))
  BY Zenon DEF HandleAppendEntries, Arrives
<1>2. PICK limit \in Limits(c) : Handled(f, s, result(limit))
  BY DEF HandleAppendEntries
<1>3. m \in AppendEntriesRequest
  BY <1>1, ArrivingMessage, MessageOfType
<1>4. PICK U \in World : Heeds(W, U, f, s, h)
  BY <1>1, HeedSafe
<1>5. Vouched(U, f, m) /\ h.term = m.term /\ h.role = "Follower"
  BY <1>4 DEF Heeds
<1> HIDE DEF m, h
<1>6. h \in Node /\ Upright(U, h) /\ h.id = s /\ Lawful(U)
  BY <1>4 DEF Heeds, Grows
<1>7. Accepts(U, h, m)
  BY <1>1, <1>5, <1>6 DEF Accepts, Vouched
<1>8. m.entries \in Seq(Entry) /\ m.prevIndex \in Nat /\ m.commit \in Nat
  BY <1>3 DEF AppendEntriesRequest
<1>9. /\ Len(m.entries) \in 0 .. Len(m.entries)
      /\ \A r : Matched(r, m) \in Nat
  BY <1>8 DEF Matched
<1>10. n \in Node /\ SameVote(h, n)
  BY <1>1, <1>3, <1>6, <1>9, MergeType
<1>11. c \in Node /\ SameVote(n, c)
  <2> HIDE DEF n
  <2>1. n \in NodeState
    BY <1>10 DEF Node
  <2>2. commit \in Nat
    BY <1>8, <2>1, NodeFields, LastIndexType DEF MinOf
  <2> HIDE DEF commit
  <2>3. c \in NodeState
    BY <2>1, <2>2, Zenon DEF NodeState
  <2>4. /\ c.snapIndex = n.snapIndex /\ c.applied = n.applied
        /\ c.out = n.out /\ SameVote(n, c)
    BY <2>1 DEF NodeState, SameVote
  <2> QED
    BY <1>10, <2>3, <2>4 DEF Node
<1>12. limit \in Nat
  BY <1>11, LimitsType
<1>13. \E X \in World : Grows(U, X, s) /\ Upright(X, result(limit))
  BY <1>1, <1>3, <1>6, <1>7, <1>12, AcceptUpright
<1>14. PICK X \in World : Grows(U, X, s) /\ Upright(X, result(limit))
  BY <1>13
<1>15. result(limit) \in Node /\ SameVote(h, result(limit))
  <2> DEFINE r == ApplyCommitted(c, limit)
  <2>1. r \in Node /\ SameVote(c, r)
    BY <1>11, <1>12, ApplyCommittedType
  <2>2. result(limit) = Send(r, f, reply(r))
    OBVIOUS
  <2> HIDE DEF r, c, n, result
  <2>3. reply(r) \in Plain
    BY <1>3, <1>9, <2>1, AppendReplyType
  <2> HIDE DEF reply
  <2>4. result(limit) \in Node /\ SameVote(r, result(limit))
    BY <2>1, <2>2, <2>3, SendType
  <2> QED
    BY <1>10, <1>11, <2>1, <2>4 DEF SameVote
<1> DEFINE e == result(limit)
<1>16. e \in Node /\ SameVote(h, e) /\ Upright(X, e) /\ Handled(f, s, e)
  BY <1>2, <1>14, <1>15
<1> HIDE DEF e, result
<1> QED
  BY <1>1, <1>4, <1>14, <1>16, HeedingSafe

-----------------------------------------------------------------------------
(* The handlers of a leader, and of snapshots. *)

(* A handler of a leader that changes no log of the history is safe. *)
LEMMA LeaderHandlerSafe ==
    ASSUME Inv, Inv', NEW W \in World, SafeIn(W), NEW f \in Server,
           NEW s \in Server, net[f][s] # << >>, node[s].role = "Leader",
           NEW X \in World, Grows(W, X, s), NEW r \in Node,
           SameVote(node[s], r), Upright(X, r), Handled(f, s, r)
    PROVE  SafeAfter(W)
<1>1. Advances(node[s], r) /\ Ends(s, r)
  BY DEF Advances, Ends
<1>2. r.role = "Leader" /\ r.term = node[s].term /\ node[s].term \in Nat
  BY NodeUpright DEF SameVote
<1> QED
  BY <1>1, <1>2, QuietSafe

(* Only what n knows of its peers changes. *)
LEMMA PeersUpright ==
    ASSUME NEW W, NEW n, NEW r, SameCore(n, r), Upright(W, n),
           r.out = n.out, r.told = n.told, r.applied = n.applied,
           r.data = n.data, r.results = n.results, r.up = n.up, Progress(W, r)
    PROVE  Upright(W, r)
<1>1. Core(W, r)
  <2>1. r.applied <= r.commit
    BY DEF Upright, Core, Committed, SameCore
  <2> QED
    BY <2>1, SameCoreHolds DEF Upright
<1>2. Outgoing(W, r)
  BY SameSolicits DEF Upright, Outgoing, SameCore
<1>3. Answers(W, r) /\ Stores(W, r)
  BY DEF Upright, Answers, Stores, SameCore
<1> QED
  BY <1>1, <1>2, <1>3 DEF Upright

(* handle_append_entries_response() of a success. *)
LEMMA HandleAppendEntriesResponseSafe ==
    ASSUME Inv, Inv', NEW W \in World, SafeIn(W), NEW f \in Server,
           NEW s \in Server, HandleAppendEntriesResponse(f, s)
    PROVE  SafeAfter(W)
<1> DEFINE m == Head(net[f][s])
           match == [node[s].match EXCEPT ![f] = MaxOf(@, m.match)]
           acked == [node[s].acked EXCEPT ![f] = MaxOf(@, m.round)]
           n == [node[s] EXCEPT !.match[f] = MaxOf(@, m.match),
                                !.acked[f] = MaxOf(@, m.round)]
           p == [n EXCEPT !.next[f] = MaxOf(@, n.match[f] + 1)]
           next == [n.next EXCEPT ![f] = MaxOf(@, n.match[f] + 1)]
           result(r) == LET e == EvaluateReadBarriers(r)
                        IN  IF r.commit # p.commit /\ ApplyFailed(r) THEN r
                            ELSE IF NeedsMore(e, p, f) THEN SendAppendEntries(e, {f})
                            ELSE e
<1>1. /\ net[f][s] # << >> /\ m.type = "AppendEntriesResponse"
      /\ node[s].role = "Leader" /\ m.term = node[s].term /\ m.success
  <2>1. /\ Arrives(f, s, {"AppendEntriesResponse"}) /\ m.success
        /\ LeaderHears(node[s], m)
    BY ZenonT(30) DEF HandleAppendEntriesResponse
  <2> QED
    BY <2>1 DEF Arrives, LeaderHears
<1>2. PICK limit \in Limits(p) : Handled(f, s, result(AdvanceCommit(p, limit)))
  BY Zenon DEF HandleAppendEntriesResponse
<1>3. m.match \in Nat /\ m.round \in Nat
  <2>1. m \in AppendEntriesResponse
    BY <1>1, ArrivingMessage, MessageOfType
  <2> QED
    BY <2>1 DEF AppendEntriesResponse
<1>4. /\ node[s] \in Node /\ node[s] \in NodeState /\ node[s].id = s
      /\ Upright(W, node[s]) /\ Lawful(W)
  BY NodeUpright
<1>5. Replicated(W, f, m.match, node[s].term)
  BY <1>1, ArrivingVouched DEF Vouched
<1> HIDE DEF m, result
<1>6. match \in [Server -> Nat] /\ acked \in [Server -> Nat]
  BY <1>3, <1>4, NodeFields DEF MaxOf
<1>7. \A q \in Server : match[q] = node[s].match[q] \/ (q = f /\ match[q] = m.match)
  BY <1>4, NodeFields DEF MaxOf
<1>8. n = [node[s] EXCEPT !.match = match, !.acked = acked]
  OBVIOUS
<1> HIDE DEF n, match, acked
<1>9. n \in NodeState
  BY <1>4, <1>6, <1>8, Zenon DEF NodeState
<1>10. /\ SameVote(node[s], n) /\ SameCore(node[s], n) /\ n.match = match
       /\ n.next = node[s].next /\ n.applied = node[s].applied
       /\ n.out = node[s].out /\ n.told = node[s].told
       /\ n.data = node[s].data /\ n.results = node[s].results
       /\ n.up = node[s].up
  BY <1>4, <1>8 DEF NodeState, SameVote, SameCore
<1>11. next \in [Server -> Nat] /\ p = [n EXCEPT !.next = next]
  BY <1>9, NodeFields DEF MaxOf
<1>12. \A q \in Server : next[q] >= n.next[q]
  BY <1>9, NodeFields DEF MaxOf
<1> HIDE DEF p, next
<1>13. p \in NodeState
  BY <1>9, <1>11, Zenon DEF NodeState
<1>14. /\ SameVote(n, p) /\ SameCore(n, p) /\ p.match = n.match
       /\ p.next = next /\ p.applied = n.applied
       /\ p.out = n.out /\ p.told = n.told
       /\ p.data = n.data /\ p.results = n.results /\ p.up = n.up
  BY <1>9, <1>11 DEF NodeState, SameVote, SameCore
<1>15. /\ SameVote(node[s], p) /\ SameCore(node[s], p) /\ p.match = match
       /\ p.next = next /\ p.applied = node[s].applied
       /\ p.out = node[s].out /\ p.told = node[s].told
       /\ p.data = node[s].data /\ p.results = node[s].results
       /\ p.up = node[s].up
  BY <1>10, <1>14 DEF SameVote, SameCore
<1>16. Progress(W, p)
  <2>1. \A q \in Server : p.next[q] >= 1
    <3>1. \A q \in Server : node[s].next[q] >= 1 /\ node[s].next[q] \in Nat
      BY <1>4, NodeFields DEF Upright, Progress
    <3> QED
      BY <1>10, <1>11, <1>12, <1>15, <3>1
  <2>2. \A q \in Server : Replicated(W, q, p.match[q], node[s].term)
    <3>1. \A q \in Server : Replicated(W, q, node[s].match[q], node[s].term)
      BY <1>1, <1>4 DEF Upright, Progress
    <3> QED
      BY <1>5, <1>7, <1>15, <3>1
  <2> QED
    BY <1>15, <2>1, <2>2 DEF Progress, SameCore
<1>17. p \in Node /\ Upright(W, p) /\ p.role = "Leader" /\ p.id = s
  <2>1. Upright(W, p)
    BY <1>4, <1>15, <1>16, PeersUpright
  <2> QED
    BY <1>1, <1>4, <1>13, <1>15, <2>1 DEF Node, SameCore
<1>18. limit \in Nat
  BY <1>17, LimitsType
<1> DEFINE r == AdvanceCommit(p, limit)
           e == EvaluateReadBarriers(r)
           x == SendAppendEntries(e, {f})
<1>19. r \in Node /\ SameVote(p, r)
  BY <1>17, <1>18, AdvanceCommitType
<1>20. PICK X \in World : Chooses(W, X, s) /\ Upright(X, r)
  BY <1>4, <1>17, <1>18, AdvanceCommitUpright
<1>21. Handled(f, s, result(r))
  BY <1>2
<1> HIDE DEF r
<1>22. e \in Node /\ SameVote(r, e) /\ Upright(X, e)
  BY <1>19, <1>20, EvaluateReadBarriersType, EvaluateReadBarriersUpright
<1> HIDE DEF e
<1>23. Lawful(X) /\ e.role = "Leader" /\ {f} \in SUBSET Server
  BY <1>17, <1>19, <1>20, <1>22 DEF Chooses, SameVote
<1>24. x \in Node /\ SameVote(e, x) /\ Upright(X, x)
  BY <1>22, <1>23, SendAppendEntriesType, SendAppendEntriesUpright
<1>25. result(r) \in {r, e, x}
  BY DEF result, e
<1> HIDE DEF x
<1>26. /\ result(r) \in Node /\ SameVote(node[s], result(r))
       /\ Upright(X, result(r)) /\ Grows(W, X, s)
  BY <1>15, <1>19, <1>20, <1>22, <1>24, <1>25, ChoosesGrows DEF SameVote
<1> QED
  BY <1>1, <1>21, <1>26, LeaderHandlerSafe

(* handle_append_entries_response() of a rejection. *)
LEMMA HandleAppendEntriesRejectionSafe ==
    ASSUME Inv, Inv', NEW W \in World, SafeIn(W), NEW f \in Server,
           NEW s \in Server, HandleAppendEntriesRejection(f, s)
    PROVE  SafeAfter(W)
<1> DEFINE m == Head(net[f][s])
           n == node[s]
           next == [n.next EXCEPT ![f] = MaxOf(@ - 1, 1)]
           back == [n EXCEPT !.next[f] = MaxOf(@ - 1, 1)]
<1>1. /\ net[f][s] # << >> /\ n.role = "Leader"
      /\ m.type = "AppendEntriesResponse"
  BY DEF HandleAppendEntriesRejection, Arrives, LeaderHears
<1>2. PICK r \in {SendSnapshot(n, {f}), SendAppendEntries(back, {f})} :
        /\ Handled(f, s, r)
        /\ r = SendAppendEntries(back, {f}) \/ m.hint < n.snapIndex
  BY DEF HandleAppendEntriesRejection
<1>3. /\ n \in Node /\ n \in NodeState /\ n.id = s
      /\ Upright(W, n) /\ Lawful(W) /\ Grows(W, W, s)
  BY NodeUpright, GrowsReflexive
<1>4. m.hint \in Nat
  <2>1. m \in AppendEntriesResponse
    BY <1>1, ArrivingMessage, MessageOfType
  <2> QED
    BY <2>1 DEF AppendEntriesResponse
<1> HIDE DEF n, m
<1>5. next \in [Server -> Nat] /\ \A q \in Server : next[q] >= 1
  <2>1. \A q \in Server : n.next[q] >= 1 /\ n.next[q] \in Nat
    BY <1>3, NodeFields DEF Upright, Progress
  <2> QED
    BY <1>3, <2>1, NodeFields DEF MaxOf
<1>6. back = [n EXCEPT !.next = next]
  OBVIOUS
<1> HIDE DEF back, next
<1>7. back \in NodeState
  BY <1>3, <1>5, <1>6, Zenon DEF NodeState
<1>8. /\ SameVote(n, back) /\ SameCore(n, back) /\ back.match = n.match
      /\ back.next = next /\ back.applied = n.applied
      /\ back.out = n.out /\ back.told = n.told
      /\ back.data = n.data /\ back.results = n.results /\ back.up = n.up
  BY <1>3, <1>6 DEF NodeState, SameVote, SameCore
<1>9. Progress(W, back)
  BY <1>3, <1>5, <1>8 DEF Upright, Progress, SameCore
<1>10. back \in Node /\ Upright(W, back) /\ back.role = "Leader"
  <2>1. Upright(W, back)
    BY <1>3, <1>8, <1>9, PeersUpright
  <2> QED
    BY <1>1, <1>3, <1>7, <1>8, <2>1 DEF Node, SameCore
<1>11. {f} \in SUBSET Server
  OBVIOUS
<1>12. r \in Node /\ SameVote(n, r) /\ Upright(W, r)
  <2>1. CASE r = SendAppendEntries(back, {f})
    BY <1>3, <1>8, <1>10, <1>11, <2>1, SendAppendEntriesType,
       SendAppendEntriesUpright DEF SameVote
  <2>2. CASE r = SendSnapshot(n, {f}) /\ m.hint < n.snapIndex
    <3>1. n.snapIndex # 0
      BY <1>3, <1>4, <2>2, NodeFields
    <3> QED
      BY <1>1, <1>3, <1>11, <2>2, <3>1, SendSnapshotType, SendSnapshotUpright
  <2> QED
    BY <1>2, <2>1, <2>2
<1> QED
  BY <1>1, <1>2, <1>3, <1>12, LeaderHandlerSafe DEF n

(* handle_install_snapshot_response() *)
LEMMA HandleInstallSnapshotResponseSafe ==
    ASSUME Inv, Inv', NEW W \in World, SafeIn(W), NEW f \in Server,
           NEW s \in Server, HandleInstallSnapshotResponse(f, s)
    PROVE  SafeAfter(W)
<1>1. net[f][s] # << >> /\ node[s].role = "Leader"
  BY DEF HandleInstallSnapshotResponse, Arrives, LeaderHears
<1>2. PICK r \in {node[s], SendAppendEntries(node[s], {f})} : Handled(f, s, r)
  BY DEF HandleInstallSnapshotResponse
<1>3. /\ node[s] \in Node /\ Upright(W, node[s]) /\ Lawful(W)
      /\ Grows(W, W, s) /\ {f} \in SUBSET Server
  BY NodeUpright, GrowsReflexive
<1>4. r \in Node /\ SameVote(node[s], r) /\ Upright(W, r)
  <2>1. CASE r = node[s]
    BY <1>3, <2>1 DEF SameVote
  <2>2. CASE r = SendAppendEntries(node[s], {f})
    BY <1>1, <1>3, <2>2, SendAppendEntriesType, SendAppendEntriesUpright
  <2> QED
    BY <1>2, <2>1, <2>2
<1> QED
  BY <1>1, <1>2, <1>3, <1>4, LeaderHandlerSafe

(* r differs from n in its data and its snapshot buffer only. *)
SameButData(n, r, data) ==
    /\ SameCore(n, r) /\ r.next = n.next /\ r.match = n.match
    /\ r.applied = n.applied /\ r.out = n.out /\ r.told = n.told
    /\ r.data = data /\ r.results = n.results /\ r.up = n.up

(* Buffering a chunk of a snapshot changes no log and no vote. *)
LEMMA BufferFields ==
    ASSUME NEW n \in Node, NEW data \in SUBSET Value,
           NEW snap \in PendingSnapshot \cup {Nil}, NEW r,
           r = [n EXCEPT !.data = data, !.snap = snap]
    PROVE  r \in Node /\ SameVote(n, r) /\ SameButData(n, r, data)
<1>1. n \in NodeState
  BY DEF Node
<1>2. r \in NodeState
  BY <1>1, Zenon DEF NodeState
<1>3. /\ SameVote(n, r) /\ SameCore(n, r)
      /\ r.next = n.next /\ r.match = n.match /\ r.applied = n.applied
      /\ r.out = n.out /\ r.told = n.told /\ r.data = data
      /\ r.results = n.results /\ r.up = n.up
  BY <1>1 DEF NodeState, SameCore, SameVote
<1> QED
  BY <1>2, <1>3 DEF Node, SameCore, SameButData

(* handle_install_snapshot() refusing a chunk, or failing to restore or to *)
(* move the boundary.                                                      *)
LEMMA HandleInstallSnapshotRefusedSafe ==
    ASSUME Inv, Inv', NEW W \in World, SafeIn(W), NEW f \in Server,
           NEW s \in Server,
           HandleInstallSnapshotRefused(f, s) \/ HandleInstallSnapshotFails(f, s)
    PROVE  SafeAfter(W)
<1> DEFINE m == Head(net[f][s])
           n == Heed(node[s], m, f)
           clean == [n EXCEPT !.snap = Nil]
           filled == [clean EXCEPT !.data = m.data]
<1>1. /\ net[f][s] # << >> /\ m.type = "InstallSnapshot"
      /\ m.term >= node[s].term
  BY Zenon DEF HandleInstallSnapshotRefused, HandleInstallSnapshotFails, Arrives
<1>2. PICK r \in {n, clean, filled} :
        /\ Handled(f, s, Send(r, f, SnapshotReply(r, FALSE)))
        /\ r \in {n, clean} \/ Fits(node[s], m, f)
  <2>1. CASE HandleInstallSnapshotRefused(f, s)
    BY <2>1, Zenon DEF HandleInstallSnapshotRefused
  <2>2. CASE HandleInstallSnapshotFails(f, s)
    BY <2>2 DEF HandleInstallSnapshotFails
  <2> QED
    BY <2>1, <2>2
<1>3. m \in InstallSnapshotRequest
  BY <1>1, HeedArriving
<1>4. PICK U \in World : Heeds(W, U, f, s, n)
  BY <1>1, HeedSafe
<1>5. VouchedSnapshot(U, m) /\ n.applied = node[s].applied
  BY <1>1, <1>4 DEF Heeds, Vouched
<1> HIDE DEF m, n
<1>6. n \in Node /\ Upright(U, n) /\ Grows(U, U, s)
  BY <1>4, GrowsReflexive DEF Heeds, Grows
<1>7. /\ n \in NodeState /\ m.data \in SUBSET Value /\ n.data \in SUBSET Value
      /\ Nil \in PendingSnapshot \cup {Nil}
  BY <1>3, <1>6, NodeFields DEF Node, InstallSnapshotRequest
<1>8. clean = [n EXCEPT !.data = n.data, !.snap = Nil]
  BY <1>7, Zenon DEF NodeState
<1>9. filled = [n EXCEPT !.data = m.data, !.snap = Nil]
  BY <1>7, Zenon DEF NodeState
<1> HIDE DEF clean, filled
<1>10. r \in Node /\ SameVote(n, r) /\ Upright(U, r)
  <2>1. CASE r = n
    BY <1>6, <2>1 DEF SameVote
  <2>2. CASE r = clean
    <3>1. /\ clean \in Node /\ SameVote(n, clean)
          /\ SameButData(n, clean, n.data)
      BY <1>6, <1>7, <1>8, BufferFields, Zenon
    <3>2. clean.applied <= clean.commit
      BY <1>6, <3>1 DEF Upright, Core, Committed, SameCore, SameButData
    <3> QED
      BY <1>6, <2>2, <3>1, <3>2, SameCoreUpright DEF SameButData
  <2>3. CASE r = filled /\ Fits(node[s], m, f)
    <3>1. /\ filled \in Node /\ SameVote(n, filled)
          /\ SameButData(n, filled, m.data)
      BY <1>6, <1>7, <1>9, BufferFields, Zenon
    <3>2. n.applied <= m.index
      <4>1. m.index >= n.applied
        BY <1>5, <2>3 DEF Fits
      <4>2. m.index \in Nat /\ n.applied \in Nat
        BY <1>3, <1>7, NodeFields DEF InstallSnapshotRequest
      <4> QED
        BY <4>1, <4>2
    <3> QED
      BY <1>3, <1>5, <1>6, <2>3, <3>1, <3>2, RestoredUpright DEF SameButData
  <2> QED
    BY <1>2, <2>1, <2>2, <2>3
<1>11. /\ SnapshotReply(r, FALSE) \in Plain
       /\ SnapshotReply(r, FALSE).type = "InstallSnapshotResponse"
  BY <1>10, SnapshotReplyType DEF SnapshotReply
<1> QED
  BY <1>1, <1>2, <1>4, <1>6, <1>10, <1>11, ReplySafe

(* handle_install_snapshot() buffering a chunk. *)
LEMMA HandleInstallSnapshotChunkSafe ==
    ASSUME Inv, Inv', NEW W \in World, SafeIn(W), NEW f \in Server,
           NEW s \in Server, HandleInstallSnapshotChunk(f, s)
    PROVE  SafeAfter(W)
<1> DEFINE m == Head(net[f][s])
           n == Heed(node[s], m, f)
           old == Assembling(node[s], m, f)
           snap == [old EXCEPT !.buffer = Append(@, m.data)]
           r == [n EXCEPT !.snap = snap]
<1>1. /\ net[f][s] # << >> /\ m.type = "InstallSnapshot"
      /\ m.term >= node[s].term
  BY Zenon DEF HandleInstallSnapshotChunk, Arrives
<1>2. Handled(f, s, r)
  BY Zenon DEF HandleInstallSnapshotChunk
<1>3. m \in InstallSnapshotRequest
  BY <1>1, HeedArriving
<1>4. PICK U \in World : Heeds(W, U, f, s, n)
  BY <1>1, HeedSafe
<1>5. n \in Node /\ n \in NodeState /\ Upright(U, n) /\ Grows(U, U, s)
  BY <1>4, GrowsReflexive DEF Heeds, Grows, Node
<1>6. old \in PendingSnapshot
  <2>1. n.snap \in PendingSnapshot \cup {Nil}
    BY <1>5, NodeFields
  <2>2. [index |-> m.index, term |-> m.indexTerm, buffer |-> << >>]
          \in PendingSnapshot
    BY <1>3 DEF InstallSnapshotRequest, PendingSnapshot
  <2>3. \/ old = [index |-> m.index, term |-> m.indexTerm, buffer |-> << >>]
        \/ old = n.snap /\ n.snap # Nil
    BY DEF Assembling
  <2> QED
    BY <2>1, <2>2, <2>3
<1>7. m.data \in SUBSET Value
  BY <1>3 DEF InstallSnapshotRequest
<1> HIDE DEF m, n, old
<1>8. snap \in PendingSnapshot
  BY <1>6, <1>7 DEF PendingSnapshot
<1> HIDE DEF snap
<1>9. r = [n EXCEPT !.data = n.data, !.snap = snap]
  BY <1>5, Zenon DEF NodeState
<1> HIDE DEF r
<1>10. n.data \in SUBSET Value /\ snap \in PendingSnapshot \cup {Nil}
  BY <1>5, <1>8, NodeFields
<1>11. r \in Node /\ SameVote(n, r) /\ SameButData(n, r, n.data)
  BY <1>5, <1>9, <1>10, BufferFields, Zenon
<1>12. r.applied <= r.commit
  BY <1>5, <1>11 DEF Upright, Core, Committed, SameCore, SameButData
<1>13. Upright(U, r)
  BY <1>5, <1>11, <1>12, SameCoreUpright DEF SameButData
<1> QED
  BY <1>1, <1>2, <1>4, <1>5, <1>11, <1>13, HeedingSafe

(* handle_install_snapshot() of the last chunk. *)
LEMMA HandleInstallSnapshotSafe ==
    ASSUME Inv, Inv', NEW W \in World, SafeIn(W), NEW f \in Server,
           NEW s \in Server, HandleInstallSnapshot(f, s)
    PROVE  SafeAfter(W)
<1> DEFINE m == Head(net[f][s])
           h == Heed(node[s], m, f)
           n == Restored(h, m)
           i == InstallBoundary(n, m.index, m.indexTerm)
           r == [i EXCEPT !.pending = {p \in @ : p.index > m.index}]
           e == EvaluateReadBarriers(r)
<1>1. /\ net[f][s] # << >> /\ m.type = "InstallSnapshot"
      /\ m.term >= node[s].term
  BY Zenon DEF HandleInstallSnapshot, Arrives
<1>2. /\ Handled(f, s, Send(e, f, SnapshotReply(r, TRUE)))
      /\ Fits(node[s], m, f)
  BY Zenon DEF HandleInstallSnapshot
<1>3. m \in InstallSnapshotRequest
  BY <1>1, HeedArriving
<1>4. PICK U \in World : Heeds(W, U, f, s, h)
  BY <1>1, HeedSafe
<1>5. /\ VouchedSnapshot(U, m) /\ h.applied = node[s].applied
      /\ h.role = "Follower" /\ h.term = m.term
  BY <1>1, <1>4 DEF Heeds, Vouched
<1>6. /\ m.index \in Nat /\ m.indexTerm \in Nat /\ m.data \in SUBSET Value
      /\ Nil \in PendingSnapshot \cup {Nil}
  BY <1>3 DEF InstallSnapshotRequest
<1> HIDE DEF m, h
<1>7. h \in Node /\ Upright(U, h) /\ Grows(U, U, s) /\ Lawful(U) /\ h.id = s
  BY <1>4, GrowsReflexive DEF Heeds, Grows
<1>8. h.applied <= m.index /\ h.snapIndex <= m.index
  <2>1. m.index >= h.applied
    BY <1>2, <1>5 DEF Fits
  <2>2. h.snapIndex <= h.applied /\ h.snapIndex \in Nat /\ h.applied \in Nat
    BY <1>7, NodeFields DEF Node
  <2> QED
    BY <1>6, <2>1, <2>2
<1>9. n \in Node /\ SameVote(h, n) /\ SameButData(h, n, m.data)
  BY <1>6, <1>7, BufferFields DEF Restored
<1> HIDE DEF n
<1>10. Upright(U, n)
  BY <1>3, <1>5, <1>7, <1>8, <1>9, RestoredUpright DEF SameButData
<1>11. n.snapIndex <= m.index /\ n.applied <= m.index /\ n.role = "Follower"
       /\ n.term = m.term /\ n.id = s
  BY <1>5, <1>7, <1>8, <1>9 DEF SameCore, SameButData
<1>12. Installs(U, n, m.index)
  BY <1>5, <1>9, <1>10, <1>11 DEF Installs, VouchedSnapshot, SameButData
<1>13. i \in Node /\ SameVote(n, i)
  BY <1>6, <1>9, <1>11, InstallBoundaryType
<1>14. n \in NodeState /\ n.applied \in Nat
  BY <1>9, NodeFields DEF Node
<1>15. MaxOf(n.applied, m.index) = m.index
  BY <1>6, <1>11, <1>14 DEF MaxOf
<1>16. /\ i.id = n.id /\ i.term = n.term /\ i.role = n.role
       /\ i.snapIndex = m.index /\ i.snapTerm = m.indexTerm
       /\ i.log = SubSeq(n.log, MinOf(m.index - n.snapIndex, Len(n.log)) + 1, Len(n.log))
       /\ i.applied = MaxOf(n.applied, m.index) /\ i.commit = MaxOf(n.commit, m.index)
       /\ i.next = n.next /\ i.match = n.match /\ i.out = n.out
       /\ i.told = n.told /\ i.data = n.data /\ i.results = n.results
       /\ i.up = n.up
  BY <1>14 DEF NodeState, InstallBoundary
<1> HIDE DEF i
<1>17. i \in NodeState
  BY <1>13 DEF Node
<1>18. r \in NodeState
  <2>1. {p \in i.pending : p.index > m.index} \in SUBSET PendingProposal
    BY <1>17, NodeFields
  <2> QED
    BY <1>17, <2>1, Zenon DEF NodeState
<1>19. /\ SameVote(i, r) /\ SameCore(i, r)
       /\ r.next = i.next /\ r.match = i.match /\ r.applied = i.applied
       /\ r.out = i.out /\ r.told = i.told /\ r.data = i.data
       /\ r.results = i.results /\ r.up = i.up
  BY <1>17 DEF NodeState, SameVote, SameCore
<1> HIDE DEF r
<1>20. r \in Node /\ SameVote(h, r)
  BY <1>9, <1>13, <1>18, <1>19 DEF Node, SameVote, SameCore
<1>21. Installed(U, n, r, m.index)
  <2>1. m.indexTerm = ChosenTerm(U, m.index)
    BY <1>5 DEF VouchedSnapshot
  <2> QED
    BY <1>15, <1>16, <1>19, <2>1 DEF Installed, SameCore
<1>22. Upright(U, r)
  BY <1>6, <1>7, <1>9, <1>12, <1>20, <1>21, InstalledUpright
<1>23. e \in Node /\ SameVote(r, e) /\ Upright(U, e)
  BY <1>20, <1>22, EvaluateReadBarriersType, EvaluateReadBarriersUpright
<1> HIDE DEF e
<1>24. /\ SnapshotReply(r, TRUE) \in Plain
       /\ SnapshotReply(r, TRUE).type = "InstallSnapshotResponse"
  BY <1>20, SnapshotReplyType DEF SnapshotReply
<1>25. SameVote(h, e)
  BY <1>20, <1>23 DEF SameVote
<1> QED
  BY <1>1, <1>2, <1>4, <1>7, <1>23, <1>24, <1>25, ReplySafe

-----------------------------------------------------------------------------
(* Crashes, and the wire. *)

(* start() takes the boundary as all that is committed and applied. *)
LEMMA StartFields ==
    ASSUME Inv, NEW s \in Server, Crash(s) \/ Restart(s)
    PROVE  LET r == node'[s]
           IN  /\ r.snapTerm = node[s].snapTerm
               /\ r.commit = node[s].snapIndex /\ r.applied = node[s].snapIndex
               /\ \A q \in Server : r.next[q] = 1
               /\ r.data = node[s].data /\ r.results = node[s].results
<1> DEFINE n == node[s]
           b == Start(n)
<1>1. node \in [Server -> NodeState] /\ n \in NodeState
  BY DEF Inv, TypeInv, TypeOK
<1>2. /\ b.snapTerm = n.snapTerm /\ b.commit = n.snapIndex
      /\ b.applied = n.snapIndex /\ \A q \in Server : b.next[q] = 1
      /\ b.data = n.data /\ b.results = n.results
  BY <1>1 DEF Start, NodeState
<1>3. CASE Restart(s)
  BY <1>1, <1>2, <1>3 DEF Restart
<1>4. CASE Crash(s)
  <2> DEFINE d == [b EXCEPT !.up = FALSE]
  <2>1. node'[s] = d
    BY <1>1, <1>4 DEF Crash
  <2>2. /\ d.snapTerm = b.snapTerm /\ d.commit = b.commit
        /\ d.applied = b.applied /\ d.next = b.next
        /\ d.data = b.data /\ d.results = b.results
    BY <1>1 DEF Start, NodeState
  <2> HIDE DEF d, b
  <2> QED
    BY <1>2, <2>1, <2>2
<1> QED
  BY <1>3, <1>4

(* A server that keeps its store for good does not crash. *)
LEMMA DurableStaysUp ==
    ASSUME Inv, Durable, Threshold # 0, NEW s \in Server, node[s].up
    PROVE  ~Crash(s) /\ ~Restart(s)
<1>1. Bound["crashes"] = 0
  BY DEF Durable
<1>2. used["crashes"] \in Nat
  BY DEF Inv, TypeInv, TypeOK, Budget
<1>3. ~Spend("crashes")
  BY <1>1, <1>2 DEF Spend
<1> QED
  BY <1>3 DEF Crash, Restart

(* A server that starts is upright: what it takes as committed it has      *)
(* compacted, and its log, its term and its vote are what they were.       *)
LEMMA StartUpright ==
    ASSUME Inv, NEW W \in World, SafeIn(W), NEW s \in Server,
           Crash(s) \/ Restart(s)
    PROVE  Upright(W, node'[s])
<1> DEFINE n == node[s]
           r == node'[s]
<1>1. /\ Upright(W, n) /\ n \in Node /\ n \in NodeState /\ n.id = s
      /\ n.snapIndex <= n.applied
  BY NodeUpright DEF Node
<1>2. /\ r.id = s /\ r.term = n.term /\ r.role = "Follower"
      /\ r.out = n.out /\ r.told = n.told
      /\ r.log = n.log /\ r.snapIndex = n.snapIndex
  BY <1>1, CrashRestart
<1>3. /\ r.snapTerm = n.snapTerm
      /\ r.commit = n.snapIndex /\ r.applied = n.snapIndex
      /\ \A q \in Server : r.next[q] = 1
      /\ r.data = n.data /\ r.results = n.results
  BY StartFields
<1>4. /\ n.snapIndex \in Nat /\ n.applied \in Nat /\ n.commit \in Nat
      /\ n.term \in Nat /\ n.log \in Seq(Entry) /\ Len(n.log) \in Nat
  BY <1>1, NodeFields
<1>5. n.out = [t \in Server |-> << >>] /\ n.told = {}
  BY DEF Inv, TypeInv, TypeOK
<1>6. LastIndex(r) = LastIndex(n) /\ LastTerm(r) = LastTerm(n)
  BY <1>2, <1>3, SameLast
<1> HIDE DEF n, r
<1>7. Committed(W, r)
  <2>1. /\ n.applied <= n.commit /\ n.commit <= Len(W.chosen)
        /\ n.snapTerm = ChosenTerm(W, n.snapIndex)
        /\ \E T \in Nat : ChosenBy(W, n.commit, T) /\ T <= n.term
    BY <1>1 DEF Upright, Core, Committed
  <2>2. PICK T \in Nat : ChosenBy(W, n.commit, T) /\ T <= n.term
    BY <2>1
  <2>3. ChosenBy(W, n.snapIndex, T)
    BY <1>1, <1>4, <2>1, <2>2, ChosenByLess
  <2>4. Len(W.chosen) \in Nat
    BY WorldFields
  <2>5. LastIndex(r) = n.snapIndex + Len(n.log)
    BY <1>6 DEF LastIndex
  <2>6. /\ r.applied <= r.commit /\ r.commit <= LastIndex(r)
        /\ r.commit <= Len(W.chosen)
    BY ONLY <1>1, <1>3, <1>4, <2>1, <2>4, <2>5
  <2>7. \A i \in 1 .. Len(r.log) : ~(r.snapIndex + i <= r.commit)
    BY ONLY <1>2, <1>3, <1>4
  <2>8. \E X \in Nat : /\ ChosenBy(W, r.commit, X) /\ X <= r.term
                       /\ r.role = "Candidate" => X < r.term
    BY <1>2, <1>3, <2>2, <2>3
  <2> QED
    BY <1>2, <1>3, <2>1, <2>6, <2>7, <2>8 DEF Committed
<1>8. Copied(W, r)
  BY <1>1, <1>2, <1>6 DEF Upright, Core, Copied, Follows
<1>9. Recorded(W, r)
  <2>1. Recorded(W, n)
    BY <1>1 DEF Upright, Core
  <2> QED
    BY <1>1, <1>2, <1>6, <2>1, Zenon DEF Recorded, LastGe
<1>10. Progress(W, r)
  BY <1>2, <1>3 DEF Progress
<1>11. Outgoing(W, r) /\ Answers(W, r)
  BY <1>2, <1>5 DEF Outgoing, Answers
<1>12. Stores(W, r)
  <2> SUFFICES ASSUME Durable
               PROVE  /\ Values(W, r.applied) \subseteq r.data
                      /\ r.results \subseteq r.data
                      /\ Threshold = 0 => r.snapIndex = 0
                      /\ Threshold # 0 => r.results \subseteq Values(W, r.applied)
                                          /\ r.up
    BY DEF Stores
  <2>1. Stores(W, n)
    BY <1>1 DEF Upright
  <2>2. Threshold = 0
    BY <2>1, DurableStaysUp DEF Stores, n
  <2>3. n.snapIndex = 0 /\ n.results \subseteq n.data
    BY <2>1, <2>2 DEF Stores
  <2>4. Values(W, 0) = {}
    BY DEF Values
  <2> QED
    BY <1>2, <1>3, <2>2, <2>3, <2>4
<1> QED
  BY <1>7, <1>8, <1>9, <1>10, <1>11, <1>12 DEF Upright, Core, r

(* A step that writes nothing and loses or repeats what is on its way is   *)
(* one within the same history.                                            *)
LEMMA NothingWrittenSafe ==
    ASSUME Inv, NEW W \in World, SafeIn(W),
           UNCHANGED <<told, cast, elected>>, PartOf(net'),
           \A t \in Server :
             \/ node'[t] = node[t]
             \/ /\ Upright(W, node'[t]) /\ node'[t].term = node[t].term
                /\ node'[t].votedFor = node[t].votedFor
                /\ node'[t].role = "Follower"
    PROVE  SafeIn(W)'
<1>1. \A t \in Server : /\ node'[t].term = node[t].term
                        /\ node'[t].votedFor = node[t].votedFor
                        /\ \/ node'[t] = node[t]
                           \/ node'[t].role = "Follower"
  OBVIOUS
<1>2. Lawful(W) /\ \A t \in Server : Upright(W, node'[t])
  BY DEF SafeIn
<1>3. WireVouched(W)'
  <2> SUFFICES ASSUME NEW f \in Server, NEW t \in Server,
                      NEW i \in DOMAIN net'[f][t]
               PROVE  Vouched(W, f, net'[f][t][i])
                      /\ Solicits(node'[f], net'[f][t][i])
    BY DEF WireVouched
  <2>1. PICK k \in DOMAIN net[f][t] : net'[f][t][i] = net[f][t][k]
    BY DEF PartOf
  <2>2. Vouched(W, f, net[f][t][k]) /\ Solicits(node[f], net[f][t][k])
    BY DEF SafeIn, WireVouched
  <2>3. node'[f].term = node[f].term
        /\ (node'[f] = node[f] \/ node'[f].role = "Follower")
    BY <1>1
  <2>4. Solicits(node'[f], net[f][t][k])
    BY <2>2, <2>3 DEF Solicits
  <2> QED
    BY <2>1, <2>2, <2>4
<1>4. LogsElected(W)'
  BY DEF SafeIn, LogsElected
<1>5. cast \subseteq Server \X Server \X Nat
  BY DEF Inv, TypeInv, TypeOK
<1>6. BallotsFair(W)'
  <2> SUFFICES ASSUME NEW c \in cast, node'[c[2]].role = "Candidate",
                      node'[c[2]].term = c[3]
               PROVE  Ballot(W, c[1], node'[c[2]])
    BY DEF BallotsFair, Ballot, LastGe, LastTerm, LastIndex, TermAt
  <2>1. c[2] \in Server
    BY <1>5
  <2>2. node'[c[2]] = node[c[2]]
    BY <1>1, <2>1
  <2> QED
    BY <2>2 DEF SafeIn, BallotsFair
<1>7. VotesKnown'
  BY <1>1, <1>5 DEF SafeIn, VotesKnown
<1>8. \A c \in told' : Truthful(W, c)
  BY DEF SafeIn
<1> QED
  BY <1>2, <1>3, <1>4, <1>6, <1>7, <1>8 DEF SafeIn

(* A crash and a start keep the history: the disk has the log, the term    *)
(* and the vote.                                                           *)
LEMMA CrashRestartSafe ==
    ASSUME Inv, NEW W \in World, SafeIn(W), NEW s \in Server,
           Crash(s) \/ Restart(s)
    PROVE  SafeAfter(W)
<1>1. UNCHANGED <<told, cast, elected>>
  BY DEF Crash, Restart
<1>2. PartOf(net')
  <2>1. \A f, t \in Server : net'[f][t] \in {net[f][t], << >>}
    BY CrashRestart
  <2> QED
    BY <2>1 DEF PartOf
<1>3. /\ node'[s].term = node[s].term /\ node'[s].votedFor = node[s].votedFor
      /\ node'[s].role = "Follower"
      /\ \A t \in Server \ {s} : node'[t] = node[t]
  BY CrashRestart
<1>4. Upright(W, node'[s])
  BY StartUpright
<1>5. SafeIn(W)'
  BY <1>1, <1>2, <1>3, <1>4, NothingWrittenSafe
<1> QED
  BY <1>5, ExtendsReflexive DEF SafeAfter

(* Losing or repeating a message is safe. *)
LEMMA WireSafe ==
    ASSUME Inv, NEW W \in World, SafeIn(W), NEW f \in Server, NEW s \in Server,
           Lose(f, s) \/ Resend(f, s)
    PROVE  SafeAfter(W)
<1>1. UNCHANGED <<node, told, cast, elected>>
  BY DEF Lose, Resend
<1>2. PartOf(net')
  BY WirePart
<1>3. SafeIn(W)'
  BY <1>1, <1>2, NothingWrittenSafe
<1> QED
  BY <1>3, ExtendsReflexive DEF SafeAfter

-----------------------------------------------------------------------------
(* Every handler leads from a history to one that goes on from it. *)
LEMMA HandleSafe ==
    ASSUME Inv, Inv', LogInv, NEW W \in World, SafeIn(W), NEW f \in Server,
           NEW s \in Server, Handle(f, s)
    PROVE  SafeAfter(W)
BY HandleRequestVoteSafe, StepDownSafe, HandleOutdatedSafe,
   HandleRequestVoteResponseSafe, HandleStaleSafe,
   HandleAppendEntriesInconsistentSafe, HandleAppendEntriesRefusedSafe,
   HandleAppendEntriesSafe, HandleAppendEntriesResponseSafe,
   HandleAppendEntriesRejectionSafe, HandleInstallSnapshotRefusedSafe,
   HandleInstallSnapshotChunkSafe, HandleInstallSnapshotSafe,
   HandleInstallSnapshotResponseSafe, Zenon DEF Handle

(* Every step leads to a state with a history that goes on. *)
LEMMA NextSafe ==
    ASSUME Inv, Inv', LogInv, NEW W \in World, SafeIn(W), Next
    PROVE  SafeAfter(W)
<1>1. ASSUME NEW s \in Server,
             \/ TickIdle(s) \/ TickCompactionFails(s) \/ TickHeartbeat(s)
             \/ TickElection(s) \/ TickElectionFails(s)
             \/ (\E v \in Value : Propose(s, v)) \/ ReadIndex(s)
             \/ Crash(s) \/ Restart(s)
      PROVE  SafeAfter(W)
  BY <1>1, TickIdleSafe, TickCompactionFailsSafe, TickElectionSafe,
     TickElectionFailsSafe, ProposeSafe, ReadIndexSafe, CrashRestartSafe, Zenon
<1>2. ASSUME NEW f \in Server, NEW s \in Server,
             Handle(f, s) \/ Lose(f, s) \/ Resend(f, s)
      PROVE  SafeAfter(W)
  BY <1>2, HandleSafe, WireSafe, Zenon
<1> QED
  BY <1>1, <1>2, Zenon DEF Next

(* Every step preserves the invariant. *)
LEMMA NextSafety == Inv /\ Inv' /\ LogInv /\ SafetyInv /\ [Next]_vars => SafetyInv'
<1> SUFFICES ASSUME Inv, Inv', LogInv, SafetyInv, [Next]_vars PROVE SafetyInv'
  OBVIOUS
<1>1. PICK W \in World : SafeIn(W)
  BY DEF SafetyInv
<1>2. CASE UNCHANGED vars
  <2>1. UNCHANGED <<node, net, told, cast, elected>>
    BY <1>2 DEF vars
  <2>2. PartOf(net')
    BY <2>1 DEF PartOf
  <2>3. SafeIn(W)'
    BY <1>1, <2>1, <2>2, NothingWrittenSafe
  <2> QED
    BY <2>3 DEF SafetyInv
<1>3. CASE Next
  BY <1>1, <1>3, NextSafe DEF SafeAfter, SafetyInv
<1> QED
  BY <1>2, <1>3

(* A group that has never run has an empty history. *)
LEMMA InitSafety == Init => SafetyInv
<1> SUFFICES ASSUME Init PROVE SafetyInv
  OBVIOUS
<1> DEFINE W == [logs |-> [T \in Nat |-> << >>], chosen |-> << >>,
                 held |-> {}, terms |-> [s \in Server |-> 0]]
<1>1. W \in World
  BY DEF World
<1>2. /\ W.chosen = << >> /\ W.held = {}
      /\ \A T \in Nat : W.logs[T] = << >>
      /\ \A s \in Server : W.terms[s] = 0
  OBVIOUS
<1> HIDE DEF W
<1>3. Lawful(W)
  <2>1. LogsOrdered(W) /\ LogsMatch(W)
    BY <1>2 DEF LogsOrdered, LogsMatch
  <2>2. LogsComplete(W) /\ HeldIsOwn(W) /\ QuorumReached(W)
    BY <1>2 DEF LogsComplete, HeldIsOwn, QuorumReached
  <2>3. ChosenByLeaders(W)
    BY <1>2 DEF ChosenByLeaders, ChosenBy
  <2> QED
    BY <2>1, <2>2, <2>3 DEF Lawful
<1>4. ASSUME NEW s \in Server PROVE Upright(W, node[s])
  <2> DEFINE n == node[s]
  <2>1. /\ n.id = s /\ n.term = 0 /\ n.log = << >> /\ n.snapIndex = 0
        /\ n.snapTerm = 0 /\ n.data = {} /\ n.results = {} /\ n.up
        /\ n.role = "Follower" /\ n.commit = 0 /\ n.applied = 0
        /\ n.next = [t \in Server |-> 1]
        /\ n.out = [t \in Server |-> << >>] /\ n.told = {}
    BY DEF Init, EmptyNode
  <2> HIDE DEF n
  <2>2. Committed(W, n)
    <3>1. ChosenBy(W, 0, 0)
      BY DEF ChosenBy
    <3> QED
      BY <1>2, <2>1, <3>1 DEF Committed, LastIndex, ChosenTerm
  <2>3. Copied(W, n) /\ Recorded(W, n)
    BY <1>2, <2>1 DEF Copied, Recorded
  <2>4. Progress(W, n) /\ Outgoing(W, n) /\ Answers(W, n)
    BY <2>1 DEF Progress, Outgoing, Answers
  <2>5. Stores(W, n)
    BY <2>1 DEF Stores, Values
  <2> QED
    BY <2>2, <2>3, <2>4, <2>5 DEF Upright, Core, n
<1>5. WireVouched(W) /\ LogsElected(W)
  BY <1>2 DEF Init, WireVouched, LogsElected
<1>6. BallotsFair(W) /\ VotesKnown /\ told = {}
  BY DEF Init, BallotsFair, VotesKnown, EmptyNode
<1> QED
  BY <1>1, <1>3, <1>4, <1>5, <1>6 DEF SafetyInv, SafeIn

(* In every reachable state the group has a history. *)
LEMMA SafetyInvHolds == Spec => [](Inv /\ LogInv /\ SafetyInv)
BY InitInv, NextInv, InitLog, NextLog, InitSafety, NextSafety, PTL DEF Spec

-----------------------------------------------------------------------------
(* What the history says of the group. *)

(* What a node takes as committed and has not compacted is the history's. *)
LEMMA CommittedIsChosen ==
    ASSUME NEW W \in World, NEW n \in NodeState, Committed(W, n),
           NEW k \in Nat, k > n.snapIndex, k <= n.commit
    PROVE  /\ k <= LastIndex(n) /\ k <= Len(W.chosen)
           /\ n.log[k - n.snapIndex] = W.chosen[k]
<1> DEFINE i == k - n.snapIndex
<1>1. /\ n.snapIndex \in Nat /\ n.commit \in Nat /\ Len(n.log) \in Nat
      /\ LastIndex(n) = n.snapIndex + Len(n.log)
  BY NodeFields DEF LastIndex
<1>2. /\ n.commit <= LastIndex(n) /\ n.commit <= Len(W.chosen)
      /\ \A j \in 1 .. Len(n.log) :
           n.snapIndex + j <= n.commit => n.log[j] = W.chosen[n.snapIndex + j]
  BY DEF Committed
<1>3. Len(W.chosen) \in Nat
  BY WorldFields
<1>4. /\ i \in 1 .. Len(n.log) /\ n.snapIndex + i = k
      /\ k <= LastIndex(n) /\ k <= Len(W.chosen)
  BY ONLY <1>1, <1>2, <1>3, k \in Nat, k > n.snapIndex, k <= n.commit
<1> HIDE DEF i
<1>5. n.log[i] = W.chosen[k]
  <2>1. n.log[i] = W.chosen[n.snapIndex + i]
    BY <1>2, <1>4
  <2> QED
    BY <1>4, <2>1
<1> QED
  BY <1>4, <1>5 DEF i

(* advance_commit(), handle_append_entries(): in a group of any size, with *)
(* any losses, repetitions, write errors, crashes and restarts, no two     *)
(* servers ever commit different entries at one index.                     *)
THEOREM ServersAgreeOnCommitted == Spec => []CommittedAgree
<1>1. Inv /\ SafetyInv => CommittedAgree
  <2> SUFFICES ASSUME Inv, SafetyInv, NEW s \in Server, NEW t \in Server,
                      NEW k \in MaxOf(node[s].snapIndex, node[t].snapIndex) + 1
                                .. MinOf(node[s].commit, node[t].commit)
               PROVE  node[s].log[k - node[s].snapIndex]
                        = node[t].log[k - node[t].snapIndex]
    BY DEF CommittedAgree
  <2>1. PICK W \in World : SafeIn(W)
    BY DEF SafetyInv
  <2>2. /\ node[s] \in NodeState /\ node[t] \in NodeState
        /\ Committed(W, node[s]) /\ Committed(W, node[t])
    BY <2>1, NodeUpright DEF Upright, Core
  <2>3. /\ k \in Nat /\ k > node[s].snapIndex /\ k <= node[s].commit
        /\ k > node[t].snapIndex /\ k <= node[t].commit
    <3>1. /\ node[s].snapIndex \in Nat /\ node[s].commit \in Nat
          /\ node[t].snapIndex \in Nat /\ node[t].commit \in Nat
      BY <2>2, NodeFields
    <3> QED
      BY <3>1 DEF MaxOf, MinOf
  <2> QED
    BY <2>1, <2>2, <2>3, CommittedIsChosen
<1> QED
  BY <1>1, SafetyInvHolds, PTL

(* An acknowledged command is committed, at the index told. *)
LEMMA AcknowledgedIsChosen ==
    ASSUME Inv, LogInv, NEW W \in World, SafeIn(W), NEW c \in Completed
    PROVE  /\ c.index \in Nat /\ c.term \in Nat /\ c.index >= 1
           /\ ChosenBy(W, c.index, c.term) /\ c.index <= Len(W.chosen)
           /\ W.chosen[c.index].value = c.command
           /\ \A k \in Nat : k >= c.index => c.command \in Values(W, k)
<1>1. c \in told /\ c.type = "Applied" /\ c \in Applied \cup ReadServed
  BY DEF Completed, Inv, TypeInv, TypeOK
<1>2. c \in Applied
  BY <1>1 DEF ReadServed
<1>3. c.index \in Nat /\ c.term \in Nat /\ c.command \in Value
  BY <1>2 DEF Applied
<1>4. /\ c.index >= 1 /\ ChosenBy(W, c.index, c.term)
      /\ W.chosen[c.index].value = c.value
  BY <1>1 DEF SafeIn, Truthful
<1>5. c.command = c.value
  BY DEF LogInv, CompletedOwnEntry
<1>6. c.command # NoOp
  BY <1>3, ValueAssumption
<1>7. c.index <= Len(W.chosen)
  BY <1>3, <1>4, ChosenLength
<1>8. ASSUME NEW k \in Nat, k >= c.index PROVE c.command \in Values(W, k)
  <2>1. c.index \in 1 .. k
    BY <1>3, <1>4, <1>8
  <2> QED
    BY <1>4, <1>5, <1>6, <2>1 DEF Values
<1> QED
  BY <1>3, <1>4, <1>5, <1>7, <1>8

(* kv_state_machine apply: in a group that does not compact its logs, or   *)
(* whose servers do not restart, a node that has applied the index of an   *)
(* acknowledged command has the command in its store.                      *)
THEOREM StoresHoldAcknowledged ==
    ASSUME Durable PROVE Spec => []AppliedIsStored
<1>1. Inv /\ LogInv /\ SafetyInv => AppliedIsStored
  <2> SUFFICES ASSUME Inv, LogInv, SafetyInv, NEW c \in Completed,
                      NEW s \in Server, node[s].applied >= c.index
               PROVE  c.command \in node[s].data
    BY DEF AppliedIsStored
  <2>1. PICK W \in World : SafeIn(W)
    BY DEF SafetyInv
  <2>2. Upright(W, node[s]) /\ node[s].applied \in Nat
    BY <2>1, NodeUpright, NodeFields
  <2>3. c.command \in Values(W, node[s].applied)
    BY <2>1, <2>2, AcknowledgedIsChosen
  <2> QED
    BY <2>2, <2>3 DEF Upright, Stores
<1> QED
  BY <1>1, SafetyInvHolds, PTL

(* kv_state_machine apply, restore: in a group that does not compact, or   *)
(* whose servers do not restart, a command whose result is saved is in the *)
(* store, snapshots installed over it and writes that fail included: what  *)
(* a replay skips is not missing.                                          *)
THEOREM SavedResultsAreStored ==
    ASSUME Durable PROVE Spec => []ResultsAreStored
<1>1. Inv /\ LogInv /\ SafetyInv => ResultsAreStored
  <2> SUFFICES ASSUME Inv, LogInv, SafetyInv, NEW s \in Server
               PROVE  node[s].results \subseteq node[s].data
    BY DEF ResultsAreStored
  <2>1. PICK W \in World : SafeIn(W)
    BY DEF SafetyInv
  <2>2. Upright(W, node[s])
    BY <2>1, NodeUpright
  <2> QED
    BY <2>2 DEF Upright, Stores
<1> QED
  BY <1>1, SafetyInvHolds, PTL

(* log_is_up_to_date(), quorum_match_index(), has_quorum(): in such a      *)
(* group every leader from then on holds an acknowledged command, at its   *)
(* index in the log or, compacted, in the store.                           *)
THEOREM LeadersHoldAcknowledged ==
    ASSUME Durable PROVE Spec => []AcknowledgedSurvives
<1>1. Inv /\ LogInv /\ SafetyInv => AcknowledgedSurvives
  <2> SUFFICES ASSUME Inv, LogInv, SafetyInv, NEW c \in Completed,
                      NEW s \in Server, node[s].role = "Leader",
                      node[s].term >= c.term
               PROVE  Holds(node[s], c.index, c.command)
    BY DEF AcknowledgedSurvives
  <2> DEFINE n == node[s]
  <2>1. PICK W \in World : SafeIn(W)
    BY DEF SafetyInv
  <2>2. /\ c.index \in Nat /\ c.term \in Nat /\ c.index >= 1
        /\ ChosenBy(W, c.index, c.term)
        /\ W.chosen[c.index].value = c.command
        /\ \A k \in Nat : k >= c.index => c.command \in Values(W, k)
    BY <2>1, AcknowledgedIsChosen
  <2>3. Lawful(W) /\ Upright(W, n) /\ n \in Node /\ n \in NodeState
    BY <2>1, NodeUpright
  <2>4. /\ n.snapIndex \in Nat /\ n.applied \in Nat /\ n.term \in Nat
        /\ Len(n.log) \in Nat /\ n.snapIndex <= n.applied
        /\ LastIndex(n) = n.snapIndex + Len(n.log)
    BY <2>3, NodeFields DEF Node, LastIndex
  <2>5. CASE c.index <= n.snapIndex
    <3>1. c.index <= n.applied
      BY ONLY <2>2, <2>4, <2>5
    <3>2. c.command \in n.data
      BY <2>2, <2>3, <2>4, <3>1 DEF Upright, Stores
    <3> QED
      BY <2>5, <3>2 DEF Holds
  <2>6. CASE ~(c.index <= n.snapIndex)
    <3> DEFINE L == W.logs[n.term]
               i == c.index - n.snapIndex
    <3>1. /\ L # << >> /\ LastIndex(n) = Len(L)
          /\ \A j \in 1 .. Len(n.log) : n.log[j] = L[n.snapIndex + j]
      BY <2>3, LeaderLog DEF Upright, Core, Copied, Follows
    <3>2. ChosenBy(W, c.index, n.term)
      BY <2>1, <2>2, <2>4, ChosenByLess
    <3>3. Agree(W.chosen, L, c.index)
      BY <2>2, <2>3, <2>4, <3>1, <3>2, ChosenInLog
    <3>4. L[c.index] = W.chosen[c.index] /\ c.index <= Len(L)
      BY <2>2, <3>3 DEF Agree
    <3> HIDE DEF L, n
    <3>5. i \in 1 .. Len(n.log) /\ n.snapIndex + i = c.index
      BY ONLY <2>2, <2>4, <2>6, <3>1, <3>4
    <3> HIDE DEF i
    <3>6. n.log[i] = W.chosen[c.index]
      BY <3>1, <3>4, <3>5
    <3>7. c.index <= LastIndex(n)
      BY <3>1, <3>4
    <3> QED
      BY <2>2, <2>6, <3>6, <3>7 DEF Holds, i, n
  <2> QED
    BY <2>5, <2>6
<1> QED
  BY <1>1, SafetyInvHolds, PTL

-----------------------------------------------------------------------------
(* What a running server has committed or compacted it never takes back. *)

Onward(n, r) ==
    r.commit >= n.commit /\ r.snapIndex >= n.snapIndex

SameIndexes(n, r) ==
    r.commit = n.commit /\ r.snapIndex = n.snapIndex /\ r.data = n.data

(* Two steps onward are one. *)
LEMMA OnwardTransitive ==
    ASSUME NEW n \in Node, NEW p \in Node, NEW r \in Node,
           Onward(n, p), Onward(p, r)
    PROVE  Onward(n, r)
<1>1. /\ n.commit \in Nat /\ p.commit \in Nat /\ r.commit \in Nat
      /\ n.snapIndex \in Nat /\ p.snapIndex \in Nat /\ r.snapIndex \in Nat
  BY NodeFields DEF Node
<1> QED
  BY <1>1 DEF Onward

(* A step that changes no index and no store is onward. *)
LEMMA SameIndexesOnward ==
    ASSUME NEW n \in Node, NEW r, SameIndexes(n, r)
    PROVE  Onward(n, r)
<1>1. n.commit \in Nat /\ n.snapIndex \in Nat
  BY NodeFields DEF Node
<1> QED
  BY <1>1 DEF Onward, SameIndexes

(* send() lowers no index of the server. *)
LEMMA SendOnward ==
    ASSUME NEW n \in NodeState, NEW to, NEW m
    PROVE  SameIndexes(n, Send(n, to, m))
BY DEF Send, NodeState, SameIndexes

(* send_snapshot() lowers no index of the server. *)
LEMMA SendSnapshotOnward ==
    ASSUME NEW n \in NodeState, NEW S
    PROVE  SameIndexes(n, SendSnapshot(n, S))
BY DEF SendSnapshot, NodeState, SameIndexes

(* send_append_entries() lowers no index of the server. *)
LEMMA SendAppendEntriesOnward ==
    ASSUME NEW n \in Node, NEW S
    PROVE  SameIndexes(n, SendAppendEntries(n, S))
<1> DEFINE behind == {s \in S : n.next[s] <= n.snapIndex}
           ready == {s \in S : Stored(n, n.next[s] - 1)}
           queues == [s \in Server |-> IF s \in ready
                                       THEN Append(n.out[s], AppendEntriesTo(n, s))
                                       ELSE n.out[s]]
           p == [n EXCEPT !.out = queues]
<1>1. n \in NodeState
  BY DEF Node
<1>2. SendAppendEntries(n, S) = SendSnapshot(p, behind)
  BY DEF SendAppendEntries
<1> HIDE DEF behind, ready, queues
<1>3. p.commit = n.commit /\ p.snapIndex = n.snapIndex /\ p.data = n.data
  BY <1>1 DEF NodeState
<1>4. SameIndexes(p, SendSnapshot(p, behind))
  BY <1>1 DEF SendSnapshot, NodeState, SameIndexes
<1> QED
  BY <1>2, <1>3, <1>4 DEF SameIndexes

(* send_heartbeats() lowers no index of the server. *)
LEMMA SendHeartbeatsOnward ==
    ASSUME NEW n \in Node
    PROVE  SameIndexes(n, SendHeartbeats(n))
<1> DEFINE p == [n EXCEPT !.round = @ + 1]
<1>1. n \in NodeState /\ n.snapIndex <= n.applied
      /\ n.out \in [Server -> Seq(Plain)] /\ n.round + 1 \in Nat
  BY NodeFields DEF Node
<1>2. p \in NodeState
  BY <1>1, Zenon DEF NodeState
<1>3. /\ p.commit = n.commit /\ p.snapIndex = n.snapIndex /\ p.data = n.data
      /\ p.applied = n.applied /\ p.out = n.out
  BY <1>1 DEF NodeState
<1>4. p \in Node
  BY <1>1, <1>2, <1>3 DEF Node
<1> HIDE DEF p
<1>5. SameIndexes(p, SendAppendEntries(p, Peers(n)))
  BY <1>4, SendAppendEntriesOnward
<1> QED
  BY <1>3, <1>5 DEF SendHeartbeats, p, SameIndexes

(* evaluate_read_barriers() lowers no index of the server. *)
LEMMA EvaluateReadBarriersOnward ==
    ASSUME NEW n \in NodeState
    PROVE  SameIndexes(n, EvaluateReadBarriers(n))
BY DEF EvaluateReadBarriers, NodeState, SameIndexes

(* apply_committed_entries() lowers no index of the server. *)
LEMMA ApplyCommittedOnward ==
    ASSUME NEW n \in Node, NEW limit \in Nat
    PROVE  /\ ApplyCommitted(n, limit).commit = n.commit
           /\ ApplyCommitted(n, limit).snapIndex = n.snapIndex
           /\ n.data \subseteq ApplyCommitted(n, limit).data
           /\ Onward(n, ApplyCommitted(n, limit))
<1>1. PICK upto \in Nat :
         LET r == Executed(n, upto)
             f == [r EXCEPT !.pending = {p \in @ : p.index <= upto},
                            !.barriers = {}]
         IN  /\ n.applied <= upto
             /\ n.applied < upto => upto <= LastIndex(n) /\ upto <= n.commit
             /\ ApplyCommitted(n, limit) \in {f, r, EvaluateReadBarriers(r)}
  BY ApplyCommittedCases
<1> DEFINE r == Executed(n, upto)
           f == [r EXCEPT !.pending = {p \in @ : p.index <= upto},
                          !.barriers = {}]
<1>2. /\ r \in Node /\ r.commit = n.commit /\ r.snapIndex = n.snapIndex
  BY <1>1, ExecutedType
<1>3. n.data \subseteq r.data
  BY DEF Executed, Node, NodeState
<1> HIDE DEF r
<1>4. r \in NodeState
  BY <1>2 DEF Node
<1>5. SameIndexes(r, f)
  BY <1>4 DEF NodeState, SameIndexes
<1>6. SameIndexes(r, EvaluateReadBarriers(r)) /\ SameIndexes(r, r)
  BY <1>4, EvaluateReadBarriersOnward DEF SameIndexes
<1>7. ApplyCommitted(n, limit) \in {f, r, EvaluateReadBarriers(r)}
  BY <1>1 DEF r
<1> HIDE DEF f
<1>8. SameIndexes(r, ApplyCommitted(n, limit))
  BY <1>5, <1>6, <1>7
<1>9. n.commit \in Nat /\ n.snapIndex \in Nat
  BY NodeFields DEF Node
<1> QED
  BY <1>2, <1>3, <1>8, <1>9 DEF SameIndexes, Onward

(* maybe_compact_log() lowers no index of the server. *)
LEMMA MaybeCompactOnward ==
    ASSUME NEW n \in Node
    PROVE  Onward(n, MaybeCompact(n))
<1>1. /\ n \in NodeState /\ n.snapIndex <= n.applied /\ n.commit \in Nat
      /\ n.snapIndex \in Nat /\ n.applied \in Nat
  BY NodeFields DEF Node
<1>2. CASE MaybeCompact(n) = n
  BY <1>1, <1>2 DEF Onward
<1>3. CASE MaybeCompact(n) # n
  <2>1. LET r == MaybeCompact(n)
        IN  r.commit = n.commit /\ r.snapIndex = n.applied /\ r.data = n.data
    BY <1>1, <1>3 DEF MaybeCompact, NodeState
  <2> QED
    BY <1>1, <2>1 DEF Onward
<1> QED
  BY <1>2, <1>3

(* The end of a tick lowers no index of the server. *)
LEMMA AfterTickOnward ==
    ASSUME NEW n \in Node, NEW limit \in Nat
    PROVE  Onward(n, AfterTick(n, limit))
<1> DEFINE p == ApplyCommitted(n, limit)
<1>1. p \in Node /\ Onward(n, p)
  BY ApplyCommittedType, ApplyCommittedOnward
<1> HIDE DEF p
<1>2. MaybeCompact(p) \in Node /\ Onward(p, MaybeCompact(p))
  BY <1>1, MaybeCompactType, MaybeCompactOnward
<1> QED
  BY <1>1, <1>2, OnwardTransitive DEF AfterTick, p

(* advance_commit_index() lowers no index of the server. *)
LEMMA AdvanceCommitOnward ==
    ASSUME NEW n \in Node, NEW limit \in Nat
    PROVE  Onward(n, AdvanceCommit(n, limit))
<1> DEFINE k == QuorumMatchIndex(n)
           c == [n EXCEPT !.commit = k]
           r == ApplyCommitted(c, limit)
           due == k \in n.commit + 1 .. LastIndex(n) /\ TermAt(n, k) = n.term
<1>1. /\ n \in NodeState /\ n.snapIndex <= n.applied
      /\ n.out \in [Server -> Seq(Plain)] /\ n.commit \in Nat
      /\ LastIndex(n) \in Nat /\ n.snapIndex \in Nat
  BY NodeFields, LastIndexType DEF Node
<1>2. CASE ~due
  <2>1. AdvanceCommit(n, limit) = n
    BY <1>2 DEF AdvanceCommit
  <2> QED
    BY <1>1, <2>1 DEF Onward
<1>3. CASE due
  <2>1. k \in n.commit + 1 .. LastIndex(n)
    BY <1>3
  <2>2. AdvanceCommit(n, limit)
          = IF ApplyFailed(r) \/ Peers(n) = {} THEN r ELSE SendHeartbeats(r)
    BY <1>3 DEF AdvanceCommit
  <2> HIDE DEF k, due
  <2>0. k \in Nat /\ k > n.commit
    BY ONLY <1>1, <2>1
  <2>3. c \in NodeState
    BY <1>1, <2>0, Zenon DEF NodeState
  <2>4. /\ c.commit = k /\ c.snapIndex = n.snapIndex /\ c.data = n.data
        /\ c.applied = n.applied /\ c.out = n.out
    BY <1>1 DEF NodeState
  <2> HIDE DEF c
  <2>5. c \in Node /\ Onward(n, c)
    BY <1>1, <2>0, <2>3, <2>4 DEF Node, Onward
  <2>6. r \in Node /\ Onward(c, r)
    BY <2>5, ApplyCommittedType, ApplyCommittedOnward
  <2> HIDE DEF r
  <2>7. SendHeartbeats(r) \in Node /\ Onward(r, SendHeartbeats(r))
    BY <2>6, SendHeartbeatsType, SendHeartbeatsOnward, SameIndexesOnward
  <2>8. Onward(n, r)
    BY <2>5, <2>6, OnwardTransitive
  <2>9. Onward(n, SendHeartbeats(r))
    BY <2>6, <2>7, <2>8, OnwardTransitive
  <2> QED
    BY <2>2, <2>8, <2>9
<1> QED
  BY <1>2, <1>3

(* become_follower() lowers no index of the server. *)
LEMMA BecomeFollowerOnward ==
    ASSUME NEW n \in NodeState, NEW term, NEW leader
    PROVE  SameIndexes(n, BecomeFollower(n, term, leader))
BY DEF BecomeFollower, NodeState, SameIndexes

(* Heeding a message lowers no index of the server. *)
LEMMA HeedOnward ==
    ASSUME NEW n \in NodeState, NEW m, NEW f
    PROVE  SameIndexes(n, Heed(n, m, f))
<1>1. CASE Heed(n, m, f) = BecomeFollower(n, m.term, f)
  BY <1>1, BecomeFollowerOnward
<1>2. CASE Heed(n, m, f) = [n EXCEPT !.leader = f]
  BY <1>2 DEF NodeState, SameIndexes
<1> QED
  BY <1>1, <1>2 DEF Heed

(* Taking entries of the leader lowers no index of the server. *)
LEMMA MergeOnward ==
    ASSUME NEW n \in NodeState, NEW m, NEW k
    PROVE  SameIndexes(n, Merge(n, m, k))
BY DEF Merge, NodeState, SameIndexes

(* Writing to the own log and asking for votes change no index. *)
LEMMA LeadOnward ==
    ASSUME NEW n \in NodeState, NEW value
    PROVE  /\ SameIndexes(n, AppendOwn(n, value))
           /\ SameIndexes(n, InitializeLeaderProgress(n))
           /\ SameIndexes(n, Campaign(n)) /\ SameIndexes(n, RequestVotes(n))
<1>1. SameIndexes(n, AppendOwn(n, value))
  BY DEF AppendOwn, NodeState, SameIndexes
<1>2. SameIndexes(n, InitializeLeaderProgress(n))
  BY DEF InitializeLeaderProgress, NodeState, SameIndexes
<1>3. SameIndexes(n, Campaign(n)) /\ SameIndexes(n, RequestVotes(n))
  BY DEF Campaign, RequestVotes, NodeState, SameIndexes
<1> QED
  BY <1>1, <1>2, <1>3

(* become_leader() lowers no index of the server. *)
LEMMA BecomeLeaderOnward ==
    ASSUME NEW n \in Node, NEW limit \in Nat
    PROVE  Onward(n, BecomeLeader(n, limit))
<1> DEFINE i == InitializeLeaderProgress(n)
           a == AppendOwn(i, NoOp)
           h == SendHeartbeats(a)
<1>1. i \in Node /\ Onward(n, i)
  BY InitializeLeaderProgressType, LeadOnward, SameIndexesOnward DEF Node
<1> HIDE DEF i
<1>2. a \in Node /\ Onward(i, a)
  BY <1>1, AppendOwnType, LeadOnward, SameIndexesOnward DEF Node, Command
<1> HIDE DEF a
<1>3. h \in Node /\ Onward(a, h)
  BY <1>2, SendHeartbeatsType, SendHeartbeatsOnward, SameIndexesOnward
<1> HIDE DEF h
<1>4. AdvanceCommit(h, limit) \in Node /\ Onward(h, AdvanceCommit(h, limit))
  BY <1>3, AdvanceCommitType, AdvanceCommitOnward
<1>5. BecomeLeader(n, limit) = AdvanceCommit(h, limit)
  BY DEF BecomeLeader, h, a, i
<1>6. Onward(n, a)
  BY <1>1, <1>2, OnwardTransitive
<1>7. Onward(n, h)
  BY <1>2, <1>3, <1>6, OnwardTransitive
<1> QED
  BY <1>3, <1>4, <1>5, <1>7, OnwardTransitive

(* become_leader() that fails lowers no index of the server. *)
LEMMA BecomeLeaderFailedOnward ==
    ASSUME NEW n \in Node
    PROVE  SameIndexes(n, BecomeLeaderFailed(n))
<1> DEFINE i == InitializeLeaderProgress(n)
<1>1. n \in NodeState /\ i \in NodeState
  BY InitializeLeaderProgressType DEF Node
<1>2. SameIndexes(n, i)
  BY <1>1, LeadOnward
<1>3. SameIndexes(i, BecomeLeaderFailed(n))
  BY <1>1, BecomeFollowerOnward DEF BecomeLeaderFailed
<1> QED
  BY <1>2, <1>3 DEF SameIndexes

-----------------------------------------------------------------------------
(* No step of a running server lowers its commit index or its boundary. *)
StepOnward == \A t \in Server : Onward(node[t], node'[t])

(* A step that takes one server onward takes all of them. *)
LEMMA BecomeStateOnward ==
    ASSUME Inv, NEW s \in Server, NEW n \in NodeState, Onward(node[s], n),
           NEW wire, Become(s, n, wire)
    PROVE  StepOnward
<1> SUFFICES ASSUME NEW t \in Server PROVE Onward(node[t], node'[t])
  BY DEF StepOnward
<1> DEFINE r == [n EXCEPT !.out = [u \in Server |-> << >>], !.told = {}]
<1>1. node \in [Server -> NodeState] /\ node' = [node EXCEPT ![s] = r]
  BY DEF Inv, TypeInv, TypeOK, Become
<1>3. r.commit = n.commit /\ r.snapIndex = n.snapIndex /\ r.data = n.data
  BY DEF NodeState
<1> HIDE DEF r
<1>4. CASE t = s
  <2>1. node'[t] = r
    BY <1>1, <1>4
  <2> QED
    BY <1>3, <1>4, <2>1 DEF Onward
<1>5. CASE t # s
  <2>1. node'[t] = node[t] /\ node[t] \in Node
    BY <1>1, <1>5, Books, NodeOfServer
  <2> QED
    BY <2>1, SameIndexesOnward DEF SameIndexes
<1> QED
  BY <1>4, <1>5

(* The same for a step of a sound node. *)
LEMMA BecomeOnward ==
    ASSUME Inv, NEW s \in Server, NEW n \in Node, Onward(node[s], n),
           NEW wire, Become(s, n, wire)
    PROVE  StepOnward
<1>1. n \in NodeState
  BY DEF Node
<1> QED
  BY <1>1, BecomeStateOnward

(* The same for a handler of a message. *)
LEMMA HandledOnward ==
    ASSUME Inv, NEW f, NEW s \in Server, NEW n \in Node, Onward(node[s], n),
           Handled(f, s, n)
    PROVE  StepOnward
BY BecomeOnward DEF Handled

(* tick() without an election lowers no index of the server. *)
LEMMA TickIdleOnward ==
    ASSUME Inv, NEW s \in Server, TickIdle(s) \/ TickHeartbeat(s)
    PROVE  StepOnward
<1>1. node[s] \in Node
  BY Books, NodeOfServer
<1>2. PICK n \in {node[s], SendHeartbeats(node[s])},
           limit \in Limits(node[s]) : Become(s, AfterTick(n, limit), net)
  BY DEF TickIdle, TickHeartbeat
<1>3. n \in Node /\ Onward(node[s], n)
  BY <1>1, SendHeartbeatsType, SendHeartbeatsOnward, SameIndexesOnward
  DEF SameIndexes
<1>4. limit \in Nat
  BY <1>1, LimitsType
<1> DEFINE r == AfterTick(n, limit)
<1>5. r \in Node /\ Onward(n, r)
  BY <1>3, <1>4, AfterTickType, AfterTickOnward
<1>6. Become(s, r, net)
  BY <1>2
<1> HIDE DEF r
<1>7. Onward(node[s], r)
  BY <1>1, <1>3, <1>5, OnwardTransitive
<1> QED
  BY <1>5, <1>6, <1>7, BecomeOnward

(* tick() whose compaction fails lowers no index of the server. *)
LEMMA TickCompactionFailsOnward ==
    ASSUME Inv, NEW s \in Server, TickCompactionFails(s)
    PROVE  StepOnward
<1> DEFINE r == ApplyCommitted(node[s], Bound["log"])
<1>1. node[s] \in Node
  BY Books, NodeOfServer
<1>2. r \in Node /\ Onward(node[s], r)
  BY <1>1, Books, ApplyCommittedType, ApplyCommittedOnward
<1>3. Become(s, r, net)
  BY DEF TickCompactionFails
<1> HIDE DEF r
<1> QED
  BY <1>2, <1>3, BecomeOnward

(* tick() that starts an election lowers no index of the server. *)
LEMMA TickElectionOnward ==
    ASSUME Inv, NEW s \in Server, TickElection(s)
    PROVE  StepOnward
<1> DEFINE c == Campaign(node[s])
           b == IF HasQuorum(1) THEN BecomeLeader(c, Bound["log"])
                                ELSE RequestVotes(c)
           r == AfterTick(b, Bound["log"])
<1>1. node[s] \in Node /\ node[s] \in NodeState
  BY Books, NodeOfServer DEF Node
<1>2. c \in Node /\ Onward(node[s], c)
  BY <1>1, CampaignType, LeadOnward, SameIndexesOnward
<1> HIDE DEF c
<1>3. b \in Node /\ Onward(c, b)
  <2>1. CASE HasQuorum(1)
    BY <1>2, <2>1, Books, BecomeLeaderType, BecomeLeaderOnward
  <2>2. CASE ~HasQuorum(1)
    BY <1>2, <2>2, RequestVotesType, LeadOnward, SameIndexesOnward DEF Node
  <2> QED
    BY <2>1, <2>2
<1> HIDE DEF b
<1>4. r \in Node /\ Onward(b, r)
  BY <1>3, Books, AfterTickType, AfterTickOnward
<1>5. Become(s, r, net)
  BY DEF TickElection, r, b, c
<1> HIDE DEF r
<1>6. Onward(node[s], b)
  BY <1>1, <1>2, <1>3, OnwardTransitive
<1>7. Onward(node[s], r)
  BY <1>1, <1>3, <1>4, <1>6, OnwardTransitive
<1> QED
  BY <1>4, <1>5, <1>7, BecomeOnward

(* tick() whose election cannot be stored lowers no index of the server. *)
LEMMA TickElectionFailsOnward ==
    ASSUME Inv, NEW s \in Server, TickElectionFails(s)
    PROVE  StepOnward
<1> DEFINE unsaved == [node[s] EXCEPT !.leader = Nil]
           c == Campaign(node[s])
           alone == BecomeLeaderFailed(c)
<1>1. node[s] \in Node /\ node[s] \in NodeState
  BY Books, NodeOfServer DEF Node
<1>2. unsaved \in Node /\ Onward(node[s], unsaved)
  <2>1. unsaved \in NodeState
    <3>1. Nil \in Server \cup {Nil}
      OBVIOUS
    <3> QED
      BY <1>1, <3>1, Zenon DEF NodeState
  <2>2. /\ unsaved.snapIndex = node[s].snapIndex
        /\ unsaved.applied = node[s].applied
        /\ unsaved.out = node[s].out /\ SameIndexes(node[s], unsaved)
    BY <1>1 DEF NodeState, SameIndexes
  <2> HIDE DEF unsaved
  <2> QED
    BY <1>1, <2>1, <2>2, SameIndexesOnward DEF Node
<1>3. c \in Node /\ SameIndexes(node[s], c)
  BY <1>1, CampaignType, LeadOnward
<1>4. PICK n \in {unsaved, alone} : Become(s, AfterTick(n, Bound["log"]), net)
  BY DEF TickElectionFails
<1> HIDE DEF c
<1>5. alone \in Node /\ SameIndexes(c, alone)
  BY <1>3, BecomeLeaderFailedType, BecomeLeaderFailedOnward
<1> HIDE DEF unsaved, alone
<1>6. Onward(node[s], alone)
  BY <1>1, <1>3, <1>5, SameIndexesOnward DEF SameIndexes
<1>7. n \in Node /\ Onward(node[s], n)
  BY <1>2, <1>4, <1>5, <1>6
<1> DEFINE r == AfterTick(n, Bound["log"])
<1>8. r \in Node /\ Onward(n, r) /\ Become(s, r, net)
  BY <1>4, <1>7, Books, AfterTickType, AfterTickOnward
<1> HIDE DEF r
<1>9. Onward(node[s], r)
  BY <1>1, <1>7, <1>8, OnwardTransitive
<1> QED
  BY <1>8, <1>9, BecomeOnward

(* propose() lowers no index of the server. *)
LEMMA ProposeOnward ==
    ASSUME Inv, NEW s \in Server, NEW v \in Value, Propose(s, v)
    PROVE  StepOnward
<1> DEFINE a == AppendOwn(node[s], v)
           p == [index |-> LastIndex(a), value |-> v]
           n == [a EXCEPT !.pending = @ \cup {p}]
<1>1. node[s] \in Node /\ node[s] \in NodeState
  BY Books, NodeOfServer DEF Node
<1>2. a \in Node /\ SameIndexes(node[s], a)
  BY <1>1, AppendOwnType, LeadOnward DEF Command
<1>3. PICK limit \in Limits(n) :
        Become(s, SendHeartbeats(AdvanceCommit(n, limit)), net)
  BY DEF Propose
<1> HIDE DEF a
<1>4. n \in Node /\ Onward(node[s], n)
  <2>1. a \in NodeState
    BY <1>2 DEF Node
  <2>2. p \in PendingProposal
    BY <2>1, LastIndexType DEF PendingProposal
  <2> HIDE DEF p
  <2>3. a.pending \cup {p} \in SUBSET PendingProposal
    BY <2>1, <2>2, NodeFields
  <2>4. n \in NodeState
    BY <2>1, <2>3, Zenon DEF NodeState
  <2>5. /\ n.snapIndex = a.snapIndex /\ n.applied = a.applied
        /\ n.out = a.out /\ SameIndexes(a, n)
    BY <2>1 DEF NodeState, SameIndexes
  <2> HIDE DEF n
  <2>6. SameIndexes(node[s], n)
    BY <1>2, <2>5 DEF SameIndexes
  <2> QED
    BY <1>1, <1>2, <2>4, <2>5, <2>6, SameIndexesOnward DEF Node
<1> HIDE DEF n
<1>5. limit \in Nat
  BY <1>4, LimitsType
<1> DEFINE c == AdvanceCommit(n, limit)
           r == SendHeartbeats(c)
<1>6. c \in Node /\ Onward(n, c)
  BY <1>4, <1>5, AdvanceCommitType, AdvanceCommitOnward
<1> HIDE DEF c
<1>7. r \in Node /\ Onward(c, r)
  BY <1>6, SendHeartbeatsType, SendHeartbeatsOnward, SameIndexesOnward
<1>8. Become(s, r, net)
  BY <1>3 DEF c
<1> HIDE DEF r
<1>9. Onward(node[s], c)
  BY <1>1, <1>4, <1>6, OnwardTransitive
<1>10. Onward(node[s], r)
  BY <1>1, <1>6, <1>7, <1>9, OnwardTransitive
<1> QED
  BY <1>7, <1>8, <1>10, BecomeOnward

(* read_index() lowers no index of the server. *)
LEMMA ReadIndexOnward ==
    ASSUME Inv, NEW s \in Server, ReadIndex(s)
    PROVE  StepOnward
<1> DEFINE n == SendHeartbeats(node[s])
           b == [round |-> n.round, target |-> n.commit, need |-> Acknowledged]
           a == [n EXCEPT !.barriers = @ \cup {b}]
           r == EvaluateReadBarriers(a)
<1>1. node[s] \in Node
  BY Books, NodeOfServer
<1>2. n \in Node /\ SameIndexes(node[s], n)
  BY <1>1, SendHeartbeatsType, SendHeartbeatsOnward
<1>3. Become(s, r, net)
  BY DEF ReadIndex
<1> HIDE DEF n
<1>4. n \in NodeState
  BY <1>2 DEF Node
<1>5. Acknowledged \in SUBSET Value
  <2>1. \A x \in told : x.type = "Applied" => x.command \in Value
    BY DEF Inv, TypeInv, TypeOK, Applied, ReadServed
  <2> QED
    BY <2>1 DEF Acknowledged
<1>6. b \in ReadBarrier
  BY <1>4, <1>5, NodeFields DEF ReadBarrier
<1> HIDE DEF b
<1>7. n.barriers \cup {b} \in SUBSET ReadBarrier
  BY <1>4, <1>6, NodeFields
<1>8. a \in NodeState
  BY <1>4, <1>7, Zenon DEF NodeState
<1>9. /\ a.snapIndex = n.snapIndex /\ a.applied = n.applied
      /\ a.out = n.out /\ SameIndexes(n, a)
  BY <1>4 DEF NodeState, SameIndexes
<1> HIDE DEF a
<1>10. a \in Node
  BY <1>2, <1>8, <1>9 DEF Node
<1>11. r \in Node /\ SameIndexes(a, r)
  BY <1>8, <1>10, EvaluateReadBarriersType, EvaluateReadBarriersOnward
<1> HIDE DEF r
<1>12. Onward(node[s], r)
  BY <1>1, <1>2, <1>9, <1>11, SameIndexesOnward DEF SameIndexes
<1> QED
  BY <1>3, <1>11, <1>12, BecomeOnward

-----------------------------------------------------------------------------

(* handle_request_vote() lowers no index of the server. *)
LEMMA HandleRequestVoteOnward ==
    ASSUME Inv, NEW f \in Server, NEW s \in Server, HandleRequestVote(f, s)
    PROVE  StepOnward
<1> DEFINE m == Head(net[f][s])
           n == IF m.term > node[s].term THEN BecomeFollower(node[s], m.term, Nil)
                                         ELSE node[s]
           granted == /\ m.term = n.term
                      /\ n.votedFor \in {Nil, f}
                      /\ LogIsUpToDate(n, m.lastIndex, m.lastTerm)
           reply == [type |-> "RequestVoteResponse", term |-> n.term,
                     granted |-> granted]
           a == [n EXCEPT !.votedFor = IF granted THEN f ELSE @]
           r == Send(a, f, reply)
<1>1. net[f][s] # << >> /\ m.term \in Nat
  <2>1. net[f][s] # << >>
    BY DEF HandleRequestVote, Arrives
  <2> QED
    BY <2>1, ArrivingMessage, MessageOfType
<1>2. node[s] \in Node /\ node[s] \in NodeState
  BY Books, NodeOfServer DEF Node
<1>3. n \in NodeState /\ SameIndexes(node[s], n)
  <2>1. CASE m.term > node[s].term
    BY <1>1, <1>2, <2>1, BecomeFollowerType, BecomeFollowerOnward DEF Node
  <2>2. CASE ~(m.term > node[s].term)
    BY <1>2, <2>2 DEF SameIndexes
  <2> QED
    BY <2>1, <2>2
<1>4. Handled(f, s, r)
  BY DEF HandleRequestVote
<1> HIDE DEF m, n
<1>5. reply \in Message
  <2>1. granted \in BOOLEAN /\ n.term \in Nat
    BY <1>3, NodeFields
  <2>2. reply \in RequestVoteResponse
    BY <2>1 DEF RequestVoteResponse
  <2> QED
    BY <2>2 DEF Message
<1>6. (IF granted THEN f ELSE n.votedFor) \in Server \cup {Nil}
  BY <1>3, NodeFields
<1> HIDE DEF granted, reply
<1>7. a \in NodeState
  BY <1>3, <1>6, ZenonT(40) DEF NodeState
<1>8. SameIndexes(n, a)
  BY <1>3 DEF NodeState, SameIndexes
<1> HIDE DEF a
<1>9. r \in NodeState
  <2>1. a.out \in [Server -> Seq(Message)]
    BY <1>7, NodeFields
  <2>2. [a.out EXCEPT ![f] = Append(@, reply)] \in [Server -> Seq(Message)]
    BY <1>5, <2>1
  <2> QED
    BY <1>7, <2>2, Zenon DEF NodeState, Send
<1>10. SameIndexes(a, r)
  BY <1>7, SendOnward
<1> HIDE DEF r
<1>11. Onward(node[s], r)
  BY <1>2, <1>3, <1>8, <1>10, SameIndexesOnward DEF SameIndexes
<1> QED
  BY <1>4, <1>9, <1>11, BecomeStateOnward DEF Handled

(* A message of a later term lowers no index of the server. *)
LEMMA StepDownOnward ==
    ASSUME Inv, NEW f \in Server, NEW s \in Server,
           HandleRequestVoteFails(f, s) \/ HandleNewerTerm(f, s)
    PROVE  StepOnward
<1> DEFINE m == Head(net[f][s])
           r == BecomeFollower(node[s], m.term, Nil)
<1>1. Handled(f, s, r) /\ net[f][s] # << >>
  BY DEF HandleRequestVoteFails, HandleNewerTerm, Arrives
<1>2. m.term \in Nat
  BY <1>1, ArrivingMessage, MessageOfType
<1>3. node[s] \in Node /\ node[s] \in NodeState
  BY Books, NodeOfServer DEF Node
<1> HIDE DEF m
<1>4. r \in Node /\ Onward(node[s], r)
  BY <1>2, <1>3, BecomeFollowerType, BecomeFollowerOnward, SameIndexesOnward
<1> HIDE DEF r
<1> QED
  BY <1>1, <1>4, HandledOnward

(* A request of an earlier term lowers no index of the server. *)
LEMMA HandleOutdatedOnward ==
    ASSUME Inv, NEW f \in Server, NEW s \in Server, HandleOutdated(f, s)
    PROVE  StepOnward
<1>1. Handled(f, s, node[s])
  BY DEF HandleOutdated
<1>2. node[s] \in Node
  BY Books, NodeOfServer
<1>3. Onward(node[s], node[s])
  BY <1>2, SameIndexesOnward DEF SameIndexes
<1> QED
  BY <1>1, <1>2, <1>3, HandledOnward

(* handle_request_vote_response() lowers no index of the server. *)
LEMMA HandleRequestVoteResponseOnward ==
    ASSUME Inv, NEW f \in Server, NEW s \in Server,
           HandleRequestVoteResponse(f, s)
             \/ HandleRequestVoteResponseFails(f, s)
    PROVE  StepOnward
<1> DEFINE n == [node[s] EXCEPT !.votes = @ \cup {f}]
<1>1. node[s] \in Node /\ node[s] \in NodeState
  BY Books, NodeOfServer DEF Node
<1>2. n \in NodeState
  <2>1. node[s].votes \cup {f} \in SUBSET Server
    BY <1>1, NodeFields
  <2> QED
    BY <1>1, <2>1, Zenon DEF NodeState
<1>3. /\ n.snapIndex = node[s].snapIndex /\ n.applied = node[s].applied
      /\ n.out = node[s].out /\ SameIndexes(node[s], n)
  BY <1>1 DEF NodeState, SameIndexes
<1>4. \/ Handled(f, s, n)
      \/ \E limit \in Limits(n) : Handled(f, s, BecomeLeader(n, limit))
      \/ Handled(f, s, BecomeLeaderFailed(n))
  BY DEF HandleRequestVoteResponse, HandleRequestVoteResponseFails
<1> HIDE DEF n
<1>5. n \in Node /\ Onward(node[s], n)
  BY <1>1, <1>2, <1>3, SameIndexesOnward DEF Node
<1>6. CASE Handled(f, s, n)
  BY <1>5, <1>6, HandledOnward
<1>7. ASSUME NEW limit \in Limits(n), Handled(f, s, BecomeLeader(n, limit))
      PROVE  StepOnward
  <2>1. limit \in Nat
    BY <1>5, LimitsType
  <2>2. BecomeLeader(n, limit) \in Node /\ Onward(n, BecomeLeader(n, limit))
    BY <1>5, <2>1, BecomeLeaderType, BecomeLeaderOnward
  <2>3. Onward(node[s], BecomeLeader(n, limit))
    BY <1>1, <1>5, <2>2, OnwardTransitive
  <2> QED
    BY <1>7, <2>2, <2>3, HandledOnward
<1>8. CASE Handled(f, s, BecomeLeaderFailed(n))
  <2>1. /\ BecomeLeaderFailed(n) \in Node
        /\ Onward(n, BecomeLeaderFailed(n))
    BY <1>5, BecomeLeaderFailedType, BecomeLeaderFailedOnward, SameIndexesOnward
  <2>2. Onward(node[s], BecomeLeaderFailed(n))
    BY <1>1, <1>5, <2>1, OnwardTransitive
  <2> QED
    BY <1>8, <2>1, <2>2, HandledOnward
<1> QED
  BY <1>4, <1>6, <1>7, <1>8

(* A reply changes nothing of what Onward speaks of. *)
LEMMA ReplyOnward ==
    ASSUME Inv, NEW f \in Server, NEW s \in Server, NEW n \in Node,
           Onward(node[s], n), NEW m \in Plain, Handled(f, s, Send(n, f, m))
    PROVE  StepOnward
<1> DEFINE r == Send(n, f, m)
<1>1. node[s] \in Node /\ n \in NodeState
  BY Books, NodeOfServer DEF Node
<1>2. r \in Node /\ Onward(n, r)
  BY <1>1, SendType, SendOnward, SameIndexesOnward
<1> HIDE DEF r
<1>3. Onward(node[s], r)
  BY <1>1, <1>2, OnwardTransitive
<1> QED
  BY <1>2, <1>3, HandledOnward DEF r

(* A response of an earlier term lowers no index of the server. *)
LEMMA HandleStaleOnward ==
    ASSUME Inv, NEW f \in Server, NEW s \in Server,
           HandleAppendEntriesStale(f, s) \/ HandleInstallSnapshotStale(f, s)
    PROVE  StepOnward
<1> DEFINE m == Head(net[f][s])
<1>1. node[s] \in Node
  BY Books, NodeOfServer
<1>2. Onward(node[s], node[s])
  BY <1>1, SameIndexesOnward DEF SameIndexes
<1>3. CASE HandleAppendEntriesStale(f, s)
  <2>1. /\ net[f][s] # << >> /\ m.type = "AppendEntries"
        /\ Handled(f, s, Send(node[s], f, AppendReply(node[s], m, FALSE, 0, 0)))
    BY <1>3, Zenon DEF HandleAppendEntriesStale, Arrives
  <2>2. m \in AppendEntriesRequest
    BY <2>1, ArrivingMessage, MessageOfType
  <2> HIDE DEF m
  <2>3. AppendReply(node[s], m, FALSE, 0, 0) \in Plain
    BY <1>1, <2>2, AppendReplyType
  <2> QED
    BY <1>1, <1>2, <2>1, <2>3, ReplyOnward
<1>4. CASE HandleInstallSnapshotStale(f, s)
  <2>1. Handled(f, s, Send(node[s], f, SnapshotReply(node[s], FALSE)))
    BY <1>4, Zenon DEF HandleInstallSnapshotStale
  <2>2. SnapshotReply(node[s], FALSE) \in Plain
    BY <1>1, SnapshotReplyType
  <2> QED
    BY <1>1, <1>2, <2>1, <2>2, ReplyOnward
<1> QED
  BY <1>3, <1>4

(* A failed log check lowers no index of the server. *)
LEMMA HandleAppendEntriesInconsistentOnward ==
    ASSUME Inv, NEW f \in Server, NEW s \in Server,
           HandleAppendEntriesInconsistent(f, s)
    PROVE  StepOnward
<1> DEFINE m == Head(net[f][s])
           n == Heed(node[s], m, f)
           reply == AppendReply(n, m, FALSE, 0, LastIndex(n))
<1>1. /\ net[f][s] # << >> /\ m.type = "AppendEntries"
      /\ Handled(f, s, Send(n, f, reply))
  BY Zenon DEF HandleAppendEntriesInconsistent, Arrives
<1>2. m \in AppendEntriesRequest /\ m.term \in Nat
  BY <1>1, ArrivingMessage, MessageOfType
<1>3. node[s] \in Node /\ node[s] \in NodeState
  BY Books, NodeOfServer DEF Node
<1> HIDE DEF m
<1>4. n \in Node /\ Onward(node[s], n)
  BY <1>2, <1>3, HeedType, HeedOnward, SameIndexesOnward
<1> HIDE DEF n
<1>5. reply \in Plain
  <2>1. LastIndex(n) \in Nat
    BY <1>4, LastIndexType DEF Node
  <2> QED
    BY <1>2, <1>4, <2>1, AppendReplyType
<1> HIDE DEF reply
<1> QED
  BY <1>1, <1>4, <1>5, ReplyOnward

(* A refused log entry lowers no index of the server. *)
LEMMA HandleAppendEntriesRefusedOnward ==
    ASSUME Inv, NEW f \in Server, NEW s \in Server,
           HandleAppendEntriesRefused(f, s) \/ HandleAppendEntriesFails(f, s)
    PROVE  StepOnward
<1> DEFINE m == Head(net[f][s])
           n == Heed(node[s], m, f)
           merged(k) == Merge(n, m, k)
           truncated(k) == [merged(k) EXCEPT !.log =
                               SubSeq(@, 1, m.prevIndex + k - n.snapIndex)]
<1>1. /\ net[f][s] # << >> /\ m.type = "AppendEntries" /\ Consistent(n, m)
  BY Zenon DEF HandleAppendEntriesRefused, HandleAppendEntriesFails, Arrives
<1>2. m \in AppendEntriesRequest /\ m.term \in Nat
  BY <1>1, ArrivingMessage, MessageOfType
<1>3. PICK k \in 0 .. Len(m.entries) - 1 :
        \/ Handled(f, s, merged(k))
        \/ /\ ConflictAt(merged(k), m, k + 1)
           /\ Handled(f, s, truncated(k))
  BY DEF HandleAppendEntriesRefused, HandleAppendEntriesFails
<1>4. node[s] \in Node /\ node[s] \in NodeState
  BY Books, NodeOfServer DEF Node
<1> HIDE DEF m
<1>5. n \in Node /\ n \in NodeState /\ SameIndexes(node[s], n)
  BY <1>2, <1>4, HeedType, HeedOnward DEF Node
<1> HIDE DEF n
<1>6. k \in 0 .. Len(m.entries)
  <2>1. Len(m.entries) \in Nat
    BY <1>2 DEF AppendEntriesRequest
  <2> QED
    BY <2>1
<1> DEFINE a == merged(k)
           t == truncated(k)
<1>7. /\ a \in Node /\ a \in NodeState /\ a.snapIndex = n.snapIndex
      /\ SameIndexes(n, a)
  BY <1>1, <1>2, <1>5, <1>6, MergeType, MergeOnward DEF Node
<1> HIDE DEF merged
<1>8. ASSUME ConflictAt(a, m, k + 1)
      PROVE  t \in NodeState
  <2> DEFINE cut == m.prevIndex + k - n.snapIndex
             log == SubSeq(a.log, 1, cut)
  <2>1. a.log \in Seq(Entry) /\ n.snapIndex \in Nat /\ Len(a.log) \in Nat
    BY <1>5, <1>7, NodeFields
  <2>2. m.prevIndex \in Nat /\ n.snapIndex <= m.prevIndex
    BY <1>1, <1>2, <2>1 DEF AppendEntriesRequest, Consistent, Stored
  <2>3. m.prevIndex + (k + 1) <= n.snapIndex + Len(a.log)
    BY <1>7, <1>8 DEF ConflictAt, LastIndex
  <2>4. cut \in 0 .. Len(a.log)
    BY <1>6, <2>1, <2>2, <2>3
  <2> HIDE DEF cut, a
  <2>5. log \in Seq(Entry)
    BY <2>1, <2>4
  <2> HIDE DEF log
  <2>6. t = [a EXCEPT !.log = log]
    BY DEF a, log, cut
  <2> HIDE DEF t
  <2> QED
    BY <1>7, <2>5, <2>6, Zenon DEF NodeState
<1>9. SameIndexes(a, t)
  <2> HIDE DEF a
  <2>1. t = [a EXCEPT !.log = SubSeq(@, 1, m.prevIndex + k - n.snapIndex)]
    BY DEF a
  <2> HIDE DEF t
  <2> QED
    BY <1>7, <2>1 DEF NodeState, SameIndexes
<1>10. CASE Handled(f, s, a)
  <2> HIDE DEF a
  <2>1. Onward(node[s], a)
    BY <1>4, <1>5, <1>7, SameIndexesOnward DEF SameIndexes
  <2> QED
    BY <1>7, <1>10, <2>1, HandledOnward
<1>11. CASE ConflictAt(a, m, k + 1) /\ Handled(f, s, t)
  <2>1. t \in NodeState
    BY <1>8, <1>11
  <2> HIDE DEF a, t
  <2>2. Onward(node[s], t)
    BY <1>4, <1>5, <1>7, <1>9, SameIndexesOnward DEF SameIndexes
  <2> QED
    BY <1>11, <2>1, <2>2, BecomeStateOnward DEF Handled
<1> QED
  BY <1>3, <1>10, <1>11

-----------------------------------------------------------------------------
(* handle_append_entries() lowers no commit index: the log still has what  *)
(* was committed.                                                          *)
LEMMA HandleAppendEntriesOnward ==
    ASSUME Inv, NEW W \in World, SafeIn(W), NEW f \in Server,
           NEW s \in Server, HandleAppendEntries(f, s)
    PROVE  StepOnward
<1> DEFINE m == Head(net[f][s])
           h == Heed(node[s], m, f)
           n == Merge(h, m, Len(m.entries))
           commit == IF m.commit > n.commit
                     THEN MinOf(m.commit, LastIndex(n)) ELSE n.commit
           c == [n EXCEPT !.commit = commit]
           reply(r) == AppendReply(r, m, TRUE, Matched(r, m), 0)
<1>1. /\ net[f][s] # << >> /\ m.type = "AppendEntries" /\ Consistent(h, m)
      /\ m.term >= node[s].term /\ OfRequestTerm(m, Len(m.entries))
  BY Zenon DEF HandleAppendEntries, Arrives
<1>2. PICK limit \in Limits(c) :
        LET r == ApplyCommitted(c, limit) IN Handled(f, s, Send(r, f, reply(r)))
  BY DEF HandleAppendEntries
<1>3. m \in AppendEntriesRequest /\ m.term \in Nat
  BY <1>1, ArrivingMessage, MessageOfType
<1>4. node[s] \in Node /\ node[s] \in NodeState
  BY Books, NodeOfServer DEF Node
<1>5. PICK U \in World : Heeds(W, U, f, s, h)
  BY <1>1, HeedSafe
<1> HIDE DEF m
<1>6. SameIndexes(node[s], h)
  BY <1>4, HeedOnward
<1> HIDE DEF h
<1>7. /\ Vouched(U, f, m) /\ h.term = m.term /\ h.role = "Follower"
      /\ h \in Node /\ h \in NodeState /\ Upright(U, h) /\ Lawful(U)
  <2>1. /\ Vouched(U, f, m) /\ h.term = m.term /\ h.role = "Follower"
        /\ h \in Node /\ Upright(U, h) /\ Lawful(U)
    BY <1>5 DEF Heeds, Grows, m
  <2> QED
    BY <2>1 DEF Node
<1>8. Accepts(U, h, m)
  BY <1>1, <1>7 DEF Accepts, Vouched
<1>9. m.entries \in Seq(Entry) /\ m.prevIndex \in Nat /\ m.commit \in Nat
  BY <1>3 DEF AppendEntriesRequest
<1>10. /\ Len(m.entries) \in 0 .. Len(m.entries)
       /\ \A r : Matched(r, m) \in Nat
  BY <1>9 DEF Matched
<1>11. n \in Node /\ n \in NodeState /\ SameIndexes(h, n)
  BY <1>1, <1>3, <1>7, <1>10, MergeType, MergeOnward DEF Node
<1>12. n.commit <= LastIndex(n)
  BY <1>1, <1>3, <1>7, <1>8, <1>10, MergeUpright
  DEF Upright, Core, Committed
<1> HIDE DEF n
<1>13. n.commit \in Nat /\ LastIndex(n) \in Nat /\ n.snapIndex \in Nat
  BY <1>11, NodeFields, LastIndexType
<1>14. commit \in Nat /\ commit >= n.commit
  BY <1>9, <1>12, <1>13 DEF MinOf
<1> HIDE DEF commit
<1>15. c \in NodeState
  BY <1>11, <1>14, Zenon DEF NodeState
<1>16. /\ c.snapIndex = n.snapIndex /\ c.applied = n.applied
       /\ c.out = n.out /\ c.data = n.data /\ c.commit = commit
  BY <1>11 DEF NodeState
<1> HIDE DEF c
<1>17. c \in Node
  BY <1>11, <1>15, <1>16 DEF Node
<1>18. Onward(node[s], c)
  BY <1>6, <1>11, <1>13, <1>14, <1>16 DEF Onward, SameIndexes
<1>19. limit \in Nat
  BY <1>17, LimitsType
<1> DEFINE r == ApplyCommitted(c, limit)
<1>20. Handled(f, s, Send(r, f, reply(r)))
  BY <1>2
<1>21. r \in Node /\ Onward(c, r)
  BY <1>17, <1>19, ApplyCommittedType, ApplyCommittedOnward
<1> HIDE DEF r
<1>22. reply(r) \in Plain
  BY <1>3, <1>10, <1>21, AppendReplyType
<1> HIDE DEF reply
<1>23. Onward(node[s], r)
  BY <1>4, <1>17, <1>18, <1>21, OnwardTransitive
<1> QED
  BY <1>20, <1>21, <1>22, <1>23, ReplyOnward

(* handle_append_entries_response() lowers no index of the server. *)
LEMMA HandleAppendEntriesResponseOnward ==
    ASSUME Inv, NEW f \in Server, NEW s \in Server,
           HandleAppendEntriesResponse(f, s)
    PROVE  StepOnward
<1> DEFINE m == Head(net[f][s])
           match == [node[s].match EXCEPT ![f] = MaxOf(@, m.match)]
           acked == [node[s].acked EXCEPT ![f] = MaxOf(@, m.round)]
           n == [node[s] EXCEPT !.match[f] = MaxOf(@, m.match),
                                !.acked[f] = MaxOf(@, m.round)]
           p == [n EXCEPT !.next[f] = MaxOf(@, n.match[f] + 1)]
           next == [n.next EXCEPT ![f] = MaxOf(@, n.match[f] + 1)]
           result(r) == LET e == EvaluateReadBarriers(r)
                        IN  IF r.commit # p.commit /\ ApplyFailed(r) THEN r
                            ELSE IF NeedsMore(e, p, f) THEN SendAppendEntries(e, {f})
                            ELSE e
<1>1. net[f][s] # << >> /\ m.type = "AppendEntriesResponse"
  <2>1. Arrives(f, s, {"AppendEntriesResponse"})
    BY ZenonT(30) DEF HandleAppendEntriesResponse
  <2> QED
    BY <2>1 DEF Arrives
<1>2. PICK limit \in Limits(p) : Handled(f, s, result(AdvanceCommit(p, limit)))
  BY Zenon DEF HandleAppendEntriesResponse
<1>3. m.match \in Nat /\ m.round \in Nat
  <2>1. m \in AppendEntriesResponse
    BY <1>1, ArrivingMessage, MessageOfType
  <2> QED
    BY <2>1 DEF AppendEntriesResponse
<1>4. node[s] \in Node /\ node[s] \in NodeState
  BY Books, NodeOfServer DEF Node
<1> HIDE DEF m, result
<1>5. match \in [Server -> Nat] /\ acked \in [Server -> Nat]
  BY <1>3, <1>4, NodeFields DEF MaxOf
<1>6. n = [node[s] EXCEPT !.match = match, !.acked = acked]
  OBVIOUS
<1> HIDE DEF n, match, acked
<1>7. n \in NodeState
  BY <1>4, <1>5, <1>6, Zenon DEF NodeState
<1>8. /\ n.snapIndex = node[s].snapIndex /\ n.applied = node[s].applied
      /\ n.out = node[s].out /\ SameIndexes(node[s], n)
  BY <1>4, <1>6 DEF NodeState, SameIndexes
<1>9. next \in [Server -> Nat]
  BY <1>7, NodeFields DEF MaxOf
<1>10. p = [n EXCEPT !.next = next]
  OBVIOUS
<1> HIDE DEF p, next
<1>11. p \in NodeState
  BY <1>7, <1>9, <1>10, Zenon DEF NodeState
<1>12. /\ p.snapIndex = n.snapIndex /\ p.applied = n.applied
       /\ p.out = n.out /\ SameIndexes(n, p)
  BY <1>7, <1>10 DEF NodeState, SameIndexes
<1>13. p \in Node /\ Onward(node[s], p)
  BY <1>4, <1>8, <1>11, <1>12, SameIndexesOnward DEF Node, SameIndexes
<1>14. limit \in Nat
  BY <1>13, LimitsType
<1> DEFINE r == AdvanceCommit(p, limit)
           e == EvaluateReadBarriers(r)
           x == SendAppendEntries(e, {f})
<1>15. r \in Node /\ r \in NodeState /\ Onward(p, r)
  BY <1>13, <1>14, AdvanceCommitType, AdvanceCommitOnward DEF Node
<1> HIDE DEF r
<1>16. e \in Node /\ SameIndexes(r, e)
  BY <1>15, EvaluateReadBarriersType, EvaluateReadBarriersOnward
<1> HIDE DEF e
<1>17. x \in Node /\ SameIndexes(e, x)
  BY <1>16, SendAppendEntriesType, SendAppendEntriesOnward
<1>18. result(r) \in {r, e, x}
  BY DEF result, e
<1> HIDE DEF x
<1>19. result(r) \in Node /\ Onward(r, result(r))
  BY <1>15, <1>16, <1>17, <1>18, SameIndexesOnward DEF SameIndexes
<1>20. Handled(f, s, result(r))
  BY <1>2 DEF r
<1>21. Onward(node[s], r)
  BY <1>4, <1>13, <1>15, OnwardTransitive
<1>22. Onward(node[s], result(r))
  BY <1>4, <1>15, <1>19, <1>21, OnwardTransitive
<1> QED
  BY <1>19, <1>20, <1>22, HandledOnward

(* A rejected request lowers no index of the server. *)
LEMMA HandleAppendEntriesRejectionOnward ==
    ASSUME Inv, NEW f \in Server, NEW s \in Server,
           HandleAppendEntriesRejection(f, s)
    PROVE  StepOnward
<1> DEFINE n == node[s]
           next == [n.next EXCEPT ![f] = MaxOf(@ - 1, 1)]
           back == [n EXCEPT !.next[f] = MaxOf(@ - 1, 1)]
<1>1. PICK r \in {SendSnapshot(n, {f}), SendAppendEntries(back, {f})} :
        Handled(f, s, r)
  BY DEF HandleAppendEntriesRejection
<1>2. n \in Node /\ n \in NodeState
  BY Books, NodeOfServer DEF Node
<1> HIDE DEF n
<1>3. next \in [Server -> Nat]
  BY <1>2, NodeFields DEF MaxOf
<1>4. back = [n EXCEPT !.next = next]
  OBVIOUS
<1> HIDE DEF back, next
<1>5. back \in NodeState
  BY <1>2, <1>3, <1>4, Zenon DEF NodeState
<1>6. /\ back.snapIndex = n.snapIndex /\ back.applied = n.applied
      /\ back.out = n.out /\ SameIndexes(n, back)
  BY <1>2, <1>4 DEF NodeState, SameIndexes
<1>7. back \in Node
  BY <1>2, <1>5, <1>6 DEF Node
<1>8. r \in Node /\ SameIndexes(n, r)
  BY <1>1, <1>2, <1>6, <1>7, SendSnapshotType, SendAppendEntriesType,
     SendSnapshotOnward, SendAppendEntriesOnward DEF SameIndexes
<1>9. Onward(node[s], r)
  BY <1>2, <1>8, SameIndexesOnward DEF n
<1> QED
  BY <1>1, <1>8, <1>9, HandledOnward

(* handle_install_snapshot_response() lowers no index of the server. *)
LEMMA HandleInstallSnapshotResponseOnward ==
    ASSUME Inv, NEW f \in Server, NEW s \in Server,
           HandleInstallSnapshotResponse(f, s)
    PROVE  StepOnward
<1>1. PICK r \in {node[s], SendAppendEntries(node[s], {f})} : Handled(f, s, r)
  BY DEF HandleInstallSnapshotResponse
<1>2. node[s] \in Node
  BY Books, NodeOfServer
<1>3. r \in Node /\ Onward(node[s], r)
  BY <1>1, <1>2, SendAppendEntriesType, SendAppendEntriesOnward,
     SameIndexesOnward DEF SameIndexes
<1> QED
  BY <1>1, <1>3, HandledOnward

-----------------------------------------------------------------------------
(* A leader that has compacted nothing sends no snapshot. *)
LEMMA NoSnapshots ==
    ASSUME Inv, NEW W \in World, SafeIn(W), NEW f \in Server,
           NEW s \in Server, net[f][s] # << >>,
           Head(net[f][s]).type = "InstallSnapshot"
    PROVE  Threshold # 0
<1>1. Vouched(W, f, Head(net[f][s]))
  BY ArrivingVouched
<1> QED
  BY <1>1 DEF Vouched, VouchedSnapshot, Durable

(* A refused snapshot lowers no index of the server. *)
LEMMA HandleInstallSnapshotRefusedOnward ==
    ASSUME Inv, NEW W \in World, SafeIn(W), NEW f \in Server, NEW s \in Server,
           \/ HandleInstallSnapshotRefused(f, s)
           \/ HandleInstallSnapshotFails(f, s)
    PROVE  StepOnward
<1> DEFINE m == Head(net[f][s])
           h == Heed(node[s], m, f)
           n == [h EXCEPT !.snap = Nil]
           d == [n EXCEPT !.data = m.data]
<1>1. /\ net[f][s] # << >> /\ m.type = "InstallSnapshot"
  BY Zenon DEF HandleInstallSnapshotRefused, HandleInstallSnapshotFails, Arrives
<1>2. PICK r \in {h, n, d} : Handled(f, s, Send(r, f, SnapshotReply(r, FALSE)))
  <2>1. CASE HandleInstallSnapshotRefused(f, s)
    BY <2>1, Zenon DEF HandleInstallSnapshotRefused
  <2>2. CASE HandleInstallSnapshotFails(f, s)
    BY <2>2, Zenon DEF HandleInstallSnapshotFails
  <2> QED
    BY <2>1, <2>2
<1>3. /\ m \in InstallSnapshotRequest /\ node[s] \in Node
      /\ h \in Node /\ h \in NodeState
  BY <1>1, HeedArriving
<1>4. Threshold # 0
  BY <1>1, NoSnapshots
<1>5. m.data \in SUBSET Value
  BY <1>3 DEF InstallSnapshotRequest
<1> HIDE DEF m
<1>6. SameIndexes(node[s], h)
  BY <1>3, HeedOnward DEF Node
<1> HIDE DEF h
<1>7. n \in Node /\ d \in Node
  BY <1>3, <1>5, WithoutSnapshot
<1>8. n.commit = h.commit /\ n.snapIndex = h.snapIndex
  BY <1>3 DEF NodeState
<1>9. n \in NodeState
  BY <1>7 DEF Node
<1> HIDE DEF n
<1>10. d.commit = n.commit /\ d.snapIndex = n.snapIndex
  BY <1>9 DEF NodeState
<1> HIDE DEF d
<1>11. r \in Node /\ r.commit = h.commit /\ r.snapIndex = h.snapIndex
  BY <1>2, <1>3, <1>7, <1>8, <1>10
<1>12. node[s].commit \in Nat /\ node[s].snapIndex \in Nat
  BY <1>3, NodeFields DEF Node
<1>13. Onward(node[s], r)
  BY <1>4, <1>6, <1>11, <1>12 DEF Onward, SameIndexes
<1>14. SnapshotReply(r, FALSE) \in Plain
  BY <1>11, SnapshotReplyType
<1> QED
  BY <1>2, <1>11, <1>13, <1>14, ReplyOnward

(* A chunk of a snapshot lowers no index of the server. *)
LEMMA HandleInstallSnapshotChunkOnward ==
    ASSUME Inv, NEW f \in Server, NEW s \in Server,
           HandleInstallSnapshotChunk(f, s)
    PROVE  StepOnward
<1> DEFINE m == Head(net[f][s])
           h == Heed(node[s], m, f)
           old == Assembling(node[s], m, f)
           snap == [old EXCEPT !.buffer = Append(@, m.data)]
           r == [h EXCEPT !.snap = snap]
<1>1. net[f][s] # << >> /\ m.type = "InstallSnapshot"
  BY Zenon DEF HandleInstallSnapshotChunk, Arrives
<1>2. Handled(f, s, r)
  BY Zenon DEF HandleInstallSnapshotChunk
<1>3. /\ m \in InstallSnapshotRequest /\ node[s] \in Node
      /\ h \in Node /\ h \in NodeState
  BY <1>1, HeedArriving
<1>4. old \in PendingSnapshot
  <2>1. h.snap \in PendingSnapshot \cup {Nil}
    BY <1>3, NodeFields
  <2>2. [index |-> m.index, term |-> m.indexTerm, buffer |-> << >>]
          \in PendingSnapshot
    BY <1>3 DEF InstallSnapshotRequest, PendingSnapshot
  <2>3. \/ old = [index |-> m.index, term |-> m.indexTerm, buffer |-> << >>]
        \/ old = h.snap /\ h.snap # Nil
    BY DEF Assembling
  <2> QED
    BY <2>1, <2>2, <2>3
<1>5. m.data \in SUBSET Value
  BY <1>3 DEF InstallSnapshotRequest
<1>6. SameIndexes(node[s], h)
  BY <1>3, HeedOnward DEF Node
<1> HIDE DEF m, h, old
<1>7. snap \in PendingSnapshot
  BY <1>4, <1>5 DEF PendingSnapshot
<1> HIDE DEF snap
<1>8. r \in NodeState
  BY <1>3, <1>7, Zenon DEF NodeState
<1>9. SameIndexes(h, r)
  BY <1>3 DEF NodeState, SameIndexes
<1> HIDE DEF r
<1>10. Onward(node[s], r)
  BY <1>3, <1>6, <1>9, SameIndexesOnward DEF SameIndexes
<1> QED
  BY <1>2, <1>8, <1>10, BecomeStateOnward DEF Handled

(* The boundary of a snapshot is never behind what is compacted. *)
LEMMA HandleInstallSnapshotOnward ==
    ASSUME Inv, NEW W \in World, SafeIn(W), NEW f \in Server, NEW s \in Server,
           HandleInstallSnapshot(f, s)
    PROVE  StepOnward
<1> DEFINE m == Head(net[f][s])
           h == Heed(node[s], m, f)
           n == Restored(h, m)
           i == InstallBoundary(n, m.index, m.indexTerm)
           r == [i EXCEPT !.pending = {p \in @ : p.index > m.index}]
           e == EvaluateReadBarriers(r)
<1>1. net[f][s] # << >> /\ m.type = "InstallSnapshot"
  BY Zenon DEF HandleInstallSnapshot, Arrives
<1>2. /\ Handled(f, s, Send(e, f, SnapshotReply(r, TRUE)))
      /\ Fits(node[s], m, f)
  BY Zenon DEF HandleInstallSnapshot
<1>3. /\ m \in InstallSnapshotRequest /\ node[s] \in Node
      /\ h \in Node /\ h \in NodeState /\ h.applied = node[s].applied
  BY <1>1, HeedArriving
<1>4. /\ m.index \in Nat /\ m.indexTerm \in Nat /\ m.data \in SUBSET Value
  BY <1>3 DEF InstallSnapshotRequest
<1>5. Threshold # 0
  BY <1>1, NoSnapshots
<1>6. m.index >= h.applied
  BY <1>2, <1>3 DEF Fits
<1> HIDE DEF m
<1>7. SameIndexes(node[s], h)
  BY <1>3, HeedOnward DEF Node
<1> HIDE DEF h
<1>8. /\ h.snapIndex <= h.applied /\ h.snapIndex \in Nat /\ h.applied \in Nat
      /\ h.commit \in Nat
  BY <1>3, NodeFields DEF Node
<1>9. n \in Node /\ n.snapIndex = h.snapIndex
  BY <1>3, <1>4, WithoutSnapshot DEF Restored
<1>10. n.commit = h.commit
  BY <1>3 DEF Restored, NodeState
<1> HIDE DEF n
<1>11. n \in NodeState
  BY <1>9 DEF Node
<1>12. i \in Node
  BY <1>4, <1>6, <1>8, <1>9, InstallBoundaryType
<1>13. i.snapIndex = m.index /\ i.commit = MaxOf(n.commit, m.index)
  BY <1>11 DEF InstallBoundary, NodeState
<1> HIDE DEF i
<1>14. i \in NodeState
  BY <1>12 DEF Node
<1>15. {p \in i.pending : p.index > m.index} \in SUBSET PendingProposal
  BY <1>14, NodeFields
<1>16. r \in NodeState
  BY <1>14, <1>15, Zenon DEF NodeState
<1>17. /\ r.snapIndex = i.snapIndex /\ r.applied = i.applied
       /\ r.out = i.out /\ r.commit = i.commit
  BY <1>14 DEF NodeState
<1> HIDE DEF r
<1>18. r \in Node
  BY <1>12, <1>16, <1>17 DEF Node
<1>19. e \in Node /\ SameIndexes(r, e)
  BY <1>16, <1>18, EvaluateReadBarriersType, EvaluateReadBarriersOnward
<1> HIDE DEF e
<1>20. e.snapIndex = m.index /\ e.commit = MaxOf(h.commit, m.index)
  BY <1>10, <1>13, <1>17, <1>19 DEF SameIndexes
<1>21. Onward(node[s], e)
  BY <1>4, <1>5, <1>6, <1>7, <1>8, <1>20 DEF Onward, SameIndexes, MaxOf
<1>22. SnapshotReply(r, TRUE) \in Plain
  BY <1>18, SnapshotReplyType
<1> QED
  BY <1>2, <1>19, <1>21, <1>22, ReplyOnward

-----------------------------------------------------------------------------
(* A server that crashes or starts keeps its log, its boundary and its     *)
(* store.                                                                  *)
SameDisk(n, r) == r.log = n.log /\ r.snapIndex = n.snapIndex /\ r.data = n.data

(* No handler lowers an index. *)
LEMMA HandleOnward ==
    ASSUME Inv, NEW W \in World, SafeIn(W), NEW f \in Server,
           NEW s \in Server, Handle(f, s)
    PROVE  StepOnward
BY HandleRequestVoteOnward, StepDownOnward, HandleOutdatedOnward,
   HandleRequestVoteResponseOnward, HandleStaleOnward,
   HandleAppendEntriesInconsistentOnward, HandleAppendEntriesRefusedOnward,
   HandleAppendEntriesOnward, HandleAppendEntriesResponseOnward,
   HandleAppendEntriesRejectionOnward, HandleInstallSnapshotRefusedOnward,
   HandleInstallSnapshotChunkOnward, HandleInstallSnapshotOnward,
   HandleInstallSnapshotResponseOnward, Zenon DEF Handle

(* Every step is onward for the running servers, and leaves the disk of    *)
(* one that crashes or starts as it is.                                    *)
LEMMA NextOnward ==
    ASSUME Inv, NEW W \in World, SafeIn(W), Next
    PROVE  \A t \in Server : \/ Onward(node[t], node'[t])
                             \/ SameDisk(node[t], node'[t])
<1> DEFINE Goal == \A t \in Server : \/ Onward(node[t], node'[t])
                                     \/ SameDisk(node[t], node'[t])
<1>1. StepOnward => Goal
  BY DEF StepOnward
<1>2. ASSUME NEW s \in Server,
             \/ TickIdle(s) \/ TickCompactionFails(s) \/ TickHeartbeat(s)
             \/ TickElection(s) \/ TickElectionFails(s)
             \/ (\E v \in Value : Propose(s, v)) \/ ReadIndex(s)
      PROVE  Goal
  <2>1. StepOnward
    BY <1>2, TickIdleOnward, TickCompactionFailsOnward, TickElectionOnward,
       TickElectionFailsOnward, ProposeOnward, ReadIndexOnward, Zenon
  <2> QED
    BY <1>1, <2>1
<1>3. ASSUME NEW s \in Server, Crash(s) \/ Restart(s)
      PROVE  Goal
  <2>1. /\ node'[s].log = node[s].log /\ node'[s].snapIndex = node[s].snapIndex
        /\ \A t \in Server \ {s} : node'[t] = node[t]
    BY <1>3, CrashRestart
  <2>2. node'[s].data = node[s].data
    BY <1>3, StartFields
  <2> QED
    BY <2>1, <2>2 DEF SameDisk
<1>4. ASSUME NEW f \in Server, NEW s \in Server, Handle(f, s)
      PROVE  Goal
  BY <1>1, <1>4, HandleOnward
<1>5. ASSUME NEW f \in Server, NEW s \in Server, Lose(f, s) \/ Resend(f, s)
      PROVE  Goal
  BY <1>5 DEF Lose, Resend, SameDisk
<1> HIDE DEF Goal
<1>6. Goal
  BY <1>2, <1>3, <1>4, <1>5, Zenon DEF Next
<1> QED
  BY <1>6 DEF Goal

(* truncate_suffix(): no step of any group removes or changes an entry up  *)
(* to the commit index of its server, although the code truncates without  *)
(* looking at that index.                                                  *)
THEOREM CommittedEntriesStay == Spec => CommittedStays
<1> DEFINE Stays == \A s \in Server :
              \A k \in node'[s].snapIndex + 1 .. node[s].commit :
                /\ k <= LastIndex(node'[s])
                /\ node'[s].log[k - node'[s].snapIndex]
                     = node[s].log[k - node[s].snapIndex]
<1>1. Inv /\ Inv' /\ LogInv /\ SafetyInv /\ [Next]_vars => [Stays]_vars
  <2> SUFFICES ASSUME Inv, Inv', LogInv, SafetyInv, Next,
                      NEW s \in Server,
                      NEW k \in node'[s].snapIndex + 1 .. node[s].commit
               PROVE  /\ k <= LastIndex(node'[s])
                      /\ node'[s].log[k - node'[s].snapIndex]
                           = node[s].log[k - node[s].snapIndex]
    OBVIOUS
  <2> DEFINE n == node[s]
             r == node'[s]
  <2>1. PICK W \in World : SafeIn(W)
    BY DEF SafetyInv
  <2>2. n \in NodeState /\ Committed(W, n)
    BY <2>1, NodeUpright DEF Upright, Core
  <2>3. PICK U \in World, v \in Server : Extends(W, U, v) /\ SafeIn(U)'
    BY <2>1, NextSafe DEF SafeAfter
  <2>4. r \in NodeState /\ Committed(U, r)
    <3>1. Upright(U, node[s])'
      BY <2>3 DEF SafeIn
    <3>2. r \in NodeState
      BY DEF Inv, TypeInv, TypeOK
    <3> QED
      BY <3>1, <3>2 DEF Upright, Core
  <2>5. Onward(n, r) \/ SameDisk(n, r)
    BY <2>1, NextOnward
  <2>6. k \in r.snapIndex + 1 .. n.commit
    OBVIOUS
  <2> HIDE DEF n, r
  <2>7. /\ n.snapIndex \in Nat /\ n.commit \in Nat
        /\ r.snapIndex \in Nat /\ r.commit \in Nat
    BY <2>2, <2>4, NodeFields
  <2>8. r.snapIndex >= n.snapIndex
    BY <2>5, <2>7 DEF Onward, SameDisk
  <2>9. k \in Nat /\ k > r.snapIndex /\ k > n.snapIndex /\ k <= n.commit
    BY ONLY <2>6, <2>7, <2>8
  <2>10. /\ k <= LastIndex(n) /\ k <= Len(W.chosen)
         /\ n.log[k - n.snapIndex] = W.chosen[k]
    BY <2>2, <2>9, CommittedIsChosen
  <2>11. CASE SameDisk(n, r)
    BY <2>10, <2>11 DEF SameDisk, LastIndex, n, r
  <2>12. CASE Onward(n, r)
    <3>1. k <= r.commit
      BY <2>7, <2>9, <2>12 DEF Onward
    <3>2. k <= LastIndex(r) /\ r.log[k - r.snapIndex] = U.chosen[k]
      BY <2>4, <2>9, <3>1, CommittedIsChosen
    <3>3. k # 0
      BY <2>7, <2>9
    <3>4. U.chosen[k] = W.chosen[k]
      BY <2>3, <2>9, <2>10, <3>3, ChosenStays
    <3> QED
      BY <2>10, <3>2, <3>4 DEF n, r
  <2> QED
    BY <2>5, <2>11, <2>12
<1>2. Spec => [][Stays]_vars
  BY <1>1, SafetyInvHolds, PTL DEF Spec
<1> QED
  BY <1>2 DEF CommittedStays

-----------------------------------------------------------------------------
(* Reads.  A leader whose round a quorum has answered is not overtaken,    *)
(* and has applied an entry of its own term, its no-op of index N.         *)

(* n has the entries of its own term from index N on. *)
Settled(n, N) ==
    /\ N <= LastIndex(n) /\ n.applied <= n.commit /\ n.commit <= LastIndex(n)
    /\ \A k \in N .. LastIndex(n) : Stored(n, k) => TermAt(n, k) = n.term

(* Whoever answered a round of n has its log up to N. *)
Counted(n, N) ==
    /\ n.match[n.id] >= N
    /\ \A v \in Server : /\ n.match[v] <= LastIndex(n) /\ n.acked[v] <= n.round
                         /\ n.acked[v] >= 1 => n.match[v] >= N

(* What a quorum has is committed. *)
Reached(n, N) ==
    HasQuorum(1 + Cardinality({v \in Peers(n) : n.match[v] >= N}))
      => n.commit >= N

(* The reads that wait are among B and wait for a round that was started. *)
Awaited(n, B) ==
    \A b \in n.barriers : b \in B /\ 1 <= b.round /\ b.round <= n.round

(* A read that waits for less than N waits until N is applied. *)
Timely(n, N) ==
    \A b \in n.barriers : b.target >= N \/ n.commit < N \/ n.applied >= N

(* Requests of rounds up to R that carry the log up to N at least, and     *)
(* what is no request and claims nothing.                                  *)
Requests(N, R) ==
    {m \in Message :
       /\ m.type = "AppendEntries" =>
            m.round <= R /\ m.prevIndex + Len(m.entries) >= N
       /\ m.type = "AppendEntriesResponse" => ~m.success}

(* Commands are reported that are applied, and a read is answered after a  *)
(* quorum answered its round, from a store that has N.                     *)
Tells(n, N, B) ==
    \A x \in n.told :
      /\ x.type = "Applied" => x.term = n.term /\ x.index <= n.applied
      /\ x.type = "ReadServed" =>
           /\ n.applied >= N /\ x.data = n.data
           /\ \E b \in B : x.need = b.need /\ QuorumAcknowledged(n, b.round)

(* What a leader is in the middle of a step, too. *)
Steady(n, N, B) ==
    /\ Settled(n, N) /\ Counted(n, N) /\ Awaited(n, B)
    /\ n.out \in [Server -> Seq(Requests(N, n.round))] /\ Tells(n, N, B)

-----------------------------------------------------------------------------
(* The invariant. *)

(* A success of a round of the leader of term T. *)
Confirms(m, T) == m.type = "AppendEntriesResponse" /\ m.success /\ m.term = T

(* The requests of leader s and the answers to them reach N. *)
RequestsReach(s, N) ==
    \A t \in Server : \A i \in DOMAIN net[s][t] :
      LET m == net[s][t][i]
      IN  m.type = "AppendEntries" /\ m.term = node[s].term =>
            m.round <= node[s].round /\ m.prevIndex + Len(m.entries) >= N
AnswersReach(s, N) ==
    \A t \in Server : \A i \in DOMAIN net[t][s] :
      Confirms(net[t][s][i], node[s].term) =>
        net[t][s][i].round <= node[s].round /\ net[t][s][i].match >= N

(* A quorum has gone on to later terms without having answered round R. *)
Overtaken(s, R) ==
    \E V \in SUBSET Server :
      /\ HasQuorum(Cardinality(V))
      /\ \A v \in V :
           /\ node[v].term > node[s].term /\ node[s].acked[v] < R
           /\ \A i \in DOMAIN net[v][s] :
                Confirms(net[v][s][i], node[s].term) => net[v][s][i].round < R

(* The commands of need were acknowledged by leaders of terms up to T. *)
Behind(need, T) ==
    \A x \in need : \E c \in Completed : c.command = x /\ c.term <= T

(* A leader has an index N from which on the log is of its term; it has    *)
(* applied what it acknowledged, and each read that waits is overtaken and *)
(* never answered, or needs only what leaders up to it have acknowledged.  *)
Leading(s) ==
    /\ \E N \in Nat : /\ Steady(node[s], N, node[s].barriers)
                      /\ Reached(node[s], N) /\ Timely(node[s], N)
                      /\ RequestsReach(s, N) /\ AnswersReach(s, N)
    /\ \A c \in Completed : c.term = node[s].term => c.index <= node[s].applied
    /\ \A b \in node[s].barriers :
         Overtaken(s, b.round) \/ Behind(b.need, node[s].term)

(* Only the leader of a term is answered, and answers clients, in it. *)
TermsElected ==
    /\ \A f, s \in Server : \A i \in DOMAIN net[f][s] :
         Confirms(net[f][s][i], net[f][s][i].term) =>
           \E e \in elected : e[2] = net[f][s][i].term
    /\ \A c \in Completed : \E e \in elected : e[2] = c.term

(* The inductive invariant of reads. *)
ReadInv ==
    /\ \A s \in Server : node[s].role = "Leader" => Leading(s)
    /\ TermsElected /\ (Durable => ReadsSeeAcknowledged)

(* A step within a node that keeps it steady. *)
Keeps(n, r, N, B) ==
    /\ Steady(r, N, B)
    /\ Reached(n, N) => Reached(r, N)
    /\ Timely(n, N) => Timely(r, N)

(* r has the log, the store, the debts and the answered rounds of n. *)
SameReads(n, r) ==
    /\ SameCore(n, r) /\ r.applied = n.applied /\ r.data = n.data
    /\ r.acked = n.acked /\ r.barriers = n.barriers /\ r.told = n.told

(* A node that differs only in what it sends and what its peers have. *)
LEMMA SameReadsSteady ==
    ASSUME NEW n \in NodeState, NEW N \in Nat, NEW B, Steady(n, N, B),
           NEW r \in NodeState, SameReads(n, r), r.round >= n.round,
           r.out \in [Server -> Seq(Requests(N, r.round))],
           \A v \in Server : /\ r.match[v] >= n.match[v]
                             /\ r.match[v] <= LastIndex(n)
    PROVE  /\ Steady(r, N, B) /\ (Timely(n, N) => Timely(r, N))
           /\ LastIndex(r) = LastIndex(n)
<1>1. /\ LastIndex(r) = LastIndex(n)
      /\ \A k : TermAt(r, k) = TermAt(n, k) /\ Stored(r, k) = Stored(n, k)
  BY SameLast DEF SameReads, SameCore
<1>2. /\ n.round \in Nat /\ r.round \in Nat /\ n.match \in [Server -> Nat]
      /\ r.match \in [Server -> Nat] /\ n.acked \in [Server -> Nat]
      /\ n.id \in Server /\ n.barriers \in SUBSET ReadBarrier
      /\ LastIndex(n) \in Nat
  BY NodeFields, LastIndexType
<1>3. Settled(r, N)
  BY <1>1 DEF Steady, Settled, SameReads, SameCore
<1>4. Counted(r, N)
  <2>1. r.match[r.id] >= N
    BY <1>2 DEF Steady, Counted, SameReads, SameCore
  <2>2. ASSUME NEW v \in Server
        PROVE  /\ r.match[v] <= LastIndex(r) /\ r.acked[v] <= r.round
               /\ r.acked[v] >= 1 => r.match[v] >= N
    <3>1. /\ n.acked[v] <= n.round
          /\ n.acked[v] >= 1 => n.match[v] >= N
          /\ r.acked[v] = n.acked[v]
      BY DEF Steady, Counted, SameReads
    <3>2. /\ n.acked[v] \in Nat /\ n.match[v] \in Nat /\ r.match[v] \in Nat
          /\ r.match[v] >= n.match[v] /\ r.match[v] <= LastIndex(n)
      BY <1>2
    <3>3. LastIndex(r) = LastIndex(n)
      BY <1>1
    <3> QED
      BY <1>2, <3>1, <3>2, <3>3
  <2> QED
    BY <2>1, <2>2 DEF Counted
<1>5. Awaited(r, B)
  <2> SUFFICES ASSUME NEW b \in n.barriers
               PROVE  b \in B /\ 1 <= b.round /\ b.round <= r.round
    BY DEF Awaited, SameReads
  <2>1. b.round \in Nat
    BY <1>2 DEF ReadBarrier
  <2> QED
    BY <1>2, <2>1 DEF Steady, Awaited
<1>6. Tells(r, N, B)
  <2>1. \A R : QuorumAcknowledged(r, R) = QuorumAcknowledged(n, R)
    BY DEF QuorumAcknowledged, Peers, SameReads, SameCore
  <2> QED
    BY <2>1 DEF Steady, Tells, SameReads, SameCore
<1>7. Timely(n, N) => Timely(r, N)
  BY DEF Timely, SameReads, SameCore
<1> QED
  BY <1>1, <1>3, <1>4, <1>5, <1>6, <1>7 DEF Steady

(* What reached a quorum still has. *)
LEMMA SameReached ==
    ASSUME NEW n, NEW N, NEW r, r.id = n.id, r.commit = n.commit,
           n.commit >= N \/ \A v \in Server : r.match[v] >= N <=> n.match[v] >= N
    PROVE  Reached(n, N) => Reached(r, N)
<1>1. CASE n.commit >= N
  BY <1>1 DEF Reached
<1>2. CASE \A v \in Server : r.match[v] >= N <=> n.match[v] >= N
  <2>1. {v \in Peers(r) : r.match[v] >= N} = {v \in Peers(n) : n.match[v] >= N}
    BY <1>2 DEF Peers
  <2> QED
    BY <2>1 DEF Reached
<1> QED
  BY <1>1, <1>2

(* Requests of one more round are requests. *)
LEMMA RequestsGrow ==
    ASSUME NEW N, NEW R \in Nat, NEW Q \in Nat, R <= Q,
           NEW out \in [Server -> Seq(Requests(N, R))]
    PROVE  out \in [Server -> Seq(Requests(N, Q))]
<1>1. ASSUME NEW m \in Requests(N, R) PROVE m \in Requests(N, Q)
  <2>1. m \in Message
    BY DEF Requests
  <2>2. m.type = "AppendEntries" => m.round \in Nat
    BY <2>1, MessageOfType DEF AppendEntriesRequest
  <2> QED
    BY <2>1, <2>2 DEF Requests
<1>2. \A q \in Seq(Requests(N, R)) : q \in Seq(Requests(N, Q))
  BY <1>1
<1> QED
  BY <1>2

(* The chunks of a snapshot are no requests. *)
LEMMA SnapshotOfRequests ==
    ASSUME NEW n \in NodeState, Stored(n, n.applied), NEW N, NEW R
    PROVE  SnapshotOf(n) \in Seq(Requests(N, R))
<1>1. SnapshotOf(n) \in Seq(Plain) /\ Chunks \in Nat
  BY SnapshotOfType, ThresholdAssumption
<1>2. DOMAIN SnapshotOf(n) = 1 .. Chunks
  BY DEF SnapshotOf
<1>3. ASSUME NEW c \in 1 .. Chunks PROVE SnapshotOf(n)[c] \in Requests(N, R)
  <2>1. SnapshotOf(n)[c] \in Message
    BY <1>1, <1>2 DEF Plain
  <2>2. SnapshotOf(n)[c].type = "InstallSnapshot"
    BY DEF SnapshotOf
  <2> QED
    BY <2>1, <2>2 DEF Requests
<1> QED
  BY <1>1, <1>2, <1>3 DEF SnapshotOf

(* send_snapshot() counts a peer only for what is applied, which is        *)
(* committed.                                                              *)
LEMMA SendSnapshotSteady ==
    ASSUME NEW n \in Node, NEW N \in Nat, NEW B, Steady(n, N, B), NEW S
    PROVE  /\ Keeps(n, SendSnapshot(n, S), N, B)
           /\ SameReads(n, SendSnapshot(n, S))
           /\ SendSnapshot(n, S).round = n.round
<1> DEFINE r == SendSnapshot(n, S)
<1>1. CASE ~Stored(n, n.applied)
  BY <1>1 DEF SendSnapshot, Keeps, SameReads, SameCore
<1>2. CASE Stored(n, n.applied)
  <2>1. /\ n \in NodeState /\ n.match \in [Server -> Nat] /\ n.applied \in Nat
        /\ n.commit \in Nat /\ n.round \in Nat /\ LastIndex(n) \in Nat
    BY NodeFields, LastIndexType DEF Node
  <2>2. r \in NodeState
    BY SendSnapshotType DEF Node
  <2>3. /\ SameReads(n, r) /\ r.round = n.round
        /\ r.out = [s \in Server |-> IF s \in S THEN n.out[s] \o SnapshotOf(n)
                                                ELSE n.out[s]]
        /\ r.match = [s \in Server |-> IF s \in S
                                       THEN MaxOf(n.match[s], n.applied)
                                       ELSE n.match[s]]
    BY <1>2, <2>1 DEF NodeState, SendSnapshot, SameReads, SameCore
  <2> HIDE DEF r
  <2>4. r.out \in [Server -> Seq(Requests(N, r.round))]
    <3>1. SnapshotOf(n) \in Seq(Requests(N, n.round))
      BY <1>2, <2>1, SnapshotOfRequests
    <3>2. n.out \in [Server -> Seq(Requests(N, n.round))]
      BY DEF Steady
    <3> DEFINE Q == Requests(N, n.round)
    <3> HIDE DEF Q
    <3>3. ASSUME NEW s \in Server
          PROVE  (IF s \in S THEN n.out[s] \o SnapshotOf(n) ELSE n.out[s])
                   \in Seq(Q)
      <4>1. n.out[s] \in Seq(Q) /\ SnapshotOf(n) \in Seq(Q)
        BY <3>1, <3>2 DEF Q
      <4> QED
        BY <4>1
    <3>4. r.out \in [Server -> Seq(Q)]
      BY <2>3, <3>3
    <3> QED
      BY <2>3, <3>4 DEF Q
  <2>5. n.applied <= n.commit /\ n.commit <= LastIndex(n)
    BY DEF Steady, Settled
  <2>6. ASSUME NEW v \in Server
        PROVE  /\ r.match[v] >= n.match[v] /\ r.match[v] <= LastIndex(n)
               /\ n.applied < N => (r.match[v] >= N <=> n.match[v] >= N)
    <3>1. n.match[v] \in Nat /\ n.match[v] <= LastIndex(n)
      BY <2>1 DEF Steady, Counted
    <3>2. r.match[v] \in {n.match[v], MaxOf(n.match[v], n.applied)}
      BY <2>3
    <3> QED
      BY <2>1, <2>5, <3>1, <3>2 DEF MaxOf
  <2>7. Steady(r, N, B) /\ (Timely(n, N) => Timely(r, N))
    <3>1. r.round >= n.round
      BY <2>1, <2>3
    <3> QED
      BY <2>1, <2>2, <2>3, <2>4, <2>6, <3>1, SameReadsSteady
  <2>8. Reached(n, N) => Reached(r, N)
    <3>1. r.id = n.id /\ r.commit = n.commit
      BY <2>3 DEF SameReads, SameCore
    <3>2. n.commit >= N \/ n.applied < N
      BY <2>1, <2>5
    <3> QED
      BY <2>6, <3>1, <3>2, SameReached
  <2> QED
    BY <2>3, <2>7, <2>8 DEF Keeps, r
<1> QED
  BY <1>1, <1>2

(* send_append_entries(): a request carries the log to its end. *)
LEMMA AppendEntriesToRequests ==
    ASSUME NEW n \in NodeState, NEW s \in Server, Stored(n, n.next[s] - 1),
           NEW N \in Nat, N <= LastIndex(n)
    PROVE  AppendEntriesTo(n, s) \in Requests(N, n.round)
<1> DEFINE m == AppendEntriesTo(n, s)
           e == SubSeq(n.log, n.next[s] - n.snapIndex, Len(n.log))
<1>1. m \in Message
  BY AppendEntriesToType DEF Plain
<1>2. /\ m.type = "AppendEntries" /\ m.round = n.round
      /\ m.prevIndex = n.next[s] - 1 /\ m.entries = e
  BY DEF AppendEntriesTo
<1>3. /\ n.log \in Seq(Entry) /\ n.snapIndex \in Nat /\ n.next[s] \in Nat
      /\ n.round \in Nat /\ LastIndex(n) = n.snapIndex + Len(n.log)
      /\ Len(n.log) \in Nat
  BY NodeFields DEF LastIndex
<1>4. n.next[s] - 1 >= n.snapIndex /\ n.next[s] - 1 <= LastIndex(n)
  BY <1>3 DEF Stored
<1> DEFINE i == n.next[s] - n.snapIndex
<1>5. i \in 1 .. Len(n.log) + 1 /\ n.next[s] = n.snapIndex + i
  BY <1>3, <1>4, SMTT(30)
<1>6. m.entries = SubSeq(n.log, i, Len(n.log))
  BY <1>2
<1> HIDE DEF m, e, i
<1>8. Len(m.entries) = Len(n.log) - i + 1
  BY <1>3, <1>5, <1>6, SMTT(30)
<1>9. m.prevIndex + Len(m.entries) = LastIndex(n)
  <2>1. m.prevIndex = n.next[s] - 1 /\ i \in Int
    BY <1>2, <1>5
  <2>2. /\ n.snapIndex \in Nat /\ n.next[s] \in Nat /\ Len(n.log) \in Nat
        /\ LastIndex(n) = n.snapIndex + Len(n.log)
    BY <1>3
  <2> QED
    BY ONLY <1>5, <1>8, <2>1, <2>2, SMTT(30)
<1> QED
  BY <1>1, <1>2, <1>3, <1>9 DEF Requests, m

(* send_append_entries() *)
LEMMA SendAppendEntriesSteady ==
    ASSUME NEW n \in Node, NEW N \in Nat, NEW B, Steady(n, N, B), NEW S
    PROVE  /\ Keeps(n, SendAppendEntries(n, S), N, B)
           /\ SameReads(n, SendAppendEntries(n, S))
           /\ SendAppendEntries(n, S).round = n.round
<1> DEFINE ready == {s \in S : Stored(n, n.next[s] - 1)}
           behind == {s \in S : n.next[s] <= n.snapIndex}
           out == [s \in Server |-> IF s \in ready
                     THEN Append(n.out[s], AppendEntriesTo(n, s))
                     ELSE n.out[s]]
           a == [n EXCEPT !.out = out]
<1>1. /\ n \in NodeState /\ n.out \in [Server -> Seq(Plain)]
      /\ n.out \in [Server -> Seq(Requests(N, n.round))]
      /\ N <= LastIndex(n)
  BY DEF Node, Steady, Settled
<1>2. /\ out \in [Server -> Seq(Requests(N, n.round))]
      /\ out \in [Server -> Seq(Plain)]
  <2>1. ASSUME NEW s \in Server
        PROVE  out[s] \in Seq(Requests(N, n.round)) /\ out[s] \in Seq(Plain)
    <3>1. CASE s \in ready
      <4>1. /\ AppendEntriesTo(n, s) \in Requests(N, n.round)
            /\ AppendEntriesTo(n, s) \in Plain
        BY <1>1, <3>1, AppendEntriesToRequests, AppendEntriesToType
      <4> QED
        BY <1>1, <3>1, <4>1
    <3> QED
      BY <1>1, <3>1
  <2> QED
    BY <2>1
<1>3. SendAppendEntries(n, S) = SendSnapshot(a, behind)
  BY DEF SendAppendEntries
<1> HIDE DEF ready, behind, out
<1>4. a \in NodeState
  BY <1>1, <1>2, PlainSequence, Zenon DEF NodeState
<1>5. /\ SameReads(n, a) /\ a.out = out /\ a.round = n.round
      /\ a.match = n.match
  BY <1>1 DEF NodeState, SameReads, SameCore
<1> HIDE DEF a
<1>6. a \in Node
  BY <1>2, <1>4, <1>5 DEF Node, SameReads, SameCore
<1>7. /\ n.match \in [Server -> Nat] /\ n.round \in Nat
      /\ \A v \in Server : n.match[v] <= LastIndex(n)
  BY <1>1, NodeFields DEF Steady, Counted
<1>8. Steady(a, N, B) /\ (Timely(n, N) => Timely(a, N))
  <2>1. \A v \in Server : a.match[v] >= n.match[v] /\ a.match[v] <= LastIndex(n)
    BY <1>5, <1>7
  <2>2. a.round >= n.round /\ a.out \in [Server -> Seq(Requests(N, a.round))]
    BY <1>2, <1>5, <1>7
  <2> QED
    BY <1>1, <1>4, <1>5, <2>1, <2>2, SameReadsSteady
<1>9. Reached(n, N) => Reached(a, N)
  BY <1>5, SameReached DEF SameReads, SameCore
<1>10. /\ Keeps(a, SendSnapshot(a, behind), N, B)
       /\ SameReads(a, SendSnapshot(a, behind))
       /\ SendSnapshot(a, behind).round = a.round
  BY <1>6, <1>8, SendSnapshotSteady
<1> QED
  BY <1>3, <1>5, <1>8, <1>9, <1>10 DEF Keeps, SameReads, SameCore

(* send_heartbeats() starts a new round. *)
LEMMA SendHeartbeatsSteady ==
    ASSUME NEW n \in Node, NEW N \in Nat, NEW B, Steady(n, N, B)
    PROVE  /\ Keeps(n, SendHeartbeats(n), N, B)
           /\ SameReads(n, SendHeartbeats(n))
           /\ SendHeartbeats(n).round = n.round + 1
<1> DEFINE a == [n EXCEPT !.round = @ + 1]
<1>1. /\ n \in NodeState /\ n.out \in [Server -> Seq(Plain)]
      /\ n.out \in [Server -> Seq(Requests(N, n.round))]
  BY DEF Node, Steady
<1>2. /\ n.round \in Nat /\ n.match \in [Server -> Nat]
      /\ \A v \in Server : n.match[v] <= LastIndex(n)
  BY <1>1, NodeFields DEF Steady, Counted
<1>3. n.round + 1 \in Nat
  BY <1>2
<1>4. a \in NodeState
  BY <1>1, <1>3, Zenon DEF NodeState
<1>5. /\ SameReads(n, a) /\ a.out = n.out /\ a.round = n.round + 1
      /\ a.match = n.match
  BY <1>1 DEF NodeState, SameReads, SameCore
<1>6. SendHeartbeats(n) = SendAppendEntries(a, Peers(n))
  BY <1>1 DEF SendHeartbeats, NodeState
<1> HIDE DEF a
<1>7. a \in Node
  BY <1>1, <1>4, <1>5 DEF Node, SameReads, SameCore
<1>8. a.round \in Nat /\ a.round >= n.round /\ n.round <= a.round
  BY <1>2, <1>5
<1>9. Steady(a, N, B) /\ (Timely(n, N) => Timely(a, N))
  <2>1. \A v \in Server : a.match[v] >= n.match[v] /\ a.match[v] <= LastIndex(n)
    BY <1>2, <1>5
  <2>2. a.out \in [Server -> Seq(Requests(N, a.round))]
    BY <1>1, <1>2, <1>5, <1>8, RequestsGrow
  <2> QED
    BY <1>1, <1>4, <1>5, <1>8, <2>1, <2>2, SameReadsSteady
<1>10. Reached(n, N) => Reached(a, N)
  BY <1>5, SameReached DEF SameReads, SameCore
<1>11. /\ Keeps(a, SendAppendEntries(a, Peers(n)), N, B)
       /\ SameReads(a, SendAppendEntries(a, Peers(n)))
       /\ SendAppendEntries(a, Peers(n)).round = a.round
  BY <1>7, <1>9, SendAppendEntriesSteady
<1> QED
  BY <1>5, <1>6, <1>9, <1>10, <1>11 DEF Keeps, SameReads, SameCore

(* n is steady, and what a quorum has is committed and seen by reads. *)
Firm(n, N, B) == Steady(n, N, B) /\ Reached(n, N) /\ Timely(n, N)

(* n owes nothing and has told nothing. *)
Idle(n) == n.pending = {} /\ n.barriers = {} /\ n.told = {}

(* evaluate_read_barriers(): a read is answered when a quorum answered its *)
(* round; then a quorum has the no-op of the leader, and it is applied.    *)
LEMMA EvaluateReadBarriersFirm ==
    ASSUME NEW n \in Node, NEW N \in Nat, NEW B, Firm(n, N, B)
    PROVE  Firm(EvaluateReadBarriers(n), N, B)
<1> DEFINE ready == {b \in n.barriers : /\ QuorumAcknowledged(n, b.round)
                                        /\ n.applied >= b.target}
           served(b) == [type |-> "ReadServed", need |-> b.need,
                         data |-> n.data]
           r == EvaluateReadBarriers(n)
<1>1. /\ n \in NodeState /\ n.applied \in Nat /\ n.commit \in Nat
      /\ n.barriers \in SUBSET ReadBarrier /\ n.acked \in [Server -> Nat]
      /\ n.match \in [Server -> Nat]
  BY NodeFields DEF Node
<1>2. /\ SameCore(n, r) /\ r.applied = n.applied /\ r.data = n.data
      /\ r.acked = n.acked /\ r.match = n.match /\ r.round = n.round
      /\ r.out = n.out /\ r.barriers = n.barriers \ ready
      /\ r.told = n.told \cup {served(b) : b \in ready}
  BY <1>1 DEF EvaluateReadBarriers, NodeState, SameCore
<1>3. ASSUME NEW b \in ready PROVE n.applied >= N
  <2>1. /\ b \in n.barriers /\ b.round \in Nat /\ b.target \in Nat
        /\ QuorumAcknowledged(n, b.round) /\ n.applied >= b.target
    BY <1>1 DEF ReadBarrier
  <2>2. 1 <= b.round
    BY <2>1 DEF Firm, Steady, Awaited
  <2> DEFINE A == {v \in Peers(n) : n.acked[v] >= b.round}
             M == {v \in Peers(n) : n.match[v] >= N}
  <2>3. A \subseteq M
    <3> SUFFICES ASSUME NEW v \in Peers(n), n.acked[v] >= b.round
                 PROVE  n.match[v] >= N
      OBVIOUS
    <3>1. v \in Server /\ n.acked[v] \in Nat
      BY <1>1 DEF Peers
    <3>2. n.acked[v] >= 1
      BY <2>1, <2>2, <3>1
    <3> QED
      BY <3>1, <3>2 DEF Firm, Steady, Counted
  <2>4. HasQuorum(1 + Cardinality(A))
    BY <2>1 DEF QuorumAcknowledged
  <2>5. M \subseteq Server
    BY DEF Peers
  <2> HIDE DEF A, M
  <2>6. IsFiniteSet(M) /\ Cardinality(A) <= Cardinality(M)
    BY <2>3, <2>5, ServerAssumption, FS_Subset
  <2>7. /\ Cardinality(A) \in Nat /\ Cardinality(M) \in Nat
        /\ Cardinality(Server) \in Nat
    BY <2>3, <2>6, ServerAssumption, FS_Subset, FS_CardinalityType
  <2>8. HasQuorum(1 + Cardinality(M))
    BY <2>4, <2>6, <2>7 DEF HasQuorum
  <2>9. n.commit >= N
    BY <2>8 DEF Firm, Reached, M
  <2>10. b.target >= N \/ n.applied >= N
    BY <1>1, <2>1, <2>9 DEF Firm, Timely
  <2> QED
    BY <1>1, <2>1, <2>10
<1>4. \A b \in ready : b \in B /\ QuorumAcknowledged(n, b.round)
  BY DEF Firm, Steady, Awaited
<1>5. /\ \A b \in ready : /\ served(b).type = "ReadServed"
                          /\ served(b).need = b.need /\ served(b).data = n.data
      /\ \A b \in r.barriers : b \in n.barriers
  BY <1>2
<1> HIDE DEF ready, served, r
<1>6. \A R : QuorumAcknowledged(r, R) = QuorumAcknowledged(n, R)
  BY <1>2 DEF QuorumAcknowledged, Peers, SameCore
<1>7. Tells(r, N, B)
  <2> SUFFICES ASSUME NEW x \in r.told
               PROVE  /\ x.type = "Applied" => x.term = r.term /\ x.index <= r.applied
                      /\ x.type = "ReadServed" =>
                           /\ r.applied >= N /\ x.data = r.data
                           /\ \E b \in B : /\ x.need = b.need
                                           /\ QuorumAcknowledged(r, b.round)
    BY DEF Tells
  <2>1. CASE x \in n.told
    BY <1>2, <1>6, <2>1 DEF Firm, Steady, Tells, SameCore
  <2>2. CASE \E b \in ready : x = served(b)
    BY <1>2, <1>3, <1>4, <1>5, <1>6, <2>2
  <2> QED
    BY <1>2, <2>1, <2>2
<1>8. /\ LastIndex(r) = LastIndex(n)
      /\ \A k : TermAt(r, k) = TermAt(n, k) /\ Stored(r, k) = Stored(n, k)
  BY <1>2, SameLast DEF SameCore
<1>9. Settled(r, N)
  BY <1>2, <1>8 DEF Firm, Steady, Settled, SameCore
<1>10. Counted(r, N) /\ Reached(r, N)
  BY <1>2, <1>8 DEF Firm, Steady, Counted, Reached, Peers, SameCore
<1>11. Awaited(r, B) /\ Timely(r, N)
  BY <1>2, <1>5 DEF Firm, Steady, Awaited, Timely, SameCore
<1> QED
  BY <1>2, <1>7, <1>9, <1>10, <1>11 DEF Firm, Steady, r

(* apply_committed(): reads are evaluated when everything committed is     *)
(* applied, and fail otherwise.                                            *)
LEMMA ApplyCommittedFirm ==
    ASSUME NEW n \in Node, NEW N \in Nat, NEW B, Steady(n, N, B),
           Reached(n, N), n.told = {}, NEW limit \in Nat
    PROVE  Firm(ApplyCommitted(n, limit), N, B)
<1> DEFINE last == MinOf(n.commit, LastIndex(n))
           upto == MaxOf(n.applied, MinOf(last, limit))
           r == Executed(n, upto)
           f == [r EXCEPT !.pending = {p \in @ : p.index <= upto},
                          !.barriers = {}]
           finished == {p \in n.pending : p.index \in n.applied + 1 .. upto}
           done(p) == [type |-> "Applied", term |-> n.term, index |-> p.index,
                       command |-> p.value, value |-> ValueAt(n, p.index)]
<1>1. /\ n \in NodeState /\ n.applied \in Nat /\ n.commit \in Nat
      /\ LastIndex(n) \in Nat /\ n.applied <= n.commit /\ n.commit <= LastIndex(n)
  BY NodeFields, LastIndexType DEF Node, Steady, Settled
<1>2. last = n.commit
  BY <1>1 DEF MinOf
<1>3. ApplyCommitted(n, limit) = IF upto < last THEN f
                                 ELSE IF upto < n.commit THEN r
                                 ELSE EvaluateReadBarriers(r)
  BY DEF ApplyCommitted, Executed
<1> HIDE DEF last
<1>4. upto \in Nat /\ n.applied <= upto /\ upto <= n.commit
  BY <1>1, <1>2 DEF MinOf, MaxOf
<1> HIDE DEF upto
<1>5. /\ r \in Node
  BY <1>1, <1>4, ExecutedType
<1>6. /\ SameCore(n, r) /\ r.applied = upto /\ r.match = n.match
      /\ r.acked = n.acked /\ r.barriers = n.barriers /\ r.round = n.round
      /\ r.out = n.out /\ r.told = n.told \cup {done(p) : p \in finished}
  BY <1>1 DEF Executed, NodeState, SameCore
<1>7. \A x \in r.told : x.type = "Applied" /\ x.term = n.term /\ x.index <= upto
  <2>1. ASSUME NEW p \in finished
        PROVE  /\ done(p).type = "Applied" /\ done(p).term = n.term
               /\ done(p).index <= upto
    <3>1. p.index \in n.applied + 1 .. upto
      OBVIOUS
    <3> QED
      BY <1>1, <1>4, <3>1
  <2> HIDE DEF finished, done
  <2> QED
    BY <1>6, <2>1
<1> HIDE DEF finished, done, r
<1>8. /\ LastIndex(r) = LastIndex(n)
      /\ \A k : TermAt(r, k) = TermAt(n, k) /\ Stored(r, k) = Stored(n, k)
  BY <1>6, SameLast DEF SameCore
<1>9. Settled(r, N)
  BY <1>1, <1>4, <1>6, <1>8 DEF Steady, Settled, SameCore
<1>10. Counted(r, N) /\ Reached(r, N) /\ Awaited(r, B)
  BY <1>6, <1>8 DEF Steady, Counted, Reached, Awaited, Peers, SameCore
<1>11. Tells(r, N, B)
  BY <1>6, <1>7 DEF Tells, SameCore
<1>12. Steady(r, N, B)
  BY <1>6, <1>9, <1>10, <1>11 DEF Steady
<1>13. CASE upto < last
  <2>1. r \in NodeState
    BY <1>5 DEF Node
  <2>2. /\ SameCore(r, f) /\ f.applied = r.applied /\ f.match = r.match
        /\ f.acked = r.acked /\ f.barriers = {} /\ f.round = r.round
        /\ f.out = r.out /\ f.told = r.told
    BY <2>1 DEF NodeState, SameCore
  <2>3. ApplyCommitted(n, limit) = f
    BY <1>3, <1>13
  <2> HIDE DEF f
  <2>4. /\ LastIndex(f) = LastIndex(r)
        /\ \A k : TermAt(f, k) = TermAt(r, k) /\ Stored(f, k) = Stored(r, k)
    BY <2>2, SameLast DEF SameCore
  <2>5. Settled(f, N)
    BY <1>9, <2>2, <2>4 DEF Settled, SameCore
  <2>6. Counted(f, N) /\ Reached(f, N) /\ Awaited(f, B) /\ Timely(f, N)
    BY <1>10, <2>2, <2>4 DEF Counted, Reached, Awaited, Timely, Peers, SameCore
  <2>7. Tells(f, N, B)
    BY <1>6, <1>7, <2>2 DEF Tells, SameCore
  <2> QED
    BY <1>12, <2>2, <2>3, <2>5, <2>6, <2>7 DEF Firm, Steady
<1>14. CASE ~(upto < last)
  <2>1. ApplyCommitted(n, limit) = EvaluateReadBarriers(r) /\ upto = n.commit
    BY <1>1, <1>2, <1>3, <1>4, <1>14
  <2>2. r.applied = r.commit /\ r.commit \in Nat
    BY <1>1, <1>6, <2>1 DEF SameCore
  <2>3. Timely(r, N)
    BY <2>2 DEF Timely
  <2> QED
    BY <1>5, <1>10, <1>12, <2>1, <2>3, EvaluateReadBarriersFirm DEF Firm
<1> QED
  BY <1>13, <1>14

(* A node that owes nothing has nothing to tell. *)
LEMMA ApplyCommittedIdle ==
    ASSUME NEW n \in Node, Idle(n), NEW limit \in Nat
    PROVE  /\ Idle(ApplyCommitted(n, limit))
           /\ ApplyCommitted(n, limit).out = n.out
<1>1. PICK upto \in Nat :
         LET r == Executed(n, upto)
             f == [r EXCEPT !.pending = {p \in @ : p.index <= upto},
                            !.barriers = {}]
         IN  ApplyCommitted(n, limit) \in {f, r, EvaluateReadBarriers(r)}
  BY ApplyCommittedCases, Zenon
<1> DEFINE r == Executed(n, upto)
           f == [r EXCEPT !.pending = {p \in @ : p.index <= upto},
                          !.barriers = {}]
           e == EvaluateReadBarriers(r)
<1>2. n \in NodeState
  BY DEF Node
<1>3. /\ r.pending = {} /\ r.barriers = {} /\ r.told = {} /\ r.out = n.out
      /\ DOMAIN r = DOMAIN n
  BY <1>2 DEF Executed, NodeState, Idle
<1>4. ApplyCommitted(n, limit) \in {f, r, e}
  BY <1>1
<1>5. DOMAIN n = DOMAIN [n EXCEPT !.out = n.out]
  OBVIOUS
<1> HIDE DEF r
<1>6. f.pending = {} /\ f.barriers = {} /\ f.told = {} /\ f.out = n.out
  BY <1>2, <1>3 DEF NodeState
<1>7. e.pending = {} /\ e.barriers = {} /\ e.told = {} /\ e.out = n.out
  BY <1>2, <1>3 DEF EvaluateReadBarriers, NodeState
<1> HIDE DEF f, e
<1> QED
  BY <1>3, <1>4, <1>6, <1>7 DEF Idle

-----------------------------------------------------------------------------
(* What a quorum has is within quorum_match_index(). *)
LEMMA QuorumMatchReaches ==
    ASSUME NEW n \in NodeState, NEW N \in Nat, n.match[n.id] >= N,
           \A v \in Server : n.match[v] <= LastIndex(n),
           HasQuorum(1 + Cardinality({v \in Peers(n) : n.match[v] >= N}))
    PROVE  /\ QuorumMatchIndex(n) \in Nat /\ QuorumMatchIndex(n) >= N
           /\ QuorumMatchIndex(n) <= LastIndex(n)
<1> DEFINE k == QuorumMatchIndex(n)
           M == {v \in Peers(n) : n.match[v] >= N}
           Q == M \cup {n.id}
           A == {s \in Server : n.match[s] > k}
<1>1. n.match \in [Server -> Nat] /\ n.id \in Server /\ LastIndex(n) \in Nat
  BY NodeFields, LastIndexType
<1>2. k \in Nat /\ k <= LastIndex(n) /\ ~Majority(A)
  BY <1>1, QuorumMatch
<1>3. ASSUME ~(k >= N) PROVE FALSE
  <2>1. Q \subseteq A
    <3> SUFFICES ASSUME NEW v \in Q PROVE v \in A
      OBVIOUS
    <3>1. v \in Server /\ n.match[v] >= N /\ n.match[v] \in Nat
      BY <1>1 DEF Peers
    <3> QED
      BY <1>2, <1>3, <3>1
  <2>2. M \subseteq Server /\ n.id \notin M /\ A \in SUBSET Server
    BY DEF Peers
  <2>3. HasQuorum(1 + Cardinality(M))
    OBVIOUS
  <2> HIDE DEF M, A, k
  <2>4. IsFiniteSet(M) /\ Cardinality(M) \in Nat /\ Cardinality(Server) \in Nat
    BY <2>2, ServerAssumption, FS_Subset, FS_CardinalityType
  <2>5. Cardinality(Q) = Cardinality(M) + 1
    BY <2>2, <2>4, FS_AddElement
  <2>6. Cardinality(Q) > (Cardinality(Server) - 1) \div 2
    BY <2>3, <2>4, <2>5 DEF HasQuorum
  <2> HIDE DEF Q
  <2>7. Majority(A)
    BY <2>1, <2>2, <2>6, MajorityGrows DEF Majority
  <2> QED
    BY <1>2, <2>7
<1> QED
  BY <1>2, <1>3

(* advance_commit(): what a quorum has of the leader's term is committed. *)
LEMMA AdvanceCommitFirm ==
    ASSUME NEW n \in Node, NEW N \in Nat, NEW B, Steady(n, N, B),
           Timely(n, N), n.told = {}, NEW limit \in Nat
    PROVE  Firm(AdvanceCommit(n, limit), N, B)
<1> DEFINE k == QuorumMatchIndex(n)
           a == [n EXCEPT !.commit = k]
           r == ApplyCommitted(a, limit)
<1>1. /\ n \in NodeState /\ n.snapIndex \in Nat /\ n.applied \in Nat
      /\ n.commit \in Nat /\ LastIndex(n) \in Nat
      /\ n.snapIndex <= n.applied /\ n.applied <= n.commit
      /\ n.match \in [Server -> Nat] /\ n.id \in Server
  BY NodeFields, LastIndexType DEF Node, Steady, Settled
<1>2. /\ n.match[n.id] >= N /\ \A v \in Server : n.match[v] <= LastIndex(n)
  BY DEF Steady, Counted
<1>3. k \in Nat /\ k <= LastIndex(n)
  BY <1>1, <1>2, QuorumMatch
<1>4. ASSUME HasQuorum(1 + Cardinality({v \in Peers(n) : n.match[v] >= N}))
      PROVE  k >= N
  BY <1>1, <1>2, <1>4, QuorumMatchReaches
<1> DEFINE due == k \in n.commit + 1 .. LastIndex(n) /\ TermAt(n, k) = n.term
<1>5. AdvanceCommit(n, limit) =
        IF due THEN IF ApplyFailed(r) \/ Peers(n) = {} THEN r
                    ELSE SendHeartbeats(r)
        ELSE n
  BY DEF AdvanceCommit
<1> HIDE DEF k, r
<1>6. CASE ~due
  <2> SUFFICES ASSUME HasQuorum(1 + Cardinality({v \in Peers(n) : n.match[v] >= N}))
               PROVE  n.commit >= N
    BY <1>5, <1>6 DEF Firm, Reached
  <2> SUFFICES ASSUME ~(n.commit >= N) PROVE FALSE
    OBVIOUS
  <2>1. k >= N
    BY <1>4
  <2>2. k \in n.commit + 1 .. LastIndex(n) /\ k \in N .. LastIndex(n)
    BY <1>1, <1>3, <2>1
  <2>3. Stored(n, k)
    BY <1>1, <1>3, <2>2 DEF Stored
  <2>4. TermAt(n, k) = n.term
    BY <2>2, <2>3 DEF Steady, Settled
  <2> QED
    BY <1>6, <2>2, <2>4
<1>7. CASE due
  <2>1. a \in NodeState
    BY <1>1, <1>3 DEF NodeState
  <2>2. /\ a.id = n.id /\ a.term = n.term /\ a.role = n.role /\ a.log = n.log
        /\ a.snapIndex = n.snapIndex /\ a.snapTerm = n.snapTerm
        /\ a.commit = k /\ a.applied = n.applied /\ a.match = n.match
        /\ a.acked = n.acked /\ a.round = n.round /\ a.barriers = n.barriers
        /\ a.out = n.out /\ a.told = n.told
    BY <1>1 DEF NodeState
  <2> HIDE DEF a
  <2>3. a \in Node
    BY <2>1, <2>2 DEF Node
  <2>4. /\ LastIndex(a) = LastIndex(n)
        /\ \A j : TermAt(a, j) = TermAt(n, j) /\ Stored(a, j) = Stored(n, j)
    BY <2>2, SameLast
  <2>5. n.applied <= k
    BY <1>1, <1>3, <1>7
  <2>6. Settled(a, N)
    BY <1>3, <2>2, <2>4, <2>5 DEF Steady, Settled
  <2>7. Counted(a, N) /\ Awaited(a, B) /\ Tells(a, N, B)
    BY <2>2, <2>4 DEF Steady, Counted, Awaited, Tells
  <2>8. Steady(a, N, B)
    BY <2>2, <2>6, <2>7 DEF Steady
  <2>9. Reached(a, N)
    BY <1>4, <2>2 DEF Reached, Peers
  <2>10. Firm(r, N, B) /\ r \in Node
    BY <2>2, <2>3, <2>8, <2>9, ApplyCommittedFirm, ApplyCommittedType DEF r
  <2>11. Firm(SendHeartbeats(r), N, B)
    BY <2>10, SendHeartbeatsSteady DEF Firm, Keeps
  <2> QED
    BY <1>5, <1>7, <2>10, <2>11
<1> QED
  BY <1>6, <1>7

(* maybe_compact_log() keeps the terms of what it keeps. *)
LEMMA MaybeCompactFirm ==
    ASSUME NEW n \in Node, NEW N \in Nat, NEW B, Firm(n, N, B)
    PROVE  Firm(MaybeCompact(n), N, B)
<1> DEFINE r == MaybeCompact(n)
           due == /\ n.role # "Candidate"
                  /\ Threshold # 0 /\ Len(n.log) >= Threshold
                  /\ n.applied > n.snapIndex /\ Stored(n, n.applied)
<1>1. CASE ~due
  BY <1>1 DEF MaybeCompact
<1>2. CASE due
  <2>1. n \in NodeState /\ n.applied \in Nat /\ n.snapIndex \in Nat
        /\ n.log \in Seq(Entry)
    BY NodeFields DEF Node
  <2>2. r \in NodeState
    BY MaybeCompactType DEF Node
  <2>3. /\ r.id = n.id /\ r.term = n.term /\ r.commit = n.commit
        /\ r.applied = n.applied /\ r.match = n.match /\ r.acked = n.acked
        /\ r.round = n.round /\ r.barriers = n.barriers /\ r.out = n.out
        /\ r.told = n.told /\ r.data = n.data
        /\ r.snapIndex = n.applied /\ r.snapTerm = TermAt(n, n.applied)
        /\ r.log = SubSeq(n.log, n.applied - n.snapIndex + 1, Len(n.log))
    BY <1>2, <2>1 DEF NodeState, MaybeCompact
  <2>4. n.snapIndex < n.applied /\ Stored(n, n.applied)
    BY <1>2, <2>1
  <2> HIDE DEF r
  <2>5. /\ LastIndex(r) = LastIndex(n)
        /\ \A i \in 1 .. Len(r.log) :
             /\ i + (n.applied - n.snapIndex) \in 1 .. Len(n.log)
             /\ r.log[i] = n.log[i + (n.applied - n.snapIndex)]
    BY <2>1, <2>2, <2>3, <2>4, CutPrefix
  <2>6. ASSUME NEW j \in N .. LastIndex(r), Stored(r, j)
        PROVE  TermAt(r, j) = n.term
    <3>1. CASE j = n.applied
      <4>1. TermAt(r, j) = TermAt(n, j) /\ j \in N .. LastIndex(n) /\ Stored(n, j)
        BY <2>3, <2>4, <2>5, <3>1 DEF TermAt
      <4> QED
        BY <4>1 DEF Firm, Steady, Settled
    <3>2. CASE j # n.applied
      <4> DEFINE i == j - n.applied
                 h == i + (n.applied - n.snapIndex)
      <4>1. Len(r.log) \in Nat /\ Len(n.log) \in Nat
        BY <2>1, <2>2, NodeFields
      <4>2. j \in n.applied .. n.applied + Len(r.log)
        BY <2>3, <2>6 DEF Stored, LastIndex
      <4>3. i \in 1 .. Len(r.log) /\ h = j - n.snapIndex
        BY <2>1, <3>2, <4>1, <4>2, SMTT(30)
      <4>4. h \in 1 .. Len(n.log) /\ r.log[i] = n.log[h]
        BY <2>5, <4>3
      <4>5. TermAt(r, j) = r.log[i].term
        BY <2>3, <3>2 DEF TermAt
      <4> HIDE DEF i, h
      <4>6. j # n.snapIndex /\ j \in n.snapIndex .. n.snapIndex + Len(n.log)
        BY <2>1, <4>1, <4>2, <4>3, <4>4, SMTT(30)
      <4>7. TermAt(n, j) = n.log[h].term /\ Stored(n, j)
        BY <4>3, <4>6 DEF TermAt, Stored, LastIndex
      <4>8. TermAt(n, j) = n.term
        BY <2>5, <4>7 DEF Firm, Steady, Settled
      <4> QED
        BY <4>4, <4>5, <4>7, <4>8
    <3> QED
      BY <3>1, <3>2
  <2>7. Settled(r, N)
    BY <2>3, <2>5, <2>6 DEF Firm, Steady, Settled
  <2>8. \A R : QuorumAcknowledged(r, R) = QuorumAcknowledged(n, R)
    BY <2>3 DEF QuorumAcknowledged, Peers
  <2>9. Counted(r, N) /\ Awaited(r, B) /\ Tells(r, N, B)
    BY <2>3, <2>5, <2>8 DEF Firm, Steady, Counted, Awaited, Tells
  <2>10. Reached(r, N) /\ Timely(r, N)
    BY <2>3 DEF Firm, Reached, Timely, Peers
  <2> QED
    BY <2>3, <2>7, <2>9, <2>10 DEF Firm, Steady, r
<1> QED
  BY <1>1, <1>2

(* The end of tick(). *)
LEMMA AfterTickFirm ==
    ASSUME NEW n \in Node, NEW N \in Nat, NEW B, Steady(n, N, B),
           Reached(n, N), n.told = {}, NEW limit \in Nat
    PROVE  Firm(AfterTick(n, limit), N, B)
<1>1. ApplyCommitted(n, limit) \in Node
  BY ApplyCommittedType
<1>2. Firm(ApplyCommitted(n, limit), N, B)
  BY ApplyCommittedFirm
<1> QED
  BY <1>1, <1>2, MaybeCompactFirm DEF AfterTick

(* A leader appends an entry of its own term. *)
LEMMA AppendedSteady ==
    ASSUME NEW n \in Node, NEW N \in Nat, NEW B, Steady(n, N, B), Timely(n, N),
           NEW r \in Node, NEW e, e.term = n.term, e \in Entry,
           r.log = Append(n.log, e), LastIndex(r) = LastIndex(n) + 1,
           r.match = [n.match EXCEPT ![n.id] = LastIndex(n) + 1],
           r.id = n.id, r.term = n.term, r.snapIndex = n.snapIndex,
           r.snapTerm = n.snapTerm, r.commit = n.commit,
           r.applied = n.applied, r.acked = n.acked, r.round = n.round,
           r.barriers = n.barriers, r.out = n.out, r.told = n.told,
           r.data = n.data
    PROVE  Steady(r, N, B) /\ Timely(r, N)
<1>1. /\ n \in NodeState /\ n.log \in Seq(Entry) /\ Len(n.log) \in Nat
      /\ n.snapIndex \in Nat /\ n.commit \in Nat /\ n.applied \in Nat
      /\ n.id \in Server /\ n.match \in [Server -> Nat]
      /\ LastIndex(n) \in Nat /\ LastIndex(n) = n.snapIndex + Len(n.log)
  <2>1. n \in NodeState
    BY DEF Node
  <2> QED
    BY <2>1, NodeFields, LastTermType, SMTT(30)
<1>2. ASSUME NEW k \in N .. LastIndex(r), Stored(r, k)
      PROVE  TermAt(r, k) = n.term
  <2>1. k \in n.snapIndex .. LastIndex(n) + 1
    BY <1>2 DEF Stored
  <2>2. CASE k = n.snapIndex
    <3>1. Stored(n, k) /\ k \in N .. LastIndex(n)
      BY <1>1, <2>1, <2>2 DEF Stored
    <3> QED
      BY <2>2, <3>1 DEF TermAt, Steady, Settled
  <2>3. CASE k # n.snapIndex /\ k <= LastIndex(n)
    <3>1. Stored(n, k) /\ k \in N .. LastIndex(n)
      BY <1>1, <2>1, <2>3 DEF Stored
    <3>2. k - n.snapIndex \in 1 .. Len(n.log)
      BY <1>1, <2>1, <2>3, SMTT(30)
    <3>3. r.log[k - n.snapIndex] = n.log[k - n.snapIndex]
      BY <1>1, <3>2
    <3>4. TermAt(n, k) = n.term
      BY <3>1 DEF Steady, Settled
    <3> QED
      BY <2>3, <3>3, <3>4 DEF TermAt
  <2>4. CASE k = LastIndex(n) + 1
    <3>1. k - n.snapIndex = Len(n.log) + 1 /\ k # n.snapIndex
      BY <1>1, <2>4
    <3>2. r.log[Len(n.log) + 1] = e
      BY <1>1
    <3> QED
      BY <3>1, <3>2 DEF TermAt
  <2> QED
    BY <1>1, <2>1, <2>2, <2>3, <2>4
<1>3. Settled(r, N)
  BY <1>1, <1>2 DEF Steady, Settled
<1>4. Counted(r, N)
  <2>1. ASSUME NEW v \in Server
        PROVE  /\ r.match[v] <= LastIndex(r) /\ r.acked[v] <= r.round
               /\ r.acked[v] >= 1 => r.match[v] >= N
    <3>1. /\ n.match[v] <= LastIndex(n) /\ n.acked[v] <= n.round
          /\ n.acked[v] >= 1 => n.match[v] >= N
      BY DEF Steady, Counted
    <3>2. N <= LastIndex(n) /\ n.match[v] \in Nat
      BY <1>1 DEF Steady, Settled
    <3>3. r.match[v] \in {n.match[v], LastIndex(n) + 1}
      BY <1>1
    <3>4. r.acked[v] = n.acked[v] /\ r.round = n.round
      OBVIOUS
    <3> QED
      BY <1>1, <3>1, <3>2, <3>3, <3>4
  <2>2. r.match[r.id] >= N
    BY <1>1 DEF Steady, Settled
  <2> QED
    BY <2>1, <2>2 DEF Counted
<1>5. \A R : QuorumAcknowledged(r, R) = QuorumAcknowledged(n, R)
  BY DEF QuorumAcknowledged, Peers
<1>6. Awaited(r, B) /\ Tells(r, N, B)
  BY <1>5 DEF Steady, Awaited, Tells
<1>7. Timely(r, N)
  BY DEF Timely
<1> QED
  BY <1>3, <1>4, <1>6, <1>7 DEF Steady

-----------------------------------------------------------------------------
(* A new leader. *)

(* Sending changes no debts. *)
LEMMA SendHeartbeatsIdle ==
    ASSUME NEW n \in Node, Idle(n)
    PROVE  Idle(SendHeartbeats(n))
<1>1. n \in NodeState
  BY DEF Node
<1> QED
  BY <1>1 DEF SendHeartbeats, SendAppendEntries, SendSnapshot, NodeState, Idle

(* advance_commit() of a node that owes nothing. *)
LEMMA AdvanceCommitIdle ==
    ASSUME NEW n \in Node, Idle(n), NEW limit \in Nat,
           QuorumMatchIndex(n) \in Nat
    PROVE  Idle(AdvanceCommit(n, limit))
<1> DEFINE k == QuorumMatchIndex(n)
           a == [n EXCEPT !.commit = k]
           r == ApplyCommitted(a, limit)
<1>1. n \in NodeState
  BY DEF Node
<1> HIDE DEF k
<1>2. /\ a \in NodeState /\ Idle(a) /\ a.snapIndex = n.snapIndex
      /\ a.applied = n.applied /\ a.out = n.out
  BY <1>1 DEF NodeState, Idle, k
<1>3. a \in Node
  BY <1>2 DEF Node
<1> HIDE DEF a
<1>4. Idle(r) /\ r \in Node
  BY <1>2, <1>3, ApplyCommittedIdle, ApplyCommittedType
<1>5. Idle(SendHeartbeats(r))
  BY <1>4, SendHeartbeatsIdle
<1>6. AdvanceCommit(n, limit) \in {n, r, SendHeartbeats(r)}
  BY DEF AdvanceCommit, r, a, k
<1> HIDE DEF r
<1> QED
  BY <1>4, <1>5, <1>6

(* The end of tick() of a node that owes nothing. *)
LEMMA AfterTickIdle ==
    ASSUME NEW n \in Node, Idle(n), NEW limit \in Nat
    PROVE  Idle(AfterTick(n, limit)) /\ AfterTick(n, limit).out = n.out
<1> DEFINE r == ApplyCommitted(n, limit)
<1>1. Idle(r) /\ r.out = n.out /\ r \in NodeState
  BY ApplyCommittedIdle, ApplyCommittedType DEF Node
<1> HIDE DEF r
<1>2. Idle(MaybeCompact(r)) /\ MaybeCompact(r).out = r.out
  BY <1>1 DEF MaybeCompact, NodeState, Idle
<1> QED
  BY <1>1, <1>2 DEF AfterTick, r

(* become_leader(): the no-op is the first entry of the term. *)
LEMMA BecomeLeaderFirm ==
    ASSUME NEW n \in Node, Idle(n), NEW limit \in Nat,
           n.out = [t \in Server |-> << >>],
           n.applied <= n.commit, n.commit <= LastIndex(n)
    PROVE  LET r == BecomeLeader(n, limit)
           IN  Firm(r, LastIndex(n) + 1, {}) /\ Idle(r)
<1> DEFINE i == InitializeLeaderProgress(n)
           a == AppendOwn(i, NoOp)
           h == SendHeartbeats(a)
           N == LastIndex(n) + 1
<1>1. /\ n \in NodeState /\ n.commit \in Nat /\ n.applied \in Nat
      /\ n.id \in Server /\ LastIndex(n) \in Nat /\ N \in Nat
  <2>1. n \in NodeState
    BY DEF Node
  <2> QED
    BY <2>1, NodeFields, LastIndexType
<1>2. /\ i \in Node /\ i.role = "Leader" /\ i.id = n.id /\ i.term = n.term
  BY InitializeLeaderProgressType
<1>3. /\ i.log = n.log /\ i.snapIndex = n.snapIndex /\ i.snapTerm = n.snapTerm
      /\ i.commit = n.commit /\ i.applied = n.applied /\ i.out = n.out
      /\ i.match = [s \in Server |-> IF s = n.id THEN LastIndex(n) ELSE 0]
      /\ i.acked = [s \in Server |-> 0] /\ i.round = 0
      /\ i.pending = {} /\ i.barriers = {} /\ i.told = {}
  BY <1>1 DEF InitializeLeaderProgress, NodeState, Idle
<1>4. LastIndex(i) = LastIndex(n)
  BY <1>3 DEF LastIndex
<1> HIDE DEF i
<1>5. /\ a \in Node /\ a.id = n.id /\ a.term = n.term
      /\ LastIndex(a) = N /\ LastTerm(a) = n.term
      /\ a.commit = n.commit /\ a.applied = n.applied
      /\ a.match = [i.match EXCEPT ![n.id] = N]
      /\ a.out = n.out /\ a.told = {}
  <2>1. NoOp \in Command
    BY DEF Command
  <2>2. AppendOwn(i, NoOp) \in Node
    BY <1>2, <2>1, AppendOwnType
  <2>3. /\ AppendOwn(i, NoOp).id = i.id /\ AppendOwn(i, NoOp).term = i.term
        /\ LastIndex(AppendOwn(i, NoOp)) = LastIndex(i) + 1
        /\ LastTerm(AppendOwn(i, NoOp)) = i.term
        /\ AppendOwn(i, NoOp).commit = i.commit
        /\ AppendOwn(i, NoOp).applied = i.applied
        /\ AppendOwn(i, NoOp).match = [i.match EXCEPT ![i.id] = LastIndex(i) + 1]
        /\ AppendOwn(i, NoOp).out = i.out /\ AppendOwn(i, NoOp).told = i.told
    BY <1>2, <2>1, AppendOwnFields
  <2> QED
    BY <1>2, <1>3, <1>4, <2>2, <2>3
<1>6. /\ a.acked = i.acked /\ a.round = 0 /\ a.pending = {} /\ a.barriers = {}
  <2>1. i \in NodeState
    BY <1>2 DEF Node
  <2> QED
    BY <1>3, <2>1 DEF AppendOwn, NodeState
<1> HIDE DEF a
<1>7. Steady(a, N, {})
  <2>1. \A k \in N .. LastIndex(a) : TermAt(a, k) = a.term
    <3> SUFFICES ASSUME NEW k \in N .. LastIndex(a) PROVE TermAt(a, k) = a.term
      OBVIOUS
    <3>1. k = LastIndex(a)
      BY <1>1, <1>5
    <3> QED
      BY <1>5, <3>1 DEF LastTerm
  <2>2. Settled(a, N)
    BY <1>1, <1>5, <2>1 DEF Settled
  <2>3. Counted(a, N)
    <3>1. ASSUME NEW v \in Server
          PROVE  a.match[v] \in {0, N} /\ a.acked[v] = 0
      BY <1>1, <1>3, <1>5, <1>6
    <3>2. a.match[a.id] = N
      BY <1>1, <1>3, <1>5
    <3> QED
      BY <1>1, <1>5, <1>6, <3>1, <3>2 DEF Counted
  <2>4. Awaited(a, {}) /\ Tells(a, N, {})
    BY <1>5, <1>6 DEF Awaited, Tells
  <2>5. a.out \in [Server -> Seq(Requests(N, a.round))]
    BY <1>5
  <2> QED
    BY <2>2, <2>3, <2>4, <2>5 DEF Steady
<1> HIDE DEF N
<1>8. /\ h \in Node /\ Steady(h, N, {}) /\ SameReads(a, h)
  BY <1>1, <1>5, <1>7, SendHeartbeatsType, SendHeartbeatsSteady DEF Keeps
<1>9. Idle(a) /\ Idle(h)
  BY <1>5, <1>6, SendHeartbeatsIdle DEF Idle
<1> HIDE DEF h
<1>10. Timely(h, N)
  BY <1>9 DEF Idle, Timely
<1>11. Firm(AdvanceCommit(h, limit), N, {})
  BY <1>1, <1>8, <1>9, <1>10, AdvanceCommitFirm DEF Idle
<1>12. QuorumMatchIndex(h) \in Nat
  <2>1. h \in NodeState /\ LastIndex(h) \in Nat
    BY <1>8, LastIndexType DEF Node
  <2> QED
    BY <1>8, <2>1, QuorumMatch DEF Steady, Counted
<1>13. Idle(AdvanceCommit(h, limit))
  BY <1>8, <1>9, <1>12, AdvanceCommitIdle
<1> QED
  BY <1>11, <1>13 DEF BecomeLeader, h, a, i, N

(* become_leader() at the end of a tick, in a group of one. *)
LEMMA BecomeLeaderTickFirm ==
    ASSUME NEW n \in Node, Idle(n), NEW limit \in Nat,
           n.out = [t \in Server |-> << >>],
           n.applied <= n.commit, n.commit <= LastIndex(n)
    PROVE  LET r == AfterTick(BecomeLeader(n, limit), limit)
           IN  Firm(r, LastIndex(n) + 1, {}) /\ Idle(r)
<1> DEFINE b == BecomeLeader(n, limit)
           N == LastIndex(n) + 1
<1>1. b \in Node /\ Firm(b, N, {}) /\ Idle(b) /\ N \in Nat
  <2>1. b \in Node
    BY BecomeLeaderType
  <2>2. Firm(b, N, {}) /\ Idle(b)
    BY BecomeLeaderFirm
  <2>3. LastIndex(n) \in Nat
    BY LastIndexType DEF Node
  <2> QED
    BY <2>1, <2>2, <2>3
<1> HIDE DEF b, N
<1>2. Firm(AfterTick(b, limit), N, {}) /\ Idle(AfterTick(b, limit))
  BY <1>1, AfterTickFirm, AfterTickIdle DEF Firm, Idle
<1> QED
  BY <1>2 DEF b, N

-----------------------------------------------------------------------------
(* What a step must respect for the invariant to survive it. *)

(* A leader that has applied N has applied what leaders of earlier terms   *)
(* have acknowledged.                                                      *)
LeadersApply ==
    \A s \in Server, N \in Nat :
      node[s].role = "Leader" /\ Settled(node[s], N) /\ node[s].applied >= N =>
        \A c \in Completed :
          c.term < node[s].term => c.index <= node[s].applied

(* A store has what is acknowledged and applied. *)
StoresHave ==
    \A c \in Completed, s \in Server :
      node[s].applied >= c.index => c.command \in node[s].data

(* A leader that has applied an entry of its own term has applied every    *)
(* entry of an earlier term that was committed.                            *)
LEMMA LeadersHaveApplied == Inv /\ LogInv /\ SafetyInv => LeadersApply
<1> SUFFICES ASSUME Inv, LogInv, SafetyInv, NEW s \in Server, NEW N \in Nat,
                    node[s].role = "Leader", Settled(node[s], N),
                    node[s].applied >= N, NEW c \in Completed,
                    c.term < node[s].term
             PROVE  c.index <= node[s].applied
  BY DEF LeadersApply
<1> DEFINE n == node[s]
<1>1. PICK W \in World : SafeIn(W)
  BY DEF SafetyInv
<1>2. /\ c.index \in Nat /\ c.term \in Nat /\ c.index >= 1
      /\ ChosenBy(W, c.index, c.term)
  BY <1>1, AcknowledgedIsChosen
<1>3. Lawful(W) /\ Upright(W, n) /\ n \in Node /\ n \in NodeState
  BY <1>1, NodeUpright
<1>4. /\ n.snapIndex \in Nat /\ n.applied \in Nat /\ n.term \in Nat
      /\ n.snapIndex <= n.applied /\ LastIndex(n) \in Nat
  BY <1>3, NodeFields, LastIndexType DEF Node
<1>5. PICK t \in Nat, j \in Nat :
        /\ t <= c.term /\ Own(W, j, t) /\ c.index <= j
        /\ Majority(Holders(W, j, t))
  <2>1. c.index # 0
    BY <1>2
  <2> QED
    BY <1>2, <2>1 DEF ChosenBy
<1>6. /\ W.logs[n.term] # << >> /\ LastIndex(n) = Len(W.logs[n.term])
      /\ \A k : Stored(n, k) =>
           TermAt(n, k) = IF k = 0 THEN 0 ELSE W.logs[n.term][k].term
  BY <1>1, <1>3, LeaderLog DEF Upright
<1>7. t < n.term
  BY <1>2, <1>4, <1>5
<1>8. Has(W, n.term, j, t)
  BY <1>3, <1>4, <1>5, <1>6, <1>7, HeldNotLost DEF Lawful, LogsComplete
<1>9. ASSUME j > n.applied PROVE FALSE
  <2>1. /\ j \in N .. LastIndex(n) /\ Stored(n, j) /\ j # 0
        /\ W.logs[n.term][j].term = t
    BY <1>4, <1>6, <1>8, <1>9 DEF Has, Stored
  <2>2. TermAt(n, j) = n.term
    BY <2>1 DEF Settled
  <2> QED
    BY <1>4, <1>6, <1>7, <2>1, <2>2
<1> HIDE DEF n
<1> QED
  BY <1>2, <1>4, <1>5, <1>9 DEF n

(* What was acknowledged and is applied is in the store, if no store       *)
(* forgets what it has applied.                                            *)
LEMMA StoresHaveAcknowledged ==
    Inv /\ LogInv /\ SafetyInv => (Durable => StoresHave)
<1> SUFFICES ASSUME Inv, LogInv, SafetyInv, Durable, NEW c \in Completed,
                    NEW s \in Server, node[s].applied >= c.index
             PROVE  c.command \in node[s].data
  BY DEF StoresHave
<1>1. PICK W \in World : SafeIn(W)
  BY DEF SafetyInv
<1>2. Upright(W, node[s]) /\ node[s].applied \in Nat
  BY <1>1, NodeUpright, NodeFields
<1>3. c.command \in Values(W, node[s].applied)
  BY <1>1, <1>2, AcknowledgedIsChosen
<1> QED
  BY <1>2, <1>3 DEF Upright, Stores

(* n once its messages and answers have left. *)
Sent(n) == [n EXCEPT !.out = [t \in Server |-> << >>], !.told = {}]

(* Server s ends a step as n. *)
ReadStep(s, n) ==
    /\ n \in NodeState /\ n.id = s /\ n.term >= node[s].term
    /\ node'[s] = Sent(n) /\ \A t \in Server \ {s} : node'[t] = node[t]
    /\ \A f, t \in Server : \A i \in DOMAIN net'[f][t] :
         \/ \E j \in DOMAIN net[f][t] : net'[f][t][i] = net[f][t][j]
         \/ f = s /\ \E j \in DOMAIN n.out[t] : net'[f][t][i] = n.out[t][j]
    /\ told' = told \cup n.told /\ elected \subseteq elected'

(* A success that n sends answers a request of the same round. *)
Honest(s, n) ==
    \A t \in Server : \A i \in DOMAIN n.out[t] :
      LET x == n.out[t][i]
      IN  x.type = "AppendEntriesResponse" /\ x.success =>
            /\ x.term = n.term
            /\ \E j \in DOMAIN net[t][s] :
                 LET m == net[t][s][j]
                 IN  /\ m.type = "AppendEntries" /\ m.term = x.term
                     /\ m.round = x.round
                     /\ m.prevIndex + Len(m.entries) = x.match

(* Only a leader reports, and in its term. *)
Reports(n) ==
    \A c \in n.told : c.type = "Applied" => c.term = n.term /\ n.role = "Leader"

(* Sending off messages and answers changes nothing else. *)
LEMMA SentFields ==
    ASSUME NEW n \in NodeState
    PROVE  LET r == Sent(n)
           IN  /\ r \in NodeState /\ SameVote(n, r)
               /\ r.log = n.log /\ r.snapIndex = n.snapIndex
               /\ r.snapTerm = n.snapTerm /\ r.commit = n.commit
               /\ r.applied = n.applied /\ r.data = n.data
               /\ r.match = n.match /\ r.acked = n.acked /\ r.round = n.round
               /\ r.barriers = n.barriers /\ r.pending = n.pending
               /\ r.out = [t \in Server |-> << >>] /\ r.told = {}
<1>1. [t \in Server |-> << >>] \in [Server -> Seq(Message)]
  OBVIOUS
<1> QED
  BY <1>1 DEF Sent, NodeState, SameVote

(* A step of s writes the state of s only; what it adds to the wire and to *)
(* the answers is what s has to send and to tell.                          *)
LEMMA BecomeRead ==
    ASSUME Inv, NEW s \in Server, NEW n \in NodeState, n.id = s,
           n.term >= node[s].term,
           NEW wire \in Wire, PartOf(wire), Become(s, n, wire)
    PROVE  ReadStep(s, n)
<1>1. /\ node'[s] = Sent(n) /\ \A t \in Server \ {s} : node'[t] = node[t]
  BY DEF Become, Inv, TypeInv, TypeOK, Sent
<1>2. /\ \A f \in Server \ {s}, t \in Server : net'[f][t] = wire[f][t]
      /\ \A t \in Server : net'[s][t] = Enqueue(wire[s][t], n.out[t])
  BY DEF Become, Wire
<1>3. ASSUME NEW f \in Server, NEW t \in Server, NEW i \in DOMAIN net'[f][t]
      PROVE  \/ \E j \in DOMAIN net[f][t] : net'[f][t][i] = net[f][t][j]
             \/ f = s /\ \E j \in DOMAIN n.out[t] : net'[f][t][i] = n.out[t][j]
  <2>1. CASE f # s
    BY <1>2, <2>1 DEF PartOf
  <2>2. CASE f = s
    <3>1. wire[s][t] \in Seq(Message) /\ n.out[t] \in Seq(Message)
      BY NodeFields DEF Wire
    <3>2. net'[f][t] = Enqueue(wire[s][t], n.out[t])
      BY <1>2, <2>2
    <3>3. \/ \E j \in DOMAIN wire[s][t] : net'[f][t][i] = wire[s][t][j]
          \/ \E j \in DOMAIN n.out[t] : net'[f][t][i] = n.out[t][j]
      BY <3>1, <3>2, EnqueueType, SMTT(30)
    <3> QED
      BY <2>2, <3>3 DEF PartOf
  <2> QED
    BY <2>1, <2>2
<1>4. told' = told \cup n.told /\ elected \subseteq elected'
  BY DEF Become
<1> QED
  BY <1>1, <1>3, <1>4 DEF ReadStep

(* The same for a step of the runtime's thread, a tick, a call of a client *)
(* or a message that is handled.                                           *)
LEMMA EndsRead ==
    ASSUME Inv, NEW s \in Server, NEW n \in NodeState, n.id = s,
           n.term >= node[s].term, Ends(s, n)
    PROVE  ReadStep(s, n)
<1>1. CASE Become(s, n, net)
  <2>1. net \in Wire /\ PartOf(net)
    BY DEF Inv, TypeInv, TypeOK, Wire, PartOf
  <2> QED
    BY <1>1, <2>1, BecomeRead
<1>2. ASSUME NEW f \in Server, net[f][s] # << >>, Handled(f, s, n)
      PROVE  ReadStep(s, n)
  <2> DEFINE wire == [net EXCEPT ![f][s] = Tail(@)]
  <2>1. wire \in Wire /\ PartOf(wire)
    BY <1>2, ArrivingMessage
  <2>2. Become(s, n, wire)
    BY <1>2 DEF Handled
  <2> HIDE DEF wire
  <2> QED
    BY <2>1, <2>2, BecomeRead
<1> QED
  BY <1>1, <1>2 DEF Ends

(* Requests are honest: they claim nothing. *)
LEMMA RequestsHonest ==
    ASSUME NEW s, NEW n, NEW N, NEW R, n.out \in [Server -> Seq(Requests(N, R))]
    PROVE  Honest(s, n)
<1> SUFFICES ASSUME NEW t \in Server, NEW i \in DOMAIN n.out[t]
             PROVE  ~(/\ n.out[t][i].type = "AppendEntriesResponse"
                      /\ n.out[t][i].success)
  BY DEF Honest
<1> DEFINE Q == Requests(N, R)
<1>1. n.out[t] \in Seq(Q)
  OBVIOUS
<1> HIDE DEF Q
<1>2. n.out[t][i] \in Q
  BY <1>1
<1> QED
  BY <1>2 DEF Q, Requests

(* The term of a leader's request was elected. *)
LEMMA RequestElected ==
    ASSUME Inv, SafetyInv, NEW f \in Server, NEW s \in Server,
           NEW i \in DOMAIN net[f][s], net[f][s][i].type = "AppendEntries"
    PROVE  \E e \in elected : e[2] = net[f][s][i].term
<1>1. PICK W \in World : SafeIn(W)
  BY DEF SafetyInv
<1>2. net[f][s][i] \in Message
  BY DEF Inv, TypeInv, TypeOK
<1>3. net[f][s][i].term \in Nat
  BY <1>2, MessageOfType
<1>4. W.logs[net[f][s][i].term] # << >>
  BY <1>1, ZenonT(30) DEF SafeIn, WireVouched, Vouched, VouchedEntries
<1> QED
  BY <1>1, <1>3, <1>4 DEF SafeIn, LogsElected

(* The step of s leaves another leader as it is. *)
LEMMA OthersLead ==
    ASSUME Inv, Inv', ReadInv, NEW s \in Server, NEW n, ReadStep(s, n),
           Honest(s, n), Reports(n),
           NEW u \in Server, u # s, node'[u].role = "Leader"
    PROVE  Leading(u)'
<1>1. node'[u] = node[u] /\ Leading(u)
  BY DEF ReadStep, ReadInv
<1> DEFINE T == node[u].term
<1>2. T \in Nat /\ n.term \in Nat /\ node[s].term \in Nat
  BY NodeFields DEF ReadStep, Inv, TypeInv, TypeOK
<1>3. PICK N \in Nat : /\ Steady(node[u], N, node[u].barriers)
                       /\ Reached(node[u], N) /\ Timely(node[u], N)
                       /\ RequestsReach(u, N) /\ AnswersReach(u, N)
  BY <1>1 DEF Leading
<1>4. RequestsReach(u, N)'
  BY <1>1, <1>3 DEF RequestsReach, ReadStep
<1>5. AnswersReach(u, N)'
  <2> SUFFICES ASSUME NEW t \in Server, NEW i \in DOMAIN net'[t][u],
                      Confirms(net'[t][u][i], T)
               PROVE  /\ net'[t][u][i].round <= node[u].round
                      /\ net'[t][u][i].match >= N
    BY <1>1 DEF AnswersReach
  <2>1. CASE \E j \in DOMAIN net[t][u] : net'[t][u][i] = net[t][u][j]
    BY <1>3, <2>1 DEF AnswersReach
  <2>2. ASSUME t = s, NEW j \in DOMAIN n.out[u], net'[t][u][i] = n.out[u][j]
        PROVE  /\ net'[t][u][i].round <= node[u].round
               /\ net'[t][u][i].match >= N
    <3> DEFINE x == n.out[u][j]
    <3>1. PICK k \in DOMAIN net[u][s] :
            /\ net[u][s][k].type = "AppendEntries" /\ net[u][s][k].term = T
            /\ net[u][s][k].round = x.round
            /\ net[u][s][k].prevIndex + Len(net[u][s][k].entries) = x.match
      BY <2>2 DEF Honest, Confirms
    <3> QED
      BY <1>3, <2>2, <3>1 DEF RequestsReach
  <2> QED
    BY <2>1, <2>2 DEF ReadStep
<1>6. ASSUME NEW c \in Completed', c.term = T PROVE c.index <= node[u].applied
  <2>1. CASE c \in Completed
    BY <1>1, <1>6, <2>1 DEF Leading
  <2>2. CASE c \in n.told /\ c.type = "Applied"
    <3>1. n.role = "Leader" /\ n.term = T
      BY <1>6, <2>2 DEF Reports
    <3>2. node'[s].role = "Leader" /\ node'[s].term = T
      BY <3>1, SentFields DEF ReadStep, SameVote
    <3>3. <<s, T>> \in elected' /\ <<u, T>> \in elected'
      BY <1>1, <3>2 DEF Inv, ElectionInv, LeadersAreElected
    <3>4. ElectionSafety'
      BY OneLeader, PTL
    <3>5. <<s, T>> = <<u, T>>
      BY <3>3, <3>4 DEF ElectionSafety
    <3> QED
      BY <3>5
  <2> QED
    BY <2>1, <2>2 DEF Completed, ReadStep
<1>7. ASSUME NEW b \in node[u].barriers
      PROVE  Overtaken(u, b.round)' \/ Behind(b.need, T)'
  <2>1. CASE Behind(b.need, T)
    <3>1. Completed \subseteq Completed'
      BY DEF ReadStep, Completed
    <3> QED
      BY <1>1, <2>1, <3>1 DEF Behind
  <2>2. CASE Overtaken(u, b.round)
    <3>1. PICK V \in SUBSET Server :
            /\ HasQuorum(Cardinality(V))
            /\ \A v \in V :
                 /\ node[v].term > T /\ node[u].acked[v] < b.round
                 /\ \A i \in DOMAIN net[v][u] :
                      Confirms(net[v][u][i], T) => net[v][u][i].round < b.round
      BY <2>2 DEF Overtaken
    <3>2. ASSUME NEW v \in V
          PROVE  /\ node'[v].term > T /\ node[u].acked[v] < b.round
                 /\ \A i \in DOMAIN net'[v][u] :
                      Confirms(net'[v][u][i], T) => net'[v][u][i].round < b.round
      <4>1. node'[v].term > T
        <5>1. CASE v = s
          <6>1. node'[s].term = n.term /\ n.term >= node[s].term
            BY SentFields DEF ReadStep, SameVote
          <6> QED
            BY <1>2, <3>1, <5>1, <6>1
        <5>2. CASE v # s
          BY <3>1, <5>2 DEF ReadStep
        <5> QED
          BY <5>1, <5>2
      <4>2. ASSUME NEW i \in DOMAIN net'[v][u], Confirms(net'[v][u][i], T)
            PROVE  net'[v][u][i].round < b.round
        <5>1. CASE \E j \in DOMAIN net[v][u] : net'[v][u][i] = net[v][u][j]
          BY <3>1, <4>2, <5>1
        <5>2. ASSUME v = s, NEW j \in DOMAIN n.out[u],
                     net'[v][u][i] = n.out[u][j]
              PROVE  FALSE
          <6>1. n.term = T
            BY <4>2, <5>2 DEF Honest, Confirms
          <6>2. n.term >= node[s].term
            BY DEF ReadStep
          <6> QED
            BY <1>2, <3>1, <5>2, <6>1, <6>2
        <5> QED
          BY <5>1, <5>2 DEF ReadStep
      <4> QED
        BY <3>1, <4>1, <4>2
    <3> QED
      BY <1>1, <3>1, <3>2 DEF Overtaken
  <2> QED
    BY <1>1, <2>1, <2>2 DEF Leading
<1> QED
  BY <1>1, <1>3, <1>4, <1>5, <1>6, <1>7 DEF Leading

(* No success and no answer is in a term that has had no leader. *)
LEMMA TermsStayElected ==
    ASSUME Inv, Inv', SafetyInv, ReadInv, NEW s \in Server, NEW n,
           ReadStep(s, n), Honest(s, n), Reports(n)
    PROVE  TermsElected'
<1>1. elected \subseteq elected' /\ TermsElected
  BY DEF ReadStep, ReadInv
<1>2. ASSUME NEW f \in Server, NEW t \in Server, NEW i \in DOMAIN net'[f][t],
             Confirms(net'[f][t][i], net'[f][t][i].term)
      PROVE  \E e \in elected' : e[2] = net'[f][t][i].term
  <2>1. CASE \E j \in DOMAIN net[f][t] : net'[f][t][i] = net[f][t][j]
    BY <1>1, <1>2, <2>1 DEF TermsElected
  <2>2. ASSUME f = s, NEW j \in DOMAIN n.out[t], net'[f][t][i] = n.out[t][j]
        PROVE  \E e \in elected' : e[2] = net'[f][t][i].term
    <3>1. PICK k \in DOMAIN net[t][s] :
            /\ net[t][s][k].type = "AppendEntries"
            /\ net[t][s][k].term = n.out[t][j].term
      BY <1>2, <2>2 DEF Honest, Confirms
    <3>2. \E e \in elected : e[2] = net[t][s][k].term
      BY <3>1, RequestElected
    <3> QED
      BY <1>1, <2>2, <3>1, <3>2
  <2> QED
    BY <2>1, <2>2 DEF ReadStep
<1>3. ASSUME NEW c \in Completed' PROVE \E e \in elected' : e[2] = c.term
  <2>1. CASE c \in Completed
    BY <1>1, <2>1 DEF TermsElected
  <2>2. CASE c \in n.told /\ c.type = "Applied"
    <3>1. n.role = "Leader" /\ n.term = c.term
      BY <2>2 DEF Reports
    <3>2. node'[s].role = "Leader" /\ node'[s].term = c.term
      BY <3>1, SentFields DEF ReadStep, SameVote
    <3>3. <<s, c.term>> \in elected'
      BY <3>2 DEF Inv, ElectionInv, LeadersAreElected
    <3> QED
      BY <3>3
  <2> QED
    BY <2>1, <2>2 DEF Completed, ReadStep
<1> QED
  BY <1>2, <1>3 DEF TermsElected

(* A step that keeps its own server in the lead and serves fresh reads. *)
LEMMA StepReads ==
    ASSUME Inv, Inv', SafetyInv, ReadInv, NEW s \in Server, NEW n,
           ReadStep(s, n), Honest(s, n), Reports(n),
           n.role = "Leader" => Leading(s)',
           Durable => \A x \in n.told : x.type = "ReadServed" =>
                        x.need \subseteq x.data
    PROVE  ReadInv'
<1>1. TermsElected'
  BY TermsStayElected
<1>2. ASSUME NEW u \in Server, node'[u].role = "Leader" PROVE Leading(u)'
  <2>1. CASE u # s
    BY <1>2, <2>1, OthersLead
  <2>2. CASE u = s
    <3>1. n.role = "Leader"
      BY <1>2, <2>2, SentFields DEF ReadStep, SameVote
    <3> QED
      BY <2>2, <3>1
  <2> QED
    BY <2>1, <2>2
<1>3. Durable => ReadsSeeAcknowledged'
  BY DEF ReadStep, ReadInv, ReadsSeeAcknowledged
<1> QED
  BY <1>1, <1>2, <1>3 DEF ReadInv

(* A step of s that does not lead. *)
LEMMA QuietReads ==
    ASSUME Inv, Inv', SafetyInv, ReadInv, NEW s \in Server, NEW n,
           ReadStep(s, n), Honest(s, n), n.role # "Leader", n.told = {}
    PROVE  ReadInv'
<1>1. Reports(n)
  BY DEF Reports
<1> QED
  BY <1>1, StepReads

(* A leader's overtaking stays: what the quorum sends now is of its term. *)
Contact(s, n) ==
    \A v \in Server :
      \/ n.acked[v] = node[s].acked[v]
      \/ \E i \in DOMAIN net[v][s] : /\ Confirms(net[v][s][i], node[s].term)
                                     /\ n.acked[v] = net[v][s][i].round

(* A quorum that has gone on to later terms never answers an old round:    *)
(* what it answers from now on, it answers in its later term.              *)
LEMMA OvertakenStays ==
    ASSUME Inv, NEW s \in Server, NEW n, ReadStep(s, n), n.term = node[s].term,
           Contact(s, n), NEW R, Overtaken(s, R)
    PROVE  Overtaken(s, R)'
<1>1. PICK V \in SUBSET Server :
        /\ HasQuorum(Cardinality(V))
        /\ \A v \in V :
             /\ node[v].term > node[s].term /\ node[s].acked[v] < R
             /\ \A i \in DOMAIN net[v][s] :
                  Confirms(net[v][s][i], node[s].term) => net[v][s][i].round < R
  BY DEF Overtaken
<1>2. /\ node'[s].term = node[s].term /\ node'[s].acked = n.acked
      /\ node[s].term \in Nat
  BY SentFields, NodeFields DEF ReadStep, SameVote, Inv, TypeInv, TypeOK
<1>3. ASSUME NEW v \in V
      PROVE  /\ node'[v].term > node'[s].term /\ node'[s].acked[v] < R
             /\ \A i \in DOMAIN net'[v][s] :
                  Confirms(net'[v][s][i], node'[s].term) =>
                    net'[v][s][i].round < R
  <2>1. v # s
    BY <1>1, <1>2
  <2>2. node'[v] = node[v]
    BY <2>1 DEF ReadStep
  <2>3. n.acked[v] < R
    BY <1>1 DEF Contact
  <2>4. ASSUME NEW i \in DOMAIN net'[v][s]
        PROVE  \E j \in DOMAIN net[v][s] : net'[v][s][i] = net[v][s][j]
    BY <2>1 DEF ReadStep
  <2> QED
    BY <1>1, <1>2, <2>2, <2>3, <2>4
<1> QED
  BY <1>1, <1>3 DEF Overtaken

(* What a node claims does not depend on its messages and answers. *)
LEMMA SentFirm ==
    ASSUME NEW n \in NodeState, NEW N \in Nat, NEW B, Firm(n, N, B)
    PROVE  Firm(Sent(n), N, n.barriers) /\ n.barriers \subseteq B
<1> DEFINE r == Sent(n)
<1>1. /\ r \in NodeState /\ SameVote(n, r)
      /\ r.log = n.log /\ r.snapIndex = n.snapIndex
      /\ r.snapTerm = n.snapTerm /\ r.commit = n.commit
      /\ r.applied = n.applied /\ r.data = n.data
      /\ r.match = n.match /\ r.acked = n.acked /\ r.round = n.round
      /\ r.barriers = n.barriers
      /\ r.out = [t \in Server |-> << >>] /\ r.told = {}
  BY SentFields
<1>2. /\ LastIndex(r) = LastIndex(n)
      /\ \A k : TermAt(r, k) = TermAt(n, k) /\ Stored(r, k) = Stored(n, k)
  BY <1>1, SameLast
<1> HIDE DEF r
<1>3. r.out \in [Server -> Seq(Requests(N, r.round))]
  BY <1>1
<1>4. Settled(r, N)
  BY <1>1, <1>2 DEF Firm, Steady, Settled, SameVote
<1>5. Counted(r, N)
  BY <1>1, <1>2 DEF Firm, Steady, Counted, SameVote
<1>6. Awaited(r, n.barriers) /\ n.barriers \subseteq B
  BY <1>1 DEF Firm, Steady, Awaited
<1>7. Tells(r, N, n.barriers)
  BY <1>1 DEF Tells
<1>8. Reached(r, N) /\ Timely(r, N)
  BY <1>1 DEF Firm, Reached, Timely, Peers, SameVote
<1> QED
  BY <1>3, <1>4, <1>5, <1>6, <1>7, <1>8 DEF Firm, Steady, r

(* A read is answered that nobody can have overtaken. *)
LEMMA NotOvertaken ==
    ASSUME Inv, NEW s \in Server, NEW n \in NodeState, node[s] = n,
           NEW R \in Nat, QuorumAcknowledged(n, R), Overtaken(s, R)
    PROVE  FALSE
<1> DEFINE A == {v \in Peers(n) : n.acked[v] >= R}
           Q == A \cup {s}
<1>1. n.id = s /\ n.term \in Nat /\ n.acked \in [Server -> Nat]
  BY NodeFields DEF Inv, TypeInv, TypeOK
<1>2. PICK V \in SUBSET Server :
        /\ HasQuorum(Cardinality(V))
        /\ \A v \in V : node[v].term > n.term /\ n.acked[v] < R
  BY DEF Overtaken
<1>3. IsFiniteSet(A) /\ s \notin A /\ A \subseteq Server
  BY <1>1, ServerAssumption, FS_Subset DEF Peers
<1>4. HasQuorum(1 + Cardinality(A))
  BY DEF QuorumAcknowledged
<1> HIDE DEF A
<1>5. Cardinality(Q) = Cardinality(A) + 1 /\ Cardinality(A) \in Nat
  BY <1>3, FS_AddElement, FS_CardinalityType
<1>6. HasQuorum(Cardinality(Q)) /\ Q \in SUBSET Server
  BY <1>3, <1>4, <1>5
<1> HIDE DEF Q
<1>7. PICK v \in Q : v \in V
  BY <1>2, <1>6, QuorumsIntersect
<1>8. CASE v = s
  BY <1>1, <1>2, <1>7, <1>8
<1>9. CASE v # s
  <2>1. v \in A
    BY <1>7, <1>9 DEF Q
  <2> QED
    BY <1>1, <1>2, <1>7, <2>1 DEF A
<1> QED
  BY <1>8, <1>9

(* A round that a quorum has answered was not overtaken. *)
NoneServedOvertaken ==
    \A s \in Server, R \in Nat : QuorumAcknowledged(node[s], R) => ~Overtaken(s, R)

(* Two quorums share a server, and it cannot both have answered the round  *)
(* and have gone on without answering it.                                  *)
LEMMA NoneOvertaken == Inv => NoneServedOvertaken
<1> SUFFICES ASSUME Inv, NEW s \in Server, NEW R \in Nat,
                    QuorumAcknowledged(node[s], R), Overtaken(s, R)
             PROVE  FALSE
  BY DEF NoneServedOvertaken
<1>1. node[s] \in NodeState
  BY DEF Inv, TypeInv, TypeOK
<1> QED
  BY <1>1, NotOvertaken

(* A leader goes on leading. *)
LEMMA LeaderReads ==
    ASSUME Inv, Inv', LogInv', SafetyInv, SafetyInv', ReadInv,
           NEW s \in Server, NEW n, ReadStep(s, n),
           node[s].role = "Leader", n.role = "Leader", n.term = node[s].term,
           NEW N \in Nat, RequestsReach(s, N), AnswersReach(s, N),
           NEW B \in SUBSET ReadBarrier, Firm(n, N, B),
           n.round >= node[s].round, n.applied >= node[s].applied,
           \A b \in B : Overtaken(s, b.round)' \/ Behind(b.need, node[s].term)'
    PROVE  ReadInv'
<1> DEFINE r == Sent(n)
           T == n.term
<1>1. /\ n \in NodeState /\ n.id = s /\ node'[s] = r
      /\ T \in Nat /\ n.round \in Nat /\ n.applied \in Nat
      /\ node[s].round \in Nat /\ node[s].applied \in Nat
  BY NodeFields DEF ReadStep, Inv, TypeInv, TypeOK
<1>2. /\ r.term = T /\ r.role = "Leader" /\ r.applied = n.applied
      /\ r.round = n.round /\ r.barriers = n.barriers /\ r.data = n.data
      /\ r.acked = n.acked /\ r.id = s
  BY <1>1, SentFields DEF SameVote
<1>3. Firm(r, N, r.barriers) /\ r.barriers \subseteq B
  BY <1>1, <1>2, SentFirm
<1> HIDE DEF r
<1>4. ASSUME NEW t \in Server, NEW i \in DOMAIN n.out[t]
      PROVE  /\ n.out[t][i].type = "AppendEntries" =>
                  /\ n.out[t][i].round <= n.round
                  /\ n.out[t][i].prevIndex + Len(n.out[t][i].entries) >= N
             /\ n.out[t][i].type = "AppendEntriesResponse" =>
                  ~n.out[t][i].success
  <2> DEFINE Q == Requests(N, n.round)
  <2>1. n.out[t] \in Seq(Q)
    BY DEF Firm, Steady
  <2> HIDE DEF Q
  <2>2. n.out[t][i] \in Q
    BY <2>1
  <2> QED
    BY <2>2 DEF Q, Requests
<1>5. RequestsReach(s, N)'
  <2> SUFFICES ASSUME NEW t \in Server, NEW i \in DOMAIN net'[s][t],
                      net'[s][t][i].type = "AppendEntries",
                      net'[s][t][i].term = T
               PROVE  /\ net'[s][t][i].round <= n.round
                      /\ net'[s][t][i].prevIndex
                           + Len(net'[s][t][i].entries) >= N
    BY <1>1, <1>2 DEF RequestsReach
  <2>1. ASSUME NEW j \in DOMAIN net[s][t], net'[s][t][i] = net[s][t][j]
        PROVE  /\ net'[s][t][i].round <= n.round
               /\ net'[s][t][i].prevIndex + Len(net'[s][t][i].entries) >= N
    <3>1. net[s][t][j] \in AppendEntriesRequest
      BY <2>1, MessageOfType DEF Inv, TypeInv, TypeOK
    <3>2. /\ net[s][t][j].round <= node[s].round
          /\ net[s][t][j].prevIndex + Len(net[s][t][j].entries) >= N
      BY <2>1 DEF RequestsReach
    <3>3. net[s][t][j].round \in Nat
      BY <3>1 DEF AppendEntriesRequest
    <3> QED
      BY <1>1, <2>1, <3>2, <3>3
  <2> QED
    BY <1>4, <2>1 DEF ReadStep
<1>6. AnswersReach(s, N)'
  <2> SUFFICES ASSUME NEW t \in Server, NEW i \in DOMAIN net'[t][s],
                      Confirms(net'[t][s][i], T)
               PROVE  net'[t][s][i].round <= n.round /\ net'[t][s][i].match >= N
    BY <1>1, <1>2 DEF AnswersReach
  <2>1. ASSUME NEW j \in DOMAIN net[t][s], net'[t][s][i] = net[t][s][j]
        PROVE  net'[t][s][i].round <= n.round /\ net'[t][s][i].match >= N
    <3>1. net[t][s][j] \in AppendEntriesResponse
      BY <2>1, MessageOfType DEF Inv, TypeInv, TypeOK, Confirms
    <3>2. /\ net[t][s][j].round <= node[s].round /\ net[t][s][j].match >= N
      BY <2>1 DEF AnswersReach
    <3>3. net[t][s][j].round \in Nat
      BY <3>1 DEF AppendEntriesResponse
    <3> QED
      BY <1>1, <2>1, <3>2, <3>3
  <2> QED
    BY <1>4, <2>1 DEF ReadStep, Confirms
<1>7. Tells(n, N, B)
  BY DEF Firm, Steady
<1>8. ASSUME NEW c \in Completed', c.term = T PROVE c.index <= n.applied
  <2>1. CASE c \in Completed
    <3>1. c.index <= node[s].applied
      BY <1>8, <2>1 DEF ReadInv, Leading
    <3>2. c.index \in Nat
      <4>1. c \in Applied \cup ReadServed /\ c.type = "Applied"
        BY <2>1 DEF Completed, Inv, TypeInv, TypeOK
      <4>2. c \in Applied
        BY <4>1 DEF ReadServed
      <4> QED
        BY <4>2 DEF Applied
    <3> QED
      BY <1>1, <3>1, <3>2
  <2>2. CASE c \in n.told /\ c.type = "Applied"
    BY <1>7, <2>2 DEF Tells
  <2> QED
    BY <2>1, <2>2 DEF Completed, ReadStep
<1>9. Leading(s)'
  <2>1. /\ Steady(node'[s], N, node'[s].barriers)
        /\ Reached(node'[s], N) /\ Timely(node'[s], N)
    BY <1>1, <1>3 DEF Firm
  <2>2. \A c \in Completed' : c.term = node'[s].term => c.index <= node'[s].applied
    BY <1>1, <1>2, <1>8
  <2>3. \A b \in node'[s].barriers :
          Overtaken(s, b.round)' \/ Behind(b.need, node[s].term)'
    BY <1>1, <1>2, <1>3 DEF Behind
  <2> QED
    BY <1>5, <1>6, <2>1, <2>2, <2>3 DEF Leading
<1>10. ASSUME Durable, NEW x \in n.told, x.type = "ReadServed"
       PROVE  x.need \subseteq x.data
  <2>1. PICK b \in B : x.need = b.need /\ QuorumAcknowledged(n, b.round)
    BY <1>7, <1>10 DEF Tells
  <2>2. n.applied >= N /\ x.data = n.data
    BY <1>7, <1>10 DEF Tells
  <2>3. NoneServedOvertaken'
    BY NoneOvertaken, PTL
  <2>4. LeadersApply' /\ StoresHave'
    <3>1. LeadersApply' /\ (Durable => StoresHave)'
      BY LeadersHaveApplied, StoresHaveAcknowledged, PTL
    <3> QED
      BY <1>10, <3>1
  <2>5. b.round \in Nat
    BY DEF ReadBarrier
  <2>6. QuorumAcknowledged(node'[s], b.round)
    BY <1>1, <1>2, <2>1 DEF QuorumAcknowledged, Peers
  <2>7. ~Overtaken(s, b.round)'
    BY <2>3, <2>5, <2>6 DEF NoneServedOvertaken
  <2>8. Behind(b.need, node[s].term)'
    BY <2>7
  <2>9. ASSUME NEW y \in x.need PROVE y \in x.data
    <3>1. PICK c \in Completed' : c.command = y /\ c.term <= T
      BY <1>1, <1>2, <2>1, <2>8, <2>9 DEF Behind
    <3>2. c.term \in Nat
      <4>1. c \in Applied \cup ReadServed /\ c.type = "Applied"
        BY DEF Completed, Inv, TypeInv, TypeOK
      <4>2. c \in Applied
        BY <4>1 DEF ReadServed
      <4> QED
        BY <4>2 DEF Applied
    <3>3. c.index <= n.applied
      <4>1. CASE c.term = T
        BY <1>8, <4>1
      <4>2. CASE c.term < T
        BY <1>1, <1>2, <1>3, <2>2, <2>4, <4>2
           DEF LeadersApply, Firm, Steady
      <4> QED
        BY <1>1, <3>1, <3>2, <4>1, <4>2
    <3>4. c.index \in Nat
      <4>1. c \in Applied \cup ReadServed /\ c.type = "Applied"
        BY DEF Completed, Inv, TypeInv, TypeOK
      <4>2. c \in Applied
        BY <4>1 DEF ReadServed
      <4> QED
        BY <4>2 DEF Applied
    <3>5. node'[s].applied >= c.index
      BY <1>1, <1>2, <3>3, <3>4
    <3> QED
      BY <1>1, <1>2, <2>2, <2>4, <3>1, <3>5 DEF StoresHave
  <2> QED
    BY <2>9
<1>11. Honest(s, n) /\ Reports(n)
  BY <1>7, RequestsHonest DEF Firm, Steady, Reports, Tells
<1> QED
  BY <1>9, <1>10, <1>11, StepReads

(* A new leader: nobody speaks of its term yet. *)
LEMMA NewLeaderReads ==
    ASSUME Inv, Inv', SafetyInv, ReadInv,
           NEW s \in Server, NEW n, ReadStep(s, n), n.role = "Leader",
           <<s, n.term>> \notin elected,
           NEW N \in Nat, Firm(n, N, {}), Idle(n)
    PROVE  ReadInv'
<1> DEFINE r == Sent(n)
           T == n.term
<1>1. n \in NodeState /\ n.id = s /\ node'[s] = r /\ T \in Nat
  BY NodeFields DEF ReadStep
<1>2. /\ r.term = T /\ r.role = "Leader" /\ r.round = n.round
      /\ r.barriers = {}
  BY <1>1, SentFields DEF SameVote, Idle
<1>3. Firm(r, N, r.barriers)
  <2>1. Firm(Sent(n), N, n.barriers)
    BY <1>1, SentFirm
  <2> QED
    BY <1>2, <2>1 DEF Idle
<1> HIDE DEF r
<1>4. ASSUME NEW t \in Server, NEW i \in DOMAIN n.out[t]
      PROVE  /\ n.out[t][i].type = "AppendEntries" =>
                  /\ n.out[t][i].round <= n.round
                  /\ n.out[t][i].prevIndex + Len(n.out[t][i].entries) >= N
             /\ n.out[t][i].type = "AppendEntriesResponse" =>
                  ~n.out[t][i].success
  <2> DEFINE Q == Requests(N, n.round)
  <2>1. n.out[t] \in Seq(Q)
    BY DEF Firm, Steady
  <2> HIDE DEF Q
  <2>2. n.out[t][i] \in Q
    BY <2>1
  <2> QED
    BY <2>2 DEF Q, Requests
<1>5. ASSUME NEW e \in elected, e[2] = T PROVE FALSE
  <2>1. <<s, T>> \in elected' /\ e \in elected'
    BY <1>1, <1>2 DEF Inv, ElectionInv, LeadersAreElected, ReadStep
  <2>2. ElectionSafety'
    BY OneLeader, PTL
  <2>3. e = <<s, T>>
    BY <1>5, <2>1, <2>2 DEF ElectionSafety
  <2> QED
    BY <2>3
<1>6. RequestsReach(s, N)'
  <2> SUFFICES ASSUME NEW t \in Server, NEW i \in DOMAIN net'[s][t],
                      net'[s][t][i].type = "AppendEntries",
                      net'[s][t][i].term = T
               PROVE  /\ net'[s][t][i].round <= n.round
                      /\ net'[s][t][i].prevIndex
                           + Len(net'[s][t][i].entries) >= N
    BY <1>1, <1>2 DEF RequestsReach
  <2>1. ASSUME NEW j \in DOMAIN net[s][t], net'[s][t][i] = net[s][t][j]
        PROVE  FALSE
    BY <1>5, <2>1, RequestElected
  <2> QED
    BY <1>4, <2>1 DEF ReadStep
<1>7. AnswersReach(s, N)'
  <2> SUFFICES ASSUME NEW t \in Server, NEW i \in DOMAIN net'[t][s],
                      Confirms(net'[t][s][i], T)
               PROVE  FALSE
    BY <1>1, <1>2 DEF AnswersReach
  <2>1. ASSUME NEW j \in DOMAIN net[t][s], net'[t][s][i] = net[t][s][j]
        PROVE  FALSE
    BY <1>5, <2>1 DEF ReadInv, TermsElected, Confirms
  <2> QED
    BY <1>4, <2>1 DEF ReadStep, Confirms
<1>8. ASSUME NEW c \in Completed', c.term = T PROVE FALSE
  <2>1. c \in Completed
    BY DEF Completed, ReadStep, Idle
  <2> QED
    BY <1>5, <1>8, <2>1 DEF ReadInv, TermsElected
<1>9. Leading(s)'
  <2>1. /\ Steady(node'[s], N, node'[s].barriers)
        /\ Reached(node'[s], N) /\ Timely(node'[s], N)
    BY <1>1, <1>3 DEF Firm
  <2>2. \A c \in Completed' : c.term # node'[s].term
    BY <1>1, <1>2, <1>8
  <2>3. node'[s].barriers = {}
    BY <1>1, <1>2
  <2> QED
    BY <1>6, <1>7, <2>1, <2>2, <2>3 DEF Leading
<1>10. Honest(s, n) /\ Reports(n)
  BY RequestsHonest DEF Firm, Steady, Reports, Idle
<1>11. \A x \in n.told : x.type = "ReadServed" => x.need \subseteq x.data
  BY DEF Idle
<1> QED
  BY <1>9, <1>10, <1>11, StepReads

(* Whoever was acknowledged by a later leader, that leader's voters have   *)
(* gone on without answering the round that begins now.                    *)
LEMMA LaterLeaderOvertakes ==
    ASSUME Inv, ReadInv, NEW s \in Server, node[s].role = "Leader",
           NEW c \in Completed, c.term > node[s].term
    PROVE  Overtaken(s, node[s].round + 1)
<1> DEFINE T == node[s].term
           R == node[s].round + 1
<1>1. /\ node[s].round \in Nat /\ T \in Nat
      /\ node[s].acked \in [Server -> Nat]
      /\ \A v \in Server : node[v].term \in Nat
  BY NodeFields DEF Inv, TypeInv, TypeOK
<1>2. PICK e \in elected : e[2] = c.term
  BY DEF ReadInv, TermsElected
<1>3. e[2] \in Nat /\ e[2] > T
  BY <1>2 DEF Inv, TypeInv, TypeOK
<1> DEFINE V == {v \in Server : <<v, e[1], e[2]>> \in cast}
<1>4. V \in SUBSET Server /\ HasQuorum(Cardinality(V))
  BY DEF Inv, ElectionInv, ElectedByQuorum
<1>5. PICK N \in Nat : /\ Steady(node[s], N, node[s].barriers)
                       /\ AnswersReach(s, N)
  BY DEF ReadInv, Leading
<1>6. ASSUME NEW v \in V
      PROVE  /\ node[v].term > T /\ node[s].acked[v] < R
             /\ \A i \in DOMAIN net[v][s] :
                  Confirms(net[v][s][i], T) => net[v][s][i].round < R
  <2>1. <<v, e[1], e[2]>> \in cast /\ v \in Server
    OBVIOUS
  <2>2. e[2] <= node[v].term
    <3>1. \/ e[2] < node[v].term
          \/ e[2] = node[v].term
      BY <2>1 DEF Inv, ElectionInv, VotesBindTheVoter
    <3> QED
      BY <1>1, <1>3, <2>1, <3>1
  <2>3. node[v].term > T
    BY <1>1, <1>3, <2>1, <2>2
  <2>4. node[s].acked[v] <= node[s].round
    BY <1>5, <2>1 DEF Steady, Counted
  <2>5. node[s].acked[v] < R
    BY <1>1, <2>1, <2>4
  <2>6. ASSUME NEW i \in DOMAIN net[v][s], Confirms(net[v][s][i], T)
        PROVE  net[v][s][i].round < R
    <3>1. net[v][s][i].round <= node[s].round
      BY <1>5, <2>1, <2>6 DEF AnswersReach
    <3>2. net[v][s] \in Seq(Message)
      BY <2>1 DEF Inv, TypeInv, TypeOK
    <3>3. net[v][s][i] \in Message
      BY <3>2
    <3>4. net[v][s][i] \in AppendEntriesResponse
      BY <2>6, <3>3, MessageOfType DEF Confirms
    <3>5. net[v][s][i].round \in Nat
      BY <3>4 DEF AppendEntriesResponse
    <3> QED
      BY <1>1, <3>1, <3>5
  <2> QED
    BY <2>3, <2>5, <2>6
<1> HIDE DEF V
<1> QED
  BY <1>4, <1>6 DEF Overtaken

(* What is acknowledged when a read begins. *)
LEMMA ReadBegins ==
    ASSUME Inv, ReadInv, NEW s \in Server, node[s].role = "Leader"
    PROVE  \/ Overtaken(s, node[s].round + 1)
           \/ Behind(Acknowledged, node[s].term)
<1>1. CASE \E c \in Completed : c.term > node[s].term
  BY <1>1, LaterLeaderOvertakes
<1>2. CASE ~\E c \in Completed : c.term > node[s].term
  <2>1. ASSUME NEW x \in Acknowledged
        PROVE  \E c \in Completed : c.command = x /\ c.term <= node[s].term
    <3>1. PICK c \in Completed : c.command = x
      BY DEF Acknowledged, Completed
    <3>2. c \in Applied \cup ReadServed /\ c.type = "Applied"
      BY DEF Completed, Inv, TypeInv, TypeOK
    <3>3. c \in Applied
      BY <3>2 DEF ReadServed
    <3>4. c.term \in Nat /\ node[s].term \in Nat
      BY <3>3, NodeFields DEF Applied, Inv, TypeInv, TypeOK
    <3> QED
      BY <1>2, <3>1, <3>4
  <2> QED
    BY <2>1 DEF Behind
<1> QED
  BY <1>1, <1>2

-----------------------------------------------------------------------------
(* What the functions of RaftNode do to rounds, applied index and answers. *)

(* r has heard of the same rounds as n, and has started and applied at     *)
(* least what n has.                                                       *)
Ahead(n, r) ==
    r.acked = n.acked /\ r.round >= n.round /\ r.applied >= n.applied

(* Parts of a handler that run one after the other. *)
LEMMA AheadTransitive ==
    ASSUME NEW n \in Node, NEW p \in Node, NEW r \in Node,
           Ahead(n, p), Ahead(p, r)
    PROVE  Ahead(n, r)
<1>1. /\ n.round \in Nat /\ p.round \in Nat /\ r.round \in Nat
      /\ n.applied \in Nat /\ p.applied \in Nat /\ r.applied \in Nat
  BY NodeFields DEF Node
<1> QED
  BY <1>1 DEF Ahead

(* evaluate_read_barriers() hears and applies nothing. *)
LEMMA EvaluateReadBarriersAhead ==
    ASSUME NEW n \in Node PROVE Ahead(n, EvaluateReadBarriers(n))
<1>1. n \in NodeState
  BY DEF Node
<1>2. n.round \in Nat /\ n.applied \in Nat
  BY <1>1, NodeFields
<1>3. LET r == EvaluateReadBarriers(n)
      IN  r.acked = n.acked /\ r.round = n.round /\ r.applied = n.applied
  BY <1>1, Zenon DEF EvaluateReadBarriers, NodeState
<1> QED
  BY <1>2, <1>3 DEF Ahead

(* apply_committed() only moves the applied index, and forward. *)
LEMMA ApplyCommittedAhead ==
    ASSUME NEW n \in Node, NEW limit \in Nat
    PROVE  Ahead(n, ApplyCommitted(n, limit))
<1>1. PICK upto \in Nat :
         LET r == Executed(n, upto)
             f == [r EXCEPT !.pending = {p \in @ : p.index <= upto},
                            !.barriers = {}]
         IN  /\ n.applied <= upto
             /\ n.applied < upto => upto <= LastIndex(n) /\ upto <= n.commit
             /\ ApplyCommitted(n, limit) \in {f, r, EvaluateReadBarriers(r)}
  BY ApplyCommittedCases, Zenon
<1> DEFINE r == Executed(n, upto)
           f == [r EXCEPT !.pending = {p \in @ : p.index <= upto},
                          !.barriers = {}]
<1>2. r \in Node /\ r \in NodeState /\ r.applied = upto
  BY <1>1, ExecutedType DEF Node
<1>3. n \in NodeState /\ n.round \in Nat /\ n.applied \in Nat
  BY NodeFields DEF Node
<1>4. r.acked = n.acked /\ r.round = n.round
  BY <1>3 DEF Executed, NodeState
<1> HIDE DEF r
<1>5. Ahead(n, r)
  BY <1>1, <1>2, <1>3, <1>4 DEF Ahead
<1>6. f.acked = r.acked /\ f.round = r.round /\ f.applied = r.applied
  BY <1>2 DEF NodeState
<1>7. Ahead(n, f)
  BY <1>5, <1>6 DEF Ahead
<1>8. Ahead(n, EvaluateReadBarriers(r))
  BY <1>2, <1>5, EvaluateReadBarriersAhead, EvaluateReadBarriersType,
     AheadTransitive
<1> HIDE DEF f
<1> QED
  BY <1>1, <1>5, <1>7, <1>8 DEF r, f

(* maybe_compact_log() keeps the applied index. *)
LEMMA MaybeCompactAhead ==
    ASSUME NEW n \in Node PROVE Ahead(n, MaybeCompact(n))
<1>1. n \in NodeState
  BY DEF Node
<1>2. n.round \in Nat /\ n.applied \in Nat
  BY <1>1, NodeFields
<1> QED
  BY <1>1, <1>2, SMTT(30) DEF Ahead, MaybeCompact, NodeState

(* The end of tick(). *)
LEMMA AfterTickAhead ==
    ASSUME NEW n \in Node, NEW limit \in Nat PROVE Ahead(n, AfterTick(n, limit))
<1> DEFINE r == ApplyCommitted(n, limit)
<1>1. r \in Node /\ Ahead(n, r)
  BY ApplyCommittedType, ApplyCommittedAhead
<1> HIDE DEF r
<1>2. MaybeCompact(r) \in Node /\ Ahead(r, MaybeCompact(r))
  BY <1>1, MaybeCompactType, MaybeCompactAhead
<1>3. Ahead(n, MaybeCompact(r))
  BY <1>1, <1>2, AheadTransitive
<1> QED
  BY <1>3 DEF AfterTick, r

(* send_append_entries() changes none of them. *)
LEMMA SendAppendEntriesAhead ==
    ASSUME NEW n \in Node, NEW S PROVE Ahead(n, SendAppendEntries(n, S))
<1>1. n \in NodeState
  BY DEF Node
<1>2. n.round \in Nat /\ n.applied \in Nat
  BY <1>1, NodeFields
<1> DEFINE behind == {s \in S : n.next[s] <= n.snapIndex}
           out == [s \in Server |->
                     IF s \in {t \in S : Stored(n, n.next[t] - 1)}
                     THEN Append(n.out[s], AppendEntriesTo(n, s)) ELSE n.out[s]]
           p == [n EXCEPT !.out = out]
<1>3. SendAppendEntries(n, S) = SendSnapshot(p, behind)
  BY DEF SendAppendEntries
<1> HIDE DEF out, behind
<1>4. \A X : LET r == SendSnapshot(p, X)
            IN  r.acked = n.acked /\ r.round = n.round /\ r.applied = n.applied
  BY <1>1 DEF SendSnapshot, NodeState
<1> QED
  BY <1>2, <1>3, <1>4 DEF Ahead

(* send_heartbeats() starts a round. *)
LEMMA SendHeartbeatsAhead ==
    ASSUME NEW n \in Node PROVE Ahead(n, SendHeartbeats(n))
<1> DEFINE a == [n EXCEPT !.round = @ + 1]
<1>1. n \in NodeState
  BY DEF Node
<1>2. n.round \in Nat /\ n.applied \in Nat
  BY <1>1, NodeFields
<1>3. a \in Node
  <2>1. n.round + 1 \in Nat
    BY <1>2
  <2>2. a \in NodeState
    BY <1>1, <2>1 DEF NodeState
  <2>3. a.out = n.out /\ a.snapIndex = n.snapIndex /\ a.applied = n.applied
    BY <1>1 DEF NodeState
  <2> HIDE DEF a
  <2> QED
    BY <2>2, <2>3 DEF Node
<1>4. Ahead(n, a)
  BY <1>1, <1>2, SMTT(30) DEF Ahead, NodeState
<1> HIDE DEF a
<1>5. /\ SendAppendEntries(a, Peers(n)) \in Node
      /\ Ahead(a, SendAppendEntries(a, Peers(n)))
  BY <1>3, SendAppendEntriesAhead, SendAppendEntriesType
<1>6. Ahead(n, SendAppendEntries(a, Peers(n)))
  BY <1>3, <1>4, <1>5, AheadTransitive
<1> QED
  BY <1>6 DEF SendHeartbeats, a

(* advance_commit() applies and starts a round. *)
LEMMA AdvanceCommitAhead ==
    ASSUME NEW n \in Node, NEW limit \in Nat, QuorumMatchIndex(n) \in Nat
    PROVE  Ahead(n, AdvanceCommit(n, limit))
<1> DEFINE k == QuorumMatchIndex(n)
           a == [n EXCEPT !.commit = k]
           r == ApplyCommitted(a, limit)
<1>1. n \in NodeState
  BY DEF Node
<1>2. n.round \in Nat /\ n.applied \in Nat
  BY <1>1, NodeFields
<1> HIDE DEF k
<1>3. k \in Nat
  BY DEF k
<1>4. a \in Node
  BY <1>1, <1>3 DEF Node, NodeState
<1>5. Ahead(n, a) /\ Ahead(n, n)
  <2>1. a.acked = n.acked /\ a.round = n.round /\ a.applied = n.applied
    BY <1>1 DEF NodeState
  <2> HIDE DEF a
  <2> QED
    BY <1>2, <2>1 DEF Ahead
<1> HIDE DEF a
<1>6. r \in Node /\ Ahead(a, r)
  BY <1>4, ApplyCommittedType, ApplyCommittedAhead
<1> HIDE DEF r
<1>7. Ahead(n, r)
  BY <1>4, <1>5, <1>6, AheadTransitive
<1>8. SendHeartbeats(r) \in Node /\ Ahead(r, SendHeartbeats(r))
  BY <1>6, SendHeartbeatsType, SendHeartbeatsAhead
<1>9. Ahead(n, SendHeartbeats(r))
  BY <1>6, <1>7, <1>8, AheadTransitive
<1> QED
  BY <1>5, <1>7, <1>9 DEF AdvanceCommit, k, a, r

-----------------------------------------------------------------------------
(* The steps. *)

(* A leader between two steps. *)
LEMMA LeaderFirm ==
    ASSUME Inv, ReadInv, NEW s \in Server, node[s].role = "Leader"
    PROVE  /\ node[s] \in Node /\ node[s] \in NodeState /\ node[s].id = s
           /\ node[s].told = {}
           /\ \E N \in Nat : /\ Firm(node[s], N, node[s].barriers)
                             /\ RequestsReach(s, N) /\ AnswersReach(s, N)
<1>1. node[s] \in Node /\ node[s] \in NodeState /\ node[s].id = s
  BY NodeOfServer DEF Inv, Node
<1>2. node[s].told = {}
  BY DEF Inv, TypeInv, TypeOK
<1> QED
  BY <1>1, <1>2 DEF ReadInv, Leading, Firm

(* Between two steps only a leader owes answers. *)
LEMMA OthersIdle ==
    ASSUME Inv, LogInv, NEW s \in Server, node[s].role # "Leader"
    PROVE  /\ node[s] \in Node /\ node[s] \in NodeState /\ node[s].id = s
           /\ Idle(node[s]) /\ node[s].out = [t \in Server |-> << >>]
<1>1. node[s] \in Node /\ node[s] \in NodeState /\ node[s].id = s
  BY NodeOfServer DEF Inv, Node
<1>2. node[s].told = {} /\ node[s].out = [t \in Server |-> << >>]
  BY DEF Inv, TypeInv, TypeOK
<1>3. node[s].pending = {} /\ node[s].barriers = {}
  BY DEF LogInv, DebtsBacked, Owed
<1> QED
  BY <1>1, <1>2, <1>3 DEF Idle

(* A leader comes out of a step as the leader of the same term. *)
LEMMA LeadingStep ==
    ASSUME Inv, Inv', LogInv', SafetyInv, SafetyInv', ReadInv,
           NEW s \in Server, node[s].role = "Leader",
           NEW n, ReadStep(s, n), n.role = "Leader",
           n.term = node[s].term,
           NEW N \in Nat, RequestsReach(s, N), AnswersReach(s, N),
           Firm(n, N, node[s].barriers), Contact(s, n),
           n.round >= node[s].round, n.applied >= node[s].applied
    PROVE  ReadInv'
<1>1. node[s] \in NodeState /\ node[s].term \in Nat
  BY NodeFields DEF Inv, TypeInv, TypeOK
<1>2. ReadStep(s, n)
  OBVIOUS
<1>3. node[s].barriers \in SUBSET ReadBarrier
  BY <1>1, NodeFields
<1>4. ASSUME NEW b \in node[s].barriers
      PROVE  Overtaken(s, b.round)' \/ Behind(b.need, node[s].term)'
  <2>1. CASE Overtaken(s, b.round)
    BY <1>2, <2>1, OvertakenStays
  <2>2. CASE Behind(b.need, node[s].term)
    <3>1. Completed \subseteq Completed'
      BY <1>2 DEF ReadStep, Completed
    <3>2. node'[s].term = node[s].term
      BY <1>2, SentFields DEF ReadStep, SameVote
    <3> QED
      BY <2>2, <3>1, <3>2 DEF Behind
  <2> QED
    BY <2>1, <2>2 DEF ReadInv, Leading
<1> DEFINE B == node[s].barriers
<1>5. B \in SUBSET ReadBarrier /\ Firm(n, N, B)
  BY <1>3
<1>6. \A b \in B : Overtaken(s, b.round)' \/ Behind(b.need, node[s].term)'
  BY <1>4
<1> HIDE DEF B
<1> QED
  BY <1>2, <1>5, <1>6, LeaderReads

(* A leader ends a step as the leader of the same term. *)
LEMMA LeadingEnds ==
    ASSUME Inv, Inv', LogInv', SafetyInv, SafetyInv', ReadInv,
           NEW s \in Server, node[s].role = "Leader",
           NEW n \in NodeState, n.id = s, n.role = "Leader",
           n.term = node[s].term, Ends(s, n),
           NEW N \in Nat, RequestsReach(s, N), AnswersReach(s, N),
           Firm(n, N, node[s].barriers), Contact(s, n),
           n.round >= node[s].round, n.applied >= node[s].applied
    PROVE  ReadInv'
<1>1. node[s].term \in Nat
  BY NodeFields DEF Inv, TypeInv, TypeOK
<1>2. ReadStep(s, n)
  BY <1>1, EndsRead
<1> QED
  BY <1>2, LeadingStep

(* The same when s has heard nothing new. *)
LEMMA LeadingOn ==
    ASSUME Inv, Inv', LogInv', SafetyInv, SafetyInv', ReadInv,
           NEW s \in Server, node[s].role = "Leader",
           NEW n \in Node, SameVote(node[s], n), Ends(s, n),
           NEW N \in Nat, RequestsReach(s, N), AnswersReach(s, N),
           Firm(n, N, node[s].barriers), Ahead(node[s], n)
    PROVE  ReadInv'
<1>1. n \in NodeState /\ node[s].id = s
  BY DEF Node, Inv, TypeInv, TypeOK
<1>2. n.id = s /\ n.role = "Leader" /\ n.term = node[s].term
  BY <1>1 DEF SameVote
<1>3. /\ Contact(s, n) /\ n.round >= node[s].round
      /\ n.applied >= node[s].applied
  BY DEF Ahead, Contact
<1> QED
  BY <1>1, <1>2, <1>3, LeadingEnds

(* A step after which s leads no group. *)
LEMMA QuietEnds ==
    ASSUME Inv, Inv', SafetyInv, ReadInv, NEW s \in Server,
           NEW n \in NodeState, n.id = s, n.term >= node[s].term, Ends(s, n),
           Honest(s, n), n.role # "Leader", n.told = {}
    PROVE  ReadInv'
  BY EndsRead, QuietReads

(* A node that sends nothing claims nothing. *)
LEMMA SilentHonest ==
    ASSUME NEW s, NEW n, n.out = [t \in Server |-> << >>]
    PROVE  Honest(s, n)
  BY DEF Honest

(* tick() of a leader, and of another server. *)
LEMMA TickIdleReads ==
    ASSUME Inv, Inv', LogInv, LogInv', SafetyInv, SafetyInv', ReadInv,
           NEW s \in Server, TickIdle(s)
    PROVE  ReadInv'
<1> DEFINE n == node[s]
<1>1. n \in Node
  BY NodeOfServer DEF Inv
<1>2. PICK limit \in Limits(n) : Become(s, AfterTick(n, limit), net)
  BY DEF TickIdle
<1>3. limit \in Nat
  BY <1>1, LimitsType
<1> DEFINE r == AfterTick(n, limit)
<1>4. Ends(s, r)
  BY <1>2 DEF Ends
<1>5. r \in Node /\ SameVote(n, r) /\ Ahead(n, r)
  BY <1>1, <1>3, AfterTickType, AfterTickAhead
<1>6. CASE n.role = "Leader"
  <2>1. PICK N \in Nat : /\ Firm(n, N, n.barriers)
                         /\ RequestsReach(s, N) /\ AnswersReach(s, N)
    BY <1>6, LeaderFirm
  <2>2. n.told = {}
    BY <1>6, LeaderFirm
  <2>3. Firm(r, N, n.barriers)
    BY <1>1, <1>3, <2>1, <2>2, AfterTickFirm DEF Firm
  <2> HIDE DEF r
  <2> QED
    BY <1>4, <1>5, <1>6, <2>1, <2>3, LeadingOn
<1>7. CASE n.role # "Leader"
  <2>1. Idle(n) /\ n.out = [t \in Server |-> << >>] /\ n.id = s
    BY <1>7, OthersIdle
  <2>2. Idle(r) /\ r.out = [t \in Server |-> << >>]
    BY <1>1, <1>3, <2>1, AfterTickIdle
  <2> HIDE DEF r
  <2>3. Honest(s, r) /\ r.told = {}
    BY <2>2, SilentHonest DEF Idle
  <2>4. r \in NodeState /\ r.id = s /\ r.term >= n.term /\ r.role # "Leader"
    <3>1. r \in NodeState /\ r.term \in Nat
      BY <1>5, NodeFields DEF Node
    <3> QED
      BY <1>5, <1>7, <2>1, <3>1 DEF SameVote
  <2> QED
    BY <1>4, <2>3, <2>4, QuietEnds
<1> QED
  BY <1>6, <1>7

(* tick() whose snapshot could not be written. *)
LEMMA TickCompactionFailsReads ==
    ASSUME Inv, Inv', LogInv, LogInv', SafetyInv, SafetyInv', ReadInv,
           NEW s \in Server, TickCompactionFails(s)
    PROVE  ReadInv'
<1> DEFINE n == node[s]
           limit == Bound["log"]
           r == ApplyCommitted(n, limit)
<1>1. n \in Node
  BY NodeOfServer DEF Inv
<1>2. Ends(s, r)
  BY DEF TickCompactionFails, Ends
<1>3. limit \in Nat
  BY Books
<1> HIDE DEF limit
<1>5. r \in Node /\ SameVote(n, r) /\ Ahead(n, r)
  BY <1>1, <1>3, ApplyCommittedType, ApplyCommittedAhead
<1>6. CASE n.role = "Leader"
  <2>1. PICK N \in Nat : /\ Firm(n, N, n.barriers)
                         /\ RequestsReach(s, N) /\ AnswersReach(s, N)
    BY <1>6, LeaderFirm
  <2>2. n.told = {}
    BY <1>6, LeaderFirm
  <2>3. Firm(r, N, n.barriers)
    BY <1>1, <1>3, <2>1, <2>2, ApplyCommittedFirm DEF Firm
  <2> HIDE DEF r
  <2> QED
    BY <1>2, <1>5, <1>6, <2>1, <2>3, LeadingOn
<1>7. CASE n.role # "Leader"
  <2>1. Idle(n) /\ n.out = [t \in Server |-> << >>] /\ n.id = s
    BY <1>7, OthersIdle
  <2>2. Idle(r) /\ r.out = [t \in Server |-> << >>]
    BY <1>1, <1>3, <2>1, ApplyCommittedIdle
  <2> HIDE DEF r
  <2>3. Honest(s, r) /\ r.told = {}
    BY <2>2, SilentHonest DEF Idle
  <2>4. r \in NodeState /\ r.id = s /\ r.term >= n.term /\ r.role # "Leader"
    <3>1. r \in NodeState /\ r.term \in Nat
      BY <1>5, NodeFields DEF Node
    <3> QED
      BY <1>5, <1>7, <2>1, <3>1 DEF SameVote
  <2> QED
    BY <1>2, <2>3, <2>4, QuietEnds
<1> QED
  BY <1>6, <1>7

(* A new round. *)
LEMMA HeartbeatsFirm ==
    ASSUME NEW n \in Node, NEW N \in Nat, NEW B, Firm(n, N, B)
    PROVE  LET r == SendHeartbeats(n)
           IN  /\ r \in Node /\ SameVote(n, r) /\ Ahead(n, r) /\ Firm(r, N, B)
               /\ SameReads(n, r) /\ r.round = n.round + 1
<1>1. SendHeartbeats(n) \in Node /\ SameVote(n, SendHeartbeats(n))
  BY SendHeartbeatsType
<1>2. Ahead(n, SendHeartbeats(n))
  BY SendHeartbeatsAhead
<1>3. Steady(n, N, B)
  BY DEF Firm
<1>4. /\ Keeps(n, SendHeartbeats(n), N, B) /\ SameReads(n, SendHeartbeats(n))
      /\ SendHeartbeats(n).round = n.round + 1
  BY <1>3, SendHeartbeatsSteady
<1> QED
  BY <1>1, <1>2, <1>4 DEF Keeps, Firm

(* tick() of a leader that starts a round of heartbeats. *)
LEMMA TickHeartbeatReads ==
    ASSUME Inv, Inv', LogInv, LogInv', SafetyInv, SafetyInv', ReadInv,
           NEW s \in Server, TickHeartbeat(s)
    PROVE  ReadInv'
<1> DEFINE n == node[s]
           h == SendHeartbeats(n)
<1>1. n \in Node /\ n.role = "Leader"
  BY NodeOfServer DEF Inv, TickHeartbeat
<1>2. PICK limit \in Limits(n) : Become(s, AfterTick(h, limit), net)
  BY DEF TickHeartbeat
<1>3. limit \in Nat
  BY <1>1, LimitsType
<1> DEFINE r == AfterTick(h, limit)
<1>4. Ends(s, r)
  BY <1>2 DEF Ends
<1>5. PICK N \in Nat : /\ Firm(n, N, n.barriers)
                       /\ RequestsReach(s, N) /\ AnswersReach(s, N)
  BY <1>1, LeaderFirm
<1>6. n.told = {}
  BY <1>1, LeaderFirm
<1>7. /\ h \in Node /\ SameVote(n, h) /\ Ahead(n, h) /\ Firm(h, N, n.barriers)
      /\ SameReads(n, h)
  BY <1>1, <1>5, HeartbeatsFirm
<1> HIDE DEF h
<1>8. h.told = {} /\ Steady(h, N, n.barriers) /\ Reached(h, N)
  BY <1>6, <1>7 DEF SameReads, Firm
<1>9. Firm(r, N, n.barriers)
  BY <1>3, <1>7, <1>8, AfterTickFirm
<1>10. r \in Node /\ SameVote(h, r) /\ Ahead(h, r)
  BY <1>3, <1>7, AfterTickType, AfterTickAhead
<1> HIDE DEF r
<1>11. SameVote(n, r) /\ Ahead(n, r)
  BY <1>1, <1>7, <1>10, AheadTransitive DEF SameVote
<1> QED
  BY <1>1, <1>4, <1>5, <1>9, <1>10, <1>11, LeadingOn

(* Committing, for a leader. *)
LEMMA AdvancesFirm ==
    ASSUME NEW n \in Node, NEW N \in Nat, NEW B, Steady(n, N, B),
           Timely(n, N), n.told = {}, NEW limit \in Nat
    PROVE  LET r == AdvanceCommit(n, limit)
           IN  r \in Node /\ SameVote(n, r) /\ Ahead(n, r) /\ Firm(r, N, B)
<1>1. n \in NodeState /\ LastIndex(n) \in Nat
  BY LastIndexType DEF Node
<1>2. \A v \in Server : n.match[v] <= LastIndex(n)
  BY DEF Steady, Counted
<1>3. QuorumMatchIndex(n) \in Nat
  BY <1>1, <1>2, QuorumMatch
<1>4. Ahead(n, AdvanceCommit(n, limit))
  BY <1>3, AdvanceCommitAhead
<1>5. AdvanceCommit(n, limit) \in Node /\ SameVote(n, AdvanceCommit(n, limit))
  BY AdvanceCommitType
<1>6. Firm(AdvanceCommit(n, limit), N, B)
  BY AdvanceCommitFirm
<1> QED
  BY <1>4, <1>5, <1>6

(* propose(): the command is written, and may be committed at once. *)
LEMMA ProposeReads ==
    ASSUME Inv, Inv', LogInv, LogInv', SafetyInv, SafetyInv', ReadInv,
           NEW s \in Server, NEW v \in Value, Propose(s, v)
    PROVE  ReadInv'
<1> DEFINE q == node[s]
           a == AppendOwn(q, v)
           p == [index |-> LastIndex(a), value |-> v]
           n == [a EXCEPT !.pending = @ \cup {p}]
           e == [term |-> q.term, value |-> v]
<1>1. q \in Node /\ q \in NodeState /\ q.role = "Leader" /\ q.told = {}
  BY LeaderFirm DEF Propose
<1>2. PICK N \in Nat : /\ Firm(q, N, q.barriers)
                       /\ RequestsReach(s, N) /\ AnswersReach(s, N)
  BY <1>1, LeaderFirm
<1>3. PICK limit \in Limits(n) :
        Become(s, SendHeartbeats(AdvanceCommit(n, limit)), net)
  BY DEF Propose
<1>4. a \in Node /\ SameVote(q, a) /\ a \in NodeState
  BY <1>1, AppendOwnType DEF Command, Node
<1>5. /\ a.log = Append(q.log, e) /\ a.snapIndex = q.snapIndex
      /\ a.match = [q.match EXCEPT ![q.id] = LastIndex(q) + 1]
      /\ a.snapTerm = q.snapTerm /\ a.commit = q.commit
      /\ a.applied = q.applied /\ a.acked = q.acked /\ a.round = q.round
      /\ a.barriers = q.barriers /\ a.out = q.out /\ a.told = q.told
      /\ a.data = q.data
  BY <1>1 DEF AppendOwn, NodeState
<1> HIDE DEF a
<1>6. n \in Node
  <2>1. p \in PendingProposal
    BY <1>4, LastIndexType DEF PendingProposal
  <2> HIDE DEF p
  <2>2. a.pending \cup {p} \in SUBSET PendingProposal
    BY <1>4, <2>1, NodeFields
  <2>3. n \in NodeState
    BY <1>4, <2>2, Zenon DEF NodeState
  <2>4. n.out = a.out /\ n.snapIndex = a.snapIndex /\ n.applied = a.applied
    BY <1>4 DEF NodeState
  <2> HIDE DEF n
  <2> QED
    BY <1>4, <2>3, <2>4 DEF Node
<1>7. /\ n.log = a.log /\ n.snapIndex = a.snapIndex /\ n.match = a.match
      /\ n.snapTerm = a.snapTerm /\ n.commit = a.commit
      /\ n.applied = a.applied /\ n.acked = a.acked /\ n.round = a.round
      /\ n.barriers = a.barriers /\ n.out = a.out /\ n.told = a.told
      /\ n.data = a.data /\ SameVote(a, n)
  BY <1>4 DEF NodeState, SameVote
<1> HIDE DEF n
<1>8. e \in Entry /\ e.term = q.term
  BY <1>1, NodeFields DEF Entry, Command
<1> HIDE DEF e
<1>9. LastIndex(n) = LastIndex(q) + 1
  <2>1. q.log \in Seq(Entry) /\ q.snapIndex \in Nat
    BY <1>1, NodeFields
  <2>2. Len(Append(q.log, e)) = Len(q.log) + 1
    BY <1>8, <2>1
  <2>3. Len(q.log) \in Nat
    BY <2>1
  <2>4. LastIndex(n) = q.snapIndex + Len(Append(q.log, e))
    BY <1>5, <1>7 DEF LastIndex
  <2>5. LastIndex(q) = q.snapIndex + Len(q.log)
    BY DEF LastIndex
  <2> QED
    BY ONLY <2>1, <2>2, <2>3, <2>4, <2>5, SMTT(30)
<1>10. Steady(n, N, q.barriers) /\ Timely(n, N)
  <2>1. Steady(q, N, q.barriers) /\ Timely(q, N)
    BY <1>2 DEF Firm
  <2>2. n.id = q.id /\ n.term = q.term
    BY <1>4, <1>7 DEF SameVote
  <2>3. /\ n.log = Append(q.log, e) /\ n.snapIndex = q.snapIndex
        /\ n.match = [q.match EXCEPT ![q.id] = LastIndex(q) + 1]
        /\ n.snapTerm = q.snapTerm /\ n.commit = q.commit
        /\ n.applied = q.applied /\ n.acked = q.acked /\ n.round = q.round
        /\ n.barriers = q.barriers /\ n.out = q.out /\ n.told = q.told
        /\ n.data = q.data
    BY <1>5, <1>7
  <2> HIDE DEF q
  <2> QED
    BY <1>1, <1>6, <1>8, <1>9, <2>1, <2>2, <2>3, AppendedSteady
<1>11. limit \in Nat /\ n.told = {}
  BY <1>1, <1>5, <1>6, <1>7, LimitsType
<1>12. Ahead(q, n) /\ SameVote(q, n)
  <2>1. q.round \in Nat /\ q.applied \in Nat
    BY <1>1, NodeFields
  <2> QED
    BY <1>4, <1>5, <1>7, <2>1 DEF Ahead, SameVote
<1> DEFINE c == AdvanceCommit(n, limit)
           r == SendHeartbeats(c)
<1>13. c \in Node /\ SameVote(n, c) /\ Ahead(n, c) /\ Firm(c, N, q.barriers)
  BY <1>6, <1>10, <1>11, AdvancesFirm
<1>14. Ends(s, r)
  BY <1>3 DEF Ends
<1> HIDE DEF c
<1>15. r \in Node /\ SameVote(c, r) /\ Ahead(c, r) /\ Firm(r, N, q.barriers)
  BY <1>13, HeartbeatsFirm
<1> HIDE DEF r
<1>16. SameVote(q, r)
  BY <1>12, <1>13, <1>15 DEF SameVote
<1>17. Ahead(q, c)
  BY <1>1, <1>6, <1>12, <1>13, AheadTransitive
<1>18. Ahead(q, r)
  BY <1>1, <1>13, <1>15, <1>17, AheadTransitive
<1> QED
  BY <1>1, <1>2, <1>14, <1>15, <1>16, <1>18, LeadingOn

(* read_index(): the read waits for a new round; what it must see was      *)
(* acknowledged by leaders of terms that are over or is this one's own.    *)
LEMMA ReadIndexReads ==
    ASSUME Inv, Inv', LogInv, LogInv', SafetyInv, SafetyInv', ReadInv,
           NEW s \in Server, ReadIndex(s)
    PROVE  ReadInv'
<1> DEFINE q == node[s]
           n == SendHeartbeats(q)
           b == [round |-> n.round, target |-> n.commit, need |-> Acknowledged]
           w == [n EXCEPT !.barriers = @ \cup {b}]
           r == EvaluateReadBarriers(w)
           B == q.barriers \cup {b}
<1>1. q \in Node /\ q \in NodeState /\ q.role = "Leader" /\ q.told = {} /\ q.id = s
  BY LeaderFirm DEF ReadIndex
<1>2. PICK N \in Nat : /\ Firm(q, N, q.barriers)
                       /\ RequestsReach(s, N) /\ AnswersReach(s, N)
  BY <1>1, LeaderFirm
<1>3. Ends(s, r)
  BY DEF ReadIndex, Ends
<1>4. /\ n \in Node /\ SameVote(q, n) /\ Ahead(q, n) /\ Firm(n, N, q.barriers)
      /\ SameReads(q, n) /\ n.round = q.round + 1
  BY <1>1, <1>2, HeartbeatsFirm
<1> HIDE DEF n
<1>5. /\ n \in NodeState /\ n.round \in Nat /\ n.commit \in Nat /\ q.round \in Nat
      /\ q.barriers \in SUBSET ReadBarrier /\ n.barriers = q.barriers
      /\ n.told = {} /\ n.applied = q.applied /\ q.applied \in Nat
  BY <1>1, <1>4, NodeFields DEF Node, SameReads
<1>6. b \in ReadBarrier
  <2>1. Acknowledged \subseteq Value
    <3> SUFFICES ASSUME NEW c \in told, c.type = "Applied"
                 PROVE  c.command \in Value
      BY DEF Acknowledged
    <3>1. c \in Applied \cup ReadServed
      BY DEF Inv, TypeInv, TypeOK
    <3>2. c \in Applied
      BY <3>1 DEF ReadServed
    <3> QED
      BY <3>2 DEF Applied
  <2> QED
    BY <1>5, <2>1 DEF ReadBarrier
<1>7. b.round = n.round /\ b.target = n.commit /\ b.need = Acknowledged
  OBVIOUS
<1> HIDE DEF b
<1>8. B \in SUBSET ReadBarrier /\ w = [n EXCEPT !.barriers = B]
  BY <1>5, <1>6
<1>9. w \in NodeState
  BY <1>5, <1>8, Zenon DEF NodeState
<1>10. /\ SameCore(n, w) /\ SameVote(n, w) /\ w.applied = n.applied
       /\ w.data = n.data /\ w.acked = n.acked /\ w.barriers = B
       /\ w.told = n.told /\ w.match = n.match /\ w.round = n.round
       /\ w.out = n.out
  BY <1>5, <1>8 DEF NodeState, SameCore, SameVote
<1> HIDE DEF w
<1>11. w \in Node
  BY <1>4, <1>9, <1>10 DEF Node, SameCore
<1>12. Firm(w, N, B)
  <2>1. /\ LastIndex(w) = LastIndex(n)
        /\ \A k : TermAt(w, k) = TermAt(n, k) /\ Stored(w, k) = Stored(n, k)
    BY <1>10, SameLast DEF SameCore
  <2>2. Settled(w, N)
    BY <1>4, <1>10, <2>1 DEF Firm, Steady, Settled, SameCore
  <2>3. Counted(w, N)
    BY <1>4, <1>10, <2>1 DEF Firm, Steady, Counted, SameCore
  <2>4. Awaited(w, B)
    <3> SUFFICES ASSUME NEW x \in B
                 PROVE  1 <= x.round /\ x.round <= n.round
      BY <1>10 DEF Awaited
    <3>1. CASE x = b
      BY <1>4, <1>5, <1>7, <3>1
    <3>2. CASE x \in n.barriers
      BY <1>4, <3>2 DEF Firm, Steady, Awaited
    <3> QED
      BY <1>5, <3>1, <3>2
  <2>5. Tells(w, N, B)
    BY <1>5, <1>10 DEF Tells
  <2>6. Reached(w, N)
    BY <1>4, <1>10 DEF Firm, Reached, Peers, SameCore
  <2>7. Timely(w, N)
    <3> SUFFICES ASSUME NEW x \in B
                 PROVE  x.target >= N \/ n.commit < N \/ n.applied >= N
      BY <1>10 DEF Timely, SameCore
    <3>1. CASE x = b
      BY <1>5, <1>7, <3>1
    <3>2. CASE x \in n.barriers
      BY <1>4, <3>2 DEF Firm, Timely
    <3> QED
      BY <1>5, <3>1, <3>2
  <2>8. w.out \in [Server -> Seq(Requests(N, w.round))]
    BY <1>4, <1>10 DEF Firm, Steady
  <2> QED
    BY <2>2, <2>3, <2>4, <2>5, <2>6, <2>7, <2>8 DEF Firm, Steady
<1>13. r \in Node /\ SameVote(w, r) /\ Ahead(w, r)
  BY <1>11, EvaluateReadBarriersType, EvaluateReadBarriersAhead
<1>14. Firm(r, N, B)
  BY <1>11, <1>12, EvaluateReadBarriersFirm
<1> HIDE DEF r
<1>15. SameVote(q, r) /\ r \in NodeState
  BY <1>4, <1>10, <1>13 DEF SameVote, Node
<1>16. /\ r.acked = q.acked /\ r.round >= q.round /\ r.applied >= q.applied
       /\ r.term = q.term /\ r.role = "Leader" /\ r.id = s /\ q.term \in Nat
  <2>1. r.round \in Nat /\ r.applied \in Nat /\ q.term \in Nat
    BY <1>1, <1>15, NodeFields
  <2> QED
    BY <1>1, <1>4, <1>5, <1>10, <1>13, <1>15, <2>1 DEF Ahead, SameVote
<1>17. Contact(s, r)
  BY <1>16 DEF Contact
<1>18. ReadStep(s, r)
  BY <1>3, <1>15, <1>16, EndsRead
<1>19. ASSUME NEW R, Overtaken(s, R) PROVE Overtaken(s, R)'
  BY <1>16, <1>17, <1>18, <1>19, OvertakenStays
<1>20. ASSUME NEW need, Behind(need, q.term) PROVE Behind(need, node[s].term)'
  <2>1. Completed \subseteq Completed'
    BY <1>18 DEF ReadStep, Completed
  <2>2. node'[s].term = q.term
    BY <1>16, <1>18, SentFields DEF ReadStep, SameVote
  <2> QED
    BY <1>20, <2>1, <2>2 DEF Behind
<1>21. ASSUME NEW x \in B
       PROVE  Overtaken(s, x.round)' \/ Behind(x.need, node[s].term)'
  <2>1. Overtaken(s, x.round) \/ Behind(x.need, q.term)
    <3>1. CASE x = b
      BY <1>1, <1>4, <1>7, <3>1, ReadBegins
    <3>2. CASE x \in q.barriers
      BY <1>1, <3>2 DEF ReadInv, Leading
    <3> QED
      BY <3>1, <3>2
  <2> QED
    BY <1>19, <1>20, <2>1
<1> HIDE DEF B
<1> QED
  BY <1>1, <1>2, <1>8, <1>14, <1>16, <1>18, <1>21, LeaderReads

-----------------------------------------------------------------------------
(* The handlers of a leader. *)

(* send_append_entries() of a leader. *)
LEMMA SendsFirm ==
    ASSUME NEW n \in Node, NEW N \in Nat, NEW B, Firm(n, N, B), NEW S
    PROVE  LET r == SendAppendEntries(n, S)
           IN  r \in Node /\ SameVote(n, r) /\ Ahead(n, r) /\ Firm(r, N, B)
<1>1. SendAppendEntries(n, S) \in Node /\ SameVote(n, SendAppendEntries(n, S))
  BY SendAppendEntriesType
<1>2. Ahead(n, SendAppendEntries(n, S))
  BY SendAppendEntriesAhead
<1>3. Steady(n, N, B)
  BY DEF Firm
<1>4. Keeps(n, SendAppendEntries(n, S), N, B)
  BY <1>3, SendAppendEntriesSteady
<1> QED
  BY <1>1, <1>2, <1>4 DEF Keeps, Firm

(* A message claims no success. *)
Claimless(m) == ~(m.type = "AppendEntriesResponse" /\ m.success)

(* Sending a reply that claims nothing. *)
LEMMA SendFirm ==
    ASSUME NEW n \in NodeState, NEW N \in Nat, NEW B, Firm(n, N, B),
           NEW to \in Server, NEW m \in Message, m.type # "AppendEntries",
           Claimless(m)
    PROVE  LET r == Send(n, to, m)
           IN  /\ r \in NodeState /\ SameVote(n, r) /\ Firm(r, N, B)
               /\ r.acked = n.acked /\ r.round = n.round /\ r.applied = n.applied
<1> DEFINE r == Send(n, to, m)
           Q == Requests(N, n.round)
           out == [n.out EXCEPT ![to] = Append(@, m)]
<1>1. /\ n.out \in [Server -> Seq(Message)] /\ n.round \in Nat
      /\ n.match \in [Server -> Nat]
  BY NodeFields
<1>2. n.out \in [Server -> Seq(Q)]
  BY DEF Firm, Steady
<1>3. m \in Q
  BY DEF Requests, Claimless
<1>4. r = [n EXCEPT !.out = out]
  BY DEF Send
<1> HIDE DEF Q
<1>5. Append(n.out[to], m) \in Seq(Q) /\ Append(n.out[to], m) \in Seq(Message)
  BY <1>1, <1>2, <1>3
<1>6. out \in [Server -> Seq(Q)] /\ out \in [Server -> Seq(Message)]
  BY <1>1, <1>2, <1>5
<1> HIDE DEF r, out
<1>7. r \in NodeState
  BY <1>4, <1>6, Zenon DEF NodeState
<1>8. /\ SameVote(n, r) /\ SameReads(n, r) /\ r.match = n.match
      /\ r.round = n.round /\ r.out = out
  BY <1>4 DEF NodeState, SameVote, SameReads, SameCore
<1>9. r.out \in [Server -> Seq(Requests(N, r.round))]
  BY <1>6, <1>8 DEF Q
<1>10. r.round >= n.round
  BY <1>1, <1>8
<1>11. \A v \in Server : /\ r.match[v] >= n.match[v]
                         /\ r.match[v] <= LastIndex(n)
  BY <1>1, <1>8 DEF Firm, Steady, Counted
<1>12. Steady(n, N, B) /\ Timely(n, N) /\ Reached(n, N)
  BY DEF Firm
<1>13. Steady(r, N, B) /\ Timely(r, N)
  BY <1>7, <1>8, <1>9, <1>10, <1>11, <1>12, SameReadsSteady
<1>14. Reached(r, N)
  BY <1>8, <1>12 DEF Reached, Peers, SameReads, SameCore
<1> QED
  BY <1>7, <1>8, <1>13, <1>14 DEF Firm, r, SameReads

(* A success counts for the round it answers: a read that waited for it is *)
(* answered when a quorum has answered and the commands are applied.       *)
LEMMA HandleAppendEntriesResponseReads ==
    ASSUME Inv, Inv', LogInv, LogInv', SafetyInv, SafetyInv', ReadInv,
           NEW f \in Server, NEW s \in Server, HandleAppendEntriesResponse(f, s)
    PROVE  ReadInv'
<1> DEFINE m == Head(net[f][s])
           q == node[s]
           match == [q.match EXCEPT ![f] = MaxOf(@, m.match)]
           acked == [q.acked EXCEPT ![f] = MaxOf(@, m.round)]
           n == [node[s] EXCEPT !.match[f] = MaxOf(@, m.match),
                                !.acked[f] = MaxOf(@, m.round)]
           p == [n EXCEPT !.next[f] = MaxOf(@, n.match[f] + 1)]
           next == [n.next EXCEPT ![f] = MaxOf(@, n.match[f] + 1)]
           result(r) == LET e == EvaluateReadBarriers(r)
                        IN  IF r.commit # p.commit /\ ApplyFailed(r) THEN r
                            ELSE IF NeedsMore(e, p, f) THEN SendAppendEntries(e, {f})
                            ELSE e
<1>1. /\ net[f][s] # << >> /\ m.type = "AppendEntriesResponse"
      /\ q.role = "Leader" /\ m.term = q.term /\ m.success
  <2>1. /\ Arrives(f, s, {"AppendEntriesResponse"}) /\ m.success
        /\ LeaderHears(node[s], m)
    BY ZenonT(30) DEF HandleAppendEntriesResponse
  <2> QED
    BY <2>1 DEF Arrives, LeaderHears
<1>2. PICK limit \in Limits(p) : Handled(f, s, result(AdvanceCommit(p, limit)))
  BY Zenon DEF HandleAppendEntriesResponse
<1>3. m.match \in Nat /\ m.round \in Nat
  <2>1. m \in AppendEntriesResponse
    BY <1>1, ArrivingMessage, MessageOfType
  <2> QED
    BY <2>1 DEF AppendEntriesResponse
<1>4. q \in Node /\ q \in NodeState /\ q.id = s /\ q.told = {}
  BY <1>1, LeaderFirm
<1>5. PICK N \in Nat : /\ Firm(q, N, q.barriers)
                       /\ RequestsReach(s, N) /\ AnswersReach(s, N)
  BY <1>1, LeaderFirm
<1>6. 1 \in DOMAIN net[f][s] /\ m = net[f][s][1]
  BY <1>1, ArrivingMessage
<1>7. Confirms(net[f][s][1], q.term)
  BY <1>1, <1>6 DEF Confirms
<1>8. m.round <= q.round /\ m.match >= N
  BY <1>5, <1>6, <1>7 DEF AnswersReach
<1>9. m.match <= LastIndex(q)
  <2>1. PICK W \in World : SafeIn(W)
    BY DEF SafetyInv
  <2>2. Replicated(W, f, m.match, q.term)
    BY <1>1, <2>1, ArrivingVouched DEF Vouched
  <2>3. Upright(W, q)
    BY <2>1, NodeUpright
  <2> QED
    BY <1>1, <2>2, <2>3 DEF Replicated, Upright, Core, Copied
<1> HIDE DEF m, result
<1>10. match \in [Server -> Nat] /\ acked \in [Server -> Nat]
  BY <1>3, <1>4, NodeFields DEF MaxOf
<1>11. /\ q.match \in [Server -> Nat] /\ q.acked \in [Server -> Nat]
       /\ LastIndex(q) \in Nat /\ q.round \in Nat /\ q.applied \in Nat
  BY <1>4, NodeFields, LastIndexType
<1>12. \A v \in Server :
         /\ match[v] >= q.match[v]
         /\ match[v] <= LastIndex(q) /\ acked[v] <= q.round
         /\ acked[v] >= 1 => match[v] >= N
         /\ acked[v] = q.acked[v] \/ (v = f /\ acked[v] = m.round)
  <2> SUFFICES ASSUME NEW v \in Server
               PROVE  /\ match[v] >= q.match[v]
                      /\ match[v] <= LastIndex(q) /\ acked[v] <= q.round
                      /\ acked[v] >= 1 => match[v] >= N
                      /\ acked[v] = q.acked[v] \/ (v = f /\ acked[v] = m.round)
    OBVIOUS
  <2>1. /\ q.match[v] <= LastIndex(q) /\ q.acked[v] <= q.round
        /\ q.acked[v] >= 1 => q.match[v] >= N
        /\ q.match[v] \in Nat /\ q.acked[v] \in Nat
    BY <1>5, <1>11 DEF Firm, Steady, Counted
  <2>2. CASE v # f
    BY <1>11, <2>1, <2>2
  <2>3. CASE v = f
    <3>1. match[v] = MaxOf(q.match[v], m.match) /\ acked[v] = MaxOf(q.acked[v], m.round)
      BY <1>11, <2>3
    <3> HIDE DEF match, acked
    <3> QED
      BY <1>3, <1>8, <1>9, <1>11, <2>1, <2>3, <3>1 DEF MaxOf
  <2> QED
    BY <2>2, <2>3
<1>13. n = [q EXCEPT !.match = match, !.acked = acked]
  OBVIOUS
<1> HIDE DEF n, match, acked
<1>14. n \in NodeState
  BY <1>4, <1>10, <1>13, Zenon DEF NodeState
<1>15. /\ SameVote(q, n) /\ SameCore(q, n) /\ n.match = match
       /\ n.acked = acked /\ n.round = q.round /\ n.barriers = q.barriers
       /\ n.next = q.next /\ n.applied = q.applied
       /\ n.out = q.out /\ n.told = q.told
  BY <1>4, <1>13 DEF NodeState, SameVote, SameCore
<1>16. next \in [Server -> Nat] /\ p = [n EXCEPT !.next = next]
  BY <1>14, NodeFields DEF MaxOf
<1> HIDE DEF p, next
<1>17. p \in NodeState
  BY <1>14, <1>16, Zenon DEF NodeState
<1>18. /\ SameVote(n, p) /\ SameCore(n, p) /\ p.match = n.match
       /\ p.acked = n.acked /\ p.round = n.round /\ p.barriers = n.barriers
       /\ p.applied = n.applied /\ p.out = n.out /\ p.told = n.told
  BY <1>14, <1>16 DEF NodeState, SameVote, SameCore
<1>19. /\ SameVote(q, p) /\ SameCore(q, p) /\ p.match = match
       /\ p.acked = acked /\ p.round = q.round /\ p.barriers = q.barriers
       /\ p.applied = q.applied /\ p.out = q.out /\ p.told = {}
  BY <1>4, <1>15, <1>18 DEF SameVote, SameCore
<1>20. p \in Node
  BY <1>4, <1>17, <1>19 DEF Node, SameCore
<1>21. Steady(p, N, q.barriers) /\ Timely(p, N)
  <2>1. Steady(q, N, q.barriers) /\ Timely(q, N)
    BY <1>5 DEF Firm
  <2>2. /\ LastIndex(p) = LastIndex(q)
        /\ \A k : TermAt(p, k) = TermAt(q, k) /\ Stored(p, k) = Stored(q, k)
    BY <1>19, SameLast DEF SameCore
  <2>3. Settled(p, N)
    BY <1>19, <2>1, <2>2 DEF Steady, Settled, SameCore
  <2>4. p.match[p.id] >= N
    <3>1. q.match[s] >= N /\ q.match[s] \in Nat /\ match[s] \in Nat
      BY <1>4, <1>10, <1>11, <2>1 DEF Steady, Counted
    <3>2. match[s] >= q.match[s] /\ p.id = s
      BY <1>4, <1>12, <1>19 DEF SameCore
    <3> QED
      BY <1>19, <3>1, <3>2
  <2>5. Counted(p, N)
    BY <1>12, <1>19, <2>2, <2>4 DEF Counted
  <2>6. Awaited(p, q.barriers) /\ Timely(p, N)
    BY <1>19, <2>1 DEF Steady, Awaited, Timely, SameCore
  <2>7. Tells(p, N, q.barriers)
    BY <1>19 DEF Tells
  <2>8. p.out \in [Server -> Seq(Requests(N, p.round))]
    BY <1>19, <2>1 DEF Steady
  <2> QED
    BY <2>3, <2>5, <2>6, <2>7, <2>8 DEF Steady
<1>22. limit \in Nat
  BY <1>20, LimitsType
<1> DEFINE r == AdvanceCommit(p, limit)
           e == EvaluateReadBarriers(r)
           x == SendAppendEntries(e, {f})
<1>23. r \in Node /\ SameVote(p, r) /\ Ahead(p, r) /\ Firm(r, N, q.barriers)
  BY <1>19, <1>20, <1>21, <1>22, AdvancesFirm
<1>24. Handled(f, s, result(r))
  BY <1>2
<1> HIDE DEF r
<1>25. e \in Node /\ SameVote(r, e) /\ Ahead(r, e) /\ Firm(e, N, q.barriers)
  BY <1>23, EvaluateReadBarriersType, EvaluateReadBarriersAhead,
     EvaluateReadBarriersFirm
<1>26. result(r) \in {r, e, x}
  BY DEF result
<1> HIDE DEF e
<1>27. x \in Node /\ SameVote(e, x) /\ Ahead(e, x) /\ Firm(x, N, q.barriers)
  BY <1>25, SendsFirm
<1> HIDE DEF x
<1>28. Ahead(p, e)
  BY <1>20, <1>23, <1>25, AheadTransitive
<1>29. Ahead(p, x)
  BY <1>20, <1>25, <1>27, <1>28, AheadTransitive
<1>30. /\ result(r) \in Node /\ SameVote(q, result(r)) /\ Ahead(p, result(r))
       /\ Firm(result(r), N, q.barriers)
  BY <1>19, <1>23, <1>25, <1>26, <1>27, <1>28, <1>29 DEF SameVote
<1> DEFINE y == result(r)
<1>31. y \in Node /\ SameVote(q, y) /\ Ahead(p, y) /\ Firm(y, N, q.barriers)
  BY <1>30
<1>32. Ends(s, y)
  BY <1>1, <1>24 DEF Ends
<1> HIDE DEF y
<1>33. /\ y \in NodeState /\ y.id = s /\ y.role = "Leader" /\ y.term = q.term
       /\ y.round >= q.round /\ y.applied >= q.applied /\ y.acked = acked
  BY <1>1, <1>4, <1>19, <1>31 DEF Node, SameVote, Ahead
<1>34. Contact(s, y)
  <2> SUFFICES ASSUME NEW v \in Server
               PROVE  \/ acked[v] = q.acked[v]
                      \/ \E i \in DOMAIN net[v][s] :
                           /\ Confirms(net[v][s][i], q.term)
                           /\ acked[v] = net[v][s][i].round
    BY <1>33 DEF Contact
  <2> QED
    BY <1>6, <1>7, <1>12
<1> QED
  BY <1>1, <1>5, <1>31, <1>32, <1>33, <1>34, LeadingEnds

(* A rejection makes the leader send earlier entries, or a snapshot. *)
LEMMA HandleAppendEntriesRejectionReads ==
    ASSUME Inv, Inv', LogInv, LogInv', SafetyInv, SafetyInv', ReadInv,
           NEW f \in Server, NEW s \in Server, HandleAppendEntriesRejection(f, s)
    PROVE  ReadInv'
<1> DEFINE n == node[s]
           next == [n.next EXCEPT ![f] = MaxOf(@ - 1, 1)]
           back == [n EXCEPT !.next[f] = MaxOf(@ - 1, 1)]
<1>1. PICK r \in {SendSnapshot(n, {f}), SendAppendEntries(back, {f})} :
        Handled(f, s, r)
  BY DEF HandleAppendEntriesRejection
<1>2. net[f][s] # << >> /\ n.role = "Leader"
  BY DEF HandleAppendEntriesRejection, Arrives, LeaderHears
<1>3. n \in Node /\ n \in NodeState /\ n.id = s
  BY <1>2, LeaderFirm
<1>4. PICK N \in Nat : /\ Firm(n, N, n.barriers)
                       /\ RequestsReach(s, N) /\ AnswersReach(s, N)
  BY <1>2, LeaderFirm
<1>5. Ends(s, r)
  BY <1>1, <1>2 DEF Ends
<1>6. next \in [Server -> Nat] /\ back = [n EXCEPT !.next = next]
  BY <1>3, NodeFields DEF MaxOf
<1> HIDE DEF back, next
<1>7. back \in NodeState
  BY <1>3, <1>6, Zenon DEF NodeState
<1>8. /\ SameVote(n, back) /\ SameReads(n, back) /\ back.match = n.match
      /\ back.round = n.round /\ back.out = n.out
  BY <1>3, <1>6 DEF NodeState, SameVote, SameReads, SameCore
<1>9. back \in Node
  BY <1>3, <1>7, <1>8 DEF Node, SameReads, SameCore
<1>10. Firm(back, N, n.barriers)
  <2>1. Steady(n, N, n.barriers) /\ Timely(n, N) /\ Reached(n, N)
    BY <1>4 DEF Firm
  <2>2. n.round \in Nat /\ n.match \in [Server -> Nat]
    BY <1>3, NodeFields
  <2>3. back.round >= n.round
    BY <1>8, <2>2
  <2>4. back.out \in [Server -> Seq(Requests(N, back.round))]
    BY <1>8, <2>1 DEF Steady
  <2>5. \A v \in Server : /\ back.match[v] >= n.match[v]
                          /\ back.match[v] <= LastIndex(n)
    BY <1>8, <2>1, <2>2, SMTT(30) DEF Steady, Counted
  <2>6. Steady(back, N, n.barriers) /\ Timely(back, N)
    BY <1>3, <1>7, <1>8, <2>1, <2>3, <2>4, <2>5, SameReadsSteady
  <2>7. Reached(back, N)
    BY <1>8, <2>1 DEF Reached, Peers, SameReads, SameCore
  <2> QED
    BY <2>6, <2>7 DEF Firm
<1>11. Ahead(n, back)
  <2>1. n.round \in Nat /\ n.applied \in Nat
    BY <1>3, NodeFields
  <2> QED
    BY <1>8, <2>1 DEF Ahead, SameReads
<1>12. CASE r = SendSnapshot(n, {f})
  <2>1. r \in Node /\ SameVote(n, r)
    BY <1>3, <1>12, SendSnapshotType
  <2>2. Steady(n, N, n.barriers)
    BY <1>4 DEF Firm
  <2>3. Keeps(n, r, N, n.barriers) /\ SameReads(n, r) /\ r.round = n.round
    BY <1>3, <1>12, <2>2, SendSnapshotSteady
  <2>4. Firm(r, N, n.barriers)
    BY <1>4, <2>3 DEF Keeps, Firm
  <2>5. Ahead(n, r)
    <3>1. n.round \in Nat /\ n.applied \in Nat
      BY <1>3, NodeFields
    <3> QED
      BY <2>3, <3>1 DEF Ahead, SameReads
  <2> QED
    BY <1>2, <1>4, <1>5, <2>1, <2>4, <2>5, LeadingOn
<1>13. CASE r = SendAppendEntries(back, {f})
  <2>1. /\ r \in Node /\ SameVote(back, r) /\ Ahead(back, r)
        /\ Firm(r, N, n.barriers)
    BY <1>9, <1>10, <1>13, SendsFirm
  <2>2. SameVote(n, r)
    BY <1>8, <2>1 DEF SameVote
  <2>3. Ahead(n, r)
    BY <1>3, <1>9, <1>11, <2>1, AheadTransitive
  <2> QED
    BY <1>2, <1>4, <1>5, <2>1, <2>2, <2>3, LeadingOn
<1> QED
  BY <1>12, <1>13

(* After a snapshot the leader sends the rest of its log. *)
LEMMA HandleInstallSnapshotResponseReads ==
    ASSUME Inv, Inv', LogInv, LogInv', SafetyInv, SafetyInv', ReadInv,
           NEW f \in Server, NEW s \in Server, HandleInstallSnapshotResponse(f, s)
    PROVE  ReadInv'
<1> DEFINE n == node[s]
<1>1. PICK r \in {n, SendAppendEntries(n, {f})} : Handled(f, s, r)
  BY DEF HandleInstallSnapshotResponse
<1>2. net[f][s] # << >> /\ n.role = "Leader"
  BY DEF HandleInstallSnapshotResponse, Arrives, LeaderHears
<1>3. n \in Node /\ n \in NodeState /\ n.id = s
  BY <1>2, LeaderFirm
<1>4. PICK N \in Nat : /\ Firm(n, N, n.barriers)
                       /\ RequestsReach(s, N) /\ AnswersReach(s, N)
  BY <1>2, LeaderFirm
<1>5. Ends(s, r)
  BY <1>1, <1>2 DEF Ends
<1>6. Ahead(n, n) /\ SameVote(n, n)
  <2>1. n.round \in Nat /\ n.applied \in Nat
    BY <1>3, NodeFields
  <2> QED
    BY <2>1 DEF Ahead, SameVote
<1>7. r \in Node /\ SameVote(n, r) /\ Ahead(n, r) /\ Firm(r, N, n.barriers)
  BY <1>1, <1>3, <1>4, <1>6, SendsFirm
<1> QED
  BY <1>2, <1>4, <1>5, <1>7, LeadingOn

-----------------------------------------------------------------------------
(* The steps that do not lead. *)

(* m claims no success, or the success of a request from f to s. *)
RepliesTo(m, f, s, term) ==
    \/ Claimless(m)
    \/ /\ m.term = term
       /\ \E j \in DOMAIN net[f][s] :
            LET q == net[f][s][j]
            IN  /\ q.type = "AppendEntries" /\ q.term = m.term
                /\ q.round = m.round /\ q.prevIndex + Len(q.entries) = m.match

(* A reply of a node with nothing else to send. *)
LEMMA SendHonest ==
    ASSUME NEW s \in Server, NEW f \in Server, NEW n \in NodeState,
           n.out = [t \in Server |-> << >>], NEW m \in Message,
           RepliesTo(m, f, s, n.term)
    PROVE  LET r == Send(n, f, m)
           IN  /\ r \in NodeState /\ SameVote(n, r) /\ r.told = n.told
               /\ Honest(s, r)
<1> DEFINE r == Send(n, f, m)
           out == [n.out EXCEPT ![f] = Append(@, m)]
<1>1. /\ n.out \in [Server -> Seq(Message)]
  BY NodeFields
<1>2. out \in [Server -> Seq(Message)]
  <2>1. Append(n.out[f], m) \in Seq(Message)
    BY <1>1
  <2> QED
    BY <1>1, <2>1
<1>3. /\ out[f] = <<m>> /\ \A t \in Server \ {f} : out[t] = << >>
  OBVIOUS
<1>4. r = [n EXCEPT !.out = out]
  BY DEF Send
<1> HIDE DEF r, out
<1>5. r \in NodeState
  BY <1>2, <1>4, Zenon DEF NodeState
<1>6. SameVote(n, r) /\ r.told = n.told /\ r.out = out
  BY <1>4 DEF NodeState, SameVote
<1>7. Honest(s, r)
  <2> SUFFICES ASSUME NEW t \in Server, NEW i \in DOMAIN r.out[t],
                      r.out[t][i].type = "AppendEntriesResponse",
                      r.out[t][i].success
               PROVE  /\ r.out[t][i].term = r.term
                      /\ \E j \in DOMAIN net[t][s] :
                           LET q == net[t][s][j]
                           IN  /\ q.type = "AppendEntries"
                               /\ q.term = r.out[t][i].term
                               /\ q.round = r.out[t][i].round
                               /\ q.prevIndex + Len(q.entries)
                                    = r.out[t][i].match
    BY DEF Honest
  <2>1. t = f /\ r.out[t][i] = m
    BY <1>3, <1>6
  <2>2. ~Claimless(m)
    BY <2>1 DEF Claimless
  <2> QED
    BY <1>6, <2>1, <2>2 DEF RepliesTo, SameVote
<1> QED
  BY <1>5, <1>6, <1>7 DEF r

(* A message is handled by a server that does not lead afterwards. *)
LEMMA QuietHandled ==
    ASSUME Inv, Inv', SafetyInv, ReadInv, NEW f \in Server, NEW s \in Server,
           net[f][s] # << >>, NEW n \in NodeState, n.id = s,
           n.term >= node[s].term, n.role # "Leader", n.told = {},
           n.out = [t \in Server |-> << >>],
           \/ Handled(f, s, n)
           \/ \E m \in Message : /\ RepliesTo(m, f, s, n.term)
                                 /\ Handled(f, s, Send(n, f, m))
    PROVE  ReadInv'
<1>1. CASE Handled(f, s, n)
  <2>1. Ends(s, n)
    BY <1>1 DEF Ends
  <2> QED
    BY <2>1, SilentHonest, QuietEnds
<1>2. ASSUME NEW m \in Message, RepliesTo(m, f, s, n.term),
             Handled(f, s, Send(n, f, m))
      PROVE  ReadInv'
  <2> DEFINE r == Send(n, f, m)
  <2>1. Ends(s, r)
    BY <1>2 DEF Ends
  <2>2. r \in NodeState /\ SameVote(n, r) /\ r.told = n.told /\ Honest(s, r)
    BY <1>2, SendHonest
  <2> HIDE DEF r
  <2>3. r.id = s /\ r.term >= node[s].term /\ r.role # "Leader" /\ r.told = {}
    BY <2>2 DEF SameVote
  <2> QED
    BY <2>1, <2>2, <2>3, QuietEnds
<1> QED
  BY <1>1, <1>2

(* become_follower(): what the node owes is dropped. *)
LEMMA StepDownIdle ==
    ASSUME Inv, LogInv, NEW s \in Server, NEW term \in Nat,
           NEW leader \in Server \cup {Nil}
    PROVE  LET r == BecomeFollower(node[s], term, leader)
           IN  /\ r \in Node /\ r \in NodeState /\ r.id = s
               /\ r.term = MaxOf(node[s].term, term)
               /\ r.role = "Follower" /\ Idle(r)
               /\ r.out = [t \in Server |-> << >>]
<1> DEFINE n == node[s]
           r == BecomeFollower(n, term, leader)
<1>1. n \in Node /\ n \in NodeState /\ n.id = s
  BY NodeOfServer DEF Inv, Node
<1>2. n.told = {} /\ n.out = [t \in Server |-> << >>]
  BY DEF Inv, TypeInv, TypeOK
<1>3. n.role # "Leader" => n.pending = {} /\ n.barriers = {}
  BY DEF LogInv, DebtsBacked, Owed
<1>4. /\ r \in Node /\ r.id = n.id /\ r.role = "Follower"
      /\ r.term = MaxOf(n.term, term)
  BY <1>1, BecomeFollowerType
<1>5. /\ r.pending = IF n.role = "Leader" THEN {} ELSE n.pending
      /\ r.barriers = IF n.role = "Leader" THEN {} ELSE n.barriers
      /\ r.told = n.told /\ r.out = n.out
  BY <1>1 DEF BecomeFollower, NodeState
<1> HIDE DEF r
<1> QED
  BY <1>1, <1>2, <1>3, <1>4, <1>5 DEF Idle, Node, r

(* A request of a leader is heeded in its term. *)
LEMMA HeedIdle ==
    ASSUME Inv, LogInv, NEW f \in Server, NEW s \in Server, net[f][s] # << >>,
           Head(net[f][s]).term >= node[s].term
    PROVE  LET m == Head(net[f][s])
               n == Heed(node[s], m, f)
           IN  /\ n \in Node /\ n \in NodeState /\ n.id = s
               /\ n.term = m.term /\ n.term >= node[s].term
               /\ n.role = "Follower" /\ Idle(n)
               /\ n.out = [t \in Server |-> << >>]
<1> DEFINE m == Head(net[f][s])
           q == node[s]
           n == Heed(q, m, f)
<1>1. m.term \in Nat
  BY ArrivingMessage, MessageOfType
<1>2. q \in NodeState /\ q.term \in Nat /\ q.id = s
  BY NodeFields DEF Inv, TypeInv, TypeOK
<1>3. n \in Node /\ n.role = "Follower"
  BY HeedAtStart
<1> HIDE DEF m
<1>4. CASE m.term > q.term \/ q.role # "Follower"
  <2>1. n = BecomeFollower(q, m.term, f)
    BY <1>4 DEF Heed
  <2>2. /\ n \in NodeState /\ n.id = s /\ n.term = MaxOf(q.term, m.term)
        /\ Idle(n) /\ n.out = [t \in Server |-> << >>]
    BY <1>1, <2>1, StepDownIdle
  <2> HIDE DEF n
  <2>3. n.term = m.term /\ n.term >= q.term
    BY <1>1, <1>2, <2>2 DEF MaxOf, m
  <2> QED
    BY <1>3, <2>2, <2>3 DEF m, n
<1>5. CASE ~(m.term > q.term \/ q.role # "Follower")
  <2>1. n = [q EXCEPT !.leader = f]
    BY <1>5 DEF Heed
  <2>2. Idle(q) /\ q.out = [t \in Server |-> << >>]
    BY <1>5, OthersIdle
  <2>3. /\ n.id = q.id /\ n.term = q.term /\ Idle(n) /\ n.out = q.out
    BY <1>2, <2>1, <2>2 DEF NodeState, Idle
  <2>4. q.term = m.term
    BY <1>1, <1>2, <1>5 DEF m
  <2> HIDE DEF n
  <2> QED
    BY <1>2, <1>3, <2>2, <2>3, <2>4 DEF m, n, Node
<1> QED
  BY <1>4, <1>5

(* A late answer is dropped. *)
LEMMA HandleOutdatedReads ==
    ASSUME Inv, Inv', LogInv, LogInv', SafetyInv, SafetyInv', ReadInv,
           NEW f \in Server, NEW s \in Server, HandleOutdated(f, s)
    PROVE  ReadInv'
<1> DEFINE n == node[s]
<1>1. net[f][s] # << >> /\ Handled(f, s, n)
  BY DEF HandleOutdated, Arrives
<1>2. n \in NodeState /\ n.term \in Nat /\ n.round \in Nat /\ n.applied \in Nat
  BY NodeFields DEF Inv, TypeInv, TypeOK
<1>3. CASE n.role = "Leader"
  <2>1. n \in Node
    BY <1>3, LeaderFirm
  <2>2. PICK N \in Nat : /\ Firm(n, N, n.barriers)
                         /\ RequestsReach(s, N) /\ AnswersReach(s, N)
    BY <1>3, LeaderFirm
  <2>3. Ahead(n, n) /\ SameVote(n, n) /\ Ends(s, n)
    BY <1>1, <1>2 DEF Ahead, SameVote, Ends
  <2> QED
    BY <1>3, <2>1, <2>2, <2>3, LeadingOn
<1>4. CASE n.role # "Leader"
  <2>1. n.id = s /\ n.told = {} /\ n.out = [t \in Server |-> << >>]
    BY <1>4, OthersIdle DEF Idle
  <2> QED
    BY <1>1, <1>2, <1>4, <2>1, QuietHandled
<1> QED
  BY <1>3, <1>4

(* A leader replies and claims nothing. *)
LEMMA LeaderReplies ==
    ASSUME Inv, Inv', LogInv', SafetyInv, SafetyInv', ReadInv,
           NEW f \in Server, NEW s \in Server, net[f][s] # << >>,
           node[s].role = "Leader", NEW n \in NodeState,
           n.id = s, n.role = "Leader", n.term = node[s].term,
           SameReads(node[s], n), n.match = node[s].match,
           n.round = node[s].round, n.out = node[s].out,
           NEW m \in Message, m.type # "AppendEntries", Claimless(m),
           Handled(f, s, Send(n, f, m))
    PROVE  ReadInv'
<1> DEFINE q == node[s]
           r == Send(n, f, m)
<1>1. /\ q \in NodeState /\ q.round \in Nat /\ q.applied \in Nat
      /\ q.match \in [Server -> Nat]
  BY NodeFields DEF Inv, TypeInv, TypeOK
<1>2. PICK N \in Nat : /\ Firm(q, N, q.barriers)
                       /\ RequestsReach(s, N) /\ AnswersReach(s, N)
  BY LeaderFirm
<1>3. Firm(n, N, q.barriers)
  <2>1. Steady(q, N, q.barriers) /\ Timely(q, N) /\ Reached(q, N)
    BY <1>2 DEF Firm
  <2>2. n.round >= q.round
    BY <1>1
  <2>3. n.out \in [Server -> Seq(Requests(N, n.round))]
    BY <2>1 DEF Steady
  <2>4. \A v \in Server : /\ n.match[v] >= q.match[v]
                          /\ n.match[v] <= LastIndex(q)
    BY <1>1, <2>1 DEF Steady, Counted
  <2>5. Steady(n, N, q.barriers) /\ Timely(n, N)
    BY <1>1, <2>1, <2>2, <2>3, <2>4, SameReadsSteady
  <2>6. Reached(n, N)
    BY <2>1, ZenonT(30) DEF Reached, Peers, SameReads, SameCore
  <2> QED
    BY <2>5, <2>6 DEF Firm
<1>4. /\ r \in NodeState /\ SameVote(n, r) /\ Firm(r, N, q.barriers)
      /\ r.acked = n.acked /\ r.round = n.round /\ r.applied = n.applied
  BY <1>3, SendFirm
<1>5. Ends(s, r)
  BY DEF Ends
<1> HIDE DEF r
<1>6. /\ r.id = s /\ r.role = "Leader" /\ r.term = q.term
      /\ r.round >= q.round /\ r.applied >= q.applied /\ Contact(s, r)
  BY <1>1, <1>4 DEF SameVote, SameReads, Contact
<1> QED
  BY <1>2, <1>4, <1>5, <1>6, LeadingEnds

(* A vote is asked for. *)
LEMMA HandleRequestVoteReads ==
    ASSUME Inv, Inv', LogInv, LogInv', SafetyInv, SafetyInv', ReadInv,
           NEW f \in Server, NEW s \in Server, HandleRequestVote(f, s)
    PROVE  ReadInv'
<1> DEFINE m == Head(net[f][s])
           n == IF m.term > node[s].term THEN BecomeFollower(node[s], m.term, Nil)
                                         ELSE node[s]
           granted == /\ m.term = n.term
                      /\ n.votedFor \in {Nil, f}
                      /\ LogIsUpToDate(n, m.lastIndex, m.lastTerm)
           reply == [type |-> "RequestVoteResponse", term |-> n.term,
                     granted |-> granted]
           a == [n EXCEPT !.votedFor = IF granted THEN f ELSE @]
<1>1. net[f][s] # << >> /\ Handled(f, s, Send(a, f, reply))
  BY ZenonT(30) DEF HandleRequestVote, Arrives
<1>2. m.term \in Nat
  BY <1>1, ArrivingMessage, MessageOfType, ZenonT(30)
<1>3. /\ node[s] \in NodeState /\ node[s].term \in Nat /\ node[s].id = s
  BY NodeFields DEF Inv, TypeInv, TypeOK
<1>4. /\ n \in NodeState /\ n.id = s /\ n.term >= node[s].term
      /\ \/ n = node[s] /\ n.role = "Leader"
         \/ /\ n.role # "Leader" /\ Idle(n)
            /\ n.out = [t \in Server |-> << >>]
  <2>1. CASE m.term > node[s].term
    <3> DEFINE none == Nil
    <3>1. n = BecomeFollower(node[s], m.term, none) /\ none \in Server \cup {Nil}
      BY <2>1
    <3> HIDE DEF n, m, none
    <3>2. /\ n \in NodeState /\ n.id = s /\ n.role = "Follower" /\ Idle(n)
          /\ n.term = MaxOf(node[s].term, m.term)
          /\ n.out = [t \in Server |-> << >>]
      BY <1>2, <3>1, StepDownIdle
    <3> QED
      BY <1>2, <1>3, <3>2 DEF MaxOf
  <2>2. CASE ~(m.term > node[s].term)
    <3>1. n = node[s]
      BY <2>2
    <3> HIDE DEF n, m
    <3>2. n.role # "Leader" => Idle(n) /\ n.out = [t \in Server |-> << >>]
      BY <3>1, OthersIdle
    <3> QED
      BY <1>3, <3>1, <3>2
  <2> QED
    BY <2>1, <2>2
<1> HIDE DEF m, n
<1>5. reply \in RequestVoteResponse
  BY <1>4, NodeFields DEF RequestVoteResponse
<1>6. reply \in Message /\ reply.type # "AppendEntries" /\ Claimless(reply)
  BY <1>5 DEF Message, Claimless
<1>7. (IF granted THEN f ELSE n.votedFor) \in Server \cup {Nil}
  BY <1>4, NodeFields
<1> HIDE DEF granted, reply
<1>8. a \in NodeState
  BY <1>4, <1>7, ZenonT(30) DEF NodeState
<1>9. /\ a.id = n.id /\ a.term = n.term /\ a.role = n.role
      /\ SameReads(n, a) /\ a.match = n.match /\ a.round = n.round
      /\ a.out = n.out /\ a.told = n.told
  BY <1>4 DEF NodeState, SameReads, SameCore
<1> HIDE DEF a
<1>10. CASE n = node[s] /\ n.role = "Leader"
  BY <1>1, <1>3, <1>6, <1>8, <1>9, <1>10, LeaderReplies
<1>11. CASE /\ n.role # "Leader" /\ Idle(n)
            /\ n.out = [t \in Server |-> << >>]
  <2>1. RepliesTo(reply, f, s, a.term)
    BY <1>6 DEF RepliesTo
  <2>2. /\ a.id = s /\ a.term >= node[s].term /\ a.role # "Leader"
        /\ a.told = {} /\ a.out = [t \in Server |-> << >>]
    BY <1>4, <1>9, <1>11 DEF Idle
  <2> QED
    BY <1>1, <1>6, <1>8, <2>1, <2>2, QuietHandled
<1> QED
  BY <1>4, <1>10, <1>11

(* A newer term ends the lead. *)
LEMMA StepDownReads ==
    ASSUME Inv, Inv', LogInv, LogInv', SafetyInv, SafetyInv', ReadInv,
           NEW f \in Server, NEW s \in Server,
           HandleRequestVoteFails(f, s) \/ HandleNewerTerm(f, s)
    PROVE  ReadInv'
<1> DEFINE m == Head(net[f][s])
           r == BecomeFollower(node[s], m.term, Nil)
<1>1. net[f][s] # << >> /\ Handled(f, s, r)
  BY Zenon DEF HandleRequestVoteFails, HandleNewerTerm, Arrives
<1> DEFINE none == Nil
<1>2. /\ m.term \in Nat /\ none \in Server \cup {Nil}
      /\ r = BecomeFollower(node[s], m.term, none)
  BY <1>1, ArrivingMessage, MessageOfType
<1>3. node[s].term \in Nat
  BY NodeFields DEF Inv, TypeInv, TypeOK
<1> HIDE DEF m, r, none
<1>4. /\ r \in NodeState /\ r.id = s /\ r.term = MaxOf(node[s].term, m.term)
      /\ r.role = "Follower" /\ Idle(r) /\ r.out = [t \in Server |-> << >>]
  BY <1>2, StepDownIdle
<1>5. r.term >= node[s].term /\ r.role # "Leader" /\ r.told = {}
  BY <1>2, <1>3, <1>4 DEF MaxOf, Idle
<1> QED
  BY <1>1, <1>4, <1>5, QuietHandled

(* A request of an earlier leader is refused. *)
LEMMA HandleStaleReads ==
    ASSUME Inv, Inv', LogInv, LogInv', SafetyInv, SafetyInv', ReadInv,
           NEW f \in Server, NEW s \in Server,
           HandleAppendEntriesStale(f, s) \/ HandleInstallSnapshotStale(f, s)
    PROVE  ReadInv'
<1> DEFINE m == Head(net[f][s])
           n == node[s]
           reply == AppendReply(n, m, FALSE, 0, 0)
           answer == SnapshotReply(n, FALSE)
<1>1. net[f][s] # << >>
  BY DEF HandleAppendEntriesStale, HandleInstallSnapshotStale, Arrives
<1>2. n \in Node /\ n \in NodeState /\ n.term \in Nat /\ n.id = s
  BY NodeOfServer, NodeFields DEF Inv, Node
<1>3. PICK x \in Message :
        /\ x.type # "AppendEntries" /\ Claimless(x)
        /\ Handled(f, s, Send(n, f, x))
  <2>1. CASE HandleAppendEntriesStale(f, s)
    <3>1. m \in AppendEntriesRequest /\ Handled(f, s, Send(n, f, reply))
      BY <2>1, ArrivingMessage, MessageOfType
      DEF HandleAppendEntriesStale, Arrives
    <3>2. reply \in Plain
      BY <1>2, <3>1, AppendReplyType
    <3> QED
      BY <3>1, <3>2 DEF AppendReply, Plain, Claimless
  <2>2. CASE HandleInstallSnapshotStale(f, s)
    <3>1. Handled(f, s, Send(n, f, answer))
      BY <2>2 DEF HandleInstallSnapshotStale
    <3>2. answer \in Plain
      BY <1>2, SnapshotReplyType
    <3> QED
      BY <3>1, <3>2 DEF SnapshotReply, Plain, Claimless
  <2> QED
    BY <2>1, <2>2
<1>4. CASE n.role = "Leader"
  <2>1. SameReads(n, n)
    BY DEF SameReads, SameCore
  <2> QED
    BY <1>1, <1>2, <1>3, <1>4, <2>1, LeaderReplies
<1>5. CASE n.role # "Leader"
  <2>1. n.told = {} /\ n.out = [t \in Server |-> << >>]
    BY <1>5, OthersIdle DEF Idle
  <2>2. RepliesTo(x, f, s, n.term) /\ n.term >= node[s].term
    BY <1>2, <1>3 DEF RepliesTo
  <2> QED
    BY <1>1, <1>2, <1>3, <1>5, <2>1, <2>2, QuietHandled
<1> QED
  BY <1>4, <1>5

-----------------------------------------------------------------------------
(* Elections. *)

(* Nothing is committed that the log lacks. *)
LEMMA CommitsInLog ==
    ASSUME Inv, SafetyInv, NEW s \in Server
    PROVE  /\ node[s].applied <= node[s].commit
           /\ node[s].commit <= LastIndex(node[s])
<1>1. PICK W \in World : SafeIn(W)
  BY DEF SafetyInv
<1>2. Upright(W, node[s])
  BY <1>1, NodeUpright
<1> QED
  BY <1>2 DEF Upright, Core, Committed

(* start_election(). *)
LEMMA CampaignIdle ==
    ASSUME Inv, LogInv, SafetyInv, NEW s \in Server, node[s].role # "Leader"
    PROVE  LET c == Campaign(node[s])
           IN  /\ c \in Node /\ c.id = s /\ c.term = node[s].term + 1
               /\ c.role = "Candidate" /\ Idle(c)
               /\ c.out = [t \in Server |-> << >>]
               /\ c.applied <= c.commit /\ c.commit <= LastIndex(c)
<1> DEFINE n == node[s]
           c == Campaign(n)
<1>1. n \in Node /\ n \in NodeState /\ n.id = s
  BY OthersIdle
<1>2. Idle(n) /\ n.out = [t \in Server |-> << >>]
  BY OthersIdle
<1>3. /\ c \in Node /\ c.id = s /\ c.term = n.term + 1 /\ c.role = "Candidate"
  BY <1>1, CampaignType
<1>4. /\ Idle(c) /\ c.out = n.out /\ c.applied = n.applied
      /\ c.commit = n.commit /\ c.log = n.log /\ c.snapIndex = n.snapIndex
  BY <1>1, <1>2 DEF Campaign, NodeState, Idle
<1> HIDE DEF c
<1>5. n.applied <= n.commit /\ n.commit <= LastIndex(n)
  BY CommitsInLog
<1>6. LastIndex(c) = LastIndex(n)
  BY <1>4 DEF LastIndex
<1> QED
  BY <1>2, <1>3, <1>4, <1>5, <1>6 DEF c

(* Requests for votes claim nothing. *)
LEMMA RequestVotesHonest ==
    ASSUME NEW s \in Server, NEW n \in Node, Idle(n),
           n.out = [t \in Server |-> << >>], NEW limit \in Nat
    PROVE  LET r == AfterTick(RequestVotes(n), limit)
           IN  Honest(s, r) /\ r.told = {}
<1> DEFINE q == RequestVotes(n)
           r == AfterTick(q, limit)
           m == [type |-> "RequestVote", term |-> n.term,
                 lastIndex |-> LastIndex(n), lastTerm |-> LastTerm(n)]
           out == [t \in Server |-> IF t \in Peers(n)
                                    THEN Append(n.out[t], m) ELSE n.out[t]]
<1>1. q \in Node /\ n \in NodeState
  BY RequestVotesType DEF Node
<1>2. q = [n EXCEPT !.out = out]
  BY DEF RequestVotes
<1>3. \A t \in Server : out[t] \in {<< >>, <<m>>}
  OBVIOUS
<1>4. Claimless(m)
  BY DEF Claimless
<1> HIDE DEF m, out, q
<1>5. q.out = out /\ Idle(q)
  BY <1>1, <1>2 DEF NodeState, Idle
<1>6. Idle(r) /\ r.out = out
  BY <1>1, <1>5, AfterTickIdle
<1> HIDE DEF r
<1>7. ASSUME NEW t \in Server, NEW i \in DOMAIN r.out[t]
      PROVE  Claimless(r.out[t][i])
  <2>1. CASE out[t] = << >>
    BY <1>6, <1>7, <2>1
  <2>2. CASE out[t] = <<m>>
    BY <1>4, <1>6, <1>7, <2>2
  <2> QED
    BY <1>3, <2>1, <2>2
<1>8. Honest(s, r)
  BY <1>7 DEF Honest, Claimless
<1> QED
  BY <1>6, <1>8 DEF r, q, Idle

(* tick() that starts an election: a group of one has a leader at once, a  *)
(* larger one is asked for votes.                                          *)
LEMMA TickElectionReads ==
    ASSUME Inv, Inv', LogInv, LogInv', SafetyInv, SafetyInv', ReadInv,
           NEW s \in Server, TickElection(s)
    PROVE  ReadInv'
<1> DEFINE c == Campaign(node[s])
           limit == Bound["log"]
           b == IF HasQuorum(1) THEN BecomeLeader(c, limit)
                                ELSE RequestVotes(c)
           r == AfterTick(b, limit)
<1>1. node[s].role # "Leader" /\ Ends(s, r)
  BY DEF TickElection, MayCampaign, Ends
<1>2. limit \in Nat
  BY Books
<1> HIDE DEF limit
<1>3. /\ c \in Node /\ c.id = s /\ c.term = node[s].term + 1
      /\ c.role = "Candidate" /\ Idle(c)
      /\ c.out = [t \in Server |-> << >>]
      /\ c.applied <= c.commit /\ c.commit <= LastIndex(c)
  BY <1>1, CampaignIdle
<1>4. node[s].term \in Nat
  BY NodeFields DEF Inv, TypeInv, TypeOK
<1> HIDE DEF c
<1>5. c.term \in Nat /\ c.term > node[s].term
  BY <1>3, <1>4
<1>6. CASE HasQuorum(1)
  <2> DEFINE l == BecomeLeader(c, limit)
             N == LastIndex(c) + 1
  <2>1. l \in Node /\ l.term = c.term /\ l.role = "Leader" /\ l.id = s
    BY <1>2, <1>3, BecomeLeaderType
  <2>2. r = AfterTick(l, limit)
    BY <1>6
  <2>3. Firm(r, N, {}) /\ Idle(r)
    BY <1>2, <1>3, <2>2, BecomeLeaderTickFirm
  <2>4. N \in Nat
    <3>1. c \in NodeState
      BY <1>3 DEF Node
    <3> QED
      BY <3>1, LastIndexType
  <2> HIDE DEF l, N, r
  <2>5. r \in Node /\ SameVote(l, r)
    BY <1>2, <2>1, <2>2, AfterTickType
  <2>6. r \in NodeState /\ r.id = s /\ r.term = c.term /\ r.role = "Leader"
    BY <2>1, <2>5 DEF SameVote, Node
  <2>7. <<s, r.term>> \notin elected
    BY <1>5, <2>6, NotYetElected
  <2>8. r.term >= node[s].term
    BY <1>4, <1>5, <2>6
  <2>9. ReadStep(s, r)
    BY <1>1, <2>6, <2>8, EndsRead
  <2> QED
    BY <2>3, <2>4, <2>6, <2>7, <2>9, NewLeaderReads
<1>7. CASE ~HasQuorum(1)
  <2> DEFINE q == RequestVotes(c)
  <2>1. r = AfterTick(q, limit)
    BY <1>7
  <2>2. q \in Node /\ SameVote(c, q)
    BY <1>3, RequestVotesType
  <2>3. Honest(s, r) /\ r.told = {}
    BY <1>2, <1>3, <2>1, RequestVotesHonest
  <2> HIDE DEF r, q
  <2>4. r \in Node /\ SameVote(q, r)
    BY <1>2, <2>1, <2>2, AfterTickType
  <2>5. /\ r \in NodeState /\ r.id = s /\ r.term = c.term
        /\ r.role # "Leader"
    BY <1>3, <2>2, <2>4 DEF SameVote, Node
  <2>6. r.term >= node[s].term
    BY <1>4, <1>5, <2>5
  <2> QED
    BY <1>1, <2>3, <2>5, <2>6, QuietEnds
<1> QED
  BY <1>6, <1>7

(* A leader that could not append its no-op. *)
LEMMA BecomeLeaderFailedIdle ==
    ASSUME NEW n \in Node, Idle(n)
    PROVE  LET r == BecomeLeaderFailed(n)
           IN  Idle(r) /\ r.out = n.out
<1> DEFINE i == InitializeLeaderProgress(n)
<1>1. n \in NodeState /\ i \in Node
  BY InitializeLeaderProgressType DEF Node
<1>2. Idle(i) /\ i.out = n.out
  BY <1>1 DEF InitializeLeaderProgress, NodeState, Idle
<1>3. i \in NodeState
  BY <1>1 DEF Node
<1> HIDE DEF i
<1>4. /\ Idle(BecomeFollower(i, n.term, Nil))
      /\ BecomeFollower(i, n.term, Nil).out = i.out
  BY <1>2, <1>3 DEF BecomeFollower, NodeState, Idle
<1> QED
  BY <1>2, <1>4 DEF BecomeLeaderFailed, i

(* tick() whose election could not be saved, or whose no-op was not. *)
LEMMA TickElectionFailsReads ==
    ASSUME Inv, Inv', LogInv, LogInv', SafetyInv, SafetyInv', ReadInv,
           NEW s \in Server, TickElectionFails(s)
    PROVE  ReadInv'
<1> DEFINE unsaved == [node[s] EXCEPT !.leader = Nil]
           c == Campaign(node[s])
           alone == BecomeLeaderFailed(c)
           limit == Bound["log"]
           none == [t \in Server |-> << >>]
<1>1. node[s].role # "Leader"
  BY DEF TickElectionFails, MayCampaign
<1>2. limit \in Nat
  BY Books
<1>3. /\ node[s] \in Node /\ node[s] \in NodeState /\ node[s].id = s
      /\ Idle(node[s]) /\ node[s].out = none
  BY <1>1, OthersIdle
<1>4. node[s].term \in Nat
  BY <1>3, NodeFields
<1>5. PICK n \in {unsaved, alone} : Become(s, AfterTick(n, limit), net)
  BY DEF TickElectionFails
<1> HIDE DEF limit, none
<1>6. /\ unsaved \in Node /\ unsaved.id = s /\ unsaved.role # "Leader"
      /\ unsaved.term >= node[s].term /\ Idle(unsaved) /\ unsaved.out = none
  <2>1. unsaved \in NodeState
    <3>1. Nil \in Server \cup {Nil}
      OBVIOUS
    <3> QED
      BY <1>3, <3>1, Zenon DEF NodeState
  <2>2. /\ unsaved.snapIndex = node[s].snapIndex
        /\ unsaved.applied = node[s].applied
        /\ unsaved.out = node[s].out /\ SameVote(node[s], unsaved)
        /\ Idle(unsaved)
    BY <1>3 DEF NodeState, SameVote, Idle
  <2> HIDE DEF unsaved
  <2> QED
    BY <1>1, <1>3, <1>4, <2>1, <2>2 DEF Node, SameVote
<1>7. /\ alone \in Node /\ alone.id = s /\ alone.role # "Leader"
      /\ alone.term >= node[s].term /\ Idle(alone) /\ alone.out = none
  <2>1. /\ c \in Node /\ c.id = s /\ c.term = node[s].term + 1
        /\ Idle(c) /\ c.out = none
    BY <1>1, CampaignIdle DEF none
  <2> HIDE DEF c
  <2>2. /\ alone \in Node /\ alone.role = "Follower" /\ alone.id = c.id
        /\ alone.term = c.term
    BY <2>1, BecomeLeaderFailedType
  <2>3. Idle(alone) /\ alone.out = c.out
    BY <2>1, BecomeLeaderFailedIdle
  <2> HIDE DEF alone
  <2> QED
    BY <1>4, <2>1, <2>2, <2>3
<1> HIDE DEF unsaved, alone
<1>8. /\ n \in Node /\ n.id = s /\ n.role # "Leader"
      /\ n.term >= node[s].term /\ Idle(n) /\ n.out = none
  BY <1>5, <1>6, <1>7
<1> DEFINE r == AfterTick(n, limit)
<1>9. r \in Node /\ SameVote(n, r)
  BY <1>2, <1>8, AfterTickType
<1>10. Idle(r) /\ r.out = n.out
  BY <1>2, <1>8, AfterTickIdle
<1>11. Ends(s, r)
  BY <1>5 DEF Ends
<1> HIDE DEF r
<1>12. /\ r \in NodeState /\ r.id = s /\ r.role # "Leader"
       /\ r.term >= node[s].term /\ r.told = {}
  BY <1>8, <1>9, <1>10 DEF SameVote, Node, Idle
<1>13. Honest(s, r)
  BY <1>8, <1>10, SilentHonest DEF none
<1> QED
  BY <1>11, <1>12, <1>13, QuietEnds

(* A vote is counted. *)
LEMMA HandleRequestVoteResponseReads ==
    ASSUME Inv, Inv', LogInv, LogInv', SafetyInv, SafetyInv', ReadInv,
           NEW f \in Server, NEW s \in Server,
           \/ HandleRequestVoteResponse(f, s)
           \/ HandleRequestVoteResponseFails(f, s)
    PROVE  ReadInv'
<1> DEFINE q == node[s]
           n == [q EXCEPT !.votes = @ \cup {f}]
           none == [t \in Server |-> << >>]
<1>1. net[f][s] # << >> /\ q.role = "Candidate"
  BY DEF HandleRequestVoteResponse, HandleRequestVoteResponseFails,
         Arrives, VoteCounts
<1>2. /\ q \in Node /\ q \in NodeState /\ q.id = s /\ Idle(q) /\ q.out = none
  BY <1>1, OthersIdle
<1>3. <<s, q.term>> \notin elected /\ q.term \in Nat
  BY <1>1, <1>2, NodeFields DEF LogInv, ElectedBefore
<1>4. q.applied <= q.commit /\ q.commit <= LastIndex(q)
  BY CommitsInLog
<1>5. n \in NodeState
  <2>1. q.votes \cup {f} \in SUBSET Server
    BY <1>2, NodeFields
  <2> QED
    BY <1>2, <2>1, Zenon DEF NodeState
<1>6. /\ n.id = s /\ n.term = q.term /\ n.role = "Candidate"
      /\ n.applied = q.applied /\ n.commit = q.commit /\ n.log = q.log
      /\ n.snapIndex = q.snapIndex /\ Idle(n) /\ n.out = q.out
  BY <1>1, <1>2 DEF NodeState, Idle
<1>7. \/ Handled(f, s, n)
      \/ \E limit \in Limits(n) : Handled(f, s, BecomeLeader(n, limit))
      \/ Handled(f, s, BecomeLeaderFailed(n))
  BY DEF HandleRequestVoteResponse, HandleRequestVoteResponseFails
<1> HIDE DEF n, none
<1>8. n \in Node /\ LastIndex(n) = LastIndex(q)
  BY <1>2, <1>5, <1>6 DEF Node, LastIndex
<1>9. CASE Handled(f, s, n)
  <2>1. /\ n.term >= q.term /\ n.role # "Leader" /\ n.told = {}
        /\ n.out = [t \in Server |-> << >>]
    BY <1>2, <1>3, <1>6 DEF Idle, none
  <2> QED
    BY <1>1, <1>5, <1>6, <1>9, <2>1, QuietHandled
<1>10. ASSUME NEW limit \in Limits(n), Handled(f, s, BecomeLeader(n, limit))
       PROVE  ReadInv'
  <2> DEFINE r == BecomeLeader(n, limit)
             N == LastIndex(n) + 1
  <2>1. limit \in Nat
    BY <1>8, LimitsType
  <2>2. n.applied <= n.commit /\ n.commit <= LastIndex(n)
    BY <1>4, <1>6, <1>8
  <2>3. n.out = [t \in Server |-> << >>]
    BY <1>2, <1>6 DEF none
  <2>4. Firm(r, N, {}) /\ Idle(r)
    BY <1>6, <1>8, <2>1, <2>2, <2>3, BecomeLeaderFirm
  <2>5. r \in Node /\ r.role = "Leader" /\ r.term = q.term /\ r.id = s
    BY <1>6, <1>8, <2>1, BecomeLeaderType
  <2>6. N \in Nat
    BY <1>5, LastIndexType
  <2>7. Ends(s, r)
    BY <1>1, <1>10 DEF Ends
  <2> HIDE DEF r, N
  <2>8. r \in NodeState /\ r.term >= q.term
    BY <1>3, <2>5 DEF Node
  <2>9. ReadStep(s, r)
    BY <2>5, <2>7, <2>8, EndsRead
  <2>10. <<s, r.term>> \notin elected
    BY <1>3, <2>5
  <2> QED
    BY <2>4, <2>5, <2>6, <2>9, <2>10, NewLeaderReads
<1>11. CASE Handled(f, s, BecomeLeaderFailed(n))
  <2> DEFINE r == BecomeLeaderFailed(n)
  <2>1. r \in Node /\ r.id = s /\ r.term = q.term /\ r.role = "Follower"
    BY <1>6, <1>8, BecomeLeaderFailedType
  <2>2. Idle(r) /\ r.out = n.out
    BY <1>6, <1>8, BecomeLeaderFailedIdle
  <2> HIDE DEF r
  <2>3. /\ r \in NodeState /\ r.term >= q.term /\ r.role # "Leader"
        /\ r.told = {} /\ r.out = [t \in Server |-> << >>]
    BY <1>2, <1>3, <1>6, <2>1, <2>2 DEF Node, Idle, none
  <2>4. Handled(f, s, r)
    BY <1>11 DEF r
  <2> QED
    BY <1>1, <2>1, <2>3, <2>4, QuietHandled
<1> QED
  BY <1>7, <1>9, <1>10, <1>11

-----------------------------------------------------------------------------
(* The handlers of a follower. *)

(* Merging entries changes no debts of a node that has none. *)
LEMMA MergeIdle ==
    ASSUME NEW n \in NodeState, Idle(n), NEW m, NEW k
    PROVE  Idle(Merge(n, m, k)) /\ Merge(n, m, k).out = n.out
  BY DEF Merge, NodeState, Idle

(* The previous entry does not match. *)
LEMMA HandleAppendEntriesInconsistentReads ==
    ASSUME Inv, Inv', LogInv, LogInv', SafetyInv, SafetyInv', ReadInv,
           NEW f \in Server, NEW s \in Server,
           HandleAppendEntriesInconsistent(f, s)
    PROVE  ReadInv'
<1> DEFINE m == Head(net[f][s])
           n == Heed(node[s], m, f)
           reply == AppendReply(n, m, FALSE, 0, LastIndex(n))
<1>1. /\ net[f][s] # << >> /\ m.type = "AppendEntries"
      /\ m.term >= node[s].term /\ Handled(f, s, Send(n, f, reply))
  BY Zenon DEF HandleAppendEntriesInconsistent, Arrives
<1>2. m \in AppendEntriesRequest
  BY <1>1, ArrivingMessage, MessageOfType
<1>3. /\ n \in Node /\ n \in NodeState /\ n.id = s /\ n.term >= node[s].term
      /\ n.role = "Follower" /\ Idle(n) /\ n.out = [t \in Server |-> << >>]
  BY <1>1, HeedIdle
<1> HIDE DEF m, n
<1>4. LastIndex(n) \in Nat
  BY <1>3, LastIndexType
<1>5. reply \in Message
  BY <1>2, <1>3, <1>4, AppendReplyType DEF Plain
<1>6. RepliesTo(reply, f, s, n.term)
  BY DEF AppendReply, RepliesTo, Claimless
<1> HIDE DEF reply
<1>7. n.told = {} /\ n.role # "Leader"
  BY <1>3 DEF Idle
<1> QED
  BY <1>1, <1>3, <1>5, <1>6, <1>7, QuietHandled

(* Some entries are refused, or could not be written. *)
LEMMA HandleAppendEntriesRefusedReads ==
    ASSUME Inv, Inv', LogInv, LogInv', SafetyInv, SafetyInv', ReadInv,
           NEW f \in Server, NEW s \in Server,
           HandleAppendEntriesRefused(f, s) \/ HandleAppendEntriesFails(f, s)
    PROVE  ReadInv'
<1> DEFINE m == Head(net[f][s])
           n == Heed(node[s], m, f)
           merged(k) == Merge(n, m, k)
           truncated(k) == [merged(k) EXCEPT !.log =
                               SubSeq(@, 1, m.prevIndex + k - n.snapIndex)]
<1>1. /\ net[f][s] # << >> /\ m.type = "AppendEntries" /\ Consistent(n, m)
      /\ m.term >= node[s].term
  BY Zenon DEF HandleAppendEntriesRefused, HandleAppendEntriesFails, Arrives
<1>2. m \in AppendEntriesRequest
  BY <1>1, ArrivingMessage, MessageOfType
<1>3. PICK k \in 0 .. Len(m.entries) - 1 :
        \/ Handled(f, s, merged(k))
        \/ /\ ConflictAt(merged(k), m, k + 1)
           /\ Handled(f, s, truncated(k))
  BY ZenonT(30) DEF HandleAppendEntriesRefused, HandleAppendEntriesFails
<1>4. /\ n \in Node /\ n \in NodeState /\ n.id = s /\ n.term >= node[s].term
      /\ n.role = "Follower" /\ Idle(n) /\ n.out = [t \in Server |-> << >>]
  BY <1>1, HeedIdle
<1> HIDE DEF m, n
<1>5. k \in 0 .. Len(m.entries)
  <2>1. Len(m.entries) \in Nat
    BY <1>2 DEF AppendEntriesRequest
  <2> QED
    BY <2>1
<1> DEFINE a == merged(k)
           t == truncated(k)
           cut == m.prevIndex + k - n.snapIndex
<1>6. a \in Node /\ SameVote(n, a) /\ a.snapIndex = n.snapIndex
  BY <1>1, <1>2, <1>4, <1>5, MergeType
<1>7. Idle(a) /\ a.out = n.out
  BY <1>4, MergeIdle
<1>8. t = [a EXCEPT !.log = SubSeq(@, 1, cut)]
  OBVIOUS
<1> HIDE DEF merged, a, t
<1>9. a \in NodeState
  BY <1>6 DEF Node
<1>10. CASE Handled(f, s, a)
  <2>1. /\ a.id = s /\ a.term >= node[s].term /\ a.role # "Leader"
        /\ a.told = {} /\ a.out = [x \in Server |-> << >>]
    BY <1>4, <1>6, <1>7 DEF SameVote, Idle
  <2> QED
    BY <1>1, <1>9, <1>10, <2>1, QuietHandled
<1>11. CASE ConflictAt(a, m, k + 1) /\ Handled(f, s, t)
  <2>1. a.log \in Seq(Entry) /\ n.snapIndex \in Nat
    BY <1>4, <1>9, NodeFields
  <2>2. m.prevIndex \in Nat /\ n.snapIndex <= m.prevIndex
    BY <1>1, <1>2, <2>1 DEF AppendEntriesRequest, Consistent, Stored
  <2>3. m.prevIndex + (k + 1) <= n.snapIndex + Len(a.log)
    BY <1>6, <1>11 DEF ConflictAt, LastIndex
  <2>4. cut \in 0 .. Len(a.log)
    BY <1>5, <2>1, <2>2, <2>3, SMTT(30)
  <2> HIDE DEF cut
  <2>5. SubSeq(a.log, 1, cut) \in Seq(Entry)
    BY <2>1, <2>4
  <2>6. t \in NodeState
    BY <1>8, <1>9, <2>5, Zenon DEF NodeState
  <2>7. SameVote(a, t) /\ t.out = a.out /\ Idle(t)
    BY <1>7, <1>8, <1>9 DEF NodeState, SameVote, Idle
  <2>8. /\ t.id = s /\ t.term >= node[s].term /\ t.role # "Leader"
        /\ t.told = {} /\ t.out = [x \in Server |-> << >>]
    BY <1>4, <1>6, <1>7, <2>7 DEF SameVote, Idle
  <2> QED
    BY <1>1, <1>11, <2>6, <2>8, QuietHandled
<1> QED
  BY <1>3, <1>10, <1>11 DEF a, t

(* Entries are accepted, and the round of the request is answered. *)
LEMMA HandleAppendEntriesReads ==
    ASSUME Inv, Inv', LogInv, LogInv', SafetyInv, SafetyInv', ReadInv,
           NEW f \in Server, NEW s \in Server, HandleAppendEntries(f, s)
    PROVE  ReadInv'
<1> DEFINE m == Head(net[f][s])
           h == Heed(node[s], m, f)
           n == Merge(h, m, Len(m.entries))
           commit == IF m.commit > n.commit
                     THEN MinOf(m.commit, LastIndex(n)) ELSE n.commit
           c == [n EXCEPT !.commit = commit]
           reply(r) == AppendReply(r, m, TRUE, Matched(r, m), 0)
<1>1. /\ net[f][s] # << >> /\ m.type = "AppendEntries" /\ Consistent(h, m)
      /\ m.term >= node[s].term
  BY Zenon DEF HandleAppendEntries, Arrives
<1>2. PICK limit \in Limits(c) :
        LET r == ApplyCommitted(c, limit)
        IN  Handled(f, s, Send(r, f, reply(r)))
  BY ZenonT(30) DEF HandleAppendEntries
<1>3. /\ m \in AppendEntriesRequest /\ 1 \in DOMAIN net[f][s]
      /\ m = net[f][s][1]
  BY <1>1, ArrivingMessage, MessageOfType
<1>4. /\ h \in Node /\ h \in NodeState /\ h.id = s /\ h.term = m.term
      /\ h.term >= node[s].term /\ h.role = "Follower" /\ Idle(h)
      /\ h.out = [t \in Server |-> << >>]
  BY <1>1, HeedIdle, ZenonT(30)
<1> HIDE DEF m, h
<1>5. m.entries \in Seq(Entry) /\ m.prevIndex \in Nat /\ m.commit \in Nat
  BY <1>3 DEF AppendEntriesRequest
<1>6. /\ Len(m.entries) \in 0 .. Len(m.entries)
      /\ \A r : /\ Matched(r, m) \in Nat
                /\ Matched(r, m) = m.prevIndex + Len(m.entries)
  BY <1>5 DEF Matched
<1>7. n \in Node /\ SameVote(h, n)
  BY <1>1, <1>3, <1>4, <1>6, MergeType
<1>8. Idle(n) /\ n.out = h.out
  BY <1>4, MergeIdle
<1> HIDE DEF n
<1>9. n \in NodeState
  BY <1>7 DEF Node
<1>10. commit \in Nat
  BY <1>5, <1>9, NodeFields, LastIndexType DEF MinOf
<1> HIDE DEF commit
<1>11. c \in NodeState
  BY <1>9, <1>10, Zenon DEF NodeState
<1>12. /\ c.snapIndex = n.snapIndex /\ c.applied = n.applied
       /\ c.out = n.out /\ SameVote(n, c) /\ Idle(c)
  BY <1>8, <1>9 DEF NodeState, SameVote, Idle
<1> HIDE DEF c
<1>13. c \in Node
  BY <1>7, <1>11, <1>12 DEF Node
<1>14. limit \in Nat
  BY <1>13, LimitsType
<1> DEFINE r == ApplyCommitted(c, limit)
<1>15. Handled(f, s, Send(r, f, reply(r)))
  BY <1>2
<1>16. r \in Node /\ SameVote(c, r)
  BY <1>13, <1>14, ApplyCommittedType
<1>17. Idle(r) /\ r.out = c.out
  BY <1>12, <1>13, <1>14, ApplyCommittedIdle
<1> HIDE DEF r
<1>18. /\ r.id = s /\ r.term = m.term /\ r.term >= node[s].term
       /\ r.role # "Leader" /\ r.told = {} /\ r.out = [t \in Server |-> << >>]
       /\ r \in NodeState
  BY <1>4, <1>7, <1>8, <1>12, <1>16, <1>17 DEF SameVote, Idle, Node
<1>19. reply(r) \in Message
  BY <1>3, <1>6, <1>16, AppendReplyType DEF Plain
<1>20. /\ reply(r).term = r.term /\ reply(r).round = m.round
       /\ reply(r).match = m.prevIndex + Len(m.entries)
  BY <1>6 DEF AppendReply
<1> HIDE DEF reply
<1>21. RepliesTo(reply(r), f, s, r.term)
  BY <1>1, <1>3, <1>18, <1>20 DEF RepliesTo
<1> QED
  BY <1>1, <1>15, <1>18, <1>19, <1>21, QuietHandled

-----------------------------------------------------------------------------
(* Snapshots. *)

(* A node with another store or a buffered snapshot owes what it owed. *)
LEMMA BufferIdle ==
    ASSUME NEW n \in NodeState, Idle(n), NEW data \in SUBSET Value,
           NEW snap \in PendingSnapshot \cup {Nil}
    PROVE  LET r == [n EXCEPT !.data = data, !.snap = snap]
           IN  r \in NodeState /\ SameVote(n, r) /\ Idle(r) /\ r.out = n.out
<1>1. [n EXCEPT !.data = data, !.snap = snap] \in NodeState
  BY Zenon DEF NodeState
<1> QED
  BY <1>1 DEF NodeState, SameVote, Idle

(* A chunk is refused, or the snapshot could not be installed. *)
LEMMA HandleInstallSnapshotRefusedReads ==
    ASSUME Inv, Inv', LogInv, LogInv', SafetyInv, SafetyInv', ReadInv,
           NEW f \in Server, NEW s \in Server,
           HandleInstallSnapshotRefused(f, s) \/ HandleInstallSnapshotFails(f, s)
    PROVE  ReadInv'
<1> DEFINE m == Head(net[f][s])
           n == Heed(node[s], m, f)
           clean == [n EXCEPT !.snap = Nil]
           filled == [clean EXCEPT !.data = m.data]
<1>1. /\ net[f][s] # << >> /\ m.type = "InstallSnapshot"
      /\ m.term >= node[s].term
  BY Zenon DEF HandleInstallSnapshotRefused, HandleInstallSnapshotFails, Arrives
<1>2. PICK r \in {n, clean, filled} :
        Handled(f, s, Send(r, f, SnapshotReply(r, FALSE)))
  <2>1. CASE HandleInstallSnapshotRefused(f, s)
    BY <2>1, Zenon DEF HandleInstallSnapshotRefused
  <2>2. CASE HandleInstallSnapshotFails(f, s)
    BY <2>2 DEF HandleInstallSnapshotFails
  <2> QED
    BY <2>1, <2>2
<1>3. m \in InstallSnapshotRequest
  BY <1>1, HeedArriving
<1>4. /\ n \in Node /\ n \in NodeState /\ n.id = s /\ n.term >= node[s].term
      /\ n.role = "Follower" /\ Idle(n) /\ n.out = [t \in Server |-> << >>]
  BY <1>1, HeedIdle
<1> HIDE DEF m, n
<1>5. /\ m.data \in SUBSET Value /\ n.data \in SUBSET Value
      /\ Nil \in PendingSnapshot \cup {Nil}
  BY <1>3, <1>4, NodeFields DEF InstallSnapshotRequest
<1>6. clean = [n EXCEPT !.data = n.data, !.snap = Nil]
  BY <1>4, <1>5, Zenon DEF NodeState
<1>7. filled = [n EXCEPT !.data = m.data, !.snap = Nil]
  BY <1>4, <1>5, Zenon DEF NodeState
<1> HIDE DEF clean, filled
<1>8. r \in NodeState /\ SameVote(n, r) /\ Idle(r) /\ r.out = n.out
  <2>1. /\ clean \in NodeState /\ SameVote(n, clean) /\ Idle(clean)
        /\ clean.out = n.out
    BY <1>4, <1>5, <1>6, BufferIdle, Zenon
  <2>2. /\ filled \in NodeState /\ SameVote(n, filled) /\ Idle(filled)
        /\ filled.out = n.out
    BY <1>4, <1>5, <1>7, BufferIdle, Zenon
  <2> QED
    BY <1>2, <1>4, <2>1, <2>2 DEF SameVote
<1> DEFINE reply == SnapshotReply(r, FALSE)
<1>9. /\ r.id = s /\ r.term >= node[s].term /\ r.role # "Leader"
      /\ r.told = {} /\ r.out = [t \in Server |-> << >>]
  BY <1>4, <1>8 DEF SameVote, Idle
<1>10. reply \in Message /\ RepliesTo(reply, f, s, r.term)
  <2>1. r.term \in Nat
    BY <1>8, NodeFields
  <2>2. reply \in InstallSnapshotResponse
    BY <2>1 DEF SnapshotReply, InstallSnapshotResponse
  <2> QED
    BY <2>2 DEF Message, SnapshotReply, RepliesTo, Claimless
<1>11. Handled(f, s, Send(r, f, reply))
  BY <1>2
<1> HIDE DEF reply
<1> QED
  BY <1>1, <1>8, <1>9, <1>10, <1>11, QuietHandled

(* A chunk is buffered. *)
LEMMA HandleInstallSnapshotChunkReads ==
    ASSUME Inv, Inv', LogInv, LogInv', SafetyInv, SafetyInv', ReadInv,
           NEW f \in Server, NEW s \in Server, HandleInstallSnapshotChunk(f, s)
    PROVE  ReadInv'
<1> DEFINE m == Head(net[f][s])
           n == Heed(node[s], m, f)
           old == Assembling(node[s], m, f)
           snap == [old EXCEPT !.buffer = Append(@, m.data)]
           r == [n EXCEPT !.snap = snap]
<1>1. /\ net[f][s] # << >> /\ m.type = "InstallSnapshot"
      /\ m.term >= node[s].term
  BY Zenon DEF HandleInstallSnapshotChunk, Arrives
<1>2. Handled(f, s, r)
  BY Zenon DEF HandleInstallSnapshotChunk
<1>3. m \in InstallSnapshotRequest
  BY <1>1, HeedArriving
<1>4. /\ n \in NodeState /\ n.id = s /\ n.term >= node[s].term
      /\ n.role = "Follower" /\ Idle(n) /\ n.out = [t \in Server |-> << >>]
  BY <1>1, HeedIdle
<1>5. old \in PendingSnapshot
  <2>1. n.snap \in PendingSnapshot \cup {Nil}
    BY <1>4, NodeFields
  <2>2. [index |-> m.index, term |-> m.indexTerm, buffer |-> << >>]
          \in PendingSnapshot
    BY <1>3 DEF InstallSnapshotRequest, PendingSnapshot
  <2>3. \/ old = [index |-> m.index, term |-> m.indexTerm, buffer |-> << >>]
        \/ old = n.snap /\ n.snap # Nil
    BY DEF Assembling
  <2> QED
    BY <2>1, <2>2, <2>3
<1>6. m.data \in SUBSET Value
  BY <1>3 DEF InstallSnapshotRequest
<1> HIDE DEF m, n, old
<1>7. snap \in PendingSnapshot
  BY <1>5, <1>6 DEF PendingSnapshot
<1> HIDE DEF snap
<1>8. r = [n EXCEPT !.data = n.data, !.snap = snap]
  BY <1>4, Zenon DEF NodeState
<1> HIDE DEF r
<1>9. r \in NodeState /\ SameVote(n, r) /\ Idle(r) /\ r.out = n.out
  <2>1. n.data \in SUBSET Value /\ snap \in PendingSnapshot \cup {Nil}
    BY <1>4, <1>7, NodeFields
  <2> QED
    BY <1>4, <1>8, <2>1, BufferIdle, Zenon
<1>10. /\ r.id = s /\ r.term >= node[s].term /\ r.role # "Leader"
       /\ r.told = {} /\ r.out = [t \in Server |-> << >>]
  BY <1>4, <1>9 DEF SameVote, Idle
<1> QED
  BY <1>1, <1>2, <1>9, <1>10, QuietHandled

(* A snapshot is installed. *)
LEMMA HandleInstallSnapshotReads ==
    ASSUME Inv, Inv', LogInv, LogInv', SafetyInv, SafetyInv', ReadInv,
           NEW f \in Server, NEW s \in Server, HandleInstallSnapshot(f, s)
    PROVE  ReadInv'
<1> DEFINE m == Head(net[f][s])
           h == Heed(node[s], m, f)
           n == Restored(h, m)
           i == InstallBoundary(n, m.index, m.indexTerm)
           r == [i EXCEPT !.pending = {p \in @ : p.index > m.index}]
           e == EvaluateReadBarriers(r)
           reply == SnapshotReply(r, TRUE)
<1>1. /\ net[f][s] # << >> /\ m.type = "InstallSnapshot"
      /\ m.term >= node[s].term
  BY Zenon DEF HandleInstallSnapshot, Arrives
<1>2. Handled(f, s, Send(e, f, reply)) /\ Fits(node[s], m, f)
  BY Zenon DEF HandleInstallSnapshot
<1>3. m \in InstallSnapshotRequest /\ h.applied = node[s].applied
  BY <1>1, HeedArriving
<1>4. /\ h \in Node /\ h \in NodeState /\ h.id = s /\ h.term >= node[s].term
      /\ h.role = "Follower" /\ Idle(h) /\ h.out = [t \in Server |-> << >>]
  BY <1>1, HeedIdle
<1>5. /\ m.index \in Nat /\ m.indexTerm \in Nat /\ m.data \in SUBSET Value
      /\ Nil \in PendingSnapshot \cup {Nil}
  BY <1>3 DEF InstallSnapshotRequest
<1> HIDE DEF m, h
<1>6. h.snapIndex <= m.index
  <2>1. m.index >= h.applied
    BY <1>2, <1>3 DEF Fits
  <2>2. h.snapIndex <= h.applied /\ h.snapIndex \in Nat /\ h.applied \in Nat
    BY <1>4, NodeFields DEF Node
  <2> QED
    BY <1>5, <2>1, <2>2
<1>7. n \in NodeState /\ SameVote(h, n) /\ Idle(n) /\ n.out = h.out
  BY <1>4, <1>5, BufferIdle, Zenon DEF Restored
<1>8. n.snapIndex = h.snapIndex /\ n.applied = h.applied
  BY <1>4 DEF Restored, NodeState
<1> HIDE DEF n
<1>9. n \in Node /\ n.snapIndex <= m.index
  BY <1>4, <1>6, <1>7, <1>8 DEF Node
<1>10. i \in Node /\ SameVote(n, i)
  BY <1>5, <1>9, InstallBoundaryType
<1>11. Idle(i) /\ i.out = n.out
  BY <1>7 DEF InstallBoundary, NodeState, Idle
<1> HIDE DEF i
<1>12. i \in NodeState
  BY <1>10 DEF Node
<1>13. {p \in i.pending : p.index > m.index} = i.pending
  BY <1>11 DEF Idle
<1>14. r = i
  BY <1>12, <1>13, Zenon DEF NodeState
<1> HIDE DEF r
<1>15. e \in Node /\ SameVote(r, e)
  BY <1>10, <1>14, EvaluateReadBarriersType
<1>16. Idle(e) /\ e.out = r.out
  BY <1>11, <1>12, <1>14 DEF EvaluateReadBarriers, NodeState, Idle
<1>17. reply \in Message /\ RepliesTo(reply, f, s, e.term)
  <2>1. r.term \in Nat
    BY <1>12, <1>14, NodeFields
  <2>2. reply \in InstallSnapshotResponse
    BY <2>1 DEF SnapshotReply, InstallSnapshotResponse
  <2> QED
    BY <2>2 DEF Message, SnapshotReply, RepliesTo, Claimless
<1> HIDE DEF e, reply
<1>18. /\ e \in NodeState /\ e.id = s /\ e.term >= node[s].term
       /\ e.role # "Leader" /\ e.told = {} /\ e.out = [t \in Server |-> << >>]
  BY <1>4, <1>7, <1>10, <1>11, <1>14, <1>15, <1>16 DEF SameVote, Idle, Node
<1> QED
  BY <1>1, <1>2, <1>17, <1>18, QuietHandled

-----------------------------------------------------------------------------
(* Crashes, lost and repeated messages. *)

(* A crashed server owes nothing when it is back. *)
LEMMA CrashRestartReads ==
    ASSUME Inv, Inv', LogInv, LogInv', SafetyInv, SafetyInv', ReadInv,
           NEW s \in Server, Crash(s) \/ Restart(s)
    PROVE  ReadInv'
<1> DEFINE r == node'[s]
           none == [t \in Server |-> << >>]
<1>1. UNCHANGED <<told, elected>>
  BY DEF Crash, Restart
<1>2. /\ r \in NodeState /\ r.id = s /\ r.term = node[s].term
      /\ r.role = "Follower" /\ r.out = node[s].out /\ r.told = node[s].told
      /\ \A t \in Server \ {s} : node'[t] = node[t]
      /\ \A f, t \in Server : net'[f][t] \in {net[f][t], << >>}
  BY CrashRestart
<1>3. node[s].told = {} /\ node[s].out = none /\ node[s].term \in Nat
  BY NodeFields DEF Inv, TypeInv, TypeOK
<1>4. Sent(r) = r
  BY <1>2, <1>3, Zenon DEF Sent, NodeState
<1>5. ASSUME NEW f \in Server, NEW t \in Server, NEW i \in DOMAIN net'[f][t]
      PROVE  \E j \in DOMAIN net[f][t] : net'[f][t][i] = net[f][t][j]
  BY <1>2
<1> HIDE DEF none
<1>6. ReadStep(s, r)
  <2>1. r.term >= node[s].term
    BY <1>2, <1>3
  <2>2. told' = told \cup r.told /\ elected \subseteq elected'
    BY <1>1, <1>2, <1>3
  <2>3. node'[s] = Sent(r)
    BY <1>4
  <2> HIDE DEF r
  <2> QED
    BY <1>2, <1>5, <2>1, <2>2, <2>3 DEF ReadStep
<1>7. r.out = [t \in Server |-> << >>] /\ r.told = {} /\ r.role # "Leader"
  BY <1>2, <1>3 DEF none
<1>8. Honest(s, r)
  BY <1>7 DEF Honest
<1>9. Reports(r)
  BY <1>7 DEF Reports
<1> QED
  BY <1>6, <1>7, <1>8, <1>9, StepReads

(* Losing and repeating a message. *)
LEMMA WireReads ==
    ASSUME Inv, Inv', LogInv, LogInv', SafetyInv, SafetyInv', ReadInv,
           NEW f \in Server, NEW s \in Server, Lose(f, s) \/ Resend(f, s)
    PROVE  ReadInv'
<1> DEFINE n == node[s]
<1>1. UNCHANGED <<node, told, elected>>
  BY DEF Lose, Resend
<1>2. PartOf(net')
  BY WirePart
<1>3. /\ n \in NodeState /\ n.id = s /\ n.told = {}
      /\ n.out = [t \in Server |-> << >>]
  BY NodeOfServer DEF Inv, TypeInv, TypeOK, Node
<1>4. n.term \in Nat /\ n.round \in Nat /\ n.applied \in Nat
  BY <1>3, NodeFields
<1>5. Sent(n) = n
  BY <1>3, Zenon DEF Sent, NodeState
<1>6. ReadStep(s, n)
  BY <1>1, <1>2, <1>3, <1>4, <1>5 DEF ReadStep, PartOf
<1>7. CASE n.role = "Leader"
  <2>1. PICK N \in Nat : /\ Firm(n, N, n.barriers)
                         /\ RequestsReach(s, N) /\ AnswersReach(s, N)
    BY <1>7, LeaderFirm
  <2>2. Contact(s, n) /\ n.round >= node[s].round /\ n.applied >= node[s].applied
    BY <1>4 DEF Contact
  <2> QED
    BY <1>6, <1>7, <2>1, <2>2, LeadingStep
<1>8. CASE n.role # "Leader"
  BY <1>3, <1>6, <1>8, SilentHonest, QuietReads
<1> QED
  BY <1>7, <1>8

-----------------------------------------------------------------------------
(* The theorem. *)

(* Every message handler keeps the invariant of reads. *)
LEMMA HandleReads ==
    ASSUME Inv, Inv', LogInv, LogInv', SafetyInv, SafetyInv', ReadInv,
           NEW f \in Server, NEW s \in Server, Handle(f, s)
    PROVE  ReadInv'
BY HandleRequestVoteReads, StepDownReads, HandleOutdatedReads,
   HandleRequestVoteResponseReads, HandleStaleReads,
   HandleAppendEntriesInconsistentReads, HandleAppendEntriesRefusedReads,
   HandleAppendEntriesReads, HandleAppendEntriesResponseReads,
   HandleAppendEntriesRejectionReads, HandleInstallSnapshotRefusedReads,
   HandleInstallSnapshotChunkReads, HandleInstallSnapshotReads,
   HandleInstallSnapshotResponseReads, Zenon DEF Handle

(* Every step keeps the invariant of reads. *)
LEMMA NextReads ==
    /\ Inv /\ LogInv /\ SafetyInv /\ ReadInv
    /\ Inv' /\ LogInv' /\ SafetyInv' /\ [Next]_vars
    => ReadInv'
<1> SUFFICES ASSUME Inv, Inv', LogInv, LogInv', SafetyInv, SafetyInv', ReadInv,
                    [Next]_vars
             PROVE  ReadInv'
  OBVIOUS
<1>1. CASE UNCHANGED vars
  <2>1. UNCHANGED <<node, net, told, elected>>
    BY <1>1 DEF vars
  <2> QED
    BY <2>1 DEF ReadInv, Leading, RequestsReach, AnswersReach, Overtaken,
       Behind, TermsElected, Completed, ReadsSeeAcknowledged
<1>2. ASSUME NEW s \in Server,
             \/ TickIdle(s) \/ TickCompactionFails(s) \/ TickHeartbeat(s)
             \/ TickElection(s) \/ TickElectionFails(s)
             \/ (\E v \in Value : Propose(s, v)) \/ ReadIndex(s)
             \/ Crash(s) \/ Restart(s)
      PROVE  ReadInv'
  BY <1>2, TickIdleReads, TickCompactionFailsReads, TickHeartbeatReads,
     TickElectionReads, TickElectionFailsReads, ProposeReads, ReadIndexReads,
     CrashRestartReads, Zenon
<1>3. ASSUME NEW f \in Server, NEW s \in Server,
             Handle(f, s) \/ Lose(f, s) \/ Resend(f, s)
      PROVE  ReadInv'
  BY <1>3, HandleReads, WireReads, Zenon
<1>4. CASE Next
  BY <1>2, <1>3, <1>4, Zenon DEF Next
<1> QED
  BY <1>1, <1>4

(* Nobody leads and nothing was told at the start. *)
LEMMA InitReads == Init => ReadInv
<1> SUFFICES ASSUME Init PROVE ReadInv
  OBVIOUS
<1>1. told = {} /\ \A s \in Server : node[s].role # "Leader"
  BY DEF Init, EmptyNode
<1>2. \A f, s \in Server : net[f][s] = << >>
  BY DEF Init
<1>3. TermsElected /\ ReadsSeeAcknowledged
  BY <1>1, <1>2 DEF TermsElected, Completed, ReadsSeeAcknowledged
<1> QED
  BY <1>1, <1>3 DEF ReadInv

(* Reads are linearizable: whenever a read barrier of a leader is          *)
(* satisfied, its store holds every command that had been acknowledged to  *)
(* a client when the read began (read_index(), evaluate_read_barriers()).  *)
(* A deposed leader that does not know it is deposed answers no read,      *)
(* since no quorum answers the round it has started for it.                *)
THEOREM ReadsAreFresh ==
    ASSUME Durable PROVE Spec => []ReadsSeeAcknowledged
<1>1. ReadInv => ReadsSeeAcknowledged
  BY DEF ReadInv
<1> QED
  BY <1>1, SafetyInvHolds, InitReads, NextReads, PTL DEF Spec

=============================================================================
