-------------------------- MODULE RaftReplicaProofs --------------------------
(* Theorems about RaftKV, for every deployment and as long as what is       *)
(* committed in a group writes keys of that group: the store follows the    *)
(* logs through crashes between the two writes of an entry and through      *)
(* replays, and a read sees what was acknowledged.                          *)
EXTENDS RaftKVProofs, FiniteSetTheorems

-----------------------------------------------------------------------------
(* One group: its log l, committed up to ch, and what this node has of it:  *)
(* how far it applied (n), how far it ever applied (r), the boundary of its *)
(* log (b) and the newest request of each client (res).  cl is the number   *)
(* of connections made so far.                                              *)

(* An entry is known by its client and request; clients of this node have   *)
(* the numbers up to MaxClients, the entry i of another leader MaxClients+i.*)
Identified(l, cl) ==
    /\ Len(l) <= MaxLog
    /\ \A i \in 1 .. Len(l) :
          /\ l[i].request >= 1 /\ l[i].client \in ClientIds
          /\ l[i].client <= cl \/ l[i].client = MaxClients + i
    /\ \A i, j \in 1 .. Len(l) :
          l[i].client = l[j].client /\ l[i].request = l[j].request => i = j

(* The results cover every entry but the last one written, which a crash    *)
(* may have left without, and come from entries that were written.          *)
Covered(l, res, j) == res[l[j].client] >= l[j].request
Replayed(l, ch, n, r, b, res) ==
    /\ n.applied <= r /\ b <= r /\ r <= ch
    /\ \A j \in 1 .. ch : j < r \/ j <= n.applied \/ j <= b => Covered(l, res, j)
    /\ n.dirty => n.applied + 1 = r /\ ~Covered(l, res, n.applied + 1)
    /\ \A id \in ClientIds :
          res[id] # 0 => \E i \in 1 .. r : l[i].client = id /\ l[i].request = res[id]

-----------------------------------------------------------------------------
(* One engine.  Its requests are in the logs at most up to the last one it  *)
(* proposed, and that one not before the raft thread has taken it.          *)
Queued(e) == e.call.kind = "propose" /\ e.call.stage = "queued"
Numbered(gs, l, cl, e) ==
    /\ e.client \in 1 .. cl
    /\ Queued(e) => e.next > 1
    /\ \A g \in gs : \A i \in 1 .. Len(l[g]) :
          l[g][i].client = e.client =>
            l[g][i].request < IF Queued(e) THEN e.next - 1 ELSE e.next

(* The stamps are those of committed entries. *)
Written(s, l, ch, st) ==
    \A k \in Keys : \/ st[k] = 0
                    \/ /\ st[k] \in 1 .. ch[GroupIn(s, k)]
                       /\ k \in l[GroupIn(s, k)][st[k]].keys

(* A call: a barrier is at or behind everything acknowledged when it began, *)
(* and passes when that is applied; a proposal knows its entry.             *)
Waits(s, l, ch, nd, e) ==
    LET g == e.call.group
    IN  /\ e.call.kind = "read" /\ e.call.stage \in {"pending", "done"} =>
             \A k \in Keys : GroupIn(s, k) = g => e.floor[k] <= e.call.index
        /\ e.call.kind = "read" /\ e.call.stage = "done" =>
             nd[g].applied >= e.call.index
        /\ e.call.kind = "propose" /\ e.call.stage = "pending" =>
             /\ nd[g].leader /\ e.call.index \in 1 .. Len(l[g])
             /\ l[g][e.call.index].keys = e.tx
        /\ e.call.kind = "propose" /\ e.call.stage = "done" =>
             /\ e.call.index \in 1 .. ch[g]
             /\ l[g][e.call.index].keys = e.tx

Bearable(s) == IF GroupCount(s.router) = 1 THEN {} ELSE {"snapshot"}
Fresh(s, l, ch, e) ==
    /\ e.tx # None \/ e.call.kind = "read" => e.floor # None
    /\ e.floor # None => Written(s, l, ch, e.floor)
    /\ e.snap # None /\ GroupCount(s.router) = 1 => \A k \in Keys : e.floor[k] <= e.snap[k]
    /\ e.stale \subseteq Bearable(s)

Seen(s, l, ch, nd, cl, e) ==
    Numbered(GroupsIn(s), l, cl, e) /\ Waits(s, l, ch, nd, e) /\ Fresh(s, l, ch, e)

-----------------------------------------------------------------------------
Replicas ==
    \A g \in Groups :
        /\ Identified(log[g], bounds.clients)
        /\ Replayed(log[g], chosen[g], node[g], disk.reached[g], disk.boundary[g],
                    disk.results[g])
Engines ==
    /\ bounds.clients <= MaxClients
    /\ ~up => \A c \in Connections : eng[c] = None
    /\ \A c \in Connections :
          /\ eng[c] = None \/ Seen(scenario, log, chosen, node, bounds.clients, eng[c])
          /\ \A d \in Connections :
                eng[c] # None /\ eng[d] # None /\ eng[c].client = eng[d].client => c = d
Stampings == Written(scenario, log, chosen, acked)

(* v is the last of the entries up to r of log l that wrote k. *)
Stands(l, k, r, v) ==
    /\ v = 0 \/ (v \in 1 .. r /\ k \in l[v].keys)
    /\ \A i \in 1 .. r : k \in l[i].keys => i <= v
Standing ==
    \A k \in Keys : Stands(log[Group(k)], k, disk.reached[Group(k)], disk.store[k])

ReplicaInv == Replicas /\ Engines /\ Stampings /\ Standing

-----------------------------------------------------------------------------
(* Entries. *)
LEMMA EntryFields ==
    ASSUME NEW l \in Seq(Entry), NEW i \in 1 .. Len(l)
    PROVE  /\ l[i] \in Entry /\ l[i].client \in Nat /\ l[i].request \in Nat
           /\ l[i].keys \in SUBSET Keys
<1>1. l[i] \in Entry
  OBVIOUS
<1> QED
  BY <1>1 DEF Entry

(* The bound on the entries of all logs bounds each of them. *)
LEMMA LogBounded ==
    ASSUME Typed, NEW g \in Groups, Len(log[g]) <= MaxLog, Entries < MaxLog
    PROVE  Len(log[g]) < MaxLog
<1> DEFINE T == {q \in Groups \X (1 .. MaxLog) : q[2] \in DOMAIN log[q[1]]}
           f == [i \in 1 .. MaxLog |-> <<g, i>>]
<1>0. MaxLog \in Nat /\ Len(log[g]) \in Nat /\ log[g] \in Seq(Entry)
  BY RaftKVAssumption, GroupFacts
<1>1. SUFFICES ASSUME Len(log[g]) = MaxLog PROVE FALSE
  BY <1>0
<1>2. /\ IsFiniteSet(1 .. MaxLog)
      /\ Cardinality(1 .. MaxLog) = IF 1 > MaxLog THEN 0 ELSE MaxLog - 1 + 1
  BY <1>0, FS_Interval
<1>3. Cardinality(1 .. MaxLog) = MaxLog
  BY <1>0, <1>2
<1>4. IsFiniteSet(T)
  <2>1. IsFiniteSet(Groups)
    <3>1. GroupCount(scenario.router) \in Int
      <4>1. scenario.router \in Router /\ Valid(scenario.router)
        BY RaftKVAssumption DEF Typed
      <4> QED
        BY <4>1, GroupCountIs DEF Router
    <3>2. GroupCount(scenario.router) - 1 \in Int /\ 0 \in Int
      BY <3>1
    <3> QED
      BY <3>2, FS_Interval DEF Groups
  <2>2. IsFiniteSet(Groups \X (1 .. MaxLog))
    BY <1>2, <2>1, FS_Product
  <2>3. T \in SUBSET (Groups \X (1 .. MaxLog))
    OBVIOUS
  <2> QED
    BY <2>2, <2>3, FS_Subset
<1>5. f \in [1 .. MaxLog -> T]
  <2>1. DOMAIN log[g] = 1 .. MaxLog
    BY <1>0, <1>1
  <2>2. \A i \in 1 .. MaxLog : <<g, i>> \in T
    BY <2>1
  <2> QED
    BY <2>2
<1>6. Cardinality(T) < Cardinality(1 .. MaxLog)
  BY <1>3 DEF Entries
<1> HIDE DEF T
<1>7. \E x, y \in 1 .. MaxLog : x # y /\ f[x] = f[y]
  BY <1>2, <1>4, <1>5, <1>6, FS_PigeonHole, ZenonT(40)
<1> QED
  BY <1>7

LEMMA IdentifiedMore ==
    ASSUME NEW l \in Seq(Entry), NEW cl \in Nat, NEW more \in Nat, cl <= more,
           Identified(l, cl)
    PROVE  Identified(l, more)
<1>1. ASSUME NEW i \in 1 .. Len(l), l[i].client <= cl PROVE l[i].client <= more
  BY <1>1, EntryFields
<1> QED
  BY <1>1 DEF Identified

LEMMA AppendParts ==
    ASSUME NEW l \in Seq(Entry), NEW x \in Entry
    PROVE  /\ Append(l, x) \in Seq(Entry) /\ Len(Append(l, x)) = Len(l) + 1
           /\ Len(l) \in Nat
           /\ \A i \in 1 .. Len(l) : Append(l, x)[i] = l[i]
           /\ Append(l, x)[Len(l) + 1] = x
  OBVIOUS

(* The leader appends a request of one of this node's clients. *)
LEMMA AppendIdentified ==
    ASSUME NEW l \in Seq(Entry), NEW cl \in Nat, Identified(l, cl), cl <= MaxClients,
           Len(l) < MaxLog, NEW x \in Entry, x.request >= 1, x.client \in 1 .. cl,
           \A i \in 1 .. Len(l) : l[i].client = x.client => l[i].request # x.request
    PROVE  Identified(Append(l, x), cl)
<1> DEFINE m == Append(l, x)
<1>0. MaxLog \in Nat /\ MaxClients \in Nat
  BY RaftKVAssumption
<1>1. /\ m \in Seq(Entry) /\ Len(m) = Len(l) + 1 /\ Len(l) \in Nat
      /\ \A i \in 1 .. Len(l) : m[i] = l[i]
      /\ m[Len(l) + 1] = x
  BY AppendParts
<1> HIDE DEF m
<1>2. Len(m) <= MaxLog
  BY <1>0, <1>1
<1>3. x.client \in ClientIds
  BY <1>0 DEF ClientIds
<1>4. ASSUME NEW i \in 1 .. Len(m)
      PROVE  /\ m[i].request >= 1 /\ m[i].client \in ClientIds
             /\ m[i].client <= cl \/ m[i].client = MaxClients + i
  <2>1. CASE i \in 1 .. Len(l)
    BY <1>1, <2>1 DEF Identified
  <2>2. CASE i = Len(l) + 1
    BY <1>1, <1>3, <2>2
  <2> QED
    BY <1>1, <2>1, <2>2
<1>5. ASSUME NEW i \in 1 .. Len(m), NEW j \in 1 .. Len(m),
             m[i].client = m[j].client, m[i].request = m[j].request
      PROVE  i = j
  <2>1. CASE i \in 1 .. Len(l) /\ j \in 1 .. Len(l)
    BY <1>1, <1>5, <2>1 DEF Identified
  <2>2. CASE i = Len(l) + 1 /\ j \in 1 .. Len(l)
    BY <1>1, <1>5, <2>2
  <2>3. CASE j = Len(l) + 1 /\ i \in 1 .. Len(l)
    BY <1>1, <1>5, <2>3
  <2> QED
    BY <1>1, <2>1, <2>2, <2>3
<1>6. Identified(m, cl)
  BY <1>2, <1>4, <1>5 DEF Identified
<1> QED
  BY <1>6 DEF m

LEMMA PrefixParts ==
    ASSUME NEW l \in Seq(Entry), NEW ch \in Nat, ch <= Len(l)
    PROVE  /\ SubSeq(l, 1, ch) \in Seq(Entry) /\ Len(SubSeq(l, 1, ch)) = ch
           /\ \A i \in 1 .. ch : SubSeq(l, 1, ch)[i] = l[i]
  OBVIOUS

(* Another leader's entry takes the place of what was not committed. *)
LEMMA RemoteIdentified ==
    ASSUME NEW l \in Seq(Entry), NEW cl \in Nat, Identified(l, cl), cl <= MaxClients,
           NEW ch \in Nat, ch <= Len(l), ch < MaxLog,
           NEW x \in Entry, x.request = 1, x.client = MaxClients + (ch + 1)
    PROVE  /\ Append(SubSeq(l, 1, ch), x) \in Seq(Entry)
           /\ Len(Append(SubSeq(l, 1, ch), x)) = ch + 1
           /\ \A i \in 1 .. ch : Append(SubSeq(l, 1, ch), x)[i] = l[i]
           /\ Append(SubSeq(l, 1, ch), x)[ch + 1] = x
           /\ Identified(Append(SubSeq(l, 1, ch), x), cl)
<1> DEFINE p == SubSeq(l, 1, ch)
           m == Append(p, x)
<1>0. MaxLog \in Nat /\ MaxClients \in Nat /\ Len(l) \in Nat
  BY RaftKVAssumption
<1>1. p \in Seq(Entry) /\ Len(p) = ch /\ \A i \in 1 .. ch : p[i] = l[i]
  BY PrefixParts
<1> HIDE DEF p
<1>2. /\ m \in Seq(Entry) /\ Len(m) = ch + 1
      /\ \A i \in 1 .. ch : m[i] = l[i]
      /\ m[ch + 1] = x
  BY <1>1, AppendParts
<1> HIDE DEF m
<1>3. Len(m) <= MaxLog
  BY <1>0, <1>2
<1>4. x.client \in ClientIds
  BY <1>0 DEF ClientIds
<1>5. ASSUME NEW i \in 1 .. Len(m)
      PROVE  /\ m[i].request >= 1 /\ m[i].client \in ClientIds
             /\ m[i].client <= cl \/ m[i].client = MaxClients + i
  <2>1. CASE i \in 1 .. ch
    <3>1. i \in 1 .. Len(l)
      BY <1>0, <2>1
    <3> QED
      BY <1>2, <2>1, <3>1 DEF Identified
  <2>2. CASE i = ch + 1
    BY <1>2, <1>4, <2>2
  <2> QED
    BY <1>2, <2>1, <2>2
<1>6. ASSUME NEW i \in 1 .. ch PROVE m[i].client # x.client
  <2>1. i \in 1 .. Len(l) /\ m[i] = l[i]
    BY <1>0, <1>2, <1>6
  <2>2. l[i].client <= cl \/ l[i].client = MaxClients + i
    BY <2>1 DEF Identified
  <2>3. l[i].client \in Nat
    BY <2>1, EntryFields
  <2> QED
    BY <1>0, <2>1, <2>2, <2>3
<1>7. ASSUME NEW i \in 1 .. Len(m), NEW j \in 1 .. Len(m),
             m[i].client = m[j].client, m[i].request = m[j].request
      PROVE  i = j
  <2>1. CASE i \in 1 .. ch /\ j \in 1 .. ch
    <3>1. i \in 1 .. Len(l) /\ j \in 1 .. Len(l) /\ m[i] = l[i] /\ m[j] = l[j]
      BY <1>0, <1>2, <2>1
    <3> QED
      BY <1>7, <3>1 DEF Identified
  <2>2. CASE i = ch + 1 /\ j \in 1 .. ch
    BY <1>2, <1>6, <1>7, <2>2
  <2>3. CASE j = ch + 1 /\ i \in 1 .. ch
    BY <1>2, <1>6, <1>7, <2>3
  <2> QED
    BY <1>2, <2>1, <2>2, <2>3
<1>8. Identified(m, cl)
  BY <1>3, <1>5, <1>7 DEF Identified
<1> QED
  BY <1>2, <1>8 DEF m, p

-----------------------------------------------------------------------------
(* Applying. *)
Results == [ClientIds -> Nat]

(* What is committed stays, and more is committed. *)
LEMMA ReplayedGrows ==
    ASSUME NEW l, NEW m, NEW ch \in Nat, NEW more \in Nat, ch <= more,
           \A i \in 1 .. ch : m[i] = l[i],
           NEW n \in RaftNode, NEW r \in Nat, NEW b \in Nat, NEW res,
           Replayed(l, ch, n, r, b, res)
    PROVE  Replayed(m, more, n, r, b, res)
<1>0. n.applied \in Nat
  BY DEF RaftNode
<1>1. n.applied <= r /\ b <= r /\ r <= ch
  BY DEF Replayed
<1>2. r <= more
  BY <1>1
<1>3. ASSUME NEW j \in 1 .. more, j < r \/ j <= n.applied \/ j <= b
      PROVE  Covered(m, res, j)
  <2>1. j \in 1 .. ch /\ m[j] = l[j]
    BY <1>0, <1>1, <1>3
  <2>2. Covered(l, res, j)
    BY <1>3, <2>1 DEF Replayed
  <2> QED
    BY <2>1, <2>2 DEF Covered
<1>4. ASSUME n.dirty
      PROVE  n.applied + 1 = r /\ ~Covered(m, res, n.applied + 1)
  <2>1. n.applied + 1 = r /\ ~Covered(l, res, n.applied + 1)
    BY <1>4 DEF Replayed
  <2>2. n.applied + 1 \in 1 .. ch
    BY <1>0, <1>1, <2>1
  <2> QED
    BY <2>1, <2>2 DEF Covered
<1>5. ASSUME NEW id \in ClientIds, res[id] # 0
      PROVE  \E i \in 1 .. r : m[i].client = id /\ m[i].request = res[id]
  <2>1. PICK i \in 1 .. r : l[i].client = id /\ l[i].request = res[id]
    BY <1>5 DEF Replayed
  <2>2. m[i] = l[i]
    BY <1>1
  <2> QED
    BY <2>1, <2>2
<1> QED
  BY <1>1, <1>2, <1>3, <1>4, <1>5 DEF Replayed

(* The entry after the applied ones is new, or the one a crash left. *)
LEMMA NextIsLast ==
    ASSUME NEW l, NEW ch \in Nat, NEW n \in RaftNode, NEW r \in Nat, NEW b \in Nat, NEW res,
           Replayed(l, ch, n, r, b, res), n.applied < ch,
           ~Covered(l, res, n.applied + 1)
    PROVE  n.applied + 1 = r \/ n.applied + 1 = r + 1
<1>0. n.applied \in Nat
  BY DEF RaftNode
<1>1. n.applied <= r /\ n.applied + 1 \in 1 .. ch
  BY <1>0 DEF Replayed
<1>2. ~(n.applied + 1 < r)
  BY <1>1 DEF Replayed
<1> QED
  BY <1>0, <1>1, <1>2

(* The batch is written. *)
LEMMA ReplayedWrites ==
    ASSUME NEW l, NEW ch \in Nat, NEW n \in RaftNode, NEW r \in Nat, NEW b \in Nat, NEW res,
           Replayed(l, ch, n, r, b, res), n.applied < ch,
           ~Covered(l, res, n.applied + 1),
           NEW d \in RaftNode, d.applied = n.applied, d.dirty
    PROVE  Replayed(l, ch, d, n.applied + 1, b, res)
<1> DEFINE i == n.applied + 1
<1>0. n.applied \in Nat /\ i \in Nat
  BY DEF RaftNode
<1>1. i = r \/ i = r + 1
  BY NextIsLast
<1>2. b <= i /\ n.applied <= i /\ i <= ch /\ r <= i
  BY <1>0, <1>1 DEF Replayed
<1>3. ASSUME NEW j \in 1 .. ch, j < i \/ j <= n.applied \/ j <= b
      PROVE  Covered(l, res, j)
  <2>1. j <= n.applied \/ j <= b
    BY <1>0, <1>3
  <2> QED
    BY <2>1 DEF Replayed
<1>4. ASSUME NEW id \in ClientIds, res[id] # 0
      PROVE  \E k \in 1 .. i : l[k].client = id /\ l[k].request = res[id]
  <2>1. PICK k \in 1 .. r : l[k].client = id /\ l[k].request = res[id]
    BY <1>4 DEF Replayed
  <2>2. k \in 1 .. i
    BY <1>0, <1>2
  <2> QED
    BY <2>1, <2>2
<1> QED
  BY <1>2, <1>3, <1>4 DEF Replayed

(* The result is saved. *)
LEMMA ReplayedSaves ==
    ASSUME NEW l \in Seq(Entry), NEW cl, Identified(l, cl), NEW ch \in Nat, ch <= Len(l),
           NEW n \in RaftNode, NEW r \in Nat, NEW b \in Nat, NEW res \in Results,
           Replayed(l, ch, n, r, b, res), n.applied < ch, n.dirty,
           NEW d \in RaftNode, d.applied = n.applied + 1, ~d.dirty
    PROVE  Replayed(l, ch, d, r, b, [res EXCEPT ![l[n.applied + 1].client] =
                                               l[n.applied + 1].request])
<1> DEFINE i == n.applied + 1
           id == l[i].client
           now == [res EXCEPT ![id] = l[i].request]
<1>0. n.applied \in Nat /\ i \in 1 .. Len(l) /\ i \in 1 .. ch
  BY DEF RaftNode
<1>1. i = r /\ ~Covered(l, res, i) /\ b <= r /\ r <= ch
  BY DEF Replayed
<1>2. /\ id \in ClientIds /\ l[i].request \in Nat /\ l[i].request >= 1
  BY <1>0, EntryFields DEF Identified
<1>3. /\ now \in Results /\ now[id] = l[i].request
      /\ \A x \in ClientIds : x # id => now[x] = res[x]
      /\ \A x \in ClientIds : res[x] \in Nat
  BY <1>2 DEF Results
<1> HIDE DEF now
<1>4. res[id] < l[i].request
  BY <1>1, <1>2, <1>3 DEF Covered
<1>5. ASSUME NEW j \in 1 .. ch, j < r \/ j <= i \/ j <= b
      PROVE  Covered(l, now, j)
  <2>0. j \in 1 .. Len(l) /\ l[j].client \in ClientIds /\ l[j].request \in Nat
    BY EntryFields DEF Identified
  <2>1. CASE j = i
    BY <1>2, <1>3, <2>1 DEF Covered
  <2>2. CASE j # i
    <3>1. j < r
      BY <1>0, <1>1, <1>5, <2>2
    <3>2. res[l[j].client] >= l[j].request
      BY <3>1 DEF Replayed, Covered
    <3>3. CASE l[j].client = id
      BY <1>2, <1>3, <1>4, <2>0, <3>2, <3>3 DEF Covered
    <3>4. CASE l[j].client # id
      BY <1>3, <2>0, <3>2, <3>4 DEF Covered
    <3> QED
      BY <3>3, <3>4
  <2> QED
    BY <2>1, <2>2
<1>6. ASSUME NEW x \in ClientIds, now[x] # 0
      PROVE  \E k \in 1 .. r : l[k].client = x /\ l[k].request = now[x]
  <2>1. CASE x = id
    <3>1. i \in 1 .. r
      BY <1>0, <1>1
    <3> QED
      BY <1>3, <2>1, <3>1
  <2>2. CASE x # id
    BY <1>3, <1>6, <2>2 DEF Replayed
  <2> QED
    BY <2>1, <2>2
<1>7. d.applied <= r
  BY <1>1
<1>8. Replayed(l, ch, d, r, b, now)
  BY <1>1, <1>5, <1>6, <1>7 DEF Replayed
<1> QED
  BY <1>8 DEF now

(* The entry has its result: it was written before. *)
LEMMA ReplayedSkips ==
    ASSUME NEW l \in Seq(Entry), NEW cl, Identified(l, cl), NEW ch \in Nat, ch <= Len(l),
           NEW n \in RaftNode, NEW r \in Nat, NEW b \in Nat, NEW res \in Results,
           Replayed(l, ch, n, r, b, res), n.applied < ch,
           res[l[n.applied + 1].client] = l[n.applied + 1].request,
           NEW d \in RaftNode, d.applied = n.applied + 1, ~d.dirty
    PROVE  Replayed(l, ch, d, r, b, res)
<1> DEFINE i == n.applied + 1
<1>0. n.applied \in Nat /\ i \in 1 .. Len(l) /\ i \in 1 .. ch
  BY DEF RaftNode
<1>1. /\ l[i].client \in ClientIds /\ l[i].request \in Nat /\ l[i].request >= 1
  BY <1>0, EntryFields DEF Identified
<1>2. b <= r /\ r <= ch
  BY DEF Replayed
<1>3. PICK k \in 1 .. r : l[k].client = l[i].client /\ l[k].request = l[i].request
  BY <1>1 DEF Replayed
<1>4. k = i
  BY <1>0, <1>2, <1>3, SMTT(30) DEF Identified
<1>5. ASSUME NEW j \in 1 .. ch, j < r \/ j <= i \/ j <= b
      PROVE  Covered(l, res, j)
  <2>1. CASE j = i
    BY <1>1, <2>1 DEF Covered
  <2>2. CASE j # i
    <3>1. j < r \/ j <= n.applied \/ j <= b
      BY <1>0, <1>5, <2>2
    <3> QED
      BY <3>1 DEF Replayed
  <2> QED
    BY <2>1, <2>2
<1>6. d.applied <= r
  BY <1>4
<1> QED
  BY <1>2, <1>5, <1>6 DEF Replayed

(* The node starts again, or moves its boundary up to what it has applied. *)
LEMMA ReplayedElsewhere ==
    ASSUME NEW l, NEW ch \in Nat, NEW n \in RaftNode, NEW r \in Nat, NEW b \in Nat, NEW res,
           Replayed(l, ch, n, r, b, res), NEW d \in RaftNode, NEW at \in Nat,
           \/ d.applied \in {0, b} /\ ~d.dirty /\ at = b
           \/ d.applied = n.applied /\ (d.dirty <=> n.dirty) /\ at \in {b, n.applied}
    PROVE  Replayed(l, ch, d, r, at, res)
<1>0. n.applied \in Nat /\ d.applied \in Nat
  BY DEF RaftNode
<1>1. d.applied <= r /\ at <= r /\ r <= ch
  BY <1>0 DEF Replayed
<1>2. ASSUME NEW j \in 1 .. ch, j < r \/ j <= d.applied \/ j <= at
      PROVE  Covered(l, res, j)
  <2>1. j < r \/ j <= n.applied \/ j <= b
    BY <1>0, <1>2
  <2> QED
    BY <2>1 DEF Replayed
<1> QED
  BY <1>1, <1>2 DEF Replayed

-----------------------------------------------------------------------------
(* The store. *)
LEMMA StandsGrows ==
    ASSUME NEW l, NEW m, NEW r \in Nat, \A i \in 1 .. r : m[i] = l[i], NEW k, NEW v,
           Stands(l, k, r, v)
    PROVE  Stands(m, k, r, v)
  BY DEF Stands

LEMMA StandsWritten ==
    ASSUME NEW l, NEW r \in Nat, NEW k, NEW v \in Nat, Stands(l, k, r, v), NEW i \in Nat,
           i >= 1, i = r \/ i = r + 1
    PROVE  Stands(l, k, i, IF k \in l[i].keys THEN i ELSE v)
<1>1. CASE k \in l[i].keys
  BY <1>1 DEF Stands
<1>2. CASE k \notin l[i].keys
  <2>1. v = 0 \/ (v \in 1 .. i /\ k \in l[v].keys)
    BY DEF Stands
  <2>2. ASSUME NEW j \in 1 .. i, k \in l[j].keys PROVE j <= v
    <3>1. j \in 1 .. r
      BY <1>2, <2>2
    <3> QED
      BY <2>2, <3>1 DEF Stands
  <2> QED
    BY <1>2, <2>1, <2>2 DEF Stands
<1> QED
  BY <1>1, <1>2

LEMMA StandsIsLast ==
    ASSUME NEW g, NEW k, NEW r \in Nat, NEW v \in Nat, Stands(log[g], k, r, v)
    PROVE  v = LastWriter(g, k, r)
<1> DEFINE ws == {i \in 1 .. r : k \in log[g][i].keys}
<1>1. CASE ws = {}
  <2>1. v = 0
    BY <1>1 DEF Stands
  <2> QED
    BY <1>1, <2>1 DEF LastWriter
<1>2. CASE ws # {}
  <2>1. v \in ws /\ \A j \in ws : j <= v
    BY <1>2 DEF Stands
  <2>2. \A i \in ws : (\A j \in ws : j <= i) => i = v
    BY <2>1
  <2>3. (CHOOSE i \in ws : \A j \in ws : j <= i) = v
    BY <2>1, <2>2
  <2> QED
    BY <1>2, <2>3 DEF LastWriter
<1> QED
  BY <1>1, <1>2

-----------------------------------------------------------------------------
(* Engines, while logs, nodes and calls go on. *)
Later(gs, l, ch, m, more) ==
    \A g \in gs : /\ ch[g] \in Nat /\ more[g] \in Nat /\ ch[g] <= more[g]
                  /\ \A i \in 1 .. ch[g] : m[g][i] = l[g][i]

LEMMA WrittenLater ==
    ASSUME NEW s \in Scenarios, NEW l, NEW ch, NEW m, NEW more,
           Later(GroupsIn(s), l, ch, m, more), NEW st, Written(s, l, ch, st)
    PROVE  Written(s, m, more, st)
<1> SUFFICES ASSUME NEW k \in Keys, st[k] # 0
             PROVE  /\ st[k] \in 1 .. more[GroupIn(s, k)]
                    /\ k \in m[GroupIn(s, k)][st[k]].keys
  BY DEF Written
<1> DEFINE g == GroupIn(s, k)
<1>1. g \in GroupsIn(s)
  BY Deployment
<1>2. st[k] \in 1 .. ch[g] /\ k \in l[g][st[k]].keys
  BY DEF Written
<1> HIDE DEF g
<1>3. /\ ch[g] \in Nat /\ more[g] \in Nat /\ ch[g] <= more[g]
      /\ \A i \in 1 .. ch[g] : m[g][i] = l[g][i]
  BY <1>1 DEF Later
<1>4. st[k] \in 1 .. more[g] /\ k \in m[g][st[k]].keys
  BY <1>2, <1>3
<1> QED
  BY <1>4 DEF g

LEMMA FreshLater ==
    ASSUME NEW s \in Scenarios, NEW l, NEW ch, NEW m, NEW more,
           Later(GroupsIn(s), l, ch, m, more), NEW e, Fresh(s, l, ch, e)
    PROVE  Fresh(s, m, more, e)
  BY WrittenLater DEF Fresh

(* The call aside, n is e. *)
Carried(n, e) ==
    /\ n.client = e.client /\ n.next = e.next /\ n.tx = e.tx /\ n.floor = e.floor
    /\ n.snap = e.snap /\ n.stale = e.stale
    /\ n.call.kind = e.call.kind /\ n.call.group = e.call.group

LEMMA AtCarries ==
    ASSUME NEW e \in Engine, NEW st \in Stages, NEW i \in Nat
    PROVE  /\ Carried(At(e, st, i), e)
           /\ At(e, st, i).call.stage = st /\ At(e, st, i).call.index = i
<1> DEFINE k == [e.call EXCEPT !.stage = st, !.index = i]
           n == [e EXCEPT !.call = k]
<1>1. At(e, st, i) = n
  BY DEF At, Engine
<1> HIDE DEF k
<1>2. n.client = e.client /\ n.next = e.next /\ n.floor = e.floor /\ n.stale = e.stale
  BY DEF Engine
<1> HIDE DEF n
<1>3. /\ Alike(n, e) /\ n.call.kind = e.call.kind /\ n.call.group = e.call.group
      /\ n.call.stage = st /\ n.call.index = i
  BY <1>1, AtFields
<1>4. n.tx = e.tx /\ n.snap = e.snap
  BY <1>3 DEF Alike
<1>5. Carried(n, e)
  BY <1>2, <1>3, <1>4 DEF Carried
<1> QED
  BY <1>1, <1>3, <1>5

LEMMA FreshCarried ==
    ASSUME NEW s, NEW l, NEW ch, NEW n, NEW e, Carried(n, e), Fresh(s, l, ch, e)
    PROVE  Fresh(s, l, ch, n)
  BY DEF Carried, Fresh

LEMMA NumberedCarried ==
    ASSUME NEW gs, NEW l, NEW cl, NEW n, NEW e \in Engine, Carried(n, e), ~Queued(n),
           \A g \in gs : l[g] \in Seq(Entry), Numbered(gs, l, cl, e)
    PROVE  Numbered(gs, l, cl, n)
<1>1. e.next \in Nat /\ n.next = e.next /\ n.client = e.client
  BY EngineFields DEF Carried
<1>2. ASSUME NEW g \in gs, NEW i \in 1 .. Len(l[g]), l[g][i].client = n.client
      PROVE  l[g][i].request < n.next
  <2>1. l[g][i].request \in Nat
    BY <1>2, EntryFields
  <2>2. l[g][i].request < IF Queued(e) THEN e.next - 1 ELSE e.next
    BY <1>1, <1>2 DEF Numbered
  <2> QED
    BY <1>1, <2>1, <2>2
<1> QED
  BY <1>1, <1>2 DEF Numbered

(* Time passes for an engine whose call is as it was. *)
LEMMA WaitsLater ==
    ASSUME NEW s \in Scenarios, NEW l, NEW ch, NEW nd, NEW m, NEW more, NEW now,
           Later(GroupsIn(s), l, ch, m, more),
           \A g \in GroupsIn(s) : /\ nd[g].applied \in Nat /\ now[g].applied \in Nat
                                  /\ nd[g].applied <= now[g].applied,
           NEW e \in Engine, Waits(s, l, ch, nd, e),
           e.call.kind \in {"read", "propose"} => e.call.group \in GroupsIn(s),
           e.call.kind = "propose" /\ e.call.stage = "pending" =>
              /\ now[e.call.group].leader /\ e.call.index \in 1 .. Len(m[e.call.group])
              /\ m[e.call.group][e.call.index].keys = e.tx
    PROVE  Waits(s, m, more, now, e)
<1> DEFINE g == e.call.group
           i == e.call.index
<1>0. i \in Nat
  BY EngineFields DEF RaftCall
<1>1. ASSUME e.call.kind = "read", e.call.stage = "done" PROVE now[g].applied >= i
  <2>1. nd[g].applied >= i /\ g \in GroupsIn(s)
    BY <1>1 DEF Waits
  <2> QED
    BY <1>0, <2>1
<1>2. ASSUME e.call.kind = "propose", e.call.stage = "done"
      PROVE  i \in 1 .. more[g] /\ m[g][i].keys = e.tx
  <2>1. i \in 1 .. ch[g] /\ l[g][i].keys = e.tx /\ g \in GroupsIn(s)
    BY <1>2 DEF Waits
  <2>2. /\ ch[g] \in Nat /\ more[g] \in Nat /\ ch[g] <= more[g]
        /\ \A j \in 1 .. ch[g] : m[g][j] = l[g][j]
    BY <2>1 DEF Later
  <2> HIDE DEF g, i
  <2> QED
    BY <2>1, <2>2
<1> QED
  BY <1>1, <1>2 DEF Waits

LEMMA WaitsFailed ==
    ASSUME NEW s, NEW l, NEW ch, NEW nd, NEW n, n.call.stage \notin {"pending", "done"}
    PROVE  Waits(s, l, ch, nd, n)
  BY DEF Waits

-----------------------------------------------------------------------------
(* The raft threads. *)
LEMMA EngineIs ==
    ASSUME AdapterInv, NEW d \in Connections, eng[d] # None
    PROVE  /\ Local(scenario, eng[d]) /\ eng[d] \in Engine /\ eng[d].call \in RaftCall
           /\ eng[d].call.index \in Nat /\ eng[d].next \in Nat \ {0}
           /\ eng[d].call.kind \in {"read", "propose"} =>
                 /\ eng[d].call # NoCall /\ eng[d].call.group \in Groups
                 /\ eng[d].call.stage # "none"
<1>1. Local(scenario, eng[d]) /\ eng[d] \in Engine
  BY DEF AdapterInv, Locals, Local
<1>2. eng[d].call \in RaftCall /\ eng[d].next \in Nat \ {0}
  BY <1>1, EngineFields
<1>3. eng[d].call.index \in Nat
  BY <1>2 DEF RaftCall
<1>4. ASSUME eng[d].call.kind \in {"read", "propose"} PROVE eng[d].call # NoCall
  BY <1>4 DEF NoCall
<1> QED
  BY <1>1, <1>2, <1>3, <1>4 DEF Local, Calling, Groups, GroupsIn

LEMMA ReplicaFacts ==
    ASSUME AdapterInv, Replicas, NEW g \in Groups
    PROVE  /\ disk.reached[g] \in Nat /\ disk.boundary[g] \in Nat
           /\ disk.results[g] \in Results /\ bounds.clients \in Nat
           /\ Identified(log[g], bounds.clients)
           /\ Replayed(log[g], chosen[g], node[g], disk.reached[g], disk.boundary[g],
                       disk.results[g])
<1>1. disk \in Stored /\ bounds \in Counters
  BY DEF AdapterInv, Typed
<1>2. /\ disk.reached \in [Groups -> Nat] /\ disk.boundary \in [Groups -> Nat]
      /\ disk.results \in [Groups -> [ClientIds -> Nat]] /\ bounds.clients \in Nat
  BY <1>1 DEF Stored, Counters
<1> QED
  BY <1>2 DEF Replicas, Results

LEMMA EnginesNext ==
    ASSUME Engines, scenario' = scenario, up' = up, bounds'.clients = bounds.clients,
           \A d \in Connections :
              \/ eng'[d] = None
              \/ /\ eng[d] # None /\ eng'[d].client = eng[d].client
                 /\ Seen(scenario, log', chosen', node', bounds.clients, eng'[d])
    PROVE  Engines'
  BY DEF Engines

(* The calls stay as they are. *)
LEMMA EnginesWait ==
    ASSUME AdapterInv, Engines, UNCHANGED <<scenario, up, eng>>,
           bounds'.clients = bounds.clients,
           Later(Groups, log, chosen, log', chosen'),
           \A g \in Groups :
              /\ node[g].applied <= node'[g].applied /\ node'[g].applied \in Nat
              /\ node[g].leader =>
                    /\ node'[g].leader /\ Len(log'[g]) \in Nat /\ Len(log[g]) <= Len(log'[g])
                    /\ \A i \in 1 .. Len(log[g]) : log'[g][i] = log[g][i],
           \A d \in Connections : eng[d] # None =>
              Numbered(Groups, log', bounds.clients, eng[d])
    PROVE  Engines'
<1>0. Typed /\ scenario \in Scenarios /\ Groups = GroupsIn(scenario)
  BY DEF AdapterInv, Typed, Groups, GroupsIn
<1>1. ASSUME NEW d \in Connections, eng[d] # None
      PROVE  Seen(scenario, log', chosen', node', bounds.clients, eng[d])
  <2> DEFINE e == eng[d]
  <2>1. e \in Engine /\ (e.call.kind \in {"read", "propose"} => e.call.group \in Groups)
    BY <1>1, EngineIs
  <2>2. /\ Waits(scenario, log, chosen, node, e) /\ Fresh(scenario, log, chosen, e)
    BY <1>1 DEF Engines, Seen
  <2>3. ASSUME e.call.kind = "propose", e.call.stage = "pending"
        PROVE  /\ node'[e.call.group].leader
               /\ e.call.index \in 1 .. Len(log'[e.call.group])
               /\ log'[e.call.group][e.call.index].keys = e.tx
    <3>1. /\ node[e.call.group].leader /\ e.call.index \in 1 .. Len(log[e.call.group])
          /\ log[e.call.group][e.call.index].keys = e.tx /\ e.call.group \in Groups
      BY <2>1, <2>2, <2>3 DEF Waits
    <3>2. Len(log[e.call.group]) \in Nat
      BY <1>0, <3>1, GroupFacts
    <3> HIDE DEF e
    <3> QED
      BY <3>1, <3>2
  <2>4. \A g \in GroupsIn(scenario) : /\ node[g].applied \in Nat /\ node'[g].applied \in Nat
                                      /\ node[g].applied <= node'[g].applied
    BY <1>0, GroupFacts
  <2> HIDE DEF e
  <2>5. Waits(scenario, log', chosen', node', e)
    BY <1>0, <2>1, <2>2, <2>3, <2>4, WaitsLater
  <2>6. Fresh(scenario, log', chosen', e)
    BY <1>0, <2>2, FreshLater
  <2>7. Numbered(Groups, log', bounds.clients, e)
    BY <1>1 DEF e
  <2> QED
    BY <1>0, <2>5, <2>6, <2>7 DEF Seen, e
<1> QED
  BY <1>1, EnginesNext

(* The calls move on, and the logs with them. *)
LEMMA EnginesGo ==
    ASSUME AdapterInv, Engines, scenario' = scenario, up' = up,
           bounds'.clients = bounds.clients,
           Later(Groups, log, chosen, log', chosen'),
           \A d \in Connections :
              \/ eng'[d] = None
              \/ /\ eng[d] # None /\ Carried(eng'[d], eng[d])
                 /\ Numbered(Groups, log', bounds.clients, eng'[d])
                 /\ Waits(scenario, log', chosen', node', eng'[d])
    PROVE  Engines'
<1>0. scenario \in Scenarios /\ Groups = GroupsIn(scenario)
  BY DEF AdapterInv, Typed, Groups, GroupsIn
<1>1. ASSUME NEW d \in Connections, eng'[d] # None
      PROVE  /\ eng[d] # None /\ eng'[d].client = eng[d].client
             /\ Seen(scenario, log', chosen', node', bounds.clients, eng'[d])
  <2>1. /\ eng[d] # None /\ Carried(eng'[d], eng[d])
        /\ Numbered(Groups, log', bounds.clients, eng'[d])
        /\ Waits(scenario, log', chosen', node', eng'[d])
    BY <1>1
  <2>2. Fresh(scenario, log, chosen, eng[d])
    BY <2>1 DEF Engines, Seen
  <2>3. Fresh(scenario, log', chosen', eng[d])
    BY <1>0, <2>2, FreshLater
  <2>4. Fresh(scenario, log', chosen', eng'[d])
    BY <2>1, <2>3, FreshCarried
  <2> QED
    BY <1>0, <2>1, <2>4 DEF Seen, Carried
<1> QED
  BY <1>1, EnginesNext

LEMMA Unchanging ==
    ASSUME Typed, UNCHANGED <<log, chosen>>
    PROVE  Later(Groups, log, chosen, log', chosen')
<1>1. ASSUME NEW g \in Groups
      PROVE  chosen[g] \in Nat /\ chosen'[g] = chosen[g] /\ log'[g] = log[g]
  BY GroupFacts
<1> QED
  BY <1>1 DEF Later

(* What the raft thread answers: the calls that are settled, and no other. *)
LEMMA Resolved ==
    ASSUME AdapterInv, Engines, NEW g, NEW kind, NEW from, NEW to, NEW st \in {"done", "failed"},
           eng' = Resolve(g, kind, from, to, st), NEW d \in Connections
    PROVE  \/ eng'[d] = None /\ eng[d] = None
           \/ /\ eng[d] # None /\ eng'[d] = eng[d]
              /\ ~(Settled(d, g, "pending", from, to) /\ eng[d].call.kind \in kind)
           \/ /\ eng[d] # None /\ Carried(eng'[d], eng[d])
              /\ Settled(d, g, "pending", from, to) /\ eng[d].call.kind \in kind
              /\ eng'[d].call.stage = st /\ eng'[d].call.index = eng[d].call.index
              /\ Numbered(Groups, log, bounds.clients, eng'[d])
<1>1. eng'[d] = IF Settled(d, g, "pending", from, to) /\ eng[d].call.kind \in kind
                THEN [eng[d] EXCEPT !.call.stage = st] ELSE eng[d]
  BY DEF Resolve
<1>2. CASE Settled(d, g, "pending", from, to) /\ eng[d].call.kind \in kind
  <2>1. eng[d] # None
    BY <1>2 DEF Settled
  <2>2. eng[d] \in Engine
    BY <2>1, EngineIs
  <2>3. eng'[d] = At(eng[d], st, eng[d].call.index) /\ eng[d].call.index \in Nat
    BY <1>1, <1>2, <2>2, SameIndex
  <2>4. st \in Stages
    BY DEF Stages
  <2>5. /\ Carried(eng'[d], eng[d]) /\ eng'[d].call.stage = st
        /\ eng'[d].call.index = eng[d].call.index
    BY <2>2, <2>3, <2>4, AtCarries
  <2>6. ~Queued(eng'[d])
    BY <2>5 DEF Queued
  <2>7. Numbered(Groups, log, bounds.clients, eng[d])
    BY <2>1 DEF Engines, Seen, Groups, GroupsIn
  <2>8. \A h \in Groups : log[h] \in Seq(Entry)
    BY GroupFacts DEF AdapterInv
  <2>9. Numbered(Groups, log, bounds.clients, eng'[d])
    BY <2>2, <2>5, <2>6, <2>7, <2>8, NumberedCarried
  <2> QED
    BY <1>2, <2>1, <2>5, <2>9
<1>3. CASE ~(Settled(d, g, "pending", from, to) /\ eng[d].call.kind \in kind)
  BY <1>1, <1>3
<1> QED
  BY <1>2, <1>3

LEMMA CarriedSame ==
    ASSUME NEW e
    PROVE  Carried(e, e)
  BY DEF Carried

(* Everything a group waits for has failed. *)
LEMMA EnginesFailed ==
    ASSUME AdapterInv, Engines, NEW g \in Groups, Replicas,
           eng' = Resolve(g, {"propose", "read"}, 0, MaxLog, "failed"),
           scenario' = scenario, up' = up, bounds'.clients = bounds.clients,
           UNCHANGED <<log, chosen>>,
           \A h \in Groups : /\ node'[h].applied = node[h].applied
                             /\ h # g => node'[h].leader = node[h].leader
    PROVE  Engines'
<1>0. Typed /\ scenario \in Scenarios /\ Groups = GroupsIn(scenario)
  BY DEF AdapterInv, Typed, Groups, GroupsIn
<1>1. Later(Groups, log, chosen, log', chosen')
  BY <1>0, Unchanging
<1>2. ASSUME NEW d \in Connections, eng[d] # None, eng'[d] # None
      PROVE  /\ Carried(eng'[d], eng[d])
             /\ Numbered(Groups, log', bounds.clients, eng'[d])
             /\ Waits(scenario, log', chosen', node', eng'[d])
  <2> DEFINE e == eng[d]
             settled == Settled(d, g, "pending", 0, MaxLog) /\ e.call.kind \in {"propose", "read"}
  <2>1. CASE settled
    <3>1. /\ Carried(eng'[d], eng[d]) /\ Numbered(Groups, log, bounds.clients, eng'[d])
          /\ eng'[d].call.stage = "failed"
      BY <1>2, <2>1, Resolved
    <3>2. Waits(scenario, log', chosen', node', eng'[d])
      BY <3>1, WaitsFailed
    <3> QED
      BY <3>1, <3>2
  <2>2. CASE ~settled
    <3>1. eng'[d] = e
      BY <1>2, <2>2, Resolved
    <3>2. Numbered(Groups, log', bounds.clients, e) /\ Waits(scenario, log, chosen, node, e)
      BY <1>0, <1>2 DEF Engines, Seen
    <3>3. /\ e \in Engine /\ e.call.index \in Nat
          /\ e.call.kind \in {"read", "propose"} => e.call.group \in Groups
      BY <1>2, EngineIs
    <3>4. ASSUME e.call.kind = "propose", e.call.stage = "pending"
          PROVE  /\ node'[e.call.group].leader
                 /\ e.call.index \in 1 .. Len(log'[e.call.group])
                 /\ log'[e.call.group][e.call.index].keys = e.tx
      <4>1. /\ node[e.call.group].leader /\ e.call.index \in 1 .. Len(log[e.call.group])
            /\ log[e.call.group][e.call.index].keys = e.tx /\ e.call.group \in Groups
        BY <3>2, <3>3, <3>4 DEF Waits
      <4>2. CASE e.call.group = g
        <5>1. Len(log[g]) <= MaxLog /\ Len(log[g]) \in Nat /\ MaxLog \in Nat
          BY <1>0, GroupFacts, RaftKVAssumption DEF Replicas, Identified
        <5>2. e.call.index \in 0 .. MaxLog
          BY <4>1, <4>2, <5>1
        <5>3. settled
          BY <1>2, <3>4, <4>2, <5>2 DEF Settled
        <5> QED
          BY <2>2, <5>3
      <4>3. CASE e.call.group # g
        BY <4>1, <4>3
      <4> QED
        BY <4>2, <4>3
    <3>5. \A h \in GroupsIn(scenario) : /\ node[h].applied \in Nat /\ node'[h].applied \in Nat
                                        /\ node[h].applied <= node'[h].applied
      BY <1>0, GroupFacts
    <3> HIDE DEF e
    <3>6. Waits(scenario, log', chosen', node', e)
      BY <1>0, <1>1, <3>2, <3>3, <3>4, <3>5, WaitsLater
    <3> QED
      BY <3>1, <3>2, <3>6, CarriedSame DEF e
  <2> QED
    BY <2>1, <2>2
<1>3. ASSUME NEW d \in Connections, eng[d] = None PROVE eng'[d] = None
  BY <1>3, Resolved
<1> QED
  BY <1>1, <1>2, <1>3, EnginesGo

(* The node has applied its next entry; who proposed it is answered. *)
LEMMA EnginesAdvance ==
    ASSUME AdapterInv, Engines, NEW g \in Groups, Advance(g), node[g].applied < chosen[g],
           UNCHANGED <<scenario, up, log, chosen, bounds>>
    PROVE  Engines'
<1>0. Typed /\ scenario \in Scenarios /\ Groups = GroupsIn(scenario)
  BY DEF AdapterInv, Typed, Groups, GroupsIn
<1> DEFINE a == node[g].applied + 1
<1>1. Later(Groups, log, chosen, log', chosen') /\ a \in 1 .. chosen[g]
  BY <1>0, Unchanging, GroupFacts
<1>2. \A h \in Groups : /\ node[h].applied \in Nat /\ node'[h].applied \in Nat
                        /\ node[h].applied <= node'[h].applied
                        /\ node'[h].leader = node[h].leader
  <2>1. ASSUME NEW h \in Groups
        PROVE  /\ node[h].applied \in Nat /\ node'[h].applied \in Nat
               /\ node[h].applied <= node'[h].applied
               /\ node'[h].leader = node[h].leader
    <3>1. node \in [Groups -> RaftNode] /\ node[h] \in RaftNode /\ node[h].applied \in Nat
      BY <1>0, <2>1, GroupFacts DEF Typed
    <3>2. node' = [node EXCEPT ![g] = [[node[g] EXCEPT !.applied = @ + 1] EXCEPT !.dirty = FALSE]]
      BY <3>1 DEF Advance
    <3>3. CASE h = g
      BY <3>1, <3>2, <3>3 DEF RaftNode
    <3>4. CASE h # g
      BY <3>1, <3>2, <3>4
    <3> QED
      BY <3>3, <3>4
  <2> QED
    BY <2>1
<1>3. eng' = Resolve(g, {"propose"}, a, a, "done")
  BY DEF Advance
<1>4. ASSUME NEW d \in Connections, eng[d] # None, eng'[d] # None
      PROVE  /\ Carried(eng'[d], eng[d])
             /\ Numbered(Groups, log', bounds.clients, eng'[d])
             /\ Waits(scenario, log', chosen', node', eng'[d])
  <2> DEFINE e == eng[d]
             settled == Settled(d, g, "pending", a, a) /\ e.call.kind \in {"propose"}
  <2>2. /\ e \in Engine /\ e.call.index \in Nat
        /\ e.call.kind \in {"read", "propose"} => e.call.group \in Groups
    BY <1>4, EngineIs
  <2>3. Numbered(Groups, log', bounds.clients, e) /\ Waits(scenario, log, chosen, node, e)
    BY <1>0, <1>4 DEF Engines, Seen
  <2>4. CASE settled
    <3>1. /\ Carried(eng'[d], e) /\ Numbered(Groups, log, bounds.clients, eng'[d])
          /\ eng'[d].call.stage = "done" /\ eng'[d].call.index = e.call.index
      BY <1>3, <1>4, <2>4, Resolved
    <3>2. /\ e.call.kind = "propose" /\ e.call.stage = "pending" /\ e.call.group = g
          /\ e.call.index = a
      BY <1>1, <2>2, <2>4 DEF Settled
    <3>3. log[g][a].keys = e.tx
      BY <2>3, <3>2 DEF Waits
    <3> HIDE DEF e, a
    <3>4. /\ eng'[d].call.kind = "propose" /\ eng'[d].call.group = g
          /\ eng'[d].tx = e.tx
      BY <3>1, <3>2 DEF Carried
    <3>5. Waits(scenario, log', chosen', node', eng'[d])
      BY <1>1, <3>1, <3>2, <3>3, <3>4 DEF Waits
    <3> QED
      BY <3>1, <3>5 DEF e
  <2>5. CASE ~settled
    <3>1. eng'[d] = e
      BY <1>3, <1>4, <2>5, Resolved
    <3>2. ASSUME e.call.kind = "propose", e.call.stage = "pending"
          PROVE  /\ node'[e.call.group].leader
                 /\ e.call.index \in 1 .. Len(log'[e.call.group])
                 /\ log'[e.call.group][e.call.index].keys = e.tx
      BY <1>2, <2>2, <2>3, <3>2 DEF Waits
    <3> HIDE DEF e
    <3>3. Waits(scenario, log', chosen', node', e)
      BY <1>0, <1>1, <1>2, <2>2, <2>3, <3>2, WaitsLater
    <3> QED
      BY <2>3, <3>1, <3>3, CarriedSame DEF e
  <2> QED
    BY <2>4, <2>5
<1>5. ASSUME NEW d \in Connections, eng[d] = None PROVE eng'[d] = None
  BY <1>3, <1>5, Resolved
<1> QED
  BY <1>1, <1>4, <1>5, EnginesGo

-----------------------------------------------------------------------------
(* The steps of the groups. *)
LEMMA ReplicaParts ==
    ASSUME AdapterInv
    PROVE  /\ Typed /\ scenario \in Scenarios /\ Groups = GroupsIn(scenario)
           /\ \A k \in Keys : Group(k) \in Groups /\ Group(k) = GroupIn(scenario, k)
           /\ disk \in Stored /\ disk.store \in Stamps /\ acked \in Stamps
<1>1. Typed /\ scenario \in Scenarios /\ disk \in Stored /\ acked \in Stamps
  BY DEF AdapterInv, Typed
<1>2. Groups = GroupsIn(scenario) /\ \A k \in Keys : Group(k) = GroupIn(scenario, k)
  BY DEF Groups, GroupsIn, Group, GroupIn
<1>3. \A k \in Keys : Group(k) \in Groups
  BY <1>1, <1>2, Deployment
<1>4. disk.store \in Stamps
  BY <1>1 DEF Stored
<1> QED
  BY <1>1, <1>2, <1>3, <1>4

(* The logs grow, and what is committed with them. *)
LEMMA ReplicasGrow ==
    ASSUME AdapterInv, Replicas, Standing, UNCHANGED <<scenario, node, disk, bounds>>,
           Later(Groups, log, chosen, log', chosen'),
           \A g \in Groups : Identified(log'[g], bounds.clients)
    PROVE  Replicas' /\ Standing'
<1>0. /\ Typed /\ Groups' = Groups
      /\ \A k \in Keys : Group(k) \in Groups /\ Group(k)' = Group(k)
  BY ReplicaParts DEF Groups, Group
<1>1. ASSUME NEW g \in Groups
      PROVE  Replayed(log'[g], chosen'[g], node[g], disk.reached[g], disk.boundary[g],
                      disk.results[g])
  <2>1. /\ chosen[g] \in Nat /\ chosen'[g] \in Nat /\ chosen[g] <= chosen'[g]
        /\ \A i \in 1 .. chosen[g] : log'[g][i] = log[g][i]
    BY DEF Later
  <2>2. /\ node[g] \in RaftNode /\ disk.reached[g] \in Nat /\ disk.boundary[g] \in Nat
        /\ Replayed(log[g], chosen[g], node[g], disk.reached[g], disk.boundary[g],
                    disk.results[g])
    BY <1>0, ReplicaFacts, GroupFacts
  <2> DEFINE l == log[g]
             m == log'[g]
             ch == chosen[g]
             more == chosen'[g]
             n == node[g]
             r == disk.reached[g]
             b == disk.boundary[g]
             res == disk.results[g]
  <2> HIDE DEF l, m, ch, more, n, r, b, res
  <2>3. /\ ch \in Nat /\ more \in Nat /\ ch <= more /\ n \in RaftNode /\ r \in Nat
        /\ b \in Nat /\ Replayed(l, ch, n, r, b, res)
        /\ \A i \in 1 .. ch : m[i] = l[i]
    BY <2>1, <2>2 DEF l, m, ch, more, n, r, b, res
  <2>4. Replayed(m, more, n, r, b, res)
    BY <2>3, ReplayedGrows
  <2> QED
    BY <2>4 DEF m, more, n, r, b, res
<1>2. ASSUME NEW k \in Keys
      PROVE  Stands(log'[Group(k)], k, disk.reached[Group(k)], disk.store[k])
  <2> DEFINE g == Group(k)
  <2>0. g \in Groups
    BY <1>0
  <2> HIDE DEF g
  <2>1. /\ chosen[g] \in Nat /\ \A i \in 1 .. chosen[g] : log'[g][i] = log[g][i]
    BY <2>0 DEF Later
  <2>2. disk.reached[g] \in Nat /\ disk.reached[g] <= chosen[g]
    BY <2>0, ReplicaFacts DEF Replayed
  <2>3. \A i \in 1 .. disk.reached[g] : log'[g][i] = log[g][i]
    BY <2>1, <2>2
  <2>4. Stands(log[g], k, disk.reached[g], disk.store[k])
    BY DEF Standing, g
  <2>5. Stands(log'[g], k, disk.reached[g], disk.store[k])
    BY <2>2, <2>3, <2>4, StandsGrows
  <2> QED
    BY <2>5 DEF g
<1>3. Replicas'
  BY <1>0, <1>1 DEF Replicas
<1>4. Standing'
  BY <1>0, <1>2 DEF Standing
<1> QED
  BY <1>3, <1>4

LEMMA StampingsGrow ==
    ASSUME AdapterInv, Stampings, UNCHANGED <<scenario, acked>>,
           Later(Groups, log, chosen, log', chosen')
    PROVE  Stampings'
  BY ReplicaParts, WrittenLater DEF Stampings

(* The state of the replicas changes, not the logs. *)
LEMMA ReplicasChange ==
    ASSUME Replicas, UNCHANGED <<scenario, log, chosen>>, bounds'.clients = bounds.clients,
           \A g \in Groups : Replayed(log[g], chosen[g], node'[g], disk'.reached[g],
                                      disk'.boundary[g], disk'.results[g])
    PROVE  Replicas'
<1>1. Groups' = Groups
  BY DEF Groups
<1> QED
  BY <1>1 DEF Replicas

LEMMA CommitReplicas ==
    ASSUME AdapterInv, ReplicaInv, NEW g \in Groups, Commit(g)
    PROVE  ReplicaInv'
<1>0. Typed /\ Replicas /\ Engines /\ Stampings /\ Standing
  BY DEF AdapterInv, ReplicaInv
<1>1. ASSUME NEW h \in Groups
      PROVE  /\ chosen[h] \in Nat /\ chosen'[h] \in Nat /\ chosen[h] <= chosen'[h]
             /\ log'[h] = log[h]
  <2>1. chosen \in [Groups -> Nat] /\ chosen[h] \in Nat /\ chosen[g] \in Nat
    BY <1>0, GroupFacts DEF Typed
  <2> QED
    BY <2>1 DEF Commit
<1>2. Later(Groups, log, chosen, log', chosen')
  BY <1>1 DEF Later
<1>3. \A h \in Groups : Identified(log'[h], bounds.clients)
  BY <1>0, <1>1 DEF Replicas
<1>4. Replicas' /\ Standing'
  BY <1>0, <1>2, <1>3, ReplicasGrow DEF Commit
<1>5. Stampings'
  BY <1>0, <1>2, StampingsGrow DEF Commit
<1>6. Engines'
  <2>1. \A h \in Groups : node[h].applied \in Nat /\ Len(log[h]) \in Nat
    BY <1>0, GroupFacts
  <2>2. \A d \in Connections : eng[d] # None => Numbered(Groups, log', bounds.clients, eng[d])
    BY <1>0 DEF Engines, Seen, Commit, Groups, GroupsIn
  <2>3. UNCHANGED <<scenario, up, eng, node, log, bounds>>
    BY DEF Commit
  <2> QED
    BY <1>0, <1>2, <2>1, <2>2, <2>3, EnginesWait
<1> QED
  BY <1>4, <1>5, <1>6 DEF ReplicaInv

LEMMA RemoteReplicas ==
    ASSUME AdapterInv, ReplicaInv, NEW g \in Groups, RemoteWrite(g)
    PROVE  ReplicaInv'
<1>0. /\ Typed /\ Replicas /\ Engines /\ Stampings /\ Standing /\ scenario \in Scenarios
      /\ MaxClients \in Nat /\ bounds.clients \in Nat /\ bounds.clients <= MaxClients
  BY RaftKVAssumption, ReplicaFacts DEF AdapterInv, ReplicaInv, Typed, Engines
<1> DEFINE i == chosen[g] + 1
           ks == {k \in Keys : Group(k) = g}
           x == [client |-> MaxClients + i, request |-> 1, keys |-> ks, fresh |-> {},
                 adrift |-> FALSE]
           m == Append(SubSeq(log[g], 1, chosen[g]), x)
<1>1. /\ chosen[g] \in Nat /\ log[g] \in Seq(Entry) /\ Len(log[g]) \in Nat
      /\ chosen[g] <= Len(log[g]) /\ Identified(log[g], bounds.clients)
  BY <1>0, GroupFacts, ReplicaFacts
<1>2. chosen[g] < MaxLog
  <2>1. Len(log[g]) < MaxLog
    BY <1>0, <1>1, LogBounded DEF RemoteWrite, Identified
  <2> QED
    BY <1>1, <2>1, RaftKVAssumption
<1>3. x \in Entry /\ x.client = MaxClients + i /\ x.request = 1 /\ x.keys = ks
  <2>1. MaxClients + i \in Nat /\ ks \in SUBSET Keys
    BY <1>0, <1>1
  <2> HIDE DEF i, ks
  <2> QED
    BY <2>1 DEF Entry
<1>4. /\ log' = [log EXCEPT ![g] = m] /\ chosen' = [chosen EXCEPT ![g] = i]
      /\ acked' = [k \in Keys |-> IF k \in ks THEN i ELSE acked[k]]
      /\ UNCHANGED <<scenario, up, eng, node, disk, bounds>> /\ ~node[g].leader
  BY <1>0 DEF RemoteWrite, Typed
<1> HIDE DEF x
<1>5. /\ m \in Seq(Entry) /\ Len(m) = chosen[g] + 1
      /\ \A j \in 1 .. chosen[g] : m[j] = log[g][j]
      /\ m[chosen[g] + 1] = x
      /\ Identified(m, bounds.clients)
  BY <1>0, <1>1, <1>2, <1>3, RemoteIdentified
<1> HIDE DEF m
<1>6. /\ log'[g] = m /\ chosen'[g] = i
      /\ \A h \in Groups : h # g => log'[h] = log[h] /\ chosen'[h] = chosen[h]
  BY <1>0, <1>4 DEF Typed
<1>7. Later(Groups, log, chosen, log', chosen')
  <2>1. ASSUME NEW h \in Groups
        PROVE  /\ chosen[h] \in Nat /\ chosen'[h] \in Nat /\ chosen[h] <= chosen'[h]
               /\ \A j \in 1 .. chosen[h] : log'[h][j] = log[h][j]
    <3>1. CASE h = g
      BY <1>1, <1>5, <1>6, <3>1
    <3>2. CASE h # g
      BY <1>0, <1>6, <3>2, GroupFacts
    <3> QED
      BY <3>1, <3>2
  <2> QED
    BY <2>1 DEF Later
<1>8. \A h \in Groups : Identified(log'[h], bounds.clients)
  BY <1>0, <1>5, <1>6 DEF Replicas
<1>9. Replicas' /\ Standing'
  BY <1>0, <1>4, <1>7, <1>8, ReplicasGrow
<1>10. Written(scenario, log', chosen', acked')
  <2>1. Written(scenario, log', chosen', acked)
    BY <1>0, <1>7, WrittenLater, ReplicaParts DEF Stampings
  <2>2. ASSUME NEW k \in Keys, acked'[k] # 0
        PROVE  /\ acked'[k] \in 1 .. chosen'[GroupIn(scenario, k)]
               /\ k \in log'[GroupIn(scenario, k)][acked'[k]].keys
    <3>1. CASE k \in ks
      <4>1. GroupIn(scenario, k) = g /\ acked'[k] = i
        BY <1>4, <3>1, ReplicaParts
      <4>2. i \in 1 .. chosen'[g] /\ k \in log'[g][i].keys
        BY <1>1, <1>3, <1>5, <1>6, <3>1
      <4> QED
        BY <4>1, <4>2
    <3>2. CASE k \notin ks
      <4>1. acked'[k] = acked[k]
        BY <1>4, <3>2
      <4> QED
        BY <2>1, <2>2, <4>1 DEF Written
    <3> QED
      BY <3>1, <3>2
  <2> QED
    BY <2>2 DEF Written
<1>11. Engines'
  <2>1. \A h \in Groups : node[h].applied \in Nat /\ Len(log[h]) \in Nat
    BY <1>0, GroupFacts
  <2>2. ASSUME NEW d \in Connections, eng[d] # None
        PROVE  Numbered(Groups, log', bounds.clients, eng[d])
    <3> DEFINE e == eng[d]
    <3>1. Numbered(Groups, log, bounds.clients, e)
      BY <1>0, <2>2 DEF Engines, Seen, Groups, GroupsIn
    <3>2. e.client \in 1 .. bounds.clients
      BY <3>1 DEF Numbered
    <3>3. ASSUME NEW h \in Groups, NEW j \in 1 .. Len(log'[h]), log'[h][j].client = e.client
          PROVE  log'[h][j].request < IF Queued(e) THEN e.next - 1 ELSE e.next
      <4> HIDE DEF e
      <4>1. CASE h = g /\ j = chosen[g] + 1
        <5>1. e.client = MaxClients + i
          BY <1>3, <1>5, <1>6, <3>3, <4>1
        <5> QED
          BY <1>0, <1>1, <3>2, <5>1
      <4>2. CASE h = g /\ j \in 1 .. chosen[g]
        <5>1. log'[h][j] = log[h][j] /\ j \in 1 .. Len(log[h])
          BY <1>1, <1>5, <1>6, <4>2
        <5> QED
          BY <3>1, <3>3, <5>1 DEF Numbered
      <4>3. CASE h # g
        BY <1>6, <3>1, <3>3, <4>3 DEF Numbered
      <4>4. h = g => j \in 1 .. (chosen[g] + 1)
        BY <1>5, <1>6, <3>3
      <4>5. h = g => j = chosen[g] + 1 \/ j \in 1 .. chosen[g]
        BY <1>1, <4>4
      <4> QED
        BY <4>1, <4>2, <4>3, <4>5
    <3> QED
      BY <3>1, <3>3 DEF Numbered
  <2>3. \A h \in Groups : node[h].leader => h # g
    BY <1>4
  <2>4. \A h \in Groups :
          /\ node[h].applied <= node'[h].applied /\ node'[h].applied \in Nat
          /\ node[h].leader =>
                /\ node'[h].leader /\ Len(log'[h]) \in Nat /\ Len(log[h]) <= Len(log'[h])
                /\ \A j \in 1 .. Len(log[h]) : log'[h][j] = log[h][j]
    BY <1>4, <1>6, <2>1, <2>3
  <2> QED
    BY <1>0, <1>4, <1>7, <2>2, <2>4, EnginesWait
<1> QED
  BY <1>4, <1>9, <1>10, <1>11 DEF ReplicaInv, Stampings

(* Only replicas change: the node of one group, and what is stored of it. *)
LEMMA StandingSame ==
    ASSUME Standing, UNCHANGED <<scenario, log>>, disk'.store = disk.store,
           disk'.reached = disk.reached
    PROVE  Standing'
<1>1. \A k \in Keys : Group(k)' = Group(k)
  BY DEF Group
<1> QED
  BY <1>1 DEF Standing

LEMMA GainReplicas ==
    ASSUME AdapterInv, ReplicaInv, NEW g \in Groups, GainLeadership(g)
    PROVE  ReplicaInv'
<1>0. Typed /\ Replicas /\ Engines /\ Stampings /\ Standing
  BY DEF AdapterInv, ReplicaInv
<1>1. /\ UNCHANGED <<scenario, up, eng, log, chosen, disk, acked, bounds>>
      /\ node' = [node EXCEPT ![g] = [node[g] EXCEPT !.leader = TRUE]]
  BY <1>0 DEF GainLeadership, Typed
<1>2. ASSUME NEW h \in Groups
      PROVE  /\ node'[h] \in RaftNode /\ node'[h].applied = node[h].applied
             /\ node'[h].dirty = node[h].dirty /\ (node[h].leader => node'[h].leader)
  <2>1. node \in [Groups -> RaftNode] /\ node[h] \in RaftNode
    BY <1>0, GroupFacts DEF Typed
  <2> QED
    BY <1>1, <2>1 DEF RaftNode
<1>3. Later(Groups, log, chosen, log', chosen')
  BY <1>0, <1>1, Unchanging
<1>4. Replicas'
  <2>1. ASSUME NEW h \in Groups
        PROVE  Replayed(log[h], chosen[h], node'[h], disk.reached[h], disk.boundary[h],
                        disk.results[h])
    <3>1. /\ disk.reached[h] \in Nat /\ disk.boundary[h] \in Nat /\ chosen[h] \in Nat
          /\ node[h] \in RaftNode
          /\ Replayed(log[h], chosen[h], node[h], disk.reached[h], disk.boundary[h],
                      disk.results[h])
      BY <1>0, ReplicaFacts, GroupFacts
    <3> QED
      BY <1>2, <3>1, ReplayedElsewhere
  <2> QED
    BY <1>0, <1>1, <2>1, ReplicasChange
<1>5. Stampings' /\ Standing'
  BY <1>0, <1>1, <1>3, StampingsGrow, StandingSame
<1>6. Engines'
  <2>1. \A h \in Groups : node[h].applied \in Nat /\ Len(log[h]) \in Nat
    BY <1>0, GroupFacts
  <2>2. \A d \in Connections : eng[d] # None => Numbered(Groups, log', bounds.clients, eng[d])
    BY <1>0, <1>1 DEF Engines, Seen, Groups, GroupsIn
  <2> QED
    BY <1>0, <1>1, <1>2, <1>3, <2>1, <2>2, EnginesWait
<1> QED
  BY <1>4, <1>5, <1>6 DEF ReplicaInv

LEMMA CompactReplicas ==
    ASSUME AdapterInv, ReplicaInv, NEW g \in Groups, Compact(g)
    PROVE  ReplicaInv'
<1>0. Typed /\ Replicas /\ Engines /\ Stampings /\ Standing
  BY DEF AdapterInv, ReplicaInv
<1>1. UNCHANGED <<scenario, up, eng, node, log, chosen, acked, bounds>>
  BY DEF Compact
<1>2. /\ disk'.store = disk.store /\ disk'.reached = disk.reached
      /\ disk'.results = disk.results
      /\ disk'.boundary = [disk.boundary EXCEPT ![g] = node[g].applied]
      /\ disk.boundary \in [Groups -> Nat]
  <2>1. disk \in Stored
    BY <1>0 DEF Typed
  <2> QED
    BY <2>1 DEF Compact, Stored
<1>3. Later(Groups, log, chosen, log', chosen')
  BY <1>0, <1>1, Unchanging
<1>4. Replicas'
  <2>1. ASSUME NEW h \in Groups
        PROVE  Replayed(log[h], chosen[h], node[h], disk.reached[h], disk'.boundary[h],
                        disk.results[h])
    <3>1. /\ disk.reached[h] \in Nat /\ disk.boundary[h] \in Nat /\ chosen[h] \in Nat
          /\ node[h] \in RaftNode /\ node[h].applied \in Nat
          /\ Replayed(log[h], chosen[h], node[h], disk.reached[h], disk.boundary[h],
                      disk.results[h])
      BY <1>0, ReplicaFacts, GroupFacts
    <3>2. disk'.boundary[h] \in {disk.boundary[h], node[h].applied}
      BY <1>2
    <3>3. disk'.boundary[h] \in Nat
      BY <3>1, <3>2
    <3> QED
      BY <3>1, <3>2, <3>3, ReplayedElsewhere
  <2> QED
    BY <1>0, <1>1, <1>2, <2>1, ReplicasChange
<1>5. Stampings' /\ Standing'
  BY <1>0, <1>1, <1>2, <1>3, StampingsGrow, StandingSame
<1>6. Engines'
  BY <1>0, <1>1 DEF Engines
<1> QED
  BY <1>4, <1>5, <1>6 DEF ReplicaInv

(* The batch is written: the store follows the log one entry further, or    *)
(* writes once more what a crash had left without a result.                 *)
LEMMA ApplyWritesReplicas ==
    ASSUME AdapterInv, ReplicaInv, CommittedAtHome, NEW g \in Groups, ApplyWrites(g)
    PROVE  ReplicaInv'
<1>0. Typed /\ Replicas /\ Engines /\ Stampings /\ Standing /\ disk \in Stored
  BY DEF AdapterInv, ReplicaInv, Typed
<1> DEFINE i == node[g].applied + 1
           x == log[g][i]
           r == disk.reached[g]
<1>1. /\ node[g] \in RaftNode /\ node[g].applied \in Nat /\ node[g].applied < chosen[g]
      /\ chosen[g] \in Nat /\ log[g] \in Seq(Entry) /\ chosen[g] <= Len(log[g])
      /\ Len(log[g]) \in Nat
      /\ r \in Nat /\ disk.boundary[g] \in Nat /\ disk.results[g] \in Results
      /\ Identified(log[g], bounds.clients)
      /\ Replayed(log[g], chosen[g], node[g], r, disk.boundary[g], disk.results[g])
  BY <1>0, GroupFacts, ReplicaFacts DEF ApplyWrites, Applicable
<1>2. i \in 1 .. Len(log[g]) /\ i \in 1 .. chosen[g]
  BY <1>1
<1>3. ~Covered(log[g], disk.results[g], i)
  <2>1. disk.results[g][x.client] < x.request
    BY DEF ApplyWrites, Newest, NextEntry
  <2>2. x.client \in ClientIds /\ x.request \in Nat
    BY <1>1, <1>2, EntryFields DEF Identified
  <2>3. disk.results[g][x.client] \in Nat
    BY <1>1, <2>2 DEF Results
  <2> QED
    BY <2>1, <2>2, <2>3, SMTT(30) DEF Covered
<1>4. i = r \/ i = r + 1
  BY <1>1, <1>3, NextIsLast
<1>5. /\ UNCHANGED <<scenario, up, eng, log, chosen, acked, bounds>>
      /\ node' = [node EXCEPT ![g] = [node[g] EXCEPT !.dirty = TRUE]]
  BY <1>0 DEF ApplyWrites, Typed
<1>6. /\ disk'.store = [k \in Keys |-> IF k \in x.keys THEN i ELSE disk.store[k]]
      /\ disk'.reached = [disk.reached EXCEPT ![g] = IF i > r THEN i ELSE r]
      /\ disk'.results = disk.results /\ disk'.boundary = disk.boundary
      /\ disk.reached \in [Groups -> Nat] /\ disk.store \in Stamps
  BY <1>0 DEF ApplyWrites, NextEntry, Stored
<1>7. disk'.reached[g] = i /\ \A h \in Groups : h # g => disk'.reached[h] = disk.reached[h]
  BY <1>1, <1>4, <1>6
<1>8. ASSUME NEW h \in Groups
      PROVE  /\ node'[h] \in RaftNode /\ node'[h].applied = node[h].applied
             /\ node'[h].leader = node[h].leader
             /\ IF h = g THEN node'[h].dirty ELSE node'[h] = node[h]
  <2>1. node \in [Groups -> RaftNode] /\ node[h] \in RaftNode
    BY <1>0, GroupFacts DEF Typed
  <2> QED
    BY <1>5, <2>1 DEF RaftNode
<1>9. Later(Groups, log, chosen, log', chosen')
  BY <1>0, <1>5, Unchanging
<1>10. Replicas'
  <2>1. ASSUME NEW h \in Groups
        PROVE  Replayed(log[h], chosen[h], node'[h], disk'.reached[h], disk.boundary[h],
                        disk.results[h])
    <3>1. CASE h = g
      <4>1. Replayed(log[g], chosen[g], node'[g], node[g].applied + 1, disk.boundary[g],
                     disk.results[g])
        BY <1>1, <1>3, <1>8, ReplayedWrites
      <4> QED
        BY <1>7, <3>1, <4>1
    <3>2. CASE h # g
      BY <1>0, <1>7, <1>8, <3>2, ReplicaFacts
    <3> QED
      BY <3>1, <3>2
  <2> QED
    BY <1>0, <1>5, <1>6, <2>1, ReplicasChange
<1>11. Standing'
  <2>1. ASSUME NEW k \in Keys
        PROVE  Stands(log[Group(k)], k, disk'.reached[Group(k)], disk'.store[k])
    <3>1. Stands(log[Group(k)], k, disk.reached[Group(k)], disk.store[k])
      BY <1>0 DEF Standing
    <3>2. CASE Group(k) = g
      <4>1. disk.store[k] \in Nat
        BY <1>6 DEF Stamps
      <4>2. Stands(log[g], k, r, disk.store[k]) /\ i \in Nat /\ i >= 1
        BY <1>2, <3>1, <3>2
      <4> HIDE DEF r, i
      <4>3. Stands(log[g], k, i, IF k \in log[g][i].keys THEN i ELSE disk.store[k])
        BY <1>1, <1>4, <4>1, <4>2, StandsWritten
      <4> QED
        BY <1>6, <1>7, <3>2, <4>3
    <3>3. CASE Group(k) # g
      <4>1. k \notin x.keys
        BY <1>2, <3>3 DEF CommittedAtHome
      <4>2. disk'.store[k] = disk.store[k]
        BY <1>6, <4>1
      <4>3. Group(k) \in Groups
        BY ReplicaParts
      <4>4. disk'.reached[Group(k)] = disk.reached[Group(k)]
        BY <1>7, <3>3, <4>3
      <4> QED
        BY <3>1, <4>2, <4>4
    <3> QED
      BY <3>2, <3>3
  <2>2. \A k \in Keys : Group(k)' = Group(k)
    BY <1>5 DEF Group
  <2> QED
    BY <1>5, <2>1, <2>2 DEF Standing
<1>12. Stampings'
  BY <1>0, <1>5, <1>9, StampingsGrow
<1>13. Engines'
  <2>1. \A h \in Groups : node[h].applied \in Nat /\ Len(log[h]) \in Nat
    BY <1>0, GroupFacts
  <2>2. \A d \in Connections : eng[d] # None => Numbered(Groups, log', bounds.clients, eng[d])
    BY <1>0, <1>5 DEF Engines, Seen, Groups, GroupsIn
  <2> QED
    BY <1>0, <1>5, <1>8, <1>9, <2>1, <2>2, EnginesWait
<1> QED
  BY <1>10, <1>11, <1>12, <1>13 DEF ReplicaInv

(* The entry is done with: skipped, or its result saved. *)
LEMMA AdvanceReplicas ==
    ASSUME AdapterInv, ReplicaInv, NEW g \in Groups, Advance(g), node[g].applied < chosen[g],
           UNCHANGED <<scenario, up, log, chosen, acked, bounds>>,
           disk'.store = disk.store, disk'.reached = disk.reached,
           disk'.boundary = disk.boundary,
           \A h \in Groups : h # g => disk'.results[h] = disk.results[h],
           \A d \in RaftNode :
              d.applied = node[g].applied + 1 /\ ~d.dirty =>
                Replayed(log[g], chosen[g], d, disk.reached[g], disk.boundary[g],
                         disk'.results[g])
    PROVE  ReplicaInv'
<1>0. Typed /\ Replicas /\ Engines /\ Stampings /\ Standing
  BY DEF AdapterInv, ReplicaInv
<1>1. ASSUME NEW h \in Groups
      PROVE  /\ node'[h] \in RaftNode
             /\ IF h = g THEN node'[h].applied = node[g].applied + 1 /\ ~node'[h].dirty
                ELSE node'[h] = node[h]
  <2>1. node \in [Groups -> RaftNode] /\ node[h] \in RaftNode /\ node[h].applied \in Nat
    BY <1>0, GroupFacts DEF Typed
  <2>2. node' = [node EXCEPT ![g] = [[node[g] EXCEPT !.applied = @ + 1] EXCEPT !.dirty = FALSE]]
    BY <2>1 DEF Advance
  <2>3. CASE h = g
    <3>1. node'[h] = [[node[h] EXCEPT !.applied = @ + 1] EXCEPT !.dirty = FALSE]
      BY <2>1, <2>2, <2>3
    <3>2. node'[h] = [node[h] EXCEPT !.applied = node[h].applied + 1, !.dirty = FALSE]
      BY <2>1, <3>1 DEF RaftNode
    <3>3. node[h].applied + 1 \in Nat
      BY <2>1
    <3>4. node'[h] \in RaftNode
      BY <2>1, <3>2, <3>3, Zenon DEF RaftNode
    <3>5. node'[h].applied = node[h].applied + 1 /\ node'[h].dirty = FALSE
      BY <2>1, <3>2 DEF RaftNode
    <3> QED
      BY <2>3, <3>4, <3>5
  <2>4. CASE h # g
    BY <2>1, <2>2, <2>4
  <2> QED
    BY <2>3, <2>4
<1>2. Replicas'
  <2>1. ASSUME NEW h \in Groups
        PROVE  Replayed(log[h], chosen[h], node'[h], disk'.reached[h], disk'.boundary[h],
                        disk'.results[h])
    <3>1. CASE h = g
      BY <1>1, <3>1
    <3>2. CASE h # g
      BY <1>0, <1>1, <3>2, ReplicaFacts
    <3> QED
      BY <3>1, <3>2
  <2> QED
    BY <1>0, <2>1, ReplicasChange
<1>3. Later(Groups, log, chosen, log', chosen')
  BY <1>0, Unchanging
<1>4. Stampings' /\ Standing'
  BY <1>0, <1>3, StampingsGrow, StandingSame
<1>5. Engines'
  BY <1>0, EnginesAdvance
<1> QED
  BY <1>2, <1>4, <1>5 DEF ReplicaInv

LEMMA ApplyReplicas ==
    ASSUME AdapterInv, ReplicaInv, CommittedAtHome, NEW g \in Groups, Apply(g)
    PROVE  ReplicaInv'
<1>0. Typed /\ Replicas /\ Engines /\ Stampings /\ Standing /\ disk \in Stored
  BY DEF AdapterInv, ReplicaInv, Typed
<1> DEFINE i == node[g].applied + 1
           x == log[g][i]
<1>1. /\ node[g] \in RaftNode /\ node[g].applied \in Nat
      /\ chosen[g] \in Nat /\ log[g] \in Seq(Entry) /\ chosen[g] <= Len(log[g])
      /\ node[g].dirty => node[g].applied < chosen[g]
      /\ disk.reached[g] \in Nat /\ disk.boundary[g] \in Nat /\ disk.results[g] \in Results
      /\ Identified(log[g], bounds.clients)
      /\ Replayed(log[g], chosen[g], node[g], disk.reached[g], disk.boundary[g],
                  disk.results[g])
  BY <1>0, GroupFacts, ReplicaFacts
<1>2. CASE ApplySkips(g)
  <2>1. /\ node[g].applied < chosen[g] /\ Advance(g)
        /\ UNCHANGED <<scenario, up, log, chosen, disk, acked, bounds>>
        /\ disk.results[g][log[g][node[g].applied + 1].client] =
             log[g][node[g].applied + 1].request
    BY <1>2 DEF ApplySkips, Applicable, Newest, NextEntry
  <2>2. ASSUME NEW d \in RaftNode, d.applied = node[g].applied + 1, ~d.dirty
        PROVE  Replayed(log[g], chosen[g], d, disk.reached[g], disk.boundary[g],
                        disk.results[g])
    BY <1>1, <2>1, <2>2, ReplayedSkips
  <2> QED
    BY <2>1, <2>2, AdvanceReplicas
<1>3. CASE ApplySaves(g)
  <2>1. /\ node[g].dirty /\ node[g].applied < chosen[g] /\ Advance(g)
        /\ UNCHANGED <<scenario, up, log, chosen, acked, bounds>>
    BY <1>1, <1>3 DEF ApplySaves
  <2>2. /\ disk'.store = disk.store /\ disk'.reached = disk.reached
        /\ disk'.boundary = disk.boundary
        /\ disk'.results =
             [disk.results EXCEPT ![g] = [disk.results[g] EXCEPT ![x.client] = x.request]]
        /\ disk.results \in [Groups -> [ClientIds -> Nat]]
    BY <1>0, <1>3 DEF ApplySaves, NextEntry, Stored
  <2>3. /\ \A h \in Groups : h # g => disk'.results[h] = disk.results[h]
        /\ disk'.results[g] = [disk.results[g] EXCEPT ![x.client] = x.request]
    BY <2>2
  <2>4. ASSUME NEW d \in RaftNode, d.applied = node[g].applied + 1, ~d.dirty
        PROVE  Replayed(log[g], chosen[g], d, disk.reached[g], disk.boundary[g],
                        disk'.results[g])
    <3>1. Replayed(log[g], chosen[g], d, disk.reached[g], disk.boundary[g],
                   [disk.results[g] EXCEPT ![log[g][node[g].applied + 1].client] =
                                             log[g][node[g].applied + 1].request])
      BY <1>1, <2>1, <2>4, ReplayedSaves
    <3> QED
      BY <2>3, <3>1
  <2> QED
    BY <2>1, <2>2, <2>3, <2>4, AdvanceReplicas
<1>4. CASE ApplyFails(g)
  <2>1. /\ UNCHANGED <<scenario, up, node, log, chosen, disk, acked, bounds>>
        /\ eng' = Resolve(g, {"propose", "read"}, 0, MaxLog, "failed")
    BY <1>4 DEF ApplyFails
  <2>2. Engines'
    BY <1>0, <2>1, EnginesFailed
  <2>3. Replicas' /\ Stampings' /\ Standing'
    BY <1>0, <2>1 DEF Replicas, Stampings, Standing, Groups, Group
  <2> QED
    BY <2>2, <2>3 DEF ReplicaInv
<1> QED
  BY <1>2, <1>3, <1>4, ApplyWritesReplicas DEF Apply

LEMMA LoseReplicas ==
    ASSUME AdapterInv, ReplicaInv, NEW g \in Groups, LoseLeadership(g)
    PROVE  ReplicaInv'
<1>0. Typed /\ Replicas /\ Engines /\ Stampings /\ Standing /\ bounds \in Counters
  BY DEF AdapterInv, ReplicaInv, Typed
<1>1. /\ UNCHANGED <<scenario, up, log, chosen, disk, acked>>
      /\ node' = [node EXCEPT ![g] = [node[g] EXCEPT !.leader = FALSE]]
      /\ eng' = Resolve(g, {"propose", "read"}, 0, MaxLog, "failed")
      /\ bounds'.clients = bounds.clients
  BY <1>0 DEF LoseLeadership, Fault, Typed, Counters
<1>2. ASSUME NEW h \in Groups
      PROVE  /\ node'[h] \in RaftNode /\ node'[h].applied = node[h].applied
             /\ node'[h].dirty = node[h].dirty
             /\ h # g => node'[h].leader = node[h].leader
  <2>1. node \in [Groups -> RaftNode] /\ node[h] \in RaftNode
    BY <1>0, GroupFacts DEF Typed
  <2> QED
    BY <1>1, <2>1 DEF RaftNode
<1>3. Later(Groups, log, chosen, log', chosen')
  BY <1>0, <1>1, Unchanging
<1>4. Replicas'
  <2>1. ASSUME NEW h \in Groups
        PROVE  Replayed(log[h], chosen[h], node'[h], disk.reached[h], disk.boundary[h],
                        disk.results[h])
    <3>1. /\ disk.reached[h] \in Nat /\ disk.boundary[h] \in Nat /\ chosen[h] \in Nat
          /\ node[h] \in RaftNode
          /\ Replayed(log[h], chosen[h], node[h], disk.reached[h], disk.boundary[h],
                      disk.results[h])
      BY <1>0, ReplicaFacts, GroupFacts
    <3> QED
      BY <1>2, <3>1, ReplayedElsewhere
  <2> QED
    BY <1>0, <1>1, <2>1, ReplicasChange
<1>5. Stampings' /\ Standing'
  BY <1>0, <1>1, <1>3, StampingsGrow, StandingSame
<1>6. Engines'
  BY <1>0, <1>1, <1>2, EnginesFailed
<1> QED
  BY <1>4, <1>5, <1>6 DEF ReplicaInv

(* The process goes down and comes up again: what it has stored stays, and  *)
(* no engine outlives it.                                                   *)
LEMMA RestartReplicas ==
    ASSUME AdapterInv, ReplicaInv, Down \/ Start
    PROVE  ReplicaInv'
<1>0. Typed /\ Replicas /\ Engines /\ Stampings /\ Standing /\ bounds \in Counters
  BY DEF AdapterInv, ReplicaInv, Typed
<1>1. /\ UNCHANGED <<scenario, log, chosen, disk, acked>> /\ bounds'.clients = bounds.clients
      /\ \A c \in Connections : eng'[c] = None
      /\ \A g \in Groups : /\ node'[g] \in RaftNode /\ ~node'[g].dirty
                           /\ node'[g].applied \in {0, disk.boundary[g]}
  <2>1. \A g \in Groups : disk.boundary[g] \in Nat
    BY <1>0, ReplicaFacts
  <2>2. CASE Down
    <3>1. NewNode.applied = 0 /\ NewNode \in RaftNode /\ ~NewNode.dirty
      BY NewNodeIs DEF NewNode
    <3>2. node' = [g \in Groups |-> NewNode] /\ eng' = [c \in Connections |-> None]
      BY <2>2 DEF Down
    <3>3. UNCHANGED <<scenario, log, chosen, disk, acked>> /\ bounds'.clients = bounds.clients
      BY <1>0, <2>2 DEF Down, Fault, Counters
    <3> HIDE DEF NewNode
    <3> QED
      BY <3>1, <3>2, <3>3
  <2>3. CASE Start
    <3>1. ASSUME NEW n \in Nat
          PROVE  /\ [NewNode EXCEPT !.applied = n] \in RaftNode
                 /\ ~[NewNode EXCEPT !.applied = n].dirty
                 /\ [NewNode EXCEPT !.applied = n].applied = n
      BY <3>1, NewNodeIs DEF NewNode
    <3>2. /\ node' = [g \in Groups |-> [NewNode EXCEPT !.applied = disk.boundary[g]]]
          /\ UNCHANGED <<scenario, log, chosen, disk, acked, bounds, eng>> /\ ~up
      BY <2>3 DEF Start
    <3>3. \A c \in Connections : eng[c] = None
      BY <1>0, <3>2 DEF Engines
    <3> QED
      BY <2>1, <3>1, <3>2, <3>3
  <2> QED
    BY <2>2, <2>3
<1>2. Replicas'
  <2>1. ASSUME NEW h \in Groups
        PROVE  Replayed(log[h], chosen[h], node'[h], disk.reached[h], disk.boundary[h],
                        disk.results[h])
    <3>1. /\ disk.reached[h] \in Nat /\ disk.boundary[h] \in Nat /\ chosen[h] \in Nat
          /\ node[h] \in RaftNode
          /\ Replayed(log[h], chosen[h], node[h], disk.reached[h], disk.boundary[h],
                      disk.results[h])
      BY <1>0, ReplicaFacts, GroupFacts
    <3> QED
      BY <1>1, <3>1, ReplayedElsewhere
  <2> QED
    BY <1>0, <1>1, <2>1, ReplicasChange
<1>3. Later(Groups, log, chosen, log', chosen')
  BY <1>0, <1>1, Unchanging
<1>4. Stampings' /\ Standing'
  BY <1>0, <1>1, <1>3, StampingsGrow, StandingSame
<1>5. Engines'
  BY <1>0, <1>1 DEF Engines
<1> QED
  BY <1>2, <1>4, <1>5 DEF ReplicaInv

LEMMA GroupReplicas ==
    ASSUME AdapterInv, ReplicaInv, CommittedAtHome, NEW g \in Groups, GroupStep(g)
    PROVE  ReplicaInv'
  BY ApplyReplicas, CommitReplicas, LoseReplicas, RemoteReplicas, GainReplicas,
     CompactReplicas DEF GroupStep

-----------------------------------------------------------------------------
(* The raft thread takes a call, or lets a barrier pass. *)
LEMMA EnginesOneCall ==
    ASSUME AdapterInv, Engines, NEW c \in Connections, eng[c] # None,
           UNCHANGED <<scenario, up, node, log, chosen, bounds>>,
           NEW st \in {"pending", "done", "failed"}, NEW i \in Nat,
           eng' = [eng EXCEPT ![c] = At(eng[c], st, i)],
           Waits(scenario, log, chosen, node, At(eng[c], st, i))
    PROVE  Engines'
<1>0. Typed /\ scenario \in Scenarios /\ Groups = GroupsIn(scenario)
  BY ReplicaParts
<1> DEFINE n == At(eng[c], st, i)
<1>1. Later(Groups, log, chosen, log', chosen')
  BY <1>0, Unchanging
<1>2. Carried(n, eng[c]) /\ n.call.stage = st /\ eng[c] \in Engine
  <2>1. st \in Stages /\ eng[c] \in Engine
    BY EngineIs DEF Stages
  <2> QED
    BY <2>1, AtCarries
<1>3. \A h \in Groups : log[h] \in Seq(Entry)
  BY <1>0, GroupFacts
<1>4. Numbered(Groups, log, bounds.clients, n)
  <2>1. ~Queued(n)
    BY <1>2 DEF Queued
  <2>2. Numbered(Groups, log, bounds.clients, eng[c])
    BY <1>0 DEF Engines, Seen
  <2> HIDE DEF n
  <2> QED
    BY <1>2, <1>3, <2>1, <2>2, NumberedCarried
<1>5. DOMAIN eng = Connections
  BY <1>0 DEF Typed
<1>6. eng'[c] = n /\ \A d \in Connections : d # c => eng'[d] = eng[d]
  BY <1>5
<1> HIDE DEF n
<1>7. Waits(scenario, log, chosen, node, n)
  BY DEF n
<1>8. ASSUME NEW d \in Connections, d # c, eng[d] # None
      PROVE  /\ Carried(eng'[d], eng[d])
             /\ Numbered(Groups, log', bounds.clients, eng'[d])
             /\ Waits(scenario, log', chosen', node', eng'[d])
  BY <1>0, <1>6, <1>8, CarriedSame DEF Engines, Seen
<1> QED
  BY <1>1, <1>2, <1>4, <1>6, <1>7, <1>8, EnginesGo

LEMMA OnlyEngines ==
    ASSUME ReplicaInv, UNCHANGED <<scenario, node, log, chosen, disk, acked, bounds>>, Engines'
    PROVE  ReplicaInv'
  BY DEF ReplicaInv, Replicas, Stampings, Standing, Groups, Group

LEMMA BarrierReplicas ==
    ASSUME AdapterInv, ReplicaInv, NEW c \in Connections, BarrierPasses(c)
    PROVE  ReplicaInv'
<1> DEFINE e == eng[c]
           n == At(e, "done", e.call.index)
<1>0. Engines /\ e # None /\ e.call.kind = "read" /\ e.call.stage = "pending"
  BY DEF BarrierPasses, ReplicaInv
<1>1. e \in Engine /\ e.call.index \in Nat /\ e.call.group \in Groups
  BY <1>0, EngineIs
<1>2. /\ UNCHANGED <<scenario, up, node, log, chosen, disk, acked, bounds>>
      /\ node[e.call.group].applied >= e.call.index
  BY DEF BarrierPasses
<1>3. eng' = [eng EXCEPT ![c] = n]
  <2>1. eng' = [eng EXCEPT ![c] = [eng[c] EXCEPT !.call.stage = "done"]]
    BY DEF BarrierPasses
  <2> QED
    BY <1>1, <2>1, SameIndex
<1>4. Waits(scenario, log, chosen, node, n)
  <2>1. Carried(n, e) /\ n.call.stage = "done" /\ n.call.index = e.call.index
    BY <1>1, AtCarries DEF Stages
  <2>2. Waits(scenario, log, chosen, node, e)
    BY <1>0 DEF Engines, Seen
  <2> HIDE DEF n, e
  <2> QED
    BY <1>0, <1>2, <2>1, <2>2 DEF Waits, Carried
<1>5. Engines'
  BY <1>0, <1>1, <1>2, <1>3, <1>4, EnginesOneCall
<1> QED
  BY <1>2, <1>5, OnlyEngines

LEMMA StampBounded ==
    ASSUME NEW s, NEW l, NEW ch, NEW st, Written(s, l, ch, st), NEW k \in Keys,
           ch[GroupIn(s, k)] \in Nat
    PROVE  st[k] <= ch[GroupIn(s, k)]
  BY DEF Written

LEMMA TakeReplicas ==
    ASSUME AdapterInv, ReplicaInv, NEW c \in Connections, TakeCall(c)
    PROVE  ReplicaInv'
<1> DEFINE e == eng[c]
           g == e.call.group
<1>0. /\ Typed /\ Replicas /\ Engines /\ Stampings /\ Standing /\ scenario \in Scenarios
      /\ Groups = GroupsIn(scenario)
      /\ e # None /\ e.call.stage = "queued"
      /\ UNCHANGED <<scenario, up, node, chosen, disk, acked, bounds>>
  BY ReplicaParts DEF AdapterInv, ReplicaInv, TakeCall
<1>1. Local(scenario, e) /\ e \in Engine /\ e.next \in Nat \ {0}
  BY <1>0, EngineIs
<1>2. e.call # NoCall /\ e.call.kind \in {"read", "propose"} /\ e.todo # << >>
  BY <1>0, <1>1, CallIs
<1>3. g \in Groups
  BY <1>0, <1>2, EngineIs
<1>4. /\ chosen[g] \in Nat /\ Len(log[g]) \in Nat /\ log[g] \in Seq(Entry)
      /\ bounds.clients \in Nat /\ Identified(log[g], bounds.clients)
  BY <1>0, <1>3, GroupFacts, ReplicaFacts
<1>5. Seen(scenario, log, chosen, node, bounds.clients, e)
  BY <1>0 DEF Engines
<1>6. CASE eng' = [eng EXCEPT ![c] = At(e, "failed", 0)] /\ log' = log
  <2>1. At(e, "failed", 0).call.stage = "failed"
    BY <1>1, AtCarries DEF Stages
  <2>2. Waits(scenario, log, chosen, node, At(e, "failed", 0))
    BY <2>1, WaitsFailed
  <2>3. Engines'
    BY <1>0, <1>6, <2>2, EnginesOneCall
  <2> QED
    BY <1>0, <1>6, <2>3, OnlyEngines
<1>7. CASE /\ e.call.kind = "read" /\ log' = log
           /\ eng' = [eng EXCEPT ![c] = At(e, "pending", chosen[g])]
  <2> DEFINE n == At(e, "pending", chosen[g])
  <2>1. Carried(n, e) /\ n.call.stage = "pending" /\ n.call.index = chosen[g]
    BY <1>1, <1>4, AtCarries DEF Stages
  <2>2. ASSUME NEW k \in Keys, GroupIn(scenario, k) = g PROVE e.floor[k] <= chosen[g]
    <3>1. Written(scenario, log, chosen, e.floor)
      BY <1>5, <1>7 DEF Seen, Fresh
    <3> QED
      BY <1>4, <2>2, <3>1, StampBounded
  <2> HIDE DEF n
  <2>3. n.call.kind = "read" /\ n.call.group = g /\ n.floor = e.floor
    BY <1>7, <2>1 DEF Carried
  <2>4. Waits(scenario, log, chosen, node, n)
    BY <2>1, <2>2, <2>3 DEF Waits
  <2>5. Engines'
    BY <1>0, <1>4, <1>7, <2>4, EnginesOneCall DEF n
  <2> QED
    BY <1>0, <1>7, <2>5, OnlyEngines
<1>8. CASE /\ e.call.kind = "propose" /\ node[g].leader /\ Entries < MaxLog
           /\ log' = [log EXCEPT ![g] =
                 Append(@, [client |-> e.client, request |-> e.next - 1,
                            keys |-> e.tx, fresh |-> e.fresh,
                            adrift |-> e.adrift])]
           /\ eng' = [eng EXCEPT ![c] = At(e, "pending", Len(log[g]) + 1)]
  <2> DEFINE x == [client |-> e.client, request |-> e.next - 1,
                   keys |-> e.tx, fresh |-> e.fresh, adrift |-> e.adrift]
             j == Len(log[g]) + 1
             n == At(e, "pending", j)
             m == Append(log[g], x)
  <2>1. e.tx \in SUBSET Keys
    <3>1. e.wrote
      BY <1>1, <1>2, <1>8 DEF Local, Calling
    <3> QED
      BY <1>1, <3>1, EngineFields DEF Local, TxOk
  <2>2. /\ x \in Entry /\ x.client = e.client /\ x.request = e.next - 1 /\ x.keys = e.tx
    <3>1. /\ e.client \in Nat /\ e.next - 1 \in Nat /\ e.fresh \in SUBSET Keys
          /\ e.adrift \in BOOLEAN
      BY <1>1, EngineFields
    <3> QED
      BY <2>1, <3>1 DEF Entry
  <2> HIDE DEF x
  <2>3. Numbered(Groups, log, bounds.clients, e) /\ Queued(e)
    BY <1>0, <1>5, <1>8 DEF Seen, Queued
  <2>4. /\ e.client \in 1 .. bounds.clients /\ e.next > 1
        /\ \A i \in 1 .. Len(log[g]) : log[g][i].client = e.client =>
              log[g][i].request < e.next - 1
    BY <1>3, <2>3 DEF Numbered
  <2>5. Len(log[g]) < MaxLog /\ bounds.clients <= MaxClients
    BY <1>0, <1>3, <1>4, <1>8, LogBounded DEF Identified, Engines
  <2>6. /\ m \in Seq(Entry) /\ Len(m) = Len(log[g]) + 1
        /\ \A i \in 1 .. Len(log[g]) : m[i] = log[g][i]
        /\ m[Len(log[g]) + 1] = x
    BY <1>4, <2>2, AppendParts
  <2>7. Identified(m, bounds.clients)
    <3>1. x.request >= 1
      BY <1>1, <2>2, <2>4
    <3>2. \A i \in 1 .. Len(log[g]) : log[g][i].client = x.client => log[g][i].request # x.request
      <4>1. ASSUME NEW i \in 1 .. Len(log[g]), log[g][i].client = x.client
            PROVE  log[g][i].request # x.request
        <5>1. log[g][i].request < e.next - 1 /\ log[g][i].request \in Nat
          BY <1>4, <2>2, <2>4, <4>1, EntryFields
        <5> QED
          BY <1>1, <2>2, <5>1
      <4> QED
        BY <4>1
    <3> QED
      BY <1>4, <2>2, <2>4, <2>5, <3>1, <3>2, AppendIdentified
  <2> HIDE DEF m
  <2>8. log'[g] = m /\ \A h \in Groups : h # g => log'[h] = log[h]
    <3>1. log \in [Groups -> Seq(Entry)]
      BY <1>0 DEF Typed
    <3> QED
      BY <1>3, <1>8, <3>1 DEF m, x
  <2>9. ASSUME NEW h \in Groups
        PROVE  /\ chosen[h] \in Nat /\ Len(log[h]) \in Nat /\ log[h] \in Seq(Entry)
               /\ chosen[h] <= Len(log[h])
               /\ Len(log'[h]) \in Nat /\ Len(log[h]) <= Len(log'[h])
               /\ \A i \in 1 .. Len(log[h]) : log'[h][i] = log[h][i]
    <3>1. /\ chosen[h] \in Nat /\ Len(log[h]) \in Nat /\ log[h] \in Seq(Entry)
          /\ chosen[h] <= Len(log[h])
      BY <1>0, GroupFacts
    <3>2. CASE h = g
      BY <1>4, <2>6, <2>8, <3>1, <3>2
    <3>3. CASE h # g
      BY <2>8, <3>1, <3>3
    <3> QED
      BY <3>1, <3>2, <3>3
  <2>10. Later(Groups, log, chosen, log', chosen')
    <3>1. ASSUME NEW h \in Groups, NEW i \in 1 .. chosen[h] PROVE log'[h][i] = log[h][i]
      <4>1. i \in 1 .. Len(log[h])
        BY <2>9
      <4> QED
        BY <2>9, <4>1
    <3> QED
      BY <1>0, <2>9, <3>1 DEF Later
  <2>11. Replicas' /\ Standing'
    <3>1. \A h \in Groups : Identified(log'[h], bounds.clients)
      BY <1>0, <2>7, <2>8 DEF Replicas
    <3> QED
      BY <1>0, <2>10, <3>1, ReplicasGrow
  <2>12. Stampings'
    BY <1>0, <2>10, StampingsGrow
  <2>13. j \in Nat /\ eng' = [eng EXCEPT ![c] = n]
    BY <1>4, <1>8
  <2>14. Carried(n, e) /\ n.call.stage = "pending" /\ n.call.index = j
    BY <1>1, <2>13, AtCarries DEF Stages
  <2> HIDE DEF n
  <2>15. eng'[c] = n /\ \A d \in Connections : d # c => eng'[d] = eng[d]
    BY <1>0, <2>13 DEF Typed
  <2>16. Waits(scenario, log', chosen', node', n)
    <3>1. n.call.kind = "propose" /\ n.call.group = g /\ n.tx = e.tx
      BY <1>8, <2>14 DEF Carried
    <3>2. j \in 1 .. Len(log'[g]) /\ log'[g][j].keys = e.tx
      BY <1>4, <2>2, <2>6, <2>8
    <3> QED
      BY <1>0, <1>8, <2>14, <3>1, <3>2 DEF Waits
  <2>17. ASSUME NEW h \in Groups, NEW i \in 1 .. Len(log'[h])
         PROVE  i \in 1 .. Len(log[h]) \/ (h = g /\ i = j)
    BY <1>4, <2>6, <2>8, <2>17
  <2>18. Numbered(Groups, log', bounds.clients, n)
    <3>1. n.client = e.client /\ n.next = e.next /\ ~Queued(n)
      BY <2>14 DEF Carried, Queued
    <3>2. ASSUME NEW h \in Groups, NEW i \in 1 .. Len(log'[h]), log'[h][i].client = e.client
          PROVE  log'[h][i].request < e.next
      <4>1. CASE i \in 1 .. Len(log[h])
        <5>1. log'[h][i] = log[h][i] /\ log[h][i].request \in Nat
          BY <2>9, <4>1, EntryFields
        <5>2. log[h][i].request < e.next - 1
          BY <2>3, <3>2, <4>1, <5>1 DEF Numbered
        <5> QED
          BY <1>1, <5>1, <5>2
      <4>2. CASE h = g /\ i = j
        BY <1>1, <2>2, <2>6, <2>8, <4>2
      <4> QED
        BY <2>17, <4>1, <4>2
    <3> QED
      BY <2>4, <3>1, <3>2 DEF Numbered
  <2>19. ASSUME NEW d \in Connections, d # c, eng[d] # None
         PROVE  /\ Numbered(Groups, log', bounds.clients, eng[d])
                /\ Waits(scenario, log', chosen', node', eng[d])
    <3> DEFINE f == eng[d]
    <3>1. /\ Numbered(Groups, log, bounds.clients, f) /\ Waits(scenario, log, chosen, node, f)
          /\ f.client # e.client
      BY <1>0, <2>19 DEF Engines, Seen
    <3>2. /\ f \in Engine /\ f.call.index \in Nat
          /\ f.call.kind \in {"read", "propose"} => f.call.group \in Groups
      BY <2>19, EngineIs
    <3> HIDE DEF f
    <3>3. ASSUME NEW h \in Groups, NEW i \in 1 .. Len(log'[h]), log'[h][i].client = f.client
          PROVE  log'[h][i].request < IF Queued(f) THEN f.next - 1 ELSE f.next
      <4>1. CASE i \in 1 .. Len(log[h])
        <5>1. log'[h][i] = log[h][i]
          BY <2>9, <4>1
        <5> QED
          BY <3>1, <3>3, <4>1, <5>1 DEF Numbered
      <4>2. CASE h = g /\ i = j
        BY <2>2, <2>6, <2>8, <3>1, <3>3, <4>2
      <4> QED
        BY <2>17, <4>1, <4>2
    <3>4. Numbered(Groups, log', bounds.clients, f)
      BY <3>1, <3>3 DEF Numbered
    <3>5. ASSUME f.call.kind = "propose", f.call.stage = "pending"
          PROVE  /\ node'[f.call.group].leader
                 /\ f.call.index \in 1 .. Len(log'[f.call.group])
                 /\ log'[f.call.group][f.call.index].keys = f.tx
      <4>1. /\ node[f.call.group].leader /\ f.call.index \in 1 .. Len(log[f.call.group])
            /\ log[f.call.group][f.call.index].keys = f.tx /\ f.call.group \in Groups
        BY <3>1, <3>2, <3>5 DEF Waits
      <4> QED
        BY <1>0, <2>9, <4>1
    <3>6. \A h \in GroupsIn(scenario) : /\ node[h].applied \in Nat /\ node'[h].applied \in Nat
                                        /\ node[h].applied <= node'[h].applied
      BY <1>0, GroupFacts
    <3>7. Waits(scenario, log', chosen', node', f)
      BY <1>0, <2>10, <3>1, <3>2, <3>5, <3>6, WaitsLater
    <3> QED
      BY <3>4, <3>7 DEF f
  <2>20. Engines'
    <3>1. \A d \in Connections :
            \/ eng'[d] = None
            \/ /\ eng[d] # None /\ Carried(eng'[d], eng[d])
               /\ Numbered(Groups, log', bounds.clients, eng'[d])
               /\ Waits(scenario, log', chosen', node', eng'[d])
      BY <1>0, <2>14, <2>15, <2>16, <2>18, <2>19, CarriedSame
    <3> QED
      BY <1>0, <2>10, <3>1, EnginesGo
  <2> QED
    BY <2>11, <2>12, <2>20 DEF ReplicaInv
<1> QED
  BY <1>0, <1>2, <1>6, <1>7, <1>8 DEF TakeCall

-----------------------------------------------------------------------------
(* The steps of a connection.  Whatever the statement does with the engine  *)
(* e, what is left, n, has e's identity and e's floor; a snapshot it takes  *)
(* is not older than that with one group.                                   *)
Softer(s, n, e) ==
    /\ n.client = e.client /\ n.next = e.next /\ n.floor = e.floor
    /\ n.tx # None => e.tx # None \/ e.floor # None
    /\ n.tx = None => n.snap = None
    /\ n.snap # None => \/ n.snap = e.snap
                        \/ GroupCount(s.router) = 1 => \A k \in Keys : e.floor[k] <= n.snap[k]
    /\ n.stale = e.stale \/ n.stale \subseteq Bearable(s)

LEMMA SofterTwice ==
    ASSUME NEW s, NEW n, NEW f, NEW e, Softer(s, n, f), Softer(s, f, e)
    PROVE  Softer(s, n, e)
  BY DEF Softer

(* n is e with another transaction, snapshot or rest at most. *)
Akin(n, e) ==
    /\ n.client = e.client /\ n.next = e.next /\ n.floor = e.floor /\ n.stale = e.stale
    /\ n.tx # None => e.tx # None
    /\ n.snap \in {e.snap, None}
    /\ n.tx = None => n.snap = None

LEMMA AkinSofter ==
    ASSUME NEW s, NEW n, NEW e, Akin(n, e)
    PROVE  Softer(s, n, e)
  BY DEF Akin, Softer

LEMMA NumberedRests ==
    ASSUME NEW gs, NEW l, NEW cl, NEW n, NEW e \in Engine, n.client = e.client,
           n.next = e.next, ~Queued(n), \A g \in gs : l[g] \in Seq(Entry),
           Numbered(gs, l, cl, e)
    PROVE  Numbered(gs, l, cl, n)
<1>1. e.next \in Nat
  BY EngineFields
<1>2. ASSUME NEW g \in gs, NEW i \in 1 .. Len(l[g]), l[g][i].client = n.client
      PROVE  l[g][i].request < n.next
  <2>1. l[g][i].request \in Nat
    BY <1>2, EntryFields
  <2>2. l[g][i].request < IF Queued(e) THEN e.next - 1 ELSE e.next
    BY <1>2 DEF Numbered
  <2> QED
    BY <1>1, <2>1, <2>2
<1> QED
  BY <1>2 DEF Numbered

LEMMA RestParts ==
    ASSUME NEW n \in Engine
    PROVE  /\ Returned(n).client = n.client /\ Returned(n).next = n.next
           /\ Returned(n).tx = n.tx /\ Returned(n).snap = n.snap
           /\ Returned(n).stale = n.stale /\ Returned(n).call = NoCall
           /\ Returned(n).floor = IF n.tx = None THEN None ELSE n.floor
           /\ Went(n).client = n.client /\ Went(n).next = n.next
           /\ Went(n).tx = n.tx /\ Went(n).snap = n.snap
           /\ Went(n).stale = n.stale /\ Went(n).call = NoCall
           /\ Went(n).floor \in {n.floor, IF n.tx = None THEN None ELSE n.floor}
<1> DEFINE fl == IF n.tx = None THEN None ELSE n.floor
           ad == n.adrift \/ Adrift(n)
           r == [n EXCEPT !.todo = << >>, !.call = NoCall, !.floor = fl, !.adrift = ad]
           w == [n EXCEPT !.todo = Tail(n.todo), !.call = NoCall]
<1>0. Returned(n) = r /\ Went(n) = IF Len(n.todo) > 1 THEN w ELSE r
  BY DEF Returned, Went
<1> HIDE DEF fl, ad
<1>1. /\ r.client = n.client /\ r.next = n.next /\ r.tx = n.tx /\ r.snap = n.snap
      /\ r.stale = n.stale /\ r.call = NoCall /\ r.floor = fl
  BY DEF Engine
<1>2. /\ w.client = n.client /\ w.next = n.next /\ w.tx = n.tx /\ w.snap = n.snap
      /\ w.stale = n.stale /\ w.call = NoCall /\ w.floor = n.floor
  BY DEF Engine
<1> HIDE DEF r, w
<1> QED
  BY <1>0, <1>1, <1>2 DEF fl

(* The statement goes on, or has returned, with n. *)
Rests(c, e) ==
    \E n \in Engine :
       /\ Softer(scenario, n, e)
       /\ \/ eng' = [eng EXCEPT ![c] = Returned(n)]
          \/ eng' = [eng EXCEPT ![c] = Went(n)]

LEMMA QuietSeen ==
    ASSUME NEW s, NEW l, NEW ch, NEW nd, NEW cl, NEW e \in Engine, Seen(s, l, ch, nd, cl, e),
           \A g \in GroupsIn(s) : l[g] \in Seq(Entry),
           NEW n, Softer(s, n, e), NEW m, m.client = n.client, m.next = n.next,
           m.tx = n.tx, m.snap = n.snap, m.stale = n.stale, m.call = NoCall,
           m.floor \in {n.floor, IF n.tx = None THEN None ELSE n.floor}
    PROVE  Seen(s, l, ch, nd, cl, m)
<1>1. m.call.kind = "none" /\ m.call.stage = "none"
  BY DEF NoCall
<1>2. Waits(s, l, ch, nd, m)
  BY <1>1, WaitsFailed
<1>3. Numbered(GroupsIn(s), l, cl, m)
  <2>1. ~Queued(m) /\ m.client = e.client /\ m.next = e.next
    BY <1>1 DEF Queued, Softer
  <2> QED
    BY <2>1, NumberedRests DEF Seen
<1>4. Fresh(s, l, ch, m)
  <2>1. m.tx # None => m.floor # None /\ m.floor = e.floor
    BY DEF Softer, Seen, Fresh
  <2>2. m.floor # None => Written(s, l, ch, m.floor)
    BY DEF Softer, Seen, Fresh
  <2>3. ASSUME m.snap # None, GroupCount(s.router) = 1
        PROVE  \A k \in Keys : m.floor[k] <= m.snap[k]
    <3>1. m.tx # None /\ m.floor = e.floor
      BY <2>1, <2>3 DEF Softer
    <3>2. CASE m.snap = e.snap
      BY <2>3, <3>1, <3>2 DEF Seen, Fresh
    <3>3. CASE m.snap # e.snap
      BY <2>3, <3>1, <3>3 DEF Softer
    <3> QED
      BY <3>2, <3>3
  <2>4. m.stale \subseteq Bearable(s)
    BY DEF Softer, Seen, Fresh
  <2> QED
    BY <1>1, <2>1, <2>2, <2>3, <2>4 DEF Fresh
<1> QED
  BY <1>2, <1>3, <1>4 DEF Seen

(* One connection takes a step, and nothing of the raft threads changes. *)
LEMMA OneEngine ==
    ASSUME AdapterInv, ReplicaInv, NEW c \in Connections, eng[c] # None, Others,
           bounds'.clients = bounds.clients, Written(scenario, log, chosen, acked'),
           NEW n, eng' = [eng EXCEPT ![c] = n],
           \/ n = None
           \/ /\ n.client = eng[c].client
              /\ Seen(scenario, log, chosen, node, bounds.clients, n)
    PROVE  ReplicaInv'
<1>0. Typed /\ Replicas /\ Engines /\ Standing
  BY DEF AdapterInv, ReplicaInv
<1>1. UNCHANGED <<scenario, up, node, log, chosen, disk>>
  BY DEF Others
<1>2. DOMAIN eng = Connections
  BY <1>0 DEF Typed
<1>3. eng'[c] = n /\ \A d \in Connections : d # c => eng'[d] = eng[d]
  BY <1>2
<1>4. Engines'
  <2>1. ASSUME NEW d \in Connections
        PROVE  \/ eng'[d] = None
               \/ /\ eng[d] # None /\ eng'[d].client = eng[d].client
                  /\ Seen(scenario, log', chosen', node', bounds.clients, eng'[d])
    <3>1. CASE d = c
      BY <1>1, <1>3, <3>1
    <3>2. CASE d # c
      BY <1>0, <1>1, <1>3, <3>2 DEF Engines
    <3> QED
      BY <3>1, <3>2
  <2> QED
    BY <1>0, <1>1, <2>1, EnginesNext
<1>5. Replicas' /\ Standing'
  BY <1>0, <1>1 DEF Replicas, Standing, Groups, Group
<1>6. Stampings'
  BY <1>1 DEF Stampings
<1> QED
  BY <1>4, <1>5, <1>6 DEF ReplicaInv

LEMMA RestsReplicas ==
    ASSUME AdapterInv, ReplicaInv, NEW c \in Connections, eng[c] # None, Others,
           bounds'.clients = bounds.clients, Written(scenario, log, chosen, acked'),
           Rests(c, eng[c])
    PROVE  ReplicaInv'
<1> DEFINE e == eng[c]
<1>0. Typed /\ Engines /\ scenario \in Scenarios /\ Groups = GroupsIn(scenario)
  BY ReplicaParts DEF ReplicaInv
<1>1. e \in Engine /\ Seen(scenario, log, chosen, node, bounds.clients, e)
  BY <1>0, EngineIs DEF Engines
<1>2. \A g \in GroupsIn(scenario) : log[g] \in Seq(Entry)
  BY <1>0, GroupFacts
<1>3. PICK n \in Engine :
        /\ Softer(scenario, n, e)
        /\ \/ eng' = [eng EXCEPT ![c] = Returned(n)]
           \/ eng' = [eng EXCEPT ![c] = Went(n)]
  BY DEF Rests
<1> HIDE DEF e
<1>4. /\ Seen(scenario, log, chosen, node, bounds.clients, Returned(n))
      /\ Returned(n).client = e.client
  <2>1. /\ Returned(n).client = n.client /\ Returned(n).next = n.next
        /\ Returned(n).tx = n.tx /\ Returned(n).snap = n.snap
        /\ Returned(n).stale = n.stale /\ Returned(n).call = NoCall
        /\ Returned(n).floor \in {n.floor, IF n.tx = None THEN None ELSE n.floor}
    BY RestParts
  <2> QED
    BY <1>1, <1>2, <1>3, <2>1, QuietSeen DEF Softer
<1>5. /\ Seen(scenario, log, chosen, node, bounds.clients, Went(n))
      /\ Went(n).client = e.client
  <2>1. /\ Went(n).client = n.client /\ Went(n).next = n.next
        /\ Went(n).tx = n.tx /\ Went(n).snap = n.snap
        /\ Went(n).stale = n.stale /\ Went(n).call = NoCall
        /\ Went(n).floor \in {n.floor, IF n.tx = None THEN None ELSE n.floor}
    BY RestParts
  <2> QED
    BY <1>1, <1>2, <1>3, <2>1, QuietSeen DEF Softer
<1>6. CASE eng' = [eng EXCEPT ![c] = Returned(n)]
  BY <1>4, <1>6, OneEngine DEF e
<1>7. CASE eng' = [eng EXCEPT ![c] = Went(n)]
  BY <1>5, <1>7, OneEngine DEF e
<1> QED
  BY <1>3, <1>6, <1>7

LEMMA EndedAkin ==
    ASSUME NEW e \in Engine
    PROVE  /\ Akin(Ended(e), e)
           /\ [Ended(e) EXCEPT !.explicit = FALSE] \in Engine
           /\ Akin([Ended(e) EXCEPT !.explicit = FALSE], e)
           /\ [Ended(e) EXCEPT !.explicit = FALSE, !.failed = FALSE] \in Engine
           /\ Akin([Ended(e) EXCEPT !.explicit = FALSE, !.failed = FALSE], e)
<1> DEFINE d == Ended(e)
           p == [d EXCEPT !.explicit = FALSE]
           q == [d EXCEPT !.explicit = FALSE, !.failed = FALSE]
<1>1. /\ d.client = e.client /\ d.next = e.next /\ d.floor = e.floor /\ d.stale = e.stale
      /\ d.tx = None /\ d.snap = None
  BY DEF Ended, Unslotted, Engine
<1>2. d \in Engine
  BY EndedFields
<1>3. q \in Engine
  BY EndedDone
<1> HIDE DEF d
<1>7. p \in Engine
  BY <1>2, ZenonT(40) DEF Engine
<1>4. /\ p.client = d.client /\ p.next = d.next /\ p.floor = d.floor /\ p.stale = d.stale
      /\ p.tx = d.tx /\ p.snap = d.snap
  BY <1>2 DEF Engine
<1>5. /\ q.client = d.client /\ q.next = d.next /\ q.floor = d.floor /\ q.stale = d.stale
      /\ q.tx = d.tx /\ q.snap = d.snap
  BY <1>2 DEF Engine
<1> HIDE DEF p, q
<1>6. Akin(d, e) /\ Akin(p, e) /\ Akin(q, e)
  BY <1>1, <1>4, <1>5 DEF Akin
<1> QED
  BY <1>3, <1>6, <1>7 DEF d, p, q

LEMMA KeptAkin ==
    ASSUME NEW e \in Engine, e.tx = None => e.snap = None
    PROVE  /\ Akin(e, e)
           /\ Unslotted(e) \in Engine /\ Akin(Unslotted(e), e)
           /\ [e EXCEPT !.failed = TRUE] \in Engine /\ Akin([e EXCEPT !.failed = TRUE], e)
<1> DEFINE u == Unslotted(e)
           f == [e EXCEPT !.failed = TRUE]
<1>1. /\ u.client = e.client /\ u.next = e.next /\ u.floor = e.floor /\ u.stale = e.stale
      /\ u.tx = e.tx /\ u.snap = e.snap
  BY DEF Unslotted, Engine
<1>2. u \in Engine
  BY EndedFields
<1>3. f \in Engine
  BY Zenon DEF Engine
<1>4. /\ f.client = e.client /\ f.next = e.next /\ f.floor = e.floor /\ f.stale = e.stale
      /\ f.tx = e.tx /\ f.snap = e.snap
  BY DEF Engine
<1> HIDE DEF u, f
<1>5. Akin(e, e) /\ Akin(u, e) /\ Akin(f, e)
  BY <1>1, <1>4 DEF Akin
<1> QED
  BY <1>2, <1>3, <1>5 DEF u, f

LEMMA RestsWith ==
    ASSUME NEW c, NEW e, NEW n \in Engine, Softer(scenario, n, e), Return(c, n) \/ Go(c, n)
    PROVE  Rests(c, e)
  BY ReturnIs DEF Rests

LEMMA StatementFailsRests ==
    ASSUME NEW c, NEW e \in Engine, e.tx = None => e.snap = None, StatementFails(c, e)
    PROVE  Rests(c, e)
<1>1. CASE e.explicit
  <2>1. Return(c, [e EXCEPT !.failed = TRUE])
    BY <1>1 DEF StatementFails
  <2> QED
    BY <2>1, KeptAkin, AkinSofter, RestsWith
<1>2. CASE ~e.explicit
  <2>1. Return(c, Ended(e)) /\ Ended(e) \in Engine
    BY <1>2, EndedFields DEF StatementFails
  <2> QED
    BY <2>1, EndedAkin, AkinSofter, RestsWith
<1> QED
  BY <1>1, <1>2

LEMMA FailRests ==
    ASSUME NEW c, NEW e \in Engine, e.tx = None => e.snap = None, Fail(c, e)
    PROVE  Rests(c, e) /\ acked' = acked
<1>1. acked' = acked
  BY DEF Fail
<1>2. \/ Go(c, e)
      \/ Return(c, Unslotted(e))
      \/ StatementFails(c, e)
      \/ Return(c, e)
  BY DEF Fail
<1>3. CASE Go(c, e) \/ Return(c, e)
  BY <1>1, <1>3, KeptAkin, AkinSofter, RestsWith
<1>4. CASE Return(c, Unslotted(e))
  BY <1>1, <1>4, KeptAkin, AkinSofter, RestsWith
<1>5. CASE StatementFails(c, e)
  BY <1>1, <1>5, StatementFailsRests
<1> QED
  BY <1>1, <1>2, <1>3, <1>4, <1>5

LEMMA RestsTwice ==
    ASSUME NEW c, NEW f, NEW e, Softer(scenario, f, e), Rests(c, f)
    PROVE  Rests(c, e)
<1>1. PICK n \in Engine :
        /\ Softer(scenario, n, f)
        /\ \/ eng' = [eng EXCEPT ![c] = Returned(n)]
           \/ eng' = [eng EXCEPT ![c] = Went(n)]
  BY DEF Rests
<1>2. Softer(scenario, n, e)
  BY <1>1, SofterTwice
<1> QED
  BY <1>1, <1>2 DEF Rests

LEMMA KinAkin ==
    ASSUME NEW n, NEW e, Kin(n, e), e.tx = None => e.snap = None
    PROVE  Akin(n, e)
  BY DEF Kin, Akin

LEMMA SourceIs ==
    ASSUME NEW e \in Engine, e.todo # << >>
    PROVE  Source(First(e)) \in Keys
  BY FirstIs DEF Source, Keys

(* What an operation of a connection may rely on. *)
LEMMA EngineKnown ==
    ASSUME AdapterInv, ReplicaInv, NEW c \in Connections, eng[c] # None
    PROVE  /\ Local(scenario, eng[c]) /\ eng[c] \in Engine /\ TxOk(scenario, eng[c])
           /\ eng[c].tx = None => eng[c].snap = None
           /\ Seen(scenario, log, chosen, node, bounds.clients, eng[c])
           /\ Written(scenario, log, chosen, acked)
           /\ Typed /\ scenario \in Scenarios
           /\ eng[c].todo # << >> =>
                /\ First(eng[c]).op \in Ops /\ First(eng[c]).key \in Keys
                /\ Group(First(eng[c]).key) \in Groups
                /\ Source(First(eng[c])) \in Keys /\ Group(Source(First(eng[c]))) \in Groups
<1>1. Local(scenario, eng[c]) /\ eng[c] \in Engine
  BY EngineIs
<1>2. TxOk(scenario, eng[c])
  BY <1>1 DEF Local
<1>3. eng[c].tx = None => eng[c].snap = None
  BY <1>2 DEF TxOk
<1>4. eng[c].todo # << >> =>
        /\ First(eng[c]).op \in Ops /\ First(eng[c]).key \in Keys
        /\ Source(First(eng[c])) \in Keys
  BY <1>1, FirstIs, SourceIs
<1> QED
  BY <1>1, <1>2, <1>3, <1>4, ReplicaParts DEF ReplicaInv, Engines, Stampings

(* A barrier is asked for, with the floor of the snapshot or a new one. *)
LEMMA AskReplicas ==
    ASSUME AdapterInv, ReplicaInv, NEW c \in Connections, eng[c] # None, Outside,
           NEW f \in Engine, NEW g, Call(c, f, "read", g),
           f.client = eng[c].client, f.next = eng[c].next, f.stale = eng[c].stale,
           f.snap = eng[c].snap,
           \/ f.floor = eng[c].floor /\ eng[c].floor # None
           \/ f.floor = acked /\ f.snap = None
    PROVE  ReplicaInv'
<1> DEFINE e == eng[c]
           k == [kind |-> "read", group |-> g, stage |-> "queued", index |-> 0]
           n == [f EXCEPT !.call = k]
<1>1. eng' = [eng EXCEPT ![c] = n] /\ acked' = acked
  BY DEF Call
<1>2. /\ e \in Engine /\ Seen(scenario, log, chosen, node, bounds.clients, e)
      /\ Written(scenario, log, chosen, acked) /\ Typed
  BY EngineKnown
<1>3. k.kind = "read" /\ k.stage = "queued"
  OBVIOUS
<1> HIDE DEF k
<1>4. /\ n.call = k /\ n.client = f.client /\ n.next = f.next /\ n.stale = f.stale
      /\ n.snap = f.snap /\ n.floor = f.floor
  BY DEF Engine
<1> HIDE DEF n
<1>5. Waits(scenario, log, chosen, node, n)
  BY <1>3, <1>4, WaitsFailed
<1>6. Numbered(GroupsIn(scenario), log, bounds.clients, n)
  <2>1. ~Queued(n)
    BY <1>3, <1>4 DEF Queued
  <2>2. \A h \in GroupsIn(scenario) : log[h] \in Seq(Entry)
    BY <1>2, GroupFacts DEF Groups, GroupsIn
  <2>3. Numbered(GroupsIn(scenario), log, bounds.clients, e)
    BY <1>2 DEF Seen
  <2> HIDE DEF e
  <2> QED
    BY <1>2, <1>4, <2>1, <2>2, <2>3, NumberedRests DEF e
<1>7. Fresh(scenario, log, chosen, n)
  <2>1. Fresh(scenario, log, chosen, e)
    BY <1>2 DEF Seen
  <2>2. acked # None
    BY <1>2, NoneIsNothing DEF Typed
  <2>3. n.floor # None /\ Written(scenario, log, chosen, n.floor)
    BY <1>2, <1>4, <2>1, <2>2 DEF Fresh
  <2>4. ASSUME n.snap # None, GroupCount(scenario.router) = 1
        PROVE  \A x \in Keys : n.floor[x] <= n.snap[x]
    BY <1>4, <2>1, <2>4 DEF Fresh
  <2>5. n.stale \subseteq Bearable(scenario)
    BY <1>4, <2>1 DEF Fresh
  <2> QED
    BY <2>3, <2>4, <2>5 DEF Fresh
<1>8. Seen(scenario, log, chosen, node, bounds.clients, n)
  BY <1>5, <1>6, <1>7 DEF Seen
<1> QED
  BY <1>1, <1>2, <1>4, <1>8, OneEngine DEF Outside

-----------------------------------------------------------------------------
(* Reads.  The store, when it is what is read, is not older than the floor. *)
Readable(f, key) ==
    /\ f.tx = None => f.snap = None
    /\ f.snap # None =>
         /\ f.floor # None
         /\ GroupCount(scenario.router) = 1 => \A k \in Keys : f.floor[k] <= f.snap[k]
    /\ f.snap = None => ~(disk.store[key] < f.floor[key])
    /\ f.stale \subseteq Bearable(scenario)

LEMMA ReadKeySofter ==
    ASSUME Typed, NEW f \in Engine, NEW key \in Keys, Group(key) \in Int, Readable(f, key)
    PROVE  /\ ReadKey(f, key) \in Engine /\ ReadKey(f, key).tx = f.tx
           /\ ReadKey(f, key).snap = f.snap /\ ReadKey(f, key).todo = f.todo
           /\ Softer(scenario, ReadKey(f, key), f)
<1> DEFINE from == IF f.snap # None THEN f.snap ELSE disk.store
           held == f.tx # None /\ f.snap # None
           old == (f.tx # None => key \notin f.tx) /\ from[key] < f.floor[key]
           p == IF held THEN f.proven \cup {Group(key)} ELSE f.proven
           t == IF f.tx # None /\ ~IsSystemKey(key) THEN f.touched \cup {Group(key)}
                ELSE f.touched
           s == IF old THEN f.stale \cup {IF held THEN "snapshot" ELSE "store"} ELSE f.stale
           n == [f EXCEPT !.proven = p, !.touched = t, !.stale = s]
<1>1. ReadKey(f, key) = n
  BY DEF ReadKey, Engine
<1>2. p \in SUBSET Int /\ t \in SUBSET Int /\ s \in SUBSET {"snapshot", "store"}
  BY EngineFields
<1>3. s = f.stale \/ s \subseteq Bearable(scenario)
  <2>1. SUFFICES ASSUME old PROVE s \subseteq Bearable(scenario)
    OBVIOUS
  <2>2. f.snap # None
    BY <2>1 DEF Readable
  <2>3. f.tx # None /\ from = f.snap /\ f.floor # None
    BY <2>2 DEF Readable
  <2>4. f.floor \in Stamps /\ f.snap \in Stamps
    BY <2>2, <2>3, EngineFields
  <2>5. f.floor[key] \in Nat /\ f.snap[key] \in Nat
    BY <2>4 DEF Stamps
  <2>6. GroupCount(scenario.router) # 1
    BY <2>1, <2>2, <2>3, <2>5 DEF Readable
  <2>7. Bearable(scenario) = {"snapshot"}
    BY <2>6 DEF Bearable
  <2> QED
    BY <2>1, <2>2, <2>3, <2>7 DEF Readable
<1> HIDE DEF p, t, s
<1>4. n \in Engine
  BY <1>2, Zenon DEF Engine
<1>5. /\ n.client = f.client /\ n.next = f.next /\ n.floor = f.floor /\ n.stale = s
      /\ n.tx = f.tx /\ n.snap = f.snap /\ n.todo = f.todo
  BY DEF Engine
<1> HIDE DEF n
<1>6. Softer(scenario, n, f)
  BY <1>3, <1>5 DEF Softer, Readable
<1> QED
  BY <1>1, <1>4, <1>5, <1>6

LEMMA FoundRests ==
    ASSUME Typed, NEW c, NEW f \in Engine, f.todo # << >>, Group(Source(First(f))) \in Int,
           Readable(f, Source(First(f))), Found(c, f)
    PROVE  Rests(c, f)
<1> DEFINE read == ReadKey(f, Source(First(f)))
           key == First(f).key
           rest == [read EXCEPT !.todo = Unwritten(f)]
<1>0. Source(First(f)) \in Keys /\ key \in Keys /\ First(f) \in Operation
  BY FirstIs, SourceIs
<1>1. /\ read \in Engine /\ read.tx = f.tx /\ read.snap = f.snap
      /\ Softer(scenario, read, f)
  BY <1>0, ReadKeySofter
<1>2. \/ StatementFails(c, read)
      \/ Go(c, rest)
      \/ Go(c, read)
  BY DEF Found
<1> HIDE DEF read
<1>3. CASE StatementFails(c, read)
  <2>1. read.tx = None => read.snap = None
    BY <1>1 DEF Readable
  <2> QED
    BY <1>1, <1>3, <2>1, StatementFailsRests, RestsTwice
<1>4. CASE Go(c, read)
  BY <1>1, <1>4, RestsWith
<1>5. CASE Go(c, rest)
  <2>1. Unwritten(f) \in Seq(Operation)
    <3>1. Op("commit", key) \in Operation
      BY <1>0, OpIs DEF Ops
    <3> HIDE DEF key
    <3>2. Unwritten(f) \in {<<First(f)>>, <<First(f), Op("commit", key)>>}
      BY DEF Unwritten, key
    <3>3. \A a, b \in Operation : <<a>> \in Seq(Operation) /\ <<a, b>> \in Seq(Operation)
      OBVIOUS
    <3>4. <<First(f)>> \in Seq(Operation) /\ <<First(f), Op("commit", key)>> \in Seq(Operation)
      BY <1>0, <3>1, <3>3, Zenon
    <3> QED
      BY <3>2, <3>4
  <2>2. rest \in Engine
    BY <1>1, <2>1, Zenon DEF Engine
  <2>3. /\ rest.client = read.client /\ rest.next = read.next /\ rest.floor = read.floor
        /\ rest.stale = read.stale /\ rest.tx = read.tx /\ rest.snap = read.snap
    BY <1>1 DEF Engine
  <2> HIDE DEF rest
  <2>4. Softer(scenario, rest, f)
    BY <1>1, <2>3 DEF Softer
  <2> QED
    BY <1>5, <2>2, <2>4, RestsWith
<1> QED
  BY <1>2, <1>3, <1>4, <1>5

LEMMA ReadReplicas ==
    ASSUME AdapterInv, ReplicaInv, NEW c \in Connections, eng[c] # None, eng[c].todo # << >>,
           NEW g \in Groups, Read(c, Source(First(eng[c])), g), Outside
    PROVE  ReplicaInv'
<1> DEFINE e == eng[c]
           key == Source(First(e))
           touches == e.tx # None /\ ~IsSystemKey(key)
           checked == IF touches THEN CheckGroup(c, e, g, FALSE) ELSE [ok |-> TRUE, eng |-> e]
           f == checked.eng
<1>0. /\ e \in Engine /\ TxOk(scenario, e) /\ (e.tx = None => e.snap = None)
      /\ Seen(scenario, log, chosen, node, bounds.clients, e)
      /\ Written(scenario, log, chosen, acked)
      /\ Typed /\ scenario \in Scenarios /\ key \in Keys /\ Group(key) \in Groups
  BY EngineKnown
<1>1. f \in Engine /\ Kin(f, e)
  <2>1. CASE touches
    <3>1. g \in GroupsIn(scenario) /\ f = CheckGroup(c, e, g, FALSE).eng
      BY <2>1 DEF Groups, GroupsIn
    <3> QED
      BY <1>0, <3>1, CheckGroupOk
  <2>2. CASE ~touches
    BY <1>0, <2>2 DEF Kin
  <2> QED
    BY <2>1, <2>2
<1>2. \/ Fail(c, f)
      \/ Proven(f, g) /\ Found(c, f) /\ acked' = acked
      \/ Call(c, IF f.snap # None THEN f ELSE [f EXCEPT !.floor = acked], "read", g)
  BY DEF Read
<1> HIDE DEF f
<1>3. Others /\ bounds'.clients = bounds.clients
  BY DEF Outside
<1>4. Softer(scenario, f, e) /\ (f.tx = None => f.snap = None)
  BY <1>0, <1>1, KinAkin, AkinSofter DEF Kin
<1>5. /\ f.client = e.client /\ f.next = e.next /\ f.stale = e.stale /\ f.snap = e.snap
      /\ f.floor = e.floor /\ f.tx = e.tx /\ f.todo = e.todo
  BY <1>1 DEF Kin
<1>6. Fresh(scenario, log, chosen, e)
  BY <1>0 DEF Seen
<1>7. CASE Fail(c, f)
  BY <1>0, <1>1, <1>3, <1>4, <1>7, FailRests, RestsTwice, RestsReplicas
<1>8. CASE Proven(f, g) /\ Found(c, f) /\ acked' = acked
  <2>1. f.snap # None /\ f.tx # None
    BY <1>8 DEF Proven
  <2>2. First(f) = First(e) /\ f.todo # << >>
    BY <1>5 DEF First
  <2>3. Readable(f, key)
    BY <1>5, <1>6, <2>1 DEF Readable, Fresh
  <2>4. Group(key) \in Int
    BY <1>0, GroupFacts
  <2>5. Rests(c, f)
    BY <1>0, <1>1, <1>8, <2>2, <2>3, <2>4, FoundRests
  <2> QED
    BY <1>0, <1>3, <1>4, <1>8, <2>5, RestsTwice, RestsReplicas
<1>9. CASE Call(c, IF f.snap # None THEN f ELSE [f EXCEPT !.floor = acked], "read", g)
  <2>1. CASE f.snap # None
    <3>1. e.floor # None
      BY <1>0, <1>5, <1>6, <2>1 DEF Fresh
    <3> QED
      BY <1>1, <1>5, <1>9, <2>1, <3>1, AskReplicas
  <2>2. CASE f.snap = None
    <3> DEFINE n == [f EXCEPT !.floor = acked]
    <3>1. acked \in Stamps
      BY <1>0 DEF Typed
    <3>2. n \in Engine
      BY <1>1, <3>1, Zenon DEF Engine
    <3>3. /\ n.client = f.client /\ n.next = f.next /\ n.stale = f.stale /\ n.snap = f.snap
          /\ n.floor = acked
      BY <1>1 DEF Engine
    <3>4. Call(c, n, "read", g)
      BY <1>9, <2>2
    <3> HIDE DEF n
    <3> QED
      BY <1>5, <2>2, <3>2, <3>3, <3>4, AskReplicas
  <2> QED
    BY <2>1, <2>2
<1> QED
  BY <1>2, <1>7, <1>8, <1>9

LEMMA ScanReplicas ==
    ASSUME AdapterInv, ReplicaInv, NEW c \in Connections, OpGet(c) \/ OpExists(c) \/ OpScan(c)
    PROVE  ReplicaInv'
<1> DEFINE e == eng[c]
           key == First(e).key
<1>0. e # None /\ e.todo # << >> /\ Outside
  BY DEF OpGet, OpExists, OpScan, Running
<1>1. /\ e \in Engine /\ (e.tx = None => e.snap = None)
      /\ Written(scenario, log, chosen, acked) /\ scenario \in Scenarios
      /\ key \in Keys /\ Group(Source(First(e))) \in Groups /\ Group(key) \in Groups
  BY <1>0, EngineKnown
<1>2. \/ \E g \in Groups : Read(c, Source(First(e)), g)
      \/ Fail(c, e)
  <2>1. CASE OpGet(c) \/ OpExists(c)
    BY <1>1, <2>1 DEF OpGet, OpExists, Source
  <2>2. CASE OpScan(c)
    <3>1. CASE TableGroup(key) = CrossesGroups
      BY <2>2, <3>1 DEF OpScan
    <3>2. CASE TableGroup(key) # CrossesGroups
      <4>1. TableGroup(key) \in Groups
        BY <1>1, <3>2, TableGroupIs
      <4>2. Read(c, Source(First(e)), TableGroup(key))
        BY <2>2, <3>2 DEF OpScan, Source
      <4> QED
        BY <4>1, <4>2
    <3> QED
      BY <3>1, <3>2
  <2> QED
    BY <2>1, <2>2
<1>3. CASE Fail(c, e)
  <2>1. Others /\ bounds'.clients = bounds.clients
    BY <1>0 DEF Outside
  <2> QED
    BY <1>0, <1>1, <1>3, <2>1, FailRests, RestsReplicas
<1> QED
  BY <1>0, <1>2, <1>3, ReadReplicas

(* After its barrier a read finds in the store what was acknowledged. *)
LEMMA StoreReached ==
    ASSUME AdapterInv, ReplicaInv, NEW c \in Connections, eng[c] # None,
           eng[c].call.kind = "read", eng[c].call.stage = "done", NEW k \in Keys,
           Group(k) = eng[c].call.group
    PROVE  eng[c].floor[k] \in Nat /\ disk.store[k] \in Nat /\ eng[c].floor[k] <= disk.store[k]
<1> DEFINE e == eng[c]
           g == e.call.group
           v == e.floor[k]
           r == disk.reached[g]
<1>0. /\ Typed /\ Replicas /\ Standing /\ e \in Engine
      /\ Seen(scenario, log, chosen, node, bounds.clients, e)
  BY EngineKnown DEF ReplicaInv
<1>1. g \in Groups /\ e.call.index \in Nat /\ GroupIn(scenario, k) = g
  BY EngineIs DEF Group, GroupIn
<1>2. e.floor # None /\ Written(scenario, log, chosen, e.floor)
  BY <1>0 DEF Seen, Fresh
<1>3. v \in Nat /\ disk.store[k] \in Nat
  <2>1. e.floor \in Stamps
    BY <1>0, <1>2, EngineFields
  <2>2. disk.store \in Stamps
    BY ReplicaParts
  <2> QED
    BY <2>1, <2>2 DEF Stamps
<1>4. v <= e.call.index /\ node[g].applied >= e.call.index
  BY <1>0, <1>1 DEF Seen, Waits
<1>5. /\ node[g].applied \in Nat /\ r \in Nat /\ node[g].applied <= r
  BY <1>0, <1>1, GroupFacts, ReplicaFacts DEF Replayed
<1>6. v = 0 \/ k \in log[g][v].keys
  BY <1>1, <1>2 DEF Written
<1>7. Stands(log[g], k, r, disk.store[k])
  BY <1>0 DEF Standing
<1> HIDE DEF v, r, g
<1>8. v = 0 \/ v \in 1 .. r
  BY <1>1, <1>3, <1>4, <1>5
<1>9. v <= disk.store[k]
  BY <1>3, <1>6, <1>7, <1>8 DEF Stands
<1> QED
  BY <1>3, <1>9 DEF v

LEMMA BegunSofter ==
    ASSUME AdapterInv, NEW e \in Engine, e.floor # None,
           SingleGroup => \A k \in Keys : e.floor[k] <= disk.store[k]
    PROVE  Begun(e) \in Engine /\ Softer(scenario, Begun(e), e)
<1> DEFINE n == Begun(e)
<1>0. n \in Engine /\ n.tx = {}
  BY BegunFields DEF AdapterInv
<1>1. /\ n.client = e.client /\ n.next = e.next /\ n.floor = e.floor /\ n.stale = e.stale
      /\ n.snap = disk.store
  BY DEF Begun, Engine
<1>2. {} # None
  BY NoneIsNothing
<1> HIDE DEF n
<1>3. Softer(scenario, n, e)
  BY <1>0, <1>1, <1>2 DEF Softer, SingleGroup
<1> QED
  BY <1>0, <1>3 DEF n

LEMMA BeginReplicas ==
    ASSUME AdapterInv, ReplicaInv, NEW c \in Connections, OpBegin(c)
    PROVE  ReplicaInv'
<1> DEFINE e == eng[c]
           f == [e EXCEPT !.floor = acked]
<1>0. /\ e # None /\ e.todo # << >> /\ Outside /\ First(e).op \in {"begin", "auto"}
      /\ e.call = NoCall
      /\ IF SingleGroup THEN Call(c, f, "read", 0)
         ELSE Go(c, Begun(f)) /\ acked' = acked
  BY DEF OpBegin, Running
<1>1. /\ e \in Engine /\ (e.tx = None => e.snap = None) /\ Local(scenario, e)
      /\ Seen(scenario, log, chosen, node, bounds.clients, e)
      /\ Written(scenario, log, chosen, acked) /\ scenario \in Scenarios /\ Typed
  BY <1>0, EngineKnown
<1>2. acked \in Stamps /\ acked # None
  BY <1>1, NoneIsNothing DEF Typed
<1>3. e.tx = None
  <2>1. PhaseAt(e, First(e)) /\ Chain(scenario, e.todo, e.explicit) /\ e.todo \in Seq(Operation)
    BY <1>0, <1>1, LocalFacts, EngineFields
  <2>2. CASE First(e).op = "auto"
    BY <2>1, <2>2 DEF PhaseAt
  <2>3. CASE First(e).op = "begin"
    <3>1. Last(e.todo[1], e.explicit)
      BY <1>0, <2>1, <2>3, LastOne DEF First
    <3>2. ~e.explicit
      BY <2>3, <3>1 DEF Last, First
    <3> QED
      BY <2>1, <2>3, <3>2 DEF PhaseAt, AtRest, Inside
  <2> QED
    BY <1>0, <2>2, <2>3
<1>4. f \in Engine
  BY <1>1, <1>2, Zenon DEF Engine
<1>5. /\ f.client = e.client /\ f.next = e.next /\ f.stale = e.stale /\ f.snap = e.snap
      /\ f.floor = acked /\ f.tx = e.tx /\ f.call = NoCall
  BY <1>0, <1>1 DEF Engine
<1> HIDE DEF f
<1>6. f.snap = None
  BY <1>1, <1>3, <1>5
<1>7. CASE SingleGroup
  BY <1>0, <1>4, <1>5, <1>6, <1>7, AskReplicas
<1>8. CASE ~SingleGroup
  <2> DEFINE n == Begun(f)
  <2>1. n \in Engine /\ Softer(scenario, n, f)
    BY <1>2, <1>4, <1>5, <1>8, BegunSofter
  <2>2. eng' = [eng EXCEPT ![c] = Went(n)] /\ acked' = acked
    BY <1>0, <1>8, ReturnIs
  <2> HIDE DEF n
  <2>3. /\ Went(n).client = n.client /\ Went(n).next = n.next
        /\ Went(n).tx = n.tx /\ Went(n).snap = n.snap
        /\ Went(n).stale = n.stale /\ Went(n).call = NoCall
        /\ Went(n).floor \in {n.floor, IF n.tx = None THEN None ELSE n.floor}
    BY <2>1, RestParts
  <2>4. \A g \in GroupsIn(scenario) : log[g] \in Seq(Entry)
    BY <1>1, GroupFacts DEF Groups, GroupsIn
  <2>5. Seen(scenario, log, chosen, node, bounds.clients, f)
    <3>1. Waits(scenario, log, chosen, node, f) /\ ~Queued(f)
      BY <1>5, WaitsFailed DEF NoCall, Queued
    <3>2. Numbered(GroupsIn(scenario), log, bounds.clients, f)
      BY <1>1, <1>5, <2>4, <3>1, NumberedRests DEF Seen
    <3>3. Fresh(scenario, log, chosen, f)
      BY <1>1, <1>2, <1>5, <1>6 DEF Seen, Fresh
    <3> QED
      BY <3>1, <3>2, <3>3 DEF Seen
  <2>6. Seen(scenario, log, chosen, node, bounds.clients, Went(n))
    BY <1>4, <2>1, <2>3, <2>4, <2>5, QuietSeen
  <2>7. Went(n).client = e.client
    BY <1>5, <2>1, <2>3 DEF Softer
  <2>8. Others /\ bounds'.clients = bounds.clients /\ Written(scenario, log, chosen, acked')
    BY <1>0, <1>1, <2>2 DEF Outside
  <2> QED
    BY <1>0, <2>2, <2>6, <2>7, <2>8, OneEngine
<1> QED
  BY <1>7, <1>8

LEMMA SlotAkin ==
    ASSUME NEW c, NEW e \in Engine, e.tx = None => e.snap = None, NEW g \in Int
    PROVE  /\ AcquireWriteSlot(c, e, g).eng \in Engine
           /\ Akin(AcquireWriteSlot(c, e, g).eng, e)
<1> DEFINE n == [e EXCEPT !.slot = TRUE, !.wgroup = g, !.snap = None]
<1>1. AcquireWriteSlot(c, e, g).eng \in {e, n}
  BY DEF AcquireWriteSlot
<1>2. n \in Engine
  BY Zenon DEF Engine
<1>3. /\ n.client = e.client /\ n.next = e.next /\ n.stale = e.stale /\ n.snap = None
      /\ n.floor = e.floor /\ n.tx = e.tx
  BY DEF Engine
<1> HIDE DEF n
<1>4. Akin(n, e)
  BY <1>3 DEF Akin
<1> QED
  BY <1>1, <1>2, <1>4, KeptAkin

LEMMA SlotReplicas ==
    ASSUME AdapterInv, ReplicaInv, NEW c \in Connections, OpSlot(c)
    PROVE  ReplicaInv'
<1> DEFINE e == eng[c]
           g == Group(First(e).key)
           got == AcquireWriteSlot(c, e, g)
<1>0. e # None /\ e.todo # << >> /\ Others /\ bounds' = bounds
  BY DEF OpSlot, Running, Outside
<1>1. /\ e \in Engine /\ (e.tx = None => e.snap = None) /\ g \in Groups
      /\ Written(scenario, log, chosen, acked) /\ Typed
  BY <1>0, EngineKnown
<1>2. got.eng \in Engine /\ Akin(got.eng, e)
  BY <1>1, SlotAkin, GroupFacts
<1>3. \/ Go(c, got.eng) /\ acked' = acked
      \/ Fail(c, e)
  BY DEF OpSlot
<1> HIDE DEF got
<1>4. Rests(c, e) /\ acked' = acked
  <2>1. CASE Go(c, got.eng) /\ acked' = acked
    BY <1>2, <2>1, AkinSofter, RestsWith
  <2>2. CASE Fail(c, e)
    BY <1>1, <2>2, FailRests
  <2> QED
    BY <1>3, <2>1, <2>2
<1> QED
  BY <1>0, <1>1, <1>4, RestsReplicas

LEMMA WroteAkin ==
    ASSUME NEW f \in Engine, f.tx # None, NEW key \in Keys, Group(key) \in Int, NEW fresh
    PROVE  Wrote(f, key, fresh) \in Engine /\ Akin(Wrote(f, key, fresh), f)
<1> DEFINE n == Wrote(f, key, fresh)
<1>1. n \in Engine /\ n.tx = f.tx \cup {key} /\ n.snap = f.snap
  BY WroteFields
<1>2. n.client = f.client /\ n.next = f.next /\ n.stale = f.stale /\ n.floor = f.floor
  BY DEF Wrote, Engine
<1>3. f.tx \cup {key} # None
  <2>1. f.tx \cup {key} \in SUBSET Keys
    BY EngineFields
  <2> QED
    BY <2>1, NoneIsNothing
<1> HIDE DEF n
<1>4. Akin(n, f)
  BY <1>1, <1>2, <1>3 DEF Akin
<1> QED
  BY <1>1, <1>4 DEF n

LEMMA WriteReplicas ==
    ASSUME AdapterInv, ReplicaInv, NEW c \in Connections, OpWrite(c)
    PROVE  ReplicaInv'
<1> DEFINE e == eng[c]
           o == First(e)
           g == WriteGroup(o)
           checked == CheckGroup(c, e, g, TRUE)
           got == AcquireWriteSlot(c, checked.eng, g)
           n == Wrote(got.eng, o.key, o.op = "put")
<1>0. /\ e # None /\ e.todo # << >> /\ Others /\ bounds' = bounds
      /\ o.op \in {"put", "write", "touch", "clear"}
  BY DEF OpWrite, Running, Outside
<1>1. /\ e \in Engine /\ (e.tx = None => e.snap = None) /\ Group(o.key) \in Groups
      /\ o.key \in Keys /\ TxOk(scenario, e) /\ Local(scenario, e)
      /\ Written(scenario, log, chosen, acked) /\ Typed /\ scenario \in Scenarios
  BY <1>0, EngineKnown
<1>2. CASE Fail(c, e)
  BY <1>0, <1>1, <1>2, FailRests, RestsReplicas
<1>3. CASE g # CrossesGroups /\ ~Fail(c, e)
  <2>1. g \in Groups /\ g \in Int
    <3>1. g \in Groups
      BY <1>1, <1>3, TableGroupIs DEF WriteGroup
    <3> QED
      BY <1>1, <3>1, GroupFacts
  <2>2. /\ checked.eng \in Engine /\ Kin(checked.eng, e)
    <3>1. g \in GroupsIn(scenario)
      BY <2>1 DEF Groups, GroupsIn
    <3> HIDE DEF g
    <3> QED
      BY <1>1, <3>1, CheckGroupOk
  <2>3. /\ Akin(checked.eng, e) /\ (checked.eng.tx = None => checked.eng.snap = None)
        /\ checked.eng.tx = e.tx
    BY <1>1, <2>2, KinAkin DEF Kin
  <2>4. \/ Go(c, n) /\ acked' = acked
        \/ Fail(c, checked.eng)
    BY <1>3 DEF OpWrite, Wrote
  <2> HIDE DEF checked, g
  <2>5. got.eng \in Engine /\ Akin(got.eng, checked.eng)
    BY <2>1, <2>2, <2>3, SlotAkin
  <2>6. got.eng.tx = checked.eng.tx
    BY <2>2 DEF AcquireWriteSlot, Engine
  <2> HIDE DEF got
  <2>7. e.tx # None
    <3>1. PhaseAt(e, o)
      BY <1>0, <1>1, LocalFacts
    <3> QED
      BY <1>0, <3>1 DEF PhaseAt, Inside
  <2>8. n \in Engine /\ Akin(n, got.eng)
    <3>1. Group(o.key) \in Int
      BY <1>1, GroupFacts
    <3> QED
      BY <1>1, <2>3, <2>5, <2>6, <2>7, <3>1, WroteAkin
  <2> HIDE DEF n
  <2>9. Rests(c, e) /\ acked' = acked
    <3>1. CASE Go(c, n) /\ acked' = acked
      <4>1. Softer(scenario, n, e)
        BY <2>3, <2>5, <2>8, AkinSofter, SofterTwice
      <4> QED
        BY <2>8, <3>1, <4>1, RestsWith
    <3>2. CASE Fail(c, checked.eng)
      <4>1. Softer(scenario, checked.eng, e)
        BY <2>3, AkinSofter
      <4>2. Rests(c, checked.eng) /\ acked' = acked
        BY <2>2, <2>3, <3>2, FailRests
      <4> QED
        BY <4>1, <4>2, RestsTwice
    <3> QED
      BY <2>4, <3>1, <3>2
  <2> QED
    BY <1>0, <1>1, <2>9, RestsReplicas
<1>4. CASE g = CrossesGroups
  BY <1>2, <1>4 DEF OpWrite
<1> QED
  BY <1>2, <1>3, <1>4

LEMMA CommitOpReplicas ==
    ASSUME AdapterInv, ReplicaInv, NEW c \in Connections, OpCommit(c) \/ OpRollback(c)
    PROVE  ReplicaInv'
<1> DEFINE e == eng[c]
<1>0. /\ e # None /\ e.todo # << >> /\ Others /\ bounds' = bounds /\ e.call = NoCall
  BY DEF OpCommit, OpRollback, Running, Outside
<1>1. /\ e \in Engine /\ Written(scenario, log, chosen, acked) /\ Typed
      /\ Seen(scenario, log, chosen, node, bounds.clients, e)
  BY <1>0, EngineKnown
<1>2. CASE /\ acked' = acked
           /\ \/ Go(c, [Ended(e) EXCEPT !.explicit = FALSE])
              \/ Go(c, [Ended(e) EXCEPT !.explicit = FALSE, !.failed = FALSE])
  <2>1. Rests(c, e)
    BY <1>1, <1>2, EndedAkin, AkinSofter, RestsWith
  <2> QED
    BY <1>0, <1>1, <1>2, <2>1, RestsReplicas
<1>3. CASE Call(c, [e EXCEPT !.next = @ + 1, !.snap = None], "propose", e.wgroup)
  <2> DEFINE k == [kind |-> "propose", group |-> e.wgroup, stage |-> "queued", index |-> 0]
             n == [e EXCEPT !.next = e.next + 1, !.snap = None, !.call = k]
  <2>1. eng' = [eng EXCEPT ![c] = n] /\ acked' = acked
    BY <1>1, <1>3 DEF Call, Engine
  <2>2. k.kind = "propose" /\ k.stage = "queued"
    OBVIOUS
  <2> HIDE DEF k
  <2>3. /\ n.client = e.client /\ n.next = e.next + 1 /\ n.snap = None /\ n.call = k
        /\ n.tx = e.tx /\ n.floor = e.floor /\ n.stale = e.stale
    BY <1>1 DEF Engine
  <2>4. e.next \in Nat /\ e.next > 0
    BY <1>1, EngineFields
  <2> HIDE DEF n
  <2>5. Waits(scenario, log, chosen, node, n)
    BY <2>2, <2>3, WaitsFailed
  <2>6. Numbered(GroupsIn(scenario), log, bounds.clients, n)
    <3>1. Queued(n) /\ ~Queued(e)
      BY <1>0, <2>2, <2>3 DEF Queued, NoCall
    <3>2. n.next > 1 /\ n.next - 1 = e.next
      BY <2>3, <2>4
    <3>3. Numbered(GroupsIn(scenario), log, bounds.clients, e)
      BY <1>1 DEF Seen
    <3> QED
      BY <2>3, <3>1, <3>2, <3>3 DEF Numbered
  <2>7. Fresh(scenario, log, chosen, n)
    BY <1>1, <2>2, <2>3 DEF Seen, Fresh
  <2>8. Seen(scenario, log, chosen, node, bounds.clients, n)
    BY <2>5, <2>6, <2>7 DEF Seen
  <2> QED
    BY <1>0, <1>1, <2>1, <2>3, <2>8, OneEngine
<1> QED
  BY <1>2, <1>3 DEF OpCommit, OpRollback

(* The answer to a proposal acknowledges its entry; that to a barrier lets  *)
(* the transaction begin, or the read go on.                                *)
LEMMA DoneReplicas ==
    ASSUME AdapterInv, ReplicaInv, CommittedAtHome, NEW c \in Connections, CallDone(c)
    PROVE  ReplicaInv'
<1> DEFINE e == eng[c]
           g == e.call.group
           i == e.call.index
<1>0. /\ e # None /\ e.call.stage = "done" /\ Others /\ bounds' = bounds
  BY DEF CallDone, Outside
<1>1. /\ e \in Engine /\ Written(scenario, log, chosen, acked) /\ Typed
      /\ Seen(scenario, log, chosen, node, bounds.clients, e)
      /\ (e.tx = None => e.snap = None) /\ Local(scenario, e) /\ scenario \in Scenarios
  BY <1>0, EngineKnown
<1>2. e.call # NoCall /\ e.todo # << >> /\ e.call.kind \in {"read", "propose"}
  BY <1>0, <1>1, CallIs
<1>3. /\ Calling(scenario, e) /\ Source(First(e)) \in Keys /\ Group(Source(First(e))) \in Groups
      /\ Group(Source(First(e))) \in Int
  <2>1. Source(First(e)) \in Keys /\ Group(Source(First(e))) \in Groups
    BY <1>0, <1>2, EngineKnown
  <2> QED
    BY <1>1, <1>2, <2>1, LocalFacts, GroupFacts
<1>4. CASE e.call.kind = "propose"
  <2>1. /\ Go(c, [Ended(e) EXCEPT !.explicit = FALSE])
        /\ acked' = [k \in Keys |-> IF k \in {x \in Keys : e.tx # None /\ x \in e.tx}
                                    THEN i ELSE acked[k]]
    BY <1>4 DEF CallDone
  <2>2. Rests(c, e)
    BY <1>1, <2>1, EndedAkin, AkinSofter, RestsWith
  <2>3. g \in Groups
    BY <1>0, <1>2, EngineIs
  <2>4. i \in 1 .. chosen[g] /\ log[g][i].keys = e.tx
    BY <1>0, <1>1, <1>4 DEF Seen, Waits
  <2>5. Written(scenario, log, chosen, acked')
    <3>1. ASSUME NEW k \in Keys, acked'[k] # 0
          PROVE  /\ acked'[k] \in 1 .. chosen[GroupIn(scenario, k)]
                 /\ k \in log[GroupIn(scenario, k)][acked'[k]].keys
      <4>1. CASE e.tx # None /\ k \in e.tx
        <5>1. acked'[k] = i
          BY <2>1, <4>1
        <5>3. Group(k) = g
          BY <2>3, <2>4, <4>1 DEF CommittedAtHome
        <5>4. GroupIn(scenario, k) = g
          BY <5>3 DEF Group, GroupIn
        <5> QED
          BY <2>4, <4>1, <5>1, <5>4
      <4>2. CASE ~(e.tx # None /\ k \in e.tx)
        <5>1. acked'[k] = acked[k]
          BY <2>1, <4>2
        <5> QED
          BY <1>1, <3>1, <5>1 DEF Written
      <4> QED
        BY <4>1, <4>2
    <3> QED
      BY <3>1 DEF Written
  <2> QED
    BY <1>0, <2>2, <2>5, RestsReplicas
<1>5. CASE e.call.kind = "read" /\ First(e).op \in {"begin", "auto"}
  <2>1. Go(c, Begun(e)) /\ acked' = acked
    BY <1>5 DEF CallDone
  <2>2. g = 0 /\ GroupCount(scenario.router) = 1
    BY <1>2, <1>3, <1>5 DEF Calling, Reads
  <2>3. \A k \in Keys : Group(k) = g
    <3>1. GroupsIn(scenario) = {0}
      BY <1>1, <2>2, Deployment
    <3> QED
      BY <2>2, <3>1, ReplicaParts
  <2>4. \A k \in Keys : e.floor[k] <= disk.store[k]
    BY <1>0, <1>5, <2>3, StoreReached
  <2>5. e.floor # None
    BY <1>1, <1>5 DEF Seen, Fresh
  <2>6. Begun(e) \in Engine /\ Softer(scenario, Begun(e), e)
    BY <1>1, <2>4, <2>5, BegunSofter
  <2>7. Rests(c, e)
    BY <2>1, <2>6, RestsWith
  <2> QED
    BY <1>0, <1>1, <2>1, <2>7, RestsReplicas
<1>6. CASE e.call.kind = "read" /\ First(e).op \notin {"begin", "auto"}
  <2>1. Found(c, e) /\ acked' = acked
    BY <1>6 DEF CallDone
  <2>2. g = GroupIn(scenario, Source(First(e)))
    BY <1>2, <1>3, <1>6 DEF Calling
  <2>3. /\ e.floor[Source(First(e))] \in Nat /\ disk.store[Source(First(e))] \in Nat
        /\ e.floor[Source(First(e))] <= disk.store[Source(First(e))]
    <3>1. Group(Source(First(e))) = g
      BY <2>2 DEF Group, GroupIn
    <3> QED
      BY <1>0, <1>3, <1>6, <3>1, StoreReached
  <2>4. Readable(e, Source(First(e)))
    <3>1. Fresh(scenario, log, chosen, e)
      BY <1>1 DEF Seen
    <3>2. ~(disk.store[Source(First(e))] < e.floor[Source(First(e))])
      BY <2>3
    <3> QED
      BY <1>1, <1>6, <3>1, <3>2 DEF Readable, Fresh
  <2>5. Rests(c, e)
    BY <1>1, <1>2, <1>3, <2>1, <2>4, FoundRests
  <2> QED
    BY <1>0, <1>1, <2>1, <2>5, RestsReplicas
<1> QED
  BY <1>2, <1>4, <1>5, <1>6

LEMMA AnswerReplicas ==
    ASSUME AdapterInv, ReplicaInv, CommittedAtHome, NEW c \in Connections, Answer(c)
    PROVE  ReplicaInv'
<1>1. CASE CallFailed(c) \/ QueueFull(c) \/ CallTimesOut(c)
  <2>1. eng[c] # None /\ Fail(c, eng[c]) /\ Others
    BY <1>1 DEF CallFailed, QueueFull, CallTimesOut, Outside
  <2>2. /\ eng[c] \in Engine /\ Written(scenario, log, chosen, acked) /\ Typed
        /\ (eng[c].tx = None => eng[c].snap = None)
    BY <2>1, EngineKnown
  <2>3. bounds'.clients = bounds.clients
    <3>1. bounds \in Counters
      BY <2>2 DEF Typed
    <3> QED
      BY <1>1, <3>1 DEF CallFailed, QueueFull, CallTimesOut, Outside, Fault, Counters
  <2>4. Rests(c, eng[c]) /\ acked' = acked
    BY <2>1, <2>2, FailRests
  <2> QED
    BY <2>1, <2>2, <2>3, <2>4, RestsReplicas
<1> QED
  BY <1>1, DoneReplicas DEF Answer

(* A statement starts, a connection goes away. *)
LEMMA TodoSeen ==
    ASSUME NEW s, NEW l, NEW ch, NEW nd, NEW cl, NEW e \in Engine, Seen(s, l, ch, nd, cl, e),
           NEW p
    PROVE  /\ Seen(s, l, ch, nd, cl, [e EXCEPT !.todo = p])
           /\ [e EXCEPT !.todo = p].client = e.client
<1> DEFINE n == [e EXCEPT !.todo = p]
<1>1. /\ n.client = e.client /\ n.next = e.next /\ n.snap = e.snap /\ n.call = e.call
      /\ n.tx = e.tx /\ n.floor = e.floor /\ n.stale = e.stale
  BY DEF Engine
<1> HIDE DEF n
<1>2. Fresh(s, l, ch, n)
  BY <1>1, FreshCarried DEF Carried, Seen
<1>3. Waits(s, l, ch, nd, n)
  BY <1>1 DEF Waits, Seen
<1>4. Numbered(GroupsIn(s), l, cl, n)
  <2>1. Queued(n) <=> Queued(e)
    BY <1>1 DEF Queued
  <2> QED
    BY <1>1, <2>1 DEF Numbered, Seen
<1>5. Seen(s, l, ch, nd, cl, n)
  BY <1>2, <1>3, <1>4 DEF Seen
<1> QED
  BY <1>1, <1>5 DEF n

LEMMA TodoReplicas ==
    ASSUME AdapterInv, ReplicaInv, NEW c \in Connections,
           StartStatement(c) \/ Hangup(c) \/ HangupEnds(c)
    PROVE  ReplicaInv'
<1> DEFINE e == eng[c]
<1>0. e # None /\ Others /\ acked' = acked
  BY DEF StartStatement, Hangup, HangupEnds, Running, Outside
<1>1. /\ e \in Engine /\ Written(scenario, log, chosen, acked) /\ Typed
      /\ Seen(scenario, log, chosen, node, bounds.clients, e)
  BY <1>0, EngineKnown
<1>2. bounds'.clients = bounds.clients
  <2>1. bounds \in Counters
    BY <1>1 DEF Typed
  <2> QED
    BY <2>1 DEF StartStatement, Hangup, HangupEnds, Outside, Fault, Counters
<1>3. \/ \E p : eng' = [eng EXCEPT ![c] = [e EXCEPT !.todo = p]]
      \/ eng' = [eng EXCEPT ![c] = None]
  <2>1. CASE StartStatement(c)
    BY <2>1 DEF StartStatement
  <2>2. CASE Hangup(c)
    BY <2>2 DEF Hangup
  <2>3. CASE HangupEnds(c)
    BY <2>3 DEF HangupEnds
  <2> QED
    BY <2>1, <2>2, <2>3
<1>4. CASE eng' = [eng EXCEPT ![c] = None]
  BY <1>0, <1>1, <1>2, <1>4, OneEngine
<1>5. ASSUME NEW p, eng' = [eng EXCEPT ![c] = [e EXCEPT !.todo = p]]
      PROVE  ReplicaInv'
  <2> DEFINE n == [e EXCEPT !.todo = p]
  <2>1. Seen(scenario, log, chosen, node, bounds.clients, n) /\ n.client = e.client
    BY <1>1, TodoSeen
  <2>2. eng' = [eng EXCEPT ![c] = n]
    BY <1>5
  <2> HIDE DEF n
  <2> QED
    BY <1>0, <1>1, <1>2, <2>1, <2>2, OneEngine
<1> QED
  BY <1>3, <1>4, <1>5

LEMMA ConnectReplicas ==
    ASSUME AdapterInv, ReplicaInv, NEW c \in Connections, Connect(c)
    PROVE  ReplicaInv'
<1> DEFINE cl == bounds.clients
           id == cl + 1
           n == NewEngine(id)
<1>0. /\ Typed /\ Replicas /\ Engines /\ Stampings /\ Standing /\ scenario \in Scenarios
      /\ Groups = GroupsIn(scenario) /\ bounds \in Counters
  BY ReplicaParts DEF AdapterInv, ReplicaInv, Typed
<1>1. /\ eng[c] = None /\ eng' = [eng EXCEPT ![c] = n] /\ cl < MaxClients /\ up
      /\ UNCHANGED <<scenario, up, node, log, chosen, disk, acked>>
  BY DEF Connect
<1>2. cl \in Nat /\ bounds'.clients = id
  BY <1>0 DEF Connect, Counters
<1>3. MaxClients \in Nat /\ id <= MaxClients /\ id \in Nat
  <2>1. MaxClients \in Nat
    BY RaftKVAssumption
  <2> QED
    BY <1>1, <1>2, <2>1
<1>4. /\ n.client = id /\ n.next = 1 /\ n.tx = None /\ n.snap = None /\ n.floor = None
      /\ n.stale = {} /\ n.call = NoCall
  BY DEF NewEngine
<1> HIDE DEF n
<1>5. \A g \in Groups : log[g] \in Seq(Entry) /\ Identified(log[g], cl)
  BY <1>0, GroupFacts, ReplicaFacts
<1>6. Seen(scenario, log, chosen, node, id, n)
  <2>1. n.call.kind = "none" /\ n.call.stage = "none"
    BY <1>4 DEF NoCall
  <2>2. Waits(scenario, log, chosen, node, n)
    BY <2>1, WaitsFailed
  <2>3. Fresh(scenario, log, chosen, n)
    BY <1>4, <2>1 DEF Fresh
  <2>4. ASSUME NEW g \in Groups, NEW i \in 1 .. Len(log[g]) PROVE log[g][i].client # id
    <3>1. log[g][i].client \in Nat
      BY <1>5, EntryFields
    <3>2. log[g][i].client <= cl \/ log[g][i].client = MaxClients + i
      BY <1>5 DEF Identified
    <3> QED
      BY <1>2, <1>3, <3>1, <3>2
  <2>5. Numbered(GroupsIn(scenario), log, id, n)
    <3>1. id \in 1 .. id /\ ~Queued(n)
      BY <1>2, <2>1 DEF Queued
    <3> HIDE DEF id
    <3> QED
      BY <1>0, <1>4, <2>4, <3>1 DEF Numbered
  <2> QED
    BY <2>2, <2>3, <2>5 DEF Seen
<1>7. ASSUME NEW d \in Connections, eng[d] # None
      PROVE  Seen(scenario, log, chosen, node, id, eng[d]) /\ eng[d].client # id
  <2>1. Seen(scenario, log, chosen, node, cl, eng[d])
    BY <1>0, <1>7 DEF Engines
  <2>2. eng[d].client \in 1 .. cl
    BY <2>1 DEF Seen, Numbered
  <2>3. eng[d].client \in 1 .. id /\ eng[d].client # id
    BY <1>2, <2>2
  <2> QED
    BY <2>1, <2>3 DEF Seen, Numbered
<1>8. eng'[c] = n /\ \A d \in Connections : d # c => eng'[d] = eng[d]
  BY <1>0, <1>1 DEF Typed
<1>9. Engines'
  <2>1. ASSUME NEW a \in Connections
        PROVE  /\ eng'[a] = None \/ Seen(scenario, log, chosen, node, id, eng'[a])
               /\ \A b \in Connections :
                     eng'[a] # None /\ eng'[b] # None /\ eng'[a].client = eng'[b].client => a = b
    <3>1. CASE a = c
      BY <1>4, <1>6, <1>7, <1>8, <3>1
    <3>2. CASE a # c
      <4>1. \A b \in Connections :
               eng[a] # None /\ eng[b] # None /\ eng[a].client = eng[b].client => a = b
        BY <1>0 DEF Engines
      <4> QED
        BY <1>4, <1>7, <1>8, <3>2, <4>1
    <3> QED
      BY <3>1, <3>2
  <2>2. up'
    BY <1>1
  <2> QED
    BY <1>1, <1>2, <1>3, <2>1, <2>2 DEF Engines
<1>10. Replicas'
  <2>1. \A g \in Groups : Identified(log[g], id)
    <3>1. cl <= id
      BY <1>2
    <3> QED
      BY <1>2, <1>3, <1>5, <3>1, IdentifiedMore
  <2>2. Groups' = Groups
    BY <1>1 DEF Groups
  <2> QED
    BY <1>0, <1>1, <1>2, <2>1, <2>2 DEF Replicas
<1>11. Stampings' /\ Standing'
  BY <1>0, <1>1 DEF Stampings, Standing, Group
<1> QED
  BY <1>9, <1>10, <1>11 DEF ReplicaInv

-----------------------------------------------------------------------------
LEMMA ReplicaInit == Init => ReplicaInv
<1> SUFFICES ASSUME Init PROVE ReplicaInv
  OBVIOUS
<1>0. /\ scenario \in Scenarios /\ eng = [c \in Connections |-> None] /\ up
      /\ node = [g \in Groups |-> [NewNode EXCEPT !.leader = TRUE]]
      /\ log = [g \in Groups |-> << >>] /\ chosen = [g \in Groups |-> 0]
      /\ disk.store = [k \in Keys |-> 0]
      /\ disk.results = [g \in Groups |-> [i \in ClientIds |-> 0]]
      /\ disk.boundary = [g \in Groups |-> 0] /\ disk.reached = [g \in Groups |-> 0]
      /\ acked = [k \in Keys |-> 0] /\ bounds.clients = 0
  BY DEF Init
<1>1. MaxLog \in Nat /\ MaxClients \in Nat
  BY RaftKVAssumption
<1>2. ASSUME NEW g \in Groups
      PROVE  /\ Identified(log[g], bounds.clients)
             /\ Replayed(log[g], chosen[g], node[g], disk.reached[g], disk.boundary[g],
                         disk.results[g])
  <2>1. /\ log[g] = << >> /\ chosen[g] = 0 /\ disk.reached[g] = 0 /\ disk.boundary[g] = 0
        /\ Len(log[g]) = 0
    BY <1>0
  <2>2. node[g].applied = 0 /\ ~node[g].dirty
    BY <1>0 DEF NewNode
  <2>3. \A i \in ClientIds : disk.results[g][i] = 0
    BY <1>0
  <2>4. \A i \in 1 .. 0 : FALSE
    OBVIOUS
  <2>5. Identified(log[g], bounds.clients)
    BY <1>1, <2>1, <2>4 DEF Identified
  <2> QED
    BY <2>1, <2>2, <2>3, <2>4, <2>5 DEF Replayed
<1>3. Replicas
  BY <1>2 DEF Replicas
<1>4. Engines
  BY <1>0, <1>1 DEF Engines
<1>5. Stampings
  BY <1>0 DEF Stampings, Written
<1>6. Standing
  <2>1. ASSUME NEW k \in Keys
        PROVE  Stands(log[Group(k)], k, disk.reached[Group(k)], disk.store[k])
    <3>1. Group(k) \in Groups
      BY <1>0, Deployment DEF Group, GroupIn, Groups, GroupsIn
    <3>2. disk.reached[Group(k)] = 0 /\ disk.store[k] = 0
      BY <1>0, <3>1
    <3> QED
      BY <3>2 DEF Stands
  <2> QED
    BY <2>1 DEF Standing
<1> QED
  BY <1>3, <1>4, <1>5, <1>6 DEF ReplicaInv

LEMMA ScenarioStays == [Next]_vars => scenario' = scenario
<1> SUFFICES ASSUME [Next]_vars PROVE scenario' = scenario
  OBVIOUS
<1>1. ASSUME NEW c \in Connections,
             Connect(c) \/ Statement(c) \/ Answer(c) \/ Hangup(c) \/ HangupEnds(c)
               \/ TakeCall(c) \/ BarrierPasses(c)
      PROVE  scenario' = scenario
  <2>1. CASE Statement(c)
    BY <2>1 DEF Statement, StartStatement, OpSlot, OpGet, OpExists, OpScan, OpWrite, OpBegin,
                OpCommit, OpRollback, Outside, Others
  <2>2. CASE Answer(c)
    BY <2>2 DEF Answer, CallDone, CallFailed, QueueFull, CallTimesOut, Outside, Others
  <2>3. CASE Connect(c) \/ Hangup(c) \/ HangupEnds(c) \/ TakeCall(c) \/ BarrierPasses(c)
    BY <2>3 DEF Connect, Hangup, HangupEnds, TakeCall, BarrierPasses, Outside, Others
  <2> QED
    BY <1>1, <2>1, <2>2, <2>3
<1>2. ASSUME NEW g \in Groups, GroupStep(g) PROVE scenario' = scenario
  BY <1>2 DEF GroupStep, Apply, ApplySkips, ApplyFails, ApplyWrites, ApplySaves, Commit,
              LoseLeadership, RemoteWrite, GainLeadership, Compact
<1>3. CASE Crash \/ Stop \/ Start
  BY <1>3 DEF Crash, Stop, Down, Start
<1>4. CASE UNCHANGED vars
  BY <1>4 DEF vars
<1> QED
  BY <1>1, <1>2, <1>3, <1>4 DEF Next

LEMMA NextLater ==
    ASSUME AdapterInv, [Next]_vars
    PROVE  Later(Groups, log, chosen, log', chosen')
<1>0. /\ Typed /\ log \in [Groups -> Seq(Entry)] /\ chosen \in [Groups -> Nat]
      /\ \A g \in Groups : /\ log[g] \in Seq(Entry) /\ chosen[g] \in Nat
                           /\ Len(log[g]) \in Nat /\ chosen[g] <= Len(log[g])
  BY GroupFacts DEF AdapterInv, Typed
<1>1. CASE UNCHANGED <<log, chosen>>
  BY <1>0, <1>1, Unchanging
<1>2. ASSUME NEW g \in Groups, NEW x, log' = [log EXCEPT ![g] = Append(log[g], x)],
             chosen' = chosen
      PROVE  Later(Groups, log, chosen, log', chosen')
  <2>1. ASSUME NEW h \in Groups, NEW i \in 1 .. chosen[h]
        PROVE  log'[h][i] = log[h][i]
    <3>1. i \in 1 .. Len(log[h])
      BY <1>0
    <3>2. CASE h = g
      BY <1>0, <1>2, <3>1, <3>2
    <3>3. CASE h # g
      BY <1>0, <1>2, <3>3
    <3> QED
      BY <3>2, <3>3
  <2> QED
    BY <1>0, <1>2, <2>1 DEF Later
<1>3. ASSUME NEW g \in Groups, NEW m, log' = [log EXCEPT ![g] = m],
             chosen' = [chosen EXCEPT ![g] = @ + 1],
             \A i \in 1 .. chosen[g] : m[i] = log[g][i]
      PROVE  Later(Groups, log, chosen, log', chosen')
  <2>1. ASSUME NEW h \in Groups
        PROVE  /\ chosen'[h] = IF h = g THEN chosen[h] + 1 ELSE chosen[h]
               /\ log'[h] = IF h = g THEN m ELSE log[h]
    BY <1>0, <1>3
  <2> QED
    BY <1>0, <1>3, <2>1 DEF Later
<1>4. ASSUME NEW c \in Connections, TakeCall(c)
      PROVE  Later(Groups, log, chosen, log', chosen')
  <2>1. eng[c] # None /\ eng[c].call.stage = "queued" /\ chosen' = chosen
    BY <1>4 DEF TakeCall
  <2>2. eng[c].call.group \in Groups
    <3>1. Local(scenario, eng[c]) /\ eng[c] \in Engine
      BY <2>1, EngineIs
    <3> QED
      BY <2>1, <3>1, CallIs, EngineIs DEF AdapterInv, Typed
  <2> QED
    BY <1>1, <1>2, <1>4, <2>1, <2>2 DEF TakeCall
<1>5. ASSUME NEW g \in Groups, Commit(g)
      PROVE  Later(Groups, log, chosen, log', chosen')
  <2>1. log' = [log EXCEPT ![g] = log[g]] /\ chosen' = [chosen EXCEPT ![g] = @ + 1]
    BY <1>0, <1>5 DEF Commit
  <2> QED
    BY <1>3, <2>1
<1>6. ASSUME NEW g \in Groups, RemoteWrite(g)
      PROVE  Later(Groups, log, chosen, log', chosen')
  <2> DEFINE old == SubSeq(log[g], 1, chosen[g])
             x == [client |-> MaxClients + (chosen[g] + 1), request |-> 1,
                   keys |-> {k \in Keys : Group(k) = g}, fresh |-> {}, adrift |-> FALSE]
  <2>1. /\ log' = [log EXCEPT ![g] = Append(old, x)]
        /\ chosen' = [chosen EXCEPT ![g] = @ + 1]
    BY <1>6 DEF RemoteWrite
  <2>2. /\ old \in Seq(Entry) /\ Len(old) = chosen[g]
        /\ \A i \in 1 .. chosen[g] : old[i] = log[g][i]
    BY <1>0, PrefixParts
  <2> HIDE DEF old, x
  <2>3. \A i \in 1 .. chosen[g] : Append(old, x)[i] = log[g][i]
    BY <1>0, <2>2
  <2> QED
    BY <1>3, <2>1, <2>3
<1>7. ASSUME NEW c \in Connections,
             Connect(c) \/ Statement(c) \/ Answer(c) \/ Hangup(c) \/ HangupEnds(c)
               \/ BarrierPasses(c)
      PROVE  UNCHANGED <<log, chosen>>
  <2>1. CASE Statement(c)
    BY <2>1 DEF Statement, StartStatement, OpSlot, OpGet, OpExists, OpScan, OpWrite, OpBegin,
                OpCommit, OpRollback, Outside, Others
  <2>2. CASE Answer(c)
    BY <2>2 DEF Answer, CallDone, CallFailed, QueueFull, CallTimesOut, Outside, Others
  <2>3. CASE Connect(c) \/ Hangup(c) \/ HangupEnds(c) \/ BarrierPasses(c)
    BY <2>3 DEF Connect, Hangup, HangupEnds, BarrierPasses, Outside, Others
  <2> QED
    BY <1>7, <2>1, <2>2, <2>3
<1>8. ASSUME NEW g \in Groups, GroupStep(g), ~Commit(g), ~RemoteWrite(g)
      PROVE  UNCHANGED <<log, chosen>>
  BY <1>8 DEF GroupStep, Apply, ApplySkips, ApplyFails, ApplyWrites, ApplySaves,
              LoseLeadership, GainLeadership, Compact
<1>9. CASE Crash \/ Stop \/ Start \/ UNCHANGED vars
  <2>1. UNCHANGED <<log, chosen>>
    BY <1>9 DEF Crash, Stop, Down, Start, vars
  <2> QED
    BY <1>1, <2>1
<1> QED
  BY <1>1, <1>4, <1>5, <1>6, <1>7, <1>8, <1>9 DEF Next

LEMMA ReplicaNext ==
    ASSUME AdapterInv, ReplicaInv, CommittedAtHome, [Next]_vars
    PROVE  ReplicaInv'
<1>1. ASSUME NEW c \in Connections,
             Connect(c) \/ Statement(c) \/ Answer(c) \/ Hangup(c) \/ HangupEnds(c)
               \/ TakeCall(c) \/ BarrierPasses(c)
      PROVE  ReplicaInv'
  <2>1. CASE Statement(c)
    BY <2>1, TodoReplicas, SlotReplicas, ScanReplicas, WriteReplicas, BeginReplicas,
       CommitOpReplicas DEF Statement
  <2> QED
    BY <1>1, <2>1, ConnectReplicas, AnswerReplicas, TodoReplicas, TakeReplicas,
       BarrierReplicas
<1>2. ASSUME NEW g \in Groups, GroupStep(g) PROVE ReplicaInv'
  BY <1>2, GroupReplicas
<1>3. CASE Crash \/ Stop \/ Start
  BY <1>3, RestartReplicas DEF Crash, Stop
<1>4. CASE UNCHANGED vars
  <2>1. UNCHANGED <<scenario, up, eng, node, log, chosen, disk, acked, bounds>>
    BY <1>4 DEF vars
  <2>2. Engines'
    BY <2>1 DEF ReplicaInv, Engines
  <2> QED
    BY <2>1, <2>2, OnlyEngines
<1> QED
  BY <1>1, <1>2, <1>3, <1>4 DEF Next

(* What is committed stays: a deployment that is at home has always been.   *)
LEMMA HomeBefore ==
    ASSUME AdapterInv, [Next]_vars, CommittedAtHome'
    PROVE  CommittedAtHome
<1>0. Typed /\ Groups' = Groups /\ \A k : Group(k)' = Group(k)
  BY ScenarioStays DEF AdapterInv, Groups, Group
<1>1. Later(Groups, log, chosen, log', chosen')
  BY NextLater
<1> SUFFICES ASSUME NEW g \in Groups, NEW i \in 1 .. chosen[g], NEW k \in log[g][i].keys
             PROVE  Group(k) = g
  BY DEF CommittedAtHome
<1>2. i \in 1 .. chosen'[g] /\ log'[g][i] = log[g][i]
  BY <1>1 DEF Later
<1> QED
  BY <1>0, <1>2 DEF CommittedAtHome

LEMMA ReplicaInvariance == Spec => [](CommittedAtHome => ReplicaInv)
<1> DEFINE Inv == AdapterInv /\ (CommittedAtHome => ReplicaInv)
<1>1. Init => Inv
  BY InitInv, ReplicaInit
<1>2. Inv /\ [Next]_vars => Inv'
  <2> SUFFICES ASSUME Inv, [Next]_vars PROVE Inv'
    OBVIOUS
  <2>1. AdapterInv'
    BY NextInv
  <2>2. ASSUME CommittedAtHome' PROVE ReplicaInv'
    BY <2>2, HomeBefore, ReplicaNext
  <2> QED
    BY <2>1, <2>2
<1> QED
  BY <1>1, <1>2, PTL DEF Spec

(* Whatever crashes, restarts and replays happen, also between the write of *)
(* a batch and that of its result, each key holds what the last entry that  *)
(* was ever applied to it wrote (KVStateMachine::apply, RaftNode's replay   *)
(* from the boundary of the log): no replay takes the store back, and no    *)
(* entry is left out, as long as the logs write disjoint keys.              *)
THEOREM StoreFollowsLogTheorem == Spec => []StoreFollowsLog
<1>1. AdapterInv /\ (CommittedAtHome => ReplicaInv) => StoreFollowsLog
  <2> SUFFICES ASSUME AdapterInv, ReplicaInv, NEW k \in Keys
               PROVE  disk.store[k] = LastWriter(Group(k), k, disk.reached[Group(k)])
    BY DEF StoreFollowsLog
  <2>1. Group(k) \in Groups /\ disk.store \in Stamps
    BY ReplicaParts
  <2>2. disk.store[k] \in Nat /\ disk.reached[Group(k)] \in Nat
    BY <2>1, ReplicaFacts DEF Stamps, ReplicaInv
  <2>3. Stands(log[Group(k)], k, disk.reached[Group(k)], disk.store[k])
    BY DEF ReplicaInv, Standing
  <2> QED
    BY <2>2, <2>3, StandsIsLast
<1> QED
  BY <1>1, Invariance, ReplicaInvariance, PTL

(* With one group, or outside of a snapshot, no read returns less than had  *)
(* been acknowledged when its barrier or its transaction began, by this     *)
(* leader or by another one, whatever leaderships were lost in between, as  *)
(* long as the logs write disjoint keys (RaftKVStore::ensure_readable,      *)
(* begin_transaction).                                                      *)
THEOREM ReadsSeeAcknowledgedTheorem == Spec => []ReadsSeeAcknowledged
<1>1. (CommittedAtHome => ReplicaInv) => ReadsSeeAcknowledged
  BY DEF ReplicaInv, Engines, Seen, Fresh, Bearable, ReadsSeeAcknowledged, SingleGroup
<1> QED
  BY <1>1, ReplicaInvariance, PTL
=============================================================================
