----------------------------- MODULE RaftKVProofs -----------------------------
(* Theorems about RaftKV, for every deployment, every set of connections    *)
(* and keys and every bound: the routing of ranges is exact, a group has    *)
(* one writer at a time, a transaction that has written used one group, and *)
(* what is proposed goes to the group that has the keys, unless the         *)
(* transaction was adrift.                                                  *)
EXTENDS RaftKV, FiniteSetTheorems, TLAPS

-----------------------------------------------------------------------------
(* Routing.  RaftKVEngine sends a whole scan or range removal to the one    *)
(* group that range_group() names.                                          *)
LEMMA ValidFields ==
    ASSUME NEW ranges \in Router, Valid(ranges), NEW i \in DOMAIN ranges
    PROVE  /\ i \in 1 .. Len(ranges) /\ i \in Int /\ Len(ranges) \in Nat
           /\ ranges[i].start \in Int /\ ranges[i].end \in Int
           /\ ranges[i].group \in Int /\ ranges[i].group > 0
           /\ ranges[i].start < ranges[i].end
           /\ ~IsSystemKey(ranges[i].start)
           /\ ~(ranges[i].start < SystemLow /\ SystemLow < ranges[i].end)
           /\ i > 1 => ranges[i - 1].end <= ranges[i].start
<1>1. i \in 1 .. Len(ranges) /\ Len(ranges) \in Nat
  BY DEF Router
<1>2. ranges[i] \in Shard
  BY <1>1 DEF Router
<1>3. ranges[i].group \in 1 .. Len(ranges)
  <2>1. ranges[i].group \in {ranges[k].group : k \in DOMAIN ranges}
    OBVIOUS
  <2>2. {ranges[k].group : k \in DOMAIN ranges} = 1 .. Len(ranges)
    BY Zenon DEF Valid
  <2> QED
    BY <2>1, <2>2, Zenon
<1> QED
  BY <1>1, <1>2, <1>3 DEF Shard, Valid

(* No two ranges overlap. *)
LEMMA RangesApart ==
    ASSUME NEW ranges \in Router, Valid(ranges), Ordered(ranges),
           NEW i \in DOMAIN ranges, NEW j \in DOMAIN ranges, i < j
    PROVE  ranges[i].end <= ranges[j].start
<1>1. i + 1 \in DOMAIN ranges
  BY ValidFields DEF Router
<1>2. ranges[i].end <= ranges[i + 1].start
  BY <1>1, ValidFields
<1>3. ranges[i + 1].start <= ranges[j].start
  <2>1. CASE i + 1 = j
    BY <2>1, ValidFields
  <2>2. CASE i + 1 < j
    BY <1>1, <2>2 DEF Ordered
  <2> QED
    BY <2>1, <2>2, ValidFields
<1> QED
  BY <1>1, <1>2, <1>3, ValidFields

(* group_for() of a key in a shard is the group of the shard. *)
LEMMA KeyOfShard ==
    ASSUME NEW ranges \in Router, Valid(ranges), Ordered(ranges),
           NEW key \in Int, ~IsSystemKey(key),
           NEW i \in DOMAIN ranges,
           ranges[i].start <= key, key < ranges[i].end
    PROVE  GroupFor(ranges, key) = ranges[i].group
<1> DEFINE hits == {h \in DOMAIN ranges :
                       /\ \A j \in 1 .. h : ranges[j].start <= key
                       /\ key < ranges[h].end}
<1>1. \A j \in 1 .. i : ranges[j].start <= key
  <2> SUFFICES ASSUME NEW j \in 1 .. i PROVE ranges[j].start <= key
    OBVIOUS
  <2>1. j \in DOMAIN ranges /\ j \in Int
    BY ValidFields DEF Router
  <2>2. j = i \/ ranges[j].start <= ranges[i].start
    BY <2>1, ValidFields DEF Ordered
  <2> QED
    BY <2>1, <2>2, ValidFields
<1>2. i \in hits
  BY <1>1
<1>3. ASSUME NEW h \in hits PROVE h = i
  <2>1. h \in DOMAIN ranges /\ ranges[h].start <= key /\ key < ranges[h].end
    BY <1>3, ValidFields
  <2>2. ~(h < i)
    BY <2>1, RangesApart, ValidFields
  <2>3. ~(i < h)
    BY <2>1, RangesApart, ValidFields
  <2> QED
    BY <2>1, <2>2, <2>3, ValidFields
<1>4. hits = {i}
  BY <1>2, <1>3
<1>5. GroupFor(ranges, key) =
        ranges[CHOOSE h \in hits : \A j \in hits : h <= j].group
  BY <1>4 DEF GroupFor
<1>6. (CHOOSE h \in hits : \A j \in hits : h <= j) = i
  <2> HIDE DEF hits
  <2> QED
    BY <1>4, ValidFields
<1> QED
  BY <1>5, <1>6

(* ... and of any other key the default group. *)
LEMMA KeyOfNoShard ==
    ASSUME NEW ranges \in Router, Valid(ranges), NEW key \in Int,
           \/ IsSystemKey(key)
           \/ \A i \in DOMAIN ranges :
                 ~(ranges[i].start <= key /\ key < ranges[i].end)
    PROVE  GroupFor(ranges, key) = 0
<1> DEFINE hits == {h \in DOMAIN ranges :
                       /\ \A j \in 1 .. h : ranges[j].start <= key
                       /\ key < ranges[h].end}
<1>1. IsSystemKey(key) \/ hits = {}
  BY ValidFields
<1> QED
  BY <1>1 DEF GroupFor

(* range_group(): when it names a group, every key of [start, end) is of    *)
(* that group.                                                              *)
THEOREM RangeGroupExact ==
    ASSUME NEW ranges \in Router, Valid(ranges), Ordered(ranges),
           NEW start \in Int, NEW end \in Int, NEW key \in Int,
           start <= key, key < end,
           RangeGroup(ranges, start, end) # CrossesGroups
    PROVE  GroupFor(ranges, key) = RangeGroup(ranges, start, end)
<1> DEFINE first == GroupFor(ranges, start)
<1>1. RangeGroup(ranges, start, end) = first
  BY DEF RangeGroup
<1>2. \A b \in Boundaries(ranges) :
         start < b /\ b < end => GroupFor(ranges, b) = first
  BY DEF RangeGroup
<1>3. /\ SystemLow \in Boundaries(ranges)
      /\ \A i \in DOMAIN ranges : /\ ranges[i].start \in Boundaries(ranges)
                                  /\ ranges[i].end \in Boundaries(ranges)
  BY DEF Boundaries
<1>4. CASE IsSystemKey(key)
  <2>1. GroupFor(ranges, key) = 0
    BY <1>4, KeyOfNoShard
  <2>2. CASE start < SystemLow
    <3>1. IsSystemKey(SystemLow) /\ SystemLow \in Int /\ SystemLow < end
      BY <1>4, SystemAssumption DEF IsSystemKey
    <3>2. GroupFor(ranges, SystemLow) = 0
      BY <3>1, KeyOfNoShard
    <3> QED
      BY <1>1, <1>2, <1>3, <2>1, <2>2, <3>1, <3>2
  <2>3. CASE SystemLow <= start
    <3>1. IsSystemKey(start)
      BY <1>4, <2>3, SystemAssumption DEF IsSystemKey
    <3> QED
      BY <1>1, <2>1, <3>1, KeyOfNoShard
  <2> QED
    BY <2>2, <2>3, SystemAssumption
<1>5. ASSUME ~IsSystemKey(key), NEW i \in DOMAIN ranges,
             ranges[i].start <= key, key < ranges[i].end
      PROVE  GroupFor(ranges, key) = first
  <2>1. GroupFor(ranges, key) = ranges[i].group
    BY <1>5, KeyOfShard
  <2>2. CASE start < ranges[i].start
    <3>1. GroupFor(ranges, ranges[i].start) = ranges[i].group
      BY ValidFields, KeyOfShard
    <3>2. ranges[i].start < end
      BY <1>5, ValidFields
    <3> QED
      BY <1>2, <1>3, <2>1, <2>2, <3>1, <3>2
  <2>3. CASE ranges[i].start <= start
    <3>1. start < ranges[i].end
      BY <1>5, ValidFields
    <3>2. ~IsSystemKey(start)
      BY <2>3, <3>1, ValidFields, SystemAssumption DEF IsSystemKey
    <3> QED
      BY <2>1, <2>3, <3>1, <3>2, KeyOfShard
  <2> QED
    BY <2>2, <2>3, ValidFields
<1>6. ASSUME ~IsSystemKey(key),
             \A i \in DOMAIN ranges :
                ~(ranges[i].start <= key /\ key < ranges[i].end)
      PROVE  GroupFor(ranges, key) = first
  <2>1. GroupFor(ranges, key) = 0
    BY <1>6, KeyOfNoShard
  <2>2. CASE \/ IsSystemKey(start)
             \/ \A i \in DOMAIN ranges :
                   ~(ranges[i].start <= start /\ start < ranges[i].end)
    BY <2>1, <2>2, KeyOfNoShard
  <2>3. CASE /\ ~IsSystemKey(start)
             /\ \E i \in DOMAIN ranges :
                   ranges[i].start <= start /\ start < ranges[i].end
    <3>1. PICK i \in DOMAIN ranges :
                  ranges[i].start <= start /\ start < ranges[i].end
      BY <2>3
    <3>2. first = ranges[i].group
      BY <2>3, <3>1, KeyOfShard
    <3>3. start < ranges[i].end /\ ranges[i].end < end
      BY <1>6, <3>1, ValidFields
    <3>4. GroupFor(ranges, ranges[i].end) = ranges[i].group
      BY <1>2, <1>3, <3>2, <3>3
    <3>5. GroupFor(ranges, ranges[i].end) # ranges[i].group
      <4>1. CASE \/ IsSystemKey(ranges[i].end)
                 \/ \A j \in DOMAIN ranges :
                       ~(/\ ranges[j].start <= ranges[i].end
                         /\ ranges[i].end < ranges[j].end)
        BY <4>1, KeyOfNoShard, ValidFields
      <4>2. ASSUME ~IsSystemKey(ranges[i].end), NEW j \in DOMAIN ranges,
                   ranges[j].start <= ranges[i].end,
                   ranges[i].end < ranges[j].end
            PROVE  GroupFor(ranges, ranges[i].end) # ranges[i].group
        <5>1. GroupFor(ranges, ranges[i].end) = ranges[j].group
          BY <4>2, KeyOfShard, ValidFields
        <5>2. i # j
          BY <4>2, ValidFields
        <5> QED
          BY <5>1, <5>2 DEF Valid
      <4> QED
        BY <4>1, <4>2
    <3> QED
      BY <3>4, <3>5
  <2> QED
    BY <2>2, <2>3
<1> QED
  BY <1>1, <1>4, <1>5, <1>6

(* ... and it refuses a range only when two of its keys are of different    *)
(* groups.                                                                  *)
THEOREM CrossingIsReal ==
    ASSUME NEW ranges \in Router, Valid(ranges), Ordered(ranges),
           NEW start \in Int, NEW end \in Int,
           RangeGroup(ranges, start, end) = CrossesGroups
    PROVE  \E key \in Int : /\ start <= key /\ key < end
                            /\ GroupFor(ranges, key) # GroupFor(ranges, start)
<1>1. GroupFor(ranges, start) # CrossesGroups
  <2>1. CASE \/ IsSystemKey(start)
             \/ \A i \in DOMAIN ranges :
                   ~(ranges[i].start <= start /\ start < ranges[i].end)
    BY <2>1, KeyOfNoShard DEF CrossesGroups
  <2>2. ASSUME ~IsSystemKey(start), NEW i \in DOMAIN ranges,
               ranges[i].start <= start, start < ranges[i].end
        PROVE  GroupFor(ranges, start) # CrossesGroups
    BY <2>2, KeyOfShard, ValidFields DEF CrossesGroups
  <2> QED
    BY <2>1, <2>2
<1>2. PICK b \in Boundaries(ranges) :
              /\ start < b /\ b < end
              /\ GroupFor(ranges, b) # GroupFor(ranges, start)
  BY <1>1 DEF RangeGroup
<1>3. b \in Int
  BY SystemAssumption, ValidFields DEF Boundaries
<1> QED
  BY <1>2, <1>3
-----------------------------------------------------------------------------
(* The types of the variables. *)
Ops == {"slot", "auto", "plan", "exists", "scan", "put", "write", "touch", "clear", "get",
        "commit", "fetch", "look", "begin", "end", "rollback", "close"}
Reads == {"plan", "exists", "scan", "get", "fetch", "look"}
Inside == {"plan", "exists", "scan", "get", "put", "write", "touch", "clear", "commit"}
Operation == [op : Ops, key : Keys]
RaftCall ==
    [kind : {"none", "read", "propose"}, group : Int,
     stage : {"none", "queued", "pending", "done", "failed"}, index : Nat]
Stamps == [Keys -> Nat]
Engine ==
    [client : Nat, next : Nat \ {0}, tx : {None} \cup SUBSET Keys, fresh : SUBSET Keys,
     slot : BOOLEAN, wgroup : {None} \cup Int, bound : {None} \cup Int,
     crossed : BOOLEAN, wrote : BOOLEAN, proven : SUBSET Int,
     snap : {None} \cup Stamps, explicit : BOOLEAN, failed : BOOLEAN,
     todo : Seq(Operation), call : RaftCall, touched : SUBSET Int, adrift : BOOLEAN,
     floor : {None} \cup Stamps, stale : SUBSET {"snapshot", "store"}]
Slot == [held : BOOLEAN, owner : {None} \cup Connections]
Entry == [client : Nat, request : Nat, keys : SUBSET Keys, fresh : SUBSET Keys,
          adrift : BOOLEAN]
RaftNode == [leader : BOOLEAN, applied : Nat, dirty : BOOLEAN]
Counters == [clients : Nat, faults : Nat, statements : [Connections -> Nat]]
Stored ==
    [store : Stamps, results : [Groups -> [ClientIds -> Nat]],
     boundary : [Groups -> Nat], reached : [Groups -> Nat]]

Typed ==
    /\ scenario \in Scenarios
    /\ DOMAIN eng = Connections
    /\ slots \in [Groups -> Slot]
    /\ node \in [Groups -> RaftNode]
    /\ log \in [Groups -> Seq(Entry)]
    /\ chosen \in [Groups -> Nat]
    /\ \A g \in Groups : /\ chosen[g] <= Len(log[g])
                         /\ node[g].dirty => node[g].applied < chosen[g]
    /\ disk \in Stored
    /\ acked \in Stamps
    /\ bounds \in Counters

-----------------------------------------------------------------------------
(* The invariant of one engine, in scenario s. *)
GroupsIn(s) == 0 .. GroupCount(s.router) - 1
GroupIn(s, key) == GroupFor(s.router, key)

(* What is left of a statement: p follows o, and o is the last call.  x is  *)
(* whether the client sent BEGIN.                                           *)
Opens(key, p) ==
    \/ p.op = "plan" /\ p.key = key
    \/ p.op \in {"write", "get"} /\ p.key = System /\ key = System
    \/ p.op = "clear" /\ key = System
Follows(o, p, x) ==
    \/ o.op = "slot" /\ ~x /\ p = Op("auto", o.key)
    \/ o.op = "slot" /\ x /\ Opens(o.key, p)
    \/ o.op = "auto" /\ ~x /\ Opens(o.key, p)
    \/ o.op = "plan" /\ p.op \in {"exists", "scan"} /\ p.key = o.key
    \/ o.op = "exists" /\ p = Op("put", o.key)
    \/ o.op = "scan" /\ p = Op("write", o.key)
    \/ o.op \in {"put", "write"} /\ p = Op("touch", System)
    \/ o.op = "clear" /\ p = Op("write", System)
    \/ o.op \in {"plan", "scan", "touch", "write", "get"} /\ ~x /\ p.op = "commit"
Last(o, x) ==
    \/ o.op \in {"fetch", "look", "close"}
    \/ x /\ o.op \in {"plan", "scan", "touch", "write", "get", "end", "rollback"}
    \/ ~x /\ o.op \in {"commit", "begin"}
Possible(s, o) ==
    o.op \in {"exists", "scan", "fetch", "look"} => o.key \in Tables
Chain(s, todo, x) ==
    /\ todo # << >> => Last(todo[Len(todo)], x)
    /\ \A i \in 1 .. Len(todo) - 1 : Follows(todo[i], todo[i + 1], x)
    /\ \A i \in 1 .. Len(todo) : Possible(s, todo[i])

(* A statement begins and ends with a transaction only if the client began  *)
(* it; its calls to the engine in between find one.                         *)
AtRest(e) == (e.tx # None <=> e.explicit) /\ (e.slot => e.tx # None)
PhaseAt(e, o) ==
    /\ e.failed => o.op \in {"rollback", "close"}
    /\ IF o.op = "auto" THEN e.tx = None
       ELSE IF o.op \in Inside THEN e.tx # None
       ELSE AtRest(e)
Phase(e) == IF e.todo = << >> THEN AtRest(e) ELSE PhaseAt(e, First(e))

(* The transaction: it writes under a slot, in the one group it is bound    *)
(* to, and not after it has read another.                                   *)
TxOk(s, e) ==
    /\ e.slot => e.wgroup \in GroupsIn(s)
    /\ e.explicit => e.tx # None
    /\ e.failed => e.explicit
    /\ e.tx = None => e.snap = None
    /\ e.wrote <=> (e.tx # None /\ e.tx # {})
    /\ e.wrote => e.slot /\ ~e.crossed /\ e.touched = {e.bound}
    /\ e.bound # None => e.bound \in GroupsIn(s)
    /\ e.bound = None => e.touched = {} /\ ~e.wrote /\ ~e.crossed
    /\ ~e.crossed => e.touched \subseteq {e.bound}

(* The call under way belongs to the operation.  A read of data has passed  *)
(* check_group().                                                           *)
Passed(e, g) == e.bound # None /\ (e.bound = g \/ (e.crossed /\ ~e.wrote))
Calling(s, e) ==
    e.call # NoCall =>
      /\ e.todo # << >> /\ e.call.stage # "none" /\ e.call.group \in GroupsIn(s)
      /\ \/ /\ e.call.kind = "read" /\ First(e).op \in Reads
            /\ e.call.group = GroupIn(s, Source(First(e)))
            /\ e.tx # None /\ ~IsSystemKey(Source(First(e))) => Passed(e, e.call.group)
         \/ /\ e.call.kind = "read" /\ First(e).op \in {"begin", "auto"}
            /\ GroupCount(s.router) = 1 /\ e.call.group = 0
         \/ /\ e.call.kind = "propose" /\ First(e).op \in {"end", "commit"}
            /\ e.wrote /\ e.call.group = e.wgroup

(* The group of the slot is the group of the writes: of those there are, or *)
(* of those that are about to follow.  The exceptions cannot commit, or the *)
(* transaction is adrift.                                                   *)
AtHome(s, e) ==
    e.slot =>
      \/ e.failed \/ e.adrift
      \/ /\ e.tx # None /\ e.bound = e.wgroup
         /\ \A k \in e.tx : GroupIn(s, k) = e.wgroup
      \/ e.crossed /\ e.tx = {}
HomeAt(s, e, o) ==
    \/ AtHome(s, e)
    \/ /\ e.tx \in {None, {}} /\ o.op \in {"auto", "plan", "exists", "scan", "write"}
       /\ GroupIn(s, o.key) = e.wgroup
    \/ e.tx = {} /\ o.op = "clear" /\ GroupIn(s, System) = e.wgroup
    \/ e.tx = {} /\ o.op \in {"get", "commit"}
    \/ /\ e.tx # None /\ e.bound \notin {None, GroupIn(s, System)}
       /\ o.op = "write" /\ o.key = System
Home(s, e) == IF e.todo = << >> THEN AtHome(s, e) ELSE HomeAt(s, e, First(e))

(* The first operation may be carried out: it is one that binds nothing, or *)
(* the transaction is at home.                                              *)
Ready(s, e) ==
    AtHome(s, e) \/ (First(e).op \in {"plan", "get"} /\ HomeAt(s, e, First(e)))

Local(s, e) ==
    /\ e \in Engine
    /\ TxOk(s, e)
    /\ Chain(s, e.todo, e.explicit)
    /\ Phase(e)
    /\ Calling(s, e)
    /\ Home(s, e)

(* Who has the slot of a group, and is not giving it back on the loop       *)
(* thread, has it alone.  The owner may have been wiped out by the          *)
(* destructor of the connection that had the slot before.                   *)
Holds(e, g) ==
    /\ e # None /\ (e.todo # << >> => First(e).op # "close")
    /\ e.slot /\ e.wgroup = g
SlotsKept ==
    \A g \in Groups, c \in Connections : Holds(eng[c], g) =>
        /\ slots[g].held /\ slots[g].owner \in {c, None}
        /\ \A d \in Connections : Holds(eng[d], g) => d = c

Locals == \A c \in Connections : eng[c] = None \/ Local(scenario, eng[c])

AdapterInv == Typed /\ Locals /\ SlotsKept /\ HomeUnlessAdrift

-----------------------------------------------------------------------------
(* The groups of a deployment. *)
LEMMA GroupCountIs ==
    ASSUME NEW ranges \in Router, Valid(ranges)
    PROVE  GroupCount(ranges) = Len(ranges) + 1
<1> DEFINE n == Len(ranges) + 1
           P(m) == /\ \A i \in DOMAIN ranges : ranges[i].group < m
                   /\ m = 1 \/ \E i \in DOMAIN ranges : ranges[i].group = m - 1
<1>1. Len(ranges) \in Nat /\ DOMAIN ranges = 1 .. Len(ranges)
  BY DEF Router
<1>2. {ranges[k].group : k \in DOMAIN ranges} = 1 .. Len(ranges)
  BY Zenon DEF Valid
<1>3. \A i \in DOMAIN ranges : ranges[i].group \in 1 .. Len(ranges)
  BY <1>2
<1>4. \A h \in 1 .. Len(ranges) : \E i \in DOMAIN ranges : ranges[i].group = h
  BY <1>2
<1>5. P(n)
  <2>1. CASE Len(ranges) = 0
    BY <1>1, <1>3, <2>1
  <2>2. CASE Len(ranges) # 0
    <3>1. Len(ranges) \in 1 .. Len(ranges) /\ n - 1 = Len(ranges)
      BY <1>1, <2>2
    <3> QED
      BY <1>1, <1>3, <1>4, <3>1
  <2> QED
    BY <2>1, <2>2
<1>6. ASSUME NEW m \in 1 .. n, P(m) PROVE m = n
  <2>1. CASE Len(ranges) = 0
    BY <1>1, <2>1
  <2>2. CASE Len(ranges) # 0
    <3>1. PICK i \in DOMAIN ranges : ranges[i].group = Len(ranges)
      BY <1>1, <1>4, <2>2
    <3>2. Len(ranges) < m
      BY <1>6, <3>1
    <3> QED
      BY <1>1, <3>2
  <2> QED
    BY <2>1, <2>2
<1>7. n \in 1 .. n
  BY <1>1
<1>8. (CHOOSE m \in 1 .. n : P(m)) = n
  <2> HIDE DEF P
  <2> QED
    BY <1>5, <1>6, <1>7
<1> QED
  BY <1>8 DEF GroupCount

LEMMA GroupForKnown ==
    ASSUME NEW ranges \in Router, Valid(ranges), Ordered(ranges), NEW key \in Int
    PROVE  GroupFor(ranges, key) \in 0 .. Len(ranges)
<1>1. Len(ranges) \in Nat
  BY DEF Router
<1>2. CASE \/ IsSystemKey(key)
           \/ \A i \in DOMAIN ranges :
                 ~(ranges[i].start <= key /\ key < ranges[i].end)
  BY <1>1, <1>2, KeyOfNoShard
<1>3. ASSUME ~IsSystemKey(key), NEW i \in DOMAIN ranges,
             ranges[i].start <= key, key < ranges[i].end
      PROVE  GroupFor(ranges, key) \in 0 .. Len(ranges)
  <2>1. GroupFor(ranges, key) = ranges[i].group
    BY <1>3, KeyOfShard
  <2>2. {ranges[k].group : k \in DOMAIN ranges} = 1 .. Len(ranges)
    BY Zenon DEF Valid
  <2>3. ranges[i].group \in 1 .. Len(ranges)
    BY <2>2
  <2> QED
    BY <1>1, <2>1, <2>3
<1> QED
  BY <1>2, <1>3

LEMMA Deployment ==
    ASSUME NEW s \in Scenarios
    PROVE  /\ GroupsIn(s) \subseteq Int /\ 0 \in GroupsIn(s)
           /\ \A k \in Keys : GroupIn(s, k) \in GroupsIn(s)
           /\ GroupIn(s, System) = 0
           /\ CrossesGroups \notin GroupsIn(s)
           /\ GroupCount(s.router) = 1 => GroupsIn(s) = {0}
<1>1. /\ s.router \in Router /\ Valid(s.router) /\ Ordered(s.router)
      /\ Keys \subseteq Int /\ System \in Keys /\ IsSystemKey(System)
  BY RaftKVAssumption DEF Keys
<1>2. GroupCount(s.router) = Len(s.router) + 1 /\ Len(s.router) \in Nat
  BY <1>1, GroupCountIs DEF Router
<1>3. GroupsIn(s) = 0 .. Len(s.router)
  BY <1>2 DEF GroupsIn
<1>4. GroupIn(s, System) = 0
  BY <1>1, KeyOfNoShard DEF GroupIn
<1>5. \A k \in Keys : GroupIn(s, k) \in GroupsIn(s)
  BY <1>1, <1>3, GroupForKnown DEF GroupIn
<1>6. CrossesGroups \notin GroupsIn(s)
  BY <1>2, <1>3 DEF CrossesGroups
<1> QED
  BY <1>2, <1>3, <1>4, <1>5, <1>6

(* A table that does not cross groups is in the group of its key. *)
LEMMA TableGroupIs ==
    ASSUME scenario \in Scenarios, NEW k \in Keys, TableGroup(k) # CrossesGroups
    PROVE  TableGroup(k) = Group(k)
<1>1. /\ scenario.router \in Router /\ Valid(scenario.router) /\ Ordered(scenario.router)
      /\ k \in Int /\ TableSize \in Nat
  BY RaftKVAssumption
<1>2. CASE TableSize = 0
  <2>1. k - TableSize = k /\ k + TableSize = k /\ k <= k
    BY <1>1, <1>2
  <2> QED
    BY <2>1 DEF TableGroup, RangeGroup, Group
<1>3. CASE TableSize # 0
  <2>1. /\ k - TableSize \in Int /\ k + TableSize \in Int
        /\ k - TableSize <= k /\ k < k + TableSize
    BY <1>1, <1>3
  <2> QED
    BY <1>1, <2>1, RangeGroupExact DEF TableGroup, Group
<1> QED
  BY <1>2, <1>3

-----------------------------------------------------------------------------
(* Engines: what the ends of an operation keep. *)
LEMMA NoneIsNothing ==
    /\ None \notin Int /\ None \notin Nat /\ None \notin Stamps /\ None \notin Connections
    /\ \A ks \in SUBSET Keys : None # ks
<1>1. Nat \subseteq Int
  OBVIOUS
<1> QED
  BY <1>1, RaftKVAssumption DEF Stamps

LEMMA EngineFields ==
    ASSUME NEW e \in Engine
    PROVE  /\ e.client \in Nat /\ e.next \in Nat \ {0} /\ e.tx \in {None} \cup SUBSET Keys
           /\ e.fresh \in SUBSET Keys /\ e.slot \in BOOLEAN
           /\ e.wgroup \in {None} \cup Int /\ e.bound \in {None} \cup Int
           /\ e.crossed \in BOOLEAN /\ e.wrote \in BOOLEAN /\ e.proven \in SUBSET Int
           /\ e.snap \in {None} \cup Stamps /\ e.explicit \in BOOLEAN
           /\ e.failed \in BOOLEAN /\ e.todo \in Seq(Operation) /\ e.call \in RaftCall
           /\ e.touched \in SUBSET Int /\ e.floor \in {None} \cup Stamps
           /\ e.stale \in SUBSET {"snapshot", "store"} /\ e.adrift \in BOOLEAN
  BY Zenon DEF Engine

LEMMA NoCallType == NoCall \in RaftCall
  BY DEF NoCall, RaftCall

(* Two engines with the same transaction. *)
Alike(n, e) ==
    /\ n.tx = e.tx /\ n.slot = e.slot /\ n.wgroup = e.wgroup /\ n.bound = e.bound
    /\ n.crossed = e.crossed /\ n.wrote = e.wrote /\ n.snap = e.snap
    /\ n.explicit = e.explicit /\ n.failed = e.failed /\ n.touched = e.touched
    /\ e.adrift => n.adrift

LEMMA AlikeKeeps ==
    ASSUME NEW s, NEW n, NEW e, Alike(n, e)
    PROVE  /\ TxOk(s, e) => TxOk(s, n)
           /\ AtRest(e) => AtRest(n)
           /\ AtHome(s, e) => AtHome(s, n)
<1>1. TxOk(s, e) => TxOk(s, n)
  BY DEF Alike, TxOk
<1>2. AtRest(e) => AtRest(n)
  BY DEF Alike, AtRest
<1>3. AtHome(s, e) => AtHome(s, n)
  BY DEF Alike, AtHome
<1> QED
  BY <1>1, <1>2, <1>3

LEMMA AlikeAt ==
    ASSUME NEW s, NEW n, NEW e, NEW o, Alike(n, e)
    PROVE  /\ PhaseAt(e, o) => PhaseAt(n, o)
           /\ HomeAt(s, e, o) => HomeAt(s, n, o)
<1>1. PhaseAt(e, o) => PhaseAt(n, o)
  BY AlikeKeeps DEF Alike, PhaseAt
<1>2. HomeAt(s, e, o) => HomeAt(s, n, o)
  BY AlikeKeeps DEF Alike, HomeAt
<1> QED
  BY <1>1, <1>2

Returned(e) ==
    [e EXCEPT !.todo = << >>, !.call = NoCall,
              !.floor = IF e.tx = None THEN None ELSE @,
              !.adrift = @ \/ Adrift(e)]
Went(e) ==
    IF Len(e.todo) > 1 THEN [e EXCEPT !.todo = Tail(@), !.call = NoCall]
    ELSE Returned(e)

LEMMA ReturnIs ==
    ASSUME NEW c, NEW e
    PROVE  /\ Return(c, e) => eng' = [eng EXCEPT ![c] = Returned(e)]
           /\ Go(c, e) => eng' = [eng EXCEPT ![c] = Went(e)]
  BY DEF Return, Go, Returned, Went

LEMMA ReturnedFields ==
    ASSUME NEW e \in Engine
    PROVE  /\ Returned(e) \in Engine /\ Alike(Returned(e), e)
           /\ Returned(e).todo = << >> /\ Returned(e).call = NoCall
           /\ Adrift(e) => Returned(e).adrift
<1>1. /\ << >> \in Seq(Operation) /\ (e.adrift \/ Adrift(e)) \in BOOLEAN
      /\ (IF e.tx = None THEN None ELSE e.floor) \in {None} \cup Stamps
  BY EngineFields
<1>2. Returned(e) \in Engine
  BY <1>1, NoCallType, ZenonT(40) DEF Engine, Returned
<1>3. Returned(e).adrift = (e.adrift \/ Adrift(e))
  BY Zenon DEF Engine, Returned
<1>4. /\ Returned(e).todo = << >> /\ Returned(e).call = NoCall
      /\ Returned(e).tx = e.tx /\ Returned(e).slot = e.slot
      /\ Returned(e).wgroup = e.wgroup /\ Returned(e).bound = e.bound
      /\ Returned(e).crossed = e.crossed /\ Returned(e).wrote = e.wrote
      /\ Returned(e).snap = e.snap /\ Returned(e).explicit = e.explicit
      /\ Returned(e).failed = e.failed /\ Returned(e).touched = e.touched
  BY DEF Engine, Returned
<1> QED
  BY <1>2, <1>3, <1>4, Zenon DEF Alike

LEMMA WentFields ==
    ASSUME NEW e \in Engine, e.todo # << >>
    PROVE  /\ Went(e) \in Engine /\ Alike(Went(e), e) /\ Went(e).call = NoCall
           /\ Went(e).todo = IF Len(e.todo) > 1 THEN Tail(e.todo) ELSE << >>
<1>1. CASE Len(e.todo) > 1
  <2>1. Tail(e.todo) \in Seq(Operation)
    BY EngineFields
  <2>2. Went(e) = [e EXCEPT !.todo = Tail(@), !.call = NoCall]
    BY <1>1 DEF Went
  <2>3. [e EXCEPT !.todo = Tail(@), !.call = NoCall] \in Engine
    BY <2>1, NoCallType, Zenon DEF Engine
  <2> QED
    BY <1>1, <2>2, <2>3 DEF Engine, Alike
<1>2. CASE ~(Len(e.todo) > 1)
  BY <1>2, ReturnedFields DEF Went
<1> QED
  BY <1>1, <1>2

LEMMA ChainTail ==
    ASSUME NEW s, NEW todo \in Seq(Operation), NEW x, Len(todo) > 1, Chain(s, todo, x)
    PROVE  /\ Chain(s, Tail(todo), x) /\ Tail(todo) # << >> /\ Tail(todo)[1] = todo[2]
           /\ Follows(todo[1], todo[2], x)
<1>1. /\ Tail(todo) \in Seq(Operation) /\ Len(Tail(todo)) = Len(todo) - 1
      /\ Len(todo) \in Nat
      /\ \A i \in 1 .. Len(todo) - 1 : Tail(todo)[i] = todo[i + 1]
  OBVIOUS
<1>2. Tail(todo) # << >>
  <2>1. Len(Tail(todo)) # 0
    BY <1>1
  <2>2. Len(<< >>) = 0
    OBVIOUS
  <2> QED
    BY <2>1, <2>2, Zenon
<1>3. Last(Tail(todo)[Len(Tail(todo))], x)
  <2>1. Tail(todo)[Len(Tail(todo))] = todo[Len(todo)]
    BY <1>1
  <2> QED
    BY <2>1 DEF Chain
<1>4. \A i \in 1 .. Len(Tail(todo)) - 1 : Follows(Tail(todo)[i], Tail(todo)[i + 1], x)
  <2> TAKE i \in 1 .. Len(Tail(todo)) - 1
  <2>1. /\ i + 1 \in 1 .. Len(todo) - 1
        /\ Tail(todo)[i] = todo[i + 1] /\ Tail(todo)[i + 1] = todo[i + 1 + 1]
    BY <1>1
  <2> QED
    BY <2>1 DEF Chain
<1>5. \A i \in 1 .. Len(Tail(todo)) : Possible(s, Tail(todo)[i])
  <2> TAKE i \in 1 .. Len(Tail(todo))
  <2>1. i + 1 \in 1 .. Len(todo) /\ Tail(todo)[i] = todo[i + 1]
    BY <1>1
  <2> QED
    BY <2>1 DEF Chain
<1>6. Follows(todo[1], todo[2], x)
  <2>1. 1 \in 1 .. Len(todo) - 1 /\ 1 + 1 = 2
    BY <1>1
  <2> QED
    BY <2>1 DEF Chain
<1> QED
  BY <1>1, <1>2, <1>3, <1>4, <1>5, <1>6 DEF Chain

(* A transaction that has written nothing is at home when the statement is  *)
(* over, or adrift.                                                         *)
LEMMA ReturnLocal ==
    ASSUME NEW s, NEW e \in Engine, TxOk(s, e), AtRest(e), AtHome(s, e) \/ e.tx = {}
    PROVE  Local(s, Returned(e))
<1> DEFINE n == Returned(e)
<1>1. /\ n \in Engine /\ Alike(n, e) /\ n.todo = << >> /\ n.call = NoCall
      /\ Adrift(e) => n.adrift
  BY ReturnedFields
<1> HIDE DEF n
<1>2. TxOk(s, n) /\ AtRest(n) /\ AtHome(s, n)
  <2>1. TxOk(s, n) /\ AtRest(n) /\ (AtHome(s, e) => AtHome(s, n))
    BY <1>1, AlikeKeeps
  <2>2. ASSUME e.tx = {} PROVE AtHome(s, n)
    BY <1>1, <2>2, NoneIsNothing DEF Alike, AtHome, Adrift
  <2> QED
    BY <2>1, <2>2
<1>3. Chain(s, n.todo, n.explicit)
  BY <1>1 DEF Chain
<1>4. Phase(n) /\ Calling(s, n) /\ Home(s, n)
  BY <1>1, <1>2 DEF Phase, Calling, Home
<1>5. Local(s, n)
  BY <1>1, <1>2, <1>3, <1>4 DEF Local
<1> QED
  BY <1>5 DEF n

(* The engine is ready for the operation after the first, or to end. *)
Continues(s, e) ==
    IF Len(e.todo) > 1
    THEN PhaseAt(e, e.todo[2]) /\ HomeAt(s, e, e.todo[2])
    ELSE AtRest(e) /\ (AtHome(s, e) \/ e.tx = {})

LEMMA GoLocal ==
    ASSUME NEW s, NEW e \in Engine, e.todo # << >>, TxOk(s, e),
           Chain(s, e.todo, e.explicit), Continues(s, e)
    PROVE  Local(s, Went(e))
<1> DEFINE n == Went(e)
<1>0. e.todo \in Seq(Operation) /\ Len(e.todo) \in Nat /\ Len(e.todo) # 0
  BY EngineFields
<1>1. CASE Len(e.todo) > 1
  <2>1. n \in Engine /\ Alike(n, e) /\ n.todo = Tail(e.todo) /\ n.call = NoCall
    BY <1>1, WentFields
  <2> HIDE DEF n
  <2>2. /\ TxOk(s, n) /\ PhaseAt(n, e.todo[2])
        /\ HomeAt(s, n, e.todo[2])
    <3>1. PhaseAt(e, e.todo[2]) /\ HomeAt(s, e, e.todo[2])
      BY <1>1 DEF Continues
    <3>2. TxOk(s, n)
      BY <2>1, AlikeKeeps
    <3>3. PhaseAt(n, e.todo[2])
      BY <2>1, <3>1, AlikeAt
    <3>4. HomeAt(s, n, e.todo[2])
      BY <2>1, <3>1, AlikeAt
    <3> QED
      BY <3>2, <3>3, <3>4
  <2>3. Chain(s, n.todo, n.explicit) /\ n.todo # << >> /\ First(n) = e.todo[2]
    BY <1>0, <1>1, <2>1, ChainTail DEF Alike, First
  <2>4. Phase(n) /\ Calling(s, n) /\ Home(s, n)
    BY <2>1, <2>2, <2>3 DEF Phase, Calling, Home
  <2>5. Local(s, n)
    BY <2>1, <2>2, <2>3, <2>4 DEF Local
  <2> QED
    BY <2>5 DEF n
<1>2. CASE ~(Len(e.todo) > 1)
  BY <1>2, ReturnLocal DEF Went, Continues
<1> QED
  BY <1>1, <1>2

LEMMA IsOne ==
    ASSUME NEW n \in Nat, n # 0, ~(n > 1)
    PROVE  n = 1
  OBVIOUS

(* How an operation may end: what follows an operation inside a transaction *)
(* is inside as well; others are the last ones.                             *)
LEMMA GoInside ==
    ASSUME NEW s, NEW e \in Engine, e.todo # << >>, TxOk(s, e),
           Chain(s, e.todo, e.explicit), ~e.failed, e.tx # None,
           First(e).op \in {"plan", "exists", "scan", "get", "put", "write", "touch", "clear"},
           Ready(s, e)
    PROVE  Local(s, Went(e))
<1>0. e.todo \in Seq(Operation) /\ Len(e.todo) \in Nat /\ Len(e.todo) # 0
  BY EngineFields
<1>1. CASE Len(e.todo) > 1
  <2>1. Follows(e.todo[1], e.todo[2], e.explicit)
    BY <1>0, <1>1, ChainTail
  <2>2. e.todo[2].op \in {"exists", "scan", "put", "write", "touch", "commit"}
    BY <2>1 DEF Follows, First, Op
  <2>3. PhaseAt(e, e.todo[2])
    BY <2>2 DEF PhaseAt, Inside
  <2>5. HomeAt(s, e, e.todo[2])
    <3>1. CASE AtHome(s, e)
      BY <3>1 DEF HomeAt
    <3>2. CASE ~AtHome(s, e) /\ First(e).op = "plan"
      <4>1. e.tx = {} /\ GroupIn(s, First(e).key) = e.wgroup
        BY <3>2 DEF Ready, HomeAt
      <4>2. \/ e.todo[2].op \in {"exists", "scan"} /\ e.todo[2].key = First(e).key
            \/ e.todo[2].op = "commit"
        BY <2>1, <3>2 DEF Follows, First
      <4> QED
        BY <4>1, <4>2 DEF HomeAt
    <3>3. CASE ~AtHome(s, e) /\ First(e).op = "get"
      <4>1. e.tx = {}
        BY <3>3 DEF Ready, HomeAt
      <4>2. e.todo[2].op = "commit"
        BY <2>1, <3>3 DEF Follows, First
      <4> QED
        BY <4>1, <4>2 DEF HomeAt
    <3> QED
      BY <3>1, <3>2, <3>3 DEF Ready
  <2>4. Continues(s, e)
    BY <1>1, <2>3, <2>5 DEF Continues
  <2> QED
    BY <2>4, GoLocal
<1>2. CASE ~(Len(e.todo) > 1)
  <2>1. Len(e.todo) = 1
    BY <1>0, <1>2, IsOne
  <2>2. Last(e.todo[1], e.explicit)
    BY <2>1 DEF Chain
  <2>3. e.explicit
    BY <2>2 DEF Last, First
  <2>5. AtHome(s, e) \/ e.tx = {}
    BY DEF Ready, HomeAt
  <2>4. Continues(s, e)
    BY <1>2, <2>3, <2>5 DEF Continues, AtRest
  <2> QED
    BY <2>4, GoLocal
<1> QED
  BY <1>1, <1>2

LEMMA LastOne ==
    ASSUME NEW s, NEW todo \in Seq(Operation), NEW x, todo # << >>, Chain(s, todo, x),
           todo[1].op \in {"end", "commit", "rollback", "begin", "fetch", "look", "close"}
    PROVE  ~(Len(todo) > 1) /\ Last(todo[1], x)
<1>1. ASSUME Len(todo) > 1 PROVE FALSE
  <2>1. Follows(todo[1], todo[2], x)
    BY <1>1, ChainTail
  <2> QED
    BY <2>1 DEF Follows
<1>3. Len(todo) \in Nat /\ Len(todo) # 0
  OBVIOUS
<1>2. Len(todo) = 1
  BY <1>1, <1>3, IsOne
<1> QED
  BY <1>1, <1>2 DEF Chain

Freed(e) ==
    /\ e.tx = None /\ ~e.slot /\ e.snap = None /\ e.bound = None /\ ~e.crossed
    /\ ~e.wrote /\ e.touched = {}

LEMMA EndedFields ==
    ASSUME NEW e \in Engine
    PROVE  /\ Ended(e) \in Engine /\ Freed(Ended(e))
           /\ Ended(e).explicit = e.explicit /\ Ended(e).failed = e.failed
           /\ Ended(e).todo = e.todo
           /\ Unslotted(e) \in Engine /\ ~Unslotted(e).slot
           /\ Unslotted(e).tx = e.tx /\ Unslotted(e).todo = e.todo
<1> DEFINE u == Unslotted(e)
<1>1. u \in Engine
  BY Zenon DEF Engine, Unslotted
<1>2. ~u.slot /\ u.tx = e.tx /\ u.todo = e.todo
  BY DEF Engine, Unslotted
<1>3. /\ u.explicit = e.explicit /\ u.failed = e.failed
  BY DEF Engine, Unslotted
<1> HIDE DEF u
<1> DEFINE n == [u EXCEPT !.tx = None, !.snap = None, !.bound = None,
                          !.crossed = FALSE, !.wrote = FALSE, !.proven = {},
                          !.touched = {}, !.fresh = {}, !.adrift = FALSE]
<1>4. n = Ended(e)
  BY DEF Ended, u
<1>5. n \in Engine
  BY <1>1, Zenon DEF Engine
<1>6. Freed(n) /\ n.explicit = u.explicit /\ n.failed = u.failed /\ n.todo = u.todo
  BY <1>1, <1>2 DEF Engine, Freed
<1> HIDE DEF n
<1> QED
  BY <1>1, <1>2, <1>3, <1>4, <1>5, <1>6 DEF u

(* A session without a transaction rests. *)
LEMMA FreedLocal ==
    ASSUME NEW s \in Scenarios, NEW e \in Engine, Freed(e), ~e.explicit, ~e.failed
    PROVE  Local(s, Returned(e))
<1>1. TxOk(s, e) /\ AtRest(e) /\ AtHome(s, e)
  BY NoneIsNothing DEF Freed, TxOk, AtRest, AtHome
<1> QED
  BY <1>1, ReturnLocal

(* A step that gives connection c the engine n for e: with the slot as it   *)
(* is, or given back.                                                       *)
Moved(c, e, n) ==
    /\ eng' = [eng EXCEPT ![c] = n]
    /\ Local(scenario, n)
    /\ \/ slots' = slots /\ n.slot = e.slot /\ n.wgroup = e.wgroup
       \/ slots' = SlotsWithout(c, e) /\ ~n.slot

LEMMA StatementFailsMoves ==
    ASSUME scenario \in Scenarios, NEW c, NEW e \in Engine, TxOk(scenario, e), e.tx # None,
           e.failed => e.explicit, StatementFails(c, e)
    PROVE  \E n : Moved(c, e, n)
<1>1. CASE e.explicit
  <2> DEFINE f == [e EXCEPT !.failed = TRUE]
  <2>1. f \in Engine
    BY Zenon DEF Engine
  <2>2. /\ f.tx = e.tx /\ f.slot = e.slot /\ f.wgroup = e.wgroup /\ f.bound = e.bound
        /\ f.crossed = e.crossed /\ f.wrote = e.wrote /\ f.snap = e.snap
        /\ f.explicit = e.explicit /\ f.failed /\ f.touched = e.touched
    BY DEF Engine
  <2>3. eng' = [eng EXCEPT ![c] = Returned(f)] /\ slots' = slots
    BY <1>1, ReturnIs DEF StatementFails
  <2> HIDE DEF f
  <2>4. TxOk(scenario, f) /\ AtRest(f) /\ AtHome(scenario, f)
    BY <1>1, <2>2 DEF TxOk, AtRest, AtHome
  <2>5. Local(scenario, Returned(f))
    BY <2>1, <2>4, ReturnLocal
  <2>6. Returned(f).slot = e.slot /\ Returned(f).wgroup = e.wgroup
    BY <2>1, <2>2, ReturnedFields DEF Alike
  <2> QED
    BY <2>3, <2>5, <2>6 DEF Moved
<1>2. CASE ~e.explicit
  <2>1. eng' = [eng EXCEPT ![c] = Returned(Ended(e))] /\ slots' = SlotsWithout(c, e)
    BY <1>2, ReturnIs DEF StatementFails
  <2>2. Local(scenario, Returned(Ended(e)))
    BY <1>2, EndedFields, FreedLocal
  <2>3. ~Returned(Ended(e)).slot
    BY EndedFields, ReturnedFields DEF Alike, Freed
  <2> QED
    BY <2>1, <2>2, <2>3 DEF Moved
<1> QED
  BY <1>1, <1>2

(* An engine that fails an operation other than the ones that end a         *)
(* transaction by themselves.                                               *)
LEMMA FailMoves ==
    ASSUME scenario \in Scenarios, NEW c, NEW e \in Engine, TxOk(scenario, e),
           e.todo # << >>, Chain(scenario, e.todo, e.explicit), PhaseAt(e, First(e)),
           First(e).op \notin {"rollback", "close"},
           \/ Ready(scenario, e)
           \/ First(e).op \in {"auto", "scan", "put", "write", "clear"},
           Fail(c, e)
    PROVE  (\E n : Moved(c, e, n)) /\ acked' = acked
<1>0. ~e.failed /\ e.todo \in Seq(Operation)
  BY EngineFields DEF PhaseAt
<1>1. CASE First(e).op \in {"touch", "exists"}
  <2>1. eng' = [eng EXCEPT ![c] = Went(e)] /\ slots' = slots
    BY <1>1, ReturnIs DEF Fail
  <2>2. Local(scenario, Went(e))
    BY <1>0, <1>1, GoInside DEF PhaseAt, Inside
  <2>3. Went(e).slot = e.slot /\ Went(e).wgroup = e.wgroup
    BY WentFields DEF Alike
  <2> QED
    BY <2>1, <2>2, <2>3 DEF Moved, Fail
<1>2. CASE First(e).op = "auto"
  <2> DEFINE u == Unslotted(e)
  <2>1. eng' = [eng EXCEPT ![c] = Returned(u)] /\ slots' = SlotsWithout(c, e)
    BY <1>2, ReturnIs DEF Fail
  <2>2. u \in Engine
    BY EndedFields
  <2>3. /\ ~u.slot /\ u.tx = e.tx /\ u.bound = e.bound
        /\ u.crossed = e.crossed /\ u.wrote = e.wrote /\ u.snap = e.snap
        /\ u.explicit = e.explicit /\ u.failed = e.failed /\ u.touched = e.touched
    BY DEF Engine, Unslotted
  <2> HIDE DEF u
  <2>4. e.tx = None /\ ~e.wrote
    BY <1>2 DEF PhaseAt, TxOk
  <2>5. TxOk(scenario, u) /\ AtRest(u) /\ AtHome(scenario, u)
    BY <2>3, <2>4 DEF TxOk, AtRest, AtHome
  <2>6. Local(scenario, Returned(u)) /\ ~Returned(u).slot
    BY <2>2, <2>3, <2>5, ReturnLocal, ReturnedFields DEF Alike
  <2> QED
    BY <2>1, <2>6 DEF Moved, Fail
<1>3. CASE First(e).op \in {"scan", "get", "put", "write", "clear", "commit"}
  <2>1. StatementFails(c, e) /\ acked' = acked
    BY <1>3 DEF Fail
  <2>2. e.tx # None
    BY <1>3 DEF PhaseAt, Inside
  <2> QED
    BY <1>0, <2>1, <2>2, StatementFailsMoves
<1>6. CASE First(e).op = "plan"
  <2>1. /\ acked' = acked
        /\ \/ StatementFails(c, e)
           \/ e.explicit /\ Return(c, e) /\ slots' = slots
    BY <1>6 DEF Fail
  <2>2. e.tx # None
    BY <1>6 DEF PhaseAt, Inside
  <2>3. CASE StatementFails(c, e)
    BY <1>0, <2>1, <2>2, <2>3, StatementFailsMoves
  <2>4. CASE e.explicit /\ Return(c, e) /\ slots' = slots
    <3>1. eng' = [eng EXCEPT ![c] = Returned(e)]
      BY <2>4, ReturnIs
    <3>2. AtRest(e) /\ (AtHome(scenario, e) \/ e.tx = {})
      BY <1>6, <2>2, <2>4 DEF AtRest, Ready, HomeAt
    <3>3. Local(scenario, Returned(e))
      BY <3>2, ReturnLocal
    <3>4. Returned(e).slot = e.slot /\ Returned(e).wgroup = e.wgroup
      BY ReturnedFields DEF Alike
    <3> QED
      BY <2>1, <2>4, <3>1, <3>3, <3>4 DEF Moved
  <2> QED
    BY <2>1, <2>3, <2>4
<1>4. CASE First(e).op \in {"slot", "fetch", "look", "begin", "end"}
  <2>1. eng' = [eng EXCEPT ![c] = Returned(e)] /\ slots' = slots /\ acked' = acked
    BY <1>4, ReturnIs DEF Fail
  <2>2. AtRest(e)
    BY <1>4 DEF PhaseAt, Inside
  <2>3. Local(scenario, Returned(e))
    BY <1>4, <2>2, ReturnLocal DEF Ready
  <2>4. Returned(e).slot = e.slot /\ Returned(e).wgroup = e.wgroup
    BY ReturnedFields DEF Alike
  <2> QED
    BY <2>1, <2>3, <2>4 DEF Moved
<1>5. First(e).op \in Ops
  <2>1. First(e) \in Operation
    <3>1. Len(e.todo) # 0 /\ Len(e.todo) \in Nat
      BY <1>0
    <3> QED
      BY <1>0, <3>1 DEF First
  <2> QED
    BY <2>1 DEF Operation
<1> QED
  BY <1>1, <1>2, <1>3, <1>4, <1>5, <1>6 DEF Ops

-----------------------------------------------------------------------------
(* check_group(). *)
Kin(n, e) ==
    /\ n.tx = e.tx /\ n.slot = e.slot /\ n.wgroup = e.wgroup /\ n.wrote = e.wrote
    /\ n.snap = e.snap /\ n.explicit = e.explicit /\ n.failed = e.failed
    /\ n.touched = e.touched /\ n.todo = e.todo /\ n.call = e.call /\ n.fresh = e.fresh
    /\ n.client = e.client /\ n.next = e.next /\ n.floor = e.floor /\ n.stale = e.stale
    /\ n.proven = e.proven /\ n.adrift = e.adrift

LEMMA CheckGroupOk ==
    ASSUME scenario \in Scenarios, NEW c, NEW e \in Engine, TxOk(scenario, e),
           NEW g \in GroupsIn(scenario), NEW write \in BOOLEAN
    PROVE  LET r == CheckGroup(c, e, g, write)
           IN  /\ r.eng \in Engine /\ TxOk(scenario, r.eng) /\ Kin(r.eng, e)
               /\ r.ok /\ ~write => Passed(r.eng, g)
               /\ r.ok /\ write => r.eng.bound = g /\ ~r.eng.crossed
               /\ e.crossed \/ e.bound \notin {None, g} => ~(r.ok /\ write)
               /\ e.bound # None => r.eng.bound = e.bound
               /\ ~e.failed /\ AtHome(scenario, e) => AtHome(scenario, r.eng)
               /\ ~write /\ e.tx = {} /\ e.wgroup = g => AtHome(scenario, r.eng)
<1>0. /\ g \in Int /\ g # None
      /\ e.tx = None \/ e.tx \in SUBSET Keys
  BY Deployment, NoneIsNothing, EngineFields
<1> DEFINE s == scenario
           r == CheckGroup(c, e, g, write)
<1>1. CASE e.bound = None
  <2> DEFINE n == [e EXCEPT !.bound = g]
  <2>1. n \in Engine
    BY <1>0, Zenon DEF Engine
  <2>2. Kin(n, e) /\ n.bound = g /\ n.crossed = e.crossed
    BY DEF Engine, Kin
  <2>3. r.eng = n /\ r.ok
    BY <1>1 DEF CheckGroup
  <2> HIDE DEF n
  <2>4. TxOk(s, n)
    BY <1>0, <1>1, <2>2 DEF TxOk, Kin
  <2>5. ~e.failed /\ AtHome(s, e) => AtHome(s, n)
    BY <1>0, <1>1, <2>2, NoneIsNothing, Deployment DEF TxOk, Kin, AtHome
  <2>6. e.tx = {} /\ e.wgroup = g => AtHome(s, n)
    BY <1>0, <2>2, NoneIsNothing DEF Kin, AtHome
  <2>7. Passed(n, g) /\ ~n.crossed
    BY <1>0, <1>1, <2>2 DEF Passed, TxOk
  <2> QED
    BY <1>1, <2>1, <2>2, <2>3, <2>4, <2>5, <2>6, <2>7 DEF TxOk
<1>2. CASE e.bound # None /\ e.bound # g /\ (write \/ e.wrote)
  <2>1. r.eng = e /\ ~r.ok
    BY <1>2 DEF CheckGroup
  <2>2. ~write => e.tx # {}
    BY <1>2 DEF TxOk
  <2> QED
    BY <2>1, <2>2 DEF Kin
<1>3. CASE e.bound # None /\ e.bound # g /\ ~write /\ ~e.wrote
  <2> DEFINE n == [e EXCEPT !.crossed = TRUE]
  <2>1. n \in Engine
    BY Zenon DEF Engine
  <2>2. Kin(n, e) /\ n.bound = e.bound /\ n.crossed
    BY DEF Engine, Kin
  <2>3. r.eng = n
    BY <1>3 DEF CheckGroup
  <2> HIDE DEF n
  <2>4. TxOk(s, n)
    BY <1>3, <2>2 DEF TxOk, Kin
  <2>5. ~e.failed /\ AtHome(s, e) => AtHome(s, n)
    BY <1>3, <2>2 DEF TxOk, Kin, AtHome
  <2>6. e.tx = {} => AtHome(s, n)
    BY <2>2 DEF Kin, AtHome
  <2>7. Passed(n, g)
    BY <1>3, <2>2 DEF Passed, Kin
  <2> QED
    BY <1>3, <2>1, <2>2, <2>3, <2>4, <2>5, <2>6, <2>7
<1>4. CASE e.bound = g
  <2>1. r.eng = e /\ (r.ok <=> ~(e.crossed /\ write))
    BY <1>0, <1>4 DEF CheckGroup
  <2>2. Passed(e, g)
    BY <1>0, <1>4 DEF Passed
  <2>3. e.tx = {} /\ e.wgroup = g => AtHome(s, e)
    BY <1>4, NoneIsNothing DEF AtHome
  <2> QED
    BY <1>0, <1>4, <2>1, <2>2, <2>3 DEF Kin
<1> QED
  BY <1>1, <1>2, <1>3, <1>4

(* read_key(): only the group the transaction has passed is touched. *)
LEMMA ReadKeyOk ==
    ASSUME Typed, NEW e \in Engine, TxOk(scenario, e), NEW key \in Keys,
           e.tx # None /\ ~IsSystemKey(key) => Passed(e, Group(key))
    PROVE  LET r == ReadKey(e, key)
           IN  /\ r \in Engine /\ TxOk(scenario, r)
               /\ r.tx = e.tx /\ r.slot = e.slot /\ r.wgroup = e.wgroup
               /\ r.bound = e.bound /\ r.crossed = e.crossed /\ r.wrote = e.wrote
               /\ r.snap = e.snap /\ r.explicit = e.explicit /\ r.failed = e.failed
               /\ r.todo = e.todo /\ r.adrift = e.adrift
<1> DEFINE g == Group(key)
           pr == IF e.tx # None /\ e.snap # None THEN e.proven \cup {g} ELSE e.proven
           to == IF e.tx # None /\ ~IsSystemKey(key) THEN e.touched \cup {g} ELSE e.touched
           r == ReadKey(e, key)
<1>0. g \in Int /\ g = GroupIn(scenario, key) /\ g # None
  BY Deployment, NoneIsNothing DEF Typed, Group, GroupIn
<1>1. pr \in SUBSET Int /\ to \in SUBSET Int
  BY <1>0, EngineFields
<1>2. PICK st \in SUBSET {"snapshot", "store"} :
         r = [e EXCEPT !.proven = pr, !.touched = to, !.stale = st]
  <2> DEFINE from == IF e.snap # None THEN e.snap ELSE disk.store
             held == e.tx # None /\ e.snap # None
             st == IF (e.tx # None => key \notin e.tx) /\ from[key] < e.floor[key]
                   THEN e.stale \cup {IF held THEN "snapshot" ELSE "store"} ELSE e.stale
  <2>1. st \in SUBSET {"snapshot", "store"}
    BY EngineFields
  <2>2. r = [e EXCEPT !.proven = pr, !.touched = to, !.stale = st]
    BY DEF ReadKey
  <2> QED
    BY <2>1, <2>2
<1> HIDE DEF pr
<1>3. r \in Engine
  BY <1>1, <1>2, ZenonT(40) DEF Engine
<1>4. /\ r.tx = e.tx /\ r.slot = e.slot /\ r.wgroup = e.wgroup
      /\ r.bound = e.bound /\ r.crossed = e.crossed /\ r.wrote = e.wrote
      /\ r.snap = e.snap /\ r.explicit = e.explicit /\ r.failed = e.failed
      /\ r.todo = e.todo /\ r.touched = to /\ r.adrift = e.adrift
  BY <1>2 DEF Engine
<1> HIDE DEF r, g
<1>5. TxOk(scenario, r)
  <2>1. CASE e.tx # None /\ ~IsSystemKey(key)
    <3>1. to = e.touched \cup {g} /\ Passed(e, g)
      BY <2>1 DEF g
    <3> QED
      BY <1>4, <2>1, <3>1 DEF TxOk, Passed
  <2>2. CASE ~(e.tx # None /\ ~IsSystemKey(key))
    <3>1. to = e.touched
      BY <2>2
    <3> QED
      BY <1>4, <3>1 DEF TxOk
  <2> QED
    BY <2>1, <2>2
<1> QED
  BY <1>3, <1>4, <1>5 DEF r

LEMMA SameSlot ==
    ASSUME NEW c, NEW e, NEW f, NEW n, Moved(c, f, n), f.slot = e.slot, f.wgroup = e.wgroup
    PROVE  Moved(c, e, n)
  BY DEF Moved, SlotsWithout

(* The operations of an engine are what its program has. *)
LEMMA FirstIs ==
    ASSUME NEW e \in Engine, e.todo # << >>
    PROVE  /\ First(e) \in Operation /\ First(e).op \in Ops /\ First(e).key \in Keys
           /\ e.todo \in Seq(Operation) /\ Len(e.todo) \in Nat /\ Len(e.todo) # 0
<1>1. e.todo \in Seq(Operation) /\ Len(e.todo) \in Nat /\ Len(e.todo) # 0
  BY EngineFields
<1>2. First(e) \in Operation
  BY <1>1 DEF First
<1> QED
  BY <1>1, <1>2 DEF Operation

LEMMA FirstPossible ==
    ASSUME NEW s, NEW e \in Engine, e.todo # << >>, Chain(s, e.todo, e.explicit)
    PROVE  /\ First(e).op \in {"exists", "scan", "fetch", "look"} =>
                First(e).key \in Tables /\ ~IsSystemKey(First(e).key)
           /\ Source(First(e)) \in Keys
           /\ First(e).op # "plan" => Source(First(e)) = First(e).key
           /\ First(e).op = "plan" => IsSystemKey(Source(First(e)))
<1>1. Len(e.todo) \in Nat /\ Len(e.todo) # 0
  BY FirstIs
<1>2. 1 \in 1 .. Len(e.todo)
  BY <1>1
<1>3. Possible(s, First(e))
  BY <1>2 DEF Chain, First
<1>4. /\ First(e).op \in {"exists", "scan", "fetch", "look"} =>
           First(e).key \in Tables /\ ~IsSystemKey(First(e).key)
  BY <1>3, RaftKVAssumption DEF Possible
<1>5. First(e).key \in Keys /\ System \in Keys /\ IsSystemKey(System)
  BY FirstIs, RaftKVAssumption DEF Keys
<1> QED
  BY <1>4, <1>5 DEF Source

(* The read is carried out, and the statement goes on or fails. *)
LEMMA FoundMoves ==
    ASSUME Typed, NEW c, NEW e \in Engine, TxOk(scenario, e), e.todo # << >>,
           Chain(scenario, e.todo, e.explicit), PhaseAt(e, First(e)),
           First(e).op \in Reads, Ready(scenario, e),
           e.tx # None /\ ~IsSystemKey(Source(First(e))) => Passed(e, Group(Source(First(e)))),
           Found(c, e)
    PROVE  \E n : Moved(c, e, n)
<1> DEFINE s == scenario
           r == ReadKey(e, Source(First(e)))
<1>0. /\ scenario \in Scenarios /\ First(e).key \in Keys /\ e.todo \in Seq(Operation)
      /\ Source(First(e)) \in Keys
  BY FirstIs, FirstPossible DEF Typed
<1>1. /\ r \in Engine /\ TxOk(s, r)
      /\ r.tx = e.tx /\ r.slot = e.slot /\ r.wgroup = e.wgroup
      /\ r.bound = e.bound /\ r.crossed = e.crossed /\ r.wrote = e.wrote
      /\ r.snap = e.snap /\ r.explicit = e.explicit /\ r.failed = e.failed
      /\ r.todo = e.todo /\ r.adrift = e.adrift
  BY <1>0, ReadKeyOk
<1>2. \/ First(e).op = "exists" /\ StatementFails(c, r)
      \/ First(e).op = "scan" /\ Go(c, [r EXCEPT !.todo = Unwritten(e)]) /\ slots' = slots
      \/ Go(c, r) /\ slots' = slots
  BY DEF Found, Reads
<1> HIDE DEF r
<1>3. ~e.failed /\ Ready(s, r) /\ First(r) = First(e)
  BY <1>1 DEF PhaseAt, Reads, AtHome, HomeAt, Ready, First
<1>4. CASE First(e).op = "exists" /\ StatementFails(c, r)
  <2>1. e.tx # None
    BY <1>4 DEF PhaseAt, Inside
  <2>2. \E n : Moved(c, r, n)
    BY <1>0, <1>1, <1>3, <1>4, <2>1, StatementFailsMoves
  <2> QED
    BY <1>1, <2>2, SameSlot
<1>5. CASE First(e).op = "scan" /\ Go(c, [r EXCEPT !.todo = Unwritten(e)]) /\ slots' = slots
  <2> DEFINE m == [r EXCEPT !.todo = Unwritten(e)]
  <2>1. First(e) \in Operation /\ Op("commit", First(e).key) \in Operation
    BY <1>0, FirstIs DEF Operation, Op, Ops
  <2>2. Unwritten(e) \in Seq(Operation) /\ Unwritten(e)[1] = First(e)
    BY <2>1 DEF Unwritten
  <2>3. m \in Engine
    BY <1>1, <2>2, Zenon DEF Engine
  <2>4. Alike(m, r) /\ m.todo = Unwritten(e)
    BY <1>1 DEF Engine, Alike
  <2> HIDE DEF m
  <2>5. Unwritten(e) # << >>
    BY <2>2 DEF Unwritten
  <2>6. Possible(s, First(e)) /\ Possible(s, Op("commit", First(e).key))
    <3>1. Len(e.todo) \in Nat /\ Len(e.todo) # 0
      BY FirstIs
    <3>2. 1 \in 1 .. Len(e.todo)
      BY <3>1
    <3> QED
      BY <3>2 DEF Chain, First, Possible, Op
  <2>7. Chain(s, m.todo, m.explicit)
    <3>1. CASE e.explicit
      <4>1. m.todo = <<First(e)>> /\ m.explicit
        BY <1>1, <2>4, <3>1 DEF Unwritten, Alike
      <4>2. Last(First(e), m.explicit)
        BY <1>5, <4>1 DEF Last
      <4>3. Len(m.todo) = 1 /\ m.todo[1] = First(e)
        BY <4>1
      <4>4. /\ \A i \in 1 .. Len(m.todo) - 1 : FALSE
            /\ \A i \in 1 .. Len(m.todo) : i = 1
        BY <4>3
      <4>5. \A i \in 1 .. Len(m.todo) : Possible(s, m.todo[i])
        BY <2>6, <4>3, <4>4
      <4>6. \A i \in 1 .. Len(m.todo) - 1 : Follows(m.todo[i], m.todo[i + 1], m.explicit)
        BY <4>4
      <4> QED
        BY <4>2, <4>3, <4>5, <4>6 DEF Chain
    <3>2. CASE ~e.explicit
      <4>1. m.todo = <<First(e), Op("commit", First(e).key)>> /\ ~m.explicit
        BY <1>1, <2>4, <3>2 DEF Unwritten, Alike
      <4>2. /\ Follows(First(e), Op("commit", First(e).key), m.explicit)
            /\ Last(Op("commit", First(e).key), m.explicit)
        BY <1>5, <4>1 DEF Follows, Last, Op
      <4>3. /\ Len(m.todo) = 2 /\ m.todo[1] = First(e)
            /\ m.todo[2] = Op("commit", First(e).key)
        BY <4>1
      <4>4. /\ \A i \in 1 .. Len(m.todo) - 1 : i = 1 /\ i + 1 = 2
            /\ \A i \in 1 .. Len(m.todo) : i = 1 \/ i = 2
        BY <4>3
      <4>5. \A i \in 1 .. Len(m.todo) - 1 : Follows(m.todo[i], m.todo[i + 1], m.explicit)
        BY <4>2, <4>3, <4>4
      <4>6. \A i \in 1 .. Len(m.todo) : Possible(s, m.todo[i])
        BY <2>6, <4>3, <4>4
      <4> QED
        BY <4>2, <4>3, <4>5, <4>6 DEF Chain
    <3> QED
      BY <3>1, <3>2
  <2>8. e.tx # None
    BY <1>5 DEF PhaseAt, Inside
  <2>9. /\ TxOk(s, m) /\ ~m.failed /\ m.tx # None /\ First(m) = First(e)
        /\ Ready(s, m)
    BY <1>1, <1>3, <1>5, <2>2, <2>4, <2>8, AlikeKeeps DEF Alike, First, Ready
  <2>10. Local(s, Went(m))
    BY <1>5, <2>3, <2>4, <2>5, <2>7, <2>9, GoInside
  <2>11. Went(m).slot = e.slot /\ Went(m).wgroup = e.wgroup
    BY <1>1, <2>3, <2>4, <2>5, WentFields DEF Alike
  <2>12. eng' = [eng EXCEPT ![c] = Went(m)]
    BY <1>5, ReturnIs DEF m
  <2> QED
    BY <1>5, <2>10, <2>11, <2>12 DEF Moved
<1>6. CASE Go(c, r) /\ slots' = slots
  <2>1. eng' = [eng EXCEPT ![c] = Went(r)]
    BY <1>6, ReturnIs
  <2>2. Went(r).slot = e.slot /\ Went(r).wgroup = e.wgroup
    BY <1>1, WentFields DEF Alike
  <2>3. CASE First(e).op \in {"plan", "exists", "scan", "get"}
    <3>1. e.tx # None
      BY <2>3 DEF PhaseAt, Inside
    <3>2. Local(s, Went(r))
      BY <1>1, <1>3, <2>3, <3>1, GoInside
    <3> QED
      BY <1>6, <2>1, <2>2, <3>2 DEF Moved
  <2>4. CASE First(e).op \in {"fetch", "look"}
    <3>1. ~(Len(e.todo) > 1)
      BY <1>0, <2>4, LastOne DEF First
    <3>2. AtRest(r)
      BY <1>1, <2>4 DEF PhaseAt, Inside, AtRest
    <3>3. Continues(s, r)
      BY <1>1, <1>3, <2>4, <3>1, <3>2 DEF Continues, Ready
    <3>4. Local(s, Went(r))
      BY <1>1, <3>3, GoLocal
    <3> QED
      BY <1>6, <2>1, <2>2, <3>4 DEF Moved
  <2> QED
    BY <2>3, <2>4 DEF Reads
<1> QED
  BY <1>2, <1>4, <1>5, <1>6

(* Only the call of the engine changes. *)
LEMMA CallLocal ==
    ASSUME NEW s, NEW e \in Engine, TxOk(s, e), e.todo # << >>,
           Chain(s, e.todo, e.explicit), PhaseAt(e, First(e)),
           HomeAt(s, e, First(e)),
           NEW n \in Engine, Alike(n, e), n.todo = e.todo, Calling(s, n)
    PROVE  Local(s, n)
<1>1. First(n) = First(e) /\ n.explicit = e.explicit
  BY DEF First, Alike
<1>2. TxOk(s, n)
  BY AlikeKeeps
<1>3. PhaseAt(n, First(n)) /\ HomeAt(s, n, First(n))
  BY <1>1, AlikeAt
<1> QED
  BY <1>1, <1>2, <1>3 DEF Local, Phase, Home

LEMMA LocalFacts ==
    ASSUME NEW s, NEW e, Local(s, e), e.todo # << >>
    PROVE  /\ e \in Engine /\ TxOk(s, e) /\ Chain(s, e.todo, e.explicit)
           /\ PhaseAt(e, First(e)) /\ Calling(s, e)
           /\ HomeAt(s, e, First(e))
  BY DEF Local, Phase, Home

(* get(), exists() and new_iterator(): refused, carried out, or waiting for *)
(* the barrier.                                                             *)
LEMMA ReadMoves ==
    ASSUME Typed, NEW c \in Connections, Local(scenario, eng[c]), eng[c].todo # << >>,
           First(eng[c]).op \in Reads,
           Read(c, Source(First(eng[c])), Group(Source(First(eng[c]))))
    PROVE  (\E n : Moved(c, eng[c], n)) /\ acked' = acked
<1> DEFINE s == scenario
           a == eng[c]
           key == Source(First(a))
           g == Group(key)
           checked == IF a.tx # None /\ ~IsSystemKey(key) THEN CheckGroup(c, a, g, FALSE)
                      ELSE [ok |-> TRUE, eng |-> a]
           e == checked.eng
<1>0. s \in Scenarios /\ acked \in Stamps
  BY DEF Typed
<1>1. /\ a \in Engine /\ TxOk(s, a) /\ Chain(s, a.todo, a.explicit)
      /\ PhaseAt(a, First(a)) /\ HomeAt(s, a, First(a))
  BY LocalFacts
<1>2. key \in Keys /\ g \in GroupsIn(s) /\ g = GroupIn(s, key) /\ ~a.failed
  BY <1>0, <1>1, FirstPossible, Deployment DEF Group, GroupIn, PhaseAt, Reads
<1>3. /\ e \in Engine /\ TxOk(s, e) /\ Kin(e, a)
      /\ checked.ok /\ e.tx # None /\ ~IsSystemKey(key) => Passed(e, g)
      /\ Ready(s, e)
  <2>1. CASE a.tx # None /\ ~IsSystemKey(key)
    <3> DEFINE r == CheckGroup(c, a, g, FALSE)
    <3>1. checked = r
      BY <2>1
    <3>2. /\ r.eng \in Engine /\ TxOk(s, r.eng) /\ Kin(r.eng, a)
          /\ r.ok => Passed(r.eng, g)
          /\ ~a.failed /\ AtHome(s, a) => AtHome(s, r.eng)
          /\ a.tx = {} /\ a.wgroup = g => AtHome(s, r.eng)
      BY <1>0, <1>1, <1>2, CheckGroupOk
    <3>3. \/ AtHome(s, a) \/ (a.tx = {} /\ a.wgroup = g)
          \/ First(a).op = "get" /\ a.tx = {}
      <4>1. First(a).op # "plan" /\ key = First(a).key
        BY <1>1, <2>1, FirstPossible
      <4> QED
        BY <1>1, <1>2, <2>1, <4>1 DEF HomeAt, Reads
    <3> HIDE DEF checked, r
    <3>4. Ready(s, r.eng)
      <4>1. First(r.eng) = First(a) /\ r.eng.tx = a.tx
        BY <3>2 DEF Kin, First
      <4> QED
        BY <1>2, <3>2, <3>3, <4>1 DEF Ready, HomeAt
    <3> QED
      BY <1>2, <3>1, <3>2, <3>4
  <2>2. CASE ~(a.tx # None /\ ~IsSystemKey(key))
    <3>1. e = a
      BY <2>2
    <3>2. Ready(s, a)
      <4>1. First(a).op \in {"exists", "scan"} => a.tx # None /\ ~IsSystemKey(key)
        BY <1>1, FirstPossible DEF PhaseAt, Inside
      <4> QED
        BY <1>1, <2>2, <4>1 DEF HomeAt, Reads, Ready
    <3> HIDE DEF checked
    <3> QED
      BY <1>1, <2>2, <3>1, <3>2 DEF Kin
  <2> QED
    BY <2>1, <2>2
<1>4. \/ Fail(c, e)
      \/ checked.ok /\ Found(c, e) /\ acked' = acked
      \/ checked.ok /\ Call(c, IF e.snap # None THEN e ELSE [e EXCEPT !.floor = acked], "read", g)
  BY DEF Read
<1> HIDE DEF checked, e, key, g
<1>5. /\ First(e) = First(a) /\ e.todo # << >> /\ Chain(s, e.todo, e.explicit)
      /\ PhaseAt(e, First(e)) /\ e.slot = a.slot /\ e.wgroup = a.wgroup
  BY <1>1, <1>3 DEF Kin, First, PhaseAt, AtRest
<1>6. CASE Fail(c, e)
  <2>1. (\E n : Moved(c, e, n)) /\ acked' = acked
    BY <1>0, <1>3, <1>5, <1>6, FailMoves DEF Reads
  <2> QED
    BY <1>5, <2>1, SameSlot
<1>7. CASE checked.ok /\ Found(c, e) /\ acked' = acked
  <2>1. \E n : Moved(c, e, n)
    BY <1>3, <1>5, <1>7, FoundMoves DEF key, g
  <2> QED
    BY <1>5, <1>7, <2>1, SameSlot
<1>8. CASE checked.ok /\ Call(c, IF e.snap # None THEN e ELSE [e EXCEPT !.floor = acked], "read", g)
  <2> DEFINE f == IF e.snap # None THEN e ELSE [e EXCEPT !.floor = acked]
             k == [kind |-> "read", group |-> g, stage |-> "queued", index |-> 0]
             n == [f EXCEPT !.call = k]
  <2>1. f \in Engine
    BY <1>0, <1>3, Zenon DEF Engine
  <2>2. Alike(f, e) /\ f.todo = e.todo
    BY <1>3 DEF Engine, Alike
  <2>3. k \in RaftCall /\ k # NoCall
    BY <1>0, <1>2, Deployment DEF RaftCall, NoCall
  <2> HIDE DEF f
  <2>4. n \in Engine
    BY <2>1, <2>3, Zenon DEF Engine
  <2>5. Alike(n, e) /\ n.todo = e.todo /\ n.call = k
    BY <2>1, <2>2 DEF Engine, Alike
  <2>6. eng' = [eng EXCEPT ![c] = n] /\ slots' = slots /\ acked' = acked
    BY <1>8 DEF Call, f
  <2>7. k.kind = "read" /\ k.group = g /\ k.stage = "queued"
    OBVIOUS
  <2> HIDE DEF n, k
  <2>8. Calling(s, n)
    <3>1. First(n) = First(a) /\ n.todo # << >> /\ n.call.group = GroupIn(s, Source(First(n)))
      BY <1>2, <1>5, <2>5, <2>7 DEF First, key
    <3>2. n.tx # None /\ ~IsSystemKey(Source(First(n))) => Passed(n, g)
      BY <1>3, <1>8, <2>5, <3>1 DEF Alike, Passed, key
    <3> QED
      BY <1>2, <2>5, <2>7, <3>1, <3>2 DEF Calling
  <2>9. HomeAt(s, e, First(e))
    BY <1>3 DEF HomeAt, Ready
  <2>10. Local(s, n)
    BY <1>3, <1>5, <2>4, <2>5, <2>8, <2>9, CallLocal
  <2> QED
    BY <1>5, <2>5, <2>6, <2>10 DEF Moved, Alike
<1> QED
  BY <1>4, <1>6, <1>7, <1>8

LEMMA ScanMoves ==
    ASSUME Typed, NEW c \in Connections, Local(scenario, eng[c]), OpScan(c)
    PROVE  (\E n : Moved(c, eng[c], n)) /\ acked' = acked
<1> DEFINE e == eng[c]
           key == First(e).key
           g == TableGroup(key)
<1>0. scenario \in Scenarios /\ e.todo # << >> /\ First(e).op \in {"scan", "fetch"}
  BY DEF Typed, OpScan, Running
<1>1. /\ e \in Engine /\ TxOk(scenario, e) /\ Chain(scenario, e.todo, e.explicit)
      /\ PhaseAt(e, First(e)) /\ HomeAt(scenario, e, First(e))
  BY <1>0, LocalFacts
<1>2. CASE g = CrossesGroups
  <2>1. Fail(c, e)
    BY <1>2 DEF OpScan
  <2>2. Ready(scenario, e) \/ First(e).op = "scan"
    BY <1>0, <1>1 DEF HomeAt, Ready
  <2> QED
    BY <1>0, <1>1, <2>1, <2>2, FailMoves
<1>3. CASE g # CrossesGroups
  <2>1. key \in Keys
    BY <1>0, <1>1, FirstIs
  <2>2. g = Group(key)
    BY <1>0, <1>3, <2>1, TableGroupIs
  <2>3. Read(c, key, Group(key)) /\ key = Source(First(e))
    BY <1>0, <1>3, <2>2 DEF OpScan, Source
  <2> QED
    BY <1>0, <2>3, ReadMoves DEF Reads
<1> QED
  BY <1>2, <1>3

(* A step that gives connection c the free slot of group g. *)
Took(c, e, n, g) ==
    /\ eng' = [eng EXCEPT ![c] = n]
    /\ Local(scenario, n)
    /\ ~slots[g].held /\ n.slot /\ n.wgroup = g
    /\ slots' = [slots EXCEPT ![g] = [held |-> TRUE, owner |-> c]]
Steps(c, e) == \E n : Moved(c, e, n) \/ \E g \in Groups : Took(c, e, n, g)

(* acquire_write_slot(). *)
LEMMA SlotGiven ==
    ASSUME NEW c, NEW e \in Engine, NEW g \in Int, AcquireWriteSlot(c, e, g).ok
    PROVE  LET r == AcquireWriteSlot(c, e, g)
           IN  /\ r.eng \in Engine /\ r.eng.slot
               /\ r.eng.wgroup = IF e.slot THEN e.wgroup ELSE g
               /\ r.eng.tx = e.tx /\ r.eng.bound = e.bound /\ r.eng.crossed = e.crossed
               /\ r.eng.wrote = e.wrote /\ r.eng.explicit = e.explicit
               /\ r.eng.failed = e.failed /\ r.eng.touched = e.touched
               /\ r.eng.todo = e.todo /\ r.eng.call = e.call /\ r.eng.adrift = e.adrift
               /\ r.eng.snap \in {e.snap, None}
               /\ IF e.slot THEN r.slots = slots
                  ELSE /\ ~slots[g].held
                       /\ r.slots = [slots EXCEPT ![g] = [held |-> TRUE, owner |-> c]]
<1> DEFINE r == AcquireWriteSlot(c, e, g)
<1>1. CASE e.slot
  BY <1>1 DEF AcquireWriteSlot
<1>2. CASE ~e.slot
  <2> DEFINE n == [e EXCEPT !.slot = TRUE, !.wgroup = g, !.snap = None]
  <2>1. n \in Engine
    BY Zenon DEF Engine
  <2>2. /\ n.slot /\ n.wgroup = g /\ n.tx = e.tx /\ n.bound = e.bound
        /\ n.crossed = e.crossed /\ n.wrote = e.wrote /\ n.explicit = e.explicit
        /\ n.failed = e.failed /\ n.touched = e.touched /\ n.todo = e.todo
        /\ n.call = e.call /\ n.snap = None /\ n.adrift = e.adrift
    BY DEF Engine
  <2>3. /\ r.eng = n /\ ~slots[g].held
        /\ r.slots = [slots EXCEPT ![g] = [held |-> TRUE, owner |-> c]]
    BY <1>2 DEF AcquireWriteSlot
  <2>4. n.snap \in {e.snap, None}
    BY <2>2
  <2> HIDE DEF n, r
  <2> QED
    BY <1>2, <2>1, <2>2, <2>3, <2>4 DEF r
<1> QED
  BY <1>1, <1>2

(* begin of a write statement. *)
LEMMA SlotSteps ==
    ASSUME Typed, NEW c \in Connections, Local(scenario, eng[c]), OpSlot(c)
    PROVE  Steps(c, eng[c]) /\ acked' = acked
<1> DEFINE s == scenario
           e == eng[c]
           o == First(e)
           g == Group(o.key)
           got == AcquireWriteSlot(c, e, g)
           n == got.eng
<1>0. s \in Scenarios /\ e.todo # << >> /\ o.op = "slot"
  BY DEF Typed, OpSlot, Running
<1>1. /\ e \in Engine /\ TxOk(s, e) /\ Chain(s, e.todo, e.explicit)
      /\ PhaseAt(e, o) /\ HomeAt(s, e, o)
  BY <1>0, LocalFacts
<1>2. /\ AtRest(e) /\ ~e.failed /\ AtHome(s, e)
  BY <1>0, <1>1 DEF PhaseAt, Inside, HomeAt
<1>3. g \in GroupsIn(s) /\ g \in Int /\ g \in Groups /\ g = GroupIn(s, o.key)
  BY <1>0, <1>1, FirstIs, Deployment DEF Group, GroupIn, Groups, GroupsIn
<1>4. CASE ~got.ok
  <2>1. Fail(c, e)
    BY <1>4 DEF OpSlot
  <2>2. (\E m : Moved(c, e, m)) /\ acked' = acked
    BY <1>0, <1>1, <1>2, <2>1, FailMoves DEF Ready
  <2> QED
    BY <2>2 DEF Steps
<1>5. CASE got.ok
  <2>1. Go(c, n) /\ slots' = got.slots /\ acked' = acked
    BY <1>5 DEF OpSlot
  <2>2. /\ n \in Engine /\ n.slot
        /\ n.wgroup = (IF e.slot THEN e.wgroup ELSE g)
        /\ n.tx = e.tx /\ n.bound = e.bound /\ n.crossed = e.crossed
        /\ n.wrote = e.wrote /\ n.explicit = e.explicit
        /\ n.failed = e.failed /\ n.touched = e.touched
        /\ n.todo = e.todo /\ n.call = e.call /\ n.adrift = e.adrift
        /\ n.snap \in {e.snap, None}
        /\ IF e.slot THEN got.slots = slots
           ELSE /\ ~slots[g].held
                /\ got.slots = [slots EXCEPT ![g] = [held |-> TRUE, owner |-> c]]
    BY <1>1, <1>3, <1>5, SlotGiven
  <2> HIDE DEF n, got
  <2>3. TxOk(s, n)
    BY <1>1, <1>3, <2>2 DEF TxOk
  <2>4. e.todo \in Seq(Operation) /\ Len(e.todo) \in Nat /\ Len(e.todo) # 0
    BY <1>0, <1>1, FirstIs
  <2>5. Len(e.todo) > 1
    <3>1. SUFFICES ASSUME ~(Len(e.todo) > 1) PROVE FALSE
      OBVIOUS
    <3>2. Len(e.todo) = 1
      BY <2>4, <3>1, IsOne
    <3>3. Last(e.todo[1], e.explicit)
      BY <1>0, <1>1, <3>2 DEF Chain
    <3> QED
      BY <1>0, <3>3 DEF Last, First
  <2> DEFINE p == e.todo[2]
  <2>6. Follows(o, p, e.explicit)
    BY <1>1, <2>4, <2>5, ChainTail DEF First
  <2>7. PhaseAt(n, p)
    <3>1. CASE ~e.explicit
      <4>1. p.op = "auto" /\ e.tx = None
        BY <1>0, <1>2, <2>6, <3>1 DEF Follows, Op, AtRest
      <4> QED
        BY <1>2, <2>2, <4>1 DEF PhaseAt
    <3>2. CASE e.explicit
      <4>1. p.op \in {"plan", "write", "get", "clear"} /\ e.tx # None
        BY <1>0, <1>2, <2>6, <3>2 DEF Follows, Opens, AtRest
      <4> QED
        BY <1>2, <2>2, <4>1 DEF PhaseAt, Inside
    <3> QED
      BY <3>1, <3>2
  <2>8. HomeAt(s, n, p)
    <3>1. CASE e.slot
      <4>1. AtHome(s, n)
        BY <1>2, <2>2, <3>1 DEF AtHome
      <4> QED
        BY <4>1 DEF HomeAt
    <3>2. CASE ~e.slot
      <4>1. n.tx \in {None, {}} /\ n.wgroup = g
        BY <1>1, <2>2, <3>2 DEF TxOk
      <4>3. CASE ~e.explicit
        <5>1. p.op = "auto" /\ p.key = o.key
          BY <1>0, <2>6, <4>3 DEF Follows, Op
        <5> QED
          BY <1>3, <4>1, <5>1 DEF HomeAt
      <4>4. CASE e.explicit
        <5>1. Opens(o.key, p)
          BY <1>0, <2>6, <4>4 DEF Follows
        <5>2. n.tx = {}
          BY <1>2, <2>2, <4>1, <4>4 DEF AtRest
        <5> QED
          BY <1>3, <4>1, <5>1, <5>2 DEF HomeAt, Opens
      <4> QED
        BY <4>3, <4>4
    <3> QED
      BY <3>1, <3>2
  <2>9. Local(s, Went(n)) /\ Went(n).slot /\ Went(n).wgroup = n.wgroup
    <3>1. Continues(s, n)
      BY <2>2, <2>5, <2>7, <2>8 DEF Continues
    <3>2. n.todo # << >> /\ Chain(s, n.todo, n.explicit)
      BY <1>0, <1>1, <2>2
    <3>3. Local(s, Went(n))
      BY <2>2, <2>3, <3>1, <3>2, GoLocal
    <3> QED
      BY <2>2, <3>2, <3>3, WentFields DEF Alike
  <2>10. eng' = [eng EXCEPT ![c] = Went(n)]
    BY <2>1, ReturnIs
  <2>11. CASE e.slot
    <3>1. Moved(c, e, Went(n))
      BY <2>1, <2>2, <2>9, <2>10, <2>11 DEF Moved
    <3> QED
      BY <2>1, <3>1 DEF Steps
  <2>12. CASE ~e.slot
    <3>1. Took(c, e, Went(n), g)
      BY <2>1, <2>2, <2>9, <2>10, <2>12 DEF Took
    <3> QED
      BY <1>3, <2>1, <3>1 DEF Steps
  <2> QED
    BY <2>11, <2>12
<1> QED
  BY <1>4, <1>5

(* write_batch(): the group checked is the group of the slot, or nothing is *)
(* written.                                                                 *)
Wrote(e, key, fresh) ==
    [e EXCEPT !.tx = @ \cup {key}, !.wrote = TRUE, !.touched = @ \cup {Group(key)},
              !.fresh = IF fresh THEN @ \cup {key} ELSE @]

LEMMA WroteFields ==
    ASSUME NEW e \in Engine, e.tx # None, NEW key \in Keys, Group(key) \in Int, NEW fresh
    PROVE  LET n == Wrote(e, key, fresh)
           IN  /\ n \in Engine /\ n.tx = e.tx \cup {key} /\ n.wrote
               /\ n.touched = e.touched \cup {Group(key)}
               /\ n.slot = e.slot /\ n.wgroup = e.wgroup /\ n.bound = e.bound
               /\ n.crossed = e.crossed /\ n.snap = e.snap /\ n.explicit = e.explicit
               /\ n.failed = e.failed /\ n.todo = e.todo /\ n.adrift = e.adrift
<1> DEFINE fr == IF fresh THEN e.fresh \cup {key} ELSE e.fresh
           tx == e.tx \cup {key}
           to == e.touched \cup {Group(key)}
           n == Wrote(e, key, fresh)
<1>1. fr \in SUBSET Keys /\ tx \in SUBSET Keys /\ to \in SUBSET Int
  BY EngineFields
<1>2. n = [e EXCEPT !.tx = tx, !.wrote = TRUE, !.touched = to, !.fresh = fr]
  BY DEF Wrote
<1> HIDE DEF n, fr, tx, to
<1>3. n \in Engine
  BY <1>1, <1>2, Zenon DEF Engine
<1>4. /\ n.tx = tx /\ n.wrote /\ n.touched = to
      /\ n.slot = e.slot /\ n.wgroup = e.wgroup /\ n.bound = e.bound
      /\ n.crossed = e.crossed /\ n.snap = e.snap /\ n.explicit = e.explicit
      /\ n.failed = e.failed /\ n.todo = e.todo /\ n.adrift = e.adrift
  BY <1>2 DEF Engine
<1> QED
  BY <1>3, <1>4 DEF n, tx, to

LEMMA WriteSteps ==
    ASSUME Typed, NEW c \in Connections, Local(scenario, eng[c]), OpWrite(c)
    PROVE  Steps(c, eng[c]) /\ acked' = acked
<1> DEFINE s == scenario
           a == eng[c]
           o == First(a)
           key == o.key
           w == WriteGroup(o)
           g == Group(key)
           checked == CheckGroup(c, a, g, TRUE)
           e == checked.eng
           got == AcquireWriteSlot(c, e, g)
           m == got.eng
           n == Wrote(m, key, o.op = "put")
<1>0. s \in Scenarios /\ a.todo # << >> /\ o.op \in {"put", "write", "touch", "clear"}
  BY DEF Typed, OpWrite, Running
<1>1. /\ a \in Engine /\ TxOk(s, a) /\ Chain(s, a.todo, a.explicit)
      /\ PhaseAt(a, o) /\ HomeAt(s, a, o)
  BY <1>0, LocalFacts
<1>2. /\ key \in Keys /\ a.todo \in Seq(Operation) /\ Len(a.todo) \in Nat /\ Len(a.todo) # 0
      /\ ~a.failed /\ a.tx # None
  BY <1>0, <1>1, FirstIs DEF PhaseAt, Inside
<1>3. g \in GroupsIn(s) /\ g \in Int /\ g # None /\ g \in Groups /\ g = GroupIn(s, key)
  BY <1>0, <1>2, Deployment, NoneIsNothing DEF Group, GroupIn, Groups, GroupsIn
<1>4. CASE w = CrossesGroups
  <2>1. Fail(c, a) /\ o.op = "clear"
    <3>1. g # CrossesGroups
      BY <1>0, <1>3, Deployment
    <3> QED
      BY <1>0, <1>4, <3>1 DEF OpWrite, WriteGroup
  <2>2. (\E r : Moved(c, a, r)) /\ acked' = acked
    BY <1>0, <1>1, <2>1, FailMoves
  <2> QED
    BY <2>2 DEF Steps
<1>5. CASE w # CrossesGroups
  <2>1. w = g
    BY <1>0, <1>2, <1>5, TableGroupIs DEF WriteGroup
  <2>2. /\ e \in Engine /\ TxOk(s, e) /\ Kin(e, a)
        /\ checked.ok => e.bound = g /\ ~e.crossed
        /\ a.crossed \/ a.bound \notin {None, g} => ~checked.ok
        /\ AtHome(s, a) => AtHome(s, e)
    BY <1>0, <1>1, <1>2, <1>3, CheckGroupOk
  <2>3. IF checked.ok /\ got.ok
        THEN Go(c, n) /\ slots' = got.slots /\ acked' = acked
        ELSE Fail(c, e)
    BY <1>0, <1>5, <2>1 DEF OpWrite, Wrote
  <2> HIDE DEF checked, e
  <2>4. /\ First(e) = o /\ e.todo # << >> /\ Chain(s, e.todo, e.explicit)
        /\ PhaseAt(e, First(e)) /\ e.slot = a.slot /\ e.wgroup = a.wgroup
        /\ e.todo = a.todo /\ e.tx = a.tx /\ ~e.failed
    BY <1>0, <1>1, <1>2, <2>2 DEF Kin, First, PhaseAt, AtRest
  <2>5. CASE ~(checked.ok /\ got.ok)
    <3>1. Ready(s, e) \/ o.op \in {"put", "write", "clear"}
      BY <1>0, <1>1, <2>2 DEF HomeAt, Ready
    <3>2. (\E r : Moved(c, e, r)) /\ acked' = acked
      BY <1>0, <2>2, <2>3, <2>4, <2>5, <3>1, FailMoves
    <3>3. \E r : Moved(c, a, r)
      BY <2>4, <3>2, SameSlot
    <3> QED
      BY <3>2, <3>3 DEF Steps
  <2>6. CASE checked.ok /\ got.ok
    <3>1. /\ m \in Engine /\ m.slot
          /\ m.wgroup = (IF e.slot THEN e.wgroup ELSE g)
          /\ m.tx = e.tx /\ m.bound = e.bound /\ m.crossed = e.crossed
          /\ m.wrote = e.wrote /\ m.explicit = e.explicit
          /\ m.failed = e.failed /\ m.touched = e.touched
          /\ m.todo = e.todo /\ m.adrift = e.adrift
          /\ IF e.slot THEN got.slots = slots
             ELSE /\ ~slots[g].held
                  /\ got.slots = [slots EXCEPT ![g] = [held |-> TRUE, owner |-> c]]
      BY <1>3, <2>2, <2>6, SlotGiven
    <3> HIDE DEF m
    <3>2. /\ n \in Engine /\ n.tx = a.tx \cup {key} /\ n.wrote
          /\ n.touched = e.touched \cup {g} /\ n.slot
          /\ n.wgroup = (IF a.slot THEN a.wgroup ELSE g)
          /\ n.bound = g /\ ~n.crossed /\ n.explicit = e.explicit
          /\ ~n.failed /\ n.todo = a.todo /\ n.adrift = a.adrift
      BY <1>2, <1>3, <2>2, <2>4, <2>6, <3>1, WroteFields DEF Kin
    <3> HIDE DEF n, got
    <3>3. TxOk(s, n)
      <4>1. e.touched \subseteq {g}
        BY <2>2, <2>6 DEF TxOk
      <4>2. n.tx # None /\ n.tx # {}
        <5>1. n.tx \in SUBSET Keys
          BY <1>2, <3>2, EngineFields, <1>1
        <5> QED
          BY <3>2, <5>1, NoneIsNothing
      <4>3. n.wgroup \in GroupsIn(s)
        BY <1>1, <1>3, <3>2 DEF TxOk
      <4> QED
        BY <1>3, <3>2, <4>1, <4>2, <4>3 DEF TxOk
    <3>4. Chain(s, n.todo, n.explicit) /\ n.todo # << >> /\ First(n) = o
      BY <1>0, <1>1, <2>2, <3>2 DEF Kin, First
    <3>5. ASSUME ~AtHome(s, n)
          PROVE  o.op = "clear" /\ n.bound \notin {None, GroupIn(s, System)}
      <4>1. n.tx \in SUBSET Keys /\ n.tx # None
        BY <1>1, <1>2, <3>2, EngineFields, NoneIsNothing
      <4>2. a.slot
        <5>1. SUFFICES ASSUME ~a.slot PROVE FALSE
          OBVIOUS
        <5>2. a.tx = {}
          BY <1>1, <1>2, <5>1 DEF TxOk
        <5> QED
          BY <1>3, <3>2, <3>5, <4>1, <5>1, <5>2 DEF AtHome
      <4>3. ~a.crossed /\ (a.bound = None \/ a.bound = g)
        BY <2>2, <2>6
      <4>4. ~AtHome(s, a)
        <5>1. SUFFICES ASSUME AtHome(s, a) PROVE FALSE
          OBVIOUS
        <5>4. ~a.adrift
          BY <3>2, <3>5 DEF AtHome
        <5>2. a.bound = a.wgroup /\ \A k \in a.tx : GroupIn(s, k) = a.wgroup
          BY <1>2, <4>2, <4>3, <5>1, <5>4 DEF AtHome
        <5>3. a.wgroup # None
          BY <1>0, <1>1, <4>2, Deployment, NoneIsNothing DEF TxOk
        <5> QED
          BY <1>3, <3>2, <3>5, <4>1, <4>2, <4>3, <5>2, <5>3 DEF AtHome
      <4>5. CASE a.tx = {} /\ g = a.wgroup
        BY <1>3, <3>2, <3>5, <4>1, <4>2, <4>5 DEF AtHome
      <4>6. CASE o.op = "clear" /\ a.tx = {} /\ GroupIn(s, System) = a.wgroup /\ g # a.wgroup
        BY <1>3, <3>2, <4>6
      <4>7. CASE a.bound \notin {None, GroupIn(s, System)} /\ key = System
        BY <1>3, <4>3, <4>7
      <4> QED
        BY <1>0, <1>1, <1>2, <1>3, <3>5, <4>4, <4>5, <4>6, <4>7 DEF HomeAt
    <3>6. Local(s, Went(n))
      <4>1. CASE AtHome(s, n)
        <5>1. n.tx # None
          BY <3>2, <3>3 DEF TxOk
        <5> QED
          BY <1>0, <3>2, <3>3, <3>4, <4>1, <5>1, GoInside DEF Ready
      <4>2. CASE ~AtHome(s, n)
        <5>1. o.op = "clear" /\ n.bound \notin {None, GroupIn(s, System)}
          BY <3>5, <4>2
        <5>2. Len(n.todo) > 1
          <6>1. SUFFICES ASSUME ~(Len(n.todo) > 1) PROVE FALSE
            OBVIOUS
          <6>2. Len(n.todo) = 1
            BY <1>2, <3>2, <6>1, IsOne
          <6>3. Last(n.todo[1], n.explicit)
            BY <3>4, <6>2 DEF Chain
          <6> QED
            BY <3>4, <5>1, <6>3 DEF Last, First
        <5>3. Follows(n.todo[1], n.todo[2], n.explicit)
          BY <1>2, <3>2, <3>4, <5>2, ChainTail
        <5>4. n.todo[2] = Op("write", System)
          BY <3>4, <5>1, <5>3 DEF Follows, First
        <5>5. n.tx # None
          BY <3>2, <3>3 DEF TxOk
        <5>6. PhaseAt(n, n.todo[2]) /\ HomeAt(s, n, n.todo[2])
          BY <3>2, <5>1, <5>4, <5>5 DEF PhaseAt, HomeAt, Inside, Op
        <5>7. Continues(s, n)
          BY <5>2, <5>6 DEF Continues
        <5> QED
          BY <3>2, <3>3, <3>4, <5>7, GoLocal
      <4> QED
        BY <4>1, <4>2
    <3>7. /\ eng' = [eng EXCEPT ![c] = Went(n)]
          /\ Went(n).slot /\ Went(n).wgroup = n.wgroup
      BY <2>3, <2>6, <3>2, <3>4, ReturnIs, WentFields DEF Alike
    <3>8. CASE a.slot
      <4>1. Moved(c, a, Went(n))
        BY <2>3, <2>4, <2>6, <3>1, <3>2, <3>6, <3>7, <3>8 DEF Moved
      <4> QED
        BY <2>3, <2>6, <4>1 DEF Steps
    <3>9. CASE ~a.slot
      <4>1. Took(c, a, Went(n), g)
        BY <2>3, <2>4, <2>6, <3>1, <3>2, <3>6, <3>7, <3>9 DEF Took
      <4> QED
        BY <1>3, <2>3, <2>6, <4>1 DEF Steps
    <3> QED
      BY <3>8, <3>9
  <2> QED
    BY <2>5, <2>6
<1> QED
  BY <1>4, <1>5

(* begin_transaction(). *)
LEMMA BegunFields ==
    ASSUME Typed, NEW e \in Engine
    PROVE  LET n == Begun(e)
           IN  /\ n \in Engine /\ n.tx = {} /\ n.bound = None /\ ~n.crossed /\ ~n.wrote
               /\ n.touched = {} /\ n.slot = e.slot /\ n.wgroup = e.wgroup
               /\ n.failed = e.failed /\ n.todo = e.todo /\ n.adrift = e.adrift
               /\ n.explicit = (e.explicit \/ First(e).op = "begin")
<1> DEFINE pr == IF SingleGroup THEN {0} ELSE {}
           ex == e.explicit \/ First(e).op = "begin"
           n == [e EXCEPT !.tx = {}, !.snap = disk.store, !.bound = None,
                          !.crossed = FALSE, !.wrote = FALSE, !.touched = {},
                          !.proven = pr, !.explicit = ex]
<1>1. pr \in SUBSET Int /\ ex \in BOOLEAN /\ disk.store \in Stamps
  BY EngineFields DEF Typed, Stored
<1>2. Begun(e) = n
  BY DEF Begun
<1> HIDE DEF pr, ex
<1>3. n \in Engine
  BY <1>1, Zenon DEF Engine
<1>4. /\ n.tx = {} /\ n.bound = None /\ ~n.crossed /\ ~n.wrote
      /\ n.touched = {} /\ n.slot = e.slot /\ n.wgroup = e.wgroup
      /\ n.failed = e.failed /\ n.todo = e.todo /\ n.explicit = ex
      /\ n.adrift = e.adrift
  BY DEF Engine
<1> HIDE DEF n
<1> QED
  BY <1>2, <1>3, <1>4 DEF ex

LEMMA BegunLocal ==
    ASSUME Typed, NEW e \in Engine, TxOk(scenario, e), e.todo # << >>,
           Chain(scenario, e.todo, e.explicit), PhaseAt(e, First(e)),
           HomeAt(scenario, e, First(e)),
           First(e).op \in {"begin", "auto"}
    PROVE  /\ Local(scenario, Went(Begun(e)))
           /\ Went(Begun(e)).slot = e.slot /\ Went(Begun(e)).wgroup = e.wgroup
<1> DEFINE s == scenario
           n == Begun(e)
           o == First(e)
<1>0. s \in Scenarios /\ e.todo \in Seq(Operation) /\ Len(e.todo) \in Nat /\ Len(e.todo) # 0
  BY FirstIs DEF Typed
<1>1. /\ n \in Engine /\ n.tx = {} /\ n.bound = None /\ ~n.crossed /\ ~n.wrote
      /\ n.touched = {} /\ n.slot = e.slot /\ n.wgroup = e.wgroup
      /\ n.failed = e.failed /\ n.todo = e.todo /\ n.adrift = e.adrift
      /\ n.explicit = (e.explicit \/ o.op = "begin")
  BY BegunFields
<1> HIDE DEF n
<1>2. ~e.failed /\ {} # None
  BY NoneIsNothing DEF PhaseAt
<1>3. TxOk(s, n)
  BY <1>1, <1>2 DEF TxOk
<1>4. Went(n).slot = e.slot /\ Went(n).wgroup = e.wgroup
  BY <1>1, WentFields DEF Alike
<1>5. CASE o.op = "begin"
  <2>1. ~(Len(e.todo) > 1) /\ ~e.explicit
    BY <1>0, <1>5, LastOne DEF First, Last
  <2>2. ~e.slot
    BY <1>5, <2>1 DEF PhaseAt, Inside, AtRest
  <2>3. AtRest(n) /\ AtHome(s, n)
    BY <1>1, <1>2, <1>5, <2>2 DEF AtRest, AtHome
  <2>4. Local(s, Returned(n))
    BY <1>1, <1>3, <2>3, ReturnLocal
  <2> QED
    BY <1>1, <1>4, <2>1, <2>4 DEF Went, n
<1>6. CASE o.op = "auto"
  <2>1. e.tx = None /\ o.op # "begin"
    BY <1>6 DEF PhaseAt
  <2>2. Len(e.todo) > 1
    <3>1. SUFFICES ASSUME ~(Len(e.todo) > 1) PROVE FALSE
      OBVIOUS
    <3>2. Len(e.todo) = 1
      BY <1>0, <3>1, IsOne
    <3>3. Last(e.todo[1], e.explicit)
      BY <3>2 DEF Chain
    <3> QED
      BY <1>6, <3>3 DEF Last, First
  <2> DEFINE p == e.todo[2]
  <2>3. Follows(o, p, e.explicit)
    BY <1>0, <2>2, ChainTail DEF First
  <2>4. Opens(o.key, p) /\ ~e.explicit
    BY <1>6, <2>3 DEF Follows
  <2>5. PhaseAt(n, p)
    BY <1>1, <1>2, <2>4 DEF PhaseAt, Inside, Opens
  <2>6. HomeAt(s, n, p)
    <3>2. CASE ~e.slot \/ e.adrift
      BY <1>1, <3>2 DEF HomeAt, AtHome
    <3>3. CASE e.slot /\ ~e.adrift
      <4>1. GroupIn(s, o.key) = e.wgroup
        <5>1. ~(e.crossed /\ e.tx = {})
          BY <1>2, <2>1
        <5> QED
          BY <1>2, <1>6, <2>1, <3>3, <5>1 DEF HomeAt, AtHome
      <4> QED
        BY <1>1, <2>4, <4>1 DEF HomeAt, Opens
    <3> QED
      BY <3>2, <3>3
  <2>7. Continues(s, n)
    BY <1>1, <2>2, <2>5, <2>6 DEF Continues
  <2>8. Chain(s, n.todo, n.explicit) /\ n.todo # << >>
    <3>1. n.explicit = e.explicit
      BY <1>1, <2>1, EngineFields
    <3> QED
      BY <1>1, <3>1
  <2>9. Local(s, Went(n))
    BY <1>1, <1>3, <2>7, <2>8, GoLocal
  <2> QED
    BY <1>4, <2>9 DEF n
<1> QED
  BY <1>5, <1>6

LEMMA BeginMoves ==
    ASSUME Typed, NEW c \in Connections, Local(scenario, eng[c]), OpBegin(c)
    PROVE  (\E n : Moved(c, eng[c], n)) /\ acked' = acked
<1> DEFINE s == scenario
           a == eng[c]
           e == [a EXCEPT !.floor = acked]
<1>0. /\ s \in Scenarios /\ acked \in Stamps
      /\ a.todo # << >> /\ First(a).op \in {"begin", "auto"}
  BY DEF Typed, OpBegin, Running
<1>1. /\ a \in Engine /\ TxOk(s, a) /\ Chain(s, a.todo, a.explicit)
      /\ PhaseAt(a, First(a)) /\ HomeAt(s, a, First(a))
  BY <1>0, LocalFacts
<1>2. e \in Engine
  BY <1>0, <1>1, Zenon DEF Engine
<1>3. Alike(e, a) /\ e.todo = a.todo
  BY <1>1 DEF Engine, Alike
<1>4. IF SingleGroup THEN Call(c, e, "read", 0)
      ELSE Go(c, Begun(e)) /\ slots' = slots /\ acked' = acked
  BY DEF OpBegin
<1> HIDE DEF e
<1>5. /\ TxOk(s, e) /\ First(e) = First(a) /\ Chain(s, e.todo, e.explicit)
      /\ PhaseAt(e, First(e)) /\ HomeAt(s, e, First(e))
      /\ e.slot = a.slot /\ e.wgroup = a.wgroup /\ e.todo # << >>
  <2>1. First(e) = First(a) /\ e.explicit = a.explicit /\ e.slot = a.slot /\ e.wgroup = a.wgroup
    BY <1>3 DEF First, Alike
  <2>2. TxOk(s, e)
    BY <1>1, <1>3, AlikeKeeps
  <2>3. PhaseAt(e, First(a)) /\ HomeAt(s, e, First(a))
    BY <1>1, <1>3, AlikeAt
  <2> QED
    BY <1>0, <1>1, <1>3, <2>1, <2>2, <2>3
<1>6. CASE ~SingleGroup
  <2>1. eng' = [eng EXCEPT ![c] = Went(Begun(e))] /\ slots' = slots /\ acked' = acked
    BY <1>4, <1>6, ReturnIs
  <2>2. /\ Local(s, Went(Begun(e)))
        /\ Went(Begun(e)).slot = e.slot /\ Went(Begun(e)).wgroup = e.wgroup
    BY <1>0, <1>2, <1>5, BegunLocal
  <2> QED
    BY <1>5, <2>1, <2>2 DEF Moved
<1>7. CASE SingleGroup
  <2> DEFINE k == [kind |-> "read", group |-> 0, stage |-> "queued", index |-> 0]
             n == [e EXCEPT !.call = k]
  <2>1. k \in RaftCall /\ k # NoCall
    BY DEF RaftCall, NoCall
  <2>2. k.kind = "read" /\ k.group = 0 /\ k.stage = "queued"
    OBVIOUS
  <2>3. eng' = [eng EXCEPT ![c] = n] /\ slots' = slots /\ acked' = acked
    BY <1>4, <1>7 DEF Call
  <2> HIDE DEF k
  <2>4. n \in Engine
    BY <1>2, <2>1, Zenon DEF Engine
  <2>5. Alike(n, e) /\ n.todo = e.todo /\ n.call = k
    BY <1>2 DEF Engine, Alike
  <2> HIDE DEF n
  <2>6. Calling(s, n)
    <3>1. First(n) = First(a) /\ n.todo # << >>
      BY <1>5, <2>5 DEF First
    <3>2. GroupCount(s.router) = 1 /\ 0 \in GroupsIn(s)
      BY <1>0, <1>7, Deployment DEF SingleGroup
    <3> QED
      BY <1>0, <2>2, <2>5, <3>1, <3>2 DEF Calling
  <2>7. Local(s, n)
    BY <1>2, <1>5, <2>4, <2>5, <2>6, CallLocal
  <2> QED
    BY <1>5, <2>3, <2>5, <2>7 DEF Moved, Alike
<1> QED
  BY <1>6, <1>7

-----------------------------------------------------------------------------
(* The transaction is over. *)
LEMMA DoneMoves ==
    ASSUME scenario \in Scenarios, NEW c, NEW e \in Engine, e.todo # << >>,
           Chain(scenario, e.todo, e.explicit), First(e).op \in {"end", "commit", "rollback"},
           NEW n \in Engine, n = [Ended(e) EXCEPT !.explicit = FALSE, !.failed = FALSE],
           Go(c, n), slots' = SlotsWithout(c, e)
    PROVE  \E m : Moved(c, e, m)
<1>1. /\ Ended(e) \in Engine /\ Freed(Ended(e)) /\ Ended(e).todo = e.todo
  BY EndedFields
<1>2. Freed(n) /\ ~n.explicit /\ ~n.failed /\ n.todo = e.todo
  BY <1>1 DEF Engine, Freed
<1>3. ~(Len(e.todo) > 1)
  BY FirstIs, LastOne DEF First
<1>4. Went(n) = Returned(n)
  BY <1>2, <1>3 DEF Went
<1>5. Local(scenario, Went(n)) /\ ~Went(n).slot
  BY <1>2, <1>4, FreedLocal, ReturnedFields DEF Alike, Freed
<1>6. eng' = [eng EXCEPT ![c] = Went(n)]
  BY ReturnIs
<1> QED
  BY <1>5, <1>6 DEF Moved

LEMMA EndedDone ==
    ASSUME NEW e \in Engine
    PROVE  /\ [Ended(e) EXCEPT !.explicit = FALSE, !.failed = FALSE] \in Engine
           /\ ~e.failed => [Ended(e) EXCEPT !.explicit = FALSE] =
                             [Ended(e) EXCEPT !.explicit = FALSE, !.failed = FALSE]
<1> DEFINE d == Ended(e)
<1>1. d \in Engine /\ d.failed = e.failed
  BY EndedFields
<1> HIDE DEF d
<1>2. [d EXCEPT !.explicit = FALSE, !.failed = FALSE] \in Engine
  BY <1>1, ZenonT(40) DEF Engine
<1>3. ~e.failed => [d EXCEPT !.explicit = FALSE] =
                     [d EXCEPT !.explicit = FALSE, !.failed = FALSE]
  BY <1>1, EngineFields DEF Engine
<1> QED
  BY <1>2, <1>3 DEF d

LEMMA RollbackMoves ==
    ASSUME Typed, NEW c \in Connections, Local(scenario, eng[c]), OpRollback(c)
    PROVE  (\E n : Moved(c, eng[c], n)) /\ acked' = acked
<1> DEFINE e == eng[c]
<1>0. scenario \in Scenarios /\ e.todo # << >> /\ First(e).op = "rollback"
  BY DEF Typed, OpRollback, Running
<1>1. e \in Engine /\ Chain(scenario, e.todo, e.explicit)
  BY <1>0, LocalFacts
<1>2. /\ Go(c, [Ended(e) EXCEPT !.explicit = FALSE, !.failed = FALSE])
      /\ slots' = SlotsWithout(c, e) /\ acked' = acked
  BY DEF OpRollback
<1> HIDE DEF e
<1>3. \E n : Moved(c, e, n)
  BY <1>0, <1>1, <1>2, EndedDone, DoneMoves
<1> QED
  BY <1>2, <1>3 DEF e

LEMMA CommitMoves ==
    ASSUME Typed, NEW c \in Connections, Local(scenario, eng[c]), OpCommit(c)
    PROVE  (\E n : Moved(c, eng[c], n)) /\ acked' = acked
<1> DEFINE s == scenario
           e == eng[c]
<1>0. s \in Scenarios /\ e.todo # << >> /\ First(e).op \in {"end", "commit"}
  BY DEF Typed, OpCommit, Running
<1>1. /\ e \in Engine /\ TxOk(s, e) /\ Chain(s, e.todo, e.explicit)
      /\ PhaseAt(e, First(e)) /\ HomeAt(s, e, First(e))
  BY <1>0, LocalFacts
<1>2. ~e.failed
  BY <1>0, <1>1 DEF PhaseAt
<1>3. IF e.tx = {}
      THEN /\ Go(c, [Ended(e) EXCEPT !.explicit = FALSE])
           /\ slots' = SlotsWithout(c, e) /\ acked' = acked
      ELSE Call(c, [e EXCEPT !.next = @ + 1, !.snap = None], "propose", e.wgroup)
  BY DEF OpCommit
<1> HIDE DEF e
<1>4. CASE e.tx = {}
  <2>1. \E n : Moved(c, e, n)
    BY <1>0, <1>1, <1>2, <1>3, <1>4, EndedDone, DoneMoves
  <2> QED
    BY <1>3, <1>4, <2>1 DEF e
<1>5. CASE e.tx # {}
  <2> DEFINE f == [e EXCEPT !.next = @ + 1, !.snap = None]
             k == [kind |-> "propose", group |-> e.wgroup, stage |-> "queued", index |-> 0]
             n == [f EXCEPT !.call = k]
  <2>1. e.tx # None
    <3>1. CASE First(e).op = "commit"
      BY <1>1, <3>1 DEF PhaseAt, Inside
    <3>2. CASE First(e).op = "end"
      <4>1. e.explicit
        BY <1>0, <1>1, <3>2, FirstIs, LastOne DEF First, Last
      <4> QED
        BY <1>1, <4>1 DEF TxOk
    <3> QED
      BY <1>0, <3>1, <3>2
  <2>2. e.wrote /\ e.slot /\ e.wgroup \in GroupsIn(s) /\ e.wgroup \in Int
    BY <1>0, <1>1, <1>5, <2>1, Deployment DEF TxOk
  <2>3. f \in Engine
    <3>1. e.next + 1 \in Nat \ {0}
      BY <1>1, EngineFields
    <3> QED
      BY <1>1, <3>1, Zenon DEF Engine
  <2>4. /\ f.tx = e.tx /\ f.slot = e.slot /\ f.wgroup = e.wgroup /\ f.bound = e.bound
        /\ f.crossed = e.crossed /\ f.wrote = e.wrote /\ f.snap = None
        /\ f.explicit = e.explicit /\ f.failed = e.failed /\ f.touched = e.touched
        /\ f.todo = e.todo /\ f.adrift = e.adrift
    BY <1>1 DEF Engine
  <2>5. eng' = [eng EXCEPT ![c] = n] /\ slots' = slots /\ acked' = acked
    BY <1>3, <1>5 DEF Call
  <2> HIDE DEF f
  <2>6. k \in RaftCall /\ k # NoCall
    BY <2>2 DEF RaftCall, NoCall
  <2>7. k.kind = "propose" /\ k.group = e.wgroup /\ k.stage = "queued"
    OBVIOUS
  <2> HIDE DEF k
  <2>8. n \in Engine
    BY <2>3, <2>6, Zenon DEF Engine
  <2>9. Alike(n, f) /\ n.todo = f.todo /\ n.call = k
    BY <2>3 DEF Engine, Alike
  <2> HIDE DEF n
  <2>10. /\ TxOk(s, f) /\ First(f) = First(e) /\ Chain(s, f.todo, f.explicit)
         /\ PhaseAt(f, First(f)) /\ HomeAt(s, f, First(f))
    <3>1. First(f) = First(e)
      BY <2>4 DEF First
    <3>2. TxOk(s, f)
      BY <1>1, <2>4 DEF TxOk
    <3>3. PhaseAt(f, First(e))
      BY <1>1, <2>4 DEF PhaseAt, AtRest
    <3>4. HomeAt(s, f, First(e))
      BY <1>1, <2>4 DEF HomeAt, AtHome
    <3> QED
      BY <1>1, <2>4, <3>1, <3>2, <3>3, <3>4
  <2>11. Calling(s, n)
    <3>1. First(n) = First(e) /\ n.todo # << >>
      BY <1>0, <2>4, <2>9 DEF First
    <3> QED
      BY <1>0, <2>2, <2>4, <2>7, <2>9, <3>1 DEF Calling, Alike
  <2>12. Local(s, n)
    BY <1>0, <2>3, <2>4, <2>8, <2>9, <2>10, <2>11, CallLocal
  <2> QED
    BY <2>4, <2>5, <2>9, <2>12 DEF Moved, Alike, e
<1> QED
  BY <1>4, <1>5

(* What waits for a barrier is where it writes, as check_group() has said,  *)
(* or binds nothing.                                                        *)
LEMMA CalledHome ==
    ASSUME NEW s \in Scenarios, NEW e, Local(s, e), e.call # NoCall
    PROVE  Ready(s, e) \/ First(e).op = "auto"
<1>1. e.todo # << >>
  BY DEF Local, Calling
<1>2. e \in Engine /\ Calling(s, e) /\ HomeAt(s, e, First(e)) /\ PhaseAt(e, First(e))
      /\ Chain(s, e.todo, e.explicit) /\ TxOk(s, e)
  BY <1>1, LocalFacts
<1>3. First(e).op \in Reads \cup {"begin", "auto", "end", "commit"}
  BY <1>2 DEF Calling
<1>4. CASE First(e).op \in {"exists", "scan"}
  <2>1. e.tx # None /\ ~IsSystemKey(First(e).key) /\ Source(First(e)) = First(e).key
    BY <1>1, <1>2, <1>4, FirstPossible DEF PhaseAt, Inside
  <2>2. Passed(e, GroupIn(s, First(e).key))
    BY <1>2, <1>4, <2>1 DEF Calling
  <2> QED
    BY <1>2, <1>4, <2>1, <2>2 DEF HomeAt, AtHome, Passed, Ready
<1>5. CASE First(e).op = "commit"
  <2>1. e.tx # {}
    BY <1>2, <1>5 DEF Calling, TxOk, Reads
  <2> QED
    BY <1>2, <1>5, <2>1 DEF HomeAt, Ready
<1> QED
  BY <1>2, <1>3, <1>4, <1>5 DEF HomeAt, Reads, Ready

(* A call that waits, or is answered. *)
LEMMA CallIs ==
    ASSUME NEW s \in Scenarios, NEW e, Local(s, e), e.call.stage # "none"
    PROVE  /\ e.call # NoCall /\ e.todo # << >>
           /\ First(e).op \notin {"rollback", "close"}
           /\ e.call.kind \in {"read", "propose"}
<1>1. e.call # NoCall
  BY DEF NoCall
<1> QED
  BY <1>1 DEF Local, Calling, Reads

LEMMA FailedMoves ==
    ASSUME Typed, NEW c \in Connections, Local(scenario, eng[c]),
           eng[c].call.stage # "none", Fail(c, eng[c])
    PROVE  (\E n : Moved(c, eng[c], n)) /\ acked' = acked
<1> DEFINE s == scenario
           e == eng[c]
<1>0. s \in Scenarios
  BY DEF Typed
<1>1. /\ e.call # NoCall /\ e.todo # << >> /\ First(e).op \notin {"rollback", "close"}
  BY <1>0, CallIs
<1>2. /\ e \in Engine /\ TxOk(s, e) /\ Chain(s, e.todo, e.explicit) /\ PhaseAt(e, First(e))
  BY <1>1, LocalFacts
<1>3. Ready(s, e) \/ First(e).op = "auto"
  BY <1>0, <1>1, CalledHome
<1> QED
  BY <1>0, <1>1, <1>2, <1>3, FailMoves

LEMMA DoneCallMoves ==
    ASSUME Typed, NEW c \in Connections, Local(scenario, eng[c]), CallDone(c)
    PROVE  (\E n : Moved(c, eng[c], n)) /\ acked' \in Stamps
<1> DEFINE s == scenario
           e == eng[c]
           committed == {k \in Keys : e.tx # None /\ k \in e.tx}
<1>0. s \in Scenarios /\ acked \in Stamps
  BY DEF Typed
<1>1. /\ e.call # NoCall /\ e.todo # << >> /\ e.call.kind \in {"read", "propose"}
  BY <1>0, CallIs DEF CallDone
<1>2. /\ e \in Engine /\ TxOk(s, e) /\ Chain(s, e.todo, e.explicit) /\ PhaseAt(e, First(e))
      /\ Calling(s, e) /\ HomeAt(s, e, First(e))
  BY <1>1, LocalFacts
<1>3. IF e.call.kind = "propose"
      THEN /\ Go(c, [Ended(e) EXCEPT !.explicit = FALSE])
           /\ slots' = SlotsWithout(c, e)
           /\ acked' = [k \in Keys |-> IF k \in committed
                                       THEN e.call.index ELSE acked[k]]
      ELSE IF First(e).op \in {"begin", "auto"}
      THEN Go(c, Begun(e)) /\ slots' = slots /\ acked' = acked
      ELSE Found(c, e) /\ acked' = acked
  BY DEF CallDone
<1> HIDE DEF e, committed
<1>4. CASE e.call.kind = "propose"
  <2>1. First(e).op \in {"end", "commit"}
    BY <1>1, <1>2, <1>4 DEF Calling
  <2>2. ~e.failed
    BY <1>2, <2>1 DEF PhaseAt
  <2>3. \E n : Moved(c, e, n)
    BY <1>0, <1>1, <1>2, <1>3, <1>4, <2>1, <2>2, EndedDone, DoneMoves
  <2>4. e.call.index \in Nat
    BY <1>2, EngineFields DEF RaftCall
  <2>5. acked' \in Stamps
    BY <1>0, <1>3, <1>4, <2>4 DEF Stamps
  <2> QED
    BY <2>3, <2>5 DEF e
<1>5. CASE e.call.kind # "propose" /\ First(e).op \in {"begin", "auto"}
  <2>1. eng' = [eng EXCEPT ![c] = Went(Begun(e))] /\ slots' = slots /\ acked' = acked
    BY <1>3, <1>5, ReturnIs
  <2>2. /\ Local(s, Went(Begun(e)))
        /\ Went(Begun(e)).slot = e.slot /\ Went(Begun(e)).wgroup = e.wgroup
    BY <1>1, <1>2, <1>5, BegunLocal
  <2> QED
    BY <1>0, <2>1, <2>2 DEF Moved, e
<1>6. CASE e.call.kind # "propose" /\ First(e).op \notin {"begin", "auto"}
  <2>1. Found(c, e) /\ acked' = acked
    BY <1>3, <1>6
  <2>2. /\ First(e).op \in Reads
        /\ e.tx # None /\ ~IsSystemKey(Source(First(e))) => Passed(e, Group(Source(First(e))))
    BY <1>1, <1>2, <1>6 DEF Calling, GroupIn, Group
  <2>3. Ready(s, e)
    BY <1>0, <1>1, <1>6, CalledHome DEF e
  <2>4. \E n : Moved(c, e, n)
    BY <1>1, <1>2, <2>1, <2>2, <2>3, FoundMoves
  <2> QED
    BY <1>0, <2>1, <2>4 DEF e
<1> QED
  BY <1>4, <1>5, <1>6

-----------------------------------------------------------------------------
(* Statements: the calls of each kind follow one another. *)

Links(s, t, x) ==
    /\ t \in Seq(Operation) /\ t # << >>
    /\ \A i \in 1 .. Len(t) - 1 : Follows(t[i], t[i + 1], x)
    /\ \A i \in 1 .. Len(t) : Possible(s, t[i])

LEMMA LinksOne ==
    ASSUME NEW s, NEW x, NEW a \in Operation, Possible(s, a)
    PROVE  Links(s, <<a>>, x) /\ <<a>>[1] = a /\ <<a>>[Len(<<a>>)] = a
<1> DEFINE t == <<a>>
<1>1. Len(t) = 1 /\ t[1] = a /\ t \in Seq(Operation) /\ t # << >>
  OBVIOUS
<1>2. /\ \A i \in 1 .. Len(t) - 1 : FALSE
      /\ \A i \in 1 .. Len(t) : i = 1
  BY <1>1
<1> HIDE DEF t
<1>3. Links(s, t, x)
  BY <1>1, <1>2 DEF Links
<1> QED
  BY <1>1, <1>3 DEF t

LEMMA LinksJoin ==
    ASSUME NEW s, NEW x \in BOOLEAN, NEW a \in Seq(Operation), NEW b \in Seq(Operation),
           Links(s, a, x), Links(s, b, x),
           NEW p, p = b[1], NEW o, o = a[Len(a)], Follows(o, p, x)
    PROVE  Links(s, a \o b, x)
<1> DEFINE t == a \o b
<1>0. /\ a \in Seq(Operation) /\ b \in Seq(Operation)
      /\ Len(a) \in Nat /\ Len(b) \in Nat /\ Len(a) # 0 /\ Len(b) # 0
  <2>1. a \in Seq(Operation) /\ b \in Seq(Operation) /\ a # << >> /\ b # << >>
    BY DEF Links
  <2> QED
    BY <2>1
<1>1. /\ t \in Seq(Operation) /\ Len(t) = Len(a) + Len(b)
      /\ \A i \in 1 .. Len(a) + Len(b) : t[i] = IF i <= Len(a) THEN a[i] ELSE b[i - Len(a)]
  BY <1>0
<1> HIDE DEF t
<1>2. t # << >>
  <2>1. Len(t) # 0
    BY <1>0, <1>1
  <2>2. Len(<< >>) = 0
    OBVIOUS
  <2> QED
    BY <2>1, <2>2, Zenon
<1>3. ASSUME NEW i \in 1 .. Len(t) - 1 PROVE Follows(t[i], t[i + 1], x)
  <2>1. CASE i < Len(a)
    <3>1. t[i] = a[i] /\ t[i + 1] = a[i + 1] /\ i \in 1 .. Len(a) - 1
      BY <1>0, <1>1, <2>1
    <3> QED
      BY <3>1 DEF Links
  <2>2. CASE i = Len(a)
    <3>1. t[i] = a[Len(a)] /\ t[i + 1] = b[1]
      BY <1>0, <1>1, <2>2
    <3> QED
      BY <3>1
  <2>3. CASE i > Len(a)
    <3>1. /\ t[i] = b[i - Len(a)] /\ t[i + 1] = b[i - Len(a) + 1]
          /\ i - Len(a) \in 1 .. Len(b) - 1
      BY <1>0, <1>1, <2>3
    <3> QED
      BY <3>1 DEF Links
  <2> QED
    BY <1>0, <1>1, <2>1, <2>2, <2>3
<1>4. ASSUME NEW i \in 1 .. Len(t) PROVE Possible(s, t[i])
  <2>1. CASE i <= Len(a)
    <3>1. t[i] = a[i] /\ i \in 1 .. Len(a)
      BY <1>0, <1>1, <2>1
    <3> QED
      BY <3>1 DEF Links
  <2>2. CASE i > Len(a)
    <3>1. /\ i \in 1 .. Len(a) + Len(b) /\ ~(i <= Len(a))
          /\ i - Len(a) \in 1 .. Len(b)
      BY <1>0, <1>1, <2>2
    <3>2. t[i] = b[i - Len(a)]
      BY <1>1, <3>1
    <3> QED
      BY <3>1, <3>2 DEF Links
  <2> QED
    BY <1>0, <1>1, <2>1, <2>2
<1>5. Links(s, t, x)
  BY <1>1, <1>2, <1>3, <1>4 DEF Links
<1> QED
  BY <1>5 DEF t

LEMMA JoinEnds ==
    ASSUME NEW a \in Seq(Operation), NEW b \in Seq(Operation), a # << >>, b # << >>
    PROVE  (a \o b)[1] = a[1] /\ (a \o b)[Len(a \o b)] = b[Len(b)]
  OBVIOUS

LEMMA LinksTwo ==
    ASSUME NEW s, NEW x, NEW a \in Operation, NEW b \in Operation,
           Possible(s, a), Possible(s, b), Follows(a, b, x)
    PROVE  Links(s, <<a, b>>, x) /\ <<a, b>>[1] = a /\ <<a, b>>[Len(<<a, b>>)] = b
<1> DEFINE t == <<a, b>>
<1>1. Len(t) = 2 /\ t[1] = a /\ t[2] = b /\ t \in Seq(Operation) /\ t # << >>
  OBVIOUS
<1>2. /\ \A i \in 1 .. Len(t) - 1 : i = 1 /\ i + 1 = 2
      /\ \A i \in 1 .. Len(t) : i = 1 \/ i = 2
  BY <1>1
<1> HIDE DEF t
<1>3. /\ \A i \in 1 .. Len(t) - 1 : Follows(t[i], t[i + 1], x)
      /\ \A i \in 1 .. Len(t) : Possible(s, t[i])
  BY <1>1, <1>2
<1>4. Links(s, t, x)
  BY <1>1, <1>3 DEF Links
<1> QED
  BY <1>1, <1>4 DEF t

LEMMA LinksFour ==
    ASSUME NEW s, NEW x, NEW a \in Operation, NEW b \in Operation, NEW d \in Operation,
           NEW f \in Operation, Possible(s, a), Possible(s, b), Possible(s, d), Possible(s, f),
           Follows(a, b, x), Follows(b, d, x), Follows(d, f, x)
    PROVE  LET t == <<a, b, d, f>>
           IN  Links(s, t, x) /\ t[1] = a /\ t[Len(t)] = f
<1> DEFINE t == <<a, b, d, f>>
<1>1. /\ Len(t) = 4 /\ t[1] = a /\ t[2] = b /\ t[3] = d /\ t[4] = f
      /\ t \in Seq(Operation) /\ t # << >>
  OBVIOUS
<1>2. /\ \A i \in 1 .. Len(t) - 1 :
           (i = 1 /\ i + 1 = 2) \/ (i = 2 /\ i + 1 = 3) \/ (i = 3 /\ i + 1 = 4)
      /\ \A i \in 1 .. Len(t) : i = 1 \/ i = 2 \/ i = 3 \/ i = 4
  BY <1>1
<1> HIDE DEF t
<1>3. /\ \A i \in 1 .. Len(t) - 1 : Follows(t[i], t[i + 1], x)
      /\ \A i \in 1 .. Len(t) : Possible(s, t[i])
  BY <1>1, <1>2
<1>4. Links(s, t, x)
  BY <1>1, <1>3 DEF Links
<1> QED
  BY <1>1, <1>4 DEF t

LEMMA OpIs ==
    ASSUME NEW o \in Ops, NEW k \in Keys
    PROVE  Op(o, k) \in Operation /\ Op(o, k).op = o /\ Op(o, k).key = k
  BY DEF Op, Operation

(* The calls of a write statement, around which it opens a transaction. *)
LEMMA CallsLinked ==
    ASSUME NEW s, NEW kind \in Writes, NEW table \in Tables, NEW x \in BOOLEAN
    PROVE  LET c == Calls(kind, table)
           IN  /\ Links(s, c, x) /\ Opens(RoutingKey(kind, table), c[1])
               /\ c[Len(c)].op \in {"plan", "touch", "write", "get"}
<1> DEFINE c == Calls(kind, table)
<1>0. table \in Keys /\ System \in Keys
  BY DEF Keys
<1>1. CASE kind \in {"insert", "update"}
  <2> DEFINE q == Op("plan", table)
             a == Op(IF kind = "insert" THEN "exists" ELSE "scan", table)
             b == Op(IF kind = "insert" THEN "put" ELSE "write", table)
             d == Op("touch", System)
  <2>1. c = <<q, a, b, d>> /\ RoutingKey(kind, table) = table
    BY <1>1 DEF Calls, RoutingKey
  <2>2. /\ q \in Operation /\ a \in Operation /\ b \in Operation /\ d \in Operation
        /\ q.op = "plan" /\ q.key = table
        /\ a.op = (IF kind = "insert" THEN "exists" ELSE "scan") /\ a.key = table
        /\ b.op = (IF kind = "insert" THEN "put" ELSE "write") /\ b.key = table
        /\ d.op = "touch" /\ d.key = System
    BY <1>0, OpIs DEF Ops
  <2>3. /\ b = Op(IF kind = "insert" THEN "put" ELSE "write", a.key)
        /\ d = Op("touch", System)
    BY <2>2
  <2> HIDE DEF q, a, b, d
  <2>4. Follows(q, a, x) /\ Follows(a, b, x) /\ Follows(b, d, x)
    BY <1>1, <2>2, <2>3 DEF Follows
  <2>5. Possible(s, q) /\ Possible(s, a) /\ Possible(s, b) /\ Possible(s, d)
    BY <1>1, <2>2 DEF Possible
  <2>6. Links(s, c, x) /\ c[1] = q /\ c[Len(c)] = d
    BY <2>1, <2>2, <2>4, <2>5, LinksFour
  <2> QED
    BY <1>1, <2>1, <2>2, <2>6 DEF Opens
<1>4. CASE kind = "nothing"
  <2> DEFINE a == Op("plan", table)
  <2>1. c = <<a>> /\ RoutingKey(kind, table) = table
    BY <1>4 DEF Calls, RoutingKey
  <2>2. a \in Operation /\ a.op = "plan" /\ a.key = table
    BY <1>0, OpIs DEF Ops
  <2> HIDE DEF a
  <2>3. Possible(s, a)
    BY <2>2 DEF Possible
  <2>4. Links(s, c, x) /\ c[1] = a /\ c[Len(c)] = a
    BY <2>1, <2>2, <2>3, LinksOne
  <2> QED
    BY <2>1, <2>2, <2>4 DEF Opens
<1>2. CASE kind \in {"ddl", "use"}
  <2> DEFINE a == Op(IF kind = "ddl" THEN "write" ELSE "get", System)
  <2>1. c = <<a>> /\ RoutingKey(kind, table) = System
    BY <1>2 DEF Calls, RoutingKey
  <2>2. /\ a \in Operation /\ a.op = (IF kind = "ddl" THEN "write" ELSE "get") /\ a.key = System
    BY <1>0, OpIs DEF Ops
  <2> HIDE DEF a
  <2>3. Possible(s, a)
    BY <1>2, <2>2 DEF Possible
  <2>4. Links(s, c, x) /\ c[1] = a /\ c[Len(c)] = a
    BY <2>1, <2>2, <2>3, LinksOne
  <2> QED
    BY <1>2, <2>1, <2>2, <2>4 DEF Opens
<1>3. CASE kind = "drop"
  <2> DEFINE a == Op("clear", table)
             b == Op("write", System)
  <2>1. c = <<a, b>> /\ RoutingKey(kind, table) = System
    BY <1>3 DEF Calls, RoutingKey
  <2>2. /\ a \in Operation /\ b \in Operation
        /\ a.op = "clear" /\ b.op = "write" /\ b.key = System
    BY <1>0, OpIs DEF Ops
  <2>3. Follows(a, b, x)
    BY <2>2 DEF Follows
  <2>4. Possible(s, a) /\ Possible(s, b)
    BY <2>2 DEF Possible
  <2> HIDE DEF a, b
  <2>5. Links(s, c, x) /\ c[1] = a /\ c[Len(c)] = b
    BY <2>1, <2>2, <2>3, <2>4, LinksTwo
  <2> QED
    BY <2>1, <2>2, <2>5 DEF Opens
<1> QED
  BY <1>1, <1>2, <1>3, <1>4 DEF Writes

(* What one statement does, from its first call to its last. *)
LEMMA ProgramChain ==
    ASSUME NEW s, NEW kind \in StatementKinds, NEW table \in Tables, NEW x \in BOOLEAN,
           kind = "begin" => ~x,
           kind \in {"end", "rollback"} => x
    PROVE  LET p == Program(kind, table, x)
           IN  /\ Chain(s, p, x) /\ p \in Seq(Operation) /\ p # << >>
               /\ p[1].op = IF kind \in Writes THEN "slot"
                            ELSE IF kind = "select" THEN "fetch"
                            ELSE IF kind = "lookup" THEN "look" ELSE kind
<1> DEFINE p == Program(kind, table, x)
           key == RoutingKey(kind, table)
           c == Calls(kind, table)
           st == Op("slot", key)
           at == Op("auto", key)
           ct == Op("commit", key)
<1>0. key \in Keys /\ table \in Keys /\ System \in Keys
  BY DEF RoutingKey, Keys
<1>1. /\ st \in Operation /\ at \in Operation /\ ct \in Operation
      /\ st.op = "slot" /\ st.key = key
      /\ at.op = "auto" /\ at.key = key /\ ct.op = "commit"
  BY <1>0, OpIs DEF Ops
<1>2. at = Op("auto", st.key)
  BY <1>1
<1>3. SUFFICES ASSUME TRUE
               PROVE  /\ Links(s, p, x) /\ Last(p[Len(p)], x)
                      /\ p[1].op = IF kind \in Writes THEN "slot"
                                   ELSE IF kind = "select" THEN "fetch"
                                   ELSE IF kind = "lookup" THEN "look" ELSE kind
  BY DEF Links, Chain
<1> HIDE DEF st, at, ct, c, key
<1>4. Possible(s, st) /\ Possible(s, at) /\ Possible(s, ct)
  BY <1>1 DEF Possible
<1>5. CASE kind \in Writes /\ x
  <2> DEFINE u == <<st>>
  <2>1. p = u \o c
    BY <1>5 DEF Program, InTransaction, st, c, key
  <2>2. /\ Links(s, c, x) /\ Opens(key, c[1]) /\ c[Len(c)].op \in {"plan", "touch", "write", "get"}
    BY <1>5, CallsLinked DEF c, key
  <2>3. Links(s, u, x) /\ u[1] = st /\ st = u[Len(u)]
    BY <1>1, <1>4, LinksOne
  <2> HIDE DEF u
  <2>4. Follows(st, c[1], x)
    BY <1>1, <1>5, <2>2 DEF Follows
  <2>7. u \in Seq(Operation) /\ c \in Seq(Operation) /\ u # << >> /\ c # << >>
    BY <2>2, <2>3 DEF Links
  <2> HIDE DEF p
  <2>8. Links(s, p, x)
    BY <2>1, <2>2, <2>3, <2>4, <2>7, LinksJoin
  <2>5. p[1] = st /\ p[Len(p)] = c[Len(c)]
    BY <2>1, <2>3, <2>7, JoinEnds
  <2>6. Last(p[Len(p)], x)
    BY <1>5, <2>2, <2>5 DEF Last
  <2> QED
    BY <1>1, <1>5, <2>5, <2>6, <2>8
<1>6. CASE kind \in Writes /\ ~x
  <2> DEFINE u == <<st, at>>
             v == <<ct>>
             q == u \o c
  <2>1. p = q \o v
    BY <1>6 DEF Program, InTransaction, st, at, ct, c, key
  <2>2. /\ Links(s, c, x) /\ Opens(key, c[1]) /\ c[Len(c)].op \in {"plan", "touch", "write", "get"}
    BY <1>6, CallsLinked DEF c, key
  <2>3. Follows(st, at, x) /\ Follows(at, c[1], x) /\ Follows(c[Len(c)], ct, x)
    BY <1>1, <1>2, <1>6, <2>2 DEF Follows
  <2>4. Links(s, u, x) /\ u[1] = st /\ u[Len(u)] = at
    BY <1>1, <1>4, <2>3, LinksTwo
  <2>6. Links(s, v, x) /\ v[1] = ct /\ ct = v[Len(v)]
    BY <1>1, <1>4, LinksOne
  <2> HIDE DEF u, v
  <2>9. /\ u \in Seq(Operation) /\ c \in Seq(Operation) /\ v \in Seq(Operation)
        /\ u # << >> /\ c # << >> /\ v # << >>
    BY <2>2, <2>4, <2>6 DEF Links
  <2>10. Links(s, q, x)
    BY <2>2, <2>3, <2>4, <2>9, LinksJoin
  <2>5. q[1] = st /\ q[Len(q)] = c[Len(c)]
    BY <2>4, <2>9, JoinEnds
  <2> HIDE DEF q
  <2> HIDE DEF p
  <2>11. q \in Seq(Operation) /\ q # << >>
    BY <2>10 DEF Links
  <2>12. Links(s, p, x)
    BY <2>1, <2>3, <2>5, <2>6, <2>9, <2>10, <2>11, LinksJoin
  <2>7. p[1] = st /\ p[Len(p)] = ct
    BY <2>1, <2>5, <2>6, <2>9, <2>11, JoinEnds
  <2>8. Last(p[Len(p)], x)
    BY <1>1, <1>6, <2>7 DEF Last
  <2> QED
    BY <1>1, <1>6, <2>7, <2>8, <2>12
<1>7. CASE kind \in {"select", "lookup", "begin", "end", "rollback"}
  <2> DEFINE a == IF kind = "select" THEN Op("fetch", table)
                  ELSE IF kind = "lookup" THEN Op("look", table) ELSE Op(kind, System)
  <2>1. p = <<a>>
    BY <1>7 DEF Program, Writes, Calls
  <2>2. /\ a \in Operation
        /\ a.op = (IF kind = "select" THEN "fetch" ELSE IF kind = "lookup" THEN "look" ELSE kind)
        /\ a.op \in {"fetch", "look"} => a.key = table
    BY <1>0, <1>7, OpIs DEF Ops
  <2> HIDE DEF a
  <2>3. Possible(s, a) /\ Last(a, x)
    BY <1>7, <2>2 DEF Possible, Last
  <2>4. Links(s, p, x) /\ p[1] = a /\ p[Len(p)] = a
    BY <2>1, <2>2, <2>3, LinksOne
  <2> HIDE DEF p
  <2> QED
    BY <1>7, <2>2, <2>3, <2>4 DEF Writes
<1> QED
  BY <1>5, <1>6, <1>7 DEF StatementKinds, Writes

-----------------------------------------------------------------------------
(* The invariant is kept.  First what an engine's steps do to the slots. *)
Framed ==
    /\ UNCHANGED <<scenario, node, log, chosen, disk>>
    /\ acked' \in Stamps /\ bounds' \in Counters

LEMMA FramedInv ==
    ASSUME AdapterInv, Framed, DOMAIN eng' = Connections, slots' \in [Groups -> Slot],
           Locals', SlotsKept'
    PROVE  AdapterInv'
<1>1. scenario' = scenario /\ Groups' = Groups /\ log' = log
  BY DEF Framed, Groups
<1>2. Typed'
  BY <1>1 DEF AdapterInv, Typed, Framed, Stored
<1>3. HomeUnlessAdrift'
  BY <1>1 DEF AdapterInv, HomeUnlessAdrift, Group
<1> QED
  BY <1>2, <1>3 DEF AdapterInv

LEMMA OneLocal ==
    ASSUME Typed, Locals, scenario' = scenario, NEW c \in Connections, NEW n,
           n = None \/ Local(scenario, n), eng' = [eng EXCEPT ![c] = n]
    PROVE  Locals' /\ DOMAIN eng' = Connections
<1>1. \A d \in Connections : eng'[d] = IF d = c THEN n ELSE eng[d]
  BY DEF Typed
<1> QED
  BY <1>1 DEF Locals, Typed

LEMMA SlotsAlone ==
    ASSUME Typed, SlotsKept, scenario' = scenario, slots' = slots, NEW c \in Connections,
           NEW n, eng' = [eng EXCEPT ![c] = n],
           \A g \in Groups : Holds(n, g) => Holds(eng[c], g)
    PROVE  SlotsKept'
<1>1. \A d \in Connections : eng'[d] = IF d = c THEN n ELSE eng[d]
  BY DEF Typed
<1>2. Groups' = Groups
  BY DEF Groups
<1>3. \A d \in Connections, g \in Groups : Holds(eng'[d], g) => Holds(eng[d], g)
  BY <1>1
<1> QED
  BY <1>2, <1>3 DEF SlotsKept

(* The slot is given back by the one that had it. *)
LEMMA SlotsGivenBack ==
    ASSUME Typed, SlotsKept, scenario' = scenario, NEW c \in Connections, eng[c] # None,
           eng[c].slot => Holds(eng[c], eng[c].wgroup) /\ eng[c].wgroup \in Groups,
           NEW n, eng' = [eng EXCEPT ![c] = n], n = None \/ ~n.slot,
           slots' = SlotsWithout(c, eng[c])
    PROVE  SlotsKept' /\ slots' \in [Groups -> Slot]
<1> DEFINE e == eng[c]
<1>0. slots \in [Groups -> Slot] /\ Groups' = Groups
  BY DEF Typed, Groups
<1>1. \A d \in Connections : eng'[d] = IF d = c THEN n ELSE eng[d]
  BY DEF Typed
<1>2. \A g \in Groups : ~Holds(n, g)
  BY DEF Holds
<1>3. CASE slots' = slots
  <2>1. SlotsKept'
    BY <1>2, <1>3, SlotsAlone
  <2> QED
    BY <1>0, <1>3, <2>1
<1>4. CASE slots' # slots
  <2>1. /\ e.slot /\ e.wgroup \in Groups
        /\ slots' = [slots EXCEPT ![e.wgroup] = [held |-> FALSE, owner |-> None]]
    BY <1>4 DEF SlotsWithout, Free
  <2> DEFINE w == e.wgroup
  <2>2. Holds(e, w)
    BY <2>1
  <2> HIDE DEF w
  <2>3. /\ [held |-> FALSE, owner |-> None] \in Slot
        /\ \A g \in Groups : g # w => slots'[g] = slots[g]
    BY <1>0, <2>1 DEF Slot, w
  <2>4. slots' \in [Groups -> Slot]
    BY <1>0, <2>1, <2>3 DEF w
  <2>5. SlotsKept'
    <3> SUFFICES ASSUME NEW g \in Groups, NEW d \in Connections, Holds(eng'[d], g)
                 PROVE  /\ slots'[g].held /\ slots'[g].owner \in {d, None}
                        /\ \A f \in Connections : Holds(eng'[f], g) => f = d
      BY <1>0 DEF SlotsKept
    <3>1. d # c /\ Holds(eng[d], g)
      BY <1>1, <1>2
    <3>2. /\ slots[g].held /\ slots[g].owner \in {d, None}
          /\ \A f \in Connections : Holds(eng[f], g) => f = d
      BY <3>1 DEF SlotsKept
    <3>3. g # w
      BY <2>2, <3>1, <3>2
    <3> QED
      BY <1>1, <1>2, <2>3, <3>2, <3>3
  <2> QED
    BY <2>4, <2>5
<1> QED
  BY <1>3, <1>4

(* The free slot is taken. *)
LEMMA SlotsTaken ==
    ASSUME Typed, SlotsKept, scenario' = scenario, NEW c \in Connections, NEW g \in Groups,
           NEW n, eng' = [eng EXCEPT ![c] = n], ~slots[g].held, n.wgroup = g,
           slots' = [slots EXCEPT ![g] = [held |-> TRUE, owner |-> c]]
    PROVE  SlotsKept' /\ slots' \in [Groups -> Slot]
<1>0. slots \in [Groups -> Slot] /\ Groups' = Groups
  BY DEF Typed, Groups
<1>1. \A d \in Connections : eng'[d] = IF d = c THEN n ELSE eng[d]
  BY DEF Typed
<1>2. /\ [held |-> TRUE, owner |-> c] \in Slot
      /\ slots'[g] = [held |-> TRUE, owner |-> c]
      /\ \A h \in Groups : h # g => slots'[h] = slots[h]
  BY <1>0 DEF Slot
<1>3. slots' \in [Groups -> Slot]
  BY <1>0, <1>2
<1>4. \A d \in Connections : ~Holds(eng[d], g)
  BY DEF SlotsKept
<1>5. \A h \in Groups : Holds(n, h) => h = g
  BY DEF Holds
<1>6. SlotsKept'
  <2> SUFFICES ASSUME NEW h \in Groups, NEW d \in Connections, Holds(eng'[d], h)
               PROVE  /\ slots'[h].held /\ slots'[h].owner \in {d, None}
                      /\ \A f \in Connections : Holds(eng'[f], h) => f = d
    BY <1>0 DEF SlotsKept
  <2>1. CASE h = g
    <3>1. \A f \in Connections : Holds(eng'[f], g) => f = c
      BY <1>1, <1>4
    <3> QED
      BY <1>2, <2>1, <3>1
  <2>2. CASE h # g
    <3>1. \A f \in Connections : Holds(eng'[f], h) => f # c /\ Holds(eng[f], h)
      BY <1>1, <1>5, <2>2
    <3>2. /\ slots[h].held /\ slots[h].owner \in {d, None}
          /\ \A f \in Connections : Holds(eng[f], h) => f = d
      BY <3>1 DEF SlotsKept
    <3> QED
      BY <1>2, <2>2, <3>1, <3>2
  <2> QED
    BY <2>1, <2>2
<1> QED
  BY <1>3, <1>6

LEMMA StepsInv ==
    ASSUME AdapterInv, Framed, NEW c \in Connections, eng[c] # None, eng[c].todo # << >>,
           First(eng[c]).op # "close", Steps(c, eng[c])
    PROVE  AdapterInv'
<1> DEFINE e == eng[c]
<1>0. /\ Typed /\ Locals /\ SlotsKept /\ scenario' = scenario /\ slots \in [Groups -> Slot]
      /\ Local(scenario, e)
  BY DEF AdapterInv, Framed, Typed, Locals
<1>1. e.slot => Holds(e, e.wgroup) /\ e.wgroup \in Groups
  BY <1>0 DEF Holds, Local, TxOk, Groups, GroupsIn
<1>2. ASSUME NEW n, Moved(c, e, n) PROVE AdapterInv'
  <2>1. eng' = [eng EXCEPT ![c] = n] /\ Local(scenario, n)
    BY <1>2 DEF Moved
  <2>2. Locals' /\ DOMAIN eng' = Connections
    BY <1>0, <2>1, OneLocal
  <2>3. CASE slots' = slots /\ n.slot = e.slot /\ n.wgroup = e.wgroup
    <3>1. \A g \in Groups : Holds(n, g) => Holds(e, g)
      BY <2>3 DEF Holds
    <3>2. SlotsKept'
      BY <1>0, <2>1, <2>3, <3>1, SlotsAlone
    <3> QED
      BY <1>0, <2>2, <2>3, <3>2, FramedInv
  <2>4. CASE slots' = SlotsWithout(c, e) /\ ~n.slot
    <3>1. SlotsKept' /\ slots' \in [Groups -> Slot]
      BY <1>0, <1>1, <2>1, <2>4, SlotsGivenBack
    <3> QED
      BY <2>2, <3>1, FramedInv
  <2> QED
    BY <1>2, <2>3, <2>4 DEF Moved
<1>3. ASSUME NEW n, NEW g \in Groups, Took(c, e, n, g) PROVE AdapterInv'
  <2>1. eng' = [eng EXCEPT ![c] = n] /\ Local(scenario, n)
    BY <1>3 DEF Took
  <2>2. Locals' /\ DOMAIN eng' = Connections
    BY <1>0, <2>1, OneLocal
  <2>3. SlotsKept' /\ slots' \in [Groups -> Slot]
    BY <1>0, <1>3, <2>1, SlotsTaken DEF Took
  <2> QED
    BY <2>2, <2>3, FramedInv
<1> QED
  BY <1>2, <1>3 DEF Steps

(* The operations of a statement, and the answers to its calls. *)
LEMMA OutsideFrames ==
    ASSUME Typed, Outside, acked' \in Stamps
    PROVE  Framed
  BY DEF Typed, Outside, Others, Framed

LEMMA FaultFrames ==
    ASSUME Typed, Fault, Others, acked' \in Stamps
    PROVE  Framed
<1>1. bounds' \in Counters
  <2>1. bounds \in Counters /\ bounds' = [bounds EXCEPT !.faults = @ + 1]
    BY DEF Typed, Fault
  <2>2. bounds.faults + 1 \in Nat
    BY <2>1 DEF Counters
  <2> QED
    BY <2>1, <2>2, Zenon DEF Counters
<1> QED
  BY <1>1 DEF Others, Framed

LEMMA OperationInv ==
    ASSUME AdapterInv, NEW c \in Connections,
           OpSlot(c) \/ OpGet(c) \/ OpExists(c) \/ OpScan(c) \/ OpWrite(c) \/ OpBegin(c)
             \/ OpCommit(c) \/ OpRollback(c)
    PROVE  AdapterInv'
<1> DEFINE e == eng[c]
<1>0. /\ Typed /\ Running(c) /\ Outside /\ acked \in Stamps /\ First(e).op # "close"
  BY DEF AdapterInv, Typed, OpSlot, OpGet, OpExists, OpScan, OpWrite, OpBegin, OpCommit,
         OpRollback
<1>1. e # None /\ e.todo # << >> /\ Local(scenario, e)
  BY <1>0 DEF AdapterInv, Locals, Running
<1>2. Steps(c, e) /\ acked' = acked
  <2>1. CASE OpSlot(c)
    BY <1>0, <1>1, <2>1, SlotSteps
  <2>2. CASE OpWrite(c)
    BY <1>0, <1>1, <2>2, WriteSteps
  <2>3. ASSUME OpGet(c) \/ OpExists(c) PROVE (\E n : Moved(c, e, n)) /\ acked' = acked
    <3>1. First(e).op \in Reads /\ Read(c, Source(First(e)), Group(Source(First(e))))
      BY <2>3 DEF OpGet, OpExists, Reads, Source
    <3> QED
      BY <1>0, <1>1, <3>1, ReadMoves
  <2>4. ASSUME OpScan(c) \/ OpBegin(c) \/ OpCommit(c) \/ OpRollback(c)
        PROVE (\E n : Moved(c, e, n)) /\ acked' = acked
    BY <1>0, <1>1, <2>4, ScanMoves, BeginMoves, CommitMoves, RollbackMoves
  <2> QED
    BY <2>1, <2>2, <2>3, <2>4 DEF Steps
<1>3. Framed
  BY <1>0, <1>2, OutsideFrames
<1> QED
  BY <1>0, <1>1, <1>2, <1>3, StepsInv

LEMMA AnswerInv ==
    ASSUME AdapterInv, NEW c \in Connections, Answer(c)
    PROVE  AdapterInv'
<1> DEFINE e == eng[c]
<1>0. /\ Typed /\ acked \in Stamps /\ scenario \in Scenarios /\ e # None
      /\ e.call.stage # "none"
  BY DEF AdapterInv, Typed, Answer, CallDone, CallFailed, QueueFull, CallTimesOut
<1>1. Local(scenario, e)
  BY <1>0 DEF AdapterInv, Locals
<1>2. e.todo # << >> /\ First(e).op # "close"
  BY <1>0, <1>1, CallIs
<1>3. (\E n : Moved(c, e, n)) /\ acked' \in Stamps
  <2>1. CASE CallDone(c)
    BY <1>0, <1>1, <2>1, DoneCallMoves
  <2>2. CASE Fail(c, e)
    BY <1>0, <1>1, <2>2, FailedMoves
  <2> QED
    BY <2>1, <2>2 DEF Answer, CallFailed, QueueFull, CallTimesOut
<1>4. Framed
  BY <1>0, <1>3, OutsideFrames, FaultFrames
     DEF Answer, CallDone, CallFailed, QueueFull, CallTimesOut
<1>5. Steps(c, e)
  BY <1>3 DEF Steps
<1> QED
  BY <1>0, <1>2, <1>4, <1>5, StepsInv

(* Connections that come and go, and the start of a statement. *)
LEMMA ConnectInv ==
    ASSUME AdapterInv, NEW c \in Connections, Connect(c)
    PROVE  AdapterInv'
<1> DEFINE n == NewEngine(bounds.clients + 1)
<1>0. /\ Typed /\ Locals /\ SlotsKept /\ scenario \in Scenarios /\ slots \in [Groups -> Slot]
      /\ bounds \in Counters /\ acked \in Stamps
  BY DEF AdapterInv, Typed
<1>1. /\ eng' = [eng EXCEPT ![c] = n] /\ slots' = slots /\ scenario' = scenario
      /\ bounds' = [bounds EXCEPT !.clients = @ + 1] /\ acked' = acked
      /\ UNCHANGED <<node, log, chosen, disk>>
  BY DEF Connect
<1>2. bounds.clients + 1 \in Nat
  BY <1>0 DEF Counters
<1>3. bounds' \in Counters
  BY <1>0, <1>1, <1>2, Zenon DEF Counters
<1>4. Framed
  BY <1>0, <1>1, <1>3 DEF Framed
<1>5. n \in Engine
  <2>1. << >> \in Seq(Operation) /\ 1 \in Nat \ {0} /\ NoCall \in RaftCall
    BY NoCallType
  <2> QED
    BY <1>2, <2>1, Zenon DEF NewEngine, Engine
<1>6. /\ n.tx = None /\ ~n.slot /\ n.bound = None /\ ~n.crossed /\ ~n.wrote /\ n.snap = None
      /\ ~n.explicit /\ ~n.failed /\ n.todo = << >> /\ n.call = NoCall /\ n.touched = {}
  BY DEF NewEngine
<1> HIDE DEF n
<1>7. TxOk(scenario, n) /\ Phase(n) /\ Calling(scenario, n) /\ Home(scenario, n)
  BY <1>6 DEF TxOk, Phase, AtRest, Calling, Home, AtHome
<1>8. Chain(scenario, n.todo, n.explicit)
  BY <1>6 DEF Chain
<1>9. Local(scenario, n)
  BY <1>5, <1>7, <1>8 DEF Local
<1>10. \A g \in Groups : Holds(n, g) => Holds(eng[c], g)
  BY <1>6 DEF Holds
<1>11. Locals' /\ DOMAIN eng' = Connections
  BY <1>0, <1>1, <1>9, OneLocal
<1>12. SlotsKept'
  BY <1>0, <1>1, <1>10, SlotsAlone
<1> QED
  BY <1>0, <1>1, <1>4, <1>11, <1>12, FramedInv

LEMMA StartLocal ==
    ASSUME NEW s, NEW e, Local(s, e), e.todo = << >>, NEW p \in Seq(Operation),
           p # << >>, Chain(s, p, e.explicit), e.failed => p[1].op \in {"rollback", "close"},
           p[1].op \notin Inside \cup {"auto"}
    PROVE  LET n == [e EXCEPT !.todo = p]
           IN  Local(s, n) /\ n.slot = e.slot /\ n.wgroup = e.wgroup /\ n.todo = p
<1> DEFINE n == [e EXCEPT !.todo = p]
<1>1. /\ e \in Engine /\ TxOk(s, e) /\ AtRest(e) /\ e.call = NoCall
      /\ AtHome(s, e)
  BY DEF Local, Phase, Calling, Home
<1>2. n \in Engine
  BY <1>1, Zenon DEF Engine
<1>3. Alike(n, e) /\ n.todo = p /\ n.call = e.call
  BY <1>1 DEF Engine, Alike
<1> HIDE DEF n
<1>4. TxOk(s, n) /\ AtRest(n) /\ AtHome(s, n)
  BY <1>1, <1>3, AlikeKeeps
<1>5. Chain(s, n.todo, n.explicit) /\ First(n) = p[1] /\ n.failed = e.failed
  BY <1>3 DEF Alike, First
<1>6. PhaseAt(n, First(n)) /\ HomeAt(s, n, First(n))
  BY <1>4, <1>5 DEF PhaseAt, HomeAt
<1>7. Phase(n) /\ Calling(s, n) /\ Home(s, n)
  BY <1>1, <1>3, <1>6 DEF Phase, Calling, Home
<1>8. Local(s, n)
  BY <1>2, <1>4, <1>5, <1>7 DEF Local
<1> QED
  BY <1>3, <1>8 DEF Alike, n

LEMMA StartInv ==
    ASSUME AdapterInv, NEW c \in Connections, StartStatement(c)
    PROVE  AdapterInv'
<1> DEFINE s == scenario
           e == eng[c]
<1>0. /\ Typed /\ Locals /\ SlotsKept /\ s \in Scenarios /\ slots \in [Groups -> Slot]
      /\ bounds \in Counters /\ acked \in Stamps /\ DOMAIN eng = Connections
  BY DEF AdapterInv, Typed
<1>1. /\ e # None /\ e.todo = << >> /\ slots' = slots /\ acked' = acked /\ Others
      /\ bounds' = [bounds EXCEPT !.statements[c] = @ + 1]
  BY DEF StartStatement
<1>2. Local(s, e) /\ e \in Engine /\ TxOk(s, e)
  BY <1>0, <1>1 DEF Locals, Local
<1>3. PICK w \in s.runs[c] :
         /\ CASE w[1] = "begin" -> ~e.explicit
              [] w[1] \in {"end", "rollback"} -> e.explicit
              [] OTHER -> ~e.failed
         /\ eng' = [eng EXCEPT ![c].todo =
                       Program(IF w[1] = "end" /\ e.failed THEN "rollback" ELSE w[1],
                               w[2], e.explicit)]
  BY DEF StartStatement
<1> DEFINE kind == IF w[1] = "end" /\ e.failed THEN "rollback" ELSE w[1]
           table == w[2]
           x == e.explicit
           p == Program(kind, table, x)
           n == [e EXCEPT !.todo = p]
<1>4. /\ w[1] \in StatementKinds /\ w[2] \in Tables /\ kind \in StatementKinds
  <2>1. s.runs[c] \subseteq StatementKinds \X Tables
    BY <1>0, RaftKVAssumption
  <2>2. w[1] \in StatementKinds /\ w[2] \in Tables
    BY <2>1
  <2> QED
    BY <2>2 DEF StatementKinds
<1>5. /\ e.explicit \in BOOLEAN /\ (kind = "begin" => ~e.explicit)
      /\ kind \in {"end", "rollback"} => e.explicit
      /\ e.failed => kind = "rollback"
  <2>1. e.explicit \in BOOLEAN /\ (e.failed => e.explicit)
    BY <1>2, EngineFields DEF TxOk
  <2>2. CASE w[1] = "begin"
    BY <1>3, <2>1, <2>2
  <2>3. CASE w[1] \in {"end", "rollback"}
    BY <1>3, <2>1, <2>3
  <2>4. CASE w[1] \notin {"begin", "end", "rollback"}
    BY <1>3, <2>1, <2>4
  <2> QED
    BY <2>2, <2>3, <2>4
<1>16. /\ kind \in StatementKinds /\ table \in Tables /\ x \in BOOLEAN
       /\ kind = "begin" => ~x
       /\ kind \in {"end", "rollback"} => x
  BY <1>4, <1>5
<1> HIDE DEF kind, table, x
<1>6. /\ Chain(s, p, x) /\ p \in Seq(Operation) /\ p # << >>
      /\ p[1].op = IF kind \in Writes THEN "slot"
                   ELSE IF kind = "select" THEN "fetch"
                   ELSE IF kind = "lookup" THEN "look" ELSE kind
  BY <1>16, ProgramChain
<1>7. eng' = [eng EXCEPT ![c] = n]
  BY <1>3 DEF kind, table, x
<1> HIDE DEF p
<1>8. p[1].op \notin Inside \cup {"auto", "close"} /\ (e.failed => p[1].op = "rollback")
  BY <1>5, <1>6, <1>16 DEF Inside, StatementKinds, Writes
<1>9. Local(s, n) /\ n.slot = e.slot /\ n.wgroup = e.wgroup
  BY <1>1, <1>2, <1>6, <1>8, StartLocal DEF x
<1>10. bounds' \in Counters
  <2>1. bounds.statements \in [Connections -> Nat]
    BY <1>0 DEF Counters
  <2>2. [bounds.statements EXCEPT ![c] = @ + 1] \in [Connections -> Nat]
    BY <2>1
  <2>3. bounds' = [bounds EXCEPT !.statements = [bounds.statements EXCEPT ![c] = @ + 1]]
    BY <1>1
  <2> QED
    BY <1>0, <2>2, <2>3, Zenon DEF Counters
<1>11. Framed
  BY <1>0, <1>1, <1>10 DEF Framed, Others
<1> HIDE DEF n
<1>12. \A g \in Groups : Holds(n, g) => Holds(e, g)
  BY <1>1, <1>9, NoneIsNothing DEF Holds
<1>13. scenario' = scenario
  BY <1>1 DEF Others
<1>14. Locals' /\ DOMAIN eng' = Connections
  BY <1>0, <1>7, <1>9, <1>13, OneLocal
<1>15. SlotsKept'
  BY <1>0, <1>1, <1>7, <1>12, <1>13, SlotsAlone
<1> QED
  BY <1>0, <1>1, <1>11, <1>14, <1>15, FramedInv

LEMMA HangupInv ==
    ASSUME AdapterInv, NEW c \in Connections, Hangup(c)
    PROVE  AdapterInv'
<1> DEFINE s == scenario
           e == eng[c]
           w == e.wgroup
           p == <<Op("close", System)>>
           n == [e EXCEPT !.todo = p]
<1>0. /\ Typed /\ Locals /\ SlotsKept /\ s \in Scenarios /\ slots \in [Groups -> Slot]
      /\ acked \in Stamps /\ DOMAIN eng = Connections
  BY DEF AdapterInv, Typed
<1>1. /\ e # None /\ e.todo = << >> /\ acked' = acked /\ Fault /\ Others
      /\ scenario' = scenario /\ Groups' = Groups
  BY DEF Hangup, Others, Groups
<1>2. Framed
  BY <1>0, <1>1, FaultFrames
<1>3. Local(s, e) /\ TxOk(s, e)
  BY <1>0, <1>1 DEF Locals, Local
<1>4. CASE e.slot /\ slots[w].owner = c
  <2>1. /\ eng' = [eng EXCEPT ![c] = n] /\ slots' = [slots EXCEPT ![w].held = FALSE]
    BY <1>4 DEF Hangup
  <2>2. p \in Seq(Operation) /\ p # << >> /\ p[1].op = "close" /\ Chain(s, p, e.explicit)
    <3>1. Op("close", System) \in Operation /\ Op("close", System).op = "close"
      BY OpIs DEF Ops, Keys
    <3>2. Possible(s, Op("close", System)) /\ Last(Op("close", System), e.explicit)
      BY <3>1 DEF Possible, Last
    <3>3. Links(s, p, e.explicit) /\ p[1] = Op("close", System) /\ p[Len(p)] = Op("close", System)
      BY <3>1, <3>2, LinksOne
    <3> HIDE DEF p
    <3> QED
      BY <3>1, <3>2, <3>3 DEF Links, Chain
  <2> HIDE DEF p
  <2>3. Local(s, n) /\ n.todo = p
    BY <1>1, <1>3, <2>2, StartLocal DEF Inside
  <2> HIDE DEF n
  <2>4. \A g \in Groups : ~Holds(n, g)
    BY <2>2, <2>3 DEF Holds, First
  <2>5. Locals' /\ DOMAIN eng' = Connections
    BY <1>0, <1>1, <2>1, <2>3, OneLocal
  <2>6. \A d \in Connections : eng'[d] = IF d = c THEN n ELSE eng[d]
    BY <1>0, <2>1
  <2>7. w \in Groups /\ Holds(e, w)
    BY <1>1, <1>3, <1>4 DEF TxOk, Groups, GroupsIn, Holds
  <2> HIDE DEF w
  <2>8. \A g \in Groups : g # w => slots'[g] = slots[g]
    BY <1>0, <2>1
  <2>9. slots' \in [Groups -> Slot]
    <3>1. [slots[w] EXCEPT !.held = FALSE] \in Slot
      BY <1>0, <2>7 DEF Slot
    <3> QED
      BY <1>0, <2>1, <3>1
  <2>10. SlotsKept'
    <3> SUFFICES ASSUME NEW g \in Groups, NEW d \in Connections, Holds(eng'[d], g)
                 PROVE  /\ slots'[g].held /\ slots'[g].owner \in {d, None}
                        /\ \A f \in Connections : Holds(eng'[f], g) => f = d
      BY <1>1 DEF SlotsKept
    <3>1. d # c /\ Holds(eng[d], g)
      BY <2>4, <2>6
    <3>2. /\ slots[g].held /\ slots[g].owner \in {d, None}
          /\ \A f \in Connections : Holds(eng[f], g) => f = d
      BY <1>0, <3>1 DEF SlotsKept
    <3>3. g # w
      BY <2>7, <3>1, <3>2
    <3> QED
      BY <2>4, <2>6, <2>8, <3>2, <3>3
  <2> QED
    BY <1>2, <2>5, <2>9, <2>10, FramedInv
<1>5. CASE ~(e.slot /\ slots[w].owner = c)
  <2>1. eng' = [eng EXCEPT ![c] = None] /\ slots' = slots
    BY <1>5 DEF Hangup
  <2>2. Locals' /\ DOMAIN eng' = Connections
    BY <1>0, <1>1, <2>1, OneLocal
  <2>3. \A g \in Groups : Holds(None, g) => Holds(e, g)
    BY DEF Holds
  <2>4. SlotsKept'
    BY <1>0, <1>1, <2>1, <2>3, SlotsAlone
  <2> QED
    BY <1>0, <1>2, <2>1, <2>2, <2>4, FramedInv
<1> QED
  BY <1>4, <1>5

(* The destructor wipes out the owner, also of a slot that another          *)
(* connection has taken since.                                              *)
LEMMA HangupEndsInv ==
    ASSUME AdapterInv, NEW c \in Connections, HangupEnds(c)
    PROVE  AdapterInv'
<1> DEFINE w == eng[c].wgroup
<1>0. /\ Typed /\ Locals /\ SlotsKept /\ slots \in [Groups -> Slot]
      /\ acked \in Stamps /\ DOMAIN eng = Connections
  BY DEF AdapterInv, Typed
<1>1. /\ slots' = [slots EXCEPT ![w].owner = None] /\ eng' = [eng EXCEPT ![c] = None]
      /\ acked' = acked /\ Outside /\ scenario' = scenario /\ Groups' = Groups
  BY DEF HangupEnds, Outside, Others, Groups
<1>2. Framed
  BY <1>0, <1>1, OutsideFrames
<1>3. Locals' /\ DOMAIN eng' = Connections
  BY <1>0, <1>1, OneLocal
<1> HIDE DEF w
<1>4. \A g \in Groups : slots'[g] = IF g = w THEN [slots[g] EXCEPT !.owner = None] ELSE slots[g]
  BY <1>0, <1>1
<1>5. \A g \in Groups : /\ slots'[g] \in Slot /\ slots'[g].held = slots[g].held
                        /\ slots'[g].owner \in {slots[g].owner, None}
  <2> TAKE g \in Groups
  <2>1. slots[g] \in Slot
    BY <1>0
  <2> QED
    BY <1>4, <2>1 DEF Slot
<1>6. slots' \in [Groups -> Slot]
  BY <1>0, <1>1, <1>5
<1>7. \A d \in Connections : eng'[d] = IF d = c THEN None ELSE eng[d]
  BY <1>0, <1>1
<1>8. \A d \in Connections, g \in Groups : Holds(eng'[d], g) => Holds(eng[d], g)
  BY <1>7 DEF Holds
<1>9. SlotsKept'
  BY <1>0, <1>1, <1>5, <1>8 DEF SlotsKept
<1> QED
  BY <1>2, <1>3, <1>6, <1>9, FramedInv

-----------------------------------------------------------------------------
(* The raft threads. *)
LEMMA GroupFacts ==
    ASSUME Typed, NEW g \in Groups
    PROVE  /\ chosen[g] \in Nat /\ log[g] \in Seq(Entry) /\ Len(log[g]) \in Nat
           /\ chosen[g] <= Len(log[g])
           /\ node[g] \in RaftNode /\ node[g].applied \in Nat
           /\ node[g].leader \in BOOLEAN /\ node[g].dirty \in BOOLEAN
           /\ node[g].dirty => node[g].applied < chosen[g]
           /\ g \in Int
<1>1. /\ chosen \in [Groups -> Nat] /\ log \in [Groups -> Seq(Entry)]
      /\ node \in [Groups -> RaftNode]
  BY DEF Typed
<1>6. chosen[g] <= Len(log[g]) /\ (node[g].dirty => node[g].applied < chosen[g])
  <2>1. \A h \in Groups : /\ chosen[h] <= Len(log[h])
                          /\ node[h].dirty => node[h].applied < chosen[h]
    BY Zenon DEF Typed
  <2> QED
    BY <2>1, Zenon
<1>2. g \in Int
  BY Deployment DEF Typed, Groups, GroupsIn
<1>3. node[g] \in RaftNode /\ chosen[g] \in Nat /\ log[g] \in Seq(Entry)
  BY <1>1
<1>4. Len(log[g]) \in Nat
  BY <1>3
<1>5. node[g].applied \in Nat /\ node[g].leader \in BOOLEAN /\ node[g].dirty \in BOOLEAN
  BY <1>3 DEF RaftNode
<1> QED
  BY <1>2, <1>3, <1>4, <1>5, <1>6

LEMMA TypedNext ==
    ASSUME Typed, scenario' = scenario, DOMAIN eng' = Connections, slots' \in [Groups -> Slot],
           node' \in [Groups -> RaftNode], log' \in [Groups -> Seq(Entry)],
           chosen' \in [Groups -> Nat],
           \A g \in Groups : /\ chosen'[g] <= Len(log'[g])
                             /\ node'[g].dirty => node'[g].applied < chosen'[g],
           disk' \in Stored, acked' \in Stamps, bounds' \in Counters
    PROVE  Typed'
<1>1. Groups' = Groups /\ Stored' = Stored
  BY DEF Groups, Stored
<1> QED
  BY <1>1, Zenon DEF Typed

(* A call is taken, answered or fails. *)
LEMMA AnsweredLocal ==
    ASSUME NEW s \in Scenarios, NEW e, Local(s, e), e.call.stage # "none", NEW n \in Engine,
           Alike(n, e), n.todo = e.todo, n.call.kind = e.call.kind,
           n.call.group = e.call.group, n.call.stage # "none"
    PROVE  Local(s, n)
<1>0. e.call # NoCall /\ e.todo # << >>
  BY CallIs
<1>1. /\ e \in Engine /\ TxOk(s, e) /\ Chain(s, e.todo, e.explicit)
      /\ PhaseAt(e, First(e)) /\ Calling(s, e) /\ HomeAt(s, e, First(e))
  BY <1>0, LocalFacts
<1>4. First(n) = First(e) /\ n.tx = e.tx /\ n.bound = e.bound /\ n.crossed = e.crossed
      /\ n.wrote = e.wrote /\ n.wgroup = e.wgroup
  BY DEF Alike, First
<1>5. Calling(s, n)
  BY <1>0, <1>1, <1>4 DEF Calling, Passed
<1> QED
  BY <1>0, <1>1, <1>5, CallLocal

(* Only calls change. *)
Stages == {"queued", "pending", "done", "failed"}
OnlyCalls ==
    /\ DOMAIN eng' = Connections
    /\ \A d \in Connections :
          \/ eng'[d] = eng[d]
          \/ /\ eng[d] # None /\ eng[d].call.stage # "none"
             /\ \E st \in Stages, i \in Nat : eng'[d] = At(eng[d], st, i)

LEMMA AtFields ==
    ASSUME NEW e \in Engine, NEW st \in Stages, NEW i \in Nat
    PROVE  /\ At(e, st, i) \in Engine /\ Alike(At(e, st, i), e) /\ At(e, st, i).todo = e.todo
           /\ At(e, st, i).call.kind = e.call.kind /\ At(e, st, i).call.group = e.call.group
           /\ At(e, st, i).call.stage = st /\ At(e, st, i).call.index = i
<1> DEFINE k == [e.call EXCEPT !.stage = st, !.index = i]
           n == [e EXCEPT !.call = k]
<1>1. e.call \in RaftCall
  BY EngineFields
<1>2. /\ k \in RaftCall /\ k.kind = e.call.kind /\ k.group = e.call.group
      /\ k.stage = st /\ k.index = i
  BY <1>1 DEF RaftCall, Stages
<1>3. At(e, st, i) = n
  BY DEF At, Engine
<1> HIDE DEF k
<1>4. n \in Engine
  BY <1>2, Zenon DEF Engine
<1>5. Alike(n, e) /\ n.todo = e.todo /\ n.call = k
  BY DEF Engine, Alike
<1> HIDE DEF n
<1> QED
  BY <1>2, <1>3, <1>4, <1>5

LEMMA SameIndex ==
    ASSUME NEW e \in Engine, NEW st
    PROVE  [e EXCEPT !.call.stage = st] = At(e, st, e.call.index) /\ e.call.index \in Nat
<1> DEFINE k == e.call
<1>1. k \in RaftCall /\ k.index \in Nat
  BY EngineFields DEF RaftCall
<1>2. [k EXCEPT !.stage = st] = [k EXCEPT !.stage = st, !.index = k.index]
  BY <1>1 DEF RaftCall
<1>3. At(e, st, k.index) = [e EXCEPT !.call = [k EXCEPT !.stage = st, !.index = k.index]]
  BY DEF At, Engine
<1>4. [e EXCEPT !.call.stage = st] = [e EXCEPT !.call = [k EXCEPT !.stage = st]]
  OBVIOUS
<1> QED
  BY <1>1, <1>2, <1>3, <1>4

LEMMA OnlyCallsKeep ==
    ASSUME AdapterInv, OnlyCalls, scenario' = scenario, slots' = slots
    PROVE  Locals' /\ SlotsKept' /\ DOMAIN eng' = Connections /\ slots' \in [Groups -> Slot]
<1>0. /\ scenario \in Scenarios /\ Locals /\ SlotsKept /\ slots \in [Groups -> Slot]
      /\ Groups' = Groups
  BY DEF AdapterInv, Typed, Groups
<1>1. ASSUME NEW d \in Connections
      PROVE  /\ eng'[d] = None \/ Local(scenario, eng'[d])
             /\ \A g \in Groups : Holds(eng'[d], g) => Holds(eng[d], g)
  <2>1. CASE eng'[d] = eng[d]
    BY <1>0, <2>1 DEF Locals
  <2>2. ASSUME eng[d] # None, eng[d].call.stage # "none", NEW st \in Stages, NEW i \in Nat,
               eng'[d] = At(eng[d], st, i)
        PROVE  /\ Local(scenario, eng'[d])
               /\ \A g \in Groups : Holds(eng'[d], g) => Holds(eng[d], g)
    <3> DEFINE e == eng[d]
               n == At(e, st, i)
    <3>1. Local(scenario, e) /\ e \in Engine /\ st # "none"
      BY <1>0, <2>2 DEF Locals, Local, Stages
    <3>2. /\ n \in Engine /\ Alike(n, e) /\ n.todo = e.todo /\ n.call.kind = e.call.kind
          /\ n.call.group = e.call.group /\ n.call.stage = st
      BY <3>1, AtFields
    <3> HIDE DEF n
    <3>3. Local(scenario, n)
      BY <1>0, <2>2, <3>1, <3>2, AnsweredLocal
    <3>4. \A g \in Groups : Holds(n, g) => Holds(e, g)
      BY <2>2, <3>2 DEF Holds, First, Alike
    <3> QED
      BY <2>2, <3>3, <3>4 DEF n
  <2> QED
    BY <2>1, <2>2 DEF OnlyCalls
<1>2. Locals'
  BY <1>1 DEF Locals
<1>3. SlotsKept'
  BY <1>0, <1>1 DEF SlotsKept
<1> QED
  BY <1>0, <1>2, <1>3 DEF OnlyCalls

LEMMA OneCall ==
    ASSUME Typed, NEW c \in Connections, eng[c] # None, eng[c].call.stage # "none",
           NEW st \in Stages, NEW i \in Nat, eng' = [eng EXCEPT ![c] = At(eng[c], st, i)]
    PROVE  OnlyCalls
<1>1. DOMAIN eng = Connections
  BY DEF Typed
<1>2. /\ DOMAIN eng' = Connections
      /\ \A d \in Connections : d # c => eng'[d] = eng[d]
      /\ eng'[c] = At(eng[c], st, i)
  BY <1>1
<1> QED
  BY <1>2 DEF OnlyCalls

LEMMA BarrierInv ==
    ASSUME AdapterInv, NEW c \in Connections, BarrierPasses(c)
    PROVE  AdapterInv'
<1> DEFINE i == eng[c].call.index
<1>1. /\ eng[c] # None /\ eng[c].call.stage # "none" /\ Typed
      /\ eng' = [eng EXCEPT ![c] = [eng[c] EXCEPT !.call.stage = "done"]]
      /\ UNCHANGED <<scenario, slots, node, log, chosen, disk, acked, bounds>>
  BY DEF BarrierPasses, AdapterInv
<1>2. eng[c] \in Engine /\ eng[c].call \in RaftCall
  BY <1>1, EngineFields DEF AdapterInv, Locals, Local
<1>3. i \in Nat /\ "done" \in Stages
  BY <1>2 DEF RaftCall, Stages
<1>4. eng' = [eng EXCEPT ![c] = At(eng[c], "done", i)]
  BY <1>1, <1>2, SameIndex
<1> HIDE DEF i
<1>5. OnlyCalls
  BY <1>1, <1>3, <1>4, OneCall, ZenonT(40)
<1>6. Framed
  BY <1>1 DEF Typed, Framed
<1> QED
  BY <1>1, <1>5, <1>6, OnlyCallsKeep, FramedInv

(* A proposal goes to the group of the keys. *)
LEMMA TakeInv ==
    ASSUME AdapterInv, NEW c \in Connections, TakeCall(c)
    PROVE  AdapterInv'
<1> DEFINE s == scenario
           e == eng[c]
           g == e.call.group
<1>0. /\ Typed /\ s \in Scenarios /\ log \in [Groups -> Seq(Entry)] /\ chosen \in [Groups -> Nat]
      /\ scenario' = scenario /\ slots' = slots /\ e # None /\ e.call.stage = "queued"
      /\ UNCHANGED <<node, chosen, disk, acked, bounds>>
  BY DEF AdapterInv, Typed, TakeCall
<1>1. Local(s, e)
  BY <1>0 DEF AdapterInv, Locals
<1>2. e.call # NoCall /\ e.todo # << >>
  BY <1>0, <1>1, CallIs
<1>3. /\ e \in Engine /\ TxOk(s, e) /\ PhaseAt(e, First(e)) /\ Calling(s, e)
      /\ HomeAt(s, e, First(e))
  BY <1>1, <1>2, LocalFacts
<1>4. g \in Groups
  BY <1>2, <1>3 DEF Calling, Groups, GroupsIn
<1>5. chosen[g] \in Nat /\ Len(log[g]) \in Nat /\ log[g] \in Seq(Entry)
  BY <1>0, <1>4
<1>6. CASE \/ eng' = [eng EXCEPT ![c] = At(e, "failed", 0)] /\ log' = log
           \/ eng' = [eng EXCEPT ![c] = At(e, "pending", chosen[g])] /\ log' = log
  <2>1. OnlyCalls
    BY <1>0, <1>5, <1>6, OneCall DEF Stages
  <2>2. Framed
    BY <1>0, <1>6 DEF Typed, Framed
  <2> QED
    BY <1>0, <2>1, <2>2, OnlyCallsKeep, FramedInv
<1>7. CASE /\ e.call.kind # "read"
           /\ log' = [log EXCEPT ![g] =
                 Append(@, [client |-> e.client, request |-> e.next - 1,
                            keys |-> e.tx, fresh |-> e.fresh,
                            adrift |-> e.adrift])]
           /\ eng' = [eng EXCEPT ![c] = At(e, "pending", Len(log[g]) + 1)]
  <2> DEFINE ent == [client |-> e.client, request |-> e.next - 1,
                     keys |-> e.tx, fresh |-> e.fresh, adrift |-> e.adrift]
  <2> DEFINE j == Len(log[g]) + 1
  <2>0. j \in Nat /\ "pending" \in Stages /\ eng' = [eng EXCEPT ![c] = At(e, "pending", j)]
    BY <1>5, <1>7 DEF Stages
  <2> HIDE DEF j
  <2>1. OnlyCalls
    BY <1>0, <2>0, OneCall
  <2>2. Locals' /\ SlotsKept' /\ DOMAIN eng' = Connections /\ slots' \in [Groups -> Slot]
    BY <1>0, <2>1, OnlyCallsKeep
  <2>3. e.wrote /\ First(e).op \in {"end", "commit"} /\ g = e.wgroup
    BY <1>2, <1>3, <1>7 DEF Calling
  <2>4. e.tx \in SUBSET Keys /\ e.tx # {} /\ e.tx # None /\ e.slot
    BY <1>3, <2>3, EngineFields DEF TxOk
  <2>5. ent \in Entry
    <3>1. /\ e.client \in Nat /\ e.next - 1 \in Nat /\ e.fresh \in SUBSET Keys
          /\ e.adrift \in BOOLEAN
      BY <1>3, EngineFields
    <3> QED
      BY <2>4, <3>1 DEF Entry
  <2>6. ent.keys = e.tx /\ ent.adrift = e.adrift
    OBVIOUS
  <2> HIDE DEF ent
  <2>7. /\ log' \in [Groups -> Seq(Entry)]
        /\ \A h \in Groups : Len(log[h]) <= Len(log'[h])
        /\ \A h \in Groups : \A i \in DOMAIN log'[h] :
              \/ i \in DOMAIN log[h] /\ log'[h][i] = log[h][i]
              \/ h = g /\ log'[h][i] = ent
    <3>1. log' = [log EXCEPT ![g] = Append(log[g], ent)]
      BY <1>7 DEF ent
    <3>2. Append(log[g], ent) \in Seq(Entry)
      BY <1>5, <2>5
    <3>3. \A h \in Groups : log'[h] = IF h = g THEN Append(log[g], ent) ELSE log[h]
      BY <1>0, <1>4, <3>1
    <3>4. /\ Len(Append(log[g], ent)) = Len(log[g]) + 1
          /\ \A i \in DOMAIN Append(log[g], ent) :
                \/ i \in DOMAIN log[g] /\ Append(log[g], ent)[i] = log[g][i]
                \/ Append(log[g], ent)[i] = ent
      BY <1>5, <2>5
    <3>5. log' \in [Groups -> Seq(Entry)]
      BY <1>0, <3>1, <3>2
    <3>6. \A h \in Groups : log[h] \in Seq(Entry) /\ Len(log[h]) \in Nat
      BY <1>0
    <3>7. \A h \in Groups : Len(log[h]) <= Len(log'[h])
      <4> TAKE h \in Groups
      <4>1. CASE h = g
        <5> DEFINE n == Len(log[g])
                   m == Len(log'[h])
        <5>1. m = n + 1 /\ Len(log[h]) = n /\ n \in Nat
          BY <1>5, <3>3, <3>4, <4>1
        <5> HIDE DEF n, m
        <5>2. n <= m
          BY <5>1
        <5> QED
          BY <5>1, <5>2 DEF n, m
      <4>2. CASE h # g
        BY <3>3, <3>6, <4>2
      <4> QED
        BY <4>1, <4>2
    <3>8. \A h \in Groups : \A i \in DOMAIN log'[h] :
              \/ i \in DOMAIN log[h] /\ log'[h][i] = log[h][i]
              \/ h = g /\ log'[h][i] = ent
      BY <3>3, <3>4
    <3> QED
      BY <3>5, <3>7, <3>8
  <2>8. Groups' = Groups
    BY <1>0 DEF Groups
  <2>9. \A h \in Groups : chosen[h] <= Len(log'[h])
    <3> TAKE h \in Groups
    <3>1. chosen[h] \in Nat /\ log[h] \in Seq(Entry)
      BY <1>0
    <3>3. chosen[h] <= Len(log[h])
      BY <1>0, GroupFacts
    <3>2. log'[h] \in Seq(Entry) /\ Len(log[h]) <= Len(log'[h])
      BY <2>7
    <3> QED
      BY <3>1, <3>2, <3>3
  <2>10. Typed'
    <3>1. /\ node' \in [Groups -> RaftNode] /\ chosen' \in [Groups -> Nat]
          /\ disk' \in Stored /\ acked' \in Stamps /\ bounds' \in Counters
      BY <1>0 DEF Typed
    <3>2. \A h \in Groups : /\ chosen'[h] <= Len(log'[h])
                            /\ node'[h].dirty => node'[h].applied < chosen'[h]
      BY <1>0, <2>9, GroupFacts
    <3> QED
      BY <1>0, <2>2, <2>7, <3>1, <3>2, TypedNext
  <2>11. HomeUnlessAdrift'
    <3>1. AtHome(s, e)
      BY <1>3, <2>3, <2>4 DEF HomeAt
    <3>2. e.adrift \/ \A k \in e.tx : GroupIn(s, k) = g
      BY <1>3, <2>3, <2>4, <3>1 DEF AtHome, PhaseAt
    <3>3. HomeUnlessAdrift
      BY DEF AdapterInv
    <3>4. \A k : Group(k)' = Group(k) /\ Group(k) = GroupIn(s, k)
      BY <1>0 DEF Group, GroupIn
    <3> QED
      BY <2>6, <2>7, <2>8, <3>2, <3>3, <3>4 DEF HomeUnlessAdrift
  <2> QED
    BY <2>2, <2>10, <2>11 DEF AdapterInv
<1> QED
  BY <1>6, <1>7 DEF TakeCall

LEMMA ResolveOnlyCalls ==
    ASSUME AdapterInv, NEW g, NEW kind, NEW from, NEW to, NEW st \in Stages,
           eng' = Resolve(g, kind, from, to, st)
    PROVE  OnlyCalls
<1>1. DOMAIN eng' = Connections
  BY DEF Resolve
<1>2. ASSUME NEW d \in Connections
      PROVE  \/ eng'[d] = eng[d]
             \/ /\ eng[d] # None /\ eng[d].call.stage # "none"
                /\ \E t \in Stages, i \in Nat : eng'[d] = At(eng[d], t, i)
  <2>1. eng'[d] = IF Settled(d, g, "pending", from, to) /\ eng[d].call.kind \in kind
                  THEN [eng[d] EXCEPT !.call.stage = st] ELSE eng[d]
    BY DEF Resolve
  <2>2. CASE Settled(d, g, "pending", from, to) /\ eng[d].call.kind \in kind
    <3>1. eng[d] # None /\ eng[d].call.stage # "none"
      BY <2>2 DEF Settled
    <3>2. eng[d] \in Engine
      BY <3>1 DEF AdapterInv, Locals, Local
    <3>3. /\ [eng[d] EXCEPT !.call.stage = st] = At(eng[d], st, eng[d].call.index)
          /\ eng[d].call.index \in Nat
      BY <3>2, SameIndex
    <3>4. eng'[d] = At(eng[d], st, eng[d].call.index)
      BY <2>1, <2>2, <3>3
    <3> QED
      BY <3>1, <3>3, <3>4
  <2>3. CASE ~(Settled(d, g, "pending", from, to) /\ eng[d].call.kind \in kind)
    BY <2>1, <2>3
  <2> QED
    BY <2>2, <2>3
<1> QED
  BY <1>1, <1>2 DEF OnlyCalls

(* The log and the slots as they are, and at most the calls change. *)
LEMMA NodesInv ==
    ASSUME AdapterInv, UNCHANGED <<scenario, slots, log, chosen>>, OnlyCalls \/ eng' = eng,
           node' \in [Groups -> RaftNode],
           \A h \in Groups : node'[h].dirty => node'[h].applied < chosen[h],
           disk' \in Stored, acked' \in Stamps, bounds' \in Counters
    PROVE  AdapterInv'
<1>0. Typed /\ Groups' = Groups
  BY DEF AdapterInv, Groups
<1>1. DOMAIN eng' = Connections /\ Locals' /\ SlotsKept' /\ slots' \in [Groups -> Slot]
  <2>1. CASE OnlyCalls
    BY <2>1, OnlyCallsKeep
  <2>2. CASE eng' = eng
    BY <1>0, <2>2 DEF AdapterInv, Typed, Locals, SlotsKept
  <2> QED
    BY <2>1, <2>2
<1>2. /\ log' \in [Groups -> Seq(Entry)] /\ chosen' \in [Groups -> Nat]
  BY <1>0 DEF Typed
<1>3. \A h \in Groups : /\ chosen'[h] <= Len(log'[h])
                        /\ node'[h].dirty => node'[h].applied < chosen'[h]
  BY <1>0, GroupFacts
<1>4. Typed'
  BY <1>0, <1>1, <1>2, <1>3, TypedNext
<1>5. HomeUnlessAdrift'
  BY <1>0 DEF AdapterInv, HomeUnlessAdrift, Group
<1> QED
  BY <1>1, <1>4, <1>5 DEF AdapterInv

LEMMA NodeChanged ==
    ASSUME Typed, NEW g \in Groups, NEW n \in RaftNode, node' = [node EXCEPT ![g] = n],
           n.dirty => n.applied < chosen[g]
    PROVE  /\ node' \in [Groups -> RaftNode]
           /\ \A h \in Groups : node'[h].dirty => node'[h].applied < chosen[h]
<1>1. node \in [Groups -> RaftNode]
  BY DEF Typed
<1>2. \A h \in Groups : node'[h] = IF h = g THEN n ELSE node[h]
  BY <1>1
<1>3. \A h \in Groups : node'[h].dirty => node'[h].applied < chosen[h]
  BY <1>2, GroupFacts
<1> QED
  BY <1>1, <1>3

LEMMA AdvanceInv ==
    ASSUME AdapterInv, NEW g \in Groups, Advance(g), disk' \in Stored,
           UNCHANGED <<scenario, slots, log, chosen, acked, bounds>>
    PROVE  AdapterInv'
<1> DEFINE n == [node[g] EXCEPT !.applied = @ + 1, !.dirty = FALSE]
<1>0. Typed /\ acked \in Stamps /\ bounds \in Counters /\ node[g] \in RaftNode
  BY GroupFacts DEF AdapterInv, Typed
<1>1. OnlyCalls
  BY ResolveOnlyCalls DEF Advance, Stages
<1>2. n \in RaftNode /\ ~n.dirty
  <2>1. node[g].applied + 1 \in Nat
    BY <1>0 DEF RaftNode
  <2>2. n \in RaftNode
    BY <1>0, <2>1, Zenon DEF RaftNode
  <2>3. ~n.dirty
    BY <1>0 DEF RaftNode
  <2> QED
    BY <2>2, <2>3
<1>3. node' = [node EXCEPT ![g] = n]
  BY <1>0 DEF Advance, Typed
<1> HIDE DEF n
<1>4. /\ node' \in [Groups -> RaftNode]
      /\ \A h \in Groups : node'[h].dirty => node'[h].applied < chosen[h]
  BY <1>0, <1>2, <1>3, NodeChanged
<1> QED
  BY <1>0, <1>1, <1>4, NodesInv

LEMMA ApplyInv ==
    ASSUME AdapterInv, NEW g \in Groups, Apply(g)
    PROVE  AdapterInv'
<1>0. /\ Typed /\ disk \in Stored /\ acked \in Stamps /\ bounds \in Counters
      /\ node \in [Groups -> RaftNode] /\ node[g] \in RaftNode /\ node[g].applied \in Nat
  BY GroupFacts DEF AdapterInv, Typed
<1>1. CASE ApplySkips(g)
  BY <1>0, <1>1, AdvanceInv DEF ApplySkips
<1>2. CASE ApplyFails(g)
  <2>1. OnlyCalls
    BY <1>2, ResolveOnlyCalls DEF ApplyFails, Stages
  <2>2. UNCHANGED <<scenario, slots, node, log, chosen, disk, acked, bounds>>
    BY <1>2 DEF ApplyFails
  <2>3. Framed
    BY <1>0, <2>2 DEF Framed
  <2> QED
    BY <2>1, <2>2, <2>3, OnlyCallsKeep, FramedInv
<1>3. CASE ApplyWrites(g)
  <2> DEFINE i == node[g].applied + 1
             st == [k \in Keys |-> IF k \in NextEntry(g).keys THEN i ELSE disk.store[k]]
             re == [disk.reached EXCEPT ![g] = IF i > @ THEN i ELSE @]
             n == [node[g] EXCEPT !.dirty = TRUE]
  <2>1. i \in Nat /\ disk.store \in Stamps /\ disk.reached \in [Groups -> Nat]
    BY <1>0 DEF Stored
  <2>2. st \in Stamps /\ re \in [Groups -> Nat]
    BY <2>1 DEF Stamps
  <2>3. disk' = [disk EXCEPT !.store = st, !.reached = re]
    BY <1>3 DEF ApplyWrites
  <2> HIDE DEF st, re
  <2>4. disk' \in Stored
    BY <1>0, <2>2, <2>3, Zenon DEF Stored
  <2>5. n \in RaftNode /\ n.applied = node[g].applied
    BY <1>0 DEF RaftNode
  <2>6. node' = [node EXCEPT ![g] = n] /\ n.applied < chosen[g]
    BY <1>0, <1>3, <2>5 DEF ApplyWrites, Applicable
  <2> HIDE DEF n
  <2>7. /\ node' \in [Groups -> RaftNode]
        /\ \A h \in Groups : node'[h].dirty => node'[h].applied < chosen[h]
    BY <1>0, <2>5, <2>6, NodeChanged
  <2>8. UNCHANGED <<scenario, slots, eng, log, chosen, acked, bounds>>
    BY <1>3 DEF ApplyWrites
  <2> QED
    BY <1>0, <2>4, <2>7, <2>8, NodesInv
<1>4. CASE ApplySaves(g)
  <2> DEFINE ent == NextEntry(g)
             re == [disk.results EXCEPT ![g] = [@ EXCEPT ![ent.client] = ent.request]]
  <2>1. ent \in Entry
    <3>1. /\ node[g].dirty /\ log[g] \in Seq(Entry) /\ chosen[g] \in Nat
          /\ node[g].applied < chosen[g] /\ chosen[g] <= Len(log[g]) /\ Len(log[g]) \in Nat
      BY <1>0, <1>4, GroupFacts DEF ApplySaves
    <3>2. node[g].applied + 1 \in 1 .. Len(log[g])
      BY <1>0, <3>1
    <3> QED
      BY <3>1, <3>2 DEF NextEntry
  <2>2. ent.request \in Nat
    BY <2>1 DEF Entry
  <2> HIDE DEF ent
  <2>3. disk.results \in [Groups -> [ClientIds -> Nat]]
    BY <1>0 DEF Stored
  <2>4. re \in [Groups -> [ClientIds -> Nat]]
    <3>1. [disk.results[g] EXCEPT ![ent.client] = ent.request] \in [ClientIds -> Nat]
      BY <2>2, <2>3
    <3> QED
      BY <2>3, <3>1
  <2>5. disk' = [disk EXCEPT !.results = re]
    BY <1>4 DEF ApplySaves, ent
  <2> HIDE DEF re
  <2>6. disk' \in Stored
    BY <1>0, <2>4, <2>5, Zenon DEF Stored
  <2> QED
    BY <1>4, <2>6, AdvanceInv DEF ApplySaves
<1> QED
  BY <1>1, <1>2, <1>3, <1>4 DEF Apply

LEMMA GroupInv ==
    ASSUME AdapterInv, NEW g \in Groups, GroupStep(g)
    PROVE  AdapterInv'
<1>0. /\ Typed /\ disk \in Stored /\ acked \in Stamps /\ bounds \in Counters
      /\ node \in [Groups -> RaftNode] /\ node[g] \in RaftNode
      /\ log \in [Groups -> Seq(Entry)] /\ chosen \in [Groups -> Nat]
      /\ chosen[g] \in Nat /\ log[g] \in Seq(Entry) /\ Len(log[g]) \in Nat
      /\ chosen[g] <= Len(log[g]) /\ DOMAIN eng = Connections /\ slots \in [Groups -> Slot]
  BY GroupFacts DEF AdapterInv, Typed
<1>1. CASE Apply(g)
  BY <1>1, ApplyInv
<1>2. CASE Commit(g)
  <2>1. /\ chosen[g] < Len(log[g]) /\ chosen' = [chosen EXCEPT ![g] = @ + 1]
        /\ UNCHANGED <<scenario, eng, slots, node, log, disk, acked, bounds>>
    BY <1>2 DEF Commit
  <2>2. chosen' \in [Groups -> Nat]
    BY <1>0, <2>1
  <2>3. \A h \in Groups : /\ chosen'[h] <= Len(log'[h])
                          /\ node'[h].dirty => node'[h].applied < chosen'[h]
    <3> TAKE h \in Groups
    <3>1. CASE h = g
      <4>1. chosen'[h] = chosen[h] + 1
        BY <1>0, <2>1, <3>1
      <4> QED
        BY <1>0, <2>1, <3>1, <4>1, GroupFacts
    <3>2. CASE h # g
      <4>1. chosen'[h] = chosen[h]
        BY <1>0, <2>1, <3>2
      <4> QED
        BY <1>0, <2>1, <4>1, GroupFacts
    <3> QED
      BY <3>1, <3>2
  <2>4. Typed'
    BY <1>0, <2>1, <2>2, <2>3, TypedNext
  <2>5. Groups' = Groups
    BY <2>1 DEF Groups
  <2>6. Locals' /\ SlotsKept' /\ HomeUnlessAdrift'
    BY <2>1, <2>5 DEF AdapterInv, Locals, SlotsKept, HomeUnlessAdrift, Group
  <2> QED
    BY <2>4, <2>6 DEF AdapterInv
<1>3. CASE LoseLeadership(g)
  <2> DEFINE n == [node[g] EXCEPT !.leader = FALSE]
  <2>1. OnlyCalls
    BY <1>3, ResolveOnlyCalls DEF LoseLeadership, Stages
  <2>2. /\ node' = [node EXCEPT ![g] = n] /\ Fault
        /\ UNCHANGED <<scenario, slots, log, chosen, disk, acked>>
    BY <1>0, <1>3 DEF LoseLeadership
  <2>3. n \in RaftNode /\ n.applied = node[g].applied /\ n.dirty = node[g].dirty
    BY <1>0 DEF RaftNode
  <2> HIDE DEF n
  <2>4. /\ node' \in [Groups -> RaftNode]
        /\ \A h \in Groups : node'[h].dirty => node'[h].applied < chosen[h]
    BY <1>0, <2>2, <2>3, NodeChanged, GroupFacts
  <2>5. bounds' \in Counters
    <3>1. bounds' = [bounds EXCEPT !.faults = @ + 1]
      BY <2>2 DEF Fault
    <3>2. bounds.faults + 1 \in Nat
      BY <1>0 DEF Counters
    <3> QED
      BY <1>0, <3>1, <3>2, Zenon DEF Counters
  <2> QED
    BY <1>0, <2>1, <2>2, <2>4, <2>5, NodesInv
<1>4. CASE RemoteWrite(g)
  <2> DEFINE i == chosen[g] + 1
             keys == {k \in Keys : Group(k) = g}
             ent == [client |-> MaxClients + i, request |-> 1, keys |-> keys, fresh |-> {},
                     adrift |-> FALSE]
             old == SubSeq(log[g], 1, chosen[g])
             new == Append(old, ent)
  <2>1. /\ log' = [log EXCEPT ![g] = new]
        /\ acked' = [k \in Keys |-> IF k \in keys THEN i ELSE acked[k]]
        /\ chosen' = [chosen EXCEPT ![g] = @ + 1]
        /\ UNCHANGED <<scenario, eng, slots, node, disk, bounds>>
    BY <1>4 DEF RemoteWrite
  <2>2. i \in Nat /\ i = chosen[g] + 1 /\ MaxClients \in Nat
    BY <1>0, RaftKVAssumption
  <2>3. ent \in Entry /\ ent.keys = keys
    <3>1. MaxClients + i \in Nat /\ 1 \in Nat /\ keys \in SUBSET Keys
      BY <2>2
    <3> HIDE DEF keys, i
    <3> QED
      BY <3>1 DEF Entry
  <2>4. acked' \in Stamps
    BY <1>0, <2>1, <2>2 DEF Stamps
  <2> HIDE DEF ent, i
  <2>5. /\ old \in Seq(Entry) /\ Len(old) = chosen[g]
        /\ \A j \in 1 .. chosen[g] : old[j] = log[g][j] /\ j \in DOMAIN log[g]
    BY <1>0
  <2> HIDE DEF old
  <2>6. /\ new \in Seq(Entry) /\ Len(new) = chosen[g] + 1
        /\ \A j \in DOMAIN new : new[j] = ent \/ (j \in DOMAIN log[g] /\ new[j] = log[g][j])
    <3>1. /\ new \in Seq(Entry) /\ Len(new) = Len(old) + 1
          /\ \A j \in DOMAIN new : j \in 1 .. Len(old) + 1
          /\ \A j \in 1 .. Len(old) : new[j] = old[j]
          /\ new[Len(old) + 1] = ent
      BY <2>3, <2>5
    <3> HIDE DEF new
    <3>2. ASSUME NEW j \in DOMAIN new
          PROVE  new[j] = ent \/ (j \in DOMAIN log[g] /\ new[j] = log[g][j])
      <4>1. j \in 1 .. chosen[g] + 1
        BY <2>5, <3>1
      <4>2. CASE j = chosen[g] + 1
        BY <2>5, <3>1, <4>2
      <4>3. CASE j \in 1 .. chosen[g]
        BY <2>5, <3>1, <4>3
      <4> QED
        BY <1>0, <4>1, <4>2, <4>3
    <3> QED
      BY <2>5, <3>1, <3>2
  <2> HIDE DEF new
  <2>7. log' \in [Groups -> Seq(Entry)] /\ chosen' \in [Groups -> Nat]
    BY <1>0, <2>1, <2>6
  <2>8. \A h \in Groups : /\ log'[h] = IF h = g THEN new ELSE log[h]
                          /\ chosen'[h] = IF h = g THEN chosen[g] + 1 ELSE chosen[h]
    BY <1>0, <2>1
  <2>9. \A h \in Groups : /\ chosen'[h] <= Len(log'[h])
                          /\ node'[h].dirty => node'[h].applied < chosen'[h]
    <3> TAKE h \in Groups
    <3>1. CASE h = g
      <4>1. chosen'[h] = chosen[h] + 1 /\ Len(log'[h]) = chosen[h] + 1
        BY <2>6, <2>8, <3>1
      <4> QED
        BY <1>0, <2>1, <3>1, <4>1, GroupFacts
    <3>2. CASE h # g
      BY <1>0, <2>1, <2>8, <3>2, GroupFacts
    <3> QED
      BY <3>1, <3>2
  <2>10. Typed'
    BY <1>0, <2>1, <2>4, <2>7, <2>9, TypedNext
  <2>11. Groups' = Groups /\ Locals' /\ SlotsKept'
    <3>1. Groups' = Groups
      BY <2>1 DEF Groups
    <3> QED
      BY <2>1, <3>1 DEF AdapterInv, Locals, SlotsKept
  <2>12. HomeUnlessAdrift'
    <3>1. \A k : Group(k)' = Group(k)
      BY <2>1 DEF Group
    <3>2. \A k \in ent.keys : Group(k) = g
      BY <2>3
    <3>3. HomeUnlessAdrift
      BY DEF AdapterInv
    <3> QED
      BY <2>6, <2>8, <2>11, <3>1, <3>2, <3>3 DEF HomeUnlessAdrift
  <2> QED
    BY <2>10, <2>11, <2>12 DEF AdapterInv
<1>5. CASE GainLeadership(g)
  <2> DEFINE n == [node[g] EXCEPT !.leader = TRUE]
  <2>1. /\ node' = [node EXCEPT ![g] = n]
        /\ UNCHANGED <<scenario, eng, slots, log, chosen, disk, acked, bounds>>
    BY <1>0, <1>5 DEF GainLeadership
  <2>2. n \in RaftNode /\ n.applied = node[g].applied /\ n.dirty = node[g].dirty
    BY <1>0 DEF RaftNode
  <2> HIDE DEF n
  <2>3. /\ node' \in [Groups -> RaftNode]
        /\ \A h \in Groups : node'[h].dirty => node'[h].applied < chosen[h]
    BY <1>0, <2>1, <2>2, NodeChanged, GroupFacts
  <2> QED
    BY <1>0, <2>1, <2>3, NodesInv
<1>6. CASE Compact(g)
  <2> DEFINE bo == [disk.boundary EXCEPT ![g] = node[g].applied]
  <2>1. /\ disk' = [disk EXCEPT !.boundary = bo]
        /\ UNCHANGED <<scenario, eng, slots, node, log, chosen, acked, bounds>>
    BY <1>6 DEF Compact
  <2>2. bo \in [Groups -> Nat]
    <3>1. disk.boundary \in [Groups -> Nat] /\ node[g].applied \in Nat
      BY <1>0, GroupFacts DEF Stored
    <3> QED
      BY <3>1
  <2> HIDE DEF bo
  <2>3. disk' \in Stored
    BY <1>0, <2>1, <2>2, Zenon DEF Stored
  <2>4. \A h \in Groups : node'[h].dirty => node'[h].applied < chosen[h]
    BY <1>0, <2>1, GroupFacts
  <2> QED
    BY <1>0, <2>1, <2>3, <2>4, NodesInv
<1> QED
  BY <1>1, <1>2, <1>3, <1>4, <1>5, <1>6 DEF GroupStep

-----------------------------------------------------------------------------
(* Restarts. *)
LEMMA NewNodeIs ==
    /\ NewNode \in RaftNode /\ ~NewNode.dirty
    /\ \A b \in BOOLEAN : /\ [NewNode EXCEPT !.leader = b] \in RaftNode
                          /\ ~[NewNode EXCEPT !.leader = b].dirty
    /\ \A i \in Nat : /\ [NewNode EXCEPT !.applied = i] \in RaftNode
                      /\ ~[NewNode EXCEPT !.applied = i].dirty
  BY DEF NewNode, RaftNode

LEMMA DownInv ==
    ASSUME AdapterInv, Down
    PROVE  AdapterInv'
<1>0. Typed /\ disk \in Stored /\ acked \in Stamps /\ bounds \in Counters
  BY DEF AdapterInv, Typed
<1>1. /\ eng' = [c \in Connections |-> None] /\ Fault
      /\ slots' = [g \in Groups |-> [held |-> FALSE, owner |-> None]]
      /\ node' = [g \in Groups |-> NewNode]
      /\ UNCHANGED <<scenario, log, chosen, disk, acked>>
  BY DEF Down
<1>2. bounds' \in Counters
  <2>1. bounds' = [bounds EXCEPT !.faults = @ + 1]
    BY <1>1 DEF Fault
  <2>2. bounds.faults + 1 \in Nat
    BY <1>0 DEF Counters
  <2> QED
    BY <1>0, <2>1, <2>2, Zenon DEF Counters
<1>3. slots' \in [Groups -> Slot] /\ node' \in [Groups -> RaftNode]
  <2>1. [held |-> FALSE, owner |-> None] \in Slot
    BY DEF Slot
  <2> QED
    BY <1>1, <2>1, NewNodeIs
<1>4. \A h \in Groups : /\ chosen'[h] <= Len(log'[h])
                        /\ node'[h].dirty => node'[h].applied < chosen'[h]
  BY <1>0, <1>1, NewNodeIs, GroupFacts
<1>5. DOMAIN eng' = Connections /\ \A c \in Connections : eng'[c] = None
  BY <1>1
<1>6. log' \in [Groups -> Seq(Entry)] /\ chosen' \in [Groups -> Nat]
  BY <1>0, <1>1 DEF Typed
<1>7. Typed'
  BY <1>0, <1>1, <1>2, <1>3, <1>4, <1>5, <1>6, TypedNext
<1>8. Groups' = Groups
  BY <1>1 DEF Groups
<1>9. Locals' /\ SlotsKept' /\ HomeUnlessAdrift'
  BY <1>1, <1>5, <1>8
     DEF AdapterInv, Locals, SlotsKept, Holds, HomeUnlessAdrift, Group
<1> QED
  BY <1>7, <1>9 DEF AdapterInv

LEMMA RestartInv ==
    ASSUME AdapterInv, Start
    PROVE  AdapterInv'
<1>0. /\ Typed /\ disk \in Stored /\ acked \in Stamps /\ bounds \in Counters
      /\ disk.boundary \in [Groups -> Nat]
  BY DEF AdapterInv, Typed, Stored
<1>1. /\ node' = [g \in Groups |-> [NewNode EXCEPT !.applied = disk.boundary[g]]]
      /\ UNCHANGED <<scenario, eng, slots, log, chosen, disk, acked, bounds>>
  BY DEF Start
<1>2. \A g \in Groups : node'[g] \in RaftNode /\ ~node'[g].dirty
  BY <1>0, <1>1, NewNodeIs
<1>3. node' \in [Groups -> RaftNode]
  BY <1>1, <1>2
<1> QED
  BY <1>0, <1>1, <1>2, <1>3, NodesInv

LEMMA InitInv == Init => AdapterInv
<1> SUFFICES ASSUME Init PROVE AdapterInv
  OBVIOUS
<1>0. /\ scenario \in Scenarios /\ eng = [c \in Connections |-> None]
      /\ slots = [g \in Groups |-> [held |-> FALSE, owner |-> None]]
      /\ node = [g \in Groups |-> [NewNode EXCEPT !.leader = TRUE]]
      /\ log = [g \in Groups |-> << >>] /\ chosen = [g \in Groups |-> 0]
      /\ disk = [store |-> [k \in Keys |-> 0],
                 results |-> [g \in Groups |-> [i \in ClientIds |-> 0]],
                 boundary |-> [g \in Groups |-> 0], reached |-> [g \in Groups |-> 0]]
      /\ acked = [k \in Keys |-> 0]
      /\ bounds = [clients |-> 0, faults |-> 0, statements |-> [c \in Connections |-> 0]]
  BY DEF Init
<1>1. slots \in [Groups -> Slot] /\ node \in [Groups -> RaftNode]
  <2>1. [held |-> FALSE, owner |-> None] \in Slot
    BY DEF Slot
  <2> QED
    BY <1>0, <2>1, NewNodeIs
<1>2. log \in [Groups -> Seq(Entry)] /\ chosen \in [Groups -> Nat]
  BY <1>0
<1>3. \A g \in Groups : /\ chosen[g] <= Len(log[g])
                        /\ node[g].dirty => node[g].applied < chosen[g]
  <2> TAKE g \in Groups
  <2>1. chosen[g] = 0 /\ log[g] = << >> /\ ~node[g].dirty
    BY <1>0, NewNodeIs
  <2> QED
    BY <2>1
<1>4. disk \in Stored /\ acked \in Stamps /\ bounds \in Counters
  <2>1. [k \in Keys |-> 0] \in Stamps /\ [g \in Groups |-> 0] \in [Groups -> Nat]
    BY DEF Stamps
  <2>2. [g \in Groups |-> [i \in ClientIds |-> 0]] \in [Groups -> [ClientIds -> Nat]]
    OBVIOUS
  <2>3. disk \in Stored
    BY <1>0, <2>1, <2>2, Zenon DEF Stored
  <2>4. bounds \in Counters
    BY <1>0 DEF Counters
  <2> QED
    BY <1>0, <2>1, <2>3, <2>4
<1>5. DOMAIN eng = Connections /\ \A c \in Connections : eng[c] = None
  BY <1>0
<1>6. Typed
  BY <1>0, <1>1, <1>2, <1>3, <1>4, <1>5, Zenon DEF Typed
<1>7. Locals /\ SlotsKept
  BY <1>5 DEF Locals, SlotsKept, Holds
<1>8. HomeUnlessAdrift
  BY <1>0 DEF HomeUnlessAdrift
<1> QED
  BY <1>6, <1>7, <1>8 DEF AdapterInv

LEMMA NextInv == AdapterInv /\ [Next]_vars => AdapterInv'
<1> SUFFICES ASSUME AdapterInv, [Next]_vars PROVE AdapterInv'
  OBVIOUS
<1>1. ASSUME NEW c \in Connections,
             Connect(c) \/ Statement(c) \/ Answer(c) \/ Hangup(c) \/ HangupEnds(c)
               \/ TakeCall(c) \/ BarrierPasses(c)
      PROVE  AdapterInv'
  <2>1. CASE Statement(c)
    BY <2>1, StartInv, OperationInv DEF Statement
  <2> QED
    BY <1>1, <2>1, ConnectInv, AnswerInv, HangupInv, HangupEndsInv, TakeInv, BarrierInv
<1>2. ASSUME NEW g \in Groups, GroupStep(g) PROVE AdapterInv'
  BY <1>2, GroupInv
<1>3. CASE Crash \/ Stop \/ Start
  BY <1>3, DownInv, RestartInv DEF Crash, Stop
<1>4. CASE UNCHANGED vars
  <2>1. UNCHANGED <<scenario, eng, slots, node, log, chosen, disk, acked, bounds>>
    BY <1>4 DEF vars
  <2>2. Groups' = Groups /\ Stored' = Stored
    BY <2>1 DEF Groups, Stored
  <2>3. Typed'
    BY <2>1, <2>2 DEF AdapterInv, Typed
  <2>4. Locals' /\ SlotsKept' /\ HomeUnlessAdrift'
    BY <2>1, <2>2
       DEF AdapterInv, Locals, SlotsKept, HomeUnlessAdrift, Group
  <2> QED
    BY <2>3, <2>4 DEF AdapterInv
<1> QED
  BY <1>1, <1>2, <1>3, <1>4 DEF Next

LEMMA Invariance == Spec => []AdapterInv
  BY InitInv, NextInv, PTL DEF Spec

(* What the invariant gives.  A slot of a group is a mutex: of the          *)
(* connections that hold it, or whose proposal to the group is not answered *)
(* yet, there is one (acquire_write_slot, TransactionManager::commit_write).*)
(* The destructor of an engine, which gives the slot back on the loop       *)
(* thread, is the exception that Writing makes.                             *)
THEOREM OneWriterTheorem == Spec => []OneWriter
<1>1. AdapterInv => OneWriter
  <2> SUFFICES ASSUME AdapterInv, NEW g \in Groups, NEW c \in Connections,
                      NEW d \in Connections, Writing(c, g), Writing(d, g)
               PROVE  c = d
    BY DEF OneWriter
  <2>1. ASSUME NEW x \in Connections, Writing(x, g)
        PROVE  Holds(eng[x], g)
    <3>1. eng[x] # None /\ Local(scenario, eng[x])
      BY <2>1 DEF AdapterInv, Locals, Writing
    <3>2. ASSUME eng[x].call.kind = "propose", eng[x].call.group = g
          PROVE  eng[x].slot /\ eng[x].wgroup = g
      BY <3>1, <3>2 DEF Local, Calling, TxOk, NoCall
    <3> QED
      BY <2>1, <3>1, <3>2 DEF Writing, Holds
  <2>2. Holds(eng[c], g) /\ Holds(eng[d], g)
    BY <2>1
  <2> QED
    BY <2>2 DEF AdapterInv, SlotsKept
<1> QED
  BY <1>1, Invariance, PTL

(* A transaction that has written has used the data of the one group it is  *)
(* bound to, in whichever order it read and wrote and with USE or without   *)
(* (RaftTransaction::check_group).                                          *)
THEOREM WritersStayHomeTheorem == Spec => []WritersStayHome
<1>1. AdapterInv => WritersStayHome
  BY DEF AdapterInv, Locals, Local, TxOk, WritersStayHome
<1> QED
  BY <1>1, Invariance, PTL

(* An entry of the log of a group writes keys of that group only, unless    *)
(* the transaction that made it had ended a statement with a slot it was    *)
(* not bound to, before it wrote (USE, an UPDATE that admits no key, a      *)
(* failed planning; try_write_slot, check_group, commit_transaction).  The  *)
(* statements, their failures and the loose reads may come in any order.    *)
THEOREM HomeUnlessAdriftTheorem == Spec => []HomeUnlessAdrift
<1>1. AdapterInv => HomeUnlessAdrift
  BY DEF AdapterInv
<1> QED
  BY <1>1, Invariance, PTL
=============================================================================
