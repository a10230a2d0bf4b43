----------------------------- MODULE GroupRouter -----------------------------
(* The routing of keys to raft groups (GroupRouter).  A key is a byte       *)
(* string compared as such; here it is a number in the same order, and the  *)
(* keys that start with "@system/" are an interval of numbers.  A router is *)
(* the sequence ranges_ of its shards, ordered by their start.              *)
EXTENDS Integers, Sequences, FiniteSets

CONSTANTS
    SystemLow,    \* "@system/", the least system key
    SystemHigh    \* the least key above every system key

ASSUME SystemAssumption ==
    SystemLow \in Int /\ SystemHigh \in Int /\ SystemLow < SystemHigh

Shard == [start : Int, end : Int, group : Int]
Router == Seq(Shard)

CrossesGroups == -1    \* range_group() returns nullopt

IsSystemKey(key) == SystemLow <= key /\ key < SystemHigh

(* add_range() keeps ranges_ ordered: behind the last one that does not     *)
(* start above the new one.                                                 *)
AddRange(ranges, new) ==
    LET lower == Cardinality({i \in DOMAIN ranges :
                                 ranges[i].start <= new.start})
    IN  SubSeq(ranges, 1, lower) \o <<new>>
          \o SubSeq(ranges, lower + 1, Len(ranges))

(* validate(), without the separators of the textual form: one group for    *)
(* each shard, numbered from 1.                                             *)
Valid(ranges) ==
    /\ \A i, j \in DOMAIN ranges : ranges[i].group = ranges[j].group => i = j
    /\ {ranges[i].group : i \in DOMAIN ranges} = 1 .. Len(ranges)
    /\ \A i \in DOMAIN ranges :
          /\ ranges[i].start < ranges[i].end
          /\ ~IsSystemKey(ranges[i].start)
          /\ ~(ranges[i].start < SystemLow /\ SystemLow < ranges[i].end)
          /\ i > 1 => ranges[i - 1].end <= ranges[i].start

(* How add_range() leaves the ranges. *)
Ordered(ranges) ==
    \A i, j \in DOMAIN ranges : i < j => ranges[i].start <= ranges[j].start

(* parse_shards(): the entries of the configuration, one after the other,   *)
(* into a router that has to be valid; an entry that is not a start, an end *)
(* and a group refuses the whole text.                                      *)
Malformed == [start |-> 0, end |-> 0, group |-> -1]
Refused == <<Malformed>>

ParseShards(entries) ==
    LET router[i \in 0 .. Len(entries)] ==
            IF i = 0 THEN << >> ELSE AddRange(router[i - 1], entries[i])
        ranges == router[Len(entries)]
    IN  IF /\ \A i \in DOMAIN entries : entries[i] # Malformed
           /\ Valid(ranges)
        THEN ranges ELSE Refused

(* group_for() walks the ranges until one starts above the key. *)
GroupFor(ranges, key) ==
    LET hits == {i \in DOMAIN ranges :
                    /\ \A j \in 1 .. i : ranges[j].start <= key
                    /\ key < ranges[i].end}
    IN  IF IsSystemKey(key) \/ hits = {} THEN 0
        ELSE ranges[CHOOSE i \in hits : \A j \in hits : i <= j].group

Boundaries(ranges) ==
    {SystemLow} \cup {ranges[i].start : i \in DOMAIN ranges}
                \cup {ranges[i].end : i \in DOMAIN ranges}

(* range_group() of [start, end): only boundaries inside it can change the  *)
(* group, so it asks for the group of each of those.  A range without an    *)
(* end has an end above every key.                                          *)
RangeGroup(ranges, start, end) ==
    LET inside == {b \in Boundaries(ranges) : start < b /\ b < end}
        first == GroupFor(ranges, start)
    IN  IF end <= start THEN first
        ELSE IF \E b \in inside : GroupFor(ranges, b) # first
        THEN CrossesGroups ELSE first

(* group_count(), from which the bootstrap makes one node per group. *)
GroupCount(ranges) ==
    CHOOSE n \in 1 .. Len(ranges) + 1 :
        /\ \A i \in DOMAIN ranges : ranges[i].group < n
        /\ n = 1 \/ \E i \in DOMAIN ranges : ranges[i].group = n - 1
=============================================================================
