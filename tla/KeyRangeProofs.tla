--------------------------- MODULE KeyRangeProofs ---------------------------
(* What the operations of KeyRange compute, for every number of values: the *)
(* optimizer may intersect, unite and split ranges in any order without     *)
(* losing or adding a row.                                                  *)
EXTENDS KeyRanges, TLAPS

(* The ranges the constructors and operations leave: normalize() has been   *)
(* over the lower bound.                                                    *)
Bound == {None} \cup 0 .. MaxValue
Ranges ==
    {r \in [low : Bound, lowExclusive : BOOLEAN,
            high : Bound, highInclusive : BOOLEAN] :
        r.low = Null => r.lowExclusive}

(* Every decision is about keys: a value is in a range when its key is not  *)
(* below the low key and below the high key, NULL and empty ranges          *)
(* included.                                                                *)
LEMMA ContainsByKeys ==
    ASSUME NEW r \in Ranges, NEW v \in 0 .. MaxValue
    PROVE  RangeContains(r, v) <=> LowKey(r) <= 2 * v /\ 2 * v < HighKey(r)
<1> USE KeyRangesAssumption
<1> USE DEF Ranges, Bound, Null, None, LowKey, HighKey, Key, Infinity,
            InclusiveUpperBound, IsEmpty, RangeContains
<1>1. CASE r.lowExclusive /\ r.highInclusive
  BY <1>1
<1>2. CASE r.lowExclusive /\ ~r.highInclusive
  BY <1>2
<1>3. CASE ~r.lowExclusive /\ r.highInclusive
  BY <1>3
<1>4. CASE ~r.lowExclusive /\ ~r.highInclusive
  BY <1>4
<1> QED
  BY <1>1, <1>2, <1>3, <1>4

LEMMA KeysAreNumbers ==
    ASSUME NEW r \in Ranges
    PROVE  LowKey(r) \in Int /\ HighKey(r) \in Int
BY KeyRangesAssumption
DEF Ranges, Bound, Null, None, LowKey, HighKey, Key, Infinity, InclusiveUpperBound

LEMMA AllAndEmpty ==
    /\ All \in Ranges /\ EmptyRange \in Ranges
    /\ \A v \in 0 .. MaxValue :
          RangeContains(All, v) /\ ~RangeContains(EmptyRange, v)
<1>1. All \in Ranges /\ EmptyRange \in Ranges
  BY KeyRangesAssumption DEF All, EmptyRange, Bounds, Ranges, Bound, Null, None
<1>2. ASSUME NEW v \in 0 .. MaxValue
      PROVE  RangeContains(All, v) /\ ~RangeContains(EmptyRange, v)
  <2>1. LowKey(All) = -1 /\ HighKey(All) = 2 * MaxValue + 2
    BY DEF All, Bounds, LowKey, HighKey, None, Infinity
  <2>2. LowKey(EmptyRange) = 1 /\ HighKey(EmptyRange) = 0
    BY DEF EmptyRange, Bounds, LowKey, HighKey, None, Null, Key,
           InclusiveUpperBound
  <2> QED
    BY <1>1, <2>1, <2>2, ContainsByKeys, KeyRangesAssumption
<1> QED
  BY <1>1, <1>2

(* A range with the lower bound of one and the upper bound of another has   *)
(* the keys of both.                                                        *)
LEMMA JoinedBounds ==
    ASSUME NEW a \in Ranges, NEW b \in Ranges
    PROVE  LET j == Normalized(WithHigh(WithLow(All, a), b))
           IN  j \in Ranges /\ LowKey(j) = LowKey(a) /\ HighKey(j) = HighKey(b)
<1> DEFINE j == Normalized(WithHigh(WithLow(All, a), b))
<1>1. j = [low |-> a.low, lowExclusive |-> a.lowExclusive,
           high |-> b.high, highInclusive |-> b.highInclusive]
  BY DEF Normalized, WithHigh, WithLow, All, Bounds, Ranges
<1>2. j \in Ranges
  BY <1>1 DEF Ranges
<1>3. LowKey(j) = LowKey(a) /\ HighKey(j) = HighKey(b)
  BY <1>1 DEF LowKey, HighKey
<1> QED
  BY <1>2, <1>3

(* An empty range has no values. *)
LEMMA EmptyHasNone ==
    ASSUME NEW r \in Ranges, IsEmpty(r), NEW v \in 0 .. MaxValue
    PROVE  ~RangeContains(r, v)
BY DEF RangeContains

(* intersect() is the intersection. *)
THEOREM IntersectExact ==
    ASSUME NEW a \in Ranges, NEW b \in Ranges, NEW v \in 0 .. MaxValue
    PROVE  /\ Intersect(a, b) \in Ranges
           /\ RangeContains(Intersect(a, b), v)
                 <=> RangeContains(a, v) /\ RangeContains(b, v)
<1>1. CASE IsEmpty(a) \/ IsEmpty(b)
  BY <1>1, AllAndEmpty, EmptyHasNone DEF Intersect
<1>2. CASE ~(IsEmpty(a) \/ IsEmpty(b))
  <2> DEFINE low == IF LowKey(a) < LowKey(b) THEN b ELSE a
             high == IF HighKey(b) < HighKey(a) THEN b ELSE a
             j == Normalized(WithHigh(WithLow(All, low), high))
  <2>1. Intersect(a, b) = j
    BY <1>2 DEF Intersect
  <2>2. low \in Ranges /\ high \in Ranges
    OBVIOUS
  <2> HIDE DEF low, high
  <2>3. j \in Ranges /\ LowKey(j) = LowKey(low) /\ HighKey(j) = HighKey(high)
    BY <2>2, JoinedBounds
  <2> HIDE DEF j
  <2>4. RangeContains(j, v) <=> LowKey(low) <= 2 * v /\ 2 * v < HighKey(high)
    BY <2>3, ContainsByKeys
  <2>5. LowKey(low) <= 2 * v <=> LowKey(a) <= 2 * v /\ LowKey(b) <= 2 * v
    BY KeysAreNumbers, KeyRangesAssumption DEF low
  <2>6. 2 * v < HighKey(high) <=> 2 * v < HighKey(a) /\ 2 * v < HighKey(b)
    BY KeysAreNumbers, KeyRangesAssumption DEF high
  <2> QED
    BY <2>1, <2>3, <2>4, <2>5, <2>6, ContainsByKeys
<1> QED
  BY <1>1, <1>2

(* unite() is the union: two ranges become one only when nothing lies       *)
(* between them.                                                            *)
THEOREM UniteExact ==
    ASSUME NEW a \in Ranges, NEW b \in Ranges, NEW v \in 0 .. MaxValue
    PROVE  (\E i \in DOMAIN Unite(a, b) : RangeContains(Unite(a, b)[i], v))
             <=> RangeContains(a, v) \/ RangeContains(b, v)
<1>1. CASE IsEmpty(a)
  BY <1>1, EmptyHasNone DEF Unite
<1>2. CASE ~IsEmpty(a) /\ IsEmpty(b)
  BY <1>2, EmptyHasNone DEF Unite
<1>3. CASE ~IsEmpty(a) /\ ~IsEmpty(b) /\ ~Overlaps(a, b) /\ ~IsAdjacent(a, b)
  BY <1>3 DEF Unite
<1>4. CASE ~IsEmpty(a) /\ ~IsEmpty(b) /\ (Overlaps(a, b) \/ IsAdjacent(a, b))
  <2> DEFINE low == IF LowKey(a) < LowKey(b) THEN a ELSE b
             high == IF HighKey(a) < HighKey(b) THEN b ELSE a
             j == Normalized(WithHigh(WithLow(All, low), high))
  <2>1. Unite(a, b) = <<j>>
    BY <1>4 DEF Unite, UniteTouching
  <2>2. low \in Ranges /\ high \in Ranges
    OBVIOUS
  <2> HIDE DEF low, high
  <2>3. j \in Ranges /\ LowKey(j) = LowKey(low) /\ HighKey(j) = HighKey(high)
    BY <2>2, JoinedBounds
  <2> HIDE DEF j
  <2>4. LowKey(a) < HighKey(a) /\ LowKey(b) < HighKey(b)
    BY <1>4, KeysAreNumbers DEF IsEmpty
  <2>5. LowKey(a) <= HighKey(b) /\ LowKey(b) <= HighKey(a)
    BY <1>4, <2>4, KeysAreNumbers DEF Overlaps, IsAdjacent
  <2>6. RangeContains(j, v) <=> LowKey(low) <= 2 * v /\ 2 * v < HighKey(high)
    BY <2>3, ContainsByKeys
  <2>7. LowKey(low) <= 2 * v /\ 2 * v < HighKey(high)
          <=> \/ LowKey(a) <= 2 * v /\ 2 * v < HighKey(a)
              \/ LowKey(b) <= 2 * v /\ 2 * v < HighKey(b)
    BY <2>4, <2>5, KeysAreNumbers, KeyRangesAssumption DEF low, high
  <2>8. RangeContains(j, v) <=> RangeContains(a, v) \/ RangeContains(b, v)
    BY <2>6, <2>7, ContainsByKeys
  <2> QED
    BY <2>1, <2>8
<1> QED
  BY <1>1, <1>2, <1>3, <1>4

(* The interval of keys given to the storage engine holds the keys of the   *)
(* values of the range and of no others.                                    *)
THEOREM ScanExact ==
    ASSUME NEW r \in Ranges, NEW v \in Values
    PROVE  InScan(r, v) <=> RangeContains(r, v)
<1>0. v \in 0 .. MaxValue /\ v > 0
  BY KeyRangesAssumption DEF Values
<1>1. CASE IsEmpty(r)
  BY <1>0, <1>1, EmptyHasNone DEF InScan, ToStrKeyRange, Key
<1>2. CASE ~IsEmpty(r)
  <2>1. InScan(r, v) <=> /\ (IF r.low = None THEN 0 ELSE LowKey(r)) <= 2 * v
                         /\ 2 * v < HighKey(r)
    BY <1>2 DEF InScan, ToStrKeyRange, Key, Null
  <2>2. r.low = None => LowKey(r) = -1
    BY DEF LowKey, None
  <2> QED
    BY <1>0, <2>1, <2>2, ContainsByKeys, KeysAreNumbers, KeyRangesAssumption
<1> QED
  BY <1>1, <1>2

(* What the left and the right part hold: the values of a on that side of   *)
(* b.                                                                       *)
LEMMA PartsBounds ==
    ASSUME NEW a \in Ranges, NEW b \in Ranges
    PROVE  /\ b.low # None =>
                /\ LeftOf(a, b) \in Ranges
                /\ LowKey(LeftOf(a, b)) = LowKey(a)
                /\ HighKey(LeftOf(a, b)) = LowKey(b)
           /\ b.high # None =>
                /\ HighKey(RightOf(a, b)) = HighKey(a)
                /\ b.high # Null \/ b.highInclusive =>
                     /\ RightOf(a, b) \in Ranges
                     /\ LowKey(RightOf(a, b)) = HighKey(b)
<1>1. ASSUME b.low # None
      PROVE  /\ LeftOf(a, b) \in Ranges
             /\ LowKey(LeftOf(a, b)) = LowKey(a)
             /\ HighKey(LeftOf(a, b)) = LowKey(b)
  <2>1. LeftOf(a, b) = [low |-> a.low, lowExclusive |-> a.lowExclusive,
                        high |-> b.low, highInclusive |-> b.lowExclusive]
    BY DEF LeftOf, Normalized, Bounds, Ranges
  <2> QED
    BY <1>1, <2>1 DEF Ranges, LowKey, HighKey
<1>2. ASSUME b.high # None
      PROVE  /\ HighKey(RightOf(a, b)) = HighKey(a)
             /\ b.high # Null \/ b.highInclusive =>
                  /\ RightOf(a, b) \in Ranges
                  /\ LowKey(RightOf(a, b)) = HighKey(b)
  <2> DEFINE beside == [low |-> b.high, lowExclusive |-> b.highInclusive,
                        high |-> a.high, highInclusive |-> a.highInclusive]
  <2>1. RightOf(a, b) = IF b.high = Null /\ ~b.highInclusive
                        THEN [beside EXCEPT !.low = None] ELSE beside
    BY DEF RightOf, Normalized, Bounds
  <2>2. HighKey(RightOf(a, b)) = HighKey(a)
    BY <2>1 DEF HighKey
  <2>3. ASSUME b.high # Null \/ b.highInclusive
        PROVE  RightOf(a, b) \in Ranges /\ LowKey(RightOf(a, b)) = HighKey(b)
    <3>1. RightOf(a, b) = beside
      BY <2>1, <2>3
    <3> QED
      BY <1>2, <2>3, <3>1 DEF Ranges, LowKey, HighKey
  <2> QED
    BY <2>2, <2>3
<1> QED
  BY <1>1, <1>2

(* A range that is not empty has an upper bound that is above something. *)
LEMMA NonEmptyBounds ==
    ASSUME NEW r \in Ranges, ~IsEmpty(r)
    PROVE  /\ r.high # Null \/ r.highInclusive
           /\ LowKey(r) < HighKey(r)
           /\ r.low = None => LowKey(r) = -1
           /\ r.high = None => HighKey(r) = 2 * MaxValue + 2
           /\ LowKey(r) >= -1 /\ HighKey(r) <= 2 * MaxValue + 2
BY KeysAreNumbers, KeyRangesAssumption
DEF IsEmpty, LowKey, HighKey, None, Null, Infinity, Ranges, Bound, Key,
    InclusiveUpperBound

(* The parts of a beside b, which reaches into it, hold the values of a     *)
(* that are not in b.                                                       *)
LEMMA PartsExact ==
    ASSUME NEW a \in Ranges, NEW b \in Ranges, ~IsEmpty(b),
           LowKey(a) < HighKey(b), LowKey(b) < HighKey(a),
           NEW v \in 0 .. MaxValue
    PROVE  (\E r \in Parts(a, b) : RangeContains(r, v))
             <=> RangeContains(a, v) /\ ~RangeContains(b, v)
<1> DEFINE left == b.low # None /\ RangeContains(LeftOf(a, b), v)
           right == b.high # None /\ RangeContains(RightOf(a, b), v)
<1>1. (\E r \in Parts(a, b) : RangeContains(r, v)) <=> left \/ right
  BY DEF Parts, RangeContains
<1>2. left <=> /\ b.low # None
               /\ LowKey(a) <= 2 * v /\ 2 * v < LowKey(b)
  BY PartsBounds, ContainsByKeys
<1>3. right <=> /\ b.high # None
                /\ HighKey(b) <= 2 * v /\ 2 * v < HighKey(a)
  BY PartsBounds, NonEmptyBounds, ContainsByKeys
<1>4. /\ b.low = None => ~(2 * v < LowKey(b))
      /\ b.high = None => ~(HighKey(b) <= 2 * v)
      /\ LowKey(b) < HighKey(b)
  BY NonEmptyBounds, KeyRangesAssumption
<1> HIDE DEF left, right
<1>5. RangeContains(a, v) <=> LowKey(a) <= 2 * v /\ 2 * v < HighKey(a)
  BY ContainsByKeys
<1>6. RangeContains(b, v) <=> LowKey(b) <= 2 * v /\ 2 * v < HighKey(b)
  BY ContainsByKeys
<1> QED
  BY <1>1, <1>2, <1>3, <1>4, <1>5, <1>6, KeysAreNumbers, KeyRangesAssumption

(* complement() is the complement, NULL included. *)
THEOREM ComplementExact ==
    ASSUME NEW r \in Ranges, NEW v \in 0 .. MaxValue
    PROVE  (\E p \in Complement(r) : RangeContains(p, v)) <=> ~RangeContains(r, v)
<1>1. CASE IsEmpty(r)
  BY <1>1, AllAndEmpty, EmptyHasNone DEF Complement
<1>2. CASE ~IsEmpty(r) /\ IsAll(r)
  <2>1. RangeContains(r, v)
    BY <1>2, ContainsByKeys, NonEmptyBounds, KeyRangesAssumption DEF IsAll
  <2> QED
    BY <1>2, <2>1, AllAndEmpty DEF Complement
<1>3. CASE ~IsEmpty(r) /\ ~IsAll(r)
  <2>1. LowKey(All) = -1 /\ HighKey(All) = 2 * MaxValue + 2
    BY DEF All, Bounds, LowKey, HighKey, None, Infinity
  <2>2. LowKey(All) < HighKey(r) /\ LowKey(r) < HighKey(All)
    BY <1>3, <2>1, NonEmptyBounds, KeysAreNumbers, KeyRangesAssumption
  <2> QED
    BY <1>3, <2>2, AllAndEmpty, PartsExact DEF Complement
<1> QED
  BY <1>1, <1>2, <1>3

(* covers() decides containment, and subtract() is the difference.  The     *)
(* part that is_all() would drop cannot arise.                              *)
THEOREM SubtractExact ==
    ASSUME NEW a \in Ranges, NEW b \in Ranges, NEW v \in 0 .. MaxValue
    PROVE  (\E r \in Subtract(a, b) : RangeContains(r, v))
             <=> RangeContains(a, v) /\ ~RangeContains(b, v)
<1>1. CASE IsEmpty(a)
  BY <1>1, AllAndEmpty, EmptyHasNone DEF Subtract
<1>2. CASE ~IsEmpty(a) /\ (IsEmpty(b) \/ ~Overlaps(a, b))
  <2>1. ~(RangeContains(a, v) /\ RangeContains(b, v))
    BY <1>2, ContainsByKeys, KeysAreNumbers, EmptyHasNone, KeyRangesAssumption
    DEF Overlaps
  <2> QED
    BY <1>2, <2>1 DEF Subtract
<1>3. CASE ~IsEmpty(a) /\ ~IsEmpty(b) /\ Overlaps(a, b)
  <2>1. CASE Covers(b, a)
    <3>1. RangeContains(a, v) => RangeContains(b, v)
      BY <1>3, <2>1, ContainsByKeys, KeysAreNumbers, KeyRangesAssumption
      DEF Covers
    <3> QED
      BY <1>3, <2>1, <3>1, AllAndEmpty DEF Subtract
  <2>2. CASE ~Covers(b, a)
    <3>1. \A r \in Parts(a, b) : ~IsAll(r)
      <4>1. b.low # None => LeftOf(a, b).high = b.low
        BY DEF LeftOf, Normalized, Bounds
      <4>2. b.high # None => RightOf(a, b).low = b.high
        BY <1>3, NonEmptyBounds DEF RightOf, Normalized, Bounds
      <4> QED
        BY <4>1, <4>2 DEF Parts, IsAll
    <3>2. {r \in Parts(a, b) : ~IsAll(r)} = Parts(a, b)
      BY <3>1
    <3>3. Subtract(a, b) = IF Parts(a, b) = {} THEN {EmptyRange} ELSE Parts(a, b)
      BY <1>3, <2>2, <3>2 DEF Subtract
    <3>4. LowKey(a) < HighKey(b) /\ LowKey(b) < HighKey(a)
      BY <1>3 DEF Overlaps
    <3> QED
      BY <1>3, <3>3, <3>4, AllAndEmpty, PartsExact
  <2> QED
    BY <2>1, <2>2
<1> QED
  BY <1>1, <1>2, <1>3

(* The ranges of the comparisons hold what a comparison with v is true of:  *)
(* never NULL.                                                              *)
THEOREM ComparisonsExact ==
    ASSUME NEW v \in Values, NEW u \in Values, NEW w \in 0 .. MaxValue
    PROVE  /\ RangeContains(Gt(v), w) <=> w > v
           /\ RangeContains(Ge(v), w) <=> w >= v
           /\ RangeContains(Lt(v), w) <=> w # Null /\ w < v
           /\ RangeContains(Le(v), w) <=> w # Null /\ w <= v
           /\ RangeContains(Point(v), w) <=> w = v
           /\ RangeContains(Closed(v, u), w) <=> v <= w /\ w <= u
           /\ RangeContains(HalfOpen(v, u), w) <=> v <= w /\ w < u
           /\ RangeContains(NonNull, w) <=> w # Null
           /\ RangeContains(NullOnly, w) <=> w = Null
<1>0. v \in 1 .. MaxValue /\ u \in 1 .. MaxValue /\ Null = 0 /\ None = -1
  BY DEF Values, Null, None
<1> USE DEF Bounds, Ranges, Bound, LowKey, HighKey, Key, InclusiveUpperBound, Infinity
<1>1. /\ Gt(v) \in Ranges /\ LowKey(Gt(v)) = 2 * v + 1
      /\ HighKey(Gt(v)) = 2 * MaxValue + 2
  BY <1>0, KeyRangesAssumption DEF Gt
<1>2. /\ Ge(v) \in Ranges /\ LowKey(Ge(v)) = 2 * v
      /\ HighKey(Ge(v)) = 2 * MaxValue + 2
  BY <1>0, KeyRangesAssumption DEF Ge
<1>3. Lt(v) \in Ranges /\ LowKey(Lt(v)) = 1 /\ HighKey(Lt(v)) = 2 * v
  BY <1>0, KeyRangesAssumption DEF Lt
<1>4. Le(v) \in Ranges /\ LowKey(Le(v)) = 1 /\ HighKey(Le(v)) = 2 * v + 1
  BY <1>0, KeyRangesAssumption DEF Le
<1>5. /\ Closed(v, u) \in Ranges /\ LowKey(Closed(v, u)) = 2 * v
      /\ HighKey(Closed(v, u)) = 2 * u + 1
  BY <1>0, KeyRangesAssumption DEF Closed
<1>6. /\ Point(v) \in Ranges /\ LowKey(Point(v)) = 2 * v
      /\ HighKey(Point(v)) = 2 * v + 1
  BY <1>0, KeyRangesAssumption DEF Point, Closed
<1>7. /\ HalfOpen(v, u) \in Ranges /\ LowKey(HalfOpen(v, u)) = 2 * v
      /\ HighKey(HalfOpen(v, u)) = 2 * u
  BY <1>0, KeyRangesAssumption DEF HalfOpen, Normalized
<1>8. NonNull \in Ranges /\ LowKey(NonNull) = 1 /\ HighKey(NonNull) = 2 * MaxValue + 2
  BY <1>0, KeyRangesAssumption DEF NonNull
<1>9. NullOnly \in Ranges /\ LowKey(NullOnly) = -1 /\ HighKey(NullOnly) = 1
  BY <1>0, KeyRangesAssumption DEF NullOnly
<1> HIDE DEF Bounds, Ranges, Bound, LowKey, HighKey, Key, InclusiveUpperBound, Infinity
<1>10. /\ RangeContains(Gt(v), w) <=> w > v
       /\ RangeContains(Ge(v), w) <=> w >= v
  BY <1>0, <1>1, <1>2, ContainsByKeys, KeyRangesAssumption
<1>11. /\ RangeContains(Lt(v), w) <=> w # Null /\ w < v
       /\ RangeContains(Le(v), w) <=> w # Null /\ w <= v
  BY <1>0, <1>3, <1>4, ContainsByKeys, KeyRangesAssumption
<1>12. /\ RangeContains(Closed(v, u), w) <=> v <= w /\ w <= u
       /\ RangeContains(Point(v), w) <=> w = v
       /\ RangeContains(HalfOpen(v, u), w) <=> v <= w /\ w < u
  BY <1>0, <1>5, <1>6, <1>7, ContainsByKeys, KeyRangesAssumption
<1>13. /\ RangeContains(NonNull, w) <=> w # Null
       /\ RangeContains(NullOnly, w) <=> w = Null
  BY <1>0, <1>8, <1>9, ContainsByKeys, KeyRangesAssumption
<1> QED
  BY <1>10, <1>11, <1>12, <1>13
=============================================================================
