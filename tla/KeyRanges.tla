------------------------------ MODULE KeyRanges ------------------------------
(* KeyRange: an interval of primary key values, kept as two optional values *)
(* and whether each belongs to it, and every operation decided on encoded   *)
(* keys.  NULL is a value and sorts first.  KeyCodecs is abstracted to an   *)
(* order: value v has the key 2v, and the byte string that follows a key    *)
(* immediately, which is the key of no value, is the odd number after it.   *)
EXTENDS Integers, Sequences

CONSTANTS
    MaxValue,      \* the largest value of the primary key
    IntegerKey     \* the primary key column is of an integer type

ASSUME KeyRangesAssumption == MaxValue \in Nat /\ IntegerKey \in BOOLEAN

Null == 0
None == -1                                      \* no bound on this side
Values == 1 .. MaxValue
Infinity == 2 * MaxValue + 2                    \* upper_key_for_type()

Key(v) == 2 * v
ValueOf(k) == k \div 2
IsKeyOfTable(k) == k \in {Key(v) : v \in Values}
InclusiveUpperBound(k) == k + 1

Bounds(low, lowExclusive, high, highInclusive) ==
    [low |-> low, lowExclusive |-> lowExclusive,
     high |-> high, highInclusive |-> highInclusive]

(* normalize(): a lower bound of NULL that belongs to the range is none. *)
Normalized(r) ==
    IF r.low = Null /\ ~r.lowExclusive THEN [r EXCEPT !.low = None] ELSE r

All == Bounds(None, FALSE, None, FALSE)
NonNull == Bounds(Null, TRUE, None, FALSE)
NullOnly == Bounds(None, FALSE, Null, TRUE)
EmptyRange == Bounds(Null, TRUE, Null, FALSE)
Gt(v) == IF v = Null THEN EmptyRange ELSE Bounds(v, TRUE, None, FALSE)
Ge(v) == IF v = Null THEN EmptyRange ELSE Bounds(v, FALSE, None, FALSE)
Lt(v) == IF v = Null THEN EmptyRange ELSE Bounds(Null, TRUE, v, FALSE)
Le(v) == IF v = Null THEN EmptyRange ELSE Bounds(Null, TRUE, v, TRUE)
Closed(v, w) ==
    IF v = Null \/ w = Null THEN EmptyRange ELSE Bounds(v, FALSE, w, TRUE)
Point(v) == IF v = Null THEN EmptyRange ELSE Closed(v, v)
HalfOpen(v, w) == Normalized(Bounds(v, FALSE, w, FALSE))

LowKey(r) ==
    IF r.low = None THEN None
    ELSE IF r.lowExclusive THEN InclusiveUpperBound(Key(r.low)) ELSE Key(r.low)
HighKey(r) ==
    IF r.high = None THEN Infinity
    ELSE IF r.highInclusive THEN InclusiveUpperBound(Key(r.high))
    ELSE Key(r.high)

IsEmpty(r) ==
    \/ r.high = Null /\ ~r.highInclusive
    \/ LowKey(r) >= HighKey(r)
IsAll(r) == r.low = None /\ r.high = None

IsPoint(r) ==
    /\ ~IsEmpty(r)
    /\ IF r.low # None /\ r.high # None /\ ~r.lowExclusive
       THEN \/ r.highInclusive /\ r.low = r.high
            \/ /\ ~r.highInclusive /\ IntegerKey
               /\ r.low # Null /\ r.high # Null /\ r.high - r.low = 1
       ELSE r.low = None /\ r.high = Null /\ r.highInclusive
PointValue(r) == IF r.low = None \/ r.lowExclusive THEN r.high ELSE r.low

RangeContains(r, v) ==
    /\ ~IsEmpty(r)
    /\ IF v = Null
       THEN /\ r.low = None \/ (r.low = Null /\ ~r.lowExclusive)
            /\ r.high # Null \/ r.highInclusive
       ELSE LowKey(r) <= Key(v) /\ Key(v) < HighKey(r)

Overlaps(a, b) ==
    /\ ~IsEmpty(a) /\ ~IsEmpty(b)
    /\ LowKey(a) < HighKey(b) /\ LowKey(b) < HighKey(a)
IsAdjacent(a, b) ==
    /\ ~IsEmpty(a) /\ ~IsEmpty(b)
    /\ \/ a.high # None /\ HighKey(a) = LowKey(b)
       \/ b.high # None /\ HighKey(b) = LowKey(a)
Covers(a, b) ==
    IF IsEmpty(a) THEN IsEmpty(b)
    ELSE IsEmpty(b) \/ (LowKey(a) <= LowKey(b) /\ HighKey(b) <= HighKey(a))

-----------------------------------------------------------------------------
(* Set operations. *)
WithLow(r, from) == [r EXCEPT !.low = from.low,
                              !.lowExclusive = from.lowExclusive]
WithHigh(r, from) == [r EXCEPT !.high = from.high,
                               !.highInclusive = from.highInclusive]

Intersect(a, b) ==
    IF IsEmpty(a) \/ IsEmpty(b) THEN EmptyRange
    ELSE LET low == IF LowKey(a) < LowKey(b) THEN b ELSE a
             high == IF HighKey(b) < HighKey(a) THEN b ELSE a
         IN  Normalized(WithHigh(WithLow(All, low), high))

UniteTouching(a, b) ==
    LET low == IF LowKey(a) < LowKey(b) THEN a ELSE b
        high == IF HighKey(a) < HighKey(b) THEN b ELSE a
    IN  Normalized(WithHigh(WithLow(All, low), high))
Unite(a, b) ==
    IF IsEmpty(a) THEN <<b>>
    ELSE IF IsEmpty(b) THEN <<a>>
    ELSE IF ~Overlaps(a, b) /\ ~IsAdjacent(a, b) THEN <<a, b>>
    ELSE <<UniteTouching(a, b)>>

(* What lies left of b within a, and right of it: the ranges that a         *)
(* difference or a complement may leave.                                    *)
LeftOf(a, b) ==
    Normalized(Bounds(a.low, a.lowExclusive, b.low, b.lowExclusive))
RightOf(a, b) ==
    Normalized(Bounds(b.high, b.highInclusive, a.high, a.highInclusive))
Parts(a, b) ==
    {r \in {LeftOf(a, b)} : b.low # None /\ ~IsEmpty(r)}
    \cup {r \in {RightOf(a, b)} : b.high # None /\ ~IsEmpty(r)}

Subtract(a, b) ==
    IF IsEmpty(a) THEN {EmptyRange}
    ELSE IF IsEmpty(b) \/ ~Overlaps(a, b) THEN {a}
    ELSE IF Covers(b, a) THEN {EmptyRange}
    ELSE LET parts == {r \in Parts(a, b) : ~IsAll(r)}
         IN  IF parts = {} THEN {EmptyRange} ELSE parts

Complement(r) ==
    IF IsEmpty(r) THEN {All}
    ELSE IF IsAll(r) THEN {EmptyRange}
    ELSE Parts(All, r)

-----------------------------------------------------------------------------
(* to_str_key_range(): the half-open interval of keys that a scan reads. *)
ToStrKeyRange(r) ==
    IF IsEmpty(r) THEN [start |-> 0, end |-> 0]
    ELSE [start |-> IF r.low = None THEN Key(Null) ELSE LowKey(r),
          end |-> HighKey(r)]
InScan(r, v) ==
    LET flat == ToStrKeyRange(r)
    IN  flat.start <= Key(v) /\ Key(v) < flat.end
=============================================================================
