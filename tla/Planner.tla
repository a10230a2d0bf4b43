------------------------------- MODULE Planner -------------------------------
(* One DML statement from its WHERE clause to its rows: Optimizer (primary  *)
(* key conditions become ranges to scan, the others remain as a filter),    *)
(* Planner (scan chain, sort, limit) and the executors, which pull one row  *)
(* at a time.  The table has a primary key "pk", which is never NULL, and a *)
(* column "age"; a row is identified by its key.                            *)
EXTENDS Rewriter

CONSTANTS
    Queries,      \* the statements, with the table they meet
    SortLimit     \* row_limit of SortExecutor

Columns == {"pk", "age"}

(* No limit, no offset: LIMIT and OFFSET are optional. *)
NoLimit == -1
Statistics == {-1} \cup Nat                     \* -1: rows unknown

ASSUME PlannerAssumption ==
    /\ SortLimit \in Nat
    /\ \A q \in Queries :
         /\ q.kind \in {"select", "update", "delete"}
         /\ q.mode \in {"run", "explain", "analyze"}
         /\ \A i \in DOMAIN q.orderBy : q.orderBy[i].asc \in BOOLEAN
         /\ q.limit \in Nat \cup {NoLimit} /\ q.offset \in Nat
         /\ q.stats \in Statistics

-----------------------------------------------------------------------------
(* StatementValidator: the columns a statement names exist, and a value     *)
(* fits its column.  Only "age" takes NULL.                                 *)
RequireColumns(cols) == cols \subseteq Columns

RECURSIVE ColumnsOf(_)
ColumnsOf(c) ==
    CASE c.t \in {"compare", "in"} -> {c.col}
      [] IsNode(c) -> ColumnsOf(c.l) \cup ColumnsOf(c.r)
      [] c.t = "not" -> ColumnsOf(c.c)
      [] OTHER -> {}

ValidateValue(col, v) == IF v = Null THEN col = "age" ELSE v \in Values

ValidateSelect(q) ==
    /\ RequireColumns(ToSet(q.columns) \cup ColumnsOf(q.where))
    /\ RequireColumns({q.orderBy[i].col : i \in DOMAIN q.orderBy})
ValidateUpdate(q) ==
    /\ RequireColumns({q.set.col} \cup ColumnsOf(q.where))
    /\ ValidateValue(q.set.col, q.set.v)
    /\ q.set.col # "pk"
ValidateDelete(q) == RequireColumns(ColumnsOf(q.where))
Validate(q) ==
    CASE q.kind = "select" -> ValidateSelect(q)
      [] q.kind = "update" -> ValidateUpdate(q)
      [] q.kind = "delete" -> ValidateDelete(q)

(* execute_explain(): only a SELECT is run to be analyzed. *)
ExplainRefused(q) == q.mode = "analyze" /\ q.kind # "select"

-----------------------------------------------------------------------------
(* Sequences of ranges. *)
RangeLess(a, b) ==
    \/ LowKey(a) < LowKey(b)
    \/ LowKey(a) = LowKey(b) /\ HighKey(a) < HighKey(b)

NormalizeRanges(rs) ==
    LET nonEmpty(r) == ~IsEmpty(r)
        add(acc, r) ==
            IF acc # <<>> /\ (Overlaps(Last(acc), r) \/ IsAdjacent(Last(acc), r))
            THEN Front(acc) \o Unite(Last(acc), r)
            ELSE Append(acc, r)
    IN  FoldLeft(add, <<>>, SortSeq(SelectSeq(rs, nonEmpty), RangeLess))

IntersectRanges(as, bs) ==
    LET row(a) == [i \in DOMAIN bs |-> Intersect(a, bs[i])]
    IN  NormalizeRanges(FlattenSeq([i \in DOMAIN as |-> row(as[i])]))
UniteRanges(as, bs) == NormalizeRanges(as \o bs)

(* A run of points whose values follow each other becomes one range. *)
RECURSIVE RunEnd(_, _)
RunEnd(rs, i) ==
    IF /\ i < Len(rs) /\ IsPoint(rs[i + 1])
       /\ PointValue(rs[i + 1]) = PointValue(rs[i]) + 1
    THEN RunEnd(rs, i + 1) ELSE i
RECURSIVE CoalesceFrom(_, _)
CoalesceFrom(rs, i) ==
    IF i > Len(rs) THEN <<>>
    ELSE IF ~IsPoint(rs[i]) \/ PointValue(rs[i]) = Null
    THEN <<rs[i]>> \o CoalesceFrom(rs, i + 1)
    ELSE LET j == RunEnd(rs, i)
         IN  <<IF j > i THEN Closed(PointValue(rs[i]), PointValue(rs[j]))
               ELSE rs[i]>> \o CoalesceFrom(rs, j + 1)
CoalesceAdjacentPoints(rs) == IF IntegerKey THEN CoalesceFrom(rs, 1) ELSE rs

IsSparsePointSet(rs) == Len(rs) >= 2 /\ \A i \in DOMAIN rs : IsPoint(rs[i])

(* range_of_condition(): the ranges of a condition on the primary key,      *)
(* unless it has none.                                                      *)
Untranslatable == <<[t |-> "untranslatable"]>>
PointsOf(vs) ==
    LET value(v) == v # Null
        points == SelectSeq(vs, value)
    IN  IF points = <<>> THEN <<EmptyRange>>
        ELSE [i \in DOMAIN points |-> Point(points[i])]
RangeOfCompare(c) ==
    CASE c.op = "is null" -> <<NullOnly>>
      [] c.op = "is not null" -> <<NonNull>>
      [] c.op \in {"<>", "like", "not like"} -> Untranslatable
      [] c.v = Null -> <<EmptyRange>>
      [] c.op = "=" -> <<Point(c.v)>>
      [] c.op = ">" -> <<Gt(c.v)>>
      [] c.op = ">=" -> <<Ge(c.v)>>
      [] c.op = "<" -> <<Lt(c.v)>>
      [] c.op = "<=" -> <<Le(c.v)>>
RECURSIVE RangeOfCondition(_)
RangeOfCondition(c) ==
    CASE c.t = "compare" -> RangeOfCompare(c)
      [] c.t = "in" -> IF c.negated THEN Untranslatable ELSE PointsOf(c.vs)
      [] IsNode(c) ->
           LET l == RangeOfCondition(c.l)
               r == RangeOfCondition(c.r)
           IN  IF Untranslatable \in {l, r} THEN Untranslatable
               ELSE IF c.t = "and" THEN IntersectRanges(l, r)
               ELSE UniteRanges(l, r)
      [] OTHER -> Untranslatable

-----------------------------------------------------------------------------
(* Optimizer. *)
JoinWith(type, l, r) ==
    IF l = NoCondition THEN r
    ELSE IF r = NoCondition THEN l
    ELSE Join(type, l, r)

UsableCompare(c) == c.op \notin {"<>", "like", "not like"}
IsKeyLeaf(c) ==
    \/ c.t = "compare" /\ c.col = "pk" /\ UsableCompare(c)
    \/ c.t = "in" /\ c.col = "pk" /\ ~c.negated

(* split_primary_key(): an OR is a key condition only when both sides are. *)
RECURSIVE SplitPrimaryKey(_)
SplitPrimaryKey(c) ==
    CASE c.t = "and" ->
           LET l == SplitPrimaryKey(c.l)
               r == SplitPrimaryKey(c.r)
           IN  [key |-> JoinWith("and", l.key, r.key),
                rest |-> JoinWith("and", l.rest, r.rest)]
      [] c.t = "or" ->
           LET l == SplitPrimaryKey(c.l)
               r == SplitPrimaryKey(c.r)
           IN  IF l.rest = NoCondition /\ r.rest = NoCondition
               THEN [key |-> Or(l.key, r.key), rest |-> NoCondition]
               ELSE [key |-> NoCondition,
                     rest |-> Or(JoinWith("and", l.key, l.rest),
                                 JoinWith("and", r.key, r.rest))]
      [] IsKeyLeaf(c) -> [key |-> c, rest |-> NoCondition]
      [] OTHER -> [key |-> NoCondition, rest |-> c]

(* collect_exclusions(): the values that <> and NOT IN exclude on the AND   *)
(* trunk of the filter.                                                     *)
ExclusionsOf(c) ==
    IF c.t = "compare" /\ c.col = "pk" /\ c.op = "<>" THEN {c.v} \ {Null}
    ELSE IF c.t = "in" /\ c.col = "pk" /\ c.negated
    THEN ToSet(c.vs) \ {Null} ELSE {}
CollectExclusions(c) ==
    LET trunk == CollectSameOp(c, "and")
    IN  UNION {ExclusionsOf(trunk[i]) : i \in DOMAIN trunk}

(* The one decision by cost: a seek costs ten rows, a filtered row two. *)
Seek == 10
PointLookups(k) == k * (Seek + 1)
FilteredFullScan(rows) == rows + rows
ScanIsCheaper(ranges, stats) ==
    /\ stats # -1
    /\ PointLookups(Len(ranges)) > FilteredFullScan(stats)
    /\ IsSparsePointSet(ranges)

Optimized(ranges, filter) ==
    [ranges |-> ranges, filter |-> filter, exclude |-> CollectExclusions(filter)]

ConvertDropsKeyCondition(key, rest, stats) ==                   \* mutant
    IF key = NoCondition THEN Optimized(<<All>>, rest)
    ELSE LET converted == RangeOfCondition(key)
             ranges == CoalesceAdjacentPoints(NormalizeRanges(converted))
         IN  IF converted = Untranslatable
             THEN Optimized(<<All>>, JoinWith("and", key, rest))
             ELSE IF ScanIsCheaper(ranges, stats) THEN Optimized(<<All>>, rest)
             ELSE IF ranges = <<>> THEN Optimized(<<EmptyRange>>, rest)
             ELSE Optimized(ranges, rest)
ConvertToKeyRange(key, rest, stats) ==
    IF key = NoCondition THEN Optimized(<<All>>, rest)
    ELSE LET converted == RangeOfCondition(key)
             ranges == CoalesceAdjacentPoints(NormalizeRanges(converted))
             merged == RewriteConditionTree(JoinWith("and", key, rest))
         IN  IF converted = Untranslatable THEN Optimized(<<All>>, merged)
             ELSE IF ScanIsCheaper(ranges, stats) THEN Optimized(<<All>>, merged)
             ELSE IF ranges = <<>> THEN Optimized(<<EmptyRange>>, rest)
             ELSE Optimized(ranges, rest)

(* The optimizer: rewrite the condition, split it, rewrite both parts, and  *)
(* turn the part on the primary key into ranges.                            *)
ExtractPrimaryKeyCondition(q) == SplitPrimaryKey(RewriteConditionTree(q.where))
RewritePrimaryKeyCondition(split) ==
    [part \in {"key", "rest"} |-> RewriteConditionTree(split[part])]
Optimize(q) ==
    LET split == RewritePrimaryKeyCondition(ExtractPrimaryKeyCondition(q))
    IN  ConvertToKeyRange(split["key"], split["rest"], q.stats)

(* Session::build_plan(): the rewriter has been over the statement before   *)
(* the optimizer is.                                                        *)
Rewrite(q) == [q EXCEPT !.where = RewriteConditionTree(@)]
BuildPlan(q) == Optimize(Rewrite(q))

-----------------------------------------------------------------------------
(* Planner: ORDER BY the primary key first is served by the scan's order.   *)
ByScan(q) == q.orderBy # <<>> /\ q.orderBy[1].col = "pk"
NeedsSort(q) == q.kind = "select" /\ q.orderBy # <<>> /\ ~ByScan(q)
Ascending(q) == q.kind = "select" /\ ByScan(q) => q.orderBy[1].asc
TopNCountWithoutOffset(q) == q.limit                            \* mutant
TopNCount(q) == q.limit + q.offset

(* The nodes of the plan, from the root to the scan. *)
ScanChain(p) == (IF p.filter = NoCondition THEN <<>> ELSE <<"filter">>) \o <<"scan">>
PlanSelect(q, p) ==
    (IF q.columns = <<>> THEN <<>> ELSE <<"project">>)
    \o (IF q.limit = NoLimit /\ q.offset = 0 THEN <<>> ELSE <<"limit">>)
    \o (IF NeedsSort(q) THEN <<"sort">> ELSE <<>>) \o ScanChain(p)
PlanUpdate(p) == <<"update">> \o ScanChain(p)
PlanDelete(p) == <<"delete">> \o ScanChain(p)
PlanNodes(q, p) ==
    CASE q.kind = "select" -> PlanSelect(q, p)
      [] q.kind = "update" -> PlanUpdate(p)
      [] q.kind = "delete" -> PlanDelete(p)

(* RowComparator: NULL is smallest; the primary key decides a tie. *)
SortKeys(q) ==
    IF Last(q.orderBy).col = "pk" THEN q.orderBy
    ELSE Append(q.orderBy, [col |-> "pk", asc |-> TRUE])
Precedes(keys, a, b) ==
    \E i \in DOMAIN keys :
      /\ \A j \in 1 .. i - 1 : a[keys[j].col] = b[keys[j].col]
      /\ IF keys[i].asc THEN a[keys[i].col] < b[keys[i].col]
         ELSE a[keys[i].col] > b[keys[i].col]
=============================================================================
