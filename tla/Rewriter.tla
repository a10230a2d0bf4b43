------------------------------ MODULE Rewriter ------------------------------
(* Conditions of a WHERE clause, their three-valued evaluation and          *)
(* rewrite_condition_tree(), which the optimizer applies before it looks    *)
(* for conditions on the primary key.  Columns hold integers or NULL; a     *)
(* literal may be a text as well.  Two conditions are the same node when    *)
(* they print the same, and a text prints without quotes: conditions that   *)
(* differ may be the same node.                                             *)
EXTENDS KeyRanges, SequencesExt, FiniteSets

NoCondition == [t |-> "none"]
Compare(col, op, v) == [t |-> "compare", col |-> col, op |-> op, v |-> v]
In(col, negated, vs) ==
    [t |-> "in", col |-> col, negated |-> negated, vs |-> vs]
And(l, r) == [t |-> "and", l |-> l, r |-> r]
Or(l, r) == [t |-> "or", l |-> l, r |-> r]
Not(c) == [t |-> "not", c |-> c]
IsNode(c) == c.t \in {"and", "or"}

-----------------------------------------------------------------------------
(* Three-valued truth: "true", "false" and "unknown". *)
TruthOf(b) == IF b THEN "true" ELSE "false"
TruthNot(a) ==
    CASE a = "true" -> "false" [] a = "false" -> "true" [] OTHER -> "unknown"
TruthAnd(a, b) ==
    IF "false" \in {a, b} THEN "false"
    ELSE IF "unknown" \in {a, b} THEN "unknown" ELSE "true"
TruthOr(a, b) ==
    IF "true" \in {a, b} THEN "true"
    ELSE IF "unknown" \in {a, b} THEN "unknown" ELSE "false"

(* Texts that are no numbers: some word, 'NULL' and '1, 2'. *)
Text == -7
TextNull == -8
TextList == -9
Texts == {Text, TextNull, TextList}

(* sql_order(): NULL has no order, and neither has an integer with a text   *)
(* that is no number.                                                       *)
Unordered == 2
SqlOrder(a, b) ==
    CASE {a, b} \cap ({Null} \cup Texts) # {} -> Unordered
      [] a = b -> 0
      [] a < b -> -1
      [] OTHER -> 1

(* sql_compare_op(): LIKE asks for strings on both sides. *)
SqlCompareOp(op, a, b) ==
    LET order == SqlOrder(a, b)
    IN  CASE op = "is null" -> TruthOf(a = Null)
          [] op = "is not null" -> TruthOf(a # Null)
          [] op \in {"like", "not like"} \/ order = Unordered -> "unknown"
          [] op = "=" -> TruthOf(order = 0)
          [] op = "<>" -> TruthOf(order # 0)
          [] op = ">" -> TruthOf(order > 0)
          [] op = ">=" -> TruthOf(order >= 0)
          [] op = "<" -> TruthOf(order < 0)
          [] op = "<=" -> TruthOf(order <= 0)

(* ConditionEvaluator. *)
InList(c, a) ==
    LET merge(acc, v) == TruthOr(acc, SqlCompareOp("=", a, v))
        acc == FoldLeft(merge, "false", c.vs)
    IN  IF c.negated THEN TruthNot(acc) ELSE acc

RECURSIVE Evaluate(_, _)
Evaluate(c, row) ==
    CASE c.t = "none" -> "true"
      [] c.t = "compare" -> SqlCompareOp(c.op, row[c.col], c.v)
      [] c.t = "in" -> InList(c, row[c.col])
      [] c.t = "and" -> TruthAnd(Evaluate(c.l, row), Evaluate(c.r, row))
      [] c.t = "or" -> TruthOr(Evaluate(c.l, row), Evaluate(c.r, row))
      [] c.t = "not" -> TruthNot(Evaluate(c.c, row))
WhereKeeps(c, row) == Evaluate(c, row) = "true"

-----------------------------------------------------------------------------
(* Trees of one connective as sequences, and back: rebuild() is left-deep   *)
(* and nothing at all when no child is left.                                *)
RECURSIVE CollectSameOp(_, _)
CollectSameOp(c, type) ==
    IF c.t = type
    THEN CollectSameOp(c.l, type) \o CollectSameOp(c.r, type)
    ELSE <<c>>

Join(type, l, r) == IF type = "and" THEN And(l, r) ELSE Or(l, r)
Rebuild(type, cs) ==
    LET join(acc, c) == IF acc = NoCondition THEN c
                        ELSE IF c = NoCondition THEN acc
                        ELSE Join(type, acc, c)
    IN  FoldLeft(join, NoCondition, cs)

(* What to_string() prints, word by word.  The comma of a list and the one  *)
(* inside a text look alike.                                                *)
ValueText(v) ==
    CASE v \in {Null, TextNull} -> <<"NULL">>
      [] v = TextList -> <<"1", ",", "2">>
      [] OTHER -> <<ToString(v)>>
ListText(vs) ==
    LET add(acc, v) == (IF acc = <<>> THEN acc ELSE acc \o <<",">>) \o ValueText(v)
    IN  FoldLeft(add, <<>>, vs)

RECURSIVE ConditionText(_)
ConditionText(c) ==
    CASE c.t = "compare" ->
           <<c.col, c.op>> \o (IF c.op \in {"is null", "is not null"} THEN <<>>
                              ELSE ValueText(c.v))
      [] c.t = "in" -> <<c.col, IF c.negated THEN "not in" ELSE "in", "(">>
                         \o ListText(c.vs) \o <<")">>
      [] IsNode(c) -> <<"(">> \o ConditionText(c.l) \o <<c.t>>
                         \o ConditionText(c.r) \o <<")">>
      [] OTHER -> <<"not", "(">> \o ConditionText(c.c) \o <<")">>

SameNode(a, b) == a.t = b.t /\ ConditionText(a) = ConditionText(b)

RECURSIVE TreeContains(_, _)
TreeContains(c, target) ==
    \/ SameNode(c, target)
    \/ IsNode(c) /\ (TreeContains(c.l, target) \/ TreeContains(c.r, target))
    \/ c.t = "not" /\ TreeContains(c.c, target)

(* 1. NOT moves to the leaves. *)
FlipCompareOp(op) ==
    CASE op = "=" -> "<>" [] op = "<>" -> "="
      [] op = ">" -> "<=" [] op = "<=" -> ">"
      [] op = ">=" -> "<" [] op = "<" -> ">="
      [] op = "like" -> "not like" [] op = "not like" -> "like"
      [] op = "is null" -> "is not null" [] op = "is not null" -> "is null"

RECURSIVE PushdownNot(_, _)
PushdownNot(c, negated) ==
    CASE c.t = "not" -> PushdownNot(c.c, ~negated)
      [] IsNode(c) ->
           LET l == PushdownNot(c.l, negated)
               r == PushdownNot(c.r, negated)
           IN  IF negated = (c.t = "and") THEN Or(l, r) ELSE And(l, r)
      [] ~negated -> c
      [] c.t = "compare" -> [c EXCEPT !.op = FlipCompareOp(c.op)]
      [] OTHER -> [c EXCEPT !.negated = ~c.negated]

(* 2. Nested uses of one connective become one level. *)
RECURSIVE Flatten(_)
Flatten(c) ==
    IF ~IsNode(c) THEN c
    ELSE LET flat == CollectSameOp(c, c.t)
         IN  Rebuild(c.t, [i \in DOMAIN flat |-> Flatten(flat[i])])

(* 3. IN lists lose repeated values; a list of one value is a comparison. *)
Distinct(vs) ==
    LET add(acc, v) == IF v \in ToSet(acc) THEN acc ELSE Append(acc, v)
    IN  FoldLeft(add, <<>>, vs)
FoldIn(c) ==
    LET vs == Distinct(c.vs)
    IN  IF Len(vs) = 1 /\ vs[1] # Null
        THEN Compare(c.col, IF c.negated THEN "<>" ELSE "=", vs[1])
        ELSE In(c.col, c.negated, vs)

RECURSIVE FoldConstants(_)
FoldConstants(c) ==
    IF IsNode(c) THEN [c EXCEPT !.l = FoldConstants(c.l),
                                !.r = FoldConstants(c.r)]
    ELSE IF c.t = "in" THEN FoldIn(c) ELSE c

(* 4. Siblings that are the same node are kept once. *)
DistinctNodes(cs) ==
    LET add(acc, c) == IF \E i \in DOMAIN acc : SameNode(acc[i], c) THEN acc
                       ELSE Append(acc, c)
    IN  FoldLeft(add, <<>>, cs)
RECURSIVE Deduplicate(_)
Deduplicate(c) ==
    IF ~IsNode(c) THEN c
    ELSE LET flat == CollectSameOp(c, c.t)
         IN  Rebuild(c.t, DistinctNodes([i \in DOMAIN flat |-> Deduplicate(flat[i])]))

(* 5. Absorption: a child of the other connective goes when one of its      *)
(* siblings occurs anywhere in it.                                          *)
OtherOp(type) == IF type = "and" THEN "or" ELSE "and"
AbsorbSelf(type, cs) ==                                         \* mutant
    LET absorbed(i) == /\ cs[i].t = OtherOp(type)
                       /\ \E j \in DOMAIN cs : TreeContains(cs[i], cs[j])
        kept == SetToSortSeq({i \in DOMAIN cs : ~absorbed(i)}, <)
    IN  [n \in DOMAIN kept |-> cs[kept[n]]]
Absorb(type, cs) ==
    LET absorbed(i) == /\ cs[i].t = OtherOp(type)
                       /\ \E j \in DOMAIN cs \ {i} : TreeContains(cs[i], cs[j])
        kept == SetToSortSeq({i \in DOMAIN cs : ~absorbed(i)}, <)
    IN  [n \in DOMAIN kept |-> cs[kept[n]]]

(* Comparisons for equality with one column become one IN, in front. *)
IsEq(c) == c.t = "compare" /\ c.op = "="
Group(cs, i) == {j \in DOMAIN cs : IsEq(cs[j]) /\ cs[j].col = cs[i].col}
MergeEq(cs) ==
    LET grouped == {i \in DOMAIN cs : IsEq(cs[i]) /\ Cardinality(Group(cs, i)) > 1}
        heads == {i \in grouped : \A j \in Group(cs, i) : i <= j}
        members(i) == SetToSortSeq(Group(cs, i), <)
        list(i) == LET m == members(i)
                   IN  In(cs[i].col, FALSE, [n \in DOMAIN m |-> cs[m[n]].v])
        hs == SetToSortSeq(heads, <)
        rest == SetToSortSeq(DOMAIN cs \ grouped, <)
    IN  [n \in DOMAIN hs |-> list(hs[n])] \o [n \in DOMAIN rest |-> cs[rest[n]]]

RECURSIVE Simplify(_)
Simplify(c) ==
    IF ~IsNode(c) THEN c
    ELSE LET flat == CollectSameOp(c, c.t)
             kept == Absorb(c.t, [i \in DOMAIN flat |-> Simplify(flat[i])])
         IN  Rebuild(c.t, IF c.t = "or" THEN MergeEq(kept) ELSE kept)

RewriteConditionTree(c) ==
    IF c = NoCondition THEN c
    ELSE Simplify(Deduplicate(FoldConstants(Flatten(PushdownNot(c, FALSE)))))
=============================================================================
