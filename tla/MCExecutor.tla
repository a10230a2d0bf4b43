----------------------------- MODULE MCExecutor -----------------------------
(* Statements for the Executor runs. *)
EXTENDS Executor

(* Rows of the tables before and after this one. *)
Neighbours == -2 :> 1 @@ Infinity + 1 :> 1

(* The table <<1, 2>>, <<2, NULL>>, <<3, 1>>, <<4, 2>>: all committed, or   *)
(* partly or wholly in the transaction's buffer; and two of the rows left.  *)
Scene(engine, data, writes) ==
    [engine |-> engine, data |-> data, tx |-> writes]
Committed ==
    Key(1) :> 2 @@ Key(2) :> Null @@ Key(3) :> 1 @@ Key(4) :> 2 @@ Neighbours
Mixed == Key(1) :> 2 @@ Key(2) :> 3 @@ Key(4) :> 2 @@ Neighbours
Changed == Key(2) :> Null @@ Key(3) :> 1
MCScenes ==
    <<Scene("leveldb", Mixed, Changed), Scene("mock", Mixed, Changed),
      Scene("leveldb", Committed, NoWrites), Scene("mock", Committed, NoWrites),
      Scene("leveldb", Committed, Key(1) :> Removed @@ Key(4) :> Removed),
      Scene("mock", Committed, Key(1) :> Removed @@ Key(4) :> Removed),
      Scene("leveldb", Neighbours, Key(1) :> 2 @@ Key(2) :> Removed @@ Key(3) :> 1),
      (* Nothing is stored after the table. *)
      Scene("leveldb", Key(1) :> 2 @@ Key(3) :> 1, NoWrites)>>
Usual == 1
LastTable == 8
AnyAge == Compare("age", ">=", 1)

KeyLeaves ==
    {Compare("pk", op, 2) : op \in {"=", "<>", "<", "<=", ">", ">="}}
    \cup {Compare("pk", "=", v) : v \in {3, Null}}
    \cup {Compare("pk", "is null", Null), Compare("pk", "is not null", Null),
          Compare("pk", "like", 1),
          In("pk", FALSE, <<1, 4>>), In("pk", TRUE, <<3, Null>>),
          In("pk", TRUE, <<1, 1>>), In("pk", FALSE, <<2, Null>>)}
AgeLeaves == {Compare("age", "=", 2), Compare("age", "<>", 1),
              Compare("age", "is null", Null), Compare("age", "=", Text)}
Leaves == KeyLeaves \cup AgeLeaves

(* NULL and 'NULL' print the same, and compare the same. *)
LikeNull ==
    {Compare("age", "=", v) : v \in {Null, TextNull}}
    \cup {In("age", n, <<v, 3>>) : n \in BOOLEAN, v \in {Null, TextNull}}

Pairs(S) == {And(a, b) : a \in S, b \in S} \cup {Or(a, b) : a \in S, b \in S}
CoreLeaves == {Compare("pk", "=", 1), Compare("pk", "=", 2), Compare("pk", ">", 2),
               Compare("pk", "<>", 3), Compare("age", "=", 2)}
Shallow ==
    {NoCondition} \cup Leaves \cup Pairs(Leaves) \cup {Not(c) : c \in Pairs(Leaves)}
Deeper ==
    Pairs(LikeNull) \cup {And(a, Not(b)) : a, b \in Pairs(CoreLeaves)}
    \cup {Or(a, b) : a, b \in Pairs(CoreLeaves)}

Query(kind, where, orderBy, limit, offset, stats, set, scene) ==
    [kind |-> kind, where |-> where, orderBy |-> orderBy, limit |-> limit,
     offset |-> offset, stats |-> stats, set |-> set, scene |-> scene,
     columns |-> <<>>, mode |-> "run"]
Of(q, columns, mode) == [q EXCEPT !.columns = columns, !.mode = mode]
NoSet == [col |-> "age", v |-> Null]
By(col, asc) == [col |-> col, asc |-> asc]

Orders == {<<>>, <<By("pk", FALSE), By("age", TRUE)>>, <<By("age", TRUE)>>,
           <<By("age", FALSE)>>, <<By("age", FALSE), By("pk", FALSE)>>}
FewConditions ==
    {NoCondition, AnyAge, Compare("pk", "<>", 2), In("pk", FALSE, <<1, 2, 4>>),
     Or(Compare("pk", "=", 4), Compare("age", "is null", Null))}

MCQueries ==
    {Query("select", c, <<>>, NoLimit, 0, s, NoSet, Usual) :
       c \in Shallow \cup Deeper, s \in {-1, 4}}
    \cup {Query("select", c, o, l, f, s, NoSet, Usual) : c \in FewConditions,
            o \in Orders, l \in {NoLimit, 0, 1, 2}, f \in {0, 1, 3}, s \in {4, 30}}
    \cup {Query("select", c, o, l, 1, 4, NoSet, scene) : c \in FewConditions,
            o \in Orders, l \in {NoLimit, 2}, scene \in 1 .. 7}
    \cup {Query(kind, c, <<>>, NoLimit, 0, 4, [col |-> "age", v |-> 3], Usual) :
            kind \in {"update", "delete"}, c \in Shallow}
    \cup {Query(kind, c, <<>>, NoLimit, 0, 4, set, scene) :
            kind \in {"update", "delete"}, c \in FewConditions, scene \in 1 .. 7,
            set \in {[col |-> "age", v |-> 3], [col |-> "pk", v |-> 4]}}
    \cup {Of(Query("select", c, o, l, 1, 4, NoSet, Usual), cols, mode) :
            c \in FewConditions, o \in Orders, l \in {NoLimit, 1, 2},
            cols \in {<<>>, <<"age">>, <<"age", "pk">>, <<"name">>},
            mode \in {"run", "analyze"}}
    \cup {Of(Query(kind, c, <<>>, NoLimit, 0, 4, set, Usual), <<>>, mode) :
            kind \in {"select", "update", "delete"},
            c \in FewConditions \cup {Compare("name", "=", 1)},
            set \in {[col |-> "age", v |-> 3], [col |-> "age", v |-> MaxValue + 1],
                     [col |-> "name", v |-> 3]},
            mode \in {"run", "explain", "analyze"}}

(* A sibling repeated deep inside the other, and two siblings that become   *)
(* equal.                                                                   *)
Nested ==
    {And(a, Or(b, And(a, c))) : a, b, c \in CoreLeaves}
    \cup {And(Or(a, b), Or(Or(a, b), And(a, c))) : a, b, c \in CoreLeaves}
NestedQueries == {Query("delete", c, <<>>, NoLimit, 0, -1, NoSet, Usual) : c \in Nested}

(* Different lists that print the same. *)
Alike == {In("age", n, vs) : n \in BOOLEAN, vs \in {<<TextList, 3>>, <<1, 2, 3>>}}
AlikeQueries ==
    {Query("delete", c, <<>>, NoLimit, 0, -1, NoSet, Usual) : c \in Pairs(Alike)}

DescendingQueries ==
    {Query("select", c, <<By("pk", FALSE)>>, NoLimit, 0, 4, NoSet, LastTable) :
       c \in FewConditions}
=============================================================================
