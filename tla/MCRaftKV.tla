------------------------------ MODULE MCRaftKV ------------------------------
(* Scenarios for RaftKV: two connections, a table in the default group and  *)
(* one in a shard of its own.                                               *)
EXTENDS RaftKV

OneShard == ParseShards(<<[start |-> 20, end |-> 30, group |-> 1]>>)
Other == 15
Sharded == 25
MCTables == {Other, Sharded}
Control == {"begin", "end", "rollback"} \X {Sharded}

(* A transaction against a single statement, in one group and in two, with  *)
(* a fault.                                                                 *)
Contention(r, n) ==
    [router |-> r, compact |-> n, loose |-> {}, rows |-> {},
     runs |-> <<Control \cup ({"insert", "update", "lookup"} \X {Sharded}),
                {<<"insert", Sharded>>}>>,
     most |-> <<3, 1>>, faults |-> 1]

(* A transaction that reads and writes on both sides of a shard boundary.   *)
Crossing(l) ==
    [router |-> OneShard, compact |-> 0, loose |-> l, rows |-> MCTables,
     runs |-> <<Control \cup ({"insert", "update", "select", "ddl", "drop"} \X MCTables)
                       \cup {<<"nothing", Sharded>>, <<"use", Other>>}, {}>>,
     most |-> <<5, 0>>, faults |-> 0]

(* The same, shorter and with a fault: a lookup of the schema may fail.     *)
Faltering ==
    [Crossing({}) EXCEPT
       !.runs[1] = ({"begin", "end"} \X {Sharded}) \cup ({"update"} \X MCTables),
       !.most[1] = 4, !.faults = 1]

MCScenarios == {Contention(<< >>, 1), Contention(OneShard, 0), Crossing({}), Crossing({1}),
                Faltering}

(* The statements that take a slot and bind nothing: USE takes the slot of  *)
(* the default group, an UPDATE that admits no key that of its table.       *)
MCUse == {[Crossing({}) EXCEPT
             !.runs[1] = Control \cup {<<"use", Sharded>>, <<"update", Sharded>>}]}
MCNothing == {[Crossing({}) EXCEPT
                 !.runs[1] = Control \cup {<<"nothing", Sharded>>, <<"update", Other>>}]}
=============================================================================
