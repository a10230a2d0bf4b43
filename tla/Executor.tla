------------------------------ MODULE Executor ------------------------------
(* The executors of one planned statement.  ScanExecutor walks the ranges   *)
(* of the plan, FilterExecutor evaluates what is left of the WHERE clause,  *)
(* SortExecutor collects rows (the best N when there is a LIMIT),           *)
(* LimitExecutor skips and counts, UpdateExecutor writes each row it pulls  *)
(* and DeleteExecutor collects keys first and then removes them.  One step  *)
(* is one row pulled, or one range opened.                                  *)
EXTENDS Planner, Iterators

CONSTANT Scenes      \* what a statement meets: the engine, the committed data
                     \* and what its transaction has written already

VARIABLES
    query,      \* the statement
    plan,       \* what the optimizer made of it
    at,         \* "plan", "open", "text", "scan", "emit", "done", "error", "refused"
    range,      \* range_index_: the range that is open
    cursor,     \* its iterator, which stands on the next row
    rows,       \* rows collected by the sort or the delete
    queue,      \* rows the sort has still to give
    skipped,    \* rows skipped for OFFSET
    out,        \* rows given to the client, or counted for EXPLAIN ANALYZE
    affected,   \* rows updated or deleted
    report,     \* ExecReport: the rows each node of the plan gave
    tx          \* the transaction's buffer
results == <<rows, queue, skipped, out, affected, report>>
vars == <<query, plan, at, range, cursor, results, tx>>

Data == Scenes[query.scene].data
Written == Scenes[query.scene].tx
NoPlan == Optimized(<<>>, NoCondition)

Init ==
    /\ query \in Queries /\ tx = Written
    /\ plan = NoPlan /\ at = "plan" /\ range = 0 /\ cursor = Exhausted
    /\ rows = {} /\ queue = <<>> /\ skipped = 0 /\ out = <<>> /\ affected = 0
    /\ report = [node \in {"project", "limit", "sort", "filter", "scan"} |-> 0]

Refuse ==
    /\ at = "plan" /\ (~Validate(query) \/ ExplainRefused(query))
    /\ at' = "refused"
    /\ UNCHANGED <<query, plan, range, cursor, results, tx>>

Prepare ==
    /\ at = "plan" /\ Validate(query) /\ ~ExplainRefused(query)
    /\ at' = "open" /\ plan' = BuildPlan(query)
    /\ UNCHANGED <<query, range, cursor, results, tx>>

(* EXPLAIN: the statement is not run.  text_result() has a line for each    *)
(* node of the plan, and MaterializedExecutor gives them one by one.        *)
Explain ==
    /\ at = "open" /\ query.mode = "explain" /\ at' = "text"
    /\ queue' = PlanNodes(query, plan)
    /\ UNCHANGED <<query, plan, range, cursor, rows, skipped, out, affected, report, tx>>
TextRow ==
    /\ at = "text"
    /\ IF queue = <<>> THEN at' = "done" /\ UNCHANGED <<queue, out>>
       ELSE at' = at /\ queue' = Tail(queue) /\ out' = Append(out, <<Head(queue)>>)
    /\ UNCHANGED <<query, plan, range, cursor, rows, skipped, affected, report, tx>>

(* EXPLAIN ANALYZE counts the rows that leave a node. *)
OnRow(counts, nodes) ==
    IF query.mode # "analyze" THEN counts
    ELSE [node \in DOMAIN counts |-> counts[node] + (IF node \in nodes THEN 1 ELSE 0)]

-----------------------------------------------------------------------------
(* ScanExecutor.  Table::scan() opens an iterator over the keys of a range; *)
(* what is stored under a key is the row.                                   *)
Slot(i) == IF Ascending(query) THEN i ELSE Len(plan.ranges) + 1 - i
ScanOf(r) ==
    LET flat == ToStrKeyRange(r)
    IN  Scan(Scenes[query.scene].engine, Data, flat.start, flat.end, Ascending(query))
Opened == ScanOf(plan.ranges[Slot(range)])
RowAt(k, age) == [col \in Columns |-> IF col = "pk" THEN ValueOf(k) ELSE age]

(* open_range(): the first range from index on that is not empty. *)
OpenRange(index) ==
    LET open == {i \in index .. Len(plan.ranges) : ~IsEmpty(plan.ranges[Slot(i)])}
    IN  IF open = {}
        THEN range' = Len(plan.ranges) + 1 /\ cursor' = Exhausted
        ELSE \E i \in open :
               /\ \A j \in open : i <= j
               /\ range' = i
               /\ cursor' = NewIterator(ScanOf(plan.ranges[Slot(i)]), tx)

(* A plan of one point that is not excluded is a lookup: Table::find(). *)
PointLookup ==
    /\ Len(plan.ranges) = 1 /\ IsPoint(plan.ranges[1])
    /\ PointValue(plan.ranges[1]) \notin plan.exclude \cup {Null}
Find(k) ==
    LET view == View(Data, tx)
    IN  IF k \in DOMAIN view THEN At(End, End, k, view[k]) ELSE Exhausted

Open ==
    /\ at = "open" /\ query.mode # "explain" /\ at' = "scan"
    /\ IF PointLookup
       THEN range' = 1 /\ cursor' = Find(Key(PointValue(plan.ranges[1])))
       ELSE OpenRange(1)
    /\ UNCHANGED <<query, plan, results, tx>>

(* What the scan gives to its parent: excluded keys are passed over, and    *)
(* the filter keeps the rows for which the condition is true.               *)
IsExcluded(row) == row["pk"] \in plan.exclude
Keeps(row) == ~IsExcluded(row) /\ WhereKeeps(plan.filter, row)
Passed(row) ==
    CASE IsExcluded(row) -> report
      [] ~Keeps(row) -> OnRow(report, {"scan"})
      [] OTHER -> OnRow(report, {"scan", "filter"})

(* ProjectExecutor: the columns of the select list, or all of them. *)
ResultColumns(q) == IF q.columns = <<>> THEN <<"pk", "age">> ELSE q.columns
Projected(row) ==
    [i \in DOMAIN ResultColumns(query) |-> row[ResultColumns(query)[i]]]

-----------------------------------------------------------------------------
(* LimitExecutor. *)
LimitReached ==
    /\ query.limit # NoLimit
    /\ skipped >= query.offset /\ Len(out) >= query.limit
Deliver(row, counts) ==
    IF skipped < query.offset
    THEN skipped' = skipped + 1 /\ out' = out /\ report' = counts
    ELSE /\ skipped' = skipped /\ out' = Append(out, Projected(row))
         /\ report' = OnRow(counts, {"limit", "project"})

(* SortExecutor: with a LIMIT the worst of the kept rows makes room. *)
Better(a, b) == Precedes(SortKeys(query), a, b)
Worst == CHOOSE a \in rows : \A b \in rows \ {a} : Better(b, a)
Collect(row) ==
    IF query.limit = NoLimit
    THEN IF Cardinality(rows) >= SortLimit
         THEN at' = "error" /\ rows' = rows
         ELSE at' = at /\ rows' = rows \cup {row}
    ELSE /\ at' = at
         /\ IF Cardinality(rows) < TopNCount(query) THEN rows' = rows \cup {row}
            ELSE IF rows # {} /\ Better(row, Worst)
            THEN rows' = (rows \ {Worst}) \cup {row}
            ELSE rows' = rows

(* UpdateExecutor: a row may not be given another primary key.  The put     *)
(* goes to the buffer that the open iterator is merging.                    *)
Assign(row) ==
    LET new == [row EXCEPT ![query.set.col] = query.set.v]
    IN  IF new["pk"] # row["pk"]
        THEN at' = "error" /\ UNCHANGED <<tx, affected>>
        ELSE /\ at' = at /\ affected' = affected + 1
             /\ tx' = BufferPut(tx, Key(row["pk"]), new["age"])

Streams == query.kind = "select" /\ ~NeedsSort(query)

(* TableCursor::next() advances its iterator before it returns the row. *)
Pull ==
    /\ at = "scan" /\ Valid(cursor)
    /\ Streams => ~LimitReached
    /\ cursor' = NextItem(Opened, tx, cursor)
    /\ LET row == RowAt(cursor.key, cursor.value)
       IN  CASE ~Keeps(row) ->
                  /\ report' = Passed(row)
                  /\ UNCHANGED <<at, rows, skipped, out, affected, tx>>
             [] Keeps(row) /\ Streams ->
                  /\ Deliver(row, Passed(row))
                  /\ UNCHANGED <<at, rows, affected, tx>>
             [] Keeps(row) /\ NeedsSort(query) ->
                  /\ Collect(row) /\ report' = Passed(row)
                  /\ UNCHANGED <<skipped, out, affected, tx>>
             [] Keeps(row) /\ query.kind = "update" ->
                  Assign(row) /\ UNCHANGED <<rows, skipped, out, report>>
             [] Keeps(row) /\ query.kind = "delete" ->
                  /\ rows' = rows \cup {row}
                  /\ UNCHANGED <<at, skipped, out, affected, report, tx>>
    /\ UNCHANGED <<query, plan, range, queue>>

NextRange ==
    /\ at = "scan" /\ ~Valid(cursor) /\ range < Len(plan.ranges)
    /\ Streams => ~LimitReached
    /\ OpenRange(range + 1)
    /\ UNCHANGED <<query, plan, at, results, tx>>

(* The scan has ended: sorted rows go to the limit, collected keys are      *)
(* removed from the table, everything else is complete.                     *)
EndOfScan ==
    /\ at = "scan" /\ ~Valid(cursor) /\ range >= Len(plan.ranges)
    /\ at' = IF NeedsSort(query) THEN "emit" ELSE "done"
    /\ queue' = IF NeedsSort(query) THEN SetToSortSeq(rows, Better) ELSE <<>>
    /\ tx' = IF query.kind # "delete" THEN tx
             ELSE FoldSet(LAMBDA row, t : BufferRemove(t, Key(row["pk"])), tx, rows)
    /\ affected' = IF query.kind = "delete" THEN Cardinality(rows) ELSE affected
    /\ UNCHANGED <<query, plan, range, cursor, rows, skipped, out, report>>

Emit ==
    /\ at = "emit" /\ queue # <<>> /\ ~LimitReached
    /\ Deliver(Head(queue), OnRow(report, {"sort"})) /\ queue' = Tail(queue)
    /\ UNCHANGED <<query, plan, at, range, cursor, rows, affected, tx>>

EndOfRows ==
    /\ \/ at = "scan" /\ Streams /\ LimitReached
       \/ at = "emit" /\ (queue = <<>> \/ LimitReached)
    /\ at' = "done"
    /\ UNCHANGED <<query, plan, range, cursor, results, tx>>

Next ==
    \/ Refuse \/ Prepare \/ Explain \/ TextRow \/ Open \/ Pull \/ NextRange \/ EndOfScan
    \/ Emit \/ EndOfRows
Spec == Init /\ [][Next]_vars

-----------------------------------------------------------------------------
(* rewriter.cpp: "变成更容易被优化器吃下去的等价形式", a form that is     *)
(* equivalent.  For every row a table could hold, the rewritten condition   *)
(* has the truth value of the one the client wrote, NULL included and also  *)
(* where two conditions of it print the same because one has the text       *)
(* 'NULL'.  The rewriter does not keep this for a text with a comma in an   *)
(* IN list, nor for a condition that is repeated deep inside its sibling:   *)
(* AlikeQueries and NestedQueries of MCExecutor.                            *)
RewriteKeepsTruth ==
    at = "plan" /\ Validate(query) =>
      LET rewritten == RewriteConditionTree(query.where)
      IN  \A k \in Values, a \in Values \cup {Null} :
            LET row == [col \in Columns |-> IF col = "pk" THEN k ELSE a]
            IN  Evaluate(rewritten, row) = Evaluate(query.where, row)

(* The table as the transaction reads it key by key. *)
TableOf(t) ==
    LET view == View(Data, t)
    IN  {RowAt(k, view[k]) : k \in {l \in DOMAIN view : IsKeyOfTable(l)}}

(* The rows the statement is about, by the clause the client wrote. *)
Matching == {row \in TableOf(Written) : WhereKeeps(query.where, row)}
InOrder(a, b) == Precedes(query.orderBy, a, b)
Wanted == LET rest == IF Cardinality(Matching) > query.offset
                      THEN Cardinality(Matching) - query.offset ELSE 0
          IN  IF query.limit = NoLimit \/ rest < query.limit THEN rest
              ELSE query.limit

(* A SELECT gives OFFSET .. OFFSET + LIMIT of the matching rows in the      *)
(* order of its ORDER BY, each once, with the transaction's own writes:     *)
(* whatever ranges, skipped keys, filter, scan direction, top-N heap or     *)
(* missing sort the plan came to and wherever the rows are merged from.     *)
(* The i-th row has no more than OFFSET + i - 1 rows before it and at least *)
(* OFFSET + i up to and including its equals.  EXPLAIN ANALYZE reports as   *)
(* many rows at the root of the plan.                                       *)
SelectExact ==
    at = "done" /\ query.kind = "select" /\ query.mode # "explain" =>
      /\ Len(out) = Wanted
      /\ \E chosen \in Injection(DOMAIN out, Matching) :
           \A i \in DOMAIN out :
             /\ \A j \in DOMAIN out[i] : out[i][j] = chosen[i][ResultColumns(query)[j]]
             /\ Cardinality({r \in Matching : InOrder(r, chosen[i])}) < query.offset + i
             /\ Cardinality({r \in Matching : ~InOrder(chosen[i], r)}) >= query.offset + i
             /\ i > 1 => ~InOrder(chosen[i], chosen[i - 1])
      /\ query.mode = "analyze" =>
           report[Head(PlanNodes(query, plan))] = Wanted

(* An UPDATE changes exactly the matching rows and a DELETE removes exactly *)
(* those, and both count them, although the update writes into the scan it  *)
(* is still reading.  A statement that is refused or only explained changes *)
(* nothing, and one that the validator let pass does not stop half way.     *)
WritesExact ==
    /\ at = "error" => query.kind = "select"
    /\ at = "done" /\ query.mode = "run" /\ query.kind # "select" =>
         /\ affected = Cardinality(Matching)
         /\ TableOf(tx) = (TableOf(Written) \ Matching) \cup
              {[row EXCEPT ![query.set.col] = query.set.v] :
                 row \in IF query.kind = "update" THEN Matching ELSE {}}
    /\ query.mode # "run" \/ at = "refused" => tx = Written

(* Every move of an open iterator ends where the transaction's view says:   *)
(* the next and the previous visible row of the range, its ends, and the    *)
(* row sought.  (A descending LevelDB iterator does not keep this for       *)
(* seek_to_last() and prev(), which nothing in the server calls.)           *)
CursorMoves ==
    at = "scan" /\ ~PointLookup /\ range <= Len(plan.ranges) =>
      LET s == Opened
          visible == {k \in Visible(Data, tx) : InRange(s, k)}
          first(S) == IF s.forward THEN Smallest(S) ELSE Largest(S)
          last(S) == IF s.forward THEN Largest(S) ELSE Smallest(S)
          moves == s.forward \/ s.engine = "mock"
          ahead == {k \in visible : EarlierInScan(s, cursor.key, k)}
          behind == {k \in visible : EarlierInScan(s, k, cursor.key)}
      IN  /\ NewIterator(s, tx).key = first(visible)
          /\ moves => SeekToLastItem(s, tx).key = last(visible)
          /\ Valid(cursor) =>
               /\ NextItem(s, tx, cursor).key = first(ahead)
               /\ SeekItem(s, tx, cursor.key).key = cursor.key
               /\ moves => PrevItem(s, tx, cursor).key = last(behind)

(* leveldb_engine.cpp: "反向扫描：应该从范围的末尾开始", a reverse scan     *)
(* starts at the end of the range, as the mock's does.                      *)
ReverseStartsAtEnd ==
    at = "open" /\ ~Ascending(query) =>
      \A i \in DOMAIN plan.ranges :
        LET s == ScanOf(plan.ranges[i])
        IN  SeekToFirst(s) = MockFirst(s)
=============================================================================
