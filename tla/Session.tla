------------------------------- MODULE Session -------------------------------
(* SQL sessions over the engine: Session::execute_parsed(), the catalog     *)
(* (KVCatalog), the tables (Table) and the executors, on one database with  *)
(* one table.  Every session has one connection.  A write statement         *)
(* validates, takes the write slot, opens a transaction of its own unless   *)
(* the client opened one, runs and commits; other sessions run between      *)
(* these steps.  While a statement runs it holds the slot, so its reads and *)
(* buffered writes are one action.  Statements that are refused without any *)
(* change (a syntax error, a failed validation, an aborted transaction) are *)
(* no steps.                                                                *)
EXTENDS KVEngine, Sequences

CONSTANTS
    Rows,                               \* keys of the table's rows
    Databases, Tables, Schema, Stats,   \* keys of the catalog
    Statements,                         \* write statements the clients send
    Plans,                              \* SELECTs, as sequences of key ranges
    Explicit                            \* clients send BEGIN

(* Names of the catalog: a list holds the one name or none. *)
Listed == 1
Unlisted == 0

Kinds == {"insert", "update", "delete", "create table", "drop table",
          "create database", "drop database", "use"}
Statement == [kind : Kinds, rows : SUBSET Rows, value : Value]

(* Committed data that are whole: the table is listed exactly when it has a *)
(* schema and statistics, and only an existing database lists tables.       *)
Whole(d) ==
    /\ (d[Tables] = Listed) <=> (d[Schema] # Absent)
    /\ (d[Schema] # Absent) <=> (d[Stats] # Absent)
    /\ (d[Tables] # Absent) <=> (d[Databases] = Listed)

(* Its statistics are right: the number of the rows; no table, no rows. *)
Counted(d) ==
    LET n == Cardinality({r \in Rows : d[r] # Absent})
    IN  IF d[Stats] = Absent THEN n = 0 ELSE d[Stats] = n

ASSUME SessionAssumption ==
    /\ IsFiniteSet(Rows) /\ Rows \cap {Databases, Tables, Schema, Stats} = {}
    /\ Databases \notin {Tables, Schema, Stats}
    /\ Tables \notin {Schema, Stats} /\ Schema # Stats
    /\ Key = Rows \cup {Databases, Tables, Schema, Stats}
    /\ 0 .. Cardinality(Rows) \subseteq Value /\ Value \subseteq Nat
    /\ {Listed, Unlisted} \subseteq Value
    /\ Whole(Initial) /\ Counted(Initial)
    /\ Statements \subseteq Statement
    /\ Plans \subseteq Seq(SUBSET Rows)
    /\ Explicit \in BOOLEAN
    /\ Careful

VARIABLES
    sess,     \* the sessions
    cursor    \* the SELECT a session is reading, or Nil

sessionVars == <<sess, cursor>>
allVars == <<open, db, owner, snapshots, iterators, conn, call, sess, cursor>>

NewSession ==
    [tx |-> FALSE,        \* in_transaction_
     failed |-> FALSE,    \* tx_failed_
     use |-> FALSE,       \* current_db_ names the database
     at |-> "idle",       \* where the running statement is
     stmt |-> Nil]

SessionInit ==
    /\ Init
    /\ sess = [c \in Conn |-> NewSession]
    /\ cursor = [c \in Conn |-> Nil]

Ready(c) == sess[c].at = "idle" /\ Idle(c) /\ cursor[c] = Nil
Goto(c, place) == sess' = [sess EXCEPT ![c].at = place]

-----------------------------------------------------------------------------
(* The catalog. *)
ReadMeta(c, k) == Lookup(c, k)
WriteMeta(k, v) == Put(k, v)
DatabaseExists(c) == ReadMeta(c, Databases) = Listed
TableExists(c) == ReadMeta(c, Tables) = Listed
HasSchema(c) == ReadMeta(c, Schema) # Absent
OpenTable(c) == HasSchema(c)
PrimaryKeyExists(c, r) == OpenTable(c) /\ Lookup(c, r) # Absent
RemovePrefix(ks) == RemoveRange(ks)

(* StatementValidator: load_table() and the checks of each statement. *)
LoadTable(c) == sess[c].use /\ DatabaseExists(c) /\ HasSchema(c)

CheckPrimaryKeyConflicts(c, w) == \A r \in w.rows : ~PrimaryKeyExists(c, r)
ValidateInsert(c, w) == LoadTable(c) /\ CheckPrimaryKeyConflicts(c, w)
ValidateCreateTable(c) == sess[c].use /\ DatabaseExists(c) /\ ~TableExists(c)
ValidateDropTable(c) == LoadTable(c)
ValidateCreateDatabase(c) == ~DatabaseExists(c)
ValidateDropDatabase(c) == DatabaseExists(c)
ValidateUse(c) == DatabaseExists(c)
Valid(c, w) ==
    CASE w.kind = "insert" -> ValidateInsert(c, w)
      [] w.kind \in {"update", "delete"} -> LoadTable(c)
      [] w.kind = "create table" -> ValidateCreateTable(c)
      [] w.kind = "drop table" -> ValidateDropTable(c)
      [] w.kind = "create database" -> ValidateCreateDatabase(c)
      [] w.kind = "drop database" -> ValidateDropDatabase(c)
      [] w.kind = "use" -> ValidateUse(c)

(* ScanExecutor reads a plan of one point with a get, any other with scans. *)
Shown(c, r, point) == IF point THEN Lookup(c, r) ELSE Scanned(c, r)
Selected(c, rs) == {r \in rs : Shown(c, r, Cardinality(rs) = 1) # Absent}

PutAll(rs, v) == [k \in Key |-> IF k \in rs THEN Put(k, v)[k] ELSE Empty[k]]
RemoveAll(rs) == [k \in Key |-> IF k \in rs THEN Remove(k)[k] ELSE Empty[k]]

(* KVCatalog::touch_table(): the new row count, not below zero; an unknown  *)
(* count stays unknown.                                                     *)
TouchTable(c, up, down) ==
    LET n == ReadMeta(c, Stats)
    IN  IF ~TableExists(c) \/ n = Absent THEN Empty
        ELSE WriteMeta(Stats, IF n + up < down THEN 0 ELSE n + up - down)

(* What a statement appends to the buffer when it succeeds. *)
InsertRows(c, w) ==
    Then(PutAll(w.rows, w.value), TouchTable(c, Cardinality(w.rows), 0))
UpdateRows(c, w) ==
    LET rs == Selected(c, w.rows)
    IN  IF rs = {} THEN Empty
        ELSE Then(PutAll(rs, w.value), TouchTable(c, 0, 0))
DeleteRows(c, w) ==
    LET rs == Selected(c, w.rows)
    IN  IF rs = {} THEN Empty
        ELSE Then(RemoveAll(rs), TouchTable(c, 0, Cardinality(rs)))
CreateTable ==
    Then(Then(WriteMeta(Schema, Listed), WriteMeta(Stats, 0)),
         WriteMeta(Tables, Listed))
DropTable ==
    Then(Then(RemovePrefix(Rows), RemoveAll({Schema, Stats})),
         WriteMeta(Tables, Unlisted))
CreateDatabase ==
    Then(WriteMeta(Databases, Listed), WriteMeta(Tables, Unlisted))
DropDatabase ==
    Then(Then(RemovePrefix(Rows \cup {Schema, Stats}), Remove(Tables)),
         WriteMeta(Databases, Unlisted))

(* The checks a statement makes when it runs. *)
Unseen(c, w) == {r \in w.rows : ~Exists(c, r)}

RunsUnchecked(c, w) ==                                   \* mutant
    w.kind = "insert" => OpenTable(c) /\ Unseen(c, w) = w.rows

Runs(c, w) ==
    CASE w.kind = "insert" -> OpenTable(c) /\ Unseen(c, w) = w.rows
      [] w.kind \in {"update", "delete"} -> OpenTable(c)
      [] w.kind = "create table" -> DatabaseExists(c) /\ ~TableExists(c)
      [] w.kind = "drop table" -> DatabaseExists(c) /\ TableExists(c)
      [] w.kind = "create database" -> ~DatabaseExists(c)
      [] OTHER -> DatabaseExists(c)

(* The optimizer finds no table: execute_parsed() returns without finish(). *)
PlanFails(c, w) == w.kind \in {"insert", "update", "delete"} /\ ~HasSchema(c)

Effect(c, w) ==
    CASE w.kind = "insert" -> InsertRows(c, w)
      [] w.kind = "update" -> UpdateRows(c, w)
      [] w.kind = "delete" -> DeleteRows(c, w)
      [] w.kind = "create table" -> CreateTable
      [] w.kind = "drop table" -> DropTable
      [] w.kind = "create database" -> CreateDatabase
      [] w.kind = "drop database" -> DropDatabase
      [] OTHER -> Empty

(* What a failing statement leaves in the buffer: an INSERT stops at the    *)
(* first row that exists, the rows before it are buffered.                  *)
Leftovers(c, w) ==
    IF w.kind # "insert" \/ ~HasSchema(c) THEN {Empty}
    ELSE {PutAll(rs, w.value) : rs \in SUBSET Unseen(c, w)}

(* current_db_ changes with the statement, not with the transaction. *)
UseAfter(s, w) == IF w.kind = "use" THEN TRUE
                  ELSE IF w.kind = "drop database" THEN FALSE ELSE s.use

-----------------------------------------------------------------------------
(* A write statement. *)
Prepare(c, w) ==
    /\ Ready(c) /\ ~sess[c].failed
    /\ Valid(c, w)
    /\ sess' = [sess EXCEPT ![c].at = "slot", ![c].stmt = w]
    /\ UNCHANGED <<cursor, vars>>

TakeSlot(c) ==
    /\ sess[c].at = "slot"
    /\ IF conn[c].slot THEN UNCHANGED vars ELSE AcquireWriteSlot(c)
    /\ Goto(c, IF sess[c].tx THEN "run" ELSE "begin")
    /\ UNCHANGED cursor

BusyWaits(c) ==                                                 \* mutant
    /\ sess[c].at = "slot" /\ ~conn[c].slot /\ ~Free(c)
    /\ UNCHANGED allVars

(* Another connection holds the slot: an error, and nothing else. *)
Busy(c) ==
    /\ sess[c].at = "slot" /\ ~conn[c].slot /\ ~Free(c)
    /\ sess' = [sess EXCEPT ![c].at = "idle", ![c].stmt = Nil]
    /\ UNCHANGED <<cursor, vars>>

(* The AutoCommit guard. *)
AutoBegin(c) ==
    /\ sess[c].at = "begin"
    /\ BeginTransaction(c)
    /\ Goto(c, "run")
    /\ UNCHANGED cursor

(* The statement succeeds, or fails with part of its rows buffered; then    *)
(* the guard rolls back, or the transaction of the client is aborted,       *)
(* unless the statement failed before it was planned.                       *)
RunOk(c) ==
    /\ sess[c].at = "run"
    /\ LET w == sess[c].stmt
       IN  /\ Runs(c, w)
           /\ Write(c, Effect(c, w))
           /\ sess' = [sess EXCEPT ![c].use = UseAfter(sess[c], w),
                  ![c].at = IF sess[c].tx THEN "idle" ELSE "commit",
                  ![c].stmt = IF sess[c].tx THEN Nil ELSE @]
    /\ UNCHANGED cursor

RunFailsUnmarked(c) ==                                          \* mutant
    /\ sess[c].at = "run"
    /\ LET w == sess[c].stmt
       IN  /\ ~Runs(c, w)
           /\ \E b \in Leftovers(c, w) : Write(c, b)
           /\ sess' = [sess EXCEPT
                  ![c].at = IF sess[c].tx THEN "idle" ELSE "rollback",
                  ![c].stmt = Nil]
    /\ UNCHANGED cursor

RunFails(c) ==
    /\ sess[c].at = "run"
    /\ LET w == sess[c].stmt
       IN  /\ ~Runs(c, w)
           /\ \E b \in Leftovers(c, w) : Write(c, b)
           /\ sess' = [sess EXCEPT
                  ![c].failed = sess[c].tx /\ ~PlanFails(c, w),
                  ![c].at = IF sess[c].tx THEN "idle" ELSE "rollback",
                  ![c].stmt = Nil]
    /\ UNCHANGED cursor

(* A SELECT outside a transaction may also see what commits meanwhile. *)
RowsOf(d) == [r \in Rows |-> d[r]]
Witness ==
    cursor' = [c \in Conn |->
        IF cursor[c] = Nil \/ conn[c].tx # Nil THEN cursor[c]
        ELSE [cursor[c] EXCEPT !.versions = @ \cup {RowsOf(db')}]]

AutoCommit(c) ==
    /\ sess[c].at = "commit"
    /\ CommitTransaction(c)
    /\ sess' = [sess EXCEPT ![c].at = "idle", ![c].stmt = Nil]
    /\ Witness

(* The commit fails: the guard's destructor rolls back. *)
AutoCommitFails(c) ==
    /\ sess[c].at = "commit"
    /\ sess' = [sess EXCEPT ![c].at = "rollback", ![c].stmt = Nil]
    /\ UNCHANGED <<cursor, vars>>

AutoRollback(c) ==
    /\ sess[c].at = "rollback"
    /\ RollbackTransaction(c)
    /\ Goto(c, "idle")
    /\ UNCHANGED cursor

-----------------------------------------------------------------------------
(* BEGIN, COMMIT, ROLLBACK and the end of a session. *)
BeginStatement(c) ==
    /\ Explicit /\ Ready(c) /\ ~sess[c].tx
    /\ BeginTransaction(c)
    /\ sess' = [sess EXCEPT ![c].tx = TRUE, ![c].failed = FALSE]
    /\ UNCHANGED cursor

(* A COMMIT that fails keeps the transaction and is no step. *)
CommitStatement(c) ==
    /\ Ready(c) /\ sess[c].tx /\ ~sess[c].failed
    /\ CommitTransaction(c)
    /\ sess' = [sess EXCEPT ![c].tx = FALSE]
    /\ Witness

(* ROLLBACK, and COMMIT of an aborted transaction. *)
RollbackStatement(c) ==
    /\ Ready(c) /\ sess[c].tx
    /\ RollbackTransaction(c)
    /\ sess' = [sess EXCEPT ![c].tx = FALSE, ![c].failed = FALSE]
    /\ UNCHANGED cursor

(* The second part of the engine's commit or rollback. *)
EngineFinishes(c) == Finish(c) /\ UNCHANGED sessionVars

(* The client goes away, or the server's idle timer ends the session. *)
EndSession(c) ==
    /\ sess[c].at = "idle"
    /\ Disconnect(c)
    /\ sess' = [sess EXCEPT ![c] = NewSession]
    /\ cursor' = [cursor EXCEPT ![c] = Nil]

-----------------------------------------------------------------------------
(* SELECT: a cursor over the ranges of the plan, one iterator after the     *)
(* other.  An iterator shows the data of the moment it was opened.          *)
OpenCursor(c, p) ==
    /\ Ready(c) /\ ~sess[c].failed /\ LoadTable(c)
    /\ cursor' = [cursor EXCEPT ![c] =
           [plan |-> p, left |-> p, got |-> [r \in {} |-> Absent],
            versions |-> {[r \in Rows |-> Lookup(c, r)]}]]
    /\ UNCHANGED <<sess, vars>>

ReadRangeUnpinned(c) ==                                         \* mutant
    /\ cursor[c] # Nil /\ cursor[c].left # << >>
    /\ LET rs == Head(cursor[c].left)
           next == CHOOSE r \in rs : TRUE
       IN  cursor' = [cursor EXCEPT
               ![c].left = IF rs = {next} THEN Tail(@)
                           ELSE <<rs \ {next}>> \o Tail(@),
               ![c].got = [r \in DOMAIN @ \cup {next} |->
                              IF r = next THEN Scanned(c, r) ELSE @[r]]]
    /\ UNCHANGED <<sess, vars>>

ReadRange(c) ==
    /\ cursor[c] # Nil /\ cursor[c].left # << >>
    /\ LET rs == Head(cursor[c].left)
           point == /\ cursor[c].plan = <<rs>>
                    /\ Cardinality(rs) = 1
       IN  cursor' = [cursor EXCEPT ![c].left = Tail(@),
               ![c].got = [r \in DOMAIN @ \cup rs |->
                              IF r \in rs THEN Shown(c, r, point) ELSE @[r]]]
    /\ UNCHANGED <<sess, vars>>

CloseCursor(c) ==
    /\ cursor[c] # Nil
    /\ cursor' = [cursor EXCEPT ![c] = Nil]
    /\ UNCHANGED <<sess, vars>>

(* The steps of a running statement, which wait for nobody. *)
StatementStep(c) ==
    \/ TakeSlot(c)
    \/ Busy(c)
    \/ AutoBegin(c)
    \/ RunOk(c)
    \/ RunFails(c)
    \/ AutoCommit(c)
    \/ AutoCommitFails(c)
    \/ AutoRollback(c)
    \/ EngineFinishes(c)

SessionNext ==
    \E c \in Conn :
       \/ \E w \in Statements : Prepare(c, w)
       \/ StatementStep(c)
       \/ BeginStatement(c)
       \/ CommitStatement(c)
       \/ RollbackStatement(c)
       \/ EndSession(c)
       \/ \E p \in Plans : OpenCursor(c, p)
       \/ ReadRange(c)
       \/ CloseCursor(c)

SessionSpec == SessionInit /\ [][SessionNext]_allVars

(* The thread that executes a statement keeps running. *)
FairSessionSpec ==
    SessionSpec /\ \A c \in Conn : WF_allVars(StatementStep(c))

-----------------------------------------------------------------------------
(* Between statements a session outside a transaction holds nothing in the  *)
(* engine, and one inside still has its transaction there: no path through  *)
(* the AutoCommit guard, an abort or a failed commit leaves a slot, a       *)
(* snapshot or a buffer behind, or loses one.                               *)
SessionsHoldNothing ==
    \A c \in Conn : sess[c].at = "idle" /\ Idle(c) =>
        IF sess[c].tx THEN conn[c].tx # Nil
        ELSE conn[c] = Fresh /\ owner # c

(* The committed catalog is whole: the table is listed exactly when it has  *)
(* a schema and statistics, and only a listed table of an existing database *)
(* has them, although sessions create, drop and fill it concurrently from   *)
(* validations that may be stale.                                           *)
CatalogConsistent == Whole(db)

(* The committed row count is the number of rows (touch_table() adds and    *)
(* subtracts the rows each statement reports), also after failed statements *)
(* and aborted transactions; without a table there are no rows.             *)
RowCountExact == Counted(db)

(* INSERT is not an upsert (Table::insert): when it succeeds, none of its   *)
(* rows was committed or written by the transaction before.                 *)
InsertNeverOverwrites ==
    [][\A c \in Conn :
          /\ sess[c].at = "run" /\ sess[c].stmt.kind = "insert"
          /\ sess'[c].at \in {"idle", "commit"} /\ ~sess'[c].failed
          => \A r \in sess[c].stmt.rows :
                LookupIn(conn[c].tx, db, r) = Absent]_allVars

(* What a SELECT over one range or point returns is the table at one moment *)
(* between its start and its end; in a transaction, as the transaction      *)
(* reads it.  (With several ranges the iterators are opened one by one.)    *)
SelectSeesOneVersion ==
    \A c \in Conn :
      cursor[c] # Nil /\ Len(cursor[c].plan) = 1 /\ cursor[c].left = << >> =>
        \E v \in cursor[c].versions :
            \A r \in DOMAIN cursor[c].got : cursor[c].got[r] = v[r]

(* A write statement always ends: a taken slot is reported, never waited    *)
(* for, so a transaction left open by one client cannot hang the others.    *)
StatementsEnd ==
    \A c \in Conn : sess[c].at # "idle" ~> sess[c].at = "idle" /\ Idle(c)
=============================================================================
