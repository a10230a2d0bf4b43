------------------------------- MODULE RaftKV -------------------------------
(* SQL sessions over replicated storage, on one node: the adapter           *)
(* (RaftKVStore, RaftKVEngine), the runtime that hands its calls to the     *)
(* raft thread of a group (RaftRuntime), and the state machine with its     *)
(* table of request results (KVStateMachine, RequestResultStore).           *)
(*                                                                          *)
(* The raft groups themselves are abstracted to what Raft.tla establishes:  *)
(* a log whose first chosen[g] entries are committed for good, and a        *)
(* leadership that comes and goes.  While the node does not lead, other     *)
(* nodes choose entries.  A batch is the set of keys it writes, and the     *)
(* value it writes is the identity of its entry; removals write as well.    *)
(*                                                                          *)
(* A statement is the sequence of engine calls Session::execute_parsed      *)
(* makes.  Statements that write or belong to a transaction run one at a    *)
(* time on the write thread; a call that waits keeps the thread.            *)
EXTENDS GroupRouter

CONSTANTS
    Connections,
    None,
    Scenarios,      \* what is deployed and run; one is chosen at the start
    System,         \* the catalog's keys, as one
    Tables,         \* the data key of each table: a row of it
    TableSize,      \* its keys are at most that far from it
    MaxRequests,    \* bound: proposals of a connection
    MaxLog,         \* bound: entries of all logs
    MaxClients      \* bound: connections made in all

(* A scenario: the shards, how many entries make the log compact (0: never; *)
(* several groups never may), the connections that asked for loose          *)
(* cross-group reads, the rows that are there, the statements of each       *)
(* connection and the bound on their number, and the bound on the faults:   *)
(* restarts, lost leaderships, timeouts, full queues, connections that go   *)
(* away.                                                                    *)

Keys == Tables \cup {System}
StatementKinds ==
    {"insert", "update", "nothing", "ddl", "drop", "use", "select", "lookup",
     "begin", "end", "rollback"}

(* RaftBootstrap refuses to compact the logs of several groups. *)
Deployable(s) == GroupCount(s.router) > 1 => s.compact = 0

ASSUME RaftKVAssumption ==
    /\ Keys \subseteq Int /\ IsSystemKey(System) /\ (\A t \in Tables : ~IsSystemKey(t))
    /\ \A s \in Scenarios :
          /\ s.router \in Router /\ Valid(s.router) /\ Ordered(s.router)
          /\ Deployable(s)
          /\ \A c \in Connections : s.runs[c] \subseteq StatementKinds \X Tables
    /\ None \notin Connections \cup Int \cup [Keys -> Nat]
    /\ \A ks \in SUBSET Keys : None # ks
    /\ {TableSize, MaxRequests, MaxLog, MaxClients} \subseteq Nat

VARIABLES
    scenario,
    eng,       \* the engines of the connections, with their sessions
    writer,    \* the connection whose statement has the write thread
    slots,     \* write_slots_
    up,        \* whether the process runs
    node,      \* the raft node of each group, and its service thread
    log,       \* the logs
    chosen,    \* how much of each log is committed in its group
    disk,      \* what the process has stored: the keys and the results
    acked,     \* history: the newest acknowledged entry of each key
    bounds     \* how much of the bounds is used

vars == <<scenario, up, eng, writer, slots, node, log, chosen, disk, acked, bounds>>

Groups == 0 .. GroupCount(scenario.router) - 1
Group(key) == GroupFor(scenario.router, key)
TableGroup(key) ==
    RangeGroup(scenario.router, key - TableSize, key + TableSize)
SingleGroup == GroupCount(scenario.router) = 1
Entries == Cardinality({q \in Groups \X (1 .. MaxLog) : q[2] \in DOMAIN log[q[1]]})

(* The identities of this node's connections, then those of the others'.  *)
ClientIds == 1 .. MaxClients + MaxLog

NoCall == [kind |-> "none", group |-> 0, stage |-> "none", index |-> 0]
NewEngine(id) ==
    [client |-> id, next |-> 1,
     tx |-> None,              \* the keys the transaction buffers
     fresh |-> {},             \* history: those of them that INSERT put
     slot |-> FALSE, wgroup |-> None,
     bound |-> None, crossed |-> FALSE, wrote |-> FALSE, proven |-> {},
     snap |-> None,            \* the local engine's snapshot
     explicit |-> FALSE, failed |-> FALSE,     \* Session: BEGIN was run, it failed
     todo |-> << >>,           \* the rest of the statement
     call |-> NoCall,          \* the call to the raft thread it waits for
     touched |-> {},           \* history: groups of the data it read or wrote
     adrift |-> FALSE,         \* history: see Adrift
     floor |-> None,           \* history: acked when the barrier or BEGIN began
     stale |-> {}]             \* history: where a read was older than floor
NewNode ==
    [leader |-> FALSE, applied |-> 0,
     dirty |-> FALSE]     \* the next batch is written, its result not yet saved

Init ==
    /\ scenario \in Scenarios
    /\ eng = [c \in Connections |-> None]
    /\ writer = None /\ up = TRUE
    /\ slots = [g \in Groups |-> [held |-> FALSE, owner |-> None]]
    /\ node = [g \in Groups |-> [NewNode EXCEPT !.leader = TRUE]]
    /\ log = [g \in Groups |-> << >>]
    /\ chosen = [g \in Groups |-> 0]
    /\ disk = [store |-> [k \in Keys |-> 0],
               results |-> [g \in Groups |-> [i \in ClientIds |-> 0]],
               boundary |-> [g \in Groups |-> 0],
               reached |-> [g \in Groups |-> 0]]
    /\ acked = [k \in Keys |-> 0]
    /\ bounds = [clients |-> 0, faults |-> 0,
                 statements |-> [c \in Connections |-> 0]]

-----------------------------------------------------------------------------
(* Statements.  "auto" and "commit" are the transaction of a statement      *)
(* outside of BEGIN; "plan" is the lookup of the schema in build_plan() and *)
(* open_table(), which binds nothing; "touch" is the update of the table's  *)
(* statistics, whose failure is ignored.  "nothing" is an UPDATE or DELETE  *)
(* whose condition admits no key: it is planned and reads no row.  Lookups  *)
(* of schemas before the slot, by SELECT and by DDL are left out, and the   *)
(* validator's lookup of the key INSERT brings is a "lookup" before it.     *)
Op(o, key) == [op |-> o, key |-> key]

(* Variant: UPDATE and DELETE are routed like DDL. *)
UpdatesBySystem(kind, table) ==
    IF kind \in {"insert", "nothing"} THEN table ELSE System

(* Session::routing_key(): DML goes by its table, DDL and USE by @system. *)
RoutingKey(kind, table) ==
    IF kind \in {"insert", "update", "nothing"} THEN table ELSE System

(* The calls of a write statement, inside a transaction and as one. *)
InTransaction(key, explicit, calls) ==
    IF explicit THEN <<Op("slot", key)>> \o calls
    ELSE <<Op("slot", key), Op("auto", key)>> \o calls \o <<Op("commit", key)>>

Calls(kind, table) ==
    CASE kind = "insert" -> <<Op("plan", table), Op("exists", table), Op("put", table),
                              Op("touch", System)>>
      [] kind = "update" -> <<Op("plan", table), Op("scan", table), Op("write", table),
                              Op("touch", System)>>
      [] kind = "nothing" -> <<Op("plan", table)>>
      [] kind = "ddl" -> <<Op("write", System)>>
      [] kind = "drop" -> <<Op("clear", table), Op("write", System)>>
      [] kind = "use" -> <<Op("get", System)>>
      [] kind = "select" -> <<Op("fetch", table)>>      \* by a scan
      [] kind = "lookup" -> <<Op("look", table)>>       \* by the primary key
      [] OTHER -> <<Op(kind, System)>>      \* begin, end, rollback

Writes == {"insert", "update", "nothing", "ddl", "drop", "use"}
Program(kind, table, explicit) ==
    IF kind \in Writes
    THEN InTransaction(RoutingKey(kind, table), explicit, Calls(kind, table))
    ELSE Calls(kind, table)

First(e) == e.todo[1]
Running(c) == eng[c] # None /\ eng[c].todo # << >> /\ eng[c].call = NoCall

(* release_write_slot() of the store: it gives back only what c owns. *)
Free(c, g) ==
    IF slots[g].owner = c
    THEN [slots EXCEPT ![g] = [held |-> FALSE, owner |-> None]]
    ELSE slots
SlotsWithout(c, e) == IF e.slot THEN Free(c, e.wgroup) ELSE slots
Unslotted(e) == [e EXCEPT !.slot = FALSE, !.wgroup = None]

(* The transaction is over (commit_transaction, rollback_transaction).      *)
(* What begin_transaction() resets is reset here: nothing reads it between. *)
Ended(e) ==
    [Unslotted(e) EXCEPT !.tx = None, !.snap = None, !.bound = None,
                         !.crossed = FALSE, !.wrote = FALSE, !.proven = {},
                         !.touched = {}, !.fresh = {}, !.adrift = FALSE]

(* The transaction has not written and has the slot of a group it is not    *)
(* bound to: what it writes from now on is proposed to that group, while    *)
(* check_group() goes by the other.                                         *)
Adrift(e) == e.slot /\ e.tx = {} /\ e.bound # e.wgroup

(* The statement is over; the write thread takes the next one. *)
Yield(c) == writer' = IF writer = c THEN None ELSE writer
Return(c, e) ==
    /\ eng' = [eng EXCEPT ![c] =
                  [e EXCEPT !.todo = << >>, !.call = NoCall,
                            !.floor = IF e.tx = None THEN None ELSE @,
                            !.adrift = @ \/ Adrift(e)]]
    /\ Yield(c)

(* The operation is done; so is the statement, if it was the last one. *)
Go(c, e) ==
    IF Len(e.todo) > 1
    THEN /\ eng' = [eng EXCEPT ![c] = [e EXCEPT !.todo = Tail(@), !.call = NoCall]]
         /\ UNCHANGED writer
    ELSE Return(c, e)

(* A statement of its own rolls back, one inside BEGIN fails the            *)
(* transaction.                                                             *)
StatementFails(c, e) ==
    IF e.explicit
    THEN Return(c, [e EXCEPT !.failed = TRUE]) /\ UNCHANGED slots
    ELSE Return(c, Ended(e)) /\ slots' = SlotsWithout(c, e)

(* The call for the first operation failed.  exists() then says that there  *)
(* is no such row, and INSERT goes on; a statement that build_plan()        *)
(* refuses returns before finish() and leaves the transaction as it is,     *)
(* with the slot; a failed COMMIT changes nothing and may be tried again.   *)
Fail(c, e) ==
    /\ CASE First(e).op \in {"touch", "exists"} -> Go(c, e) /\ UNCHANGED slots
         [] First(e).op = "auto" ->
              Return(c, Unslotted(e)) /\ slots' = SlotsWithout(c, e)
         [] First(e).op \in {"scan", "get", "put", "write", "clear", "commit"} ->
              StatementFails(c, e)
         [] First(e).op = "plan" ->
              \/ StatementFails(c, e)
              \/ e.explicit /\ Return(c, e) /\ UNCHANGED slots
         [] OTHER -> Return(c, e) /\ UNCHANGED slots
    /\ UNCHANGED acked

Others == UNCHANGED <<scenario, up, node, log, chosen, disk>>
Outside == Others /\ UNCHANGED bounds
Fault ==
    /\ bounds.faults < scenario.faults
    /\ bounds' = [bounds EXCEPT !.faults = @ + 1]

-----------------------------------------------------------------------------
(* connect(): a new engine with a client id no other connection ever has,   *)
(* also not after a restart.                                                *)
Connect(c) ==
    /\ up /\ eng[c] = None /\ bounds.clients < MaxClients
    /\ eng' = [eng EXCEPT ![c] = NewEngine(bounds.clients + 1)]
    /\ bounds' = [bounds EXCEPT !.clients = @ + 1]
    /\ UNCHANGED <<scenario, up, writer, slots, node, log, chosen, disk, acked>>

(* The server starts a statement.  Transaction control that does not fit    *)
(* the state of the session, and any other statement of a failed            *)
(* transaction, is refused; a failed transaction's COMMIT rolls back.       *)
StartStatement(c) ==
    /\ eng[c] # None /\ eng[c].todo = << >>
    /\ bounds.statements[c] < scenario.most[c]
    /\ bounds' = [bounds EXCEPT !.statements[c] = @ + 1]
    /\ \E w \in scenario.runs[c] :
          LET e == eng[c]
              kind == w[1]
              table == w[2]
          IN  /\ CASE kind = "begin" -> ~e.explicit
                   [] kind \in {"end", "rollback"} -> e.explicit
                   [] OTHER -> ~e.failed
              /\ (kind = "select" /\ ~e.explicit) \/ writer = None
              /\ writer' = IF kind = "select" /\ ~e.explicit THEN writer ELSE c
              /\ eng' = [eng EXCEPT ![c].todo =
                            Program(IF kind = "end" /\ e.failed
                                    THEN "rollback" ELSE kind, table, e.explicit)]
    /\ UNCHANGED <<slots, acked>> /\ Others

(* Variant: the slot is handed out without looking whether it is held. *)
AcquireHeldSlot(c, e, g) ==
    IF e.slot THEN [ok |-> TRUE, eng |-> e, slots |-> slots]
    ELSE [ok |-> TRUE,
          eng |-> [e EXCEPT !.slot = TRUE, !.wgroup = g, !.snap = None],
          slots |-> [slots EXCEPT ![g] = [held |-> TRUE, owner |-> c]]]

(* acquire_write_slot(group), for the group of the statement's table: the   *)
(* slot the connection has already, of whichever group, will do.  Taking it *)
(* drops the snapshot.                                                      *)
AcquireWriteSlot(c, e, g) ==
    IF e.slot THEN [ok |-> TRUE, eng |-> e, slots |-> slots]
    ELSE IF slots[g].held THEN [ok |-> FALSE, eng |-> e, slots |-> slots]
    ELSE [ok |-> TRUE,
          eng |-> [e EXCEPT !.slot = TRUE, !.wgroup = g, !.snap = None],
          slots |-> [slots EXCEPT ![g] = [held |-> TRUE, owner |-> c]]]

OpSlot(c) ==
    /\ Running(c) /\ First(eng[c]).op = "slot"
    /\ LET got == AcquireWriteSlot(c, eng[c], Group(First(eng[c]).key))
       IN  IF got.ok
           THEN Go(c, got.eng) /\ slots' = got.slots /\ UNCHANGED acked
           ELSE Fail(c, eng[c])
    /\ Outside

-----------------------------------------------------------------------------
(* A blocking call to the raft thread of g (submit_blocking). *)
Call(c, e, kind, g) ==
    /\ eng' = [eng EXCEPT ![c] =
                  [e EXCEPT !.call = [kind |-> kind, group |-> g,
                                      stage |-> "queued", index |-> 0]]]
    /\ UNCHANGED <<writer, slots, acked>>

(* Variant: a transaction that read a second group may still write. *)
CheckGroupUnfrozen(c, e, g, write) ==
    IF e.bound = None THEN [ok |-> TRUE, eng |-> [e EXCEPT !.bound = g]]
    ELSE IF e.bound # g /\ (write \/ e.wrote) THEN [ok |-> FALSE, eng |-> e]
    ELSE [ok |-> e.bound = g \/ c \in scenario.loose, eng |-> e]

(* check_group(): the first data a transaction touches binds it to a group. *)
CheckGroup(c, e, g, write) ==
    IF e.bound = None THEN [ok |-> TRUE, eng |-> [e EXCEPT !.bound = g]]
    ELSE IF e.bound # g /\ (write \/ e.wrote) THEN [ok |-> FALSE, eng |-> e]
    ELSE IF e.bound # g
    THEN [ok |-> c \in scenario.loose, eng |-> [e EXCEPT !.crossed = TRUE]]
    ELSE [ok |-> ~(e.crossed /\ write), eng |-> e]

(* ensure_readable() needs no barrier for a group proven under the          *)
(* snapshot that is still held.                                             *)
Proven(e, g) == e.tx # None /\ e.snap # None /\ g \in e.proven

(* read_key(): the transaction's own writes, else the snapshot, else the    *)
(* store.                                                                   *)
ReadKey(e, key) ==
    LET from == IF e.snap # None THEN e.snap ELSE disk.store
        held == e.tx # None /\ e.snap # None
    IN  [e EXCEPT
           !.proven = IF held THEN @ \cup {Group(key)} ELSE @,
           !.touched = IF e.tx # None /\ ~IsSystemKey(key)
                       THEN @ \cup {Group(key)} ELSE @,
           !.stale = IF (e.tx # None => key \notin e.tx)
                          /\ from[key] < e.floor[key]
                     THEN @ \cup {IF held THEN "snapshot" ELSE "store"} ELSE @]

(* Whether the row is there, as read_key() or the iterator sees it. *)
Present(e, key) ==
    \/ e.tx # None /\ key \in e.tx
    \/ key \in scenario.rows
    \/ (IF e.snap # None THEN e.snap ELSE disk.store)[key] # 0

(* The statement goes on with what it has read: INSERT refuses a row that   *)
(* is there, and UPDATE has nothing to write where there is none.           *)
Unwritten(e) ==
    IF e.explicit THEN <<First(e)>> ELSE <<First(e), Op("commit", First(e).key)>>
Source(o) == IF o.op = "plan" THEN System ELSE o.key
Found(c, e) ==
    LET key == Source(First(e))
        read == ReadKey(e, key)
    IN  CASE First(e).op = "exists" /\ Present(e, key) -> StatementFails(c, read)
          [] First(e).op = "scan" /\ ~Present(e, key) ->
               Go(c, [read EXCEPT !.todo = Unwritten(e)]) /\ UNCHANGED slots
          [] OTHER -> Go(c, read) /\ UNCHANGED slots

(* What get(), exists() and new_iterator() share, once the key or the range *)
(* has a group: the rules of the transaction, which system keys do not      *)
(* touch, then the barrier unless leadership is proven.                     *)
Read(c, key, g) ==
    LET checked == IF eng[c].tx # None /\ ~IsSystemKey(key)
                   THEN CheckGroup(c, eng[c], g, FALSE)
                   ELSE [ok |-> TRUE, eng |-> eng[c]]
        e == checked.eng
    IN  IF ~checked.ok THEN Fail(c, e)
        ELSE IF Proven(e, g) THEN Found(c, e) /\ UNCHANGED acked
        ELSE Call(c, IF e.snap # None THEN e ELSE [e EXCEPT !.floor = acked],
                  "read", g)

OpGet(c) ==
    /\ Running(c) /\ First(eng[c]).op \in {"get", "look", "plan"}
    /\ LET key == Source(First(eng[c]))
       IN  Read(c, key, Group(key))
    /\ Outside
OpExists(c) ==
    /\ Running(c) /\ First(eng[c]).op = "exists"
    /\ Read(c, First(eng[c]).key, Group(First(eng[c]).key))
    /\ Outside

(* new_iterator() over the rows of a table: refused when they are not all   *)
(* of one group.                                                            *)
OpScan(c) ==
    /\ Running(c) /\ First(eng[c]).op \in {"scan", "fetch"}
    /\ LET key == First(eng[c]).key
           g == TableGroup(key)
       IN  IF g = CrossesGroups THEN Fail(c, eng[c])
           ELSE Read(c, key, g)
    /\ Outside

(* write_batch() inside a transaction: buffered under the group's slot.     *)
(* "clear" removes the range of a table.                                    *)
WriteGroup(o) == IF o.op = "clear" THEN TableGroup(o.key) ELSE Group(o.key)
OpWrite(c) ==
    /\ Running(c) /\ First(eng[c]).op \in {"put", "write", "touch", "clear"}
    /\ LET key == First(eng[c]).key
           g == WriteGroup(First(eng[c]))
           checked == CheckGroup(c, eng[c], g, TRUE)
           got == AcquireWriteSlot(c, checked.eng, g)
       IN  IF g = CrossesGroups THEN Fail(c, eng[c])
           ELSE IF checked.ok /\ got.ok
           THEN /\ Go(c, [got.eng EXCEPT !.tx = @ \cup {key}, !.wrote = TRUE,
                                         !.touched = @ \cup {Group(key)},
                                         !.fresh = IF First(eng[c]).op = "put"
                                                   THEN @ \cup {key} ELSE @])
                /\ slots' = got.slots /\ UNCHANGED acked
           ELSE Fail(c, checked.eng)
    /\ Outside

(* begin_transaction(), by BEGIN or by a statement of its own.  With one    *)
(* group leadership is proven first; with several, at the first touch of    *)
(* each group.                                                              *)
Begun(e) ==
    [e EXCEPT !.tx = {}, !.snap = disk.store, !.bound = None,
              !.crossed = FALSE, !.wrote = FALSE, !.touched = {},
              !.proven = IF SingleGroup THEN {0} ELSE {},
              !.explicit = @ \/ First(e).op = "begin"]
OpBegin(c) ==
    /\ Running(c) /\ First(eng[c]).op \in {"begin", "auto"}
    /\ LET e == [eng[c] EXCEPT !.floor = acked]
       IN  IF SingleGroup THEN Call(c, e, "read", 0)
           ELSE Go(c, Begun(e)) /\ UNCHANGED <<slots, acked>>
    /\ Outside

(* commit_transaction(): a read-only one just ends; the batch of another is *)
(* proposed to the group of the write slot.                                 *)
OpCommit(c) ==
    /\ Running(c) /\ First(eng[c]).op \in {"end", "commit"}
    /\ LET e == eng[c]
       IN  IF e.tx = {}
           THEN /\ Go(c, [Ended(e) EXCEPT !.explicit = FALSE])
                /\ slots' = SlotsWithout(c, e) /\ UNCHANGED acked
           ELSE /\ e.next <= MaxRequests
                /\ Call(c, [e EXCEPT !.next = @ + 1, !.snap = None],
                        "propose", e.wgroup)
    /\ Outside

OpRollback(c) ==
    /\ Running(c) /\ First(eng[c]).op = "rollback"
    /\ Go(c, [Ended(eng[c]) EXCEPT !.explicit = FALSE, !.failed = FALSE])
    /\ slots' = SlotsWithout(c, eng[c])
    /\ UNCHANGED acked /\ Outside

(* The call is done: the operation it was made for is carried out, or has   *)
(* failed.                                                                  *)
CallDone(c) ==
    /\ eng[c] # None /\ eng[c].call.stage = "done"
    /\ LET e == eng[c]
           committed == {k \in Keys : e.tx # None /\ k \in e.tx}
       IN  IF e.call.kind = "propose"
           THEN /\ Go(c, [Ended(e) EXCEPT !.explicit = FALSE])
                /\ slots' = SlotsWithout(c, e)
                /\ acked' = [k \in Keys |-> IF k \in committed
                                            THEN e.call.index ELSE acked[k]]
           ELSE IF First(e).op \in {"begin", "auto"}
           THEN Go(c, Begun(e)) /\ UNCHANGED <<slots, acked>>
           ELSE Found(c, e) /\ UNCHANGED acked
    /\ Outside
CallFailed(c) ==
    /\ eng[c] # None /\ eng[c].call.stage = "failed"
    /\ Fail(c, eng[c])
    /\ Outside

(* The queue of the raft thread was full, or wait_for() gives up: what was  *)
(* proposed may still be chosen.                                            *)
QueueFull(c) ==
    /\ eng[c] # None /\ eng[c].call.stage = "queued"
    /\ Fail(c, eng[c])
    /\ Fault /\ Others
CallTimesOut(c) ==
    /\ eng[c] # None /\ eng[c].call.stage = "pending"
    /\ Fail(c, eng[c])
    /\ Fault /\ Others

-----------------------------------------------------------------------------
(* The connection goes away between two statements: the loop thread         *)
(* destroys the engine, without a lock, while the write thread may run a    *)
(* statement of another connection.                                         *)
Hangup(c) ==
    /\ eng[c] # None /\ eng[c].todo = << >>
    /\ LET e == eng[c]
           owns == e.slot /\ slots[e.wgroup].owner = c
       IN  /\ eng' = [eng EXCEPT ![c] =
                         IF owns THEN [e EXCEPT !.todo = <<Op("close", System)>>]
                         ELSE None]
           /\ slots' = IF owns THEN [slots EXCEPT ![e.wgroup].held = FALSE]
                       ELSE slots
    /\ UNCHANGED <<writer, acked>> /\ Fault /\ Others
HangupEnds(c) ==
    /\ Running(c) /\ First(eng[c]).op = "close"
    /\ slots' = [slots EXCEPT ![eng[c].wgroup].owner = None]
    /\ eng' = [eng EXCEPT ![c] = None]
    /\ UNCHANGED <<writer, acked>> /\ Outside

-----------------------------------------------------------------------------
(* The raft thread of group g: it takes a queued call.  A proposal goes to  *)
(* the log; a read barrier notes how much is committed.                     *)
At(e, stage, index) == [e EXCEPT !.call.stage = stage, !.call.index = index]
TakeCall(c) ==
    /\ eng[c] # None /\ eng[c].call.stage = "queued"
    /\ LET e == eng[c]
           g == e.call.group
       IN  IF ~node[g].leader
           THEN eng' = [eng EXCEPT ![c] = At(e, "failed", 0)] /\ UNCHANGED log
           ELSE IF e.call.kind = "read"
           THEN /\ eng' = [eng EXCEPT ![c] = At(e, "pending", chosen[g])]
                /\ UNCHANGED log
           ELSE /\ Entries < MaxLog
                /\ log' = [log EXCEPT ![g] =
                      Append(@, [client |-> e.client, request |-> e.next - 1,
                                 keys |-> e.tx, fresh |-> e.fresh,
                                 adrift |-> e.adrift])]
                /\ eng' = [eng EXCEPT ![c] = At(e, "pending", Len(log[g]) + 1)]
    /\ UNCHANGED <<scenario, up, writer, slots, node, chosen, disk, acked, bounds>>

Settled(c, g, stage, from, to) ==
    /\ eng[c] # None /\ eng[c].call.group = g
    /\ eng[c].call.stage = stage /\ eng[c].call.index \in from .. to
Resolve(g, kind, from, to, stage) ==
    [c \in Connections |->
        IF Settled(c, g, "pending", from, to) /\ eng[c].call.kind \in kind
        THEN [eng[c] EXCEPT !.call.stage = stage] ELSE eng[c]]

(* Variant: the barrier does not wait for the state machine. *)
BarrierPassesEarly(c) ==
    /\ eng[c] # None /\ eng[c].call.kind = "read"
    /\ eng[c].call.stage = "pending"
    /\ eng' = [eng EXCEPT ![c].call.stage = "done"]
    /\ UNCHANGED <<scenario, up, writer, slots, node, log, chosen, disk, acked, bounds>>

(* evaluate_read_barriers(): the quorum has confirmed the leader and the    *)
(* state machine has caught up.                                             *)
BarrierPasses(c) ==
    /\ eng[c] # None /\ eng[c].call.kind = "read"
    /\ eng[c].call.stage = "pending"
    /\ node[eng[c].call.group].applied >= eng[c].call.index
    /\ eng' = [eng EXCEPT ![c].call.stage = "done"]
    /\ UNCHANGED <<scenario, up, writer, slots, node, log, chosen, disk, acked, bounds>>

(* apply_committed() with KVStateMachine::apply().  The next entry is       *)
(* looked up in the results: the client's newest request is skipped, an     *)
(* older one is an error that leaves applied where it is; otherwise the     *)
(* batch is written, and then the result, each durably.                     *)
NextEntry(g) == log[g][node[g].applied + 1]
Newest(g) == disk.results[g][NextEntry(g).client]
Applicable(g) == up /\ node[g].applied < chosen[g]
Advance(g) ==
    /\ node' = [node EXCEPT ![g].applied = @ + 1, ![g].dirty = FALSE]
    /\ eng' = Resolve(g, {"propose"}, node[g].applied + 1, node[g].applied + 1,
                      "done")

ApplySkips(g) ==
    /\ Applicable(g) /\ ~node[g].dirty
    /\ Newest(g) = NextEntry(g).request
    /\ Advance(g)
    /\ UNCHANGED <<scenario, up, writer, slots, log, chosen, disk, acked, bounds>>
ApplyFails(g) ==
    /\ Applicable(g) /\ ~node[g].dirty
    /\ Newest(g) > NextEntry(g).request
    /\ eng' = Resolve(g, {"propose", "read"}, 0, MaxLog, "failed")
    /\ UNCHANGED <<scenario, up, writer, slots, node, log, chosen, disk, acked, bounds>>
ApplyWrites(g) ==
    /\ Applicable(g) /\ ~node[g].dirty
    /\ Newest(g) < NextEntry(g).request
    /\ LET i == node[g].applied + 1
       IN  disk' = [disk EXCEPT
              !.store = [k \in Keys |-> IF k \in NextEntry(g).keys THEN i ELSE @[k]],
              !.reached[g] = IF i > @ THEN i ELSE @]
    /\ node' = [node EXCEPT ![g].dirty = TRUE]
    /\ UNCHANGED <<scenario, up, eng, writer, slots, log, chosen, acked, bounds>>
(* Variant: the result is not saved. *)
ApplySavesNothing(g) ==
    /\ node[g].dirty
    /\ Advance(g)
    /\ UNCHANGED <<scenario, up, writer, slots, log, chosen, disk, acked, bounds>>
ApplySaves(g) ==
    /\ node[g].dirty
    /\ disk' = [disk EXCEPT !.results[g][NextEntry(g).client] =
                              NextEntry(g).request]
    /\ Advance(g)
    /\ UNCHANGED <<scenario, up, writer, slots, log, chosen, acked, bounds>>
Apply(g) == ApplySkips(g) \/ ApplyFails(g) \/ ApplyWrites(g) \/ ApplySaves(g)

(* The group, as Raft.tla has it: an entry of this node is committed, by    *)
(* itself or by the leader that followed; leadership is lost, and with it   *)
(* what waits fails; another leader replaces what was not committed; this   *)
(* node leads again.  What other nodes propose is taken to be at home: the  *)
(* properties about the store assume it of every entry.                     *)
Commit(g) ==
    /\ chosen[g] < Len(log[g])
    /\ chosen' = [chosen EXCEPT ![g] = @ + 1]
    /\ UNCHANGED <<scenario, up, eng, writer, slots, node, log, disk, acked, bounds>>
LoseLeadership(g) ==
    /\ node[g].leader /\ Fault
    /\ node' = [node EXCEPT ![g].leader = FALSE]
    /\ eng' = Resolve(g, {"propose", "read"}, 0, MaxLog, "failed")
    /\ UNCHANGED <<scenario, up, writer, slots, log, chosen, disk, acked>>
RemoteWrite(g) ==
    /\ ~node[g].leader /\ Entries < MaxLog
    /\ LET i == chosen[g] + 1
           keys == {k \in Keys : Group(k) = g}
       IN  /\ log' = [log EXCEPT ![g] = Append(SubSeq(@, 1, chosen[g]),
                  [client |-> MaxClients + i, request |-> 1, keys |-> keys,
                   fresh |-> {}, adrift |-> FALSE])]
           /\ acked' = [k \in Keys |-> IF k \in keys THEN i ELSE acked[k]]
    /\ chosen' = [chosen EXCEPT ![g] = @ + 1]
    /\ UNCHANGED <<scenario, up, eng, writer, slots, node, disk, bounds>>
GainLeadership(g) ==
    /\ up /\ ~node[g].leader
    /\ node' = [node EXCEPT ![g].leader = TRUE]
    /\ UNCHANGED <<scenario, up, eng, writer, slots, log, chosen, disk, acked, bounds>>

(* maybe_compact_log(), in a tick: the log up to what is applied becomes    *)
(* the snapshot, which is the store itself.                                 *)
Compact(g) ==
    /\ up /\ ~node[g].dirty /\ scenario.compact > 0
    /\ Len(log[g]) >= disk.boundary[g] + scenario.compact
    /\ node[g].applied > disk.boundary[g]
    /\ disk' = [disk EXCEPT !.boundary[g] = node[g].applied]
    /\ UNCHANGED <<scenario, up, eng, writer, slots, node, log, chosen, acked, bounds>>

(* The process crashes, or stops: the server has ended its connections, and *)
(* the service threads finish what they have begun (RaftBootstrap::stop).   *)
Down ==
    /\ up /\ up' = FALSE /\ Fault
    /\ eng' = [c \in Connections |-> None]
    /\ writer' = None
    /\ slots' = [g \in Groups |-> [held |-> FALSE, owner |-> None]]
    /\ node' = [g \in Groups |-> NewNode]
    /\ UNCHANGED <<scenario, log, chosen, disk, acked>>
Drained == \A g \in Groups : ~node[g].dirty
Crash == Down
Stop == Drained /\ (\A c \in Connections : eng[c] = None) /\ Down

(* RaftBootstrap::open(): the stores are opened and every node takes up     *)
(* from the boundary of its log, although the store has more.               *)
Start ==
    /\ ~up /\ up' = TRUE
    /\ node' = [g \in Groups |-> [NewNode EXCEPT !.applied = disk.boundary[g]]]
    /\ UNCHANGED <<scenario, eng, writer, slots, log, chosen, disk, acked, bounds>>

Statement(c) ==
    StartStatement(c) \/ OpSlot(c) \/ OpGet(c) \/ OpExists(c) \/ OpScan(c) \/ OpWrite(c) \/ OpBegin(c)
      \/ OpCommit(c) \/ OpRollback(c)
Answer(c) == CallDone(c) \/ CallFailed(c) \/ QueueFull(c) \/ CallTimesOut(c)
GroupStep(g) ==
    Apply(g) \/ Commit(g) \/ LoseLeadership(g) \/ RemoteWrite(g)
      \/ GainLeadership(g) \/ Compact(g)

Next ==
    \/ \E c \in Connections :
          Connect(c) \/ Statement(c) \/ Answer(c) \/ Hangup(c) \/ HangupEnds(c)
            \/ TakeCall(c) \/ BarrierPasses(c)
    \/ \E g \in Groups : GroupStep(g)
    \/ Crash \/ Stop \/ Start

Spec == Init /\ [][Next]_vars

-----------------------------------------------------------------------------
(* What is committed in a group writes keys of that group only.  The code   *)
(* leaves it to HomeUnlessAdrift: an adrift transaction may break it, and   *)
(* then two logs write the same key in no particular order.                 *)
CommittedAtHome ==
    \A g \in Groups : \A i \in 1 .. chosen[g] :
        \A k \in log[g][i].keys : Group(k) = g

(* Whatever crashes and replays happen, a key holds the value of the last   *)
(* entry that was ever applied to it (KVStateMachine::apply): a replay      *)
(* never takes the store back, and none of the effects is lost.             *)
LastWriter(g, k, n) ==
    LET ws == {i \in 1 .. n : k \in log[g][i].keys}
    IN  IF ws = {} THEN 0 ELSE CHOOSE i \in ws : \A j \in ws : j <= i
StoreFollowsLog ==
    CommittedAtHome => \A k \in Keys :
        disk.store[k] = LastWriter(Group(k), k, disk.reached[Group(k)])

(* At most one connection writes to a group: while one has the slot of the  *)
(* group or waits for its proposal to it, nobody else does (write_slots_).  *)
Writing(c, g) ==
    /\ eng[c] # None /\ (eng[c].todo # << >> => First(eng[c]).op # "close")
    /\ \/ eng[c].slot /\ eng[c].wgroup = g
       \/ eng[c].call.kind = "propose" /\ eng[c].call.group = g
OneWriter ==
    \A g \in Groups, c, d \in Connections :
        Writing(c, g) /\ Writing(d, g) => c = d

(* A transaction that has written has used the data of one group only, in   *)
(* whichever order it read and wrote and whatever the client allowed        *)
(* (check_group; DESIGN.md, rule 3.1).                                      *)
WritersStayHome ==
    \A c \in Connections :
        eng[c] # None /\ eng[c].tx # None /\ eng[c].wrote =>
            eng[c].touched = {eng[c].bound}

(* With one group, or without a snapshot, a read returns nothing older than *)
(* what had been acknowledged, here or by another leader, when the barrier  *)
(* or the transaction began (ensure_readable, begin_transaction).           *)
ReadsSeeAcknowledged ==
    CommittedAtHome => \A c \in Connections :
        eng[c] # None => eng[c].stale \subseteq
                            IF SingleGroup THEN {} ELSE {"snapshot"}

(* A transaction is proposed to the group of all its writes, however it     *)
(* took its slot and whatever failed in between, unless it was adrift       *)
(* before its first write (routing_key, acquire_write_slot, check_group,    *)
(* commit_transaction).                                                     *)
HomeUnlessAdrift ==
    \A g \in Groups : \A i \in DOMAIN log[g] :
        log[g][i].adrift \/ \A k \in log[g][i].keys : Group(k) = g

(* What the comment of commit_transaction says: the group of the write slot *)
(* is the group of the buffered writes.                                     *)
ProposedToOwnGroup ==
    \A g \in Groups : \A i \in DOMAIN log[g] :
        \A k \in log[g][i].keys : Group(k) = g

(* What the comment of Table::insert says: INSERT does not overwrite.  An   *)
(* entry that INSERT made finds its row absent.                             *)
InsertNeverOverwrites ==
    \A g \in Groups : \A i \in 1 .. chosen[g] : \A k \in log[g][i].fresh :
        k \notin scenario.rows /\ \A j \in 1 .. i - 1 : k \notin log[g][j].keys

(* What the documentation says of a restart: the replay of an entry that    *)
(* was applied finds its result.                                            *)
ReplayAccepted ==
    \A g \in Groups : Applicable(g) /\ ~node[g].dirty =>
        Newest(g) <= NextEntry(g).request
=============================================================================
