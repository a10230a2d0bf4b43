# Verification of the SQL database

TLA+ models of the database in `src/`: a SQL engine over a key-value store,
kept by one LevelDB, by memory, or replicated by raft groups. TLC checks the
models on small instances; TLAPS proves some of their properties for every
size. The modules are in this directory, `PROJECT.json` maps each definition to
the lines it models.

## 1. The system

A statement enters through `server/` (or the local command line), is parsed,
validated, planned and executed by a `session`, which works through one
connection (`KVEngine`) on a shared store (`KVStore`). In a replicated
deployment the store is `RaftKVStore`: it proposes write batches to the raft
group that owns the keys and reads behind a read barrier; the group applies
committed batches to a local store.

| Component | State | Operations | Hard part |
| --- | --- | --- | --- |
| Raft node (`raft/raft_node`) | role, term and vote, log, commit and applied index, progress of each peer, waiting proposals and reads, a snapshot being assembled | `start`, `tick`, `propose`, `read_barrier`, six message handlers | several servers, crashes, write errors between two writes, messages lost, repeated and reordered |
| Raft log store (`leveldb_log_store`, `memory_log_store`) | entries, snapshot boundary, hard state | open, append, at, truncate, install, save and load hard state | what a crash leaves, the format that must be read back |
| Raft transport (`tcp_transport`) | outbound queue, per-peer pending bytes, connections | send, sender loop, reconnect, deliver | drops when full, sends again after a reconnect |
| State machine (`kv_state_machine`, request results) | key-value data, newest result of each client | apply, snapshot, restore | a crash between the batch and its result; replay after a restart |
| Raft runtime (`raft_runtime`, executor) | queue of tasks, running flag | start, stop, submit, propose, read barrier, tick | blocking submissions while stopping, stop order |
| Raft key-value store (`raft_kv_store`) | write slot per group, request ids, transaction of each connection | get, write batch, begin, commit, rollback | time-outs and retries of proposals that may still commit |
| Group router (`group_router`) | ranges of keys and their groups | validate, group of a key, a range, a batch | boundaries of ranges |
| Storage engines (`storage/leveldb_engine`, `mock_engine`) | data, open flag, write slot, snapshots, iterators; per connection a transaction buffer | get, put, remove, batch, scan, begin, commit, rollback, open, close | concurrent connections, one writer, consistent reads, closing |
| Transaction buffer and merging iterator (`storage/kv_engine`) | ordered operations, an overlay of keys and range removals | lookup, scan merged with the database | range removals against later writes, cursor moves in both directions |
| Session (`session`) | in a transaction, failed flag, current database | execute one statement, begin, commit, rollback | which failures end a transaction, who gives the write slot back |
| Service threads, loop, TCP server (`common/svrkit`, `common/net`) | bounded queues, coroutines waiting, connections | submit, run, post, accept, graceful shutdown | hand-over between threads, shutdown while work is queued |
| SQL server (`server`) | connections, watchdogs, metrics | serve a connection, route a statement, time-outs, shutdown | watchdog against a statement that just arrived |
| Relations and catalog (`relation`) | databases, tables, rows and statistics as keys | create, drop, open, insert, scan, update, delete | several keys for one fact |
| Planner, executor, SQL types | none beyond one statement | ranges of the primary key, operators over rows | equivalence of a range scan and the filter it replaces |
| Parser, statements, protocol, configuration, clients | none worth keeping | translate text and bytes | outside a model checker's reach, or plain input and output |

## 2. The project

| Module | What it models | Section |
| --- | --- | --- |
| `Raft` | one raft group: nodes, logs, stores, network | 3 |
| `KVEngine` | the storage engine and its connections | 4 |
| `Session`, over `KVEngine` | SQL sessions: statements, transactions, catalog | 5 |
| `Server`, which implements `Conversation` | loop, service threads, TCP server, serving a connection | 6 |
| `RaftKV`, over `GroupRouter` | sessions on replicated storage: adapter, runtime, state machine | 7 |
| `KeyRanges`, `Rewriter`, `Planner`, `Iterators`, composed by `Executor` | one statement from its condition to its rows | 8 |
| `Wire`, `Transport`, which implements `Network` | message codec and TCP transport of raft | 9 |

The modules with `MC` in front give the instances, a `.cfg` of the same name as
the run the constants. Proofs are in the modules whose names end in
`Proofs`, each an extension of the module it is about. Section 10
lists where code and documents differ, section 11 what is left out.

How the models meet: `Raft` assumes of its network what `Network` states, and
`Transport` is shown to implement `Network`. `RaftKV` takes from `Raft` that
what is committed stays and that a read barrier proves leadership. `Session`
runs on the actions of `KVEngine`; `RaftKV` has the same calls of a session on
the other engine. `Server` treats a statement as a job with an outcome, which is
what `StatementsEnd` of `Session` says it is.

What is left of the plan: the recovery scan of the log store; the redirects of a
client. `StreamsExact` of the transport stays with TLC: it rests on the decoder
undoing the encoder, which are folds over the units of a message, so a proof
would be an induction over data.

## 3. Raft

### State and actions

`Raft.tla` models one raft group. `node[s]` is a record holding what the
`RaftNode` of server `s` and its stores hold: the durable part (term, vote, log
after the snapshot boundary, the boundary, data, request results) and the
volatile part. `net[f][s]` is the queue of frames from `f` to `s`. The private
functions of the node are operators from record to record, with the names of
the code (`BecomeFollower`, `SendAppendEntries`, `AdvanceCommit`,
`ApplyCommitted`, `MaybeCompact` ...); they collect what they send in `out` and
what they complete for clients in `told`, and `Become` ends every step by
publishing both. One action is one whole callback on the node's service thread,
including what it calls: a message handler, a tick, a proposal, a read.

* `tick()`: `TickIdle`, `TickHeartbeat`, `TickElection`; whether a deadline has
  passed is left open, so every timing is covered.
* Handlers are split by outcome: `HandleAppendEntries` (accepted), `...Stale`,
  `...Inconsistent`, `...Refused` (the term check on each entry), `...Fails`
  (a write error at any point of the loop), and the same for votes, snapshot
  chunks and responses.
* Write errors are explicit: hard state, vote, no-op, append between a
  truncation and its replacement, apply, compaction, restore, boundary.
* `Crash` keeps the durable part; the connections of the server break or not.
  `Restart` is possible only when `load_hard_state()` accepts the record.
* `Lose` and `Resend` are what `RaftTcpTransport` does with frames around a
  broken connection; `Enqueue` drops what finds the queue full.

Data are abstracted: a client command is a value that writes a key of its own,
so a store is the set of applied commands, and a command that must not be
applied twice is one whose result is stored. A serialized snapshot is cut into
`Chunks` chunks that each carry the whole set.  Ghosts (`cast`, `elected`,
`proposed`, `need` of a read) record history and influence nothing.

### Runs

| Run | Instance | What it shows |
| --- | --- | --- |
| RaftReplication | 3 servers, 1 command, 2 elections, logs of 3 | one leader per term, committed entries agree and stay, an acknowledged command is held by every later leader |
| RaftRead | 3 servers, 1 command, 1 read, 2 elections | a read sees every write acknowledged before it |
| RaftPair | 2 servers, rival campaigns, a crash, a write error, a loss, heartbeats, a read | an even group keeps acknowledged commands although it commits with half of the members; a client is only told about its own entry; nobody waits on a follower |
| RaftSnapshot | 2 servers, compaction after every entry, 2 chunks, a repeated frame, a write error | applied means stored, no saved result is ahead of the data, no conflicting data of one term |
| RaftLiveness | 3 servers, 1 election, queue of 1 | a proposal is applied and completed even when full queues drop frames |

`AppliedIsStored` passes where frames are repeated and writes fail but nobody
crashes; with a crash and a repeated frame it does not hold (section 10).

### Bounds

`Bound` limits elections, reads, crashes, write errors, losses and repeats, the
length of a log and the heartbeat rounds of one leadership; every limit is a
conjunct of a guard and named in `MCRaft.tla`. Two elections are what it takes
to displace a leader and have it rejoin; a log of three holds the two no-ops
and a command between or after them; one command is enough because commands
are interchangeable and at most one of them is at a given index. A queue of one
frame makes drops happen in every other step, so it also stands for loss.
RaftReplication and RaftSnapshot let the second campaign start only after a
command was proposed (`CampaignsFollowWrites`); rival candidates before that
are left to the theorem. In the code all peers share one outbound queue; a queue
per connection allows the same drops. `ReadsFollowWrites` cuts states in which the one read was asked
before any acknowledgement: such a read needs nothing. Deadlock is not checked:
with the budgets used up and no message waiting a group is rightly at rest.

### Fairness

`FairSpec`: a server that is up and has messages waiting again and again handles
some message again and again. The runtime's loop takes tasks from its queue as
long as it runs, which is exactly this. Nothing is assumed of ticks, clients,
crashes, elections or the network.

### Proofs

Three modules, each on top of the one before. `RaftProofs.tla` proves what each
node operator keeps (its type, its identity, its vote and term) and then that
every action keeps the invariant, and the same for what is in the logs and what
clients are told. `RaftHistoryProofs.tla` relates a node to the history of its
group, and `RaftSafetyProofs.tla` has the steps of the group and the theorems on
what is committed and on reads.

* `TypeCorrect`: `Spec => []TypeOK`, which the runs leave to this theorem. The
  induction needs `snapIndex <= applied` beside `TypeOK` (an entry above the
  boundary is looked up at an applied index).
* `OneLeaderPerTerm`: `Spec => []ElectionSafety` for any finite set of servers
  and any bounds, crashes, write errors, lost and repeated frames included.
  The inductive invariant `Inv` adds to the types: `VotesBindTheVoter` (a vote
  of the current term is the one on disk), `OneVotePerTerm`, `GrantsAreCast` (a
  grant on the wire was really cast), `VotesAreCast` (so were the votes a
  candidate counts), `LeadersAreElected`, `ElectedByQuorum`. `ElectionSafety`
  alone is not inductive: it says nothing of the grants still under way.
  Two quorums share a voter (`QuorumsIntersect`), who voted once.
* `OnlyLeadersOweAnswers`, `AnswersMatchProposals`, `IndexAndTermDetermineEntry`:
  `[]OnlyLeadersOwe`, `[]CompletedOwnEntry`, `[]SameTermSameData`. The inductive
  invariant `LogInv` speaks of `Places`, the pairs of index and entry that are in
  a log or in a frame under way: each comes from an elected term
  (`WrittenByElected`), no index and term has two (`OneEntryAPlace`), and none of
  a leader's term is beyond the end of its log (`LeaderIsAhead`), so that what it
  appends is new. `ElectedBefore` keeps a server from leading a term twice, and
  `DebtsBacked` ties what a leader still has to answer to the entries of its log.
  Frames are part of it because a repeated frame of a deposed leader may be
  appended long after.

* `ServersAgreeOnCommitted`: `Spec => []CommittedAgree`, with crashes, write
  errors, lost and repeated frames and compaction.
* `CommittedEntriesStay`: `Spec => CommittedStays`.
* `LeadersHoldAcknowledged`, `StoresHoldAcknowledged`: `[]AcknowledgedSurvives`
  and `[]AppliedIsStored`, from the hypothesis `Durable`: `Threshold = 0` (the
  code's "no compaction") or no crashes.
* `SavedResultsAreStored`: `[]ResultsAreStored`, from `Durable` too: no entry whose
  request has a saved result is missing from the data, snapshots installed or not.
* `ReadsAreFresh`: `[]ReadsSeeAcknowledged`, from `Durable` too.

The committed entries need an invariant about the past: which entries a later
leader must have follows from what voters held when they voted, and a voter may
since have compacted, overwritten or installed over it. No variable of the model
remembers that, so the invariant `SafetyInv` says that there is a history `W`
(`\E W \in World : SafeIn(W)`) and every step of the proof shows that a history
after the step exists that goes on from it (`SafeAfter`). A world has

* `logs[t]`, the whole log the leader of term `t` wrote, compacted entries
  included; it only grows at its end, and every node's log is a piece of the log
  of its last entry's term (`Copied`);
* `chosen`, what leaders have committed, which only grows;
* `held`, who ever had which index and term in its log;
* `terms`, the terms of the servers.

`Lawful(W)` is the heart of the argument: an entry of a leader's own term at `j`
is either in the log of every later leader or `Lost`, that is, a quorum has left
its term without holding it, so that it can no longer be chosen (`LogsComplete`);
logs that share an index and term agree up to it (`LogsMatch`); terms never fall
along a log (`LogsOrdered`). `Upright(W, n)` says what a node has to do with it:
what it committed was chosen, its log ends no earlier, as elections compare logs,
than any entry it ever held and that is not lost (`Recorded`), what a leader believes of its followers is true
(`Progress`), and what it sends or tells a client is true. `WireVouched` is the
same for frames under way, where a repeated frame of a deposed leader may be of
any age; `BallotsFair` says that whoever voted for a candidate that is still
campaigning holds nothing the candidate lacks. A leader commits what a majority
holds, counted as the code does (half of an even group is enough), an election
needs one more; the two share a server (`QuorumMeetsMajority`), so what is
committed is never `Lost` (`HeldNotLost`) and hence in every later leader's log
(`ChosenInLog`).

Two peculiarities of this code shape the proof. A follower refuses a request with
entries of older terms (section 10), so a leader's count of what is replicated
says something of entries of its own term only (`Replicated`). And
`install_snapshot()` keeps entries behind the boundary whatever their term; the
handler is sound because a suffix that is kept still follows the log it was copied
from, and one that goes held nothing the snapshot lacks and that can still be
chosen (`HeldBehindSnapshot`).

`Durable` is needed because after a crash a node that has compacted restarts with
`applied` at its boundary while its data are ahead, and a repeated snapshot frame
may then revert them (RaftRevert, section 10); with longer runs that also breaks
`AcknowledgedSurvives`. `CommittedAgree` and `CommittedStays` speak of logs, which
are not affected, and need no hypothesis. `CommittedStays` follows from the
history and from `Onward`: no step of a running server lowers its commit index or
its boundary, and one that crashes or starts keeps its disk.

Reads need a second invariant, `ReadInv`, on top of `SafetyInv`. A read is
answered by a leader that may have been deposed without knowing it, and the
target it waits for is the commit index it knew, which a new leader may have
inherited from before anything was acknowledged. Two facts make it right.

* A leader that a later one has overtaken answers no new read. `Overtaken(s, R)`
  says that a quorum has gone on to later terms without having answered round
  `R`, and that no answer to it is on its way; it is stable (`OvertakenStays`),
  since a server answers in its own term only and a success answers a request of
  its round (`Honest`). It excludes that the round is ever answered by a quorum
  (`NotOvertaken`). When a read begins, every leader of a later term has been
  elected by a quorum whose servers have not answered the new round
  (`LaterLeaderOvertakes`), so either the read is overtaken or what it needs was
  acknowledged in terms up to the leader's own (`Behind`).
* A leader that has an answer to a round from a quorum has applied its own
  no-op. `Steady` has the index `N` of that entry: all requests of the leader
  carry its log up to `N` at least (`Requests`), so whoever answered has it
  (`Counted`), so with a quorum of answers it is committed (`Reached`), and a read
  that waits for less than `N` waits until it is applied (`Timely`). A leader that has
  applied an entry of its own term has applied all that leaders of earlier terms
  have acknowledged (`LeadersHaveApplied`, from the history), and what it
  acknowledged itself it had applied.

The invariant carries `TermsElected` besides, so that no success and no answer to
a client is of a term that is still to be led. `Durable` enters only at the end,
where applied becomes stored.

Assumptions: the servers are finitely many and `Nil` is none of them, `NoOp` is
no command, thresholds and bounds are natural numbers. Model checked only:
`ProposalsComplete`, as liveness under fairness is outside the prover's reach.

### Left out

The recovery scan of `LevelDBLogStore::open`, clock values, counters and log
lines; client and request ids (a command stands for both here; section 7 has
them); the membership is fixed, as in the code.

## 4. The storage engine

### State and actions

`KVEngine.tla` models one `LevelDBStore` (`open`, `db`, `owner`, `snapshots`,
`iterators`) and its connections (`conn[c]`: `tx_`, `snapshot_`, `write_slot_`).
`call[c]` is what is left of a call of `c` that others may interleave with: a
write outside a transaction takes the slot, applies and releases it in three
critical sections (`AutoAcquire`, `AutoApply`, `AutoRelease`); commit and
rollback end with giving back snapshot and slot (`Finish`). The other calls are
one action each. `base` is a ghost, the committed data when a transaction began.

The transaction buffer is a function from keys to the last put or remove and
whether a range removal came after it. That is all `TxBuffer::lookup()`, the
merged scan and `apply_batch_locked()` distinguish, and the three read it
differently (`LookupIn`, `ScanIn`, `Apply`), as in the code.

`Careful` says how connections are used. Sessions never write outside a
transaction while they hold the slot, never give it back inside one, and the
server closes the store after its connections; that is `Careful = TRUE`. The
engine's interface allows more (`FALSE`, see section 10).

### Run

`KVEngine` (two careful connections, two keys, one value, one range over both)
checks that the store and its connections agree on the writer and the slot never
leaks (`SlotAgrees`), that `close()` counts snapshots right, that a transaction
reads one version until it writes, and that data never change under a writer.
Two connections are all that compete for one slot; the keys differ in being
written or not. The state space is finite without bounds.

### Proofs

The first part of `SessionProofs.tla` (sessions are built on the engine) proves
`SlotTheorem`, `ReadOnlyTheorem` and `FrozenTheorem`
for every set of connections, keys, values and ranges, from `EngineAssumption`
and for careful connections. The inductive invariant `EngineInv` adds to
`SlotAgrees` the types and, for each connection (`ConnInv`), that a write outside
a transaction runs without the slot and without a buffer, and that a transaction
without the slot has an empty buffer and reads the snapshot it began with.
`SlotAgrees` alone would let a committing reader change the data: that its
buffer is empty is what makes its commit harmless (`ApplyEmpty`).
`SnapshotTheorem` is `[]SnapshotsCounted`, for careless connections too: the
counter that `close()` looks at is the number of connections that have a snapshot
(`SnapshotInv`, which adds that a connection has one only inside a transaction or
while that is being finished, so that no BEGIN overwrites one). `EngineAssumption` says that `Nil` is no connection, no data and no
buffer, since the model uses it for their absence.

## 5. Sessions

### State and actions

`Session.tla` extends KVEngine: `sess[c]` is the `Session` on connection `c`
(`in_transaction_`, `tx_failed_`, the current database, where its statement is),
`cursor[c]` the SELECT it is reading. Catalog and rows are keys of the store:
the list of databases, the list of tables, the schema, the statistics with the
row count, and the rows of one table of one database; names, schemas and row
contents are abstracted to present or absent and a small value.

A write statement is `Prepare` (validation, with reads before the slot),
`TakeSlot` or `Busy`, `AutoBegin` outside an explicit transaction, `RunOk` or
`RunFails`, then `AutoCommit`, or `AutoCommitFails` and `AutoRollback`. Other
sessions run between any two of these. Running is one action, because the
statement holds the slot and reads committed data nobody else can change. An
INSERT that fails at a row leaves the rows before it in the buffer; a statement
that cannot be planned fails without marking the transaction, as in the code.
The engine's own actions are reused, so the slot and the snapshots are the real
ones. `EndSession` is a client that goes away or the idle timer.

Validation reads several keys, one after the other; the model reads them at one
moment. The checks that decide are made again when the statement runs, and the
mutant `RunsUnchecked` shows that they have to be. Reads never fail in the model
(section 10).

### Runs

| Run | Instance | What it shows |
| --- | --- | --- |
| SessionDml | two sessions insert, update and delete two rows, with BEGIN, aborts, failing commits, sessions that end | no slot, snapshot or buffer left behind, the stored row count is the number of rows, INSERT never overwrites, every write statement ends |
| SessionDdl | two sessions create, use, fill, read and drop one database and table, statement by statement | the committed catalog is whole although validations are stale; a SELECT of one range or point returns one version |

SessionDdl sends no BEGIN: inside a transaction range removals show through
(INSERT, then DROP TABLE, then COMMIT leaves the row; DROP TABLE, CREATE TABLE,
SELECT shows the old rows). The statements of an instance are two rows alone and
together; two rows are the least with which a statement can half succeed.
Commands repeat for ever in a finite state space, so nothing is bounded.

`FairSessionSpec` assumes weak fairness of the steps of a running statement: the
service thread that executes it does nothing else until it ends. Clients need
not send COMMIT, and `StatementsEnd` holds all the same. Deadlock is checked in
all these runs.

### Proofs

The second part of `SessionProofs.tla` proves, for any number of connections, rows, values and any
set of statements and plans: `NothingLeftBehind` (`[]SessionsHoldNothing`),
`CatalogStaysWhole` (`[]CatalogConsistent`), `RowCountsStayExact`
(`[]RowCountExact`), `SelectsSeeOneVersion` (`[]SelectSeesOneVersion`) and
`InsertsNeverOverwrite` (the action property `InsertNeverOverwrites`).

The inductive invariant `SessionInv` has the engine's `EngineInv`, the two facts
about committed data (`Whole`, `Counted`), and for every session `Local`:

* `Shape`: where a statement is decides whether its connection has slot, buffer
  and snapshot, and whoever has the slot reads the committed data;
* `TxInv`: the data a transaction *shows* (its buffer over the committed data)
  are whole and counted as long as it may still commit. The committed properties
  are not inductive without it: a commit writes what many statements buffered;
* `CursorInv`: what the session reads now is a version of its cursor, and what
  it has read of one range is one version.

That a commit makes the committed data what the transaction shows
(`ApplyIsView`) needs a buffer that puts nothing below a removed range. Hence the
hypothesis `Separated`: clients that send BEGIN do not drop tables or databases.
Both instances of section 5 satisfy it; outside of it the theorems fail for the
reason in section 10 (`CommitsWhatItRead`). `NothingLeftBehind` has it too, as its
types include that of the count that `touch_table()` writes.
`SessionAssumption` is what the model of the catalog means: its keys are
different, counts and flags are values, the initial data are whole.
`StatementsEnd` is liveness and model checked only.

### Left out

The meta commands (they change nothing), parsing, several databases and tables.
The planner's choice of ranges (`Plans` are given here), EXPLAIN, filters,
sorting and projection are in section 8, raft groups (`routing_key`) in
section 7.

## 6. The server

### State and actions

`Server.tla` models the event loop, the service threads, the TCP server and
`Server::serve_connection`. `loop` holds the posted actions, the watches on
sockets and `current`, the coroutine that the loop thread is running; `svc[s]`
is a service thread with its bounded queue (1 parses, 2 writes, the others
read); `conn[c]` is the coroutine of a connection with the state it keeps across
suspensions (`in_transaction`, `timed_out`, the frame being written), `sock[c]`
the socket; `srv` counts connections and has the state of the shutdown.

An action is what happens between two suspension points: a read, a write that
may block half way, a submission, a reply. `Submit` has the hand-over: the
worker may finish the job before the coroutine has suspended. `FdReady`,
`RunPending` and `ServiceStep` continue coroutines, `IdleTimer` is the watchdog,
`BeginGracefulShutdown`, `PollConnections` and `LoopExits` the shutdown. Clients
send frames, whole or in parts, ahead of the replies, hang up, or leave the send
buffer full.

### Run

`Server`: two clients; one begins transactions, sends statements that do not
parse and may hang up or stop reading; the other reads, sets options and pings.
Queues hold one job, so that rejection happens; the limit is one or two
connections, so that refusal does; two frames are sent in all, and the shutdown
may be asked for at any moment.

* `OneContinuation`: an unfinished connection has exactly one thing that will
  continue it: no wake-up is lost, no coroutine frame is resumed twice.
* `Implements`: the server implements `Conversation`, a specification without
  threads, queues and timers: a greeting, then one reply to each request, in
  turn, until the connection ends. The refinement maps the place of the
  coroutine to the state of the conversation.
* `RequestsAnswered`, `TimedOutCloses`, `ShutdownEnds` are liveness; `CleanExit`
  says that a shutdown within its grace period leaves no transaction, no job and
  no coroutine.

Fairness: weak fairness of the loop's steps, of every service thread, of
accepting and of the steps of the shutdown. Each is a thread in a loop that does
nothing else; timers of clients and their frames are not assumed. Polling for
connections is only assumed to end once none is left, so that a clean shutdown
does not rest on the deadline.

### Proofs

`ServerProofs.tla`, for any number of clients, service threads, queue lengths and
limits: `ContinuationsUnique` (`[]OneContinuation`), `ShutdownIsClean`
(`[]CleanExit`) and `ServerImplementsConversation` (`Spec => Implements`, the
refinement, step by step). The inductive invariant `ServerInv` has four parts:

* `Typed`, the types of loop, threads, connections and sockets;
* `Scheduled`: a coroutine is live exactly when it is current, watched, posted,
  being worked for or queued; no two of these at once, none twice. It says the
  same as the count in `OneContinuation`, in a form that moves with the steps;
* `Dialogue`: what a coroutine is writing, and that requests and replies differ
  by the one it owes;
* `Ordered`: the count of connections is the number of live coroutines, and what
  each stage of a shutdown implies.

The three liveness properties of the run are model checked only.

## 7. Sessions over raft

### State and actions

`RaftKV.tla` models one node: the adapter (`RaftKVStore`, `RaftKVEngine`), the
runtime that hands its calls to the raft thread of a group, and the state machine
with its table of request results. `eng[c]` is an engine (client id, next request
id, transaction, group it is bound to, slot, call under way), `slots[g]` the
write slot of a group with its two fields, `node[g]` what a restart forgets and
`disk` what it keeps. A group is `log[g]` and `chosen[g]`, the part of it that is
committed for good; `LoseLeadership`, `RemoteWrite` and `GainLeadership` are what
`Raft` allows to happen.

A statement is the sequence of engine calls `Session::execute_parsed` makes
(`Program`); each call is a step, and a call that waits for raft is several:
queued, taken, pending, then done, failed or timed out. `"plan"` is the lookup of
the schema under the slot, which binds nothing; `"nothing"` is an UPDATE or DELETE
whose condition admits no key, which takes its slot and then reads no row. Applying an entry is two
durable writes (`ApplyWrites`, `ApplySaves`) with a crash possible in between.
`Hangup` is the destructor, which runs on the loop thread and writes the slot
without a lock.

`GroupRouter.tla` is the routing: `AddRange`, `Valid`, `ParseShards`, `GroupFor`,
`RangeGroup`.

### Run

`RaftKV` starts in one of five scenarios: a transaction against a single
statement, in one group that compacts and in two that do not, with one fault (a
crash, a lost leadership, a time-out, a full queue, a connection that goes
away); a transaction that reads and writes on both sides of a shard boundary,
with `USE` and with UPDATEs that admit no key, with and without the client's leave
to read across groups; and a shorter one of these with a fault, in which planning
a statement may fail after the slot was taken. Logs of two
entries, two requests for each connection: enough for an entry to be replayed
behind a newer one of the same client.

* `StoreFollowsLog`: a key holds the value of the last entry ever applied to it,
  through crashes between the two writes and replays. Like `ReadsSeeAcknowledged`
  it says so as long as what is committed in a group writes keys of that group
  (`CommittedAtHome`): two logs that write one key have no order, and an adrift
  transaction, see below, can make them.
* `OneWriter`: one connection at most writes to a group.
* `WritersStayHome`: a transaction that has written has used one group only.
* `HomeUnlessAdrift`: an entry of a group writes keys of that group, although the
  slot is taken by the kind of statement and the writes are bound by their keys;
  unless the transaction was adrift: a statement of it had ended, before the first
  write, with a slot of a group the transaction was not bound to (`Adrift`). `USE`,
  an UPDATE or DELETE that admits no key and a planning that fails leave it so, and
  `check_group()` then accepts the keys of any other group (section 10). The history
  field `adrift` records it where a statement returns.
* `ReadsSeeAcknowledged`: a read returns nothing older than what was acknowledged
  when its barrier or its transaction began. In a deployment of several groups a
  snapshot is excepted: `BEGIN` takes no barrier there (section 10).

### Proofs

Routing and the adapter in `RaftKVProofs.tla`, the store and the reads in
`RaftReplicaProofs.tla`.

Routing: `RangeGroupExact` and `CrossingIsReal`. `range_group()` asks only for the
groups of the boundaries inside a range; for any integers as keys, any shards
`validate()` accepts and any range the answer is right in both directions.
Hypothesis: `Ordered(ranges)`, which is how `add_range()` leaves them
(`validate()` itself compares neighbours only). The argument: between two
neighbouring boundaries no shard begins or ends.

The adapter: `OneWriterTheorem`, `WritersStayHomeTheorem` and
`HomeUnlessAdriftTheorem`. They hold for any number of connections, any valid
router, any tables and any statements of the eleven kinds in any order, `USE` and
failures included. The assumption on the constants says what the bootstrap has checked of
a router, that a table is not a system key, and that `None` is different from the
values it stands beside. All three follow from one invariant, `AdapterInv`:

* `Typed`, the types, and that a half applied entry is a chosen one.
* `Locals`, for each engine by itself. `TxOk`: a transaction with writes has a
  slot, has not crossed groups and has touched just the group it is bound to.
  `Chain`: what is left of a statement is the rest of one of the programs, one
  call fitting the next. `Phase`: each call finds a transaction open or closed as
  the program expects, and outside of statements there is one only after `BEGIN`.
  `Calling`: the raft call under way belongs to the first of the calls that are
  left; a proposal is made only by a transaction with writes, to the group of its
  slot. `Home`: the group of the slot is the group of the writes, or of those that
  the rest of the statement is about to make; the exceptions are transactions that
  failed or that read across groups, which cannot commit a write, those that are
  adrift, and statements that end without a write and may become so. `Ready` is the
  same where a call is about to be carried out.
* `SlotsKept`: whoever has a slot, and is not in its destructor, has it alone; the
  store says it is held, and by nobody else. Its owner may be missing: the
  destructor of the connection before writes the slot without a lock, so the
  invariant cannot say that owner and holder agree, and does not have to.
* `HomeUnlessAdrift` itself: what the logs hold is of the group's own keys, or is
  marked.

`Chain`, `Phase` and `Calling` are there for the others: that a commit never runs
outside a transaction, and that a late answer of raft meets the operation it was
for, is not visible in the slots. A step of a connection changes its own engine
and at most one slot, so that `Locals` is proved for one engine at a time
(`Moved`, `Took`, `OnlyCalls` say which variables each kind of step touches).

The store and the reads: `StoreFollowsLogTheorem` and `ReadsSeeAcknowledgedTheorem`,
`Spec => []StoreFollowsLog` and `Spec => []ReadsSeeAcknowledged` for any connections,
router, tables, statements and bounds. Both properties have `CommittedAtHome` as
their premise, which `HomeUnlessAdriftTheorem` gives wherever no adrift transaction
has committed; without it no log alone says what a key holds. What is committed
stays (`NextLater`), so that a state at home has only such states before it
(`HomeBefore`), and it is enough to keep `ReplicaInv` from one to the next. It is
proved on top of `AdapterInv`:

* `Identified`: an entry is known by its client and request. Connections of this
  node have the client ids up to `MaxClients`, entry `i` of another leader
  `MaxClients + i`.
* `Replayed`: the table of results covers every entry that was written, except
  the last one, which a crash between the two writes may have left without; and
  it has nothing that does not come from a written entry.
* `Numbered`: the requests of an engine that are in the logs are below its next
  one, and the one it has queued is not in yet.
* `Waits`: a barrier waits for an index that is not below anything acknowledged
  when it began, and is done only when that is applied; a proposal that is
  pending or done knows the entry that has its writes.
* `Fresh`: what a read must see consists of stamps of committed entries; with one
  group a snapshot is not older than that.
* `Stampings`: so does what was acknowledged.
* `Standing`: a key holds the last of the written entries that wrote it.

`Standing` is what `StoreFollowsLog` says and is not inductive alone: a replay
after a restart begins at the boundary, and if it wrote an old entry again the
store would go back. `Replayed` and `Identified` say that it does not: whatever the
results cover is skipped, so the only entry that can be written a second time is
the last one written (`NextIsLast`), and that changes nothing. For this the results
of two clients must not be taken for each other and an engine must not reuse a
request, hence `Numbered`. `ReadsSeeAcknowledged` follows from `Standing`, `Waits`
and `Fresh`: the store is not older than the entry the barrier waited for.

## 8. A statement from its condition to its rows

### Modules

* `KeyRanges`: `KeyRange`, an interval of primary-key values with NULL, decided
  on encoded keys. A value has an even number as its key, the byte string after
  it the odd one that follows.
* `Rewriter`: conditions, three-valued evaluation, `rewrite_condition_tree()`:
  flattening, constant folding, negation, duplicates, absorption.
* `Planner`: the validator's checks of columns and values, the optimizer (ranges,
  excluded keys, the filter that remains, the decision by cost), the plan with
  its scan direction and top-N, EXPLAIN.
* `Iterators`: the iterators of both engines, the overlay of a transaction, and
  the merging iterator with all its moves.
* `Executor`: the state machine that runs a plan row by row: opening ranges,
  point lookups, pulling, filtering, sorting with the row limit, emitting,
  updating and deleting in the buffer that is being scanned, EXPLAIN ANALYZE.

### Run

`Executor` runs every statement of `MCQueries` on its table: all pairs of
conditions and their negations over primary key and another column with NULL,
`IN` and `NOT IN` lists, texts that are no numbers, deeper combinations; orders,
limits and offsets; statistics that make the optimizer choose either way;
eight tables: committed, buffered and mixed rows, removed rows, both engines.
`SelectExact` and `WritesExact` compare with a direct definition of the result on
the set of rows; `RewriteKeepsTruth` evaluates both conditions on every row that
could exist; `CursorMoves` compares each move of each iterator a plan opened with
the visible rows of its range. Four values of the key are enough for a range to
have an inside, two bounds and an outside.

Three statements about this code are restricted because the code does not keep
them in general, see section 10: conditions in which a sibling is repeated deep
inside another one are in `ExecutorNested.cfg`, different conditions that print
alike and are taken for duplicates in `ExecutorAlike.cfg` (`SameNode` compares the
texts, as the code does; the conditions of the run that print alike, `age = NULL`
and `age = 'NULL'`, are unknown on every row, the column being a number), descending scans
of the last table of a database in `ExecutorReverse.cfg`.

### Proofs

`KeyRangeProofs.tla`, for every `MaxValue` and both kinds of primary key:
`IntersectExact`, `UniteExact`, `SubtractExact`, `ComplementExact` (the operations
are those on sets of values), `ComparisonsExact` (the range of a comparison holds
what the comparison is true of, never NULL) and `ScanExact` (the flat interval
given to the engine holds the keys of the range). They rest on `ContainsByKeys`:
a non-empty range contains a value exactly when its key lies between the two
encoded bounds. What a whole condition tree becomes is recursive and stays with
TLC.

## 9. Raft's transport

### State and actions

`Wire.tla` encodes and decodes the six message types, the greeting and frames in
units (the length prefix has two, so that a read may end inside it).
`Transport.tla` has one sender and its peers: `queue` with its limit, `sender`
where the sender thread is, `out[p]` the bytes pending for a peer, its connection
and its deadline, `conns` every connection with the bytes under way and the
handler at the other end. A write may reach the peer in part and fail, or succeed
and be lost; the same bytes are then sent on the next connection, or never.
Handlers read chunks cut anywhere, refuse what they cannot decode, and post
messages to a group's service, which may refuse.

### Run

`Transport`: four scripts of up to three messages that between them use every
type, address the sender itself, an unknown group and more than the queue holds;
one fault of each kind possible at any place.

* `DeliversWhatWasSent`: the transport implements `Network`, on which `Raft`
  rests: only what was sent is delivered, to whom it was sent, field by field.
* `StreamsExact`: no handler loses its place, whatever a broken connection left.
* `AcceptedArrives`: a queued message arrives without further traffic, unless a
  connection broke after the write or the transport stops.

Fairness: the sender thread, the handlers and the passing of time (`Deadline`).
`Prompt` says that a round of the sender takes less time than the back-off; what
happens otherwise is in section 10. Deadlock is not checked: a script ends.

## 10. Where documents and code differ

Met while modelling. The first table has a configuration for each: run
`tlc -config <name>.cfg <module>` and TLC prints a behaviour that violates the
formula, which states what the quoted line says.

| Configuration, module | Formula | The code does | The repository says |
| --- | --- | --- | --- |
| RaftHardState, MCRaft | `HardStateReloads` | `save_hard_state()` (`leveldb_log_store.cpp:308-330`) writes a short record when there is no vote, and `load_hard_state()` (`:348`) refuses it: the node cannot start | `tests/test_raft/codex_check_issues.md:191` "HardState 关闭后重开仍能恢复" |
| RaftInherited, MCRaft | `InheritedEntriesAccepted` | a follower refuses entries whose term is not the request's (`raft_node.cpp:438`), so it never gets those a new leader inherited | `raft_node.cpp:262-263` the no-op "allows this leadership to commit entries inherited from a previous term" |
| RaftRevert, MCRaft | `AppliedIsStored` | after a restart `last_applied_` is behind the data, and a repeated snapshot frame passes the guard (`raft_node.cpp:572`) and reverts the store; a leader elected then lacks an acknowledged command | `raft_node.cpp:567-571` the guard is there against just that |
| KVCommit, MCKVEngine | `CommitsWhatItRead` | a range removal is expanded against the database (`leveldb_engine.cpp:556`): a key put before it in the same batch survives | `storage/kv_engine/readme.en.md:91` "`put` then `remove_range` -> deleted" |
| ServerIdle, MCServer | `OnlyIdleTimedOut` | the timer compares the sequence number it was armed with (`server.cpp:136-146`), which only the next wait changes: it fires while the statement that ended the wait is executed | `server.h:85` "每条语句 +1，让旧定时器失效" |
| RaftKVReplay, MCRaftKV | `ReplayAccepted` | only the newest request of a client is kept; the replay of an older one is an error (`leveldb_request_result_store.cpp:116`) that stops applying for good | `raft/understand.md:141,146` the results survive a restart and deduplicate the replay |
| RaftKVUse, MCRaftKV | `ProposedToOwnGroup` | `USE` in a transaction takes the slot of group 0 (`session.cpp:440-452`) and binds nothing; a write to another group is then accepted (`raft_kv_store.cpp:224-226, 628-631`) and the commit proposes its keys to the slot's group (`:564`) | `raft_kv_store.cpp:557` "Buffered writes never cross groups" |
| RaftKVNothing, MCRaftKV | `ProposedToOwnGroup` | the same through an UPDATE or DELETE whose key range is empty (`WHERE id = NULL`, `id = 1 AND id = 2`; `optimizer.cpp:186-188, 636-638`, `executor.cpp:365-379`): it takes the slot of its table's group and reads no row. A planning that fails after the slot is taken (`session.cpp:497-500`) does it too | `raft_kv_store.cpp:557`, as above |
| RaftKVInsert, MCRaftKV | `InsertNeverOverwrites` | `exists()` is false when the barrier fails (`raft_kv_store.cpp:312-324`) | `relation/table.cpp:177` INSERT does not overwrite ("**不覆盖**") |
| ExecutorNested, MCExecutor | `RewriteKeepsTruth` | absorption looks for a sibling anywhere in the other tree (`rewriter.cpp:84-94, 290, 325`): `A AND (B OR (A AND C))` becomes `A` | `rewriter.cpp:3` "等价形式" |
| ExecutorAlike, MCExecutor | `RewriteKeepsTruth` | `same_node()` (`rewriter.cpp:46-48`) compares texts, and `Value::to_string()` (`value.cpp:25-27`) prints strings unquoted: `x IN ('1, 2', 3) OR x IN (1, 2, 3)` loses its second part as a duplicate | `rewriter.cpp:44` "结构相等", `rewriter.cpp:3` "等价形式" |
| ExecutorReverse, MCExecutor | `ReverseStartsAtEnd` | a descending scan is invalid at once when no key is at or after its end (`leveldb_engine.cpp:88-94`): ORDER BY pk DESC on the last table returns nothing | `leveldb_engine.cpp:88` "反向扫描：应该从范围的末尾开始" |
| TransportSlow, MCTransport | `AcceptedArrives` | a deadline that has just passed gives a negative delay, which is taken for none (`tcp_transport.cpp:183-194`): the sender sleeps until new work | `tcp_transport.cpp:181-182` "or until the next reconnect deadline if some peer still has unsent bytes" |

Without a configuration:

* `raft/DESIGN.en.md:466` has an entry on a majority before it commits;
  `quorum_match_index()` (`raft_node.cpp:1025`) is content with half of an even
  group. Elections need one more, so acknowledged commands survive (RaftPair).
* `raft_node.cpp:535`: backing off one entry at a time can pass below a
  follower's snapshot boundary when the leader has compacted nothing; the two
  then reject and resend for ever.
* `storage/kv_engine/readme.en.md:64-68`, one writer at a time, engine-level
  calls included: with `Careful = FALSE`, `SlotAgrees` fails. A holder that also
  writes outside its transaction frees the slot in the store
  (`leveldb_engine.cpp:742`) and keeps `write_slot_`; so does `close()` to it.
* `readme.en.md:136`, repeatable read holds for write transactions: the first
  write moves the view from the snapshot to the latest data
  (`leveldb_engine.cpp:902`). What holds is `HolderViewFrozen`, from then on.
* `readme.en.md:107-108`, a scanned row and a point-read row never disagree:
  after a range removal `ScanIn` and `LookupIn` differ
  (`merging_iterator.cpp:73`: `settle()` passes range-removed keys through).
* `readme.en.md:141`, a write that finds the slot taken aborts the transaction:
  it is only refused (`Busy`, `session.cpp:451`).
* `readme.en.md:75-76`, a reader never sees a commit half applied: a SELECT of
  several ranges opens its iterators one by one (`executor.cpp:458`), which is
  why `SelectSeesOneVersion` speaks of one range.
* `relation/table.cpp:177`, INSERT never overwrites: `LevelDBStore::exists()`
  (`leveldb_engine.cpp:459`) takes a read error for "not there".
* `raft/understand.md:466` says `begin_transaction` takes one barrier per group;
  in the code `BEGIN` over several groups takes none, so its snapshot may be
  older than what was acknowledged.
* `raft_kv_store.cpp:675-677`: a proposal that timed out may still commit; the
  client's retry has a new request id and is not recognised (`DESIGN.md:554`).
* `write_slots_` (`raft_kv_store.cpp:160-177`) has no mutex; the destructor of a
  connection runs on the loop thread while the write thread uses it.
* A sharded table: `touch_table()` writes a key of another group and fails, and
  DROP TABLE cannot succeed (the comment at `session.cpp:662-663` knows it).
* `tcp_transport.cpp:252-284`: a failed greeting decrements `connected_peers_`,
  which was not incremented. `encode_frame()` has no limit, the decoder refuses
  frames above `kMaxFrameBytes`, and `send_append_entries()` batches without one.
* `key_range.h:254,272`: a literal is encoded without the type of the column, so
  that `id = '2'` on an integer key scans another range than `sql_order()`
  (`sql_truth.h:206-270`) would accept. The model has text literals on the other
  column only.
* `mock_engine.h:29-30` says that the engines agree: the mock applies a batch one
  operation after the other, and its `close()` is not refused under snapshots.
* `connection.h:78`: after an ERROR reply a client's `in_transaction_` is stale,
  and a redirect loses the option for reads across groups.

## 11. Not modelled

* The parser and its tree, the statement builder: a grammar and a translation of
  trees, without state; a checker would only enumerate texts.
* Sockets and pollers: one system call each. The model has what they can return.
* Configuration, logging, metrics, the command line and the interactive client:
  input and output.
* Byte formats of rows, keys, catalog entries, snapshots and SQL frames; types
  other than integers and texts that are no numbers.
* The recovery scan of the raft log store; membership changes, which the code
  does not have; `get_batch()` and `batch_group()`, which nothing calls.
* A server with no read threads, which runs reads on the loop thread
  (`server.cpp:454-456`).
* Liveness and the results of recursive definitions (the rewriter, the decoder)
  are model checked and not proved: both are outside the prover's reach.
