-------------------------------- MODULE Raft --------------------------------
(***************************************************************************)
(* A raft group of this database: one RaftNode per server, each driven by  *)
(* one service thread, so that a tick, a client call or a delivered        *)
(* message is one atomic step.  A node is a record; the node's private     *)
(* functions are operators from record to record that also collect what    *)
(* they send ("out") and what they complete for clients ("told").          *)
(*                                                                         *)
(* net[s][t] is what s has sent to t and t has not handled: the transport  *)
(* keeps one connection per peer, hence the order, but drops frames when   *)
(* its queue is full or a connection breaks, and sends unacknowledged ones *)
(* again after a reconnect.                                                *)
(*                                                                         *)
(* Every client command is proposed once and writes a key of its own, so   *)
(* the content of a key-value store is the set of the commands applied.    *)
(***************************************************************************)
EXTENDS Integers, FiniteSets, Sequences

CONSTANTS
    Server,         \* the members of the group (NodeConfig::peers)
    Value,          \* client commands
    Nil, NoOp,      \* "no server", and the empty entry of a new leader
    Threshold,      \* NodeConfig::snapshot_entries_threshold, 0 disables it
    Chunks,         \* chunks a serialized snapshot is cut into
    QueueLimit,     \* frames a connection takes before send() drops more
    Bound           \* how often the environment acts, how far counters go

(* Kinds of events whose number is bounded; "log" and "rounds" bound the   *)
(* length of a log and the heartbeat rounds of one leadership.             *)
Budget == {"elections", "reads", "crashes", "faults", "losses", "resends"}

ASSUME ServerAssumption == IsFiniteSet(Server) /\ Nil \notin Server
ASSUME ValueAssumption == NoOp \notin Value
ASSUME ThresholdAssumption == /\ Threshold \in Nat
                              /\ {Chunks, QueueLimit} \subseteq Nat \ {0}
ASSUME BoundAssumption == Bound \in [Budget \cup {"log", "rounds"} -> Nat]

VARIABLES
    node,           \* node[s]: the RaftNode of server s and its stores
    net,            \* net[s][t]: messages on their way from s to t
    told,           \* completions handed to clients so far
    proposed,       \* commands proposed so far
    cast,           \* ghost: <<voter, candidate, term>> of every vote
    elected,        \* ghost: <<leader, term>> of every election won
    used            \* used[b]: how much of bound b is used up

vars == <<node, net, told, proposed, cast, elected, used>>

-----------------------------------------------------------------------------
(* The state of a node. *)

Role == {"Follower", "Candidate", "Leader"}
Command == Value \cup {NoOp}
Entry == [term : Nat, value : Command]
PendingProposal == [index : Nat, value : Value]
ReadBarrier == [round : Nat, target : Nat, need : SUBSET Value]
PendingSnapshot == [index : Nat, term : Nat, buffer : Seq(SUBSET Value)]

(* The six messages of the protocol, as transport.h declares them. *)
RequestVoteRequest ==
    [type : {"RequestVote"}, term : Nat, lastIndex : Nat, lastTerm : Nat]
RequestVoteResponse ==
    [type : {"RequestVoteResponse"}, term : Nat, granted : BOOLEAN]
AppendEntriesRequest ==
    [type : {"AppendEntries"}, term : Nat, prevIndex : Nat, prevTerm : Nat,
     entries : Seq(Entry), commit : Nat, round : Nat]
AppendEntriesResponse ==
    [type : {"AppendEntriesResponse"}, term : Nat, success : BOOLEAN,
     match : Nat, round : Nat, hint : Nat]
InstallSnapshotRequest ==
    [type : {"InstallSnapshot"}, term : Nat, index : Nat, indexTerm : Nat,
     offset : Nat, done : BOOLEAN, data : SUBSET Value]
InstallSnapshotResponse ==
    [type : {"InstallSnapshotResponse"}, term : Nat, success : BOOLEAN]

Message ==
    RequestVoteRequest \cup RequestVoteResponse
      \cup AppendEntriesRequest \cup AppendEntriesResponse
      \cup InstallSnapshotRequest \cup InstallSnapshotResponse

(* What clients are told.  "command" is what was proposed at that index,   *)
(* "value" the entry applied there, "term" the term of the server telling  *)
(* it; "need" is a ghost: the commands acknowledged to some client before  *)
(* the read was asked for.                                                 *)
Applied ==
    [type : {"Applied"}, term : Nat, index : Nat, command : Value,
     value : Command]
ReadServed ==
    [type : {"ReadServed"}, need : SUBSET Value, data : SUBSET Value]

(* Durable: hard state, log, snapshot boundary, key-value data, results.   *)
(* Volatile: the rest; "out" and "told" are empty except inside a step.    *)
NodeState ==
    [id : Server,
     term : Nat, votedFor : Server \cup {Nil},
     log : Seq(Entry), snapIndex : Nat, snapTerm : Nat,
     data : SUBSET Value, results : SUBSET Value,
     up : BOOLEAN,
     role : Role, leader : Server \cup {Nil}, votes : SUBSET Server,
     commit : Nat, applied : Nat,
     next : [Server -> Nat], match : [Server -> Nat],
     round : Nat, acked : [Server -> Nat],
     pending : SUBSET PendingProposal, barriers : SUBSET ReadBarrier,
     snap : PendingSnapshot \cup {Nil},
     out : [Server -> Seq(Message)], told : SUBSET (Applied \cup ReadServed)]

(* What start() leaves in memory, given the durable part. *)
Start(n) ==
    [n EXCEPT !.up = TRUE, !.role = "Follower", !.leader = Nil, !.votes = {},
              !.commit = n.snapIndex, !.applied = n.snapIndex,
              !.next = [s \in Server |-> 1], !.match = [s \in Server |-> 0],
              !.round = 0, !.acked = [s \in Server |-> 0],
              !.pending = {}, !.barriers = {}, !.snap = Nil]

(* A server that has never run: empty stores. *)
EmptyNode(s) ==
    [id |-> s, term |-> 0, votedFor |-> Nil,
     log |-> << >>, snapIndex |-> 0, snapTerm |-> 0,
     data |-> {}, results |-> {},
     up |-> TRUE, role |-> "Follower", leader |-> Nil, votes |-> {},
     commit |-> 0, applied |-> 0,
     next |-> [t \in Server |-> 1], match |-> [t \in Server |-> 0],
     round |-> 0, acked |-> [t \in Server |-> 0],
     pending |-> {}, barriers |-> {}, snap |-> Nil,
     out |-> [t \in Server |-> << >>], told |-> {}]

Peers(n) == Server \ {n.id}

LastIndex(n) == n.snapIndex + Len(n.log)

(* LogStore::at(k) succeeds for the boundary and for the entries after it. *)
Stored(n, k) == k \in n.snapIndex .. LastIndex(n)

(* The term at(k) returns; 0 when k = 0. *)
TermAt(n, k) ==
    IF k = n.snapIndex THEN n.snapTerm ELSE n.log[k - n.snapIndex].term

LastTerm(n) == TermAt(n, LastIndex(n))

MinOf(a, b) == IF a < b THEN a ELSE b
MaxOf(a, b) == IF a < b THEN b ELSE a

HasQuorum(count) == count >= (Cardinality(Server) \div 2) + 1

LogIsUpToDateAlways(n, lastIndex, lastTerm) == TRUE             \* mutant

(* The candidate's log is at least as up to date as n's own. *)
LogIsUpToDate(n, lastIndex, lastTerm) ==
    \/ lastTerm > LastTerm(n)
    \/ lastTerm = LastTerm(n) /\ lastIndex >= LastIndex(n)

(* The matches sorted downwards, at position (size - 1) / 2: the largest   *)
(* index that this many members hold.                                      *)
QuorumMatchIndex(n) ==
    CHOOSE k \in {n.match[s] : s \in Server} :
        /\ Cardinality({s \in Server : n.match[s] >= k})
             > (Cardinality(Server) - 1) \div 2
        /\ Cardinality({s \in Server : n.match[s] > k})
             <= (Cardinality(Server) - 1) \div 2

QuorumAcknowledgedUnasked(n, round) ==                          \* mutant
    HasQuorum(1 + Cardinality({s \in Peers(n) : n.acked[s] >= 0}))

(* The node itself counts as acknowledging every round. *)
QuorumAcknowledged(n, round) ==
    HasQuorum(1 + Cardinality({s \in Peers(n) : n.acked[s] >= round}))

-----------------------------------------------------------------------------
(* Sending. *)

Send(n, to, m) == [n EXCEPT !.out[to] = Append(@, m)]

AppendEntriesTo(n, s) ==
    [type |-> "AppendEntries", term |-> n.term,
     prevIndex |-> n.next[s] - 1, prevTerm |-> TermAt(n, n.next[s] - 1),
     entries |-> SubSeq(n.log, n.next[s] - n.snapIndex, Len(n.log)),
     commit |-> n.commit, round |-> n.round]

(* KVStateMachine::snapshot(): every pair in the range of the group.       *)
Snapshot(n) == n.data

(* The blob is the current state machine, so it is labelled with applied.  *)
SnapshotOf(n) ==
    [c \in 1 .. Chunks |->
        [type |-> "InstallSnapshot", term |-> n.term,
         index |-> n.applied, indexTerm |-> TermAt(n, n.applied),
         offset |-> c - 1, done |-> c = Chunks, data |-> Snapshot(n)]]

(* send_snapshot() to every server of S.  Optimistic: a peer is taken to   *)
(* be past the snapshot once it is sent.  Without the entry that labels it *)
(* there is no snapshot.                                                   *)
SendSnapshot(n, S) ==
    IF ~Stored(n, n.applied) THEN n ELSE
    [n EXCEPT !.out = [s \in Server |-> IF s \in S THEN @[s] \o SnapshotOf(n)
                                                 ELSE @[s]],
              !.next = [s \in Server |-> IF s \in S THEN n.applied + 1
                                                  ELSE @[s]],
              !.match = [s \in Server |-> IF s \in S
                                         THEN MaxOf(@[s], n.applied)
                                         ELSE @[s]]]

(* send_append_entries() to every server of S: a peer whose next entry is  *)
(* compacted away gets the snapshot instead, one whose previous entry is   *)
(* missing gets nothing.                                                   *)
SendAppendEntries(n, S) ==
    LET behind == {s \in S : n.next[s] <= n.snapIndex}
        ready == {s \in S : Stored(n, n.next[s] - 1)}
    IN  SendSnapshot([n EXCEPT !.out = [s \in Server |->
                          IF s \in ready
                          THEN Append(@[s], AppendEntriesTo(n, s))
                          ELSE @[s]]], behind)

SendHeartbeats(n) == SendAppendEntries([n EXCEPT !.round = @ + 1], Peers(n))

-----------------------------------------------------------------------------
(* Applying and committing.  "limit" is the last index the state machine   *)
(* manages to apply in this step: the apply after it fails.                *)

EvaluateReadBarriers(n) ==
    LET ready == {b \in n.barriers : /\ QuorumAcknowledged(n, b.round)
                                     /\ n.applied >= b.target}
        served(b) == [type |-> "ReadServed", need |-> b.need, data |-> n.data]
    IN  [n EXCEPT !.barriers = @ \ ready,
                  !.told = @ \cup {served(b) : b \in ready}]

ValueAt(n, k) == n.log[k - n.snapIndex].value

(* KVStateMachine::apply() of the entries up to upto: an empty one changes *)
(* nothing.                                                                *)
AppliedCommands(n, upto) ==
    {ValueAt(n, k) : k \in n.applied + 1 .. upto} \ {NoOp}

(* apply_committed(): a command whose result is already stored is skipped, *)
(* an applied proposal is completed, an apply error fails what waits; an   *)
(* entry the log cannot return only ends the loop.                         *)
ApplyCommitted(n, limit) ==
    LET last == MinOf(n.commit, LastIndex(n))
        upto == MaxOf(n.applied, MinOf(last, limit))
        commands == AppliedCommands(n, upto)
        finished == {p \in n.pending : p.index \in n.applied + 1 .. upto}
        done(p) == [type |-> "Applied", term |-> n.term, index |-> p.index,
                    command |-> p.value, value |-> ValueAt(n, p.index)]
        r == [n EXCEPT !.applied = upto,
                       !.data = @ \cup (commands \ n.results),
                       !.results = @ \cup commands,
                       !.pending = @ \ finished,
                       !.told = @ \cup {done(p) : p \in finished}]
    IN  IF upto < last
        THEN [r EXCEPT !.pending = {p \in @ : p.index <= upto},
                       !.barriers = {}]
        ELSE IF upto < n.commit THEN r
        ELSE EvaluateReadBarriers(r)

ApplyFailed(n) == n.applied < n.commit

(* advance_commit(): only an entry of the current term is committed by     *)
(* counting replicas; the followers hear of it in a new round.             *)
AdvanceCommit(n, limit) ==
    LET k == QuorumMatchIndex(n)
        r == ApplyCommitted([n EXCEPT !.commit = k], limit)
    IN  IF k \in n.commit + 1 .. LastIndex(n) /\ TermAt(n, k) = n.term
        THEN IF ApplyFailed(r) \/ Peers(n) = {} THEN r ELSE SendHeartbeats(r)
        ELSE n

MaybeCompactKeepsBoundary(n) ==                                 \* mutant
    IF Threshold # 0 /\ Len(n.log) >= Threshold /\ n.applied > n.snapIndex
    THEN [n EXCEPT !.snapIndex = n.applied, !.snapTerm = TermAt(n, n.applied),
                   !.log = SubSeq(@, n.applied - n.snapIndex, Len(@))]
    ELSE n

(* maybe_compact_log(): only the boundary moves, the data stay as they are *)
MaybeCompact(n) ==
    IF /\ n.role # "Candidate"
       /\ Threshold # 0 /\ Len(n.log) >= Threshold
       /\ n.applied > n.snapIndex /\ Stored(n, n.applied)
    THEN [n EXCEPT !.snapIndex = n.applied, !.snapTerm = TermAt(n, n.applied),
                   !.log = SubSeq(@, n.applied - n.snapIndex + 1, Len(@))]
    ELSE n

-----------------------------------------------------------------------------
(* Changing role. *)

BecomeFollowerKeepsWaiting(n, term, leader) ==                  \* mutant
    [n EXCEPT !.term = MaxOf(@, term),
              !.votedFor = IF term > n.term THEN Nil ELSE @,
              !.role = "Follower", !.leader = leader, !.votes = {},
              !.snap = Nil]

(* become_follower(), its save_hard_state() having succeeded. *)
BecomeFollower(n, term, leader) ==
    [n EXCEPT !.term = MaxOf(@, term),
              !.votedFor = IF term > n.term THEN Nil ELSE @,
              !.role = "Follower", !.leader = leader, !.votes = {},
              !.pending = IF n.role = "Leader" THEN {} ELSE @,
              !.barriers = IF n.role = "Leader" THEN {} ELSE @,
              !.snap = Nil]

(* become_leader() up to the append of its no-op. *)
InitializeLeaderProgress(n) ==
    [n EXCEPT !.role = "Leader", !.leader = n.id,
              !.next = [s \in Server |-> LastIndex(n) + 1],
              !.match = [s \in Server |-> IF s = n.id THEN LastIndex(n) ELSE 0],
              !.acked = [s \in Server |-> 0], !.round = 0]

(* The leader appends an entry of its own term. *)
AppendOwn(n, value) ==
    [n EXCEPT !.log = Append(@, [term |-> n.term, value |-> value]),
              !.match[n.id] = LastIndex(n) + 1,
              !.next[n.id] = LastIndex(n) + 2]

BecomeLeader(n, limit) ==
    AdvanceCommit(SendHeartbeats(AppendOwn(InitializeLeaderProgress(n), NoOp)),
                  limit)

(* The no-op could not be written: step back in the same term. *)
BecomeLeaderFailed(n) ==
    BecomeFollower(InitializeLeaderProgress(n), n.term, Nil)

(* start_election() once the new hard state is on disk. *)
Campaign(n) ==
    [n EXCEPT !.role = "Candidate", !.term = @ + 1, !.votedFor = n.id,
              !.leader = Nil, !.votes = {n.id}]

RequestVotes(n) ==
    LET m == [type |-> "RequestVote", term |-> n.term,
              lastIndex |-> LastIndex(n), lastTerm |-> LastTerm(n)]
    IN  [n EXCEPT !.out = [s \in Server |-> IF s \in Peers(n)
                                            THEN Append(@[s], m) ELSE @[s]]]

-----------------------------------------------------------------------------
(* Steps. *)

Init ==
    /\ node = [s \in Server |-> EmptyNode(s)]
    /\ net = [s \in Server |-> [t \in Server |-> << >>]]
    /\ told = {} /\ proposed = {} /\ cast = {} /\ elected = {}
    /\ used = [b \in Budget |-> 0]

(* RaftTcpTransport::send(): frames that find the queue full are dropped.  *)
Enqueue(queue, frames) ==
    SubSeq(queue \o frames, 1, MinOf(QueueLimit, Len(queue) + Len(frames)))

(* Server s ends a step as n, the network being "wire" without what n      *)
(* sends.  The ghosts keep every vote and every leader.                    *)
Become(s, n, wire) ==
    /\ node' = [node EXCEPT ![s] =
                  [n EXCEPT !.out = [t \in Server |-> << >>], !.told = {}]]
    /\ net' = [wire EXCEPT ![s] = [t \in Server |-> Enqueue(@[t], n.out[t])]]
    /\ told' = told \cup n.told
    /\ cast' = IF n.votedFor = Nil THEN cast
               ELSE cast \cup {<<s, n.votedFor, n.term>>}
    /\ elected' = IF n.role = "Leader" THEN elected \cup {<<s, n.term>>}
                  ELSE elected

Spend(b) == used[b] < Bound[b] /\ used' = [used EXCEPT ![b] = @ + 1]

(* The apply limits to explore, and the price of a failing one. *)
Limits(n) ==
    IF used["faults"] < Bound["faults"] THEN n.applied .. Bound["log"]
                                        ELSE {Bound["log"]}
Charge(limit, n) ==
    IF limit = Bound["log"] THEN UNCHANGED used
    ELSE limit = n.applied /\ ApplyFailed(n) /\ Spend("faults")

-----------------------------------------------------------------------------
(* tick(): what is due comes first, then apply_committed() and             *)
(* maybe_compact_log().  Whether a deadline has passed is left open.       *)

AfterTick(n, limit) == MaybeCompact(ApplyCommitted(n, limit))

TickIdle(s) ==
    /\ node[s].up
    /\ \E limit \in Limits(node[s]) :
          LET r == AfterTick(node[s], limit)
          IN  Charge(limit, r) /\ Become(s, r, net)
    /\ UNCHANGED proposed

(* The boundary of a due compaction cannot be written. *)
TickCompactionFails(s) ==
    LET r == ApplyCommitted(node[s], Bound["log"])
    IN  /\ node[s].up
        /\ MaybeCompact(r) # r
        /\ Spend("faults")
        /\ Become(s, r, net)
        /\ UNCHANGED proposed

TickHeartbeat(s) ==
    /\ node[s].up /\ node[s].role = "Leader"
    /\ node[s].round < Bound["rounds"]
    /\ \E limit \in Limits(node[s]) :
          LET r == AfterTick(SendHeartbeats(node[s]), limit)
          IN  Charge(limit, r) /\ Become(s, r, net)
    /\ UNCHANGED proposed

MayCampaign(n) ==
    n.up /\ n.role # "Leader" /\ LastIndex(n) < Bound["log"]

TickElection(s) ==
    LET c == Campaign(node[s])
        r == AfterTick(IF HasQuorum(1) THEN BecomeLeader(c, Bound["log"])
                                       ELSE RequestVotes(c), Bound["log"])
    IN  /\ MayCampaign(node[s])
        /\ Spend("elections")
        /\ Become(s, r, net)
        /\ UNCHANGED proposed

(* The hard state of the campaign, or the no-op of a group of one, cannot  *)
(* be written.                                                             *)
TickElectionFails(s) ==
    LET unsaved == [node[s] EXCEPT !.leader = Nil]
        alone == IF HasQuorum(1) THEN {BecomeLeaderFailed(Campaign(node[s]))}
                                 ELSE {}
    IN  /\ MayCampaign(node[s])
        /\ Spend("faults")
        /\ \E n \in {unsaved} \cup alone :
              Become(s, AfterTick(n, Bound["log"]), net)
        /\ UNCHANGED proposed

-----------------------------------------------------------------------------
(* Client calls, made through the runtime on the service thread. *)

ProposeOffByOne(s, v) ==                                        \* mutant
    LET a == AppendOwn(node[s], v)
        p == [index |-> LastIndex(node[s]), value |-> v]
        n == [a EXCEPT !.pending = @ \cup {p}]
    IN  /\ node[s].up /\ node[s].role = "Leader"
        /\ v \notin proposed
        /\ LastIndex(node[s]) < Bound["log"]
        /\ \E limit \in Limits(n) :
              LET r == AdvanceCommit(n, limit)
              IN  Charge(limit, r) /\ Become(s, SendHeartbeats(r), net)
        /\ proposed' = proposed \cup {v}

Propose(s, v) ==
    LET a == AppendOwn(node[s], v)
        p == [index |-> LastIndex(a), value |-> v]
        n == [a EXCEPT !.pending = @ \cup {p}]
    IN  /\ node[s].up /\ node[s].role = "Leader"
        /\ v \notin proposed
        /\ LastIndex(node[s]) < Bound["log"]
        /\ \E limit \in Limits(n) :
              LET r == AdvanceCommit(n, limit)
              IN  Charge(limit, r) /\ Become(s, SendHeartbeats(r), net)
        /\ proposed' = proposed \cup {v}

Acknowledged == {c.command : c \in {x \in told : x.type = "Applied"}}

(* read_barrier(): remember the commit index, then start a new round. *)
ReadIndex(s) ==
    LET n == SendHeartbeats(node[s])
        b == [round |-> n.round, target |-> n.commit, need |-> Acknowledged]
    IN  /\ node[s].up /\ node[s].role = "Leader"
        /\ Spend("reads")
        /\ Become(s, EvaluateReadBarriers([n EXCEPT !.barriers = @ \cup {b}]), net)
        /\ UNCHANGED proposed

-----------------------------------------------------------------------------
(* Message handlers: s handles the oldest message from f. *)

Arrives(f, s, types) ==
    /\ net[f][s] # << >>
    /\ Head(net[f][s]).type \in types
    /\ node[s].up

(* s ends the handler of that message as n. *)
Handled(f, s, n) == Become(s, n, [net EXCEPT ![f][s] = Tail(@)])

HandleRequestVoteAgain(f, s) ==                                 \* mutant
    LET m == Head(net[f][s])
        n == IF m.term > node[s].term THEN BecomeFollower(node[s], m.term, Nil)
                                      ELSE node[s]
        granted == /\ m.term = n.term
                   /\ LogIsUpToDate(n, m.lastIndex, m.lastTerm)
        reply == [type |-> "RequestVoteResponse", term |-> n.term,
                  granted |-> granted]
    IN  /\ Arrives(f, s, {"RequestVote"})
        /\ Handled(f, s, Send([n EXCEPT !.votedFor = IF granted THEN f ELSE @],
                              f, reply))
        /\ UNCHANGED <<proposed, used>>

HandleRequestVote(f, s) ==
    LET m == Head(net[f][s])
        n == IF m.term > node[s].term THEN BecomeFollower(node[s], m.term, Nil)
                                      ELSE node[s]
        granted == /\ m.term = n.term
                   /\ n.votedFor \in {Nil, f}
                   /\ LogIsUpToDate(n, m.lastIndex, m.lastTerm)
        reply == [type |-> "RequestVoteResponse", term |-> n.term,
                  granted |-> granted]
    IN  /\ Arrives(f, s, {"RequestVote"})
        /\ Handled(f, s, Send([n EXCEPT !.votedFor = IF granted THEN f ELSE @],
                              f, reply))
        /\ UNCHANGED <<proposed, used>>

(* The new term is saved, the vote is not. *)
HandleRequestVoteFails(f, s) ==
    LET m == Head(net[f][s])
    IN  /\ Arrives(f, s, {"RequestVote"})
        /\ m.term > node[s].term
        /\ LogIsUpToDate(node[s], m.lastIndex, m.lastTerm)
        /\ Spend("faults")
        /\ Handled(f, s, BecomeFollower(node[s], m.term, Nil))
        /\ UNCHANGED proposed

LeaderResponse == {"AppendEntriesResponse", "InstallSnapshotResponse"}

(* The three response handlers begin by stepping down to a newer term. *)
HandleNewerTerm(f, s) ==
    /\ Arrives(f, s, {"RequestVoteResponse"} \cup LeaderResponse)
    /\ Head(net[f][s]).term > node[s].term
    /\ Handled(f, s, BecomeFollower(node[s], Head(net[f][s]).term, Nil))
    /\ UNCHANGED <<proposed, used>>

VoteCounts(n, m) == n.role = "Candidate" /\ m.term = n.term /\ m.granted

LeaderHears(n, m) == n.role = "Leader" /\ m.term = n.term

(* ... and ignore what answers an earlier role. *)
HandleOutdated(f, s) ==
    LET m == Head(net[f][s])
    IN  /\ \/ Arrives(f, s, {"RequestVoteResponse"}) /\ ~VoteCounts(node[s], m)
           \/ Arrives(f, s, LeaderResponse) /\ ~LeaderHears(node[s], m)
        /\ m.term <= node[s].term
        /\ Handled(f, s, node[s])
        /\ UNCHANGED <<proposed, used>>

HandleRequestVoteResponse(f, s) ==
    LET n == [node[s] EXCEPT !.votes = @ \cup {f}]
    IN  /\ Arrives(f, s, {"RequestVoteResponse"})
        /\ VoteCounts(node[s], Head(net[f][s]))
        /\ IF HasQuorum(Cardinality(n.votes))
           THEN \E limit \in Limits(n) :
                    LET r == BecomeLeader(n, limit)
                    IN  Charge(limit, r) /\ Handled(f, s, r)
           ELSE UNCHANGED used /\ Handled(f, s, n)
        /\ UNCHANGED proposed

(* The no-op of the new leader cannot be written. *)
HandleRequestVoteResponseFails(f, s) ==
    LET n == [node[s] EXCEPT !.votes = @ \cup {f}]
    IN  /\ Arrives(f, s, {"RequestVoteResponse"})
        /\ VoteCounts(node[s], Head(net[f][s]))
        /\ HasQuorum(Cardinality(n.votes))
        /\ Spend("faults")
        /\ Handled(f, s, BecomeLeaderFailed(n))
        /\ UNCHANGED proposed

-----------------------------------------------------------------------------
(* A message of the leader f of the term makes n its follower. *)
Heed(n, m, f) ==
    IF m.term > n.term \/ n.role # "Follower"
    THEN BecomeFollower(n, m.term, f)
    ELSE [n EXCEPT !.leader = f]

AppendReply(n, m, success, match, hint) ==
    [type |-> "AppendEntriesResponse", term |-> n.term, success |-> success,
     match |-> match, round |-> m.round, hint |-> hint]

(* The log check on the entry before the new ones; a compacted prefix      *)
(* cannot be verified.                                                     *)
Consistent(n, m) ==
    /\ Stored(n, m.prevIndex)
    /\ TermAt(n, m.prevIndex) = m.prevTerm

ConflictNever(n, m, j) == FALSE                                 \* mutant

(* n already holds an entry of another term where the j-th of m belongs. *)
ConflictAt(n, m, j) ==
    /\ m.prevIndex + j <= LastIndex(n)
    /\ TermAt(n, m.prevIndex + j) # m.entries[j].term

(* LogStore::truncate_suffix(): the log without the entries from "from" on. *)
TruncateSuffix(n, from) == SubSeq(n.log, 1, from - 1 - n.snapIndex)

(* The loop of handle_append_entries() over the first k entries: drop the  *)
(* suffix at the first conflict, append what is missing.                   *)
Merge(n, m, k) ==
    LET conflicts == {j \in 1 .. k : ConflictAt(n, m, j)}
        kept(p) == \A j \in conflicts : p.index < m.prevIndex + j
    IN  IF conflicts # {} \/ m.prevIndex + k > LastIndex(n)
        THEN [n EXCEPT !.log = TruncateSuffix(n, m.prevIndex + 1)
                                 \o SubSeq(m.entries, 1, k),
                       !.pending = {p \in @ : kept(p)}]
        ELSE n

(* Each entry of the loop must carry the term of the request itself. *)
OfRequestTerm(m, k) == \A j \in 1 .. k : m.entries[j].term = m.term

HandleAppendEntriesStale(f, s) ==
    LET m == Head(net[f][s])
    IN  /\ Arrives(f, s, {"AppendEntries"})
        /\ m.term < node[s].term
        /\ Handled(f, s, Send(node[s], f, AppendReply(node[s], m, FALSE, 0, 0)))
        /\ UNCHANGED <<proposed, used>>

HandleAppendEntriesInconsistent(f, s) ==
    LET m == Head(net[f][s])
        n == Heed(node[s], m, f)
    IN  /\ Arrives(f, s, {"AppendEntries"})
        /\ m.term >= node[s].term
        /\ ~Consistent(n, m)
        /\ Handled(f, s, Send(n, f, AppendReply(n, m, FALSE, 0, LastIndex(n))))
        /\ UNCHANGED <<proposed, used>>

(* An entry of an older term ends the handler with an error and no reply;  *)
(* the entries before it stay.                                             *)
HandleAppendEntriesRefused(f, s) ==
    LET m == Head(net[f][s])
        n == Heed(node[s], m, f)
    IN  /\ Arrives(f, s, {"AppendEntries"})
        /\ m.term >= node[s].term
        /\ Consistent(n, m)
        /\ \E k \in 0 .. Len(m.entries) - 1 :
              /\ OfRequestTerm(m, k) /\ ~OfRequestTerm(m, k + 1)
              /\ Handled(f, s, Merge(n, m, k))
        /\ UNCHANGED <<proposed, used>>

(* A log write fails after k entries, possibly between the truncation the  *)
(* next one calls for and its append: an error and no reply.               *)
HandleAppendEntriesFails(f, s) ==
    LET m == Head(net[f][s])
        n == Heed(node[s], m, f)
        merged(k) == Merge(n, m, k)
        truncated(k) == [merged(k) EXCEPT !.log =
                            SubSeq(@, 1, m.prevIndex + k - n.snapIndex)]
    IN  /\ Arrives(f, s, {"AppendEntries"})
        /\ m.term >= node[s].term
        /\ Consistent(n, m)
        /\ \E k \in 0 .. Len(m.entries) - 1 :
              /\ OfRequestTerm(m, k + 1)
              /\ \/ Handled(f, s, merged(k))
                 \/ /\ ConflictAt(merged(k), m, k + 1)
                    /\ Handled(f, s, truncated(k))
        /\ Spend("faults")
        /\ UNCHANGED proposed

(* The last index the request itself has verified. *)
Matched(n, m) == m.prevIndex + Len(m.entries)

HandleAppendEntries(f, s) ==
    LET m == Head(net[f][s])
        h == Heed(node[s], m, f)
        n == Merge(h, m, Len(m.entries))
        c == [n EXCEPT !.commit = IF m.commit > @
                                  THEN MinOf(m.commit, LastIndex(n)) ELSE @]
    IN  /\ Arrives(f, s, {"AppendEntries"})
        /\ m.term >= node[s].term
        /\ Consistent(h, m)
        /\ OfRequestTerm(m, Len(m.entries))
        /\ \E limit \in Limits(c) :
              LET r == ApplyCommitted(c, limit)
              IN  /\ Charge(limit, r)
                  /\ Handled(f, s, Send(r, f, AppendReply(r, m, TRUE, Matched(r, m), 0)))
        /\ UNCHANGED proposed

(* Peer f lacks entries, or does not know the new commit index. *)
NeedsMoreCommitOnly(n, was, f) == n.commit # was.commit         \* mutant
NeedsMore(n, was, f) == n.match[f] < LastIndex(n) \/ n.commit # was.commit

HandleAppendEntriesResponse(f, s) ==
    LET m == Head(net[f][s])
        n == [node[s] EXCEPT !.match[f] = MaxOf(@, m.match),
                             !.acked[f] = MaxOf(@, m.round)]
        p == [n EXCEPT !.next[f] = MaxOf(@, n.match[f] + 1)]
    IN  /\ Arrives(f, s, {"AppendEntriesResponse"})
        /\ LeaderHears(node[s], m)
        /\ m.success
        /\ \E limit \in Limits(p) :
              LET r == AdvanceCommit(p, limit)
                  e == EvaluateReadBarriers(r)
              IN  /\ Charge(limit, r)
                  /\ Handled(f, s, IF r.commit # p.commit /\ ApplyFailed(r) THEN r
                                   ELSE IF NeedsMore(e, p, f) THEN SendAppendEntries(e, {f})
                                   ELSE e)
        /\ UNCHANGED proposed

(* Back off by one entry, or send the snapshot to a peer that is entirely  *)
(* behind the compacted prefix.                                            *)
HandleAppendEntriesRejection(f, s) ==
    LET m == Head(net[f][s])
        n == node[s]
        back == [n EXCEPT !.next[f] = MaxOf(@ - 1, 1)]
    IN  /\ Arrives(f, s, {"AppendEntriesResponse"})
        /\ LeaderHears(n, m)
        /\ ~m.success
        /\ Handled(f, s, IF n.next[f] > 1 /\ m.hint < n.snapIndex
                         THEN SendSnapshot(n, {f})
                         ELSE SendAppendEntries(back, {f}))
        /\ UNCHANGED <<proposed, used>>

-----------------------------------------------------------------------------
SnapshotReply(n, success) ==
    [type |-> "InstallSnapshotResponse", term |-> n.term, success |-> success]

(* The buffer chunk m is added to: a fresh one for a first chunk, for a    *)
(* new term and when none is being assembled.                              *)
Assembling(n, m, f) ==
    LET snap == Heed(n, m, f).snap
    IN  IF m.offset = 0 \/ m.term > n.term \/ snap = Nil
        THEN [index |-> m.index, term |-> m.indexTerm, buffer |-> << >>]
        ELSE snap

FitsAnyIndex(n, m, f) ==                                        \* mutant
    /\ m.index >= n.snapIndex
    /\ Assembling(n, m, f).index = m.index
    /\ Assembling(n, m, f).term = m.indexTerm
    /\ Len(Assembling(n, m, f).buffer) = m.offset

(* The chunk is not behind what is applied, and continues the buffer. *)
Fits(n, m, f) ==
    /\ m.index >= n.applied
    /\ Assembling(n, m, f).index = m.index
    /\ Assembling(n, m, f).term = m.indexTerm
    /\ Len(Assembling(n, m, f).buffer) = m.offset

(* The chunks were all cut from one serialized state. *)
OneSnapshot(n, m, f) ==
    \A j \in 1 .. m.offset : Assembling(n, m, f).buffer[j] = m.data

HandleInstallSnapshotStale(f, s) ==
    /\ Arrives(f, s, {"InstallSnapshot"})
    /\ Head(net[f][s]).term < node[s].term
    /\ Handled(f, s, Send(node[s], f, SnapshotReply(node[s], FALSE)))
    /\ UNCHANGED <<proposed, used>>

(* A chunk behind the applied state leaves the buffer, one out of order    *)
(* drops it.                                                               *)
HandleInstallSnapshotRefused(f, s) ==
    LET m == Head(net[f][s])
        n == Heed(node[s], m, f)
        r == IF m.index < n.applied THEN n ELSE [n EXCEPT !.snap = Nil]
    IN  /\ Arrives(f, s, {"InstallSnapshot"})
        /\ m.term >= node[s].term
        /\ ~Fits(node[s], m, f)
        /\ Handled(f, s, Send(r, f, SnapshotReply(r, FALSE)))
        /\ UNCHANGED <<proposed, used>>

HandleInstallSnapshotChunk(f, s) ==
    LET m == Head(net[f][s])
        snap == [Assembling(node[s], m, f) EXCEPT !.buffer = Append(@, m.data)]
    IN  /\ Arrives(f, s, {"InstallSnapshot"})
        /\ m.term >= node[s].term
        /\ Fits(node[s], m, f)
        /\ ~m.done
        /\ Handled(f, s, [Heed(node[s], m, f) EXCEPT !.snap = snap])
        /\ UNCHANGED <<proposed, used>>

(* LogStore::install_snapshot(): entries up to the boundary are dropped,   *)
(* later ones stay whatever their term.                                    *)
InstallBoundary(n, index, term) ==
    [n EXCEPT !.log = SubSeq(@, MinOf(index - n.snapIndex, Len(@)) + 1, Len(@)),
              !.snapIndex = index, !.snapTerm = term,
              !.applied = MaxOf(@, index), !.commit = MaxOf(@, index)]

(* KVStateMachine::restore(): one batch clears the range of the group and  *)
(* writes what the snapshot holds.                                         *)
RestoredNothing(n, m) == [n EXCEPT !.snap = Nil]                \* mutant
Restored(n, m) == [n EXCEPT !.data = m.data, !.snap = Nil]

(* The last chunk: restore the data, move the boundary, complete whatever  *)
(* the snapshot covers.                                                    *)
HandleInstallSnapshot(f, s) ==
    LET m == Head(net[f][s])
        n == Restored(Heed(node[s], m, f), m)
        i == InstallBoundary(n, m.index, m.indexTerm)
        r == [i EXCEPT !.pending = {p \in @ : p.index > m.index}]
    IN  /\ Arrives(f, s, {"InstallSnapshot"})
        /\ m.term >= node[s].term
        /\ Fits(node[s], m, f)
        /\ m.done
        /\ OneSnapshot(node[s], m, f)
        /\ Handled(f, s, Send(EvaluateReadBarriers(r), f, SnapshotReply(r, TRUE)))
        /\ UNCHANGED <<proposed, used>>

(* The data cannot be restored, or the boundary cannot be written after    *)
(* they were.                                                              *)
HandleInstallSnapshotFails(f, s) ==
    LET m == Head(net[f][s])
        n == [Heed(node[s], m, f) EXCEPT !.snap = Nil]
    IN  /\ Arrives(f, s, {"InstallSnapshot"})
        /\ m.term >= node[s].term
        /\ Fits(node[s], m, f)
        /\ m.done
        /\ \E r \in {n, [n EXCEPT !.data = m.data]} :
              Handled(f, s, Send(r, f, SnapshotReply(r, FALSE)))
        /\ Spend("faults")
        /\ UNCHANGED proposed

(* After a success the rest of the log follows; a failure changes nothing. *)
HandleInstallSnapshotResponse(f, s) ==
    LET n == node[s]
    IN  /\ Arrives(f, s, {"InstallSnapshotResponse"})
        /\ LeaderHears(n, Head(net[f][s]))
        /\ Handled(f, s, IF Head(net[f][s]).success /\ n.match[f] < LastIndex(n)
                         THEN SendAppendEntries(n, {f}) ELSE n)
        /\ UNCHANGED <<proposed, used>>

-----------------------------------------------------------------------------
(* The environment. *)

(* LevelDBLogStore::load_hard_state(): a missing record reads as the empty *)
(* hard state, a record without a vote has the wrong size and is refused.  *)
HardStateLoads(n) == n.term = 0 \/ n.votedFor # Nil

(* The process of s stops; what is on its connections may go with it.      *)
Crash(s) ==
    LET broken == [f \in Server |-> [t \in Server |->
                      IF s \in {f, t} THEN << >> ELSE net[f][t]]]
    IN  /\ node[s].up
        /\ Spend("crashes")
        /\ node' = [node EXCEPT ![s] = [Start(@) EXCEPT !.up = FALSE]]
        /\ net' \in {net, broken}
        /\ UNCHANGED <<told, proposed, cast, elected>>

(* LevelDBLogStore::open() reads the boundary and the entries behind it.    *)
(* One batch moves the boundary and drops what it covers, so recovery finds *)
(* no entry that was left in front of it; then the node starts.             *)
Restart(s) ==
    /\ ~node[s].up
    /\ HardStateLoads(node[s])
    /\ node' = [node EXCEPT ![s] = Start(@)]
    /\ UNCHANGED <<net, told, proposed, cast, elected, used>>

(* A message is lost, or its handler cannot write the hard state it must   *)
(* write first and ends without having done anything.                      *)
Lose(f, s) ==
    /\ net[f][s] # << >>
    /\ Spend("losses")
    /\ net' = [net EXCEPT ![f][s] = Tail(@)]
    /\ UNCHANGED <<node, told, proposed, cast, elected>>

(* Frames sent before a reconnect are sent once more, after newer ones. *)
Resend(f, s) ==
    /\ net[f][s] # << >>
    /\ Spend("resends")
    /\ net' = [net EXCEPT ![f][s] = Append(@, Head(@))]
    /\ UNCHANGED <<node, told, proposed, cast, elected>>

-----------------------------------------------------------------------------
Handle(f, s) ==
    \/ HandleRequestVote(f, s)
    \/ HandleRequestVoteFails(f, s)
    \/ HandleNewerTerm(f, s)
    \/ HandleOutdated(f, s)
    \/ HandleRequestVoteResponse(f, s)
    \/ HandleRequestVoteResponseFails(f, s)
    \/ HandleAppendEntriesStale(f, s)
    \/ HandleAppendEntriesInconsistent(f, s)
    \/ HandleAppendEntriesRefused(f, s)
    \/ HandleAppendEntriesFails(f, s)
    \/ HandleAppendEntries(f, s)
    \/ HandleAppendEntriesResponse(f, s)
    \/ HandleAppendEntriesRejection(f, s)
    \/ HandleInstallSnapshotStale(f, s)
    \/ HandleInstallSnapshotRefused(f, s)
    \/ HandleInstallSnapshotChunk(f, s)
    \/ HandleInstallSnapshot(f, s)
    \/ HandleInstallSnapshotFails(f, s)
    \/ HandleInstallSnapshotResponse(f, s)

Next ==
    \/ \E s \in Server :
          \/ TickIdle(s)
          \/ TickCompactionFails(s)
          \/ TickHeartbeat(s)
          \/ TickElection(s)
          \/ TickElectionFails(s)
          \/ \E v \in Value : Propose(s, v)
          \/ ReadIndex(s)
          \/ Crash(s)
          \/ Restart(s)
    \/ \E f, s \in Server :
          \/ Handle(f, s)
          \/ Lose(f, s)
          \/ Resend(f, s)

Spec == Init /\ [][Next]_vars

Waiting(s) == node[s].up /\ \E f \in Server : net[f][s] # << >>

(* The runtime's loop of a server that is up keeps handling what waits for *)
(* it: weak fairness of its handlers, one of which takes any message.      *)
FairSpec ==
    /\ Spec
    /\ \A s \in Server : \/ []<>~Waiting(s)
                         \/ []<><<\E f \in Server : Handle(f, s)>>_vars

-----------------------------------------------------------------------------
(* Properties. *)

(* The type of every variable. *)
TypeOK ==
    /\ node \in [Server -> NodeState]
    /\ \A s \in Server : /\ node[s].id = s
                         /\ node[s].out = [t \in Server |-> << >>]
                         /\ node[s].told = {}
    /\ net \in [Server -> [Server -> Seq(Message)]]
    /\ told \subseteq Applied \cup ReadServed
    /\ proposed \subseteq Value
    /\ cast \subseteq Server \X Server \X Nat
    /\ elected \subseteq Server \X Nat
    /\ used \in [Budget -> Nat]

(* start_election(), handle_request_vote(): at most one server is ever the *)
(* leader of a term, whatever crashes, write errors and repeated messages  *)
(* come between one election and another.                                  *)
ElectionSafety ==
    \A e1, e2 \in elected : e1[2] = e2[2] => e1 = e2

Completed == {c \in told : c.type = "Applied"}

(* Server s has command v at index k, in its log or in its snapshot. *)
Holds(n, k, v) ==
    IF k <= n.snapIndex THEN v \in n.data
    ELSE k <= LastIndex(n) /\ n.log[k - n.snapIndex].value = v

(* advance_commit(), handle_append_entries(): two servers never commit     *)
(* different entries at one index, although a follower takes the leader's  *)
(* commit index up to its own last index and not up to what the leader     *)
(* just verified.                                                          *)
CommittedAgree ==
    \A s, t \in Server :
      \A k \in MaxOf(node[s].snapIndex, node[t].snapIndex) + 1
               .. MinOf(node[s].commit, node[t].commit) :
        node[s].log[k - node[s].snapIndex] = node[t].log[k - node[t].snapIndex]

(* log_is_up_to_date(), quorum_match_index(), has_quorum(): a command      *)
(* reported to its client as applied is held by every later leader, though *)
(* commit counts floor((n + 1) / 2) members and an election floor(n / 2)+1.*)
AcknowledgedSurvives ==
    \A c \in Completed, s \in Server :
      node[s].role = "Leader" /\ node[s].term >= c.term
        => Holds(node[s], c.index, c.command)

(* complete_applied_proposal(), fail_pending_proposals(): a client is told *)
(* "applied" only when the entry applied at the index of its proposal is   *)
(* the one it proposed, never one that replaced it.                        *)
CompletedOwnEntry == \A c \in Completed : c.command = c.value

(* read_barrier(): a read served by a leader sees every write that was     *)
(* acknowledged before the read began, by this leader or another.          *)
ReadsSeeAcknowledged ==
    \A r \in told : r.type = "ReadServed" => r.need \subseteq r.data

(* become_follower(): only a leader has clients waiting, so that nobody    *)
(* waits on a node that will never answer.                                 *)
OnlyLeadersOwe ==
    \A s \in Server :
      node[s].pending # {} \/ node[s].barriers # {} => node[s].role = "Leader"

(* kv_state_machine apply, restore: a node that has applied the index of   *)
(* an acknowledged command has that command in its store, also after       *)
(* restarts that replay the log and after snapshots.                       *)
AppliedIsStored ==
    \A c \in Completed, s \in Server :
      node[s].up /\ node[s].applied >= c.index => c.command \in node[s].data

(* handle_append_entries(): its error "same log position has different     *)
(* data in the same term" never occurs.                                    *)
SameTermSameData ==
    \A f, s \in Server : \A i \in DOMAIN net[f][s] :
      LET m == net[f][s][i]
      IN  m.type = "AppendEntries" =>
            \A j \in DOMAIN m.entries, t \in Server :
              LET k == m.prevIndex + j - node[t].snapIndex
              IN  k \in DOMAIN node[t].log
                    /\ node[t].log[k].term = m.entries[j].term
                  => node[t].log[k] = m.entries[j]

(* truncate_suffix(): no step removes or changes an entry up to the node's *)
(* own commit index; the code has no check of its own against it.          *)
CommittedStays ==
    [][\A s \in Server :
         \A k \in node'[s].snapIndex + 1 .. node[s].commit :
           /\ k <= LastIndex(node'[s])
           /\ node'[s].log[k - node'[s].snapIndex]
                = node[s].log[k - node[s].snapIndex]]_vars

(* kv_state_machine apply, restore: a command whose result is saved, which *)
(* a replay of the log therefore skips, is in the store, although a        *)
(* snapshot replaces the data of the group and leaves the results as they  *)
(* are.                                                                    *)
ResultsAreStored ==
    \A s \in Server : node[s].results \subseteq node[s].data

(* handle_append_entries_response(), send_append_entries(): under one      *)
(* leader a lost message or two delay nothing for good: every proposal is  *)
(* applied and completed, without waiting for another heartbeat.           *)
ProposalsComplete ==
    \A v \in Value : v \in proposed ~> v \in Acknowledged

-----------------------------------------------------------------------------
(* What the documents of the repository claim and the code does not keep.  *)

(* The hard state "can still be restored after close and reopen":          *)
(* save_hard_state() writes a vote-less record load_hard_state() refuses.  *)
HardStateReloads ==
    \A s \in Server : ~node[s].up => HardStateLoads(node[s])

(* The no-op lets a new leader "commit entries inherited from a previous   *)
(* term": a follower whose log matches accepts what its leader sends.      *)
InheritedEntriesAccepted ==
    \A f, s \in Server :
      LET m == Head(net[f][s])
      IN  /\ Arrives(f, s, {"AppendEntries"})
          /\ m.term >= node[s].term
          /\ Consistent(node[s], m)
          => OfRequestTerm(m, Len(m.entries))
=============================================================================
