----------------------------- MODULE RaftProofs -----------------------------
(***************************************************************************)
(* The type invariant of Raft, and that no term has two leaders.  The      *)
(* inductive invariant Inv records every vote in the ghost variable cast:  *)
(* a vote binds its voter for the term, what is in flight and what a       *)
(* candidate has counted are votes that were cast, and a quorum of them    *)
(* stands behind every leader on record.  Two quorums share a voter.       *)
(***************************************************************************)
EXTENDS Raft, FiniteSetTheorems, TLAPS

-----------------------------------------------------------------------------
(* What the functions of RaftNode do to one node: each keeps it well       *)
(* formed, and only elections and newer terms touch its vote.              *)

(* Messages that grant no vote. *)
Plain == {m \in Message : m.type = "RequestVoteResponse" => ~m.granted}

(* A well-formed node, also in the middle of a step that grants no vote:   *)
(* the log store is never asked for an entry behind its boundary.          *)
Node == {n \in NodeState : /\ n.snapIndex <= n.applied
                           /\ n.out \in [Server -> Seq(Plain)]}

(* r differs from n in nothing an election depends on. *)
SameVote(n, r) == /\ r.id = n.id /\ r.term = n.term
                  /\ r.votedFor = n.votedFor
                  /\ r.role = n.role /\ r.votes = n.votes

(* From n to r the vote of a term is bound: it is the same, or r is a      *)
(* follower of a newer term, or it stepped down with its vote.             *)
Advances(n, r) ==
    \/ SameVote(n, r)
    \/ /\ r.id = n.id /\ r.role = "Follower"
       /\ r.term >= n.term
       /\ r.term = n.term => r.votedFor = n.votedFor

(* A queue of plain messages is a queue of messages. *)
LEMMA PlainSequence ==
    ASSUME NEW out \in [Server -> Seq(Plain)]
    PROVE  out \in [Server -> Seq(Message)]
<1>1. \A m \in Plain : m \in Message
  BY DEF Plain
<1>2. \A q \in Seq(Plain) : q \in Seq(Message)
  BY <1>1
<1> QED
  BY <1>2

(* The types of the fields of a node, one by one. *)
LEMMA NodeFields ==
    ASSUME NEW n \in NodeState
    PROVE  /\ n.id \in Server /\ n.term \in Nat
           /\ n.votedFor \in Server \cup {Nil}
           /\ n.log \in Seq(Entry) /\ n.snapIndex \in Nat
           /\ n.snapTerm \in Nat
           /\ n.data \in SUBSET Value /\ n.results \in SUBSET Value
           /\ n.up \in BOOLEAN
           /\ n.role \in Role /\ n.leader \in Server \cup {Nil}
           /\ n.votes \in SUBSET Server
           /\ n.commit \in Nat /\ n.applied \in Nat
           /\ n.next \in [Server -> Nat] /\ n.match \in [Server -> Nat]
           /\ n.round \in Nat /\ n.acked \in [Server -> Nat]
           /\ n.pending \in SUBSET PendingProposal
           /\ n.barriers \in SUBSET ReadBarrier
           /\ n.snap \in PendingSnapshot \cup {Nil}
           /\ n.out \in [Server -> Seq(Message)]
           /\ n.told \in SUBSET (Applied \cup ReadServed)
BY Zenon DEF NodeState

(* last_log_index is a natural number. *)
LEMMA LastIndexType ==
    ASSUME NEW n \in NodeState
    PROVE  LastIndex(n) \in Nat
BY NodeFields DEF LastIndex

(* LogStore::at() of a stored index returns a natural term. *)
LEMMA TermAtType ==
    ASSUME NEW n \in NodeState, NEW k, Stored(n, k)
    PROVE  TermAt(n, k) \in Nat /\ k \in Nat
<1>1. n.log \in Seq(Entry) /\ n.snapIndex \in Nat /\ n.snapTerm \in Nat
  BY NodeFields
<1>2. k \in n.snapIndex .. n.snapIndex + Len(n.log)
  BY DEF Stored, LastIndex
<1>3. CASE k = n.snapIndex
  BY <1>1, <1>3 DEF TermAt
<1>4. CASE k # n.snapIndex
  <2>1. k - n.snapIndex \in 1 .. Len(n.log) /\ k \in Nat
    BY <1>1, <1>2, <1>4
  <2>2. n.log[k - n.snapIndex] \in Entry
    BY <1>1, <2>1
  <2> QED
    BY <1>4, <2>1, <2>2 DEF TermAt, Entry
<1> QED
  BY <1>3, <1>4

(* send() of a plain message keeps a node well formed and its vote as it   *)
(* is.                                                                     *)
LEMMA SendType ==
    ASSUME NEW n \in Node, NEW to \in Server, NEW m \in Plain
    PROVE  Send(n, to, m) \in Node /\ SameVote(n, Send(n, to, m))
<1>1. n \in NodeState /\ n.out \in [Server -> Seq(Plain)] /\ m \in Message
  BY DEF Node, Plain
<1>2. [n.out EXCEPT ![to] = Append(@, m)] \in [Server -> Seq(Plain)]
  BY <1>1
<1>3. [n.out EXCEPT ![to] = Append(@, m)] \in [Server -> Seq(Message)]
  BY <1>1, NodeFields
<1>4. Send(n, to, m) \in NodeState
  BY <1>1, <1>3, Zenon DEF NodeState, Send
<1>5. /\ Send(n, to, m).snapIndex = n.snapIndex
      /\ Send(n, to, m).applied = n.applied
      /\ Send(n, to, m).out = [n.out EXCEPT ![to] = Append(@, m)]
  BY <1>1 DEF NodeState, Send
<1>6. SameVote(n, Send(n, to, m))
  BY <1>1 DEF NodeState, Send, SameVote
<1> QED
  BY <1>2, <1>4, <1>5, <1>6 DEF Node

(* send_append_entries() builds a well-formed request when the entry       *)
(* before the new ones is stored.                                          *)
LEMMA AppendEntriesToType ==
    ASSUME NEW n \in NodeState, NEW s \in Server, Stored(n, n.next[s] - 1)
    PROVE  AppendEntriesTo(n, s) \in Plain
<1>1. TermAt(n, n.next[s] - 1) \in Nat /\ n.next[s] - 1 \in Nat
  BY TermAtType
<1>2. /\ n.log \in Seq(Entry) /\ n.snapIndex \in Nat /\ n.commit \in Nat
      /\ n.next[s] \in Nat /\ n.round \in Nat /\ n.term \in Nat
  BY NodeFields
<1>3. SubSeq(n.log, n.next[s] - n.snapIndex, Len(n.log)) \in Seq(Entry)
  BY <1>1, <1>2, SMTT(30) DEF Stored
<1>4. AppendEntriesTo(n, s) \in AppendEntriesRequest
  BY <1>1, <1>2, <1>3 DEF AppendEntriesTo, AppendEntriesRequest
<1> QED
  BY <1>4 DEF Message, AppendEntriesRequest, Plain

(* send_snapshot() cuts the blob into well-formed chunks when the applied  *)
(* entry is stored.                                                        *)
LEMMA SnapshotOfType ==
    ASSUME NEW n \in NodeState, Stored(n, n.applied)
    PROVE  SnapshotOf(n) \in Seq(Plain)
<1>1. TermAt(n, n.applied) \in Nat
  BY TermAtType
<1>2. n.term \in Nat /\ n.applied \in Nat /\ n.data \in SUBSET Value
  BY NodeFields
<1>3. Chunks \in Nat
  BY ThresholdAssumption
<1>4. ASSUME NEW c \in 1 .. Chunks PROVE SnapshotOf(n)[c] \in Plain
  <2>1. SnapshotOf(n)[c] \in InstallSnapshotRequest
    <3>1. c - 1 \in Nat /\ (c = Chunks) \in BOOLEAN
      BY <1>3
    <3> QED
      BY <1>1, <1>2, <3>1 DEF SnapshotOf, Snapshot, InstallSnapshotRequest
  <2> QED
    BY <2>1 DEF Message, InstallSnapshotRequest, Plain
<1> QED
  BY <1>3, <1>4 DEF SnapshotOf

(* send_snapshot() keeps a node well formed and its vote as it is. *)
LEMMA SendSnapshotType ==
    ASSUME NEW n \in Node, NEW S
    PROVE  SendSnapshot(n, S) \in Node /\ SameVote(n, SendSnapshot(n, S))
<1>1. CASE ~Stored(n, n.applied)
  BY <1>1 DEF SendSnapshot, SameVote
<1>2. CASE Stored(n, n.applied)
  <2> DEFINE out == [s \in Server |-> IF s \in S
                        THEN n.out[s] \o SnapshotOf(n) ELSE n.out[s]]
             next == [s \in Server |-> IF s \in S THEN n.applied + 1
                                                  ELSE n.next[s]]
             match == [s \in Server |-> IF s \in S
                         THEN MaxOf(n.match[s], n.applied) ELSE n.match[s]]
  <2>1. n \in NodeState /\ n.out \in [Server -> Seq(Plain)]
    BY DEF Node
  <2>2. SnapshotOf(n) \in Seq(Plain)
    BY <1>2, <2>1, SnapshotOfType
  <2>3. out \in [Server -> Seq(Plain)]
    BY <2>1, <2>2
  <2>4. out \in [Server -> Seq(Message)]
    BY <2>3, PlainSequence
  <2>5. next \in [Server -> Nat] /\ match \in [Server -> Nat]
    BY <2>1, NodeFields DEF MaxOf
  <2>6. SendSnapshot(n, S) = [n EXCEPT !.out = out, !.next = next,
                                       !.match = match]
    BY <1>2 DEF SendSnapshot
  <2> HIDE DEF out, next, match
  <2>7. SendSnapshot(n, S) \in NodeState
    BY <2>1, <2>4, <2>5, <2>6, ZenonT(40) DEF NodeState
  <2>8. /\ SendSnapshot(n, S).snapIndex = n.snapIndex
        /\ SendSnapshot(n, S).applied = n.applied
        /\ SendSnapshot(n, S).out = out
        /\ SameVote(n, SendSnapshot(n, S))
    BY <2>1, <2>6 DEF NodeState, SameVote
  <2> QED
    BY <2>3, <2>7, <2>8 DEF Node
<1> QED
  BY <1>1, <1>2

(* send_append_entries() keeps a node well formed and its vote as it is. *)
LEMMA SendAppendEntriesType ==
    ASSUME NEW n \in Node, NEW S
    PROVE  /\ SendAppendEntries(n, S) \in Node
           /\ SameVote(n, SendAppendEntries(n, S))
<1> DEFINE ready == {s \in S : Stored(n, n.next[s] - 1)}
           behind == {s \in S : n.next[s] <= n.snapIndex}
           out == [s \in Server |-> IF s \in ready
                     THEN Append(n.out[s], AppendEntriesTo(n, s))
                     ELSE n.out[s]]
           a == [n EXCEPT !.out = out]
<1>1. n \in NodeState /\ n.out \in [Server -> Seq(Plain)]
  BY DEF Node
<1>2. out \in [Server -> Seq(Plain)]
  <2>1. ASSUME NEW s \in Server PROVE out[s] \in Seq(Plain)
    <3>1. CASE s \in ready
      <4>1. AppendEntriesTo(n, s) \in Plain
        BY <1>1, <3>1, AppendEntriesToType
      <4> QED
        BY <1>1, <3>1, <4>1
    <3> QED
      BY <1>1, <3>1
  <2> QED
    BY <2>1
<1>3. SendAppendEntries(n, S) = SendSnapshot(a, behind)
  BY DEF SendAppendEntries
<1> HIDE DEF ready, behind, out
<1>4. out \in [Server -> Seq(Message)]
  BY <1>2, PlainSequence
<1>5. a \in NodeState
  BY <1>1, <1>4, Zenon DEF NodeState
<1>6. /\ a.snapIndex = n.snapIndex /\ a.applied = n.applied /\ a.out = out
      /\ SameVote(n, a)
  BY <1>1 DEF NodeState, SameVote
<1>7. a \in Node
  BY <1>2, <1>5, <1>6 DEF Node
<1> HIDE DEF a
<1> QED
  BY <1>3, <1>6, <1>7, SendSnapshotType DEF SameVote

(* send_heartbeats() keeps a node well formed and its vote as it is. *)
LEMMA SendHeartbeatsType ==
    ASSUME NEW n \in Node
    PROVE  SendHeartbeats(n) \in Node /\ SameVote(n, SendHeartbeats(n))
<1> DEFINE a == [n EXCEPT !.round = @ + 1]
<1>1. n \in NodeState
  BY DEF Node
<1>2. a \in NodeState
  <2>1. n.round + 1 \in Nat
    BY <1>1, NodeFields
  <2> QED
    BY <1>1, <2>1, Zenon DEF NodeState
<1>3. /\ a.snapIndex = n.snapIndex /\ a.applied = n.applied
      /\ a.out = n.out /\ SameVote(n, a)
  BY <1>1 DEF NodeState, SameVote
<1>4. a \in Node
  BY <1>2, <1>3 DEF Node
<1> QED
  BY <1>3, <1>4, SendAppendEntriesType DEF SendHeartbeats, SameVote

(* evaluate_read_barriers() keeps a node well formed, its vote and its     *)
(* indexes as they are.                                                    *)
LEMMA EvaluateReadBarriersType ==
    ASSUME NEW n \in Node
    PROVE  /\ EvaluateReadBarriers(n) \in Node
           /\ SameVote(n, EvaluateReadBarriers(n))
           /\ EvaluateReadBarriers(n).applied = n.applied
           /\ EvaluateReadBarriers(n).commit = n.commit
<1> DEFINE ready == {b \in n.barriers : /\ QuorumAcknowledged(n, b.round)
                                        /\ n.applied >= b.target}
           served(b) == [type |-> "ReadServed", need |-> b.need,
                         data |-> n.data]
           barriers == n.barriers \ ready
           answers == n.told \cup {served(b) : b \in ready}
           r == EvaluateReadBarriers(n)
<1>1. n \in NodeState
  BY DEF Node
<1>2. \A b \in ready : served(b) \in ReadServed
  BY <1>1, NodeFields DEF ReadServed, ReadBarrier
<1>3. answers \in SUBSET (Applied \cup ReadServed)
  BY <1>1, <1>2, NodeFields
<1>4. barriers \in SUBSET ReadBarrier
  BY <1>1, NodeFields
<1>5. r = [n EXCEPT !.barriers = barriers, !.told = answers]
  BY DEF EvaluateReadBarriers
<1> HIDE DEF ready, barriers, answers, r
<1>6. r \in NodeState
  BY <1>1, <1>3, <1>4, <1>5, Zenon DEF NodeState
<1>7. /\ r.snapIndex = n.snapIndex /\ r.applied = n.applied
      /\ r.commit = n.commit /\ r.out = n.out /\ SameVote(n, r)
  BY <1>1, <1>5 DEF NodeState, SameVote
<1> QED
  BY <1>6, <1>7 DEF Node, r

(* n after the loop of apply_committed() has run up to the index upto. *)
Executed(n, upto) ==
    LET commands == AppliedCommands(n, upto)
        finished == {p \in n.pending : p.index \in n.applied + 1 .. upto}
        done(p) == [type |-> "Applied", term |-> n.term, index |-> p.index,
                    command |-> p.value, value |-> ValueAt(n, p.index)]
    IN  [n EXCEPT !.applied = upto,
                  !.data = @ \cup (commands \ n.results),
                  !.results = @ \cup commands,
                  !.pending = @ \ finished,
                  !.told = @ \cup {done(p) : p \in finished}]

(* apply_committed() reads only stored entries: the applied index never    *)
(* passes the end of the log nor falls below the boundary.                 *)
LEMMA ExecutedType ==
    ASSUME NEW n \in Node, NEW upto \in Nat, n.applied <= upto,
           n.applied < upto => upto <= LastIndex(n)
    PROVE  LET r == Executed(n, upto)
           IN  /\ r \in Node /\ SameVote(n, r)
               /\ r.applied = upto /\ r.commit = n.commit
               /\ r.log = n.log /\ r.snapIndex = n.snapIndex
               /\ r.snapTerm = n.snapTerm
<1> DEFINE commands == AppliedCommands(n, upto)
           finished == {p \in n.pending : p.index \in n.applied + 1 .. upto}
           done(p) == [type |-> "Applied", term |-> n.term, index |-> p.index,
                       command |-> p.value, value |-> ValueAt(n, p.index)]
           data == n.data \cup (commands \ n.results)
           results == n.results \cup commands
           pending == n.pending \ finished
           answers == n.told \cup {done(p) : p \in finished}
           r == Executed(n, upto)
<1>1. n \in NodeState /\ n.snapIndex <= n.applied
  BY DEF Node
<1>2. /\ n.log \in Seq(Entry) /\ n.snapIndex \in Nat /\ n.applied \in Nat
      /\ n.commit \in Nat /\ LastIndex(n) = n.snapIndex + Len(n.log)
  BY <1>1, NodeFields DEF LastIndex
<1>3. \A k \in n.applied + 1 .. upto : ValueAt(n, k) \in Command
  <2> SUFFICES ASSUME NEW k \in n.applied + 1 .. upto
               PROVE  ValueAt(n, k) \in Command
    OBVIOUS
  <2>1. k - n.snapIndex \in 1 .. Len(n.log)
    <3>1. Len(n.log) \in Nat /\ k \in Int
      BY <1>2
    <3>2. n.applied + 1 <= k /\ k <= upto
      BY <1>2
    <3> QED
      BY <1>1, <1>2, <3>1, <3>2
  <2>2. n.log[k - n.snapIndex] \in Entry
    BY <1>2, <2>1
  <2> QED
    BY <2>2 DEF Entry, ValueAt
<1>4. data \in SUBSET Value /\ results \in SUBSET Value
  BY <1>1, <1>3, NodeFields DEF Command, AppliedCommands
<1>5. pending \in SUBSET PendingProposal
  BY <1>1, NodeFields
<1>6. \A p \in finished : done(p) \in Applied
  <2> SUFFICES ASSUME NEW p \in finished PROVE done(p) \in Applied
    OBVIOUS
  <2>1. /\ p.index \in Nat /\ p.value \in Value /\ n.term \in Nat
        /\ p.index \in n.applied + 1 .. upto
    BY <1>1, NodeFields DEF PendingProposal
  <2>2. ValueAt(n, p.index) \in Command
    BY <1>3, <2>1
  <2> QED
    BY <2>1, <2>2 DEF Applied
<1>7. answers \in SUBSET (Applied \cup ReadServed)
  BY <1>1, <1>6, NodeFields
<1>8. r = [n EXCEPT !.applied = upto, !.data = data, !.results = results,
                    !.pending = pending, !.told = answers]
  BY DEF Executed
<1> HIDE DEF r, commands, finished, done, data, results, pending, answers
<1>9. r \in NodeState
  BY <1>1, <1>4, <1>5, <1>7, <1>8, Zenon DEF NodeState
<1>10. /\ r.snapIndex = n.snapIndex /\ r.applied = upto /\ r.out = n.out
       /\ r.commit = n.commit /\ r.log = n.log /\ r.snapTerm = n.snapTerm
       /\ SameVote(n, r)
  BY <1>1, <1>8 DEF NodeState, SameVote
<1>11. r.snapIndex <= r.applied
  BY <1>1, <1>2, <1>10
<1> QED
  BY <1>9, <1>10, <1>11 DEF Node, r

(* apply_committed() runs its loop and then fails what waits, or goes on   *)
(* to the reads.                                                           *)
LEMMA ApplyCommittedCases ==
    ASSUME NEW n \in Node, NEW limit \in Nat
    PROVE  \E upto \in Nat :
             LET r == Executed(n, upto)
                 f == [r EXCEPT !.pending = {p \in @ : p.index <= upto},
                                !.barriers = {}]
             IN  /\ n.applied <= upto
                 /\ n.applied < upto => upto <= LastIndex(n) /\ upto <= n.commit
                 /\ ApplyCommitted(n, limit) \in {f, r, EvaluateReadBarriers(r)}
<1> DEFINE last == MinOf(n.commit, LastIndex(n))
           upto == MaxOf(n.applied, MinOf(last, limit))
           r == Executed(n, upto)
           f == [r EXCEPT !.pending = {p \in @ : p.index <= upto},
                          !.barriers = {}]
<1>1. /\ n.applied \in Nat /\ n.commit \in Nat /\ LastIndex(n) \in Nat
  BY NodeFields, LastIndexType DEF Node
<1>2. last \in Nat /\ last <= LastIndex(n) /\ last <= n.commit
  BY <1>1 DEF MinOf
<1>3. ApplyCommitted(n, limit) = IF upto < last THEN f
                                 ELSE IF upto < n.commit THEN r
                                 ELSE EvaluateReadBarriers(r)
  BY DEF ApplyCommitted, Executed
<1> HIDE DEF last
<1>4. /\ upto \in Nat /\ n.applied <= upto
      /\ n.applied < upto => upto <= last
  BY <1>1, <1>2 DEF MinOf, MaxOf
<1>5. n.applied < upto => upto <= LastIndex(n) /\ upto <= n.commit
  <2> HIDE DEF upto
  <2> QED
    BY <1>1, <1>2, <1>4
<1>6. ApplyCommitted(n, limit) \in {f, r, EvaluateReadBarriers(r)}
  BY <1>3, Zenon
<1> HIDE DEF upto
<1> QED
  BY <1>4, <1>5, <1>6

(* apply_committed() keeps a node well formed and its vote as it is. *)
LEMMA ApplyCommittedType ==
    ASSUME NEW n \in Node, NEW limit \in Nat
    PROVE  /\ ApplyCommitted(n, limit) \in Node
           /\ SameVote(n, ApplyCommitted(n, limit))
<1>1. PICK upto \in Nat :
        LET r == Executed(n, upto)
            f == [r EXCEPT !.pending = {p \in @ : p.index <= upto},
                           !.barriers = {}]
        IN  /\ n.applied <= upto
            /\ n.applied < upto => upto <= LastIndex(n) /\ upto <= n.commit
            /\ ApplyCommitted(n, limit) \in {f, r, EvaluateReadBarriers(r)}
  BY ApplyCommittedCases
<1> DEFINE r == Executed(n, upto)
           pending == {p \in r.pending : p.index <= upto}
           f == [r EXCEPT !.pending = pending, !.barriers = {}]
<1>2. ApplyCommitted(n, limit) \in {f, r, EvaluateReadBarriers(r)}
  BY <1>1
<1>3. r \in Node /\ SameVote(n, r)
  BY <1>1, ExecutedType
<1> HIDE DEF r
<1>4. r \in NodeState /\ {} \in SUBSET ReadBarrier
  BY <1>3 DEF Node
<1>5. pending \in SUBSET PendingProposal
  BY <1>4, NodeFields
<1> HIDE DEF pending
<1>6. f \in NodeState
  BY <1>4, <1>5, Zenon DEF NodeState
<1>7. /\ f.snapIndex = r.snapIndex /\ f.applied = r.applied /\ f.out = r.out
      /\ SameVote(r, f)
  BY <1>4 DEF NodeState, SameVote
<1> HIDE DEF f
<1>8. f \in Node /\ SameVote(n, f)
  BY <1>3, <1>6, <1>7 DEF Node, SameVote
<1>9. /\ EvaluateReadBarriers(r) \in Node
      /\ SameVote(n, EvaluateReadBarriers(r))
  BY <1>3, EvaluateReadBarriersType DEF SameVote
<1> QED
  BY <1>2, <1>3, <1>8, <1>9

(* advance_commit() keeps a node well formed and its vote as it is. *)
LEMMA AdvanceCommitType ==
    ASSUME NEW n \in Node, NEW limit \in Nat
    PROVE  /\ AdvanceCommit(n, limit) \in Node
           /\ SameVote(n, AdvanceCommit(n, limit))
<1> DEFINE k == QuorumMatchIndex(n)
           a == [n EXCEPT !.commit = k]
           r == ApplyCommitted(a, limit)
<1>1. n \in NodeState
  BY DEF Node
<1>2. AdvanceCommit(n, limit)
        = IF k \in n.commit + 1 .. LastIndex(n) /\ TermAt(n, k) = n.term
          THEN IF ApplyFailed(r) \/ Peers(n) = {} THEN r
               ELSE SendHeartbeats(r)
          ELSE n
  BY DEF AdvanceCommit
<1> HIDE DEF k
<1>3. CASE k \in n.commit + 1 .. LastIndex(n)
  <2>1. k \in Nat
    BY <1>1, <1>3, NodeFields, LastIndexType
  <2>2. a \in NodeState
    BY <1>1, <2>1, Zenon DEF NodeState
  <2>3. /\ a.snapIndex = n.snapIndex /\ a.applied = n.applied
        /\ a.out = n.out /\ SameVote(n, a)
    BY <1>1 DEF NodeState, SameVote
  <2> HIDE DEF a
  <2>4. a \in Node
    BY <2>2, <2>3 DEF Node
  <2>5. r \in Node /\ SameVote(n, r)
    BY <2>3, <2>4, ApplyCommittedType DEF SameVote
  <2> HIDE DEF r
  <2>6. SendHeartbeats(r) \in Node /\ SameVote(n, SendHeartbeats(r))
    BY <2>5, SendHeartbeatsType DEF SameVote
  <2> QED
    BY <1>2, <2>5, <2>6 DEF SameVote
<1>4. CASE k \notin n.commit + 1 .. LastIndex(n)
  BY <1>2, <1>4 DEF SameVote
<1> QED
  BY <1>3, <1>4

(* maybe_compact_log() keeps a node well formed and its vote as it is. *)
LEMMA MaybeCompactType ==
    ASSUME NEW n \in Node
    PROVE  MaybeCompact(n) \in Node /\ SameVote(n, MaybeCompact(n))
<1> DEFINE term == TermAt(n, n.applied)
           log == SubSeq(n.log, n.applied - n.snapIndex + 1, Len(n.log))
           r == [n EXCEPT !.snapIndex = n.applied, !.snapTerm = term,
                          !.log = log]
<1>1. n \in NodeState
  BY DEF Node
<1>2. CASE n.applied > n.snapIndex /\ Stored(n, n.applied)
  <2>1. term \in Nat
    BY <1>1, <1>2, TermAtType
  <2>2. n.log \in Seq(Entry) /\ n.snapIndex \in Nat /\ n.applied \in Nat
    BY <1>1, NodeFields
  <2>3. log \in Seq(Entry)
    BY <1>2, <2>2
  <2>4. MaybeCompact(n) \in {n, r}
    BY Zenon DEF MaybeCompact
  <2> HIDE DEF term, log
  <2>5. r \in NodeState
    BY <1>1, <2>1, <2>2, <2>3, Zenon DEF NodeState
  <2>6. /\ r.snapIndex = n.applied /\ r.applied = n.applied
        /\ r.out = n.out /\ SameVote(n, r)
    BY <1>1 DEF NodeState, SameVote
  <2> HIDE DEF r
  <2>7. r.snapIndex <= r.applied
    BY <2>2, <2>6
  <2>8. r \in Node
    BY <2>5, <2>6, <2>7 DEF Node
  <2> QED
    BY <2>4, <2>6, <2>8 DEF SameVote
<1>3. CASE ~(n.applied > n.snapIndex /\ Stored(n, n.applied))
  BY <1>3 DEF MaybeCompact, SameVote
<1> QED
  BY <1>2, <1>3

(* become_follower() keeps a node well formed, never lowers its term and   *)
(* clears the vote only in a newer term.                                   *)
LEMMA BecomeFollowerType ==
    ASSUME NEW n \in Node, NEW term \in Nat, NEW leader \in Server \cup {Nil}
    PROVE  LET r == BecomeFollower(n, term, leader)
           IN  /\ r \in Node
               /\ r.id = n.id /\ r.role = "Follower"
               /\ r.term = MaxOf(n.term, term)
               /\ r.votedFor = IF term > n.term THEN Nil ELSE n.votedFor
<1> DEFINE r == BecomeFollower(n, term, leader)
           t == MaxOf(n.term, term)
           vote == IF term > n.term THEN Nil ELSE n.votedFor
           pending == IF n.role = "Leader" THEN {} ELSE n.pending
           barriers == IF n.role = "Leader" THEN {} ELSE n.barriers
<1>1. n \in NodeState
  BY DEF Node
<1>2. /\ t \in Nat /\ vote \in Server \cup {Nil}
      /\ pending \in SUBSET PendingProposal
      /\ barriers \in SUBSET ReadBarrier
  BY <1>1, NodeFields DEF MaxOf
<1>3. /\ "Follower" \in Role /\ {} \in SUBSET Server
      /\ Nil \in PendingSnapshot \cup {Nil}
  BY DEF Role
<1>4. r = [n EXCEPT !.term = t, !.votedFor = vote, !.role = "Follower",
                    !.leader = leader, !.votes = {}, !.pending = pending,
                    !.barriers = barriers, !.snap = Nil]
  BY DEF BecomeFollower
<1> HIDE DEF r, t, vote, pending, barriers
<1>5. r \in NodeState
  BY <1>1, <1>2, <1>3, <1>4, Zenon DEF NodeState
<1>6. /\ r.snapIndex = n.snapIndex /\ r.applied = n.applied /\ r.out = n.out
      /\ r.id = n.id /\ r.role = "Follower" /\ r.term = t
      /\ r.votedFor = vote
  BY <1>1, <1>4 DEF NodeState
<1>7. r \in Node
  BY <1>5, <1>6 DEF Node
<1> QED
  BY <1>6, <1>7 DEF r, t, vote

(* A leader appending an entry of its own stays well formed and keeps its  *)
(* vote.                                                                   *)
LEMMA AppendOwnType ==
    ASSUME NEW n \in Node, NEW value \in Command
    PROVE  AppendOwn(n, value) \in Node /\ SameVote(n, AppendOwn(n, value))
<1> DEFINE r == AppendOwn(n, value)
           log == Append(n.log, [term |-> n.term, value |-> value])
           match == [n.match EXCEPT ![n.id] = LastIndex(n) + 1]
           next == [n.next EXCEPT ![n.id] = LastIndex(n) + 2]
<1>1. n \in NodeState
  BY DEF Node
<1>2. [term |-> n.term, value |-> value] \in Entry
  BY <1>1, NodeFields DEF Entry
<1>3. log \in Seq(Entry)
  BY <1>1, <1>2, NodeFields
<1>4. match \in [Server -> Nat] /\ next \in [Server -> Nat]
  BY <1>1, NodeFields, LastIndexType
<1>5. r = [n EXCEPT !.log = log, !.match = match, !.next = next]
  BY DEF AppendOwn
<1> HIDE DEF r, log, match, next
<1>6. r \in NodeState
  BY <1>1, <1>3, <1>4, <1>5, Zenon DEF NodeState
<1>7. /\ r.snapIndex = n.snapIndex /\ r.applied = n.applied /\ r.out = n.out
      /\ SameVote(n, r)
  BY <1>1, <1>5 DEF NodeState, SameVote
<1> QED
  BY <1>6, <1>7 DEF Node, r

(* initialize_leader_progress() changes the role and nothing else of the   *)
(* vote.                                                                   *)
LEMMA InitializeLeaderProgressType ==
    ASSUME NEW n \in Node
    PROVE  LET r == InitializeLeaderProgress(n)
           IN  /\ r \in Node /\ r.role = "Leader"
               /\ r.id = n.id /\ r.term = n.term
               /\ r.votedFor = n.votedFor /\ r.votes = n.votes
<1> DEFINE r == InitializeLeaderProgress(n)
           next == [s \in Server |-> LastIndex(n) + 1]
           match == [s \in Server |-> IF s = n.id THEN LastIndex(n) ELSE 0]
           acked == [s \in Server |-> 0]
<1>1. n \in NodeState
  BY DEF Node
<1>2. /\ next \in [Server -> Nat] /\ match \in [Server -> Nat]
      /\ acked \in [Server -> Nat]
  BY <1>1, LastIndexType
<1>3. /\ "Leader" \in Role /\ n.id \in Server \cup {Nil} /\ 0 \in Nat
  BY <1>1, NodeFields DEF Role
<1>4. r = [n EXCEPT !.role = "Leader", !.leader = n.id, !.next = next,
                    !.match = match, !.acked = acked, !.round = 0]
  BY DEF InitializeLeaderProgress
<1> HIDE DEF r, next, match, acked
<1>5. r \in NodeState
  BY <1>1, <1>2, <1>3, <1>4, Zenon DEF NodeState
<1>6. /\ r.snapIndex = n.snapIndex /\ r.applied = n.applied /\ r.out = n.out
      /\ r.id = n.id /\ r.role = "Leader" /\ r.term = n.term
      /\ r.votedFor = n.votedFor /\ r.votes = n.votes
  BY <1>1, <1>4 DEF NodeState
<1>7. r \in Node
  BY <1>5, <1>6 DEF Node
<1> QED
  BY <1>6, <1>7 DEF r

(* become_leader() makes a well-formed leader of the same term and votes. *)
LEMMA BecomeLeaderType ==
    ASSUME NEW n \in Node, NEW limit \in Nat
    PROVE  LET r == BecomeLeader(n, limit)
           IN  /\ r \in Node /\ r.role = "Leader"
               /\ r.id = n.id /\ r.term = n.term
               /\ r.votedFor = n.votedFor /\ r.votes = n.votes
<1> DEFINE i == InitializeLeaderProgress(n)
           a == AppendOwn(i, NoOp)
           h == SendHeartbeats(a)
<1>1. /\ i \in Node /\ i.role = "Leader" /\ i.id = n.id /\ i.term = n.term
      /\ i.votedFor = n.votedFor /\ i.votes = n.votes
  BY InitializeLeaderProgressType
<1>2. NoOp \in Command
  BY DEF Command
<1> HIDE DEF i
<1>3. a \in Node /\ SameVote(i, a)
  BY <1>1, <1>2, AppendOwnType
<1> HIDE DEF a
<1>4. h \in Node /\ SameVote(a, h)
  BY <1>3, SendHeartbeatsType
<1> HIDE DEF h
<1>5. AdvanceCommit(h, limit) \in Node /\ SameVote(h, AdvanceCommit(h, limit))
  BY <1>4, AdvanceCommitType
<1>6. BecomeLeader(n, limit) = AdvanceCommit(h, limit)
  BY DEF BecomeLeader, i, a, h
<1> QED
  BY <1>1, <1>3, <1>4, <1>5, <1>6 DEF SameVote

(* become_leader() failing to write its no-op leaves a follower that keeps *)
(* its term and its vote.                                                  *)
LEMMA BecomeLeaderFailedType ==
    ASSUME NEW n \in Node
    PROVE  LET r == BecomeLeaderFailed(n)
           IN  /\ r \in Node /\ r.role = "Follower"
               /\ r.id = n.id /\ r.term = n.term
               /\ r.votedFor = n.votedFor
<1> DEFINE i == InitializeLeaderProgress(n)
<1>1. i \in Node /\ i.id = n.id /\ i.term = n.term /\ i.votedFor = n.votedFor
  BY InitializeLeaderProgressType
<1>2. n.term \in Nat
  BY NodeFields DEF Node
<1> HIDE DEF i
<1>3. BecomeLeaderFailed(n) = BecomeFollower(i, n.term, Nil)
  BY DEF BecomeLeaderFailed, i
<1>4. /\ BecomeFollower(i, n.term, Nil) \in Node
      /\ BecomeFollower(i, n.term, Nil).id = i.id
      /\ BecomeFollower(i, n.term, Nil).role = "Follower"
      /\ BecomeFollower(i, n.term, Nil).term = MaxOf(i.term, n.term)
      /\ BecomeFollower(i, n.term, Nil).votedFor
           = IF n.term > i.term THEN Nil ELSE i.votedFor
  BY <1>1, <1>2, BecomeFollowerType
<1> QED
  BY <1>1, <1>2, <1>3, <1>4 DEF MaxOf

(* Advances is transitive: what several functions do in a row binds the    *)
(* vote like one of them.                                                  *)
LEMMA AdvancesTransitive ==
    ASSUME NEW n \in Node, NEW p \in Node, NEW r \in Node,
           Advances(n, p), Advances(p, r)
    PROVE  Advances(n, r)
<1>1. n.term \in Nat /\ p.term \in Nat /\ r.term \in Nat
  BY NodeFields DEF Node
<1> QED
  BY <1>1 DEF Advances, SameVote

(* become_follower() binds the vote of an unchanged term. *)
LEMMA BecomeFollowerAdvances ==
    ASSUME NEW n \in Node, NEW term \in Nat, NEW leader \in Server \cup {Nil}
    PROVE  Advances(n, BecomeFollower(n, term, leader))
<1>1. n.term \in Nat
  BY NodeFields DEF Node
<1> QED
  BY <1>1, BecomeFollowerType DEF Advances, MaxOf

(* start_election() moves to the next term with a vote for itself. *)
LEMMA CampaignType ==
    ASSUME NEW n \in Node
    PROVE  LET r == Campaign(n)
           IN  /\ r \in Node /\ r.id = n.id /\ r.term = n.term + 1
               /\ r.votedFor = n.id /\ r.votes = {n.id}
               /\ r.role = "Candidate"
<1> DEFINE r == Campaign(n)
<1>1. n \in NodeState
  BY DEF Node
<1>2. /\ n.term + 1 \in Nat /\ n.id \in Server \cup {Nil}
      /\ Nil \in Server \cup {Nil} /\ {n.id} \in SUBSET Server
  BY <1>1, NodeFields
<1>3. "Candidate" \in Role
  BY DEF Role
<1>4. r \in NodeState
  BY <1>1, <1>2, <1>3, Zenon DEF NodeState, Campaign
<1>5. /\ r.snapIndex = n.snapIndex /\ r.applied = n.applied /\ r.out = n.out
      /\ r.id = n.id /\ r.term = n.term + 1 /\ r.votedFor = n.id
      /\ r.votes = {n.id} /\ r.role = "Candidate"
  BY <1>1 DEF NodeState, Campaign
<1> HIDE DEF r
<1>6. r \in Node
  BY <1>4, <1>5 DEF Node
<1> QED
  BY <1>5, <1>6 DEF r

(* Sending the vote requests keeps a candidate well formed and its vote as *)
(* it is.                                                                  *)
LEMMA RequestVotesType ==
    ASSUME NEW n \in Node
    PROVE  RequestVotes(n) \in Node /\ SameVote(n, RequestVotes(n))
<1> DEFINE m == [type |-> "RequestVote", term |-> n.term,
                 lastIndex |-> LastIndex(n), lastTerm |-> LastTerm(n)]
           out == [s \in Server |-> IF s \in Peers(n)
                                    THEN Append(n.out[s], m) ELSE n.out[s]]
           r == [n EXCEPT !.out = out]
<1>1. n \in NodeState /\ n.out \in [Server -> Seq(Plain)]
  BY DEF Node
<1>2. n.log \in Seq(Entry) /\ n.snapIndex \in Nat /\ n.term \in Nat
  BY <1>1, NodeFields
<1>3. LastIndex(n) \in Nat /\ Stored(n, LastIndex(n))
  BY <1>2 DEF LastIndex, Stored
<1>4. LastTerm(n) \in Nat
  BY <1>1, <1>3, TermAtType DEF LastTerm
<1>5. m \in RequestVoteRequest
  BY <1>2, <1>3, <1>4 DEF RequestVoteRequest
<1>6. m \in Plain
  BY <1>5 DEF Plain, Message, RequestVoteRequest
<1>7. RequestVotes(n) = r
  BY DEF RequestVotes
<1> HIDE DEF m
<1>8. out \in [Server -> Seq(Plain)]
  BY <1>1, <1>6
<1> HIDE DEF out
<1>9. out \in [Server -> Seq(Message)]
  BY <1>8, PlainSequence
<1>10. r \in NodeState
  BY <1>1, <1>9, Zenon DEF NodeState
<1>11. /\ r.snapIndex = n.snapIndex /\ r.applied = n.applied /\ r.out = out
       /\ SameVote(n, r)
  BY <1>1 DEF NodeState, SameVote
<1> HIDE DEF r
<1> QED
  BY <1>7, <1>8, <1>10, <1>11 DEF Node

(* The end of tick() keeps a node well formed and its vote as it is. *)
LEMMA AfterTickType ==
    ASSUME NEW n \in Node, NEW limit \in Nat
    PROVE  AfterTick(n, limit) \in Node /\ SameVote(n, AfterTick(n, limit))
<1>1. ApplyCommitted(n, limit) \in Node /\ SameVote(n, ApplyCommitted(n, limit))
  BY ApplyCommittedType
<1> QED
  BY <1>1, MaybeCompactType DEF AfterTick, SameVote

(* Heeding a leader moves neither log, boundary nor applied index, and     *)
(* binds the vote.                                                         *)
LEMMA HeedType ==
    ASSUME NEW n \in Node, NEW m, m.term \in Nat, NEW f \in Server
    PROVE  LET r == Heed(n, m, f)
           IN  r \in Node /\ Advances(n, r) /\ r.snapIndex = n.snapIndex
               /\ r.applied = n.applied /\ r.log = n.log
<1> DEFINE r == [n EXCEPT !.leader = f]
           b == BecomeFollower(n, m.term, f)
<1>1. n \in NodeState
  BY DEF Node
<1>2. r \in NodeState
  BY <1>1, Zenon DEF NodeState
<1>3. /\ r.snapIndex = n.snapIndex /\ r.applied = n.applied /\ r.out = n.out
      /\ r.log = n.log /\ SameVote(n, r)
  BY <1>1 DEF NodeState, SameVote
<1>4. /\ b \in Node /\ Advances(n, b)
  BY BecomeFollowerType, BecomeFollowerAdvances
<1>5. /\ b.snapIndex = n.snapIndex /\ b.applied = n.applied /\ b.log = n.log
  BY <1>1 DEF NodeState, BecomeFollower
<1>6. Heed(n, m, f) \in {r, b}
  BY Zenon DEF Heed
<1> HIDE DEF r, b
<1>7. r \in Node /\ Advances(n, r)
  BY <1>2, <1>3 DEF Node, Advances
<1> QED
  BY <1>3, <1>4, <1>5, <1>6, <1>7

(* The loop of handle_append_entries() keeps a node well formed, its vote  *)
(* and its boundary as they are.                                           *)
LEMMA MergeType ==
    ASSUME NEW n \in Node, NEW m \in AppendEntriesRequest,
           NEW k \in 0 .. Len(m.entries), Consistent(n, m)
    PROVE  /\ Merge(n, m, k) \in Node /\ SameVote(n, Merge(n, m, k))
           /\ Merge(n, m, k).snapIndex = n.snapIndex
<1> DEFINE conflicts == {j \in 1 .. k : ConflictAt(n, m, j)}
           kept(p) == \A j \in conflicts : p.index < m.prevIndex + j
           log == TruncateSuffix(n, m.prevIndex + 1)
                    \o SubSeq(m.entries, 1, k)
           pending == {p \in n.pending : kept(p)}
           r == [n EXCEPT !.log = log, !.pending = pending]
<1>1. n \in NodeState
  BY DEF Node
<1>2. /\ n.log \in Seq(Entry) /\ n.snapIndex \in Nat
      /\ pending \in SUBSET PendingProposal
  BY <1>1, NodeFields
<1>3. m.entries \in Seq(Entry) /\ m.prevIndex \in Nat
  BY DEF AppendEntriesRequest
<1>4. m.prevIndex - n.snapIndex \in 0 .. Len(n.log)
  BY <1>2, <1>3 DEF Consistent, Stored, LastIndex
<1>5. log \in Seq(Entry)
  BY <1>2, <1>3, <1>4 DEF TruncateSuffix
<1>6. Merge(n, m, k) \in {n, r}
  BY DEF Merge
<1> HIDE DEF conflicts, log, pending
<1>7. r \in NodeState
  BY <1>1, <1>2, <1>5, Zenon DEF NodeState
<1>8. /\ r.snapIndex = n.snapIndex /\ r.applied = n.applied /\ r.out = n.out
      /\ SameVote(n, r)
  BY <1>1 DEF NodeState, SameVote
<1> HIDE DEF r
<1>9. r \in Node
  BY <1>7, <1>8 DEF Node
<1> QED
  BY <1>6, <1>8, <1>9 DEF SameVote

(* The replies of handle_append_entries() are well formed and grant no     *)
(* vote.                                                                   *)
LEMMA AppendReplyType ==
    ASSUME NEW n \in Node, NEW m \in AppendEntriesRequest,
           NEW success \in BOOLEAN, NEW match \in Nat, NEW hint \in Nat
    PROVE  AppendReply(n, m, success, match, hint) \in Plain
<1>1. n.term \in Nat /\ m.round \in Nat
  BY NodeFields DEF Node, AppendEntriesRequest
<1>2. AppendReply(n, m, success, match, hint) \in AppendEntriesResponse
  BY <1>1 DEF AppendReply, AppendEntriesResponse
<1> QED
  BY <1>2 DEF Plain, Message, AppendEntriesResponse

(* The replies of handle_install_snapshot() are well formed and grant no   *)
(* vote.                                                                   *)
LEMMA SnapshotReplyType ==
    ASSUME NEW n \in Node, NEW success \in BOOLEAN
    PROVE  SnapshotReply(n, success) \in Plain
<1>1. n.term \in Nat
  BY NodeFields DEF Node
<1>2. SnapshotReply(n, success) \in InstallSnapshotResponse
  BY <1>1 DEF SnapshotReply, InstallSnapshotResponse
<1> QED
  BY <1>2 DEF Plain, Message, InstallSnapshotResponse

(* The type of a message tells which of the six it is. *)
LEMMA MessageOfType ==
    ASSUME NEW m \in Message
    PROVE  /\ m.term \in Nat
           /\ m.type = "RequestVote" => m \in RequestVoteRequest
           /\ m.type = "RequestVoteResponse" => m \in RequestVoteResponse
           /\ m.type = "AppendEntries" => m \in AppendEntriesRequest
           /\ m.type = "AppendEntriesResponse" => m \in AppendEntriesResponse
           /\ m.type = "InstallSnapshot" => m \in InstallSnapshotRequest
           /\ m.type = "InstallSnapshotResponse"
                => m \in InstallSnapshotResponse
<1>1. CASE m \in RequestVoteRequest
  BY <1>1 DEF RequestVoteRequest
<1>2. CASE m \in RequestVoteResponse
  BY <1>2 DEF RequestVoteResponse
<1>3. CASE m \in AppendEntriesRequest
  BY <1>3 DEF AppendEntriesRequest
<1>4. CASE m \in AppendEntriesResponse
  BY <1>4 DEF AppendEntriesResponse
<1>5. CASE m \in InstallSnapshotRequest
  BY <1>5 DEF InstallSnapshotRequest
<1>6. CASE m \in InstallSnapshotResponse
  BY <1>6 DEF InstallSnapshotResponse
<1> QED
  BY <1>1, <1>2, <1>3, <1>4, <1>5, <1>6 DEF Message

(* LogStore::install_snapshot() at or after the boundary keeps a node well *)
(* formed and its vote as it is.                                           *)
LEMMA InstallBoundaryType ==
    ASSUME NEW n \in Node, NEW index \in Nat, NEW term \in Nat,
           n.snapIndex <= index
    PROVE  /\ InstallBoundary(n, index, term) \in Node
           /\ SameVote(n, InstallBoundary(n, index, term))
<1> DEFINE r == InstallBoundary(n, index, term)
           log == SubSeq(n.log, MinOf(index - n.snapIndex, Len(n.log)) + 1,
                         Len(n.log))
           applied == MaxOf(n.applied, index)
           commit == MaxOf(n.commit, index)
<1>1. n \in NodeState
  BY DEF Node
<1>2. /\ n.log \in Seq(Entry) /\ n.snapIndex \in Nat /\ n.applied \in Nat
      /\ n.commit \in Nat
  BY <1>1, NodeFields
<1>3. MinOf(index - n.snapIndex, Len(n.log)) \in Nat
  BY <1>2 DEF MinOf
<1>4. log \in Seq(Entry)
  BY <1>2, <1>3
<1>5. applied \in Nat /\ commit \in Nat /\ index <= applied
  BY <1>2 DEF MaxOf
<1>6. r = [n EXCEPT !.log = log, !.snapIndex = index, !.snapTerm = term,
                    !.applied = applied, !.commit = commit]
  BY DEF InstallBoundary
<1> HIDE DEF r, log, applied, commit
<1>7. r \in NodeState
  BY <1>1, <1>4, <1>5, <1>6, Zenon DEF NodeState
<1>8. /\ r.snapIndex = index /\ r.applied = applied /\ r.out = n.out
      /\ SameVote(n, r)
  BY <1>1, <1>6 DEF NodeState, SameVote
<1>9. r \in Node
  BY <1>5, <1>7, <1>8 DEF Node
<1> QED
  BY <1>8, <1>9 DEF r

-----------------------------------------------------------------------------

(* The inductive form of the type invariant: what is compacted is applied. *)
TypeInv ==
    /\ TypeOK
    /\ \A s \in Server : node[s].snapIndex <= node[s].applied

(* A vote for the receiver. *)
Granted(m) == m.type = "RequestVoteResponse" /\ m.granted

(* A vote binds its voter for the whole term. *)
VotesBindTheVoter ==
    \A c \in cast : \/ c[3] < node[c[1]].term
                    \/ c[3] = node[c[1]].term /\ c[2] = node[c[1]].votedFor
(* A server votes once in a term. *)
OneVotePerTerm ==
    \A c, d \in cast : c[1] = d[1] /\ c[3] = d[3] => c = d
(* A grant on its way reports a vote that was cast. *)
GrantsAreCast ==
    \A f, s \in Server : \A i \in DOMAIN net[f][s] :
      Granted(net[f][s][i]) => <<f, s, net[f][s][i].term>> \in cast
(* A candidate or leader counts only votes that were cast for it. *)
VotesAreCast ==
    \A s \in Server : node[s].role # "Follower" =>
      \A v \in node[s].votes : <<v, s, node[s].term>> \in cast
(* Every leader is on record. *)
LeadersAreElected ==
    \A s \in Server :
      node[s].role = "Leader" => <<s, node[s].term>> \in elected
(* A quorum voted for every leader on record. *)
ElectedByQuorum ==
    \A e \in elected :
      HasQuorum(Cardinality({v \in Server : <<v, e[1], e[2]>> \in cast}))

ElectionInv ==
    /\ VotesBindTheVoter /\ OneVotePerTerm /\ GrantsAreCast
    /\ VotesAreCast /\ LeadersAreElected /\ ElectedByQuorum

Inv == TypeInv /\ ElectionInv

(* What the step of server s that ends as n must respect for the election  *)
(* invariant to survive it.                                                *)
LawfulStep(s, n) ==
    /\ n \in NodeState /\ n.id = s /\ n.snapIndex <= n.applied
    /\ n.term >= node[s].term
    /\ n.term = node[s].term /\ node[s].votedFor # Nil
         => n.votedFor = node[s].votedFor
    /\ \A t \in Server : \A i \in DOMAIN n.out[t] :
         Granted(n.out[t][i]) => n.out[t][i].term = n.term /\ n.votedFor = t
    /\ n.role # "Follower" =>
         \A v \in n.votes : \/ <<v, s, n.term>> \in cast
                            \/ v = s /\ n.votedFor = s
    /\ n.role = "Leader" => \/ <<s, n.term>> \in elected
                            \/ HasQuorum(Cardinality(n.votes))

(* The type of the network. *)
Wire == [Server -> [Server -> Seq(Message)]]
(* Every message of wire is on its way already. *)
PartOf(wire) ==
    \A f, s \in Server : \A i \in DOMAIN wire[f][s] :
      \E j \in DOMAIN net[f][s] : wire[f][s][i] = net[f][s][j]

(* Between two steps every node is well formed, with nothing half sent. *)
LEMMA NodeOfServer ==
    ASSUME TypeInv, NEW s \in Server
    PROVE  node[s] \in Node /\ node[s].id = s
<1>1. node[s] \in NodeState /\ node[s].id = s
  BY DEF TypeInv, TypeOK
<1>2. node[s].out = [t \in Server |-> << >>]
  BY DEF TypeInv, TypeOK
<1>3. [t \in Server |-> << >>] \in [Server -> Seq(Plain)]
  OBVIOUS
<1> QED
  BY <1>1, <1>2, <1>3 DEF TypeInv, Node

(* A step that binds the vote and sends no grant is lawful. *)
LEMMA AdvanceIsLawful ==
    ASSUME Inv, NEW s \in Server, NEW n \in Node, Advances(node[s], n)
    PROVE  LawfulStep(s, n)
<1>1. /\ n \in NodeState /\ n.snapIndex <= n.applied
      /\ n.out \in [Server -> Seq(Plain)]
  BY DEF Node
<1>2. node[s] \in NodeState /\ node[s].id = s
  BY DEF Inv, TypeInv, TypeOK
<1>3. n.term \in Nat /\ node[s].term \in Nat
  BY <1>1, <1>2, NodeFields
<1>4. \A t \in Server : \A i \in DOMAIN n.out[t] : ~Granted(n.out[t][i])
  <2> SUFFICES ASSUME NEW t \in Server, NEW i \in DOMAIN n.out[t]
               PROVE  ~Granted(n.out[t][i])
    OBVIOUS
  <2>1. n.out[t] \in Seq(Plain)
    BY <1>1
  <2>2. n.out[t][i] \in Plain
    BY <2>1
  <2> QED
    BY <2>2 DEF Plain, Granted
<1>5. CASE SameVote(node[s], n)
  BY <1>1, <1>2, <1>3, <1>4, <1>5
  DEF SameVote, LawfulStep, Inv, ElectionInv, VotesAreCast, LeadersAreElected
<1>6. CASE ~SameVote(node[s], n)
  BY <1>1, <1>2, <1>3, <1>4, <1>6 DEF Advances, LawfulStep
<1> QED
  BY <1>5, <1>6

(* What RaftTcpTransport::send() leaves in a queue was in it before or has *)
(* just been sent.                                                         *)
LEMMA EnqueueType ==
    ASSUME NEW queue \in Seq(Message), NEW frames \in Seq(Message)
    PROVE  /\ Enqueue(queue, frames) \in Seq(Message)
           /\ \A i \in DOMAIN Enqueue(queue, frames) :
                \/ \E j \in DOMAIN queue :
                     Enqueue(queue, frames)[i] = queue[j]
                \/ \E j \in DOMAIN frames :
                     Enqueue(queue, frames)[i] = frames[j]
<1> DEFINE all == queue \o frames
           cut == MinOf(QueueLimit, Len(queue) + Len(frames))
<1>1. QueueLimit \in Nat
  BY ThresholdAssumption
<1>2. all \in Seq(Message) /\ Len(all) = Len(queue) + Len(frames)
  OBVIOUS
<1>3. cut \in 0 .. Len(all)
  BY <1>1, <1>2 DEF MinOf
<1>4. Enqueue(queue, frames) = SubSeq(all, 1, cut)
  BY DEF Enqueue
<1>5. ASSUME NEW i \in 1 .. Len(all)
      PROVE  \/ \E j \in DOMAIN queue : all[i] = queue[j]
             \/ \E j \in DOMAIN frames : all[i] = frames[j]
  <2>1. CASE i <= Len(queue)
    BY <2>1
  <2>2. CASE i > Len(queue)
    <3>1. i - Len(queue) \in DOMAIN frames /\ all[i] = frames[i - Len(queue)]
      BY <2>2
    <3> QED
      BY <3>1
  <2> QED
    BY <2>1, <2>2
<1> HIDE DEF all, cut
<1>6. SubSeq(all, 1, cut) \in Seq(Message)
  BY <1>2, <1>3
<1>7. \A i \in DOMAIN SubSeq(all, 1, cut) :
         i \in 1 .. Len(all) /\ SubSeq(all, 1, cut)[i] = all[i]
  BY <1>2, <1>3
<1> QED
  BY <1>4, <1>5, <1>6, <1>7

(* has_quorum() holds of every larger set of servers. *)
LEMMA QuorumGrows ==
    ASSUME NEW A, NEW B \in SUBSET Server, A \subseteq B,
           HasQuorum(Cardinality(A))
    PROVE  HasQuorum(Cardinality(B))
<1>1. IsFiniteSet(Server) /\ IsFiniteSet(B)
  BY ServerAssumption, FS_Subset
<1>2. IsFiniteSet(A) /\ Cardinality(A) <= Cardinality(B)
  BY <1>1, FS_Subset
<1>3. /\ Cardinality(A) \in Nat /\ Cardinality(B) \in Nat
      /\ Cardinality(Server) \in Nat
  BY <1>1, <1>2, FS_CardinalityType
<1> QED
  BY <1>2, <1>3 DEF HasQuorum

(* A lawful step of one server preserves the invariant: the heart of the   *)
(* argument for one leader per term.                                       *)
LEMMA BecomeInv ==
    ASSUME Inv, NEW s \in Server, NEW n, LawfulStep(s, n),
           NEW wire \in Wire, PartOf(wire), Become(s, n, wire),
           proposed' \subseteq Value, used' \in [Budget -> Nat]
    PROVE  Inv'
<1> DEFINE none == [t \in Server |-> << >>]
           r == [n EXCEPT !.out = none, !.told = {}]
<1>1. /\ n \in NodeState /\ n.id = s /\ n.snapIndex <= n.applied
      /\ n.term >= node[s].term
      /\ n.term = node[s].term /\ node[s].votedFor # Nil
           => n.votedFor = node[s].votedFor
  BY DEF LawfulStep
<1>2. /\ node \in [Server -> NodeState] /\ net \in Wire
      /\ told \subseteq Applied \cup ReadServed
      /\ cast \subseteq Server \X Server \X Nat
      /\ elected \subseteq Server \X Nat
  BY DEF Inv, TypeInv, TypeOK, Wire
<1>3. /\ n.term \in Nat /\ n.votedFor \in Server \cup {Nil}
      /\ n.out \in [Server -> Seq(Message)]
      /\ n.told \in SUBSET (Applied \cup ReadServed)
      /\ n.votes \in SUBSET Server
      /\ node[s].term \in Nat
  BY <1>1, <1>2, NodeFields
<1>4. /\ node' = [node EXCEPT ![s] = r]
      /\ net' = [wire EXCEPT ![s] = [t \in Server |->
                                       Enqueue(@[t], n.out[t])]]
      /\ told' = told \cup n.told
      /\ cast' = IF n.votedFor = Nil THEN cast
                 ELSE cast \cup {<<s, n.votedFor, n.term>>}
      /\ elected' = IF n.role = "Leader" THEN elected \cup {<<s, n.term>>}
                    ELSE elected
  BY DEF Become
<1>5. r \in NodeState
  <2>1. none \in [Server -> Seq(Message)]
    OBVIOUS
  <2>2. {} \in SUBSET (Applied \cup ReadServed)
    OBVIOUS
  <2> HIDE DEF none
  <2> QED
    BY <1>1, <2>1, <2>2, Zenon DEF NodeState
<1>6. /\ r.id = s /\ r.out = none /\ r.told = {}
      /\ r.snapIndex = n.snapIndex /\ r.applied = n.applied
      /\ r.term = n.term /\ r.votedFor = n.votedFor /\ r.role = n.role
      /\ r.votes = n.votes
  <2> HIDE DEF none
  <2> QED
    BY <1>1 DEF NodeState
<1> HIDE DEF r
<1>7. /\ node'[s] = r
      /\ \A t \in Server \ {s} : node'[t] = node[t]
  BY <1>2, <1>4
<1>8. /\ net' \in Wire
      /\ \A f \in Server \ {s}, t \in Server : net'[f][t] = wire[f][t]
      /\ \A t \in Server : net'[s][t] = Enqueue(wire[s][t], n.out[t])
  <2>1. \A t \in Server : Enqueue(wire[s][t], n.out[t]) \in Seq(Message)
    <3> TAKE t \in Server
    <3>1. wire[s][t] \in Seq(Message) /\ n.out[t] \in Seq(Message)
      BY <1>3 DEF Wire
    <3> QED
      BY <3>1, EnqueueType
  <2> QED
    BY <1>4, <2>1 DEF Wire
<1>9. /\ cast \subseteq cast'
      /\ \A c \in cast' \ cast : c = <<s, n.votedFor, n.term>>
      /\ n.votedFor # Nil => <<s, n.votedFor, n.term>> \in cast'
      /\ cast' \subseteq Server \X Server \X Nat
  BY <1>2, <1>3, <1>4
<1>10. TypeInv'
  <2>1. node' \in [Server -> NodeState]
    BY <1>2, <1>4, <1>5
  <2>2. \A t \in Server : /\ node'[t].id = t
                          /\ node'[t].out = none
                          /\ node'[t].told = {}
                          /\ node'[t].snapIndex <= node'[t].applied
    <3> TAKE t \in Server
    <3>1. CASE t = s
      BY <1>1, <1>6, <1>7, <3>1
    <3>2. CASE t # s
      BY <1>7, <3>2 DEF Inv, TypeInv, TypeOK
    <3> QED
      BY <3>1, <3>2
  <2>3. told' \subseteq Applied \cup ReadServed
    BY <1>2, <1>3, <1>4
  <2>4. elected' \subseteq Server \X Nat
    BY <1>2, <1>3, <1>4
  <2> QED
    BY <1>8, <1>9, <2>1, <2>2, <2>3, <2>4 DEF TypeInv, TypeOK, Wire
<1>11. VotesBindTheVoter'
  <2> SUFFICES ASSUME NEW c \in cast'
               PROVE  \/ c[3] < node'[c[1]].term
                      \/ /\ c[3] = node'[c[1]].term
                         /\ c[2] = node'[c[1]].votedFor
    BY DEF VotesBindTheVoter
  <2>1. c[1] \in Server /\ c[2] \in Server /\ c[3] \in Nat
    BY <1>9
  <2>2. CASE c \notin cast
    BY <1>3, <1>6, <1>7, <1>9, <2>2
  <2>3. CASE c \in cast /\ c[1] # s
    BY <1>7, <2>1, <2>3 DEF Inv, ElectionInv, VotesBindTheVoter
  <2>4. CASE c \in cast /\ c[1] = s
    <3>1. \/ c[3] < node[s].term
          \/ c[3] = node[s].term /\ c[2] = node[s].votedFor
      BY <2>4 DEF Inv, ElectionInv, VotesBindTheVoter
    <3>2. c[2] # Nil
      BY <2>1, ServerAssumption
    <3> QED
      BY <1>1, <1>3, <1>6, <1>7, <2>1, <2>4, <3>1, <3>2
  <2> QED
    BY <2>2, <2>3, <2>4
<1>12. OneVotePerTerm'
  <2>1. ASSUME NEW c \in cast, c[1] = s, c[3] = n.term
        PROVE  c[2] = n.votedFor
    <3>1. \/ c[3] < node[s].term
          \/ c[3] = node[s].term /\ c[2] = node[s].votedFor
      BY <2>1 DEF Inv, ElectionInv, VotesBindTheVoter
    <3>2. c[2] # Nil
      BY <1>2, ServerAssumption
    <3> QED
      BY <1>1, <1>3, <2>1, <3>1, <3>2
  <2> SUFFICES ASSUME NEW c \in cast', NEW d \in cast',
                      c[1] = d[1], c[3] = d[3]
               PROVE  c = d
    BY DEF OneVotePerTerm
  <2>2. c \in Server \X Server \X Nat /\ d \in Server \X Server \X Nat
    BY <1>9
  <2>3. CASE c \in cast /\ d \in cast
    BY <2>3 DEF Inv, ElectionInv, OneVotePerTerm
  <2>4. CASE c \in cast /\ d \notin cast
    <3>1. d[1] = s /\ d[2] = n.votedFor /\ d[3] = n.term
      BY <1>9, <2>4
    <3>2. c[2] = n.votedFor
      BY <2>1, <2>4, <3>1
    <3> QED
      BY <2>2, <3>1, <3>2
  <2>5. CASE c \notin cast /\ d \in cast
    <3>1. c[1] = s /\ c[2] = n.votedFor /\ c[3] = n.term
      BY <1>9, <2>5
    <3>2. d[2] = n.votedFor
      <4>1. d \in cast /\ d[1] = s /\ d[3] = n.term
        BY <2>5, <3>1
      <4> QED
        BY <2>1, <4>1
    <3>3. d = <<d[1], d[2], d[3]>> /\ c = <<s, n.votedFor, n.term>>
      BY <1>9, <2>2, <2>5
    <3> QED
      BY <3>1, <3>2, <3>3
  <2>6. CASE c \notin cast /\ d \notin cast
    BY <1>9, <2>6
  <2> QED
    BY <2>3, <2>4, <2>5, <2>6
<1>13. GrantsAreCast'
  <2> SUFFICES ASSUME NEW f \in Server, NEW t \in Server,
                      NEW i \in DOMAIN net'[f][t], Granted(net'[f][t][i])
               PROVE  <<f, t, net'[f][t][i].term>> \in cast'
    BY DEF GrantsAreCast
  <2>1. ASSUME NEW j \in DOMAIN wire[f][t],
               net'[f][t][i] = wire[f][t][j]
        PROVE  <<f, t, net'[f][t][i].term>> \in cast
    <3>1. PICK k \in DOMAIN net[f][t] : wire[f][t][j] = net[f][t][k]
      BY DEF PartOf
    <3>2. Granted(net[f][t][k])
      BY <2>1, <3>1
    <3>3. <<f, t, net[f][t][k].term>> \in cast
      BY <3>2 DEF Inv, ElectionInv, GrantsAreCast
    <3> QED
      BY <2>1, <3>1, <3>3
  <2>2. CASE f # s
    BY <1>8, <1>9, <2>1, <2>2
  <2>3. CASE f = s
    <3>1. wire[s][t] \in Seq(Message) /\ n.out[t] \in Seq(Message)
      BY <1>3 DEF Wire
    <3>2. \/ \E j \in DOMAIN wire[s][t] : net'[f][t][i] = wire[s][t][j]
          \/ \E j \in DOMAIN n.out[t] : net'[f][t][i] = n.out[t][j]
      <4> DEFINE q == Enqueue(wire[s][t], n.out[t])
      <4>1. net'[f][t] = q
        BY <1>8, <2>3
      <4>2. \A k \in DOMAIN q :
              \/ \E j \in DOMAIN wire[s][t] : q[k] = wire[s][t][j]
              \/ \E j \in DOMAIN n.out[t] : q[k] = n.out[t][j]
        BY <3>1, EnqueueType
      <4> HIDE DEF q
      <4> QED
        BY <4>1, <4>2
    <3>3. CASE \E j \in DOMAIN n.out[t] : net'[f][t][i] = n.out[t][j]
      <4>1. net'[f][t][i].term = n.term /\ n.votedFor = t
        BY <3>3 DEF LawfulStep
      <4>2. t # Nil
        BY ServerAssumption
      <4> QED
        BY <1>9, <2>3, <4>1, <4>2
    <3> QED
      BY <1>9, <2>1, <2>3, <3>2, <3>3
  <2> QED
    BY <2>2, <2>3
<1>14. VotesAreCast'
  <2> SUFFICES ASSUME NEW t \in Server, node'[t].role # "Follower",
                      NEW v \in node'[t].votes
               PROVE  <<v, t, node'[t].term>> \in cast'
    BY DEF VotesAreCast
  <2>1. CASE t = s
    <3>1. <<v, s, n.term>> \in cast \/ (v = s /\ n.votedFor = s)
      BY <1>6, <1>7, <2>1 DEF LawfulStep
    <3>2. s # Nil
      BY ServerAssumption
    <3> QED
      BY <1>6, <1>7, <1>9, <2>1, <3>1, <3>2
  <2>2. CASE t # s
    BY <1>7, <1>9, <2>2 DEF Inv, ElectionInv, VotesAreCast
  <2> QED
    BY <2>1, <2>2
<1>15. LeadersAreElected'
  BY <1>4, <1>6, <1>7 DEF Inv, ElectionInv, LeadersAreElected
<1>16. ElectedByQuorum'
  <2> DEFINE Voters(e) == {v \in Server : <<v, e[1], e[2]>> \in cast'}
             Before(e) == {v \in Server : <<v, e[1], e[2]>> \in cast}
  <2>1. ASSUME NEW e \in elected PROVE HasQuorum(Cardinality(Voters(e)))
    <3>1. HasQuorum(Cardinality(Before(e)))
      BY DEF Inv, ElectionInv, ElectedByQuorum
    <3>2. Before(e) \subseteq Voters(e) /\ Voters(e) \in SUBSET Server
      BY <1>9
    <3> HIDE DEF Voters, Before
    <3> QED
      BY <3>1, <3>2, QuorumGrows
  <2>2. ASSUME NEW e \in elected', e \notin elected
        PROVE  HasQuorum(Cardinality(Voters(e)))
    <3>1. e = <<s, n.term>> /\ n.role = "Leader"
      BY <1>4, <2>2
    <3>2. HasQuorum(Cardinality(n.votes))
      BY <2>2, <3>1 DEF LawfulStep
    <3>3. n.votes \subseteq Voters(e) /\ Voters(e) \in SUBSET Server
      BY <1>3, <1>6, <1>7, <1>14, <3>1 DEF VotesAreCast
    <3> HIDE DEF Voters
    <3> QED
      BY <3>2, <3>3, QuorumGrows
  <2> QED
    BY <2>1, <2>2 DEF ElectedByQuorum
<1> QED
  BY <1>10, <1>11, <1>12, <1>13, <1>14, <1>15, <1>16 DEF Inv, ElectionInv

-----------------------------------------------------------------------------

(* The limits of apply_committed() that are explored are natural numbers. *)
LEMMA LimitsType ==
    ASSUME NEW n \in Node, NEW limit \in Limits(n)
    PROVE  limit \in Nat
<1>1. n.applied \in Nat
  BY NodeFields DEF Node
<1>2. Bound["log"] \in Nat
  BY BoundAssumption
<1> QED
  BY <1>1, <1>2 DEF Limits

(* Spending from a budget keeps the counters well typed. *)
LEMMA SpendType ==
    ASSUME used \in [Budget -> Nat], NEW b \in Budget, Spend(b)
    PROVE  used' \in [Budget -> Nat]
BY DEF Spend

(* Charging an apply error keeps the counters well typed. *)
LEMMA ChargeType ==
    ASSUME used \in [Budget -> Nat], NEW limit, NEW n, Charge(limit, n)
    PROVE  used' \in [Budget -> Nat]
<1>1. CASE limit = Bound["log"]
  BY <1>1 DEF Charge
<1>2. CASE limit # Bound["log"]
  BY <1>2, SpendType DEF Charge, Budget
<1> QED
  BY <1>1, <1>2

(* A step without a message that binds the vote preserves the invariant. *)
LEMMA OwnStepInv ==
    ASSUME Inv, NEW s \in Server, NEW n \in Node, Advances(node[s], n),
           Become(s, n, net), proposed' \subseteq Value,
           used' \in [Budget -> Nat]
    PROVE  Inv'
<1>1. LawfulStep(s, n)
  BY AdvanceIsLawful
<1>2. net \in Wire
  BY DEF Inv, TypeInv, TypeOK, Wire
<1>3. PartOf(net)
  BY DEF PartOf
<1> QED
  BY <1>1, <1>2, <1>3, BecomeInv

(* The elements of the tail of a queue are elements of the queue. *)
LEMMA TailElements ==
    ASSUME NEW q \in Seq(Message), q # << >>, NEW i \in DOMAIN Tail(q)
    PROVE  i + 1 \in DOMAIN q /\ Tail(q)[i] = q[i + 1]
<1>1. Len(Tail(q)) = Len(q) - 1 /\ Tail(q) \in Seq(Message)
  OBVIOUS
<1>2. i \in 1 .. Len(q) - 1
  BY <1>1
<1> QED
  BY <1>2

(* The oldest message of a queue is a message, and what stays was there    *)
(* before.                                                                 *)
LEMMA ArrivingMessage ==
    ASSUME Inv, NEW f \in Server, NEW s \in Server, net[f][s] # << >>
    PROVE  LET wire == [net EXCEPT ![f][s] = Tail(@)]
           IN  /\ Head(net[f][s]) \in Message
               /\ 1 \in DOMAIN net[f][s] /\ Head(net[f][s]) = net[f][s][1]
               /\ wire \in Wire /\ PartOf(wire)
<1> DEFINE wire == [net EXCEPT ![f][s] = Tail(@)]
<1>1. net \in [Server -> [Server -> Seq(Message)]]
  BY DEF Inv, TypeInv, TypeOK
<1>2. net[f][s] \in Seq(Message) /\ net[f][s] # << >>
  BY <1>1
<1>3. /\ Head(net[f][s]) \in Message
      /\ 1 \in DOMAIN net[f][s] /\ Head(net[f][s]) = net[f][s][1]
      /\ Tail(net[f][s]) \in Seq(Message)
  BY <1>2
<1>4. wire \in Wire
  BY <1>1, <1>3 DEF Wire
<1>5. PartOf(wire)
  <2> SUFFICES ASSUME NEW g \in Server, NEW t \in Server,
                      NEW i \in DOMAIN wire[g][t]
               PROVE  \E j \in DOMAIN net[g][t] : wire[g][t][i] = net[g][t][j]
    BY DEF PartOf
  <2>1. CASE g = f /\ t = s
    <3>1. wire[g][t] = Tail(net[f][s])
      BY <1>1, <2>1
    <3>2. i + 1 \in DOMAIN net[f][s] /\ Tail(net[f][s])[i] = net[f][s][i + 1]
      BY <1>2, <3>1, TailElements
    <3> QED
      BY <2>1, <3>1, <3>2
  <2>2. CASE ~(g = f /\ t = s)
    <3>1. wire[g][t] = net[g][t]
      BY <1>1, <2>2
    <3> QED
      BY <3>1
  <2> QED
    BY <2>1, <2>2
<1> QED
  BY <1>3, <1>4, <1>5

(* A lawful handler preserves the invariant. *)
LEMMA HandledInv ==
    ASSUME Inv, NEW f \in Server, NEW s \in Server, net[f][s] # << >>,
           NEW n, LawfulStep(s, n), Handled(f, s, n),
           proposed' \subseteq Value, used' \in [Budget -> Nat]
    PROVE  Inv'
<1> DEFINE wire == [net EXCEPT ![f][s] = Tail(@)]
<1>1. wire \in Wire /\ PartOf(wire)
  BY ArrivingMessage
<1>2. Become(s, n, wire)
  BY DEF Handled
<1> HIDE DEF wire
<1> QED
  BY <1>1, <1>2, BecomeInv

(* A handler that binds the vote and grants none preserves the invariant. *)
LEMMA HandledAdvance ==
    ASSUME Inv, NEW f \in Server, NEW s \in Server, net[f][s] # << >>,
           NEW n \in Node, Advances(node[s], n),
           Handled(f, s, n),
           proposed' \subseteq Value, used' \in [Budget -> Nat]
    PROVE  Inv'
<1>1. LawfulStep(s, n)
  BY AdvanceIsLawful
<1> QED
  BY <1>1, HandledInv

(* The types of the counters of the environment. *)
LEMMA Books ==
    ASSUME Inv
    PROVE  /\ proposed \subseteq Value /\ used \in [Budget -> Nat]
           /\ Bound["log"] \in Nat /\ TypeInv
BY BoundAssumption DEF Inv, TypeInv, TypeOK

(* tick() without an election preserves the invariant. *)
LEMMA TickIdleInv ==
    ASSUME Inv, NEW s \in Server, TickIdle(s) \/ TickHeartbeat(s)
    PROVE  Inv'
<1>1. node[s] \in Node
  BY Books, NodeOfServer
<1>2. PICK n \in {node[s], SendHeartbeats(node[s])},
           limit \in Limits(node[s]) :
        /\ Charge(limit, AfterTick(n, limit))
        /\ Become(s, AfterTick(n, limit), net)
  BY DEF TickIdle, TickHeartbeat
<1>3. n \in Node /\ SameVote(node[s], n)
  BY <1>1, SendHeartbeatsType DEF SameVote
<1>4. limit \in Nat
  BY <1>1, LimitsType
<1> DEFINE r == AfterTick(n, limit)
<1>5. r \in Node /\ Advances(node[s], r)
  BY <1>3, <1>4, AfterTickType DEF SameVote, Advances
<1>6. proposed' \subseteq Value
  BY Books DEF TickIdle, TickHeartbeat
<1>7. used' \in [Budget -> Nat]
  BY <1>2, Books, ChargeType
<1> HIDE DEF r
<1> QED
  BY <1>2, <1>5, <1>6, <1>7, OwnStepInv DEF r

(* tick() failing to compact preserves the invariant. *)
LEMMA TickCompactionFailsInv ==
    ASSUME Inv, NEW s \in Server, TickCompactionFails(s)
    PROVE  Inv'
<1> DEFINE r == ApplyCommitted(node[s], Bound["log"])
<1>1. node[s] \in Node
  BY Books, NodeOfServer
<1>2. r \in Node /\ Advances(node[s], r)
  BY <1>1, Books, ApplyCommittedType DEF Advances
<1>3. Become(s, r, net) /\ proposed' \subseteq Value
  BY Books DEF TickCompactionFails
<1>4. used' \in [Budget -> Nat]
  BY Books, SpendType DEF TickCompactionFails, Budget
<1> HIDE DEF r
<1> QED
  BY <1>2, <1>3, <1>4, OwnStepInv

(* start_election(), in a group of one straight to become_leader(),        *)
(* preserves the invariant.                                                *)
LEMMA TickElectionInv ==
    ASSUME Inv, NEW s \in Server, TickElection(s)
    PROVE  Inv'
<1> DEFINE c == Campaign(node[s])
           b == IF HasQuorum(1) THEN BecomeLeader(c, Bound["log"])
                                ELSE RequestVotes(c)
           r == AfterTick(b, Bound["log"])
<1>1. node[s] \in Node /\ node[s].id = s /\ node[s].term \in Nat
  BY Books, NodeOfServer, NodeFields DEF Node
<1>2. /\ c \in Node /\ c.id = s /\ c.term = node[s].term + 1
      /\ c.votedFor = s /\ c.votes = {s} /\ c.role = "Candidate"
  BY <1>1, CampaignType
<1> HIDE DEF c
<1>3. /\ b \in Node /\ b.id = s /\ b.term = c.term /\ b.votedFor = s
      /\ b.votes = {s} /\ (b.role = "Leader" => HasQuorum(1))
  <2>1. CASE HasQuorum(1)
    BY <1>2, <2>1, Books, BecomeLeaderType
  <2>2. CASE ~HasQuorum(1)
    BY <1>2, <2>2, RequestVotesType DEF SameVote
  <2> QED
    BY <2>1, <2>2
<1> HIDE DEF b
<1>4. r \in Node /\ SameVote(b, r)
  BY <1>3, Books, AfterTickType
<1>5. Become(s, r, net) /\ proposed' \subseteq Value
  BY Books DEF TickElection, r, b, c
<1>6. used' \in [Budget -> Nat]
  BY Books, SpendType DEF TickElection, Budget
<1> HIDE DEF r
<1>7. /\ r \in NodeState /\ r.id = s /\ r.snapIndex <= r.applied
      /\ r.term = node[s].term + 1 /\ r.votedFor = s /\ r.votes = {s}
      /\ (r.role = "Leader" => HasQuorum(1))
  BY <1>2, <1>3, <1>4 DEF Node, SameVote
<1>8. \A t \in Server : \A i \in DOMAIN r.out[t] : ~Granted(r.out[t][i])
  <2> SUFFICES ASSUME NEW t \in Server, NEW i \in DOMAIN r.out[t]
               PROVE  ~Granted(r.out[t][i])
    OBVIOUS
  <2>1. r.out[t] \in Seq(Plain)
    BY <1>4 DEF Node
  <2>2. r.out[t][i] \in Plain
    BY <2>1
  <2> QED
    BY <2>2 DEF Plain, Granted
<1>9. Cardinality({s}) = 1
  BY FS_Singleton
<1>10. LawfulStep(s, r)
  BY <1>1, <1>7, <1>8, <1>9 DEF LawfulStep
<1>11. net \in Wire /\ PartOf(net)
  BY DEF Inv, TypeInv, TypeOK, Wire, PartOf
<1> QED
  BY <1>5, <1>6, <1>10, <1>11, BecomeInv

(* start_election() failing to write preserves the invariant: no vote is   *)
(* cast, or it stays cast in a term nobody leads.                          *)
LEMMA TickElectionFailsInv ==
    ASSUME Inv, NEW s \in Server, TickElectionFails(s)
    PROVE  Inv'
<1> DEFINE unsaved == [node[s] EXCEPT !.leader = Nil]
           alone == BecomeLeaderFailed(Campaign(node[s]))
<1>1. /\ node[s] \in Node /\ node[s] \in NodeState /\ node[s].id = s
      /\ node[s].term \in Nat
  BY Books, NodeOfServer, NodeFields DEF Node
<1>2. unsaved \in Node /\ Advances(node[s], unsaved)
  <2>1. unsaved \in NodeState
    <3>1. Nil \in Server \cup {Nil}
      OBVIOUS
    <3> QED
      BY <1>1, <3>1, Zenon DEF NodeState
  <2>2. /\ unsaved.snapIndex = node[s].snapIndex
        /\ unsaved.applied = node[s].applied
        /\ unsaved.out = node[s].out /\ SameVote(node[s], unsaved)
    BY <1>1 DEF NodeState, SameVote
  <2> HIDE DEF unsaved
  <2> QED
    BY <1>1, <2>1, <2>2 DEF Node, Advances
<1>3. alone \in Node /\ Advances(node[s], alone)
  <2> DEFINE c == Campaign(node[s])
  <2>1. c \in Node /\ c.id = s /\ c.term = node[s].term + 1
    BY <1>1, CampaignType
  <2> HIDE DEF c
  <2>2. /\ BecomeLeaderFailed(c) \in Node
        /\ BecomeLeaderFailed(c).role = "Follower"
        /\ BecomeLeaderFailed(c).id = c.id
        /\ BecomeLeaderFailed(c).term = c.term
    BY <2>1, BecomeLeaderFailedType
  <2>3. alone = BecomeLeaderFailed(c)
    BY DEF c
  <2> HIDE DEF alone
  <2> QED
    BY <1>1, <2>1, <2>2, <2>3 DEF Advances
<1>4. PICK n \in {unsaved, alone} : Become(s, AfterTick(n, Bound["log"]), net)
  BY DEF TickElectionFails
<1> HIDE DEF unsaved, alone
<1>5. n \in Node /\ Advances(node[s], n)
  BY <1>2, <1>3, <1>4
<1> DEFINE r == AfterTick(n, Bound["log"])
<1>6. r \in Node /\ Advances(n, r)
  BY <1>5, Books, AfterTickType DEF Advances
<1>7. Become(s, r, net)
  BY <1>4
<1> HIDE DEF r
<1>8. Advances(node[s], r)
  BY <1>1, <1>5, <1>6, AdvancesTransitive
<1>9. used' \in [Budget -> Nat] /\ proposed' \subseteq Value
  BY Books, SpendType DEF TickElectionFails, Budget
<1> QED
  BY <1>6, <1>7, <1>8, <1>9, OwnStepInv

(* propose() preserves the invariant. *)
LEMMA ProposeInv ==
    ASSUME Inv, NEW s \in Server, NEW v \in Value, Propose(s, v)
    PROVE  Inv'
<1> DEFINE a == AppendOwn(node[s], v)
           p == [index |-> LastIndex(a), value |-> v]
           n == [a EXCEPT !.pending = @ \cup {p}]
<1>1. node[s] \in Node
  BY Books, NodeOfServer
<1>2. a \in Node /\ SameVote(node[s], a)
  BY <1>1, AppendOwnType DEF Command
<1>3. PICK limit \in Limits(n) :
        /\ Charge(limit, AdvanceCommit(n, limit))
        /\ Become(s, SendHeartbeats(AdvanceCommit(n, limit)), net)
  BY DEF Propose
<1> HIDE DEF a
<1>4. n \in Node /\ SameVote(node[s], n)
  <2>1. a \in NodeState
    BY <1>2 DEF Node
  <2>2. p \in PendingProposal
    BY <2>1, LastIndexType DEF PendingProposal
  <2> HIDE DEF p
  <2>3. a.pending \cup {p} \in SUBSET PendingProposal
    BY <2>1, <2>2, NodeFields
  <2>4. n \in NodeState
    BY <2>1, <2>3, Zenon DEF NodeState
  <2>5. /\ n.snapIndex = a.snapIndex /\ n.applied = a.applied
        /\ n.out = a.out /\ SameVote(a, n)
    BY <2>1 DEF NodeState, SameVote
  <2> HIDE DEF n
  <2> QED
    BY <1>2, <2>4, <2>5 DEF Node, SameVote
<1> HIDE DEF n
<1>5. limit \in Nat
  BY <1>4, LimitsType
<1> DEFINE c == AdvanceCommit(n, limit)
           r == SendHeartbeats(c)
<1>6. c \in Node /\ SameVote(n, c)
  BY <1>4, <1>5, AdvanceCommitType
<1> HIDE DEF c
<1>7. r \in Node /\ SameVote(c, r)
  BY <1>6, SendHeartbeatsType
<1>8. Become(s, r, net)
  BY <1>3 DEF c
<1> HIDE DEF r
<1>9. Advances(node[s], r)
  BY <1>4, <1>6, <1>7 DEF SameVote, Advances
<1>10. proposed' \subseteq Value
  BY Books DEF Propose
<1>11. used' \in [Budget -> Nat]
  BY <1>3, Books, ChargeType
<1> QED
  BY <1>7, <1>8, <1>9, <1>10, <1>11, OwnStepInv

(* read_barrier() preserves the invariant. *)
LEMMA ReadIndexInv ==
    ASSUME Inv, NEW s \in Server, ReadIndex(s)
    PROVE  Inv'
<1> DEFINE n == SendHeartbeats(node[s])
           b == [round |-> n.round, target |-> n.commit, need |-> Acknowledged]
           a == [n EXCEPT !.barriers = @ \cup {b}]
           r == EvaluateReadBarriers(a)
<1>1. node[s] \in Node
  BY Books, NodeOfServer
<1>2. n \in Node /\ SameVote(node[s], n)
  BY <1>1, SendHeartbeatsType
<1>3. Become(s, r, net) /\ proposed' \subseteq Value
  BY Books DEF ReadIndex
<1> HIDE DEF n
<1>4. n \in NodeState
  BY <1>2 DEF Node
<1>5. Acknowledged \in SUBSET Value
  <2>1. \A x \in told : x.type = "Applied" => x.command \in Value
    BY DEF Inv, TypeInv, TypeOK, Applied, ReadServed
  <2> QED
    BY <2>1 DEF Acknowledged
<1>6. b \in ReadBarrier
  BY <1>4, <1>5, NodeFields DEF ReadBarrier
<1> HIDE DEF b
<1>7. n.barriers \cup {b} \in SUBSET ReadBarrier
  BY <1>4, <1>6, NodeFields
<1>8. a \in NodeState
  BY <1>4, <1>7, Zenon DEF NodeState
<1>9. /\ a.snapIndex = n.snapIndex /\ a.applied = n.applied
      /\ a.out = n.out /\ SameVote(n, a)
  BY <1>4 DEF NodeState, SameVote
<1> HIDE DEF a
<1>10. a \in Node
  BY <1>2, <1>8, <1>9 DEF Node
<1>11. r \in Node /\ Advances(node[s], r)
  BY <1>2, <1>9, <1>10, EvaluateReadBarriersType DEF SameVote, Advances
<1>12. used' \in [Budget -> Nat]
  BY Books, SpendType DEF ReadIndex, Budget
<1> HIDE DEF r
<1> QED
  BY <1>3, <1>11, <1>12, OwnStepInv

(* handle_request_vote() preserves the invariant: it grants only what it   *)
(* has recorded, and never a second candidate of a term.                   *)
LEMMA HandleRequestVoteInv ==
    ASSUME Inv, NEW f \in Server, NEW s \in Server, HandleRequestVote(f, s)
    PROVE  Inv'
<1> DEFINE m == Head(net[f][s])
           n == IF m.term > node[s].term THEN BecomeFollower(node[s], m.term, Nil)
                                         ELSE node[s]
           granted == /\ m.term = n.term
                      /\ n.votedFor \in {Nil, f}
                      /\ LogIsUpToDate(n, m.lastIndex, m.lastTerm)
           reply == [type |-> "RequestVoteResponse", term |-> n.term,
                     granted |-> granted]
           a == [n EXCEPT !.votedFor = IF granted THEN f ELSE @]
           r == Send(a, f, reply)
<1>1. net[f][s] # << >> /\ m.term \in Nat
  <2>1. net[f][s] # << >>
    BY DEF HandleRequestVote, Arrives
  <2> QED
    BY <2>1, ArrivingMessage, MessageOfType
<1>2. /\ node[s] \in Node /\ node[s].id = s /\ node[s].term \in Nat
  BY Books, NodeOfServer, NodeFields DEF Node
<1>3. n \in Node /\ Advances(node[s], n)
  <2>1. CASE m.term > node[s].term
    BY <1>1, <1>2, <2>1, BecomeFollowerType, BecomeFollowerAdvances
  <2>2. CASE ~(m.term > node[s].term)
    BY <1>2, <2>2 DEF Advances, SameVote
  <2> QED
    BY <2>1, <2>2
<1>4. Handled(f, s, r) /\ proposed' \subseteq Value /\ used' \in [Budget -> Nat]
  BY Books DEF HandleRequestVote
<1> HIDE DEF m, n
<1>5. n \in NodeState /\ LawfulStep(s, n)
  BY <1>3, AdvanceIsLawful DEF Node
<1>6. granted \in BOOLEAN /\ n.term \in Nat
  BY <1>5, NodeFields
<1>7. reply \in RequestVoteResponse
  BY <1>6 DEF RequestVoteResponse
<1>8. reply \in Message
  BY <1>7 DEF Message
<1>9. (IF granted THEN f ELSE n.votedFor) \in Server \cup {Nil}
  BY <1>5, NodeFields
<1>10. granted => n.votedFor \in {Nil, f}
  OBVIOUS
<1>11. Granted(reply) => granted
  BY DEF Granted
<1>12. reply.term = n.term
  OBVIOUS
<1> HIDE DEF granted, reply
<1>13. a \in NodeState
  BY <1>5, <1>9, ZenonT(40) DEF NodeState
<1>14. /\ a.snapIndex = n.snapIndex /\ a.applied = n.applied /\ a.id = n.id
       /\ a.out = n.out /\ a.term = n.term /\ a.role = n.role
       /\ a.votes = n.votes
       /\ a.votedFor = IF granted THEN f ELSE n.votedFor
  BY <1>5 DEF NodeState
<1> HIDE DEF a
<1>15. n.out \in [Server -> Seq(Plain)] /\ a.out \in [Server -> Seq(Message)]
  BY <1>3, <1>13, NodeFields DEF Node
<1>16. /\ r.snapIndex = n.snapIndex /\ r.applied = n.applied /\ r.id = n.id
       /\ r.term = n.term /\ r.role = n.role /\ r.votes = n.votes
       /\ r.votedFor = a.votedFor
       /\ r.out = [a.out EXCEPT ![f] = Append(@, reply)]
  BY <1>13, <1>14 DEF NodeState, Send
<1>17. r \in NodeState
  <2>1. [a.out EXCEPT ![f] = Append(@, reply)] \in [Server -> Seq(Message)]
    BY <1>8, <1>15
  <2> QED
    BY <1>13, <2>1, Zenon DEF NodeState, Send
<1> HIDE DEF r
<1>18. \A t \in Server : \A i \in DOMAIN r.out[t] :
          Granted(r.out[t][i]) => r.out[t][i].term = r.term /\ r.votedFor = t
  <2> SUFFICES ASSUME NEW t \in Server, NEW i \in DOMAIN r.out[t],
                      Granted(r.out[t][i])
               PROVE  r.out[t][i].term = r.term /\ r.votedFor = t
    OBVIOUS
  <2>1. n.out[t] \in Seq(Plain)
    BY <1>15
  <2>2. \A j \in DOMAIN n.out[t] : ~Granted(n.out[t][j])
    <3> TAKE j \in DOMAIN n.out[t]
    <3>1. n.out[t][j] \in Plain
      BY <2>1
    <3> QED
      BY <3>1 DEF Plain, Granted
  <2>3. CASE t # f
    <3>1. r.out[t] = n.out[t]
      BY <1>14, <1>15, <1>16, <2>3
    <3> QED
      BY <2>2, <3>1
  <2>4. CASE t = f
    <3>1. r.out[t] = Append(n.out[t], reply)
      BY <1>14, <1>15, <1>16, <2>4
    <3>2. CASE i \in DOMAIN n.out[t]
      <4>1. r.out[t][i] = n.out[t][i]
        BY <2>1, <3>1, <3>2
      <4> QED
        BY <2>2, <3>2, <4>1
    <3>3. CASE i \notin DOMAIN n.out[t]
      <4>1. r.out[t][i] = reply
        BY <2>1, <3>1, <3>3
      <4> QED
        BY <1>11, <1>12, <1>14, <1>16, <2>4, <4>1
    <3> QED
      BY <3>2, <3>3
  <2> QED
    BY <2>3, <2>4
<1>19. LawfulStep(s, r)
  <2>1. /\ n.id = s /\ n.snapIndex <= n.applied
        /\ n.term >= node[s].term
        /\ n.term = node[s].term /\ node[s].votedFor # Nil
             => n.votedFor = node[s].votedFor
        /\ n.role # "Follower" =>
             \A v \in n.votes : \/ <<v, s, n.term>> \in cast
                                \/ v = s /\ n.votedFor = s
        /\ n.role = "Leader" => \/ <<s, n.term>> \in elected
                                \/ HasQuorum(Cardinality(n.votes))
    BY <1>5 DEF LawfulStep
  <2>2. n.votedFor # Nil => r.votedFor = n.votedFor
    BY <1>10, <1>14, <1>16
  <2>3. s # Nil
    BY ServerAssumption
  <2> QED
    BY <1>16, <1>17, <1>18, <2>1, <2>2, <2>3 DEF LawfulStep
<1> QED
  BY <1>1, <1>4, <1>19, HandledInv

(* Stepping down to a newer term, with the vote written or not, preserves  *)
(* the invariant.                                                          *)
LEMMA StepDownInv ==
    ASSUME Inv, NEW f \in Server, NEW s \in Server,
           HandleRequestVoteFails(f, s) \/ HandleNewerTerm(f, s)
    PROVE  Inv'
<1> DEFINE m == Head(net[f][s])
           r == BecomeFollower(node[s], m.term, Nil)
<1>1. /\ Handled(f, s, r) /\ proposed' \subseteq Value
      /\ net[f][s] # << >>
  BY Books DEF HandleRequestVoteFails, HandleNewerTerm, Arrives
<1>2. used' \in [Budget -> Nat]
  BY Books, SpendType DEF HandleRequestVoteFails, HandleNewerTerm, Budget
<1>3. m.term \in Nat
  BY <1>1, ArrivingMessage, MessageOfType
<1>4. node[s] \in Node
  BY Books, NodeOfServer
<1> HIDE DEF m
<1>5. r \in Node /\ Advances(node[s], r)
  BY <1>3, <1>4, BecomeFollowerType, BecomeFollowerAdvances
<1> HIDE DEF r
<1> QED
  BY <1>1, <1>2, <1>5, HandledAdvance

(* Ignoring an outdated response preserves the invariant. *)
LEMMA HandleOutdatedInv ==
    ASSUME Inv, NEW f \in Server, NEW s \in Server, HandleOutdated(f, s)
    PROVE  Inv'
<1>1. /\ Handled(f, s, node[s]) /\ proposed' \subseteq Value
      /\ used' \in [Budget -> Nat] /\ net[f][s] # << >>
  BY Books DEF HandleOutdated, Arrives
<1>2. node[s] \in Node /\ Advances(node[s], node[s])
  BY Books, NodeOfServer DEF Advances, SameVote
<1> QED
  BY <1>1, <1>2, HandledAdvance

(* handle_request_vote_response() preserves the invariant: every vote it   *)
(* counts was cast, so a leader has a quorum of them.                      *)
LEMMA HandleRequestVoteResponseInv ==
    ASSUME Inv, NEW f \in Server, NEW s \in Server,
           HandleRequestVoteResponse(f, s)
             \/ HandleRequestVoteResponseFails(f, s)
    PROVE  Inv'
<1> DEFINE m == Head(net[f][s])
           n == [node[s] EXCEPT !.votes = @ \cup {f}]
<1>1. /\ net[f][s] # << >> /\ m.type = "RequestVoteResponse"
      /\ VoteCounts(node[s], m) /\ proposed' \subseteq Value
  BY Books
  DEF HandleRequestVoteResponse, HandleRequestVoteResponseFails, Arrives
<1>2. node[s] \in Node /\ node[s] \in NodeState /\ node[s].id = s
  BY Books, NodeOfServer DEF Node
<1>3. <<f, s, node[s].term>> \in cast
  <2>1. /\ m.type = "RequestVoteResponse" /\ 1 \in DOMAIN net[f][s]
        /\ m = net[f][s][1]
    BY <1>1, ArrivingMessage
  <2>2. Granted(net[f][s][1]) /\ net[f][s][1].term = node[s].term
    BY <1>1, <2>1 DEF Granted, VoteCounts
  <2> QED
    BY <2>1, <2>2 DEF Inv, ElectionInv, GrantsAreCast
<1>4. n \in NodeState
  <2>1. node[s].votes \cup {f} \in SUBSET Server
    BY <1>2, NodeFields
  <2> QED
    BY <1>2, <2>1, Zenon DEF NodeState
<1>5. /\ n.snapIndex = node[s].snapIndex /\ n.applied = node[s].applied
      /\ n.out = node[s].out /\ n.id = s /\ n.term = node[s].term
      /\ n.votedFor = node[s].votedFor /\ n.role = node[s].role
      /\ n.votes = node[s].votes \cup {f}
  BY <1>2 DEF NodeState
<1>6. node[s].role = "Candidate"
  BY <1>1 DEF VoteCounts
<1>7. \/ Handled(f, s, n) /\ UNCHANGED used
      \/ /\ HasQuorum(Cardinality(n.votes))
         /\ \/ \E limit \in Limits(n) :
                 /\ Charge(limit, BecomeLeader(n, limit))
                 /\ Handled(f, s, BecomeLeader(n, limit))
            \/ Handled(f, s, BecomeLeaderFailed(n)) /\ Spend("faults")
  BY DEF HandleRequestVoteResponse, HandleRequestVoteResponseFails
<1> HIDE DEF n, m
<1>8. n \in Node
  BY <1>2, <1>4, <1>5 DEF Node
<1>9. \A v \in n.votes : <<v, s, n.term>> \in cast
  BY <1>3, <1>5, <1>6 DEF Inv, ElectionInv, VotesAreCast
<1>10. n.term \in Nat
  BY <1>4, NodeFields
<1>11. ASSUME NEW r \in Node, r.id = s, r.term = n.term,
              r.votedFor = n.votedFor, r.votes = n.votes,
              r.role = "Leader" => HasQuorum(Cardinality(r.votes))
       PROVE  LawfulStep(s, r)
  <2>1. \A t \in Server : \A i \in DOMAIN r.out[t] : ~Granted(r.out[t][i])
    <3> SUFFICES ASSUME NEW t \in Server, NEW i \in DOMAIN r.out[t]
                 PROVE  ~Granted(r.out[t][i])
      OBVIOUS
    <3>1. r.out[t] \in Seq(Plain)
      BY DEF Node
    <3>2. r.out[t][i] \in Plain
      BY <3>1
    <3> QED
      BY <3>2 DEF Plain, Granted
  <2>2. r \in NodeState /\ r.snapIndex <= r.applied
    BY DEF Node
  <2> QED
    BY <1>5, <1>9, <1>10, <1>11, <2>1, <2>2 DEF LawfulStep
<1>12. CASE Handled(f, s, n) /\ UNCHANGED used
  <2>1. LawfulStep(s, n)
    BY <1>5, <1>6, <1>8, <1>11
  <2>2. used' \in [Budget -> Nat]
    BY <1>12, Books
  <2> QED
    BY <1>1, <1>12, <2>1, <2>2, HandledInv
<1>13. ASSUME HasQuorum(Cardinality(n.votes)), NEW limit \in Limits(n),
              Charge(limit, BecomeLeader(n, limit)),
              Handled(f, s, BecomeLeader(n, limit))
       PROVE  Inv'
  <2> DEFINE r == BecomeLeader(n, limit)
  <2>1. limit \in Nat
    BY <1>8, LimitsType
  <2>2. /\ r \in Node /\ r.id = n.id /\ r.term = n.term
        /\ r.votedFor = n.votedFor /\ r.votes = n.votes
    BY <1>8, <2>1, BecomeLeaderType
  <2>3. used' \in [Budget -> Nat]
    BY <1>13, Books, ChargeType
  <2> HIDE DEF r
  <2>4. LawfulStep(s, r)
    BY <1>5, <1>11, <1>13, <2>2
  <2> QED
    BY <1>1, <1>13, <2>3, <2>4, HandledInv DEF r
<1>14. ASSUME Handled(f, s, BecomeLeaderFailed(n)), Spend("faults")
       PROVE  Inv'
  <2> DEFINE r == BecomeLeaderFailed(n)
  <2>1. /\ r \in Node /\ r.id = n.id /\ r.term = n.term
        /\ r.votedFor = n.votedFor /\ r.role = "Follower"
    BY <1>8, BecomeLeaderFailedType
  <2>2. used' \in [Budget -> Nat]
    BY <1>14, Books, SpendType DEF Budget
  <2> HIDE DEF r
  <2>3. Advances(node[s], r)
    BY <1>2, <1>5, <1>10, <2>1 DEF Advances
  <2> QED
    BY <1>1, <1>14, <2>1, <2>2, <2>3, HandledAdvance DEF r
<1> QED
  BY <1>7, <1>12, <1>13, <1>14

(* handle_append_entries() of an old term preserves the invariant. *)
LEMMA HandleAppendEntriesStaleInv ==
    ASSUME Inv, NEW f \in Server, NEW s \in Server,
           HandleAppendEntriesStale(f, s)
    PROVE  Inv'
<1> DEFINE m == Head(net[f][s])
           reply == AppendReply(node[s], m, FALSE, 0, 0)
           r == Send(node[s], f, reply)
<1>1. /\ net[f][s] # << >> /\ m.type = "AppendEntries"
      /\ Handled(f, s, r) /\ proposed' \subseteq Value
      /\ used' \in [Budget -> Nat]
  BY Books, Zenon DEF HandleAppendEntriesStale, Arrives
<1>2. m \in AppendEntriesRequest
  BY <1>1, ArrivingMessage, MessageOfType
<1>3. node[s] \in Node
  BY Books, NodeOfServer
<1> HIDE DEF m
<1>4. reply \in Plain
  BY <1>2, <1>3, AppendReplyType
<1> HIDE DEF reply
<1>5. r \in Node /\ Advances(node[s], r)
  BY <1>3, <1>4, SendType DEF Advances
<1> HIDE DEF r
<1> QED
  BY <1>1, <1>5, HandledAdvance

(* handle_append_entries() failing the log check preserves the invariant. *)
LEMMA HandleAppendEntriesInconsistentInv ==
    ASSUME Inv, NEW f \in Server, NEW s \in Server,
           HandleAppendEntriesInconsistent(f, s)
    PROVE  Inv'
<1> DEFINE m == Head(net[f][s])
           n == Heed(node[s], m, f)
           reply == AppendReply(n, m, FALSE, 0, LastIndex(n))
           r == Send(n, f, reply)
<1>1. /\ net[f][s] # << >> /\ m.type = "AppendEntries"
      /\ Handled(f, s, r) /\ proposed' \subseteq Value
      /\ used' \in [Budget -> Nat]
  BY Books, Zenon DEF HandleAppendEntriesInconsistent, Arrives
<1>2. m \in AppendEntriesRequest /\ m.term \in Nat
  BY <1>1, ArrivingMessage, MessageOfType
<1>3. node[s] \in Node
  BY Books, NodeOfServer
<1> HIDE DEF m
<1>4. n \in Node /\ Advances(node[s], n)
  BY <1>2, <1>3, HeedType
<1> HIDE DEF n
<1>5. reply \in Plain
  <2>1. LastIndex(n) \in Nat
    BY <1>4, LastIndexType DEF Node
  <2> QED
    BY <1>2, <1>4, <2>1, AppendReplyType
<1> HIDE DEF reply
<1>6. r \in Node /\ Advances(n, r)
  BY <1>4, <1>5, SendType DEF Advances
<1> HIDE DEF r
<1>7. Advances(node[s], r)
  BY <1>3, <1>4, <1>6, AdvancesTransitive
<1> QED
  BY <1>1, <1>6, <1>7, HandledAdvance

(* handle_append_entries() giving up half way, for a refused entry or a    *)
(* write error, preserves the invariant.                                   *)
LEMMA HandleAppendEntriesRefusedInv ==
    ASSUME Inv, NEW f \in Server, NEW s \in Server,
           HandleAppendEntriesRefused(f, s) \/ HandleAppendEntriesFails(f, s)
    PROVE  Inv'
<1> DEFINE m == Head(net[f][s])
           n == Heed(node[s], m, f)
           merged(k) == Merge(n, m, k)
           truncated(k) == [merged(k) EXCEPT !.log =
                               SubSeq(@, 1, m.prevIndex + k - n.snapIndex)]
<1>1. /\ net[f][s] # << >> /\ m.type = "AppendEntries" /\ Consistent(n, m)
      /\ proposed' \subseteq Value
  BY Books, Zenon
  DEF HandleAppendEntriesRefused, HandleAppendEntriesFails, Arrives
<1>2. used' \in [Budget -> Nat]
  BY Books, SpendType
  DEF HandleAppendEntriesRefused, HandleAppendEntriesFails, Budget
<1>3. m \in AppendEntriesRequest /\ m.term \in Nat
  BY <1>1, ArrivingMessage, MessageOfType
<1>4. PICK k \in 0 .. Len(m.entries) - 1 :
        \/ Handled(f, s, merged(k))
        \/ /\ ConflictAt(merged(k), m, k + 1)
           /\ Handled(f, s, truncated(k))
  BY DEF HandleAppendEntriesRefused, HandleAppendEntriesFails
<1>5. node[s] \in Node
  BY Books, NodeOfServer
<1> HIDE DEF m
<1>6. n \in Node /\ Advances(node[s], n)
  BY <1>3, <1>5, HeedType
<1> HIDE DEF n
<1>7. k \in 0 .. Len(m.entries)
  <2>1. Len(m.entries) \in Nat
    BY <1>3 DEF AppendEntriesRequest
  <2> QED
    BY <2>1
<1> DEFINE a == merged(k)
           t == truncated(k)
<1>8. a \in Node /\ SameVote(n, a) /\ a.snapIndex = n.snapIndex
  BY <1>1, <1>3, <1>6, <1>7, MergeType
<1> HIDE DEF merged
<1>9. ASSUME ConflictAt(a, m, k + 1)
      PROVE  t \in Node /\ SameVote(a, t)
  <2> DEFINE cut == m.prevIndex + k - n.snapIndex
             log == SubSeq(a.log, 1, cut)
  <2>1. a \in NodeState
    BY <1>8 DEF Node
  <2>2. a.log \in Seq(Entry) /\ n.snapIndex \in Nat
    BY <1>6, <2>1, NodeFields DEF Node
  <2>3. m.prevIndex \in Nat /\ n.snapIndex <= m.prevIndex
    BY <1>1, <1>3, <2>2 DEF AppendEntriesRequest, Consistent, Stored
  <2>4. m.prevIndex + (k + 1) <= n.snapIndex + Len(a.log)
    BY <1>8, <1>9 DEF ConflictAt, LastIndex
  <2>5. cut \in 0 .. Len(a.log)
    BY <1>7, <2>2, <2>3, <2>4
  <2> HIDE DEF cut, a
  <2>6. log \in Seq(Entry)
    BY <2>2, <2>5
  <2> HIDE DEF log
  <2>7. t = [a EXCEPT !.log = log]
    BY DEF a, log, cut
  <2> HIDE DEF t
  <2>8. t \in NodeState
    BY <2>1, <2>6, <2>7, Zenon DEF NodeState
  <2>9. /\ t.snapIndex = a.snapIndex /\ t.applied = a.applied
        /\ t.out = a.out /\ SameVote(a, t)
    BY <2>1, <2>7 DEF NodeState, SameVote
  <2> QED
    BY <1>8, <2>8, <2>9 DEF Node
<1>10. CASE Handled(f, s, a)
  <2> HIDE DEF a
  <2>1. Advances(node[s], a)
    BY <1>5, <1>6, <1>8, AdvancesTransitive DEF Advances
  <2> QED
    BY <1>1, <1>2, <1>8, <1>10, <2>1, HandledAdvance
<1>11. CASE ConflictAt(a, m, k + 1) /\ Handled(f, s, t)
  <2>1. t \in Node /\ SameVote(a, t)
    BY <1>9, <1>11
  <2> HIDE DEF a, t
  <2>2. Advances(n, t)
    BY <1>8, <2>1 DEF Advances, SameVote
  <2>3. Advances(node[s], t)
    BY <1>5, <1>6, <2>1, <2>2, AdvancesTransitive
  <2> QED
    BY <1>1, <1>2, <1>11, <2>1, <2>3, HandledAdvance
<1> QED
  BY <1>4, <1>10, <1>11

(* handle_append_entries() preserves the invariant. *)
LEMMA HandleAppendEntriesInv ==
    ASSUME Inv, NEW f \in Server, NEW s \in Server, HandleAppendEntries(f, s)
    PROVE  Inv'
<1> DEFINE m == Head(net[f][s])
           h == Heed(node[s], m, f)
           n == Merge(h, m, Len(m.entries))
           commit == IF m.commit > n.commit
                     THEN MinOf(m.commit, LastIndex(n)) ELSE n.commit
           c == [n EXCEPT !.commit = commit]
           reply(r) == AppendReply(r, m, TRUE, Matched(r, m), 0)
<1>1. /\ net[f][s] # << >> /\ m.type = "AppendEntries" /\ Consistent(h, m)
      /\ proposed' \subseteq Value
  BY Books, Zenon DEF HandleAppendEntries, Arrives
<1>2. PICK limit \in Limits(c) :
        LET r == ApplyCommitted(c, limit)
        IN  Charge(limit, r) /\ Handled(f, s, Send(r, f, reply(r)))
  BY DEF HandleAppendEntries
<1>3. m \in AppendEntriesRequest /\ m.term \in Nat
  BY <1>1, ArrivingMessage, MessageOfType
<1>4. node[s] \in Node
  BY Books, NodeOfServer
<1> HIDE DEF m
<1>5. h \in Node /\ Advances(node[s], h)
  BY <1>3, <1>4, HeedType
<1> HIDE DEF h
<1>6. m.entries \in Seq(Entry) /\ m.prevIndex \in Nat /\ m.commit \in Nat
  BY <1>3 DEF AppendEntriesRequest
<1>7. /\ Len(m.entries) \in 0 .. Len(m.entries)
      /\ \A r : Matched(r, m) \in Nat
  BY <1>6 DEF Matched
<1>8. n \in Node /\ SameVote(h, n)
  BY <1>1, <1>3, <1>5, <1>7, MergeType
<1> HIDE DEF n
<1>9. n \in NodeState
  BY <1>8 DEF Node
<1>10. commit \in Nat
  BY <1>6, <1>9, NodeFields, LastIndexType DEF MinOf
<1> HIDE DEF commit
<1>11. c \in NodeState
  BY <1>9, <1>10, Zenon DEF NodeState
<1>12. /\ c.snapIndex = n.snapIndex /\ c.applied = n.applied
       /\ c.out = n.out /\ SameVote(n, c)
  BY <1>9 DEF NodeState, SameVote
<1> HIDE DEF c
<1>13. c \in Node
  BY <1>8, <1>11, <1>12 DEF Node
<1>14. limit \in Nat
  BY <1>13, LimitsType
<1> DEFINE r == ApplyCommitted(c, limit)
           e == Send(r, f, reply(r))
<1>15. Charge(limit, r) /\ Handled(f, s, e)
  BY <1>2
<1>16. r \in Node /\ SameVote(c, r)
  BY <1>13, <1>14, ApplyCommittedType
<1> HIDE DEF r
<1>17. reply(r) \in Plain
  BY <1>3, <1>7, <1>16, AppendReplyType
<1> HIDE DEF reply
<1>18. e \in Node /\ SameVote(r, e)
  BY <1>16, <1>17, SendType
<1> HIDE DEF e
<1>19. Advances(h, e)
  BY <1>8, <1>12, <1>16, <1>18 DEF SameVote, Advances
<1>20. Advances(node[s], e)
  BY <1>4, <1>5, <1>18, <1>19, AdvancesTransitive
<1>21. used' \in [Budget -> Nat]
  BY <1>15, Books, ChargeType
<1> QED
  BY <1>1, <1>15, <1>18, <1>20, <1>21, HandledAdvance

(* handle_append_entries_response() of a success preserves the invariant. *)
LEMMA HandleAppendEntriesResponseInv ==
    ASSUME Inv, NEW f \in Server, NEW s \in Server,
           HandleAppendEntriesResponse(f, s)
    PROVE  Inv'
<1> DEFINE m == Head(net[f][s])
           match == [node[s].match EXCEPT ![f] = MaxOf(@, m.match)]
           acked == [node[s].acked EXCEPT ![f] = MaxOf(@, m.round)]
           n == [node[s] EXCEPT !.match[f] = MaxOf(@, m.match),
                                !.acked[f] = MaxOf(@, m.round)]
           p == [n EXCEPT !.next[f] = MaxOf(@, n.match[f] + 1)]
           next == [n.next EXCEPT ![f] = MaxOf(@, n.match[f] + 1)]
           result(r) == LET e == EvaluateReadBarriers(r)
                        IN  IF r.commit # p.commit /\ ApplyFailed(r) THEN r
                            ELSE IF NeedsMore(e, p, f) THEN SendAppendEntries(e, {f})
                            ELSE e
<1>1. net[f][s] # << >> /\ m.type = "AppendEntriesResponse"
  <2>1. Arrives(f, s, {"AppendEntriesResponse"})
    BY ZenonT(30) DEF HandleAppendEntriesResponse
  <2> QED
    BY <2>1 DEF Arrives
<1>2. proposed' \subseteq Value
  BY Books DEF HandleAppendEntriesResponse
<1>3. PICK limit \in Limits(p) :
        /\ Charge(limit, AdvanceCommit(p, limit))
        /\ Handled(f, s, result(AdvanceCommit(p, limit)))
  BY Zenon DEF HandleAppendEntriesResponse
<1>4. m.match \in Nat /\ m.round \in Nat
  <2>1. m \in AppendEntriesResponse
    BY <1>1, ArrivingMessage, MessageOfType
  <2> QED
    BY <2>1 DEF AppendEntriesResponse
<1>5. node[s] \in Node /\ node[s] \in NodeState
  BY Books, NodeOfServer DEF Node
<1> HIDE DEF m, result
<1>6. match \in [Server -> Nat] /\ acked \in [Server -> Nat]
  BY <1>4, <1>5, NodeFields DEF MaxOf
<1>7. n = [node[s] EXCEPT !.match = match, !.acked = acked]
  OBVIOUS
<1> HIDE DEF n, match, acked
<1>8. n \in NodeState
  BY <1>5, <1>6, <1>7, Zenon DEF NodeState
<1>9. /\ n.snapIndex = node[s].snapIndex /\ n.applied = node[s].applied
      /\ n.out = node[s].out /\ SameVote(node[s], n)
  BY <1>5, <1>7 DEF NodeState, SameVote
<1>10. next \in [Server -> Nat]
  BY <1>8, NodeFields DEF MaxOf
<1>11. p = [n EXCEPT !.next = next]
  OBVIOUS
<1> HIDE DEF p, next
<1>12. p \in NodeState
  BY <1>8, <1>10, <1>11, Zenon DEF NodeState
<1>13. /\ p.snapIndex = n.snapIndex /\ p.applied = n.applied
       /\ p.out = n.out /\ SameVote(n, p)
  BY <1>8, <1>11 DEF NodeState, SameVote
<1>14. p \in Node
  BY <1>5, <1>9, <1>12, <1>13 DEF Node
<1>15. limit \in Nat
  BY <1>14, LimitsType
<1> DEFINE r == AdvanceCommit(p, limit)
           e == EvaluateReadBarriers(r)
           x == SendAppendEntries(e, {f})
<1>16. r \in Node /\ SameVote(p, r)
  BY <1>14, <1>15, AdvanceCommitType
<1> HIDE DEF r
<1>17. e \in Node /\ SameVote(r, e)
  BY <1>16, EvaluateReadBarriersType
<1> HIDE DEF e
<1>18. x \in Node /\ SameVote(e, x)
  BY <1>17, SendAppendEntriesType
<1>19. result(r) \in {r, e, x}
  BY DEF result, e
<1> HIDE DEF x
<1>20. result(r) \in Node /\ Advances(node[s], result(r))
  BY <1>9, <1>13, <1>16, <1>17, <1>18, <1>19 DEF SameVote, Advances
<1>21. used' \in [Budget -> Nat] /\ Handled(f, s, result(r))
  BY <1>3, Books, ChargeType DEF r
<1> QED
  BY <1>1, <1>2, <1>20, <1>21, HandledAdvance

(* handle_append_entries_response() of a rejection preserves the           *)
(* invariant.                                                              *)
LEMMA HandleAppendEntriesRejectionInv ==
    ASSUME Inv, NEW f \in Server, NEW s \in Server,
           HandleAppendEntriesRejection(f, s)
    PROVE  Inv'
<1> DEFINE n == node[s]
           next == [n.next EXCEPT ![f] = MaxOf(@ - 1, 1)]
           back == [n EXCEPT !.next[f] = MaxOf(@ - 1, 1)]
<1>1. /\ net[f][s] # << >> /\ proposed' \subseteq Value
      /\ used' \in [Budget -> Nat]
  BY Books, Zenon DEF HandleAppendEntriesRejection, Arrives
<1>2. PICK r \in {SendSnapshot(n, {f}), SendAppendEntries(back, {f})} :
        Handled(f, s, r)
  BY DEF HandleAppendEntriesRejection
<1>3. n \in Node /\ n \in NodeState
  BY Books, NodeOfServer DEF Node
<1> HIDE DEF n
<1>4. next \in [Server -> Nat]
  BY <1>3, NodeFields DEF MaxOf
<1>5. back = [n EXCEPT !.next = next]
  OBVIOUS
<1> HIDE DEF back, next
<1>6. back \in NodeState
  BY <1>3, <1>4, <1>5, Zenon DEF NodeState
<1>7. /\ back.snapIndex = n.snapIndex /\ back.applied = n.applied
      /\ back.out = n.out /\ SameVote(n, back)
  BY <1>3, <1>5 DEF NodeState, SameVote
<1>8. back \in Node
  BY <1>3, <1>6, <1>7 DEF Node
<1>9. r \in Node /\ SameVote(n, r)
  BY <1>2, <1>3, <1>7, <1>8, SendSnapshotType, SendAppendEntriesType
  DEF SameVote
<1>10. Advances(node[s], r)
  BY <1>9 DEF Advances, n
<1> QED
  BY <1>1, <1>2, <1>9, <1>10, HandledAdvance

(* handle_install_snapshot() of an old term preserves the invariant. *)
LEMMA HandleInstallSnapshotStaleInv ==
    ASSUME Inv, NEW f \in Server, NEW s \in Server,
           HandleInstallSnapshotStale(f, s)
    PROVE  Inv'
<1> DEFINE r == Send(node[s], f, SnapshotReply(node[s], FALSE))
<1>1. /\ net[f][s] # << >> /\ Handled(f, s, r)
      /\ proposed' \subseteq Value /\ used' \in [Budget -> Nat]
  BY Books, Zenon DEF HandleInstallSnapshotStale, Arrives
<1>2. node[s] \in Node
  BY Books, NodeOfServer
<1>3. SnapshotReply(node[s], FALSE) \in Plain
  BY <1>2, SnapshotReplyType
<1>4. r \in Node /\ Advances(node[s], r)
  BY <1>2, <1>3, SendType DEF Advances
<1> HIDE DEF r
<1> QED
  BY <1>1, <1>4, HandledAdvance

(* Whatever handle_install_snapshot() did with a chunk, answering it       *)
(* preserves the invariant.                                                *)
LEMMA ReplyToSnapshot ==
    ASSUME Inv, NEW f \in Server, NEW s \in Server, net[f][s] # << >>,
           NEW n \in Node, Advances(node[s], n),
           NEW r \in Node, SameVote(n, r), NEW a \in Node, SameVote(r, a),
           NEW success \in BOOLEAN,
           Handled(f, s, Send(a, f, SnapshotReply(r, success))),
           proposed' \subseteq Value, used' \in [Budget -> Nat]
    PROVE  Inv'
<1> DEFINE e == Send(a, f, SnapshotReply(r, success))
<1>1. SnapshotReply(r, success) \in Plain
  BY SnapshotReplyType
<1>2. e \in Node /\ SameVote(a, e)
  BY <1>1, SendType
<1> HIDE DEF e
<1>3. Advances(n, e)
  BY <1>2 DEF SameVote, Advances
<1>4. Advances(node[s], e)
  BY <1>2, <1>3, Books, NodeOfServer, AdvancesTransitive
<1> QED
  BY <1>2, <1>4, HandledAdvance DEF e

(* Heeding the sender of a snapshot chunk keeps the node well formed. *)
LEMMA HeedArriving ==
    ASSUME Inv, NEW f \in Server, NEW s \in Server, net[f][s] # << >>,
           Head(net[f][s]).type = "InstallSnapshot"
    PROVE  LET m == Head(net[f][s])
               n == Heed(node[s], m, f)
           IN  /\ m \in InstallSnapshotRequest
               /\ node[s] \in Node
               /\ n \in Node /\ n \in NodeState /\ Advances(node[s], n)
               /\ n.applied = node[s].applied
<1> DEFINE m == Head(net[f][s])
           n == Heed(node[s], m, f)
<1>1. m \in InstallSnapshotRequest /\ m.term \in Nat
  BY ArrivingMessage, MessageOfType
<1>2. node[s] \in Node
  BY Books, NodeOfServer
<1> HIDE DEF m
<1>3. n \in Node /\ Advances(node[s], n) /\ n.applied = node[s].applied
  BY <1>1, <1>2, HeedType
<1>4. n \in NodeState
  BY <1>3 DEF Node
<1> QED
  BY <1>1, <1>2, <1>3, <1>4 DEF m

(* Dropping the snapshot buffer, with or without replacing the data, keeps *)
(* a node well formed and its vote as it is.                               *)
LEMMA WithoutSnapshot ==
    ASSUME NEW n \in Node, NEW data \in SUBSET Value
    PROVE  /\ [n EXCEPT !.snap = Nil] \in Node
           /\ SameVote(n, [n EXCEPT !.snap = Nil])
           /\ [n EXCEPT !.data = data, !.snap = Nil] \in Node
           /\ SameVote(n, [n EXCEPT !.data = data, !.snap = Nil])
           /\ [n EXCEPT !.data = data, !.snap = Nil].snapIndex = n.snapIndex
           /\ [[n EXCEPT !.snap = Nil] EXCEPT !.data = data] \in Node
           /\ SameVote(n, [[n EXCEPT !.snap = Nil] EXCEPT !.data = data])
<1> DEFINE a == [n EXCEPT !.snap = Nil]
           b == [n EXCEPT !.data = data, !.snap = Nil]
           c == [a EXCEPT !.data = data]
<1>1. n \in NodeState
  BY DEF Node
<1>2. Nil \in PendingSnapshot \cup {Nil}
  OBVIOUS
<1>3. a \in NodeState
  BY <1>1, <1>2, Zenon DEF NodeState
<1>4. b \in NodeState
  BY <1>1, <1>2, Zenon DEF NodeState
<1>5. /\ a.snapIndex = n.snapIndex /\ a.applied = n.applied /\ a.out = n.out
      /\ SameVote(n, a)
  BY <1>1 DEF NodeState, SameVote
<1>6. /\ b.snapIndex = n.snapIndex /\ b.applied = n.applied /\ b.out = n.out
      /\ SameVote(n, b)
  BY <1>1 DEF NodeState, SameVote
<1> HIDE DEF a, b
<1>7. c \in NodeState
  BY <1>3, Zenon DEF NodeState
<1>8. /\ c.snapIndex = a.snapIndex /\ c.applied = a.applied /\ c.out = a.out
      /\ SameVote(a, c)
  BY <1>3 DEF NodeState, SameVote
<1> HIDE DEF c
<1>9. /\ a \in Node /\ SameVote(n, a) /\ b \in Node /\ SameVote(n, b)
      /\ b.snapIndex = n.snapIndex
  BY <1>3, <1>4, <1>5, <1>6 DEF Node
<1>10. c \in Node /\ SameVote(n, c)
  BY <1>5, <1>7, <1>8, <1>9 DEF Node, SameVote
<1> QED
  BY <1>9, <1>10 DEF a, b, c

(* handle_install_snapshot() refusing a chunk preserves the invariant. *)
LEMMA HandleInstallSnapshotRefusedInv ==
    ASSUME Inv, NEW f \in Server, NEW s \in Server,
           HandleInstallSnapshotRefused(f, s)
    PROVE  Inv'
<1> DEFINE m == Head(net[f][s])
           n == Heed(node[s], m, f)
           r == IF m.index < n.applied THEN n ELSE [n EXCEPT !.snap = Nil]
<1>1. /\ net[f][s] # << >> /\ m.type = "InstallSnapshot"
      /\ proposed' \subseteq Value /\ used' \in [Budget -> Nat]
  BY Books, Zenon DEF HandleInstallSnapshotRefused, Arrives
<1>2. Handled(f, s, Send(r, f, SnapshotReply(r, FALSE)))
  BY Zenon DEF HandleInstallSnapshotRefused
<1>3. n \in Node /\ Advances(node[s], n)
  BY <1>1, HeedArriving
<1> HIDE DEF m, n
<1>4. r \in {n, [n EXCEPT !.snap = Nil]}
  OBVIOUS
<1> HIDE DEF r
<1>5. r \in Node /\ SameVote(n, r) /\ SameVote(r, r)
  BY <1>3, <1>4, WithoutSnapshot DEF SameVote
<1> QED
  BY <1>1, <1>2, <1>3, <1>5, ReplyToSnapshot

(* handle_install_snapshot() buffering a chunk preserves the invariant. *)
LEMMA HandleInstallSnapshotChunkInv ==
    ASSUME Inv, NEW f \in Server, NEW s \in Server,
           HandleInstallSnapshotChunk(f, s)
    PROVE  Inv'
<1> DEFINE m == Head(net[f][s])
           n == Heed(node[s], m, f)
           old == Assembling(node[s], m, f)
           snap == [old EXCEPT !.buffer = Append(@, m.data)]
           r == [n EXCEPT !.snap = snap]
<1>1. /\ net[f][s] # << >> /\ m.type = "InstallSnapshot"
      /\ proposed' \subseteq Value /\ used' \in [Budget -> Nat]
  BY Books, Zenon DEF HandleInstallSnapshotChunk, Arrives
<1>2. Handled(f, s, r)
  BY Zenon DEF HandleInstallSnapshotChunk
<1>3. /\ m \in InstallSnapshotRequest
      /\ n \in Node /\ n \in NodeState /\ Advances(node[s], n)
  BY <1>1, HeedArriving
<1>4. old \in PendingSnapshot
  <2>1. n.snap \in PendingSnapshot \cup {Nil}
    BY <1>3, NodeFields
  <2>2. [index |-> m.index, term |-> m.indexTerm, buffer |-> << >>]
          \in PendingSnapshot
    BY <1>3 DEF InstallSnapshotRequest, PendingSnapshot
  <2>3. \/ old = [index |-> m.index, term |-> m.indexTerm, buffer |-> << >>]
        \/ old = n.snap /\ n.snap # Nil
    BY DEF Assembling
  <2> QED
    BY <2>1, <2>2, <2>3
<1>5. m.data \in SUBSET Value
  BY <1>3 DEF InstallSnapshotRequest
<1> HIDE DEF m, n, old
<1>6. snap \in PendingSnapshot
  BY <1>4, <1>5 DEF PendingSnapshot
<1> HIDE DEF snap
<1>7. r \in NodeState
  BY <1>3, <1>6, Zenon DEF NodeState
<1>8. /\ r.snapIndex = n.snapIndex /\ r.applied = n.applied /\ r.out = n.out
      /\ SameVote(n, r)
  BY <1>3 DEF NodeState, SameVote
<1> HIDE DEF r
<1>9. r \in Node /\ Advances(n, r)
  BY <1>3, <1>7, <1>8 DEF Node, Advances
<1>10. Advances(node[s], r)
  BY <1>3, <1>9, Books, NodeOfServer, AdvancesTransitive
<1> QED
  BY <1>1, <1>2, <1>9, <1>10, HandledAdvance

(* handle_install_snapshot() of the last chunk preserves the invariant. *)
LEMMA HandleInstallSnapshotInv ==
    ASSUME Inv, NEW f \in Server, NEW s \in Server,
           HandleInstallSnapshot(f, s)
    PROVE  Inv'
<1> DEFINE m == Head(net[f][s])
           h == Heed(node[s], m, f)
           n == Restored(h, m)
           i == InstallBoundary(n, m.index, m.indexTerm)
           r == [i EXCEPT !.pending = {p \in @ : p.index > m.index}]
<1>1. /\ net[f][s] # << >> /\ m.type = "InstallSnapshot"
      /\ proposed' \subseteq Value /\ used' \in [Budget -> Nat]
  BY Books, Zenon DEF HandleInstallSnapshot, Arrives
<1>2. /\ Handled(f, s, Send(EvaluateReadBarriers(r), f,
                            SnapshotReply(r, TRUE)))
      /\ Fits(node[s], m, f)
  BY Zenon DEF HandleInstallSnapshot
<1>3. /\ m \in InstallSnapshotRequest
      /\ h \in Node /\ h \in NodeState /\ Advances(node[s], h)
      /\ h.applied = node[s].applied
  BY <1>1, HeedArriving
<1>4. /\ m.index \in Nat /\ m.indexTerm \in Nat /\ m.data \in SUBSET Value
  BY <1>3 DEF InstallSnapshotRequest
<1> HIDE DEF m, h
<1>5. h.snapIndex <= m.index
  <2>1. m.index >= h.applied
    BY <1>2, <1>3 DEF Fits
  <2>2. h.snapIndex <= h.applied /\ h.snapIndex \in Nat /\ h.applied \in Nat
    BY <1>3, NodeFields DEF Node
  <2> QED
    BY <1>4, <2>1, <2>2
<1>6. n \in Node /\ SameVote(h, n) /\ n.snapIndex = h.snapIndex
  BY <1>3, <1>4, WithoutSnapshot DEF Restored
<1> HIDE DEF n
<1>7. i \in Node /\ SameVote(n, i)
  BY <1>4, <1>5, <1>6, InstallBoundaryType
<1> HIDE DEF i
<1>8. i \in NodeState
  BY <1>7 DEF Node
<1>9. {p \in i.pending : p.index > m.index} \in SUBSET PendingProposal
  BY <1>8, NodeFields
<1>10. r \in NodeState
  BY <1>8, <1>9, Zenon DEF NodeState
<1>11. /\ r.snapIndex = i.snapIndex /\ r.applied = i.applied
       /\ r.out = i.out /\ SameVote(i, r)
  BY <1>8 DEF NodeState, SameVote
<1> HIDE DEF r
<1>12. r \in Node /\ SameVote(h, r)
  BY <1>6, <1>7, <1>10, <1>11 DEF Node, SameVote
<1>13. EvaluateReadBarriers(r) \in Node /\ SameVote(r, EvaluateReadBarriers(r))
  BY <1>12, EvaluateReadBarriersType
<1> QED
  BY <1>1, <1>2, <1>3, <1>12, <1>13, ReplyToSnapshot

(* handle_install_snapshot() failing to restore or to move the boundary    *)
(* preserves the invariant.                                                *)
LEMMA HandleInstallSnapshotFailsInv ==
    ASSUME Inv, NEW f \in Server, NEW s \in Server,
           HandleInstallSnapshotFails(f, s)
    PROVE  Inv'
<1> DEFINE m == Head(net[f][s])
           h == Heed(node[s], m, f)
           n == [h EXCEPT !.snap = Nil]
<1>1. /\ net[f][s] # << >> /\ m.type = "InstallSnapshot"
      /\ proposed' \subseteq Value
  BY Books, Zenon DEF HandleInstallSnapshotFails, Arrives
<1>2. used' \in [Budget -> Nat]
  BY Books, SpendType DEF HandleInstallSnapshotFails, Budget
<1>3. PICK r \in {n, [n EXCEPT !.data = m.data]} :
        Handled(f, s, Send(r, f, SnapshotReply(r, FALSE)))
  BY Zenon DEF HandleInstallSnapshotFails
<1>4. /\ m \in InstallSnapshotRequest
      /\ h \in Node /\ Advances(node[s], h)
  BY <1>1, HeedArriving
<1> HIDE DEF m, h
<1>5. m.data \in SUBSET Value
  BY <1>4 DEF InstallSnapshotRequest
<1> DEFINE d == [n EXCEPT !.data = m.data]
<1>6. /\ n \in Node /\ SameVote(h, n)
      /\ d \in Node /\ SameVote(h, d)
  BY <1>4, <1>5, WithoutSnapshot
<1>7. r \in {n, d}
  BY <1>3
<1> HIDE DEF n, d
<1>8. r \in Node /\ SameVote(h, r) /\ SameVote(r, r)
  BY <1>6, <1>7 DEF SameVote
<1> QED
  BY <1>1, <1>2, <1>3, <1>4, <1>8, ReplyToSnapshot

(* handle_install_snapshot_response() preserves the invariant. *)
LEMMA HandleInstallSnapshotResponseInv ==
    ASSUME Inv, NEW f \in Server, NEW s \in Server,
           HandleInstallSnapshotResponse(f, s)
    PROVE  Inv'
<1>1. /\ net[f][s] # << >>
      /\ proposed' \subseteq Value /\ used' \in [Budget -> Nat]
  BY Books, Zenon DEF HandleInstallSnapshotResponse, Arrives
<1>2. PICK r \in {node[s], SendAppendEntries(node[s], {f})} : Handled(f, s, r)
  BY DEF HandleInstallSnapshotResponse
<1>3. node[s] \in Node
  BY Books, NodeOfServer
<1>4. r \in Node /\ Advances(node[s], r)
  BY <1>2, <1>3, SendAppendEntriesType DEF Advances, SameVote
<1> QED
  BY <1>1, <1>2, <1>4, HandledAdvance

(* A crash, and start(), which reads back what is durable: the node is a   *)
(* follower without debts, the rest of the group is as it was.             *)
LEMMA CrashRestart ==
    ASSUME Inv, NEW s \in Server, Crash(s) \/ Restart(s)
    PROVE  LET r == node'[s]
           IN  /\ node' \in [Server -> NodeState]
               /\ r.id = s /\ r.term = node[s].term
               /\ r.votedFor = node[s].votedFor /\ r.role = "Follower"
               /\ r.snapIndex = r.applied
               /\ r.out = node[s].out /\ r.told = node[s].told
               /\ r.log = node[s].log /\ r.snapIndex = node[s].snapIndex
               /\ r.pending = {} /\ r.barriers = {}
               /\ \A t \in Server \ {s} : node'[t] = node[t]
               /\ net' \in [Server -> [Server -> Seq(Message)]]
               /\ \A f, t \in Server : net'[f][t] \in {net[f][t], << >>}
<1> DEFINE r == node'[s]
           zero == [t \in Server |-> 0]
           one == [t \in Server |-> 1]
           begun(up) == [node[s] EXCEPT
               !.up = up, !.role = "Follower", !.leader = Nil, !.votes = {},
               !.commit = node[s].snapIndex, !.applied = node[s].snapIndex,
               !.next = one, !.match = zero, !.round = 0, !.acked = zero,
               !.pending = {}, !.barriers = {}, !.snap = Nil]
<1>1. /\ node \in [Server -> NodeState]
      /\ net \in [Server -> [Server -> Seq(Message)]]
  BY DEF Inv, TypeInv, TypeOK
<1>2. node[s] \in NodeState /\ node[s].id = s
  BY Books, NodeOfServer DEF Node
<1>3. ASSUME NEW up \in BOOLEAN PROVE begun(up) \in NodeState
  <2>1. /\ "Follower" \in Role /\ Nil \in Server \cup {Nil}
        /\ {} \in SUBSET Server /\ node[s].snapIndex \in Nat
        /\ one \in [Server -> Nat] /\ zero \in [Server -> Nat] /\ 0 \in Nat
        /\ {} \in SUBSET PendingProposal /\ {} \in SUBSET ReadBarrier
        /\ Nil \in PendingSnapshot \cup {Nil}
    BY <1>2, NodeFields DEF Role
  <2> HIDE DEF one, zero
  <2> QED
    BY <1>2, <2>1, ZenonT(40) DEF NodeState
<1>4. ASSUME NEW up \in BOOLEAN
      PROVE  LET b == begun(up)
             IN  /\ b.id = s /\ b.term = node[s].term
                 /\ b.votedFor = node[s].votedFor /\ b.role = "Follower"
                 /\ b.snapIndex = b.applied
                 /\ b.out = node[s].out /\ b.told = node[s].told
                 /\ b.log = node[s].log /\ b.snapIndex = node[s].snapIndex
                 /\ b.pending = {} /\ b.barriers = {}
  <2> HIDE DEF one, zero
  <2> QED
    BY <1>2 DEF NodeState
<1>5. PICK up \in BOOLEAN : node' = [node EXCEPT ![s] = begun(up)]
  <2>1. CASE Restart(s)
    BY <2>1 DEF Restart, Start
  <2>2. CASE Crash(s)
    <3>1. node' = [node EXCEPT ![s] = [Start(@) EXCEPT !.up = FALSE]]
      BY <2>2 DEF Crash
    <3>2. [Start(node[s]) EXCEPT !.up = FALSE] = begun(FALSE)
      <4>1. begun(FALSE) \in NodeState /\ begun(TRUE) \in NodeState
        BY <1>3
      <4>2. Start(node[s]) = begun(TRUE)
        BY DEF Start
      <4> HIDE DEF one, zero
      <4> QED
        BY <1>2, <4>2, ZenonT(30) DEF NodeState
    <3> QED
      BY <3>1, <3>2
  <2> QED
    BY <2>1, <2>2
<1> HIDE DEF begun
<1>6. /\ r \in NodeState /\ r.id = s /\ r.term = node[s].term
      /\ r.votedFor = node[s].votedFor /\ r.role = "Follower"
      /\ r.snapIndex = r.applied
      /\ r.out = node[s].out /\ r.told = node[s].told
      /\ r.log = node[s].log /\ r.snapIndex = node[s].snapIndex
      /\ r.pending = {} /\ r.barriers = {}
  BY <1>1, <1>3, <1>4, <1>5
<1>7. \A t \in Server \ {s} : node'[t] = node[t]
  BY <1>1, <1>5
<1>8. \/ net' = net
      \/ net' = [f \in Server |-> [t \in Server |->
                     IF s \in {f, t} THEN << >> ELSE net[f][t]]]
  BY DEF Crash, Restart
<1>9. /\ net' \in [Server -> [Server -> Seq(Message)]]
      /\ \A f, t \in Server : net'[f][t] \in {net[f][t], << >>}
  <2>1. CASE net' = net
    BY <1>1, <2>1
  <2>2. CASE net' = [f \in Server |-> [t \in Server |->
                        IF s \in {f, t} THEN << >> ELSE net[f][t]]]
    <3>1. \A f, t \in Server : net[f][t] \in Seq(Message)
      BY <1>1
    <3>2. \A f, t \in Server :
            net'[f][t] = IF s \in {f, t} THEN << >> ELSE net[f][t]
      BY <2>2
    <3>3. net' \in [Server -> [Server -> Seq(Message)]]
      BY <2>2, <3>1
    <3> QED
      BY <3>2, <3>3
  <2> QED
    BY <1>8, <2>1, <2>2
<1>10. node' \in [Server -> NodeState]
  BY <1>1, <1>5, <1>6
<1> HIDE DEF r
<1> QED
  BY <1>6, <1>7, <1>9, <1>10 DEF r

(* A crash, which keeps term and vote, and start(), which reads them back, *)
(* preserve the invariant.                                                 *)
LEMMA CrashRestartInv ==
    ASSUME Inv, NEW s \in Server, Crash(s) \/ Restart(s)
    PROVE  Inv'
<1> DEFINE r == node'[s]
<1>1. /\ told \subseteq Applied \cup ReadServed /\ proposed \subseteq Value
      /\ cast \subseteq Server \X Server \X Nat
      /\ elected \subseteq Server \X Nat
  BY DEF Inv, TypeInv, TypeOK
<1>2. UNCHANGED <<told, proposed, cast, elected>>
  BY DEF Crash, Restart
<1>3. used' \in [Budget -> Nat]
  BY Books, SpendType DEF Crash, Restart, Budget
<1>4. /\ node' \in [Server -> NodeState]
      /\ r.id = s /\ r.term = node[s].term
      /\ r.votedFor = node[s].votedFor /\ r.role = "Follower"
      /\ r.snapIndex = r.applied
      /\ r.out = node[s].out /\ r.told = node[s].told
      /\ \A t \in Server \ {s} : node'[t] = node[t]
      /\ net' \in [Server -> [Server -> Seq(Message)]]
      /\ \A f, t \in Server : net'[f][t] \in {net[f][t], << >>}
  BY CrashRestart
<1> HIDE DEF r
<1>5. TypeInv'
  <2>1. \A t \in Server : /\ node'[t].id = t
                          /\ node'[t].out = [u \in Server |-> << >>]
                          /\ node'[t].told = {}
                          /\ node'[t].snapIndex <= node'[t].applied
    <3> TAKE t \in Server
    <3>1. CASE t = s
      <4>1. r.snapIndex \in Nat
        BY <1>4, NodeFields DEF r
      <4> QED
        BY <1>4, <3>1, <4>1 DEF Inv, TypeInv, TypeOK, r
    <3>2. CASE t # s
      BY <1>4, <3>2 DEF Inv, TypeInv, TypeOK
    <3> QED
      BY <3>1, <3>2
  <2> QED
    BY <1>1, <1>2, <1>3, <1>4, <2>1 DEF TypeInv, TypeOK
<1>6. \A t \in Server : /\ node'[t].term = node[t].term
                         /\ node'[t].votedFor = node[t].votedFor
                         /\ \/ node'[t].role = "Follower"
                            \/ node'[t] = node[t]
  BY <1>4 DEF r
<1>7. VotesBindTheVoter'
  BY <1>1, <1>2, <1>6 DEF Inv, ElectionInv, VotesBindTheVoter
<1>8. OneVotePerTerm' /\ ElectedByQuorum'
  BY <1>2 DEF Inv, ElectionInv, OneVotePerTerm, ElectedByQuorum
<1>9. GrantsAreCast'
  <2> SUFFICES ASSUME NEW f \in Server, NEW t \in Server,
                      NEW i \in DOMAIN net'[f][t], Granted(net'[f][t][i])
               PROVE  <<f, t, net'[f][t][i].term>> \in cast'
    BY DEF GrantsAreCast
  <2>1. net'[f][t] = net[f][t]
    BY <1>4
  <2> QED
    BY <1>2, <2>1 DEF Inv, ElectionInv, GrantsAreCast
<1>10. VotesAreCast' /\ LeadersAreElected'
  BY <1>2, <1>6
  DEF Inv, ElectionInv, VotesAreCast, LeadersAreElected
<1> QED
  BY <1>5, <1>7, <1>8, <1>9, <1>10 DEF Inv, ElectionInv

(* What is on its way after a loss or a repetition was so before. *)
LEMMA WirePart ==
    ASSUME Inv, NEW f \in Server, NEW s \in Server, Lose(f, s) \/ Resend(f, s)
    PROVE  net' \in [Server -> [Server -> Seq(Message)]] /\ PartOf(net')
<1>1. net[f][s] # << >>
  BY DEF Lose, Resend
<1>2. net \in [Server -> [Server -> Seq(Message)]]
  BY DEF Inv, TypeInv, TypeOK
<1>3. CASE Lose(f, s)
  <2>1. net' = [net EXCEPT ![f][s] = Tail(@)]
    BY <1>3 DEF Lose
  <2> QED
    BY <1>1, <2>1, ArrivingMessage DEF Wire
<1>4. CASE Resend(f, s)
  <2> DEFINE q == net[f][s]
  <2>1. net' = [net EXCEPT ![f][s] = Append(@, Head(@))]
    BY <1>4 DEF Resend
  <2>2. q \in Seq(Message) /\ q # << >>
    BY <1>1, <1>2
  <2>3. /\ Append(q, Head(q)) \in Seq(Message)
        /\ \A i \in DOMAIN Append(q, Head(q)) :
             \E j \in DOMAIN q : Append(q, Head(q))[i] = q[j]
    <3>1. Head(q) = q[1] /\ 1 \in DOMAIN q /\ Head(q) \in Message
      BY <2>2
    <3> HIDE DEF q
    <3>2. ASSUME NEW i \in DOMAIN Append(q, Head(q))
          PROVE  \E j \in DOMAIN q : Append(q, Head(q))[i] = q[j]
      <4>1. CASE i \in DOMAIN q
        BY <2>2, <3>1, <4>1
      <4>2. CASE i \notin DOMAIN q
        BY <2>2, <3>1, <4>2
      <4> QED
        BY <4>1, <4>2
    <3> QED
      BY <2>2, <3>1, <3>2
  <2>4. /\ net' \in [Server -> [Server -> Seq(Message)]]
        /\ net'[f][s] = Append(q, Head(q))
        /\ \A g, t \in Server : ~(g = f /\ t = s) => net'[g][t] = net[g][t]
    BY <1>2, <2>1, <2>3
  <2>5. PartOf(net')
    <3> SUFFICES ASSUME NEW g \in Server, NEW t \in Server,
                        NEW i \in DOMAIN net'[g][t]
                 PROVE  \E j \in DOMAIN net[g][t] :
                          net'[g][t][i] = net[g][t][j]
      BY DEF PartOf
    <3>1. CASE g = f /\ t = s
      <4>1. net'[g][t] = Append(q, Head(q)) /\ net[g][t] = q
        BY <2>4, <3>1
      <4> HIDE DEF q
      <4> QED
        BY <2>3, <4>1
    <3>2. CASE ~(g = f /\ t = s)
      BY <2>4, <3>2
    <3> QED
      BY <3>1, <3>2
  <2> QED
    BY <2>4, <2>5
<1> QED
  BY <1>3, <1>4

(* Losing a message and sending one again preserve the invariant. *)
LEMMA WireInv ==
    ASSUME Inv, NEW f \in Server, NEW s \in Server, Lose(f, s) \/ Resend(f, s)
    PROVE  Inv'
<1>1. /\ UNCHANGED <<node, told, proposed, cast, elected>>
  BY DEF Lose, Resend
<1>2. used' \in [Budget -> Nat]
  BY Books, SpendType DEF Lose, Resend, Budget
<1>3. net' \in [Server -> [Server -> Seq(Message)]] /\ PartOf(net')
  BY WirePart
<1>4. TypeInv'
  BY <1>1, <1>2, <1>3 DEF Inv, TypeInv, TypeOK
<1>5. GrantsAreCast'
  <2> SUFFICES ASSUME NEW g \in Server, NEW t \in Server,
                      NEW i \in DOMAIN net'[g][t], Granted(net'[g][t][i])
               PROVE  <<g, t, net'[g][t][i].term>> \in cast'
    BY DEF GrantsAreCast
  <2>1. PICK j \in DOMAIN net[g][t] : net'[g][t][i] = net[g][t][j]
    BY <1>3 DEF PartOf
  <2>2. Granted(net[g][t][j])
    BY <2>1
  <2>3. <<g, t, net[g][t][j].term>> \in cast
    BY <2>2 DEF Inv, ElectionInv, GrantsAreCast
  <2> QED
    BY <1>1, <2>1, <2>3
<1>6. /\ VotesBindTheVoter' /\ OneVotePerTerm' /\ VotesAreCast'
      /\ LeadersAreElected' /\ ElectedByQuorum'
  BY <1>1 DEF Inv, ElectionInv, VotesBindTheVoter, OneVotePerTerm,
              VotesAreCast, LeadersAreElected, ElectedByQuorum
<1> QED
  BY <1>4, <1>5, <1>6 DEF Inv, ElectionInv

(* Every message handler preserves the invariant. *)
LEMMA HandleInv ==
    ASSUME Inv, NEW f \in Server, NEW s \in Server, Handle(f, s)
    PROVE  Inv'
BY HandleRequestVoteInv, StepDownInv, HandleOutdatedInv,
   HandleRequestVoteResponseInv, HandleAppendEntriesStaleInv,
   HandleAppendEntriesInconsistentInv, HandleAppendEntriesRefusedInv,
   HandleAppendEntriesInv, HandleAppendEntriesResponseInv,
   HandleAppendEntriesRejectionInv, HandleInstallSnapshotStaleInv,
   HandleInstallSnapshotRefusedInv, HandleInstallSnapshotChunkInv,
   HandleInstallSnapshotInv, HandleInstallSnapshotFailsInv,
   HandleInstallSnapshotResponseInv, Zenon DEF Handle

(* Every step preserves the invariant. *)
LEMMA NextInv == Inv /\ [Next]_vars => Inv'
<1> SUFFICES ASSUME Inv, [Next]_vars PROVE Inv'
  OBVIOUS
<1>1. CASE UNCHANGED vars
  BY <1>1 DEF vars, Inv, TypeInv, TypeOK, ElectionInv, VotesBindTheVoter,
     OneVotePerTerm, GrantsAreCast, VotesAreCast, LeadersAreElected,
     ElectedByQuorum
<1>2. ASSUME NEW s \in Server,
             \/ TickIdle(s) \/ TickCompactionFails(s) \/ TickHeartbeat(s)
             \/ TickElection(s) \/ TickElectionFails(s)
             \/ (\E v \in Value : Propose(s, v)) \/ ReadIndex(s)
             \/ Crash(s) \/ Restart(s)
      PROVE  Inv'
  BY <1>2, TickIdleInv, TickCompactionFailsInv, TickElectionInv,
     TickElectionFailsInv, ProposeInv, ReadIndexInv, CrashRestartInv, Zenon
<1>3. ASSUME NEW f \in Server, NEW s \in Server,
             Handle(f, s) \/ Lose(f, s) \/ Resend(f, s)
      PROVE  Inv'
  BY <1>3, HandleInv, WireInv, Zenon
<1> QED
  BY <1>1, <1>2, <1>3, Zenon DEF Next

(* The invariant holds of servers that have never run. *)
LEMMA InitInv == Init => Inv
<1> SUFFICES ASSUME Init PROVE Inv
  OBVIOUS
<1> DEFINE zero == [t \in Server |-> 0]
           one == [t \in Server |-> 1]
           none == [t \in Server |-> << >>]
<1>1. ASSUME NEW s \in Server
      PROVE  /\ EmptyNode(s) \in NodeState
             /\ EmptyNode(s).id = s /\ EmptyNode(s).out = none
             /\ EmptyNode(s).told = {}
             /\ EmptyNode(s).snapIndex <= EmptyNode(s).applied
             /\ EmptyNode(s).role = "Follower"
  <2>1. /\ zero \in [Server -> Nat] /\ one \in [Server -> Nat]
        /\ none \in [Server -> Seq(Message)] /\ << >> \in Seq(Entry)
        /\ "Follower" \in Role
    BY DEF Role
  <2>2. /\ s \in Server /\ 0 \in Nat /\ Nil \in Server \cup {Nil}
        /\ {} \in SUBSET Value /\ TRUE \in BOOLEAN /\ {} \in SUBSET Server
        /\ {} \in SUBSET PendingProposal /\ {} \in SUBSET ReadBarrier
        /\ Nil \in PendingSnapshot \cup {Nil}
        /\ {} \in SUBSET (Applied \cup ReadServed)
    OBVIOUS
  <2>3. EmptyNode(s) \in NodeState
    BY <2>1, <2>2, Zenon DEF EmptyNode, NodeState
  <2> QED
    BY <2>3 DEF EmptyNode
<1>2. TypeInv
  BY <1>1 DEF Init, TypeInv, TypeOK
<1>3. ElectionInv
  BY <1>1 DEF Init, ElectionInv, VotesBindTheVoter, OneVotePerTerm,
     GrantsAreCast, VotesAreCast, LeadersAreElected, ElectedByQuorum
<1> QED
  BY <1>2, <1>3 DEF Inv

(* Two sets that satisfy has_quorum() share a server. *)
LEMMA QuorumsIntersect ==
    ASSUME NEW A \in SUBSET Server, NEW B \in SUBSET Server,
           HasQuorum(Cardinality(A)), HasQuorum(Cardinality(B))
    PROVE  A \cap B # {}
<1>1. IsFiniteSet(Server) /\ IsFiniteSet(A) /\ IsFiniteSet(B)
  BY ServerAssumption, FS_Subset
<1>2. IsFiniteSet(A \cup B) /\ Cardinality(A \cup B) <= Cardinality(Server)
  BY <1>1, FS_Subset, FS_Union
<1>3. Cardinality(A \cup B)
        = Cardinality(A) + Cardinality(B) - Cardinality(A \cap B)
  BY <1>1, FS_Union
<1>4. /\ Cardinality(A) \in Nat /\ Cardinality(B) \in Nat
      /\ Cardinality(Server) \in Nat /\ Cardinality(A \cup B) \in Nat
  BY <1>1, <1>2, FS_CardinalityType
<1>5. Cardinality(A \cap B) # 0
  BY <1>2, <1>3, <1>4 DEF HasQuorum
<1> QED
  BY <1>5, FS_EmptySet

(* Every reachable state of a raft group is well typed, for every number   *)
(* of servers and whatever crashes, write errors, losses and repetitions   *)
(* occur: no handler reads the log outside its bounds or sends a malformed *)
(* message.                                                                *)
THEOREM TypeCorrect == Spec => []TypeOK
<1>1. Inv => TypeOK
  BY DEF Inv, TypeInv
<1> QED
  BY <1>1, InitInv, NextInv, PTL DEF Spec

(* Two leaders of one term would share a voter. *)
LEMMA OneLeader == Inv => ElectionSafety
<1> SUFFICES ASSUME Inv, NEW d \in elected, NEW e \in elected, d[2] = e[2]
             PROVE  d = e
  BY DEF ElectionSafety
<1> DEFINE A == {v \in Server : <<v, d[1], d[2]>> \in cast}
           B == {v \in Server : <<v, e[1], e[2]>> \in cast}
<1>1. HasQuorum(Cardinality(A)) /\ HasQuorum(Cardinality(B))
  BY DEF Inv, ElectionInv, ElectedByQuorum
<1>2. A \in SUBSET Server /\ B \in SUBSET Server
  OBVIOUS
<1> HIDE DEF A, B
<1>3. PICK v \in Server : v \in A /\ v \in B
  BY <1>1, <1>2, QuorumsIntersect
<1>4. <<v, d[1], d[2]>> \in cast /\ <<v, e[1], e[2]>> \in cast
  BY <1>3 DEF A, B
<1>5. <<v, d[1], d[2]>> = <<v, e[1], e[2]>>
  BY <1>4 DEF Inv, ElectionInv, OneVotePerTerm
<1>6. d \in Server \X Nat /\ e \in Server \X Nat
  BY DEF Inv, TypeInv, TypeOK
<1> QED
  BY <1>5, <1>6

(* start_election(), handle_request_vote(), become_leader(): at most one   *)
(* server is ever leader of a term, for every number of servers, every     *)
(* queue limit and every number of crashes, write errors, losses and       *)
(* repetitions.                                                            *)
THEOREM OneLeaderPerTerm == Spec => []ElectionSafety
BY OneLeader, InitInv, NextInv, PTL DEF Spec

-----------------------------------------------------------------------------
(***************************************************************************)
(* What the logs of Raft hold: one entry for an index and a term, and      *)
(* clients that wait for the entry they proposed.  An entry is written by  *)
(* the one leader of its term, at the end of its log, and copied from      *)
(* there; whatever waits, waits at a leader for an entry of that log.      *)
(***************************************************************************)

(* A place is a pair of an index and an entry.  The entries of the log of  *)
(* n, of the message m and of the messages n is sending are among the      *)
(* places A.                                                               *)
LogIn(n, A) == \A i \in 1 .. Len(n.log) : <<n.snapIndex + i, n.log[i]>> \in A
CarriesIn(m, A) ==
    m.type = "AppendEntries" =>
      \A j \in 1 .. Len(m.entries) : <<m.prevIndex + j, m.entries[j]>> \in A
OutIn(n, A) ==
    \A t \in Server : \A i \in DOMAIN n.out[t] : CarriesIn(n.out[t][i], A)

(* Only a leader owes answers. *)
Owed(n) == n.pending # {} \/ n.barriers # {} => n.role = "Leader"
(* What a proposal waits for is in the log until it is applied. *)
Backed(n) ==
    \A p \in n.pending : p.index > n.applied =>
      /\ p.index <= LastIndex(n)
      /\ n.log[p.index - n.snapIndex].value = p.value
(* Who is told "applied" is told of the entry it proposed. *)
ToldOwn(n) == \A c \in n.told : c.type = "Applied" => c.command = c.value

Sound(n, A) ==
    LogIn(n, A) /\ OutIn(n, A) /\ Owed(n) /\ Backed(n) /\ ToldOwn(n)

(* r has the log and the debts of n. *)
SameDebts(n, r) ==
    /\ r.log = n.log /\ r.snapIndex = n.snapIndex /\ r.applied = n.applied
    /\ r.pending = n.pending /\ r.barriers = n.barriers
    /\ r.role = n.role /\ r.told = n.told

(* What sends messages only is sound when the messages are. *)
LEMMA SameDebtsSound ==
    ASSUME NEW A, NEW n, NEW r, Sound(n, A), SameDebts(n, r), OutIn(r, A)
    PROVE  Sound(r, A) /\ LastIndex(r) = LastIndex(n)
BY DEF Sound, SameDebts, LogIn, Owed, Backed, ToldOwn, LastIndex

(* send() of a message whose entries are known. *)
LEMMA SendSound ==
    ASSUME NEW A, NEW n \in NodeState, Sound(n, A),
           NEW to \in Server, NEW m \in Message, CarriesIn(m, A)
    PROVE  LET r == Send(n, to, m)
           IN  Sound(r, A) /\ LastIndex(r) = LastIndex(n)
<1> DEFINE r == Send(n, to, m)
<1>1. n.out \in [Server -> Seq(Message)]
  BY NodeFields
<1>2. SameDebts(n, r) /\ r.out = [n.out EXCEPT ![to] = Append(@, m)]
  BY <1>1 DEF NodeState, Send, SameDebts
<1> HIDE DEF r
<1>3. OutIn(r, A)
  <2> SUFFICES ASSUME NEW t \in Server, NEW i \in DOMAIN r.out[t]
               PROVE  CarriesIn(r.out[t][i], A)
    BY DEF OutIn
  <2>1. CASE t = to
    <3>1. r.out[t] = Append(n.out[t], m) /\ n.out[t] \in Seq(Message)
      BY <1>1, <1>2, <2>1
    <3>2. CASE i \in DOMAIN n.out[t]
      BY <3>1, <3>2 DEF Sound, OutIn
    <3>3. CASE i \notin DOMAIN n.out[t]
      <4>1. r.out[t][i] = m
        BY <3>1, <3>3
      <4> QED
        BY <4>1
    <3> QED
      BY <3>2, <3>3
  <2>2. CASE t # to
    BY <1>1, <1>2, <2>2 DEF Sound, OutIn
  <2> QED
    BY <2>1, <2>2
<1> QED
  BY <1>2, <1>3, SameDebtsSound DEF r

(* send_append_entries() sends entries of the log, each at its index. *)
LEMMA AppendEntriesToCarries ==
    ASSUME NEW A, NEW n \in NodeState, LogIn(n, A), NEW s \in Server,
           Stored(n, n.next[s] - 1)
    PROVE  CarriesIn(AppendEntriesTo(n, s), A)
<1> DEFINE m == AppendEntriesTo(n, s)
           from == n.next[s] - n.snapIndex
<1>1. /\ n.log \in Seq(Entry) /\ n.snapIndex \in Nat /\ n.next[s] \in Nat
  BY NodeFields
<1>2. from \in 1 .. Len(n.log) + 1
  BY <1>1 DEF Stored, LastIndex
<1>3. m.entries = SubSeq(n.log, from, Len(n.log)) /\ m.prevIndex = n.next[s] - 1
  BY DEF AppendEntriesTo
<1> HIDE DEF m
<1> SUFFICES ASSUME NEW j \in 1 .. Len(m.entries)
             PROVE  <<m.prevIndex + j, m.entries[j]>> \in A
  BY DEF CarriesIn, m
<1>4. Len(m.entries) = Len(n.log) - from + 1
  BY <1>1, <1>2, <1>3
<1>5. m.entries[j] = n.log[from + j - 1] /\ from + j - 1 \in 1 .. Len(n.log)
  BY <1>1, <1>2, <1>3, <1>4, SMTT(30)
<1>6. m.prevIndex + j = n.snapIndex + (from + j - 1)
  BY <1>1, <1>3
<1> QED
  BY <1>5, <1>6 DEF LogIn

(* send_snapshot() sends no entries. *)
LEMMA SendSnapshotSound ==
    ASSUME NEW A, NEW n \in Node, NEW S, Sound(n, A)
    PROVE  LET r == SendSnapshot(n, S)
           IN  Sound(r, A) /\ LastIndex(r) = LastIndex(n)
<1> DEFINE r == SendSnapshot(n, S)
<1>1. n \in NodeState /\ n.out \in [Server -> Seq(Plain)]
  BY DEF Node
<1>2. CASE ~Stored(n, n.applied)
  BY <1>2 DEF SendSnapshot
<1>3. CASE Stored(n, n.applied)
  <2>1. /\ SameDebts(n, r)
        /\ r.out = [s \in Server |-> IF s \in S THEN n.out[s] \o SnapshotOf(n)
                                                ELSE n.out[s]]
    BY <1>1, <1>3 DEF NodeState, SendSnapshot, SameDebts
  <2>2. SnapshotOf(n) \in Seq(Plain)
    BY <1>1, <1>3, SnapshotOfType
  <2>3. \A c \in DOMAIN SnapshotOf(n) : CarriesIn(SnapshotOf(n)[c], A)
    BY DEF SnapshotOf, CarriesIn
  <2> HIDE DEF r
  <2>4. OutIn(r, A)
    <3> SUFFICES ASSUME NEW t \in Server, NEW i \in DOMAIN r.out[t]
                 PROVE  CarriesIn(r.out[t][i], A)
      BY DEF OutIn
    <3>1. n.out[t] \in Seq(Plain)
      BY <1>1
    <3>2. CASE t \in S
      <4>1. r.out[t] = n.out[t] \o SnapshotOf(n)
        BY <2>1, <3>2
      <4>2. CASE i \in DOMAIN n.out[t]
        BY <2>2, <3>1, <4>1, <4>2 DEF Sound, OutIn
      <4>3. CASE i \notin DOMAIN n.out[t]
        <5>1. /\ i - Len(n.out[t]) \in DOMAIN SnapshotOf(n)
              /\ r.out[t][i] = SnapshotOf(n)[i - Len(n.out[t])]
          BY <2>2, <3>1, <4>1, <4>3
        <5> QED
          BY <2>3, <5>1
      <4> QED
        BY <4>2, <4>3
    <3>3. CASE t \notin S
      BY <2>1, <3>3 DEF Sound, OutIn
    <3> QED
      BY <3>2, <3>3
  <2> QED
    BY <2>1, <2>4, SameDebtsSound DEF r
<1> QED
  BY <1>2, <1>3

(* send_append_entries() and send_heartbeats() send what is in the log. *)
LEMMA SendAppendEntriesSound ==
    ASSUME NEW A, NEW n \in Node, NEW S, Sound(n, A)
    PROVE  LET r == SendAppendEntries(n, S)
           IN  Sound(r, A) /\ LastIndex(r) = LastIndex(n)
<1> DEFINE ready == {s \in S : Stored(n, n.next[s] - 1)}
           behind == {s \in S : n.next[s] <= n.snapIndex}
           out == [s \in Server |-> IF s \in ready
                     THEN Append(n.out[s], AppendEntriesTo(n, s))
                     ELSE n.out[s]]
           a == [n EXCEPT !.out = out]
<1>1. n \in NodeState /\ n.out \in [Server -> Seq(Plain)]
  BY DEF Node
<1>2. \A s \in Server : s \in ready => /\ AppendEntriesTo(n, s) \in Plain
                                       /\ CarriesIn(AppendEntriesTo(n, s), A)
  BY <1>1, AppendEntriesToType, AppendEntriesToCarries DEF Sound
<1>3. SendAppendEntries(n, S) = SendSnapshot(a, behind)
  BY DEF SendAppendEntries
<1> HIDE DEF ready, behind
<1>4. out \in [Server -> Seq(Plain)]
  BY <1>1, <1>2
<1>5. \A t \in Server : \A i \in DOMAIN out[t] : CarriesIn(out[t][i], A)
  <2> SUFFICES ASSUME NEW t \in Server, NEW i \in DOMAIN out[t]
               PROVE  CarriesIn(out[t][i], A)
    OBVIOUS
  <2>1. n.out[t] \in Seq(Plain)
    BY <1>1
  <2>2. CASE t \in ready
    <3>1. out[t] = Append(n.out[t], AppendEntriesTo(n, t))
      BY <2>2
    <3>2. CASE i \in DOMAIN n.out[t]
      BY <2>1, <3>1, <3>2 DEF Sound, OutIn
    <3>3. CASE i \notin DOMAIN n.out[t]
      <4>1. out[t][i] = AppendEntriesTo(n, t)
        BY <2>1, <3>1, <3>3
      <4> QED
        BY <1>2, <2>2, <4>1
    <3> QED
      BY <3>2, <3>3
  <2>3. CASE t \notin ready
    BY <2>3 DEF Sound, OutIn
  <2> QED
    BY <2>2, <2>3
<1> HIDE DEF out
<1>6. out \in [Server -> Seq(Message)]
  BY <1>4, PlainSequence
<1>7. a \in NodeState
  BY <1>1, <1>6, Zenon DEF NodeState
<1>8. SameDebts(n, a) /\ a.out = out
  BY <1>1 DEF NodeState, SameDebts
<1> HIDE DEF a
<1>9. a \in Node
  BY <1>4, <1>7, <1>8 DEF Node, SameDebts
<1>10. Sound(a, A) /\ LastIndex(a) = LastIndex(n)
  BY <1>5, <1>8, SameDebtsSound DEF OutIn
<1> QED
  BY <1>3, <1>9, <1>10, SendSnapshotSound

(* send_heartbeats() copies entries of the log only. *)
LEMMA SendHeartbeatsSound ==
    ASSUME NEW A, NEW n \in Node, Sound(n, A)
    PROVE  LET r == SendHeartbeats(n)
           IN  Sound(r, A) /\ LastIndex(r) = LastIndex(n)
<1> DEFINE a == [n EXCEPT !.round = @ + 1]
<1>1. n \in NodeState
  BY DEF Node
<1>2. n.round + 1 \in Nat
  BY <1>1, NodeFields
<1>3. a \in NodeState
  BY <1>1, <1>2, Zenon DEF NodeState
<1>4. SameDebts(n, a) /\ a.out = n.out
  BY <1>1 DEF NodeState, SameDebts
<1> HIDE DEF a
<1>5. a \in Node
  BY <1>3, <1>4 DEF Node, SameDebts
<1>6. Sound(a, A) /\ LastIndex(a) = LastIndex(n)
  BY <1>4, SameDebtsSound DEF Sound, OutIn
<1> QED
  BY <1>5, <1>6, SendAppendEntriesSound DEF SendHeartbeats, a

(* evaluate_read_barriers() answers reads and no proposal. *)
LEMMA EvaluateReadBarriersSound ==
    ASSUME NEW A, NEW n \in Node, Sound(n, A)
    PROVE  LET r == EvaluateReadBarriers(n)
           IN  Sound(r, A) /\ LastIndex(r) = LastIndex(n)
<1> DEFINE r == EvaluateReadBarriers(n)
<1>1. n \in NodeState
  BY DEF Node
<1>2. /\ r.log = n.log /\ r.snapIndex = n.snapIndex /\ r.applied = n.applied
      /\ r.pending = n.pending /\ r.role = n.role /\ r.out = n.out
      /\ r.barriers \subseteq n.barriers
      /\ \A c \in r.told : c \in n.told \/ c.type = "ReadServed"
  BY <1>1 DEF NodeState, EvaluateReadBarriers
<1> HIDE DEF r
<1>3. LogIn(r, A) /\ OutIn(r, A) /\ LastIndex(r) = LastIndex(n)
  BY <1>2 DEF Sound, LogIn, OutIn, LastIndex
<1>4. Owed(r) /\ ToldOwn(r)
  BY <1>2 DEF Sound, Owed, ToldOwn
<1>5. Backed(r)
  BY <1>2, <1>3 DEF Sound, Backed
<1> QED
  BY <1>3, <1>4, <1>5 DEF Sound, r

(* The loop of apply_committed() completes a proposal with its own entry   *)
(* and leaves those that wait for later ones.                              *)
LEMMA ExecutedSound ==
    ASSUME NEW A, NEW n \in Node, Sound(n, A), NEW upto \in Nat,
           n.applied <= upto, n.applied < upto => upto <= LastIndex(n)
    PROVE  Sound(Executed(n, upto), A)
<1> DEFINE finished == {p \in n.pending : p.index \in n.applied + 1 .. upto}
           done(p) == [type |-> "Applied", term |-> n.term, index |-> p.index,
                       command |-> p.value, value |-> ValueAt(n, p.index)]
           r == Executed(n, upto)
<1>1. n \in NodeState
  BY DEF Node
<1>2. /\ n.applied \in Nat /\ LastIndex(n) \in Nat
      /\ \A p \in n.pending : p.index \in Nat
  BY <1>1, NodeFields, LastIndexType DEF PendingProposal
<1>3. /\ r.log = n.log /\ r.snapIndex = n.snapIndex /\ r.applied = upto
      /\ r.out = n.out /\ r.role = n.role /\ r.barriers = n.barriers
      /\ r.pending = n.pending \ finished
      /\ r.told = n.told \cup {done(p) : p \in finished}
  BY <1>1 DEF NodeState, Executed
<1>4. \A p \in finished : done(p).command = done(p).value
  BY <1>2 DEF Sound, Backed, ValueAt
<1>5. \A p \in n.pending \ finished : p.index > upto => p.index > n.applied
  BY <1>2
<1> HIDE DEF r, finished, done
<1>6. LastIndex(r) = LastIndex(n)
  BY <1>3 DEF LastIndex
<1>7. ToldOwn(r)
  <2>1. \A c \in r.told : c \in n.told \/ \E p \in finished : c = done(p)
    BY <1>3
  <2> QED
    BY <1>4, <2>1 DEF ToldOwn, Sound
<1>8. Backed(r)
  BY <1>3, <1>5, <1>6 DEF Sound, Backed
<1> QED
  BY <1>3, <1>7, <1>8 DEF Sound, LogIn, OutIn, Owed, r

(* apply_committed() leaves the log alone and completes nothing but        *)
(* proposals whose entry it applied.                                       *)
LEMMA ApplyCommittedSound ==
    ASSUME NEW A, NEW n \in Node, Sound(n, A), NEW limit \in Nat
    PROVE  LET r == ApplyCommitted(n, limit)
           IN  Sound(r, A) /\ LastIndex(r) = LastIndex(n)
<1>1. PICK upto \in Nat :
        LET r == Executed(n, upto)
            f == [r EXCEPT !.pending = {p \in @ : p.index <= upto},
                           !.barriers = {}]
        IN  /\ n.applied <= upto
            /\ n.applied < upto => upto <= LastIndex(n) /\ upto <= n.commit
            /\ ApplyCommitted(n, limit) \in {f, r, EvaluateReadBarriers(r)}
  BY ApplyCommittedCases
<1> DEFINE r == Executed(n, upto)
           f == [r EXCEPT !.pending = {p \in @ : p.index <= upto},
                          !.barriers = {}]
<1>2. ApplyCommitted(n, limit) \in {f, r, EvaluateReadBarriers(r)}
  BY <1>1
<1>3. /\ r \in Node /\ r.log = n.log /\ r.snapIndex = n.snapIndex
  BY <1>1, ExecutedType
<1>4. Sound(r, A)
  BY <1>1, ExecutedSound
<1> HIDE DEF r
<1>5. LastIndex(r) = LastIndex(n)
  BY <1>3 DEF LastIndex
<1>6. /\ f.log = r.log /\ f.snapIndex = r.snapIndex /\ f.out = r.out
      /\ f.role = r.role /\ f.barriers = {} /\ f.told = r.told
      /\ f.applied = r.applied
      /\ f.pending = {p \in r.pending : p.index <= upto}
  BY <1>3 DEF Node, NodeState
<1> HIDE DEF f
<1>7. Sound(f, A) /\ LastIndex(f) = LastIndex(r)
  BY <1>4, <1>6 DEF Sound, LogIn, OutIn, Owed, Backed, ToldOwn, LastIndex
<1> QED
  BY <1>2, <1>3, <1>4, <1>5, <1>7, EvaluateReadBarriersSound

(* advance_commit() *)
LEMMA AdvanceCommitSound ==
    ASSUME NEW A, NEW n \in Node, Sound(n, A), NEW limit \in Nat
    PROVE  LET r == AdvanceCommit(n, limit)
           IN  Sound(r, A) /\ LastIndex(r) = LastIndex(n)
<1> DEFINE k == QuorumMatchIndex(n)
           a == [n EXCEPT !.commit = k]
           r == ApplyCommitted(a, limit)
<1>1. n \in NodeState
  BY DEF Node
<1>2. AdvanceCommit(n, limit)
        = IF k \in n.commit + 1 .. LastIndex(n) /\ TermAt(n, k) = n.term
          THEN IF ApplyFailed(r) \/ Peers(n) = {} THEN r
               ELSE SendHeartbeats(r)
          ELSE n
  BY DEF AdvanceCommit
<1> HIDE DEF k
<1>3. CASE k \in n.commit + 1 .. LastIndex(n)
  <2>1. k \in Nat
    BY <1>1, <1>3, NodeFields, LastIndexType
  <2>2. a \in NodeState
    BY <1>1, <2>1, Zenon DEF NodeState
  <2>3. SameDebts(n, a) /\ a.out = n.out
    BY <1>1 DEF NodeState, SameDebts
  <2> HIDE DEF a
  <2>4. a \in Node /\ Sound(a, A) /\ LastIndex(a) = LastIndex(n)
    BY <2>2, <2>3, SameDebtsSound DEF Node, SameDebts, Sound, OutIn
  <2>5. r \in Node /\ Sound(r, A) /\ LastIndex(r) = LastIndex(n)
    BY <2>4, ApplyCommittedType, ApplyCommittedSound
  <2> HIDE DEF r
  <2> QED
    BY <1>2, <2>5, SendHeartbeatsSound
<1>4. CASE k \notin n.commit + 1 .. LastIndex(n)
  BY <1>2, <1>4
<1> QED
  BY <1>3, <1>4

(* maybe_compact_log() drops applied entries, which nobody waits for. *)
LEMMA MaybeCompactSound ==
    ASSUME NEW A, NEW n \in Node, Sound(n, A)
    PROVE  LET r == MaybeCompact(n)
           IN  Sound(r, A) /\ LastIndex(r) = LastIndex(n)
<1> DEFINE from == n.applied - n.snapIndex
           r == [n EXCEPT !.snapIndex = n.applied,
                          !.snapTerm = TermAt(n, n.applied),
                          !.log = SubSeq(@, n.applied - n.snapIndex + 1, Len(@))]
<1>1. n \in NodeState
  BY DEF Node
<1>2. CASE n.applied > n.snapIndex /\ Stored(n, n.applied)
  <2>1. /\ n.log \in Seq(Entry) /\ n.snapIndex \in Nat /\ n.applied \in Nat
        /\ LastIndex(n) = n.snapIndex + Len(n.log)
    BY <1>1, NodeFields DEF LastIndex
  <2>2. from \in 1 .. Len(n.log) /\ n.applied = n.snapIndex + from
    BY <1>2, <2>1 DEF Stored
  <2>3. /\ r.snapIndex = n.applied /\ r.applied = n.applied
        /\ r.log = SubSeq(n.log, from + 1, Len(n.log))
        /\ r.out = n.out /\ r.role = n.role /\ r.told = n.told
        /\ r.pending = n.pending /\ r.barriers = n.barriers
    BY <1>1 DEF NodeState
  <2>4. MaybeCompact(n) \in {n, r}
    BY Zenon DEF MaybeCompact
  <2> HIDE DEF r, from
  <2>5. /\ Len(r.log) = Len(n.log) - from
        /\ \A i \in 1 .. Len(r.log) :
             /\ r.log[i] = n.log[from + i] /\ from + i \in 1 .. Len(n.log)
             /\ r.snapIndex + i = n.snapIndex + (from + i)
    <3>1. Len(r.log) = Len(n.log) - from
      BY <2>1, <2>2, <2>3
    <3>2. \A i \in 1 .. Len(r.log) :
             r.log[i] = n.log[from + i] /\ from + i \in 1 .. Len(n.log)
      BY <2>1, <2>2, <2>3
    <3>3. \A i \in 1 .. Len(r.log) : r.snapIndex + i = n.snapIndex + (from + i)
      BY <2>1, <2>2, <2>3
    <3> QED
      BY <3>1, <3>2, <3>3
  <2>6. LastIndex(r) = LastIndex(n)
    BY <2>1, <2>2, <2>3, <2>5 DEF LastIndex
  <2>7. LogIn(r, A)
    BY <2>5 DEF Sound, LogIn
  <2>8. Backed(r)
    <3> SUFFICES ASSUME NEW p \in r.pending, p.index > r.applied
                 PROVE  /\ p.index <= LastIndex(r)
                        /\ r.log[p.index - r.snapIndex].value = p.value
      BY DEF Backed
    <3>1. /\ p.index \in Nat /\ p.index > n.applied /\ p.index <= LastIndex(n)
          /\ n.log[p.index - n.snapIndex].value = p.value
      BY <1>1, <2>3, NodeFields DEF Sound, Backed, PendingProposal
    <3>2. /\ p.index - r.snapIndex \in 1 .. Len(r.log)
          /\ from + (p.index - r.snapIndex) = p.index - n.snapIndex
      <4>1. /\ p.index \in Int /\ Len(n.log) \in Nat /\ from \in Nat
            /\ n.applied + 1 <= p.index /\ p.index <= n.snapIndex + Len(n.log)
        BY <2>1, <2>2, <3>1
      <4>2. Len(r.log) = Len(n.log) - from /\ r.snapIndex = n.snapIndex + from
        BY <2>2, <2>3, <2>5
      <4> QED
        BY <2>1, <2>2, <4>1, <4>2, SMTT(30)
    <3> QED
      BY <2>3, <2>5, <2>6, <3>1, <3>2
  <2>9. OutIn(r, A) /\ Owed(r) /\ ToldOwn(r)
    BY <2>3 DEF Sound, OutIn, Owed, ToldOwn
  <2> QED
    BY <2>4, <2>6, <2>7, <2>8, <2>9 DEF Sound
<1>3. CASE ~(n.applied > n.snapIndex /\ Stored(n, n.applied))
  BY <1>3 DEF MaybeCompact
<1> QED
  BY <1>2, <1>3

(* The end of tick() *)
LEMMA AfterTickSound ==
    ASSUME NEW A, NEW n \in Node, Sound(n, A), NEW limit \in Nat
    PROVE  LET r == AfterTick(n, limit)
           IN  Sound(r, A) /\ LastIndex(r) = LastIndex(n)
<1>1. /\ ApplyCommitted(n, limit) \in Node
      /\ Sound(ApplyCommitted(n, limit), A)
      /\ LastIndex(ApplyCommitted(n, limit)) = LastIndex(n)
  BY ApplyCommittedType, ApplyCommittedSound
<1> QED
  BY <1>1, MaybeCompactSound DEF AfterTick

-----------------------------------------------------------------------------

(* What is sound for some places is sound for more. *)
LEMMA SoundGrows ==
    ASSUME NEW A, NEW B, A \subseteq B, NEW n, Sound(n, A)
    PROVE  Sound(n, B)
BY DEF Sound, LogIn, OutIn, CarriesIn

(* become_follower() gives up what a leader owes. *)
LEMMA BecomeFollowerSound ==
    ASSUME NEW A, NEW n \in Node, Sound(n, A), NEW term, NEW leader
    PROVE  LET r == BecomeFollower(n, term, leader)
           IN  /\ Sound(r, A) /\ LastIndex(r) = LastIndex(n)
               /\ r.pending = {} /\ r.barriers = {}
<1> DEFINE r == BecomeFollower(n, term, leader)
<1>1. n \in NodeState
  BY DEF Node
<1>2. /\ r.log = n.log /\ r.snapIndex = n.snapIndex /\ r.out = n.out
      /\ r.told = n.told
      /\ r.pending = IF n.role = "Leader" THEN {} ELSE n.pending
      /\ r.barriers = IF n.role = "Leader" THEN {} ELSE n.barriers
  BY <1>1 DEF NodeState, BecomeFollower
<1>3. n.role # "Leader" => n.pending = {} /\ n.barriers = {}
  BY DEF Sound, Owed
<1> HIDE DEF r
<1>4. r.pending = {} /\ r.barriers = {}
  BY <1>2, <1>3
<1>5. Sound(r, A) /\ LastIndex(r) = LastIndex(n)
  BY <1>2, <1>4 DEF Sound, LogIn, OutIn, Owed, Backed, ToldOwn, LastIndex
<1> QED
  BY <1>4, <1>5 DEF r

(* initialize_leader_progress() *)
LEMMA InitializeLeaderProgressSound ==
    ASSUME NEW A, NEW n \in Node, Sound(n, A)
    PROVE  LET r == InitializeLeaderProgress(n)
           IN  Sound(r, A) /\ LastIndex(r) = LastIndex(n)
<1> DEFINE r == InitializeLeaderProgress(n)
<1>1. /\ r.log = n.log /\ r.snapIndex = n.snapIndex /\ r.out = n.out
      /\ r.told = n.told /\ r.pending = n.pending /\ r.barriers = n.barriers
      /\ r.applied = n.applied /\ r.role = "Leader"
  BY DEF Node, NodeState, InitializeLeaderProgress
<1> HIDE DEF r
<1>2. Sound(r, A) /\ LastIndex(r) = LastIndex(n)
  BY <1>1 DEF Sound, LogIn, OutIn, Owed, Backed, ToldOwn, LastIndex
<1> QED
  BY <1>2 DEF r

(* The place of the next entry a leader appends. *)
NewPlace(n, value) ==
    <<LastIndex(n) + 1, [term |-> n.term, value |-> value]>>

(* A leader's append adds one place, at the end of its log. *)
LEMMA AppendOwnSound ==
    ASSUME NEW A, NEW n \in Node, Sound(n, A), NEW value \in Command
    PROVE  LET r == AppendOwn(n, value)
           IN  /\ Sound(r, A \cup {NewPlace(n, value)})
               /\ LastIndex(r) = LastIndex(n) + 1
               /\ r.log[LastIndex(r) - r.snapIndex].value = value
               /\ r.snapIndex = n.snapIndex /\ r.applied = n.applied
               /\ r.pending = n.pending /\ r.barriers = n.barriers
<1> DEFINE r == AppendOwn(n, value)
           e == [term |-> n.term, value |-> value]
           B == A \cup {NewPlace(n, value)}
<1>1. n \in NodeState /\ n.snapIndex <= n.applied
  BY DEF Node
<1>2. /\ n.log \in Seq(Entry) /\ n.snapIndex \in Nat /\ n.applied \in Nat
      /\ LastIndex(n) = n.snapIndex + Len(n.log)
      /\ \A p \in n.pending : p.index \in Nat
  BY <1>1, NodeFields DEF LastIndex, PendingProposal
<1>3. e \in Entry
  BY <1>1, NodeFields DEF Entry
<1>4. /\ r.log = Append(n.log, e) /\ r.snapIndex = n.snapIndex
      /\ r.out = n.out /\ r.told = n.told /\ r.pending = n.pending
      /\ r.barriers = n.barriers /\ r.applied = n.applied /\ r.role = n.role
  BY <1>1 DEF NodeState, AppendOwn
<1>5. e.value = value /\ NewPlace(n, value) = <<LastIndex(n) + 1, e>>
  BY DEF NewPlace
<1> HIDE DEF r, e
<1>6. /\ Len(r.log) = Len(n.log) + 1 /\ r.log[Len(n.log) + 1] = e
      /\ \A i \in 1 .. Len(n.log) : r.log[i] = n.log[i]
  BY <1>2, <1>3, <1>4
<1>7. LastIndex(r) = LastIndex(n) + 1 /\ LastIndex(r) - r.snapIndex = Len(n.log) + 1
  BY <1>2, <1>4, <1>6 DEF LastIndex
<1>8. LogIn(r, B)
  <2> SUFFICES ASSUME NEW i \in 1 .. Len(r.log)
               PROVE  <<r.snapIndex + i, r.log[i]>> \in B
    BY DEF LogIn
  <2>1. CASE i = Len(n.log) + 1
    <3>1. r.snapIndex + i = LastIndex(n) + 1
      <4>1. Len(n.log) \in Nat /\ n.snapIndex \in Nat
        BY <1>2
      <4>2. n.snapIndex + (Len(n.log) + 1) = (n.snapIndex + Len(n.log)) + 1
        BY <4>1
      <4> QED
        BY <1>2, <1>4, <2>1, <4>2
    <3>2. r.log[i] = e
      BY <1>6, <2>1
    <3> QED
      BY <1>5, <3>1, <3>2
  <2>2. CASE i # Len(n.log) + 1
    <3>1. i \in 1 .. Len(n.log)
      BY <1>2, <1>6, <2>2
    <3> QED
      BY <1>4, <1>6, <3>1 DEF Sound, LogIn
  <2> QED
    BY <2>1, <2>2
<1>9. OutIn(r, B) /\ Owed(r) /\ ToldOwn(r)
  BY <1>4 DEF Sound, OutIn, CarriesIn, Owed, ToldOwn
<1>10. Backed(r)
  <2> SUFFICES ASSUME NEW p \in r.pending, p.index > r.applied
               PROVE  /\ p.index <= LastIndex(r)
                      /\ r.log[p.index - r.snapIndex].value = p.value
    BY DEF Backed
  <2>1. /\ p.index <= LastIndex(n) /\ p.index \in Nat
        /\ n.log[p.index - n.snapIndex].value = p.value
    BY <1>2, <1>4 DEF Sound, Backed
  <2>2. p.index - n.snapIndex \in 1 .. Len(n.log)
    BY <1>1, <1>2, <1>4, <2>1
  <2> QED
    BY <1>2, <1>4, <1>6, <1>7, <2>1, <2>2
<1> QED
  BY <1>4, <1>5, <1>6, <1>7, <1>8, <1>9, <1>10 DEF Sound, r

(* become_leader() adds the place of its no-op. *)
LEMMA BecomeLeaderSound ==
    ASSUME NEW A, NEW n \in Node, Sound(n, A), NEW limit \in Nat
    PROVE  LET r == BecomeLeader(n, limit)
           IN  /\ Sound(r, A \cup {NewPlace(n, NoOp)})
               /\ LastIndex(r) = LastIndex(n) + 1
<1> DEFINE i == InitializeLeaderProgress(n)
           a == AppendOwn(i, NoOp)
           h == SendHeartbeats(a)
           B == A \cup {NewPlace(n, NoOp)}
<1>1. i \in Node /\ i.term = n.term /\ Sound(i, A) /\ LastIndex(i) = LastIndex(n)
  BY InitializeLeaderProgressType, InitializeLeaderProgressSound
<1>2. NoOp \in Command
  BY DEF Command
<1> HIDE DEF i
<1>3. NewPlace(i, NoOp) = NewPlace(n, NoOp)
  BY <1>1 DEF NewPlace
<1>4. a \in Node /\ Sound(a, B) /\ LastIndex(a) = LastIndex(n) + 1
  BY <1>1, <1>2, <1>3, AppendOwnType, AppendOwnSound
<1> HIDE DEF a, B
<1>5. h \in Node /\ Sound(h, B) /\ LastIndex(h) = LastIndex(n) + 1
  BY <1>4, SendHeartbeatsType, SendHeartbeatsSound
<1> HIDE DEF h
<1>6. /\ Sound(AdvanceCommit(h, limit), B)
      /\ LastIndex(AdvanceCommit(h, limit)) = LastIndex(n) + 1
  BY <1>5, AdvanceCommitSound
<1>7. BecomeLeader(n, limit) = AdvanceCommit(h, limit)
  BY DEF BecomeLeader, i, a, h
<1> QED
  BY <1>6, <1>7 DEF B

(* So does an election won whose first entry cannot be written. *)
LEMMA BecomeLeaderFailedSound ==
    ASSUME NEW A, NEW n \in Node, Sound(n, A)
    PROVE  LET r == BecomeLeaderFailed(n)
           IN  Sound(r, A) /\ LastIndex(r) = LastIndex(n)
<1> DEFINE i == InitializeLeaderProgress(n)
<1>1. i \in Node /\ Sound(i, A) /\ LastIndex(i) = LastIndex(n)
  BY InitializeLeaderProgressType, InitializeLeaderProgressSound
<1> HIDE DEF i
<1> QED
  BY <1>1, BecomeFollowerSound DEF BecomeLeaderFailed, i

(* start_election() of a node that is no leader and so owes nothing. *)
LEMMA CampaignSound ==
    ASSUME NEW A, NEW n \in Node, Sound(n, A), n.role # "Leader"
    PROVE  LET r == Campaign(n)
           IN  Sound(r, A) /\ LastIndex(r) = LastIndex(n)
<1> DEFINE r == Campaign(n)
<1>1. /\ r.log = n.log /\ r.snapIndex = n.snapIndex /\ r.out = n.out
      /\ r.told = n.told /\ r.pending = n.pending /\ r.barriers = n.barriers
      /\ r.applied = n.applied
  BY DEF Node, NodeState, Campaign
<1>2. n.pending = {} /\ n.barriers = {}
  BY DEF Sound, Owed
<1> HIDE DEF r
<1>3. Sound(r, A) /\ LastIndex(r) = LastIndex(n)
  BY <1>1, <1>2 DEF Sound, LogIn, OutIn, Owed, Backed, ToldOwn, LastIndex
<1> QED
  BY <1>3 DEF r

(* A request for a vote carries no entry. *)
LEMMA RequestVotesSound ==
    ASSUME NEW A, NEW n \in Node, Sound(n, A)
    PROVE  LET r == RequestVotes(n)
           IN  Sound(r, A) /\ LastIndex(r) = LastIndex(n)
<1> DEFINE m == [type |-> "RequestVote", term |-> n.term,
                 lastIndex |-> LastIndex(n), lastTerm |-> LastTerm(n)]
           out == [s \in Server |-> IF s \in Peers(n)
                                    THEN Append(n.out[s], m) ELSE n.out[s]]
           r == RequestVotes(n)
<1>1. n \in NodeState /\ n.out \in [Server -> Seq(Plain)]
  BY DEF Node
<1>2. SameDebts(n, r) /\ r.out = out
  BY <1>1 DEF NodeState, RequestVotes, SameDebts
<1>3. CarriesIn(m, A)
  BY DEF CarriesIn
<1> HIDE DEF r, m
<1>4. OutIn(r, A)
  <2> SUFFICES ASSUME NEW t \in Server, NEW i \in DOMAIN out[t]
               PROVE  CarriesIn(out[t][i], A)
    BY <1>2 DEF OutIn
  <2>1. n.out[t] \in Seq(Plain)
    BY <1>1
  <2>2. CASE t \in Peers(n)
    <3>1. out[t] = Append(n.out[t], m)
      BY <2>2
    <3>2. CASE i \in DOMAIN n.out[t]
      <4>1. out[t][i] = n.out[t][i]
        BY <2>1, <3>1, <3>2
      <4> QED
        BY <3>2, <4>1 DEF Sound, OutIn
    <3>3. CASE i \notin DOMAIN n.out[t]
      <4>1. out[t][i] = m
        BY <2>1, <3>1, <3>3
      <4> QED
        BY <1>3, <4>1
    <3> QED
      BY <3>2, <3>3
  <2>3. CASE t \notin Peers(n)
    BY <2>3 DEF Sound, OutIn
  <2> QED
    BY <2>2, <2>3
<1> QED
  BY <1>2, <1>4, SameDebtsSound DEF r

(* Heeding a leader ends with nothing owed. *)
LEMMA HeedSound ==
    ASSUME NEW A, NEW n \in Node, Sound(n, A), NEW m, NEW f
    PROVE  LET r == Heed(n, m, f)
           IN  /\ Sound(r, A) /\ LastIndex(r) = LastIndex(n)
               /\ r.pending = {} /\ r.barriers = {} /\ r.role = "Follower"
<1> DEFINE b == BecomeFollower(n, m.term, f)
           k == [n EXCEPT !.leader = f]
<1>1. CASE m.term > n.term \/ n.role # "Follower"
  <2>1. Heed(n, m, f) = b
    BY <1>1 DEF Heed
  <2>2. b.role = "Follower"
    BY DEF BecomeFollower, Node, NodeState
  <2> QED
    BY <2>1, <2>2, BecomeFollowerSound
<1>2. CASE ~(m.term > n.term \/ n.role # "Follower")
  <2>1. Heed(n, m, f) = k
    BY <1>2 DEF Heed
  <2>2. SameDebts(n, k) /\ k.out = n.out
    BY DEF Node, NodeState, SameDebts
  <2>3. n.pending = {} /\ n.barriers = {} /\ n.role = "Follower"
    BY <1>2 DEF Sound, Owed
  <2> HIDE DEF k
  <2> QED
    BY <2>1, <2>2, <2>3, SameDebtsSound DEF SameDebts, Sound, OutIn
<1> QED
  BY <1>1, <1>2

(* The loop of handle_append_entries() stores entries of the request, each *)
(* at the index it has there.                                              *)
LEMMA MergeSound ==
    ASSUME NEW A, NEW n \in Node, Sound(n, A), n.pending = {}, n.barriers = {},
           NEW m \in AppendEntriesRequest, CarriesIn(m, A),
           m.type = "AppendEntries",
           NEW k \in 0 .. Len(m.entries), Consistent(n, m)
    PROVE  LET r == Merge(n, m, k)
           IN  Sound(r, A) /\ r.pending = {} /\ r.barriers = {}
<1> DEFINE kept(p) == \A j \in {j \in 1 .. k : ConflictAt(n, m, j)} :
                        p.index < m.prevIndex + j
           log == TruncateSuffix(n, m.prevIndex + 1)
                    \o SubSeq(m.entries, 1, k)
           r == [n EXCEPT !.log = log, !.pending = {p \in @ : kept(p)}]
<1>1. n \in NodeState
  BY DEF Node
<1>2. n.log \in Seq(Entry) /\ n.snapIndex \in Nat
  BY <1>1, NodeFields
<1>3. m.entries \in Seq(Entry) /\ m.prevIndex \in Nat
  BY DEF AppendEntriesRequest
<1> DEFINE at == m.prevIndex - n.snapIndex
<1>4. at \in 0 .. Len(n.log) /\ m.prevIndex = n.snapIndex + at
  BY <1>2, <1>3 DEF Consistent, Stored, LastIndex
<1>5. Merge(n, m, k) \in {n, r}
  BY DEF Merge
<1>6. log = SubSeq(n.log, 1, at) \o SubSeq(m.entries, 1, k)
  <2>1. (m.prevIndex + 1) - 1 - n.snapIndex = at
    BY <1>2, <1>3
  <2> HIDE DEF at
  <2> QED
    BY <2>1, Zenon DEF TruncateSuffix
<1>7. /\ r.log = log /\ r.snapIndex = n.snapIndex /\ r.out = n.out
      /\ r.told = n.told /\ r.barriers = n.barriers /\ r.applied = n.applied
      /\ r.pending \subseteq n.pending /\ r.role = n.role
  <2> HIDE DEF log, kept
  <2> QED
    BY <1>1 DEF NodeState
<1> HIDE DEF r, log, at
<1>8. LogIn(r, A)
  <2>1. /\ Len(log) = at + k
        /\ \A i \in 1 .. at : log[i] = n.log[i]
        /\ \A j \in 1 .. k : log[at + j] = m.entries[j]
    BY <1>2, <1>3, <1>4, <1>6
  <2> SUFFICES ASSUME NEW i \in 1 .. Len(log)
               PROVE  <<n.snapIndex + i, log[i]>> \in A
    BY <1>7 DEF LogIn
  <2>2. CASE i <= at
    <3>1. i \in 1 .. at /\ i \in 1 .. Len(n.log)
      BY <1>2, <1>4, <2>2
    <3> QED
      BY <2>1, <3>1 DEF Sound, LogIn
  <2>3. CASE i > at
    <3>1. /\ i - at \in 1 .. k /\ i - at \in 1 .. Len(m.entries)
          /\ at + (i - at) = i /\ n.snapIndex + i = m.prevIndex + (i - at)
      BY <1>2, <1>3, <1>4, <2>1, <2>3, SMTT(30)
    <3> QED
      BY <2>1, <3>1 DEF CarriesIn
  <2> QED
    BY <1>4, <2>2, <2>3
<1>9. r.pending = {} /\ r.barriers = {}
  BY <1>7
<1>10. Sound(r, A)
  BY <1>7, <1>8, <1>9 DEF Sound, OutIn, Owed, Backed, ToldOwn
<1> QED
  BY <1>5, <1>9, <1>10

(* Cutting the end of a log adds no place. *)
LEMMA CutSound ==
    ASSUME NEW A, NEW n \in Node, Sound(n, A), n.pending = {}, n.barriers = {},
           NEW cut \in 0 .. Len(n.log)
    PROVE  LET r == [n EXCEPT !.log = SubSeq(@, 1, cut)]
           IN  Sound(r, A) /\ r.pending = {} /\ r.barriers = {}
<1> DEFINE r == [n EXCEPT !.log = SubSeq(@, 1, cut)]
<1>1. n.log \in Seq(Entry)
  BY NodeFields DEF Node
<1>2. /\ r.log = SubSeq(n.log, 1, cut) /\ r.snapIndex = n.snapIndex
      /\ r.out = n.out /\ r.told = n.told /\ r.barriers = n.barriers
      /\ r.pending = n.pending
  BY DEF Node, NodeState
<1> HIDE DEF r
<1>3. \A i \in 1 .. Len(r.log) : i \in 1 .. Len(n.log) /\ r.log[i] = n.log[i]
  BY <1>1, <1>2
<1>4. LogIn(r, A)
  BY <1>2, <1>3 DEF Sound, LogIn
<1> QED
  BY <1>2, <1>4 DEF Sound, OutIn, Owed, Backed, ToldOwn, r

(* LogStore::install_snapshot() keeps entries of the log where they are. *)
LEMMA InstallBoundarySound ==
    ASSUME NEW A, NEW n \in Node, Sound(n, A), n.pending = {}, n.barriers = {},
           NEW index \in Nat, NEW term \in Nat, n.snapIndex <= index
    PROVE  LET r == InstallBoundary(n, index, term)
           IN  Sound(r, A) /\ r.pending = {} /\ r.barriers = {}
<1> DEFINE from == MinOf(index - n.snapIndex, Len(n.log))
           r == InstallBoundary(n, index, term)
<1>1. n.log \in Seq(Entry) /\ n.snapIndex \in Nat
  BY NodeFields DEF Node
<1>2. /\ r.log = SubSeq(n.log, from + 1, Len(n.log)) /\ r.snapIndex = index
      /\ r.out = n.out /\ r.told = n.told /\ r.barriers = n.barriers
      /\ r.pending = n.pending
  BY DEF Node, NodeState, InstallBoundary
<1>3. /\ from \in 0 .. Len(n.log)
      /\ from < Len(n.log) => index = n.snapIndex + from
  BY <1>1 DEF MinOf
<1> HIDE DEF r, from
<1>4. Len(r.log) = Len(n.log) - from
  BY <1>1, <1>2, <1>3
<1>5. \A i \in 1 .. Len(r.log) :
         r.log[i] = n.log[from + i] /\ from + i \in 1 .. Len(n.log)
  BY <1>1, <1>2, <1>3, <1>4
<1>6. \A i \in 1 .. Len(r.log) : r.snapIndex + i = n.snapIndex + (from + i)
  <2> TAKE i \in 1 .. Len(r.log)
  <2>1. Len(n.log) \in Nat /\ from \in Nat /\ i \in Nat /\ from < Len(n.log)
    BY <1>1, <1>3, <1>4
  <2>2. r.snapIndex = n.snapIndex + from /\ n.snapIndex \in Nat
    BY <1>1, <1>2, <1>3, <2>1
  <2> QED
    BY <2>1, <2>2
<1>7. LogIn(r, A)
  BY <1>5, <1>6 DEF Sound, LogIn
<1> QED
  BY <1>2, <1>7 DEF Sound, OutIn, Owed, Backed, ToldOwn, r

-----------------------------------------------------------------------------
(* The invariant. *)

(* Entry e is stored or on its way somewhere, at index k. *)
Written(k, e) ==
    \/ \E s \in Server : \E i \in 1 .. Len(node[s].log) :
         k = node[s].snapIndex + i /\ e = node[s].log[i]
    \/ \E f, s \in Server : \E i \in DOMAIN net[f][s] :
         /\ net[f][s][i].type = "AppendEntries"
         /\ \E j \in 1 .. Len(net[f][s][i].entries) :
              /\ k = net[f][s][i].prevIndex + j
              /\ e = net[f][s][i].entries[j]

Places == {x \in Nat \X Entry : Written(x[1], x[2])}

(* Every entry comes from a leader of its term. *)
WrittenByElected ==
    \A x \in Places : \E e \in elected : e[2] = x[2].term
(* One index and one term have one entry. *)
OneEntryAPlace ==
    \A x, y \in Places : x[1] = y[1] /\ x[2].term = y[2].term => x = y
(* What is written in the term of a leader is not behind its log. *)
LeaderIsAhead ==
    \A s \in Server : node[s].role = "Leader" =>
      \A x \in Places :
        x[2].term = node[s].term => x[1] <= LastIndex(node[s])
(* A server that was elected reached the term; a candidate of a term has   *)
(* not been its leader.                                                    *)
ElectedBefore ==
    /\ \A e \in elected : e[2] <= node[e[1]].term
    /\ \A s \in Server : node[s].role = "Candidate" =>
         <<s, node[s].term>> \notin elected
DebtsBacked == \A s \in Server : Owed(node[s]) /\ Backed(node[s])

LogInv ==
    /\ WrittenByElected /\ OneEntryAPlace /\ LeaderIsAhead /\ ElectedBefore
    /\ DebtsBacked /\ CompletedOwnEntry

(* What the step of server s that ends as n may do: new are the places it  *)
(* adds, one at the end of the log of a leader.                            *)
LogStep(s, n, new) ==
    /\ n \in NodeState /\ Sound(n, Places \cup new)
    /\ n.term >= node[s].term
    /\ n.role = "Candidate" => <<s, n.term>> \notin elected
    /\ n.role = "Leader" =>
         \/ /\ node[s].role = "Leader" /\ n.term = node[s].term
            /\ LastIndex(n) >= LastIndex(node[s])
         \/ <<s, n.term>> \notin elected
    /\ \A x \in new : /\ n.role = "Leader" /\ x[2].term = n.term
                      /\ x[1] = LastIndex(n) /\ x[1] > LastIndex(node[s])
    /\ \A x, y \in new : x = y

(* The entries of a log and of a message in flight are places. *)
LEMMA KnownPlaces ==
    ASSUME Inv
    PROVE  /\ \A s \in Server : LogIn(node[s], Places)
           /\ \A f, s \in Server : \A i \in DOMAIN net[f][s] :
                CarriesIn(net[f][s][i], Places)
<1>1. ASSUME NEW s \in Server PROVE LogIn(node[s], Places)
  <2> SUFFICES ASSUME NEW i \in 1 .. Len(node[s].log)
               PROVE  <<node[s].snapIndex + i, node[s].log[i]>> \in Places
    BY DEF LogIn
  <2>1. node[s].log \in Seq(Entry) /\ node[s].snapIndex \in Nat
    BY NodeFields DEF Inv, TypeInv, TypeOK
  <2>2. <<node[s].snapIndex + i, node[s].log[i]>> \in Nat \X Entry
    BY <2>1
  <2>3. Written(node[s].snapIndex + i, node[s].log[i])
    BY DEF Written
  <2> QED
    BY <2>2, <2>3 DEF Places
<1>2. ASSUME NEW f \in Server, NEW s \in Server, NEW i \in DOMAIN net[f][s]
      PROVE  CarriesIn(net[f][s][i], Places)
  <2> DEFINE m == net[f][s][i]
  <2> SUFFICES ASSUME m.type = "AppendEntries", NEW j \in 1 .. Len(m.entries)
               PROVE  <<m.prevIndex + j, m.entries[j]>> \in Places
    BY DEF CarriesIn
  <2>1. net[f][s] \in Seq(Message)
    BY DEF Inv, TypeInv, TypeOK
  <2>2. m \in Message
    BY <2>1
  <2>3. m \in AppendEntriesRequest
    <3> HIDE DEF m
    <3> QED
      BY <2>2, MessageOfType
  <2>4. m.entries \in Seq(Entry) /\ m.prevIndex \in Nat
    <3> HIDE DEF m
    <3> QED
      BY <2>3 DEF AppendEntriesRequest
  <2>5. <<m.prevIndex + j, m.entries[j]>> \in Nat \X Entry
    <3> HIDE DEF m
    <3> QED
      BY <2>4
  <2>6. Written(m.prevIndex + j, m.entries[j])
    BY DEF Written
  <2> QED
    BY <2>5, <2>6 DEF Places
<1> QED
  BY <1>1, <1>2

(* A place after the step was one before or is new. *)
LEMMA BecomePlaces ==
    ASSUME Inv, NEW s \in Server, NEW n \in NodeState, NEW A,
           LogIn(n, A), OutIn(n, A), Places \subseteq A,
           NEW wire \in Wire, PartOf(wire), Become(s, n, wire)
    PROVE  Places' \subseteq A
<1> DEFINE r == [n EXCEPT !.out = [t \in Server |-> << >>], !.told = {}]
<1>1. r.log = n.log /\ r.snapIndex = n.snapIndex
  BY DEF NodeState
<1>2. /\ node'[s] = r /\ \A t \in Server \ {s} : node'[t] = node[t]
  BY DEF Become, Inv, TypeInv, TypeOK
<1> HIDE DEF r
<1>3. /\ \A f \in Server \ {s}, t \in Server : net'[f][t] = wire[f][t]
      /\ \A t \in Server : net'[s][t] = Enqueue(wire[s][t], n.out[t])
  BY DEF Become, Wire
<1>4. \A f, t \in Server : \A i \in DOMAIN wire[f][t] : CarriesIn(wire[f][t][i], A)
  <2> SUFFICES ASSUME NEW f \in Server, NEW t \in Server,
                      NEW i \in DOMAIN wire[f][t]
               PROVE  CarriesIn(wire[f][t][i], A)
    OBVIOUS
  <2>1. PICK j \in DOMAIN net[f][t] : wire[f][t][i] = net[f][t][j]
    BY DEF PartOf
  <2>2. CarriesIn(net[f][t][j], Places)
    BY KnownPlaces
  <2> QED
    BY <2>1, <2>2 DEF CarriesIn
<1>5. \A f, t \in Server : \A i \in DOMAIN net'[f][t] : CarriesIn(net'[f][t][i], A)
  <2> SUFFICES ASSUME NEW f \in Server, NEW t \in Server,
                      NEW i \in DOMAIN net'[f][t]
               PROVE  CarriesIn(net'[f][t][i], A)
    OBVIOUS
  <2>1. CASE f # s
    BY <1>3, <1>4, <2>1
  <2>2. CASE f = s
    <3>1. wire[s][t] \in Seq(Message) /\ n.out[t] \in Seq(Message)
      BY NodeFields DEF Wire
    <3>2. net'[f][t] = Enqueue(wire[s][t], n.out[t])
      BY <1>3, <2>2
    <3>3. \/ \E j \in DOMAIN wire[s][t] : net'[f][t][i] = wire[s][t][j]
          \/ \E j \in DOMAIN n.out[t] : net'[f][t][i] = n.out[t][j]
      BY <3>1, <3>2, EnqueueType
    <3> QED
      BY <1>4, <3>3 DEF OutIn
  <2> QED
    BY <2>1, <2>2
<1>6. \A t \in Server : LogIn(node'[t], A)
  <2> TAKE t \in Server
  <2>1. CASE t = s
    BY <1>1, <1>2, <2>1 DEF LogIn
  <2>2. CASE t # s
    <3>1. LogIn(node[t], Places) /\ node'[t] = node[t]
      BY <1>2, <2>2, KnownPlaces
    <3> QED
      BY <3>1 DEF LogIn
  <2> QED
    BY <2>1, <2>2
<1> SUFFICES ASSUME NEW x \in Nat \X Entry, Written(x[1], x[2])' PROVE x \in A
  BY DEF Places
<1>7. x = <<x[1], x[2]>>
  OBVIOUS
<1>8. CASE \E t \in Server : \E i \in 1 .. Len(node'[t].log) :
             x[1] = node'[t].snapIndex + i /\ x[2] = node'[t].log[i]
  <2>1. PICK t \in Server : \E i \in 1 .. Len(node'[t].log) :
             x[1] = node'[t].snapIndex + i /\ x[2] = node'[t].log[i]
    BY <1>8
  <2>2. LogIn(node'[t], A)
    BY <1>6
  <2> QED
    BY <1>7, <2>1, <2>2 DEF LogIn
<1>9. CASE \E f, t \in Server : \E i \in DOMAIN net'[f][t] :
             /\ net'[f][t][i].type = "AppendEntries"
             /\ \E j \in 1 .. Len(net'[f][t][i].entries) :
                  /\ x[1] = net'[f][t][i].prevIndex + j
                  /\ x[2] = net'[f][t][i].entries[j]
  <2>1. PICK f \in Server, t \in Server : \E i \in DOMAIN net'[f][t] :
             /\ net'[f][t][i].type = "AppendEntries"
             /\ \E j \in 1 .. Len(net'[f][t][i].entries) :
                  /\ x[1] = net'[f][t][i].prevIndex + j
                  /\ x[2] = net'[f][t][i].entries[j]
    BY <1>9
  <2>2. \A i \in DOMAIN net'[f][t] : CarriesIn(net'[f][t][i], A)
    BY <1>5
  <2> QED
    BY <1>7, <2>1, <2>2 DEF CarriesIn
<1> QED
  BY <1>8, <1>9 DEF Written

(* A step that writes as leaders write preserves the invariant. *)
LEMMA BecomeLog ==
    ASSUME Inv, Inv', LogInv, NEW s \in Server, NEW n, NEW new,
           LogStep(s, n, new),
           NEW wire \in Wire, PartOf(wire), Become(s, n, wire)
    PROVE  LogInv'
<1> DEFINE A == Places \cup new
           r == [n EXCEPT !.out = [t \in Server |-> << >>], !.told = {}]
<1>1. n \in NodeState /\ Sound(n, A) /\ n.term >= node[s].term
  BY DEF LogStep
<1>2. Places' \subseteq A
  BY <1>1, BecomePlaces DEF Sound
<1>3. /\ r.log = n.log /\ r.snapIndex = n.snapIndex /\ r.role = n.role
      /\ r.term = n.term /\ r.pending = n.pending /\ r.barriers = n.barriers
      /\ r.applied = n.applied
  BY <1>1 DEF NodeState
<1>4. /\ node'[s] = r /\ \A t \in Server \ {s} : node'[t] = node[t]
  BY DEF Become, Inv, TypeInv, TypeOK
<1>5. /\ told' = told \cup n.told
      /\ elected' = IF n.role = "Leader" THEN elected \cup {<<s, n.term>>}
                    ELSE elected
      /\ elected \subseteq Server \X Nat
  BY DEF Become, Inv, TypeInv, TypeOK
<1>6. n.term \in Nat /\ node[s].term \in Nat
  BY <1>1, NodeFields DEF Inv, TypeInv, TypeOK
<1> HIDE DEF r
<1>7. LastIndex(r) = LastIndex(n)
  BY <1>3 DEF LastIndex
<1>8. \A d, e \in elected' : d[2] = e[2] => d = e
  <2>1. Inv' => ElectionSafety'
    BY OneLeader, PTL
  <2> QED
    BY <2>1 DEF ElectionSafety
<1>9. ASSUME n.role = "Leader", <<s, n.term>> \notin elected, NEW x \in Places
      PROVE  x[2].term # n.term
  <2>1. PICK e \in elected : e[2] = x[2].term
    BY DEF LogInv, WrittenByElected
  <2>2. e \in elected' /\ <<s, n.term>> \in elected' /\ <<s, n.term>>[2] = n.term
    BY <1>5, <1>9
  <2> QED
    BY <1>8, <1>9, <2>1, <2>2
<1>10. WrittenByElected'
  <2> SUFFICES ASSUME NEW x \in Places'
               PROVE  \E e \in elected' : e[2] = x[2].term
    BY DEF WrittenByElected
  <2>1. CASE x \in Places
    BY <1>5, <2>1 DEF LogInv, WrittenByElected
  <2>2. CASE x \in new
    <3>1. n.role = "Leader" /\ x[2].term = n.term
      BY <2>2 DEF LogStep
    <3>2. <<s, n.term>> \in elected' /\ <<s, n.term>>[2] = n.term
      BY <1>5, <3>1
    <3> QED
      BY <3>1, <3>2
  <2> QED
    BY <1>2, <2>1, <2>2
<1>11. ASSUME NEW x \in new, NEW y \in Places, y[2].term = n.term
       PROVE  y[1] < x[1]
  <2>1. n.role = "Leader" /\ x[1] > LastIndex(node[s])
    BY DEF LogStep
  <2>2. /\ node[s].role = "Leader" /\ n.term = node[s].term
    BY <1>9, <1>11, <2>1 DEF LogStep
  <2>3. y[1] <= LastIndex(node[s])
    BY <1>11, <2>2 DEF LogInv, LeaderIsAhead
  <2>4. y[1] \in Nat /\ x[1] \in Nat /\ LastIndex(node[s]) \in Nat
    <3>1. node[s] \in NodeState /\ y \in Nat \X Entry
      BY DEF Inv, TypeInv, TypeOK, Places
    <3>2. x[1] = LastIndex(n)
      BY DEF LogStep
    <3> QED
      BY <1>1, <3>1, <3>2, LastIndexType
  <2> QED
    BY <2>1, <2>3, <2>4
<1>12. OneEntryAPlace'
  <2> SUFFICES ASSUME NEW x \in Places', NEW y \in Places',
                      x[1] = y[1], x[2].term = y[2].term
               PROVE  x = y
    BY DEF OneEntryAPlace
  <2>1. CASE x \in Places /\ y \in Places
    BY <2>1 DEF LogInv, OneEntryAPlace
  <2>2. CASE x \in new /\ y \in new
    BY <2>2 DEF LogStep
  <2>3. x[1] \in Nat
    BY DEF Places
  <2>4. CASE x \in new /\ y \in Places
    <3>1. x[2].term = n.term
      BY <2>4 DEF LogStep
    <3>2. y[2].term = n.term
      BY <3>1
    <3>3. y[1] < x[1]
      BY <1>11, <2>4, <3>2
    <3> QED
      BY <2>3, <3>3
  <2>5. CASE x \in Places /\ y \in new
    <3>1. y[2].term = n.term
      BY <2>5 DEF LogStep
    <3> QED
      BY <1>11, <2>3, <2>5, <3>1
  <2> QED
    BY <1>2, <2>1, <2>2, <2>4, <2>5
<1>13. LeaderIsAhead'
  <2> SUFFICES ASSUME NEW t \in Server, node'[t].role = "Leader",
                      NEW x \in Places', x[2].term = node'[t].term
               PROVE  x[1] <= LastIndex(node'[t])
    BY DEF LeaderIsAhead, LastIndex
  <2>0. x[1] \in Nat /\ x \in A
    BY <1>2 DEF Places
  <2>1. CASE t = s
    <3>1. n.role = "Leader" /\ x[2].term = n.term /\ LastIndex(node'[t]) = LastIndex(n)
      BY <1>3, <1>4, <1>7, <2>1
    <3>2. CASE x \in new
      BY <2>0, <3>1, <3>2 DEF LogStep
    <3>3. CASE x \in Places
      <4>1. /\ node[s].role = "Leader" /\ n.term = node[s].term
            /\ LastIndex(n) >= LastIndex(node[s])
        BY <1>9, <3>1, <3>3 DEF LogStep
      <4>2. x[1] <= LastIndex(node[s])
        BY <3>1, <3>3, <4>1 DEF LogInv, LeaderIsAhead
      <4>3. LastIndex(n) \in Nat /\ LastIndex(node[s]) \in Nat
        BY <1>1, LastIndexType DEF Inv, TypeInv, TypeOK
      <4> QED
        BY <2>0, <3>1, <4>1, <4>2, <4>3
    <3> QED
      BY <2>0, <3>2, <3>3
  <2>2. CASE t # s
    <3>1. node'[t] = node[t]
      BY <1>4, <2>2
    <3>2. CASE x \in Places
      BY <3>1, <3>2 DEF LogInv, LeaderIsAhead
    <3>3. CASE x \in new
      <4>1. n.role = "Leader" /\ x[2].term = n.term
        BY <3>3 DEF LogStep
      <4>2. <<s, n.term>> \in elected'
        BY <1>5, <4>1
      <4>3. <<t, node[t].term>> \in elected'
        BY <1>5, <3>1 DEF Inv, ElectionInv, LeadersAreElected
      <4>4. <<s, n.term>>[2] = <<t, node[t].term>>[2]
        BY <3>1, <4>1
      <4>5. <<s, n.term>> = <<t, node[t].term>>
        BY <1>8, <4>2, <4>3, <4>4
      <4> QED
        BY <2>2, <4>5
    <3> QED
      BY <2>0, <3>2, <3>3
  <2> QED
    BY <2>1, <2>2
<1>14. ElectedBefore'
  <2>1. ASSUME NEW e \in elected' PROVE e[2] <= node'[e[1]].term
    <3>1. CASE e \in elected
      <4>1. e[1] \in Server /\ e[2] \in Nat /\ e[2] <= node[e[1]].term
        BY <1>5, <3>1 DEF LogInv, ElectedBefore
      <4>2. CASE e[1] = s
        BY <1>1, <1>3, <1>4, <1>6, <4>1, <4>2
      <4>3. CASE e[1] # s
        BY <1>4, <4>1, <4>3
      <4> QED
        BY <4>2, <4>3
    <3>2. CASE e = <<s, n.term>>
      BY <1>3, <1>4, <1>6, <3>2
    <3> QED
      BY <1>5, <3>1, <3>2
  <2>2. ASSUME NEW t \in Server, node'[t].role = "Candidate"
        PROVE  <<t, node'[t].term>> \notin elected'
    <3>1. CASE t = s
      <4>1. n.role = "Candidate"
        BY <1>3, <1>4, <2>2, <3>1
      <4> QED
        BY <1>3, <1>4, <1>5, <3>1, <4>1 DEF LogStep
    <3>2. CASE t # s
      <4>1. node[t].role = "Candidate" /\ node'[t].term = node[t].term
        BY <1>4, <2>2, <3>2
      <4> QED
        BY <1>5, <3>2, <4>1 DEF LogInv, ElectedBefore
    <3> QED
      BY <3>1, <3>2
  <2> QED
    BY <2>1, <2>2 DEF ElectedBefore
<1>15. DebtsBacked'
  <2> SUFFICES ASSUME NEW t \in Server PROVE Owed(node'[t]) /\ Backed(node'[t])
    BY DEF DebtsBacked, Owed, Backed, LastIndex
  <2>1. CASE t = s
    <3>1. Owed(n) /\ Backed(n)
      BY <1>1 DEF Sound
    <3> QED
      BY <1>3, <1>4, <1>7, <2>1, <3>1 DEF Owed, Backed
  <2>2. CASE t # s
    BY <1>4, <2>2 DEF LogInv, DebtsBacked
  <2> QED
    BY <2>1, <2>2
<1>16. CompletedOwnEntry'
  <2>1. ToldOwn(n)
    BY <1>1 DEF Sound
  <2> QED
    BY <1>5, <2>1 DEF LogInv, CompletedOwnEntry, Completed, ToldOwn
<1> QED
  BY <1>10, <1>12, <1>13, <1>14, <1>15, <1>16 DEF LogInv

-----------------------------------------------------------------------------
(* The steps. *)

(* Between two steps a node is sound for the places there are. *)
LEMMA NodeSound ==
    ASSUME Inv, LogInv, NEW s \in Server
    PROVE  /\ Sound(node[s], Places)
           /\ node[s] \in Node /\ node[s] \in NodeState /\ node[s].id = s
<1>1. /\ node[s].out = [t \in Server |-> << >>] /\ node[s].told = {}
      /\ node[s] \in NodeState
  BY DEF Inv, TypeInv, TypeOK
<1>2. OutIn(node[s], Places)
  BY <1>1 DEF OutIn
<1>3. LogIn(node[s], Places)
  BY KnownPlaces
<1>4. Owed(node[s]) /\ Backed(node[s]) /\ ToldOwn(node[s])
  BY <1>1 DEF LogInv, DebtsBacked, ToldOwn
<1> QED
  BY <1>1, <1>2, <1>3, <1>4, Books, NodeOfServer DEF Sound

(* Server s ends a step of its own, or the handling of a message, as n. *)
Ends(s, n) ==
    \/ Become(s, n, net)
    \/ \E f \in Server : net[f][s] # << >> /\ Handled(f, s, n)

(* The node a step ends with carries entries that were written. *)
LEMMA EndsLog ==
    ASSUME Inv, Inv', LogInv, NEW s \in Server, NEW n, NEW new,
           LogStep(s, n, new), Ends(s, n)
    PROVE  LogInv'
<1>1. CASE Become(s, n, net)
  <2>1. net \in Wire /\ PartOf(net)
    BY DEF Inv, TypeInv, TypeOK, Wire, PartOf
  <2> QED
    BY <1>1, <2>1, BecomeLog
<1>2. ASSUME NEW f \in Server, net[f][s] # << >>, Handled(f, s, n)
      PROVE  LogInv'
  <2> DEFINE wire == [net EXCEPT ![f][s] = Tail(@)]
  <2>1. wire \in Wire /\ PartOf(wire)
    BY <1>2, ArrivingMessage
  <2>2. Become(s, n, wire)
    BY <1>2 DEF Handled
  <2> HIDE DEF wire
  <2> QED
    BY <2>1, <2>2, BecomeLog
<1> QED
  BY <1>1, <1>2 DEF Ends

(* A step that writes nothing new and elects nobody. *)
LEMMA QuietLog ==
    ASSUME Inv, Inv', LogInv, NEW s \in Server, NEW n \in Node,
           Advances(node[s], n), Sound(n, Places),
           n.role = "Leader" => LastIndex(n) = LastIndex(node[s]),
           Ends(s, n)
    PROVE  LogInv'
<1>1. node[s] \in NodeState /\ n \in NodeState
  BY NodeSound DEF Node
<1>2. n.term \in Nat /\ node[s].term \in Nat /\ LastIndex(node[s]) \in Nat
  BY <1>1, NodeFields, LastIndexType
<1>3. Sound(n, Places \cup {})
  BY SoundGrows
<1>4. /\ n.term >= node[s].term
      /\ n.role # "Follower" => n.role = node[s].role /\ n.term = node[s].term
  BY <1>2 DEF Advances, SameVote
<1>5. n.role = "Candidate" => <<s, n.term>> \notin elected
  BY <1>4 DEF LogInv, ElectedBefore
<1>6. LogStep(s, n, {})
  BY <1>1, <1>2, <1>3, <1>4, <1>5 DEF LogStep
<1> QED
  BY <1>6, EndsLog

(* The step that makes s leader of a term adds the place of the no-op. *)
LEMMA NewLeaderLog ==
    ASSUME Inv, Inv', LogInv, NEW s \in Server, NEW n \in Node,
           n.role = "Leader", n.term >= node[s].term,
           <<s, n.term>> \notin elected,
           NEW c \in Node, c.term = n.term, LastIndex(c) = LastIndex(node[s]),
           LastIndex(n) = LastIndex(c) + 1,
           Sound(n, Places \cup {NewPlace(c, NoOp)}), Ends(s, n)
    PROVE  LogInv'
<1> DEFINE new == {NewPlace(c, NoOp)}
<1>1. node[s] \in NodeState /\ n \in NodeState
  BY NodeSound DEF Node
<1>2. LastIndex(node[s]) \in Nat
  BY <1>1, LastIndexType
<1>3. /\ NewPlace(c, NoOp)[1] = LastIndex(c) + 1
      /\ NewPlace(c, NoOp)[2].term = n.term
  BY DEF NewPlace
<1>4. \A x \in new : /\ n.role = "Leader" /\ x[2].term = n.term
                     /\ x[1] = LastIndex(n) /\ x[1] > LastIndex(node[s])
  BY <1>2, <1>3
<1>5. LogStep(s, n, new)
  BY <1>1, <1>4 DEF LogStep
<1> QED
  BY <1>5, EndsLog

(* tick() without an election preserves the invariant. *)
LEMMA TickIdleLog ==
    ASSUME Inv, Inv', LogInv, NEW s \in Server, TickIdle(s) \/ TickHeartbeat(s)
    PROVE  LogInv'
<1>1. node[s] \in Node /\ Sound(node[s], Places)
  BY NodeSound
<1>2. PICK n \in {node[s], SendHeartbeats(node[s])},
           limit \in Limits(node[s]) : Become(s, AfterTick(n, limit), net)
  BY DEF TickIdle, TickHeartbeat
<1>3. /\ n \in Node /\ SameVote(node[s], n)
      /\ Sound(n, Places) /\ LastIndex(n) = LastIndex(node[s])
  BY <1>1, SendHeartbeatsType, SendHeartbeatsSound DEF SameVote
<1>4. limit \in Nat
  BY <1>1, LimitsType
<1> DEFINE r == AfterTick(n, limit)
<1>5. /\ r \in Node /\ Advances(node[s], r)
      /\ Sound(r, Places) /\ LastIndex(r) = LastIndex(node[s])
  BY <1>3, <1>4, AfterTickType, AfterTickSound DEF SameVote, Advances
<1>6. Ends(s, r)
  BY <1>2 DEF Ends
<1> HIDE DEF r
<1> QED
  BY <1>5, <1>6, QuietLog

(* tick() failing to compact preserves the invariant. *)
LEMMA TickCompactionFailsLog ==
    ASSUME Inv, Inv', LogInv, NEW s \in Server, TickCompactionFails(s)
    PROVE  LogInv'
<1> DEFINE r == ApplyCommitted(node[s], Bound["log"])
<1>1. node[s] \in Node /\ Sound(node[s], Places)
  BY NodeSound
<1>2. /\ r \in Node /\ Advances(node[s], r)
      /\ Sound(r, Places) /\ LastIndex(r) = LastIndex(node[s])
  BY <1>1, Books, ApplyCommittedType, ApplyCommittedSound DEF Advances
<1>3. Ends(s, r)
  BY DEF TickCompactionFails, Ends
<1> HIDE DEF r
<1> QED
  BY <1>2, <1>3, QuietLog

(* A term that s has not reached has not elected it. *)
LEMMA NotYetElected ==
    ASSUME Inv, LogInv, NEW s \in Server, NEW term \in Nat, term > node[s].term
    PROVE  <<s, term>> \notin elected
<1>1. node[s].term \in Nat
  BY NodeSound, NodeFields
<1>2. ASSUME <<s, term>> \in elected PROVE FALSE
  <2>1. <<s, term>>[2] <= node[<<s, term>>[1]].term
    BY <1>2 DEF LogInv, ElectedBefore
  <2> QED
    BY <1>1, <2>1
<1> QED
  BY <1>2

(* start_election(), in a group of one straight to become_leader(),        *)
(* preserves the invariant.                                                *)
LEMMA TickElectionLog ==
    ASSUME Inv, Inv', LogInv, NEW s \in Server, TickElection(s)
    PROVE  LogInv'
<1> DEFINE c == Campaign(node[s])
           b == IF HasQuorum(1) THEN BecomeLeader(c, Bound["log"])
                                ELSE RequestVotes(c)
           r == AfterTick(b, Bound["log"])
<1>1. /\ node[s] \in Node /\ node[s].id = s /\ node[s].term \in Nat
      /\ Sound(node[s], Places) /\ node[s].role # "Leader"
  BY NodeSound, NodeFields DEF TickElection, MayCampaign
<1>2. /\ c \in Node /\ c.term = node[s].term + 1 /\ c.role = "Candidate"
      /\ Sound(c, Places) /\ LastIndex(c) = LastIndex(node[s])
  BY <1>1, CampaignType, CampaignSound
<1>3. Ends(s, r) /\ Bound["log"] \in Nat
  BY Books DEF TickElection, Ends
<1> HIDE DEF c
<1>4. <<s, c.term>> \notin elected
  BY <1>1, <1>2, NotYetElected
<1>5. CASE HasQuorum(1)
  <2> DEFINE A == Places \cup {NewPlace(c, NoOp)}
             l == BecomeLeader(c, Bound["log"])
  <2>1. /\ l \in Node /\ l.term = c.term /\ l.role = "Leader"
        /\ Sound(l, A) /\ LastIndex(l) = LastIndex(c) + 1
    BY <1>2, <1>3, BecomeLeaderType, BecomeLeaderSound
  <2>2. b = l
    BY <1>5
  <2> HIDE DEF A, l, b
  <2>3. /\ r \in Node /\ r.term = c.term /\ r.role = "Leader"
        /\ Sound(r, A) /\ LastIndex(r) = LastIndex(c) + 1
    BY <1>3, <2>1, <2>2, AfterTickType, AfterTickSound DEF SameVote
  <2> HIDE DEF r
  <2> QED
    BY <1>1, <1>2, <1>3, <1>4, <2>3, NewLeaderLog DEF A
<1>6. CASE ~HasQuorum(1)
  <2> DEFINE q == RequestVotes(c)
  <2>1. /\ q \in Node /\ SameVote(c, q)
        /\ Sound(q, Places) /\ LastIndex(q) = LastIndex(c)
    BY <1>2, RequestVotesType, RequestVotesSound
  <2>2. b = q
    BY <1>6
  <2> HIDE DEF q, b
  <2>3. r \in Node /\ SameVote(c, r) /\ Sound(r, Places)
    BY <1>3, <2>1, <2>2, AfterTickType, AfterTickSound DEF SameVote
  <2> HIDE DEF r
  <2>4. Sound(r, Places \cup {}) /\ r \in NodeState
    BY <2>3, SoundGrows DEF Node
  <2>5. LogStep(s, r, {})
    BY <1>1, <1>2, <1>4, <2>3, <2>4 DEF LogStep, SameVote
  <2> QED
    BY <1>3, <2>5, EndsLog
<1> QED
  BY <1>5, <1>6

(* start_election() failing to write preserves the invariant. *)
LEMMA TickElectionFailsLog ==
    ASSUME Inv, Inv', LogInv, NEW s \in Server, TickElectionFails(s)
    PROVE  LogInv'
<1> DEFINE unsaved == [node[s] EXCEPT !.leader = Nil]
           alone == BecomeLeaderFailed(Campaign(node[s]))
<1>1. /\ node[s] \in Node /\ node[s] \in NodeState /\ node[s].id = s
      /\ node[s].term \in Nat
      /\ Sound(node[s], Places) /\ node[s].role # "Leader"
  BY NodeSound, NodeFields DEF TickElectionFails, MayCampaign
<1>2. unsaved \in Node /\ Advances(node[s], unsaved) /\ Sound(unsaved, Places)
  <2>1. unsaved \in NodeState
    <3>1. Nil \in Server \cup {Nil}
      OBVIOUS
    <3> QED
      BY <1>1, <3>1, Zenon DEF NodeState
  <2>2. /\ unsaved.snapIndex = node[s].snapIndex
        /\ unsaved.applied = node[s].applied
        /\ unsaved.out = node[s].out /\ SameVote(node[s], unsaved)
        /\ SameDebts(node[s], unsaved)
    BY <1>1 DEF NodeState, SameVote, SameDebts
  <2> HIDE DEF unsaved
  <2>3. OutIn(unsaved, Places)
    BY <1>1, <2>2 DEF Sound, OutIn
  <2> QED
    BY <1>1, <2>1, <2>2, <2>3, SameDebtsSound DEF Node, Advances
<1>3. alone \in Node /\ Advances(node[s], alone) /\ Sound(alone, Places)
  <2> DEFINE c == Campaign(node[s])
  <2>1. /\ c \in Node /\ c.id = s /\ c.term = node[s].term + 1
        /\ Sound(c, Places)
    BY <1>1, CampaignType, CampaignSound
  <2> HIDE DEF c
  <2>2. /\ BecomeLeaderFailed(c) \in Node
        /\ BecomeLeaderFailed(c).role = "Follower"
        /\ BecomeLeaderFailed(c).id = c.id
        /\ BecomeLeaderFailed(c).term = c.term
        /\ Sound(BecomeLeaderFailed(c), Places)
    BY <2>1, BecomeLeaderFailedType, BecomeLeaderFailedSound
  <2>3. alone = BecomeLeaderFailed(c)
    BY DEF c
  <2> HIDE DEF alone
  <2> QED
    BY <1>1, <2>1, <2>2, <2>3 DEF Advances
<1>4. PICK n \in {unsaved, alone} : Become(s, AfterTick(n, Bound["log"]), net)
  BY DEF TickElectionFails
<1> HIDE DEF unsaved, alone
<1>5. n \in Node /\ Advances(node[s], n) /\ Sound(n, Places)
  BY <1>2, <1>3, <1>4
<1> DEFINE r == AfterTick(n, Bound["log"])
<1>6. r \in Node /\ Advances(n, r) /\ Sound(r, Places)
  BY <1>5, Books, AfterTickType, AfterTickSound DEF Advances
<1>7. Ends(s, r)
  BY <1>4 DEF Ends
<1> HIDE DEF r
<1>8. Advances(node[s], r)
  BY <1>1, <1>5, <1>6, AdvancesTransitive
<1>9. r.role # "Leader"
  BY <1>1, <1>8 DEF Advances, SameVote
<1> QED
  BY <1>6, <1>7, <1>8, <1>9, QuietLog

(* propose() preserves the invariant: it adds the entry its client waits   *)
(* for at the end of the leader's log.                                     *)
LEMMA ProposeLog ==
    ASSUME Inv, Inv', LogInv, NEW s \in Server, NEW v \in Value, Propose(s, v)
    PROVE  LogInv'
<1> DEFINE a == AppendOwn(node[s], v)
           p == [index |-> LastIndex(a), value |-> v]
           n == [a EXCEPT !.pending = @ \cup {p}]
           new == {NewPlace(node[s], v)}
           A == Places \cup new
<1>1. /\ node[s] \in Node /\ node[s] \in NodeState /\ Sound(node[s], Places)
      /\ node[s].role = "Leader" /\ node[s].term \in Nat
  BY NodeSound, NodeFields DEF Propose
<1>2. /\ a \in Node /\ SameVote(node[s], a)
      /\ Sound(a, A) /\ LastIndex(a) = LastIndex(node[s]) + 1
      /\ a.log[LastIndex(a) - a.snapIndex].value = v
  BY <1>1, AppendOwnType, AppendOwnSound DEF Command
<1>3. PICK limit \in Limits(n) :
        Become(s, SendHeartbeats(AdvanceCommit(n, limit)), net)
  BY DEF Propose
<1>4. /\ NewPlace(node[s], v)[1] = LastIndex(node[s]) + 1
      /\ NewPlace(node[s], v)[2].term = node[s].term
  BY DEF NewPlace
<1> HIDE DEF a, A
<1>5. n \in Node /\ SameVote(node[s], n) /\ Sound(n, A) /\ LastIndex(n) = LastIndex(a)
  <2>1. a \in NodeState
    BY <1>2 DEF Node
  <2>2. p \in PendingProposal /\ p.index = LastIndex(a) /\ p.value = v
    BY <2>1, LastIndexType DEF PendingProposal
  <2> HIDE DEF p
  <2>3. a.pending \cup {p} \in SUBSET PendingProposal
    BY <2>1, <2>2, NodeFields
  <2>4. n \in NodeState
    BY <2>1, <2>3, Zenon DEF NodeState
  <2>5. /\ n.snapIndex = a.snapIndex /\ n.applied = a.applied
        /\ n.out = a.out /\ SameVote(a, n) /\ n.log = a.log
        /\ n.told = a.told /\ n.pending = a.pending \cup {p}
    BY <2>1 DEF NodeState, SameVote
  <2> HIDE DEF n
  <2>6. LastIndex(n) = LastIndex(a) /\ LastIndex(a) \in Nat
    BY <2>1, <2>5, LastIndexType DEF LastIndex
  <2>7. LogIn(n, A) /\ OutIn(n, A) /\ Owed(n) /\ ToldOwn(n)
    BY <1>1, <1>2, <2>5 DEF Sound, LogIn, OutIn, Owed, ToldOwn, SameVote
  <2>8. Backed(n)
    <3> SUFFICES ASSUME NEW q \in n.pending, q.index > n.applied
                 PROVE  /\ q.index <= LastIndex(n)
                        /\ n.log[q.index - n.snapIndex].value = q.value
      BY DEF Backed
    <3>1. CASE q \in a.pending
      BY <1>2, <2>5, <2>6, <3>1 DEF Sound, Backed
    <3>2. CASE q = p
      BY <1>2, <2>2, <2>5, <2>6, <3>2
    <3> QED
      BY <2>5, <3>1, <3>2
  <2> QED
    BY <1>2, <2>4, <2>5, <2>6, <2>7, <2>8 DEF Node, SameVote, Sound
<1> HIDE DEF n
<1>6. limit \in Nat
  BY <1>5, LimitsType
<1> DEFINE c == AdvanceCommit(n, limit)
           r == SendHeartbeats(c)
<1>7. c \in Node /\ SameVote(n, c) /\ Sound(c, A) /\ LastIndex(c) = LastIndex(n)
  BY <1>5, <1>6, AdvanceCommitType, AdvanceCommitSound
<1> HIDE DEF c
<1>8. r \in Node /\ SameVote(c, r) /\ Sound(r, A) /\ LastIndex(r) = LastIndex(c)
  BY <1>7, SendHeartbeatsType, SendHeartbeatsSound
<1>9. Ends(s, r)
  BY <1>3 DEF c, Ends
<1> HIDE DEF r
<1>10. /\ r \in NodeState /\ r.role = "Leader" /\ r.term = node[s].term
       /\ LastIndex(r) = LastIndex(node[s]) + 1 /\ LastIndex(node[s]) \in Nat
  BY <1>1, <1>2, <1>5, <1>7, <1>8, LastIndexType DEF SameVote, Node
<1>11. \A x \in new : /\ x[2].term = r.term /\ x[1] = LastIndex(r)
                      /\ x[1] > LastIndex(node[s])
  BY <1>4, <1>10
<1>12. LogStep(s, r, new)
  BY <1>1, <1>8, <1>10, <1>11 DEF LogStep, A
<1> QED
  BY <1>9, <1>12, EndsLog

(* read_barrier() preserves the invariant. *)
LEMMA ReadIndexLog ==
    ASSUME Inv, Inv', LogInv, NEW s \in Server, ReadIndex(s)
    PROVE  LogInv'
<1> DEFINE n == SendHeartbeats(node[s])
           b == [round |-> n.round, target |-> n.commit, need |-> Acknowledged]
           a == [n EXCEPT !.barriers = @ \cup {b}]
           r == EvaluateReadBarriers(a)
<1>1. /\ node[s] \in Node /\ Sound(node[s], Places) /\ node[s].role = "Leader"
  BY NodeSound DEF ReadIndex
<1>2. /\ n \in Node /\ SameVote(node[s], n)
      /\ Sound(n, Places) /\ LastIndex(n) = LastIndex(node[s])
  BY <1>1, SendHeartbeatsType, SendHeartbeatsSound
<1>3. Ends(s, r)
  BY DEF ReadIndex, Ends
<1> HIDE DEF n
<1>4. n \in NodeState
  BY <1>2 DEF Node
<1>5. Acknowledged \in SUBSET Value
  <2>1. \A x \in told : x.type = "Applied" => x.command \in Value
    BY DEF Inv, TypeInv, TypeOK, Applied, ReadServed
  <2> QED
    BY <2>1 DEF Acknowledged
<1>6. b \in ReadBarrier
  BY <1>4, <1>5, NodeFields DEF ReadBarrier
<1> HIDE DEF b
<1>7. n.barriers \cup {b} \in SUBSET ReadBarrier
  BY <1>4, <1>6, NodeFields
<1>8. a \in NodeState
  BY <1>4, <1>7, Zenon DEF NodeState
<1>9. /\ a.snapIndex = n.snapIndex /\ a.applied = n.applied
      /\ a.out = n.out /\ SameVote(n, a) /\ a.log = n.log
      /\ a.pending = n.pending /\ a.told = n.told
  BY <1>4 DEF NodeState, SameVote
<1> HIDE DEF a
<1>10. a \in Node /\ a.role = "Leader"
  BY <1>1, <1>2, <1>8, <1>9 DEF Node, SameVote
<1>11. Sound(a, Places) /\ LastIndex(a) = LastIndex(n)
  BY <1>2, <1>9, <1>10
  DEF Sound, LogIn, OutIn, Owed, Backed, ToldOwn, LastIndex
<1>12. /\ r \in Node /\ Advances(node[s], r)
       /\ Sound(r, Places) /\ LastIndex(r) = LastIndex(node[s])
  BY <1>2, <1>9, <1>10, <1>11, EvaluateReadBarriersType,
     EvaluateReadBarriersSound DEF SameVote, Advances
<1> HIDE DEF r
<1> QED
  BY <1>3, <1>12, QuietLog

(* The entries of an arriving message are places. *)
LEMMA ArrivingCarries ==
    ASSUME Inv, NEW f \in Server, NEW s \in Server, net[f][s] # << >>
    PROVE  CarriesIn(Head(net[f][s]), Places)
BY ArrivingMessage, KnownPlaces

(* A message without entries carries nothing. *)
LEMMA CarriesNothing ==
    ASSUME NEW A, NEW m, m.type # "AppendEntries"
    PROVE  CarriesIn(m, A)
BY DEF CarriesIn

(* become_follower() at the start of a handler. *)
LEMMA StepDownSound ==
    ASSUME Inv, LogInv, NEW s \in Server, NEW term \in Nat
    PROVE  LET r == BecomeFollower(node[s], term, Nil)
           IN  /\ r \in Node /\ Advances(node[s], r) /\ r.role = "Follower"
               /\ Sound(r, Places)
<1>1. node[s] \in Node /\ Sound(node[s], Places) /\ Nil \in Server \cup {Nil}
  BY NodeSound
<1> QED
  BY <1>1, BecomeFollowerType, BecomeFollowerAdvances, BecomeFollowerSound

(* handle_request_vote() preserves the invariant. *)
LEMMA HandleRequestVoteLog ==
    ASSUME Inv, Inv', LogInv, NEW f \in Server, NEW s \in Server,
           HandleRequestVote(f, s)
    PROVE  LogInv'
<1> DEFINE m == Head(net[f][s])
           n == IF m.term > node[s].term THEN BecomeFollower(node[s], m.term, Nil)
                                         ELSE node[s]
           granted == /\ m.term = n.term
                      /\ n.votedFor \in {Nil, f}
                      /\ LogIsUpToDate(n, m.lastIndex, m.lastTerm)
           reply == [type |-> "RequestVoteResponse", term |-> n.term,
                     granted |-> granted]
           a == [n EXCEPT !.votedFor = IF granted THEN f ELSE @]
           r == Send(a, f, reply)
<1>1. net[f][s] # << >> /\ m.term \in Nat
  <2>1. net[f][s] # << >>
    BY DEF HandleRequestVote, Arrives
  <2> QED
    BY <2>1, ArrivingMessage, MessageOfType
<1>2. /\ node[s] \in Node /\ Sound(node[s], Places) /\ node[s].term \in Nat
      /\ node[s] \in NodeState
  BY NodeSound, NodeFields
<1>3. /\ n \in Node /\ Advances(node[s], n) /\ Sound(n, Places)
      /\ n.role = "Leader" => n = node[s]
  <2>1. CASE m.term > node[s].term
    BY <1>1, <2>1, StepDownSound
  <2>2. CASE ~(m.term > node[s].term)
    BY <1>2, <2>2 DEF Advances, SameVote
  <2> QED
    BY <2>1, <2>2
<1>4. Ends(s, r)
  BY <1>1 DEF HandleRequestVote, Ends
<1> HIDE DEF m, n
<1>5. n \in NodeState
  BY <1>3 DEF Node
<1>6. reply \in RequestVoteResponse
  BY <1>5, NodeFields DEF RequestVoteResponse
<1>7. reply \in Message /\ CarriesIn(reply, Places)
  BY <1>6 DEF Message, CarriesIn
<1>8. (IF granted THEN f ELSE n.votedFor) \in Server \cup {Nil}
  BY <1>5, NodeFields
<1> HIDE DEF granted, reply
<1>9. a \in NodeState
  BY <1>5, <1>8, Zenon DEF NodeState
<1>10. SameDebts(n, a) /\ a.out = n.out /\ a.term = n.term
  BY <1>5 DEF NodeState, SameDebts
<1> HIDE DEF a
<1>11. Sound(a, Places) /\ LastIndex(a) = LastIndex(n)
  BY <1>3, <1>10, SameDebtsSound DEF Sound, OutIn
<1>12. Sound(r, Places) /\ LastIndex(r) = LastIndex(n)
  BY <1>7, <1>9, <1>11, SendSound
<1>13. r \in NodeState /\ r.role = n.role /\ r.term = n.term
  <2>1. [a.out EXCEPT ![f] = Append(@, reply)] \in [Server -> Seq(Message)]
    BY <1>7, <1>9, NodeFields
  <2>2. r \in NodeState
    BY <1>9, <2>1, Zenon DEF NodeState, Send
  <2>3. r.role = a.role /\ r.term = a.term
    BY <1>9 DEF NodeState, Send
  <2> QED
    BY <1>10, <2>2, <2>3 DEF SameDebts
<1> HIDE DEF r
<1>14. Sound(r, Places \cup {})
  BY <1>12, SoundGrows
<1>15. n.term \in Nat /\ LastIndex(n) \in Nat
  BY <1>5, NodeFields, LastIndexType
<1>16. /\ n.term >= node[s].term
       /\ n.role # "Follower" => n.role = node[s].role /\ n.term = node[s].term
  BY <1>2, <1>3, <1>15 DEF Advances, SameVote
<1>17. n.role = "Candidate" => <<s, n.term>> \notin elected
  BY <1>16 DEF LogInv, ElectedBefore
<1>18. LogStep(s, r, {})
  BY <1>3, <1>12, <1>13, <1>14, <1>15, <1>16, <1>17 DEF LogStep
<1> QED
  BY <1>4, <1>18, EndsLog

(* Stepping down to a newer term preserves the invariant. *)
LEMMA StepDownLog ==
    ASSUME Inv, Inv', LogInv, NEW f \in Server, NEW s \in Server,
           HandleRequestVoteFails(f, s) \/ HandleNewerTerm(f, s)
    PROVE  LogInv'
<1> DEFINE r == BecomeFollower(node[s], Head(net[f][s]).term, Nil)
<1>1. net[f][s] # << >> /\ Handled(f, s, r)
  BY Zenon DEF HandleRequestVoteFails, HandleNewerTerm, Arrives
<1>2. /\ r \in Node /\ Advances(node[s], r) /\ r.role = "Follower"
      /\ Sound(r, Places)
  BY <1>1, ArrivingMessage, MessageOfType, StepDownSound
<1>3. Ends(s, r)
  BY <1>1 DEF Ends
<1> HIDE DEF r
<1> QED
  BY <1>2, <1>3, QuietLog

(* Ignoring an outdated response preserves the invariant. *)
LEMMA HandleOutdatedLog ==
    ASSUME Inv, Inv', LogInv, NEW f \in Server, NEW s \in Server,
           HandleOutdated(f, s)
    PROVE  LogInv'
<1>1. Ends(s, node[s])
  BY DEF HandleOutdated, Arrives, Ends
<1>2. node[s] \in Node /\ Sound(node[s], Places) /\ Advances(node[s], node[s])
  BY NodeSound DEF Advances, SameVote
<1> QED
  BY <1>1, <1>2, QuietLog

(* handle_request_vote_response(), with or without enough votes, preserves *)
(* the invariant.                                                          *)
LEMMA HandleRequestVoteResponseLog ==
    ASSUME Inv, Inv', LogInv, NEW f \in Server, NEW s \in Server,
           \/ HandleRequestVoteResponse(f, s)
           \/ HandleRequestVoteResponseFails(f, s)
    PROVE  LogInv'
<1> DEFINE n == [node[s] EXCEPT !.votes = @ \cup {f}]
<1>1. /\ net[f][s] # << >> /\ node[s].role = "Candidate"
  BY Zenon DEF HandleRequestVoteResponse, HandleRequestVoteResponseFails,
               Arrives, VoteCounts
<1>2. /\ node[s] \in Node /\ node[s] \in NodeState /\ node[s].term \in Nat
      /\ Sound(node[s], Places)
  BY NodeSound, NodeFields
<1>3. <<s, node[s].term>> \notin elected
  BY <1>1 DEF LogInv, ElectedBefore
<1>4. n \in NodeState
  <2>1. node[s].votes \cup {f} \in SUBSET Server
    BY <1>2, NodeFields
  <2> QED
    BY <1>2, <2>1, Zenon DEF NodeState
<1>5. /\ n.snapIndex = node[s].snapIndex /\ n.applied = node[s].applied
      /\ n.out = node[s].out /\ n.id = node[s].id /\ n.term = node[s].term
      /\ n.votedFor = node[s].votedFor /\ SameDebts(node[s], n)
  BY <1>2 DEF NodeState, SameDebts
<1>6. \/ Handled(f, s, n)
      \/ \E limit \in Limits(n) : Handled(f, s, BecomeLeader(n, limit))
      \/ Handled(f, s, BecomeLeaderFailed(n))
  BY DEF HandleRequestVoteResponse, HandleRequestVoteResponseFails
<1> HIDE DEF n
<1>7. /\ n \in Node /\ Sound(n, Places) /\ LastIndex(n) = LastIndex(node[s])
  BY <1>2, <1>4, <1>5, SameDebtsSound DEF Node, Sound, OutIn
<1>8. CASE Handled(f, s, n)
  <2>1. Sound(n, Places \cup {})
    BY <1>7, SoundGrows
  <2>2. LogStep(s, n, {})
    BY <1>1, <1>2, <1>3, <1>4, <1>5, <2>1 DEF LogStep, SameDebts
  <2>3. Ends(s, n)
    BY <1>1, <1>8 DEF Ends
  <2> QED
    BY <2>2, <2>3, EndsLog
<1>9. ASSUME NEW limit \in Limits(n), Handled(f, s, BecomeLeader(n, limit))
      PROVE  LogInv'
  <2> DEFINE r == BecomeLeader(n, limit)
  <2>1. limit \in Nat
    BY <1>7, LimitsType
  <2>2. /\ r \in Node /\ r.role = "Leader" /\ r.term = n.term
        /\ Sound(r, Places \cup {NewPlace(n, NoOp)})
        /\ LastIndex(r) = LastIndex(n) + 1
    BY <1>7, <2>1, BecomeLeaderType, BecomeLeaderSound
  <2>3. Ends(s, r)
    BY <1>1, <1>9 DEF Ends
  <2> HIDE DEF r
  <2> QED
    BY <1>2, <1>3, <1>5, <1>7, <2>2, <2>3, NewLeaderLog
<1>10. CASE Handled(f, s, BecomeLeaderFailed(n))
  <2> DEFINE r == BecomeLeaderFailed(n)
  <2>1. /\ r \in Node /\ r.id = n.id /\ r.term = n.term
        /\ r.votedFor = n.votedFor /\ r.role = "Follower"
        /\ Sound(r, Places)
    BY <1>7, BecomeLeaderFailedType, BecomeLeaderFailedSound
  <2>2. Ends(s, r)
    BY <1>1, <1>10 DEF Ends
  <2> HIDE DEF r
  <2>3. Advances(node[s], r)
    BY <1>2, <1>5, <2>1 DEF Advances
  <2> QED
    BY <2>1, <2>2, <2>3, QuietLog
<1> QED
  BY <1>6, <1>8, <1>9, <1>10

(* Heeding a leader at the start of a handler. *)
LEMMA HeedAtStart ==
    ASSUME Inv, LogInv, NEW f \in Server, NEW s \in Server, net[f][s] # << >>
    PROVE  LET n == Heed(node[s], Head(net[f][s]), f)
           IN  /\ n \in Node /\ Advances(node[s], n) /\ Sound(n, Places)
               /\ n.pending = {} /\ n.barriers = {} /\ n.role = "Follower"
<1>1. Head(net[f][s]).term \in Nat
  BY ArrivingMessage, MessageOfType
<1>2. node[s] \in Node /\ Sound(node[s], Places)
  BY NodeSound
<1> QED
  BY <1>1, <1>2, HeedType, HeedSound

(* What a handler that heeds its sender as n does to n, and its reply. *)
LEMMA HeedingLog ==
    ASSUME Inv, Inv', LogInv, NEW f \in Server, NEW s \in Server,
           net[f][s] # << >>, NEW n \in Node, Advances(node[s], n),
           n.role = "Follower", NEW a \in Node, SameVote(n, a),
           Sound(a, Places),
           \/ Handled(f, s, a)
           \/ \E m \in Plain : /\ m.type # "AppendEntries"
                               /\ Handled(f, s, Send(a, f, m))
    PROVE  LogInv'
<1>1. node[s] \in Node
  BY NodeSound
<1>2. Advances(n, a) /\ a.role = "Follower"
  BY DEF SameVote, Advances
<1>3. Advances(node[s], a)
  BY <1>1, <1>2, AdvancesTransitive
<1>4. CASE Handled(f, s, a)
  <2>1. Ends(s, a)
    BY <1>4 DEF Ends
  <2> QED
    BY <1>2, <1>3, <2>1, QuietLog
<1>5. ASSUME NEW m \in Plain, m.type # "AppendEntries",
             Handled(f, s, Send(a, f, m))
      PROVE  LogInv'
  <2> DEFINE r == Send(a, f, m)
  <2>1. m \in Message /\ CarriesIn(m, Places) /\ a \in NodeState
    BY <1>5, CarriesNothing DEF Plain, Node
  <2>2. r \in Node /\ SameVote(a, r) /\ Sound(r, Places)
    BY <2>1, SendType, SendSound
  <2>3. Ends(s, r)
    BY <1>5 DEF Ends
  <2> HIDE DEF r
  <2>4. Advances(node[s], r) /\ r.role = "Follower"
    BY <1>2, <1>3, <2>2 DEF Advances, SameVote
  <2> QED
    BY <2>2, <2>3, <2>4, QuietLog
<1> QED
  BY <1>4, <1>5

(* handle_append_entries() and handle_install_snapshot() of an old term    *)
(* preserve the invariant.                                                 *)
LEMMA HandleStaleLog ==
    ASSUME Inv, Inv', LogInv, NEW f \in Server, NEW s \in Server,
           HandleAppendEntriesStale(f, s) \/ HandleInstallSnapshotStale(f, s)
    PROVE  LogInv'
<1> DEFINE m == Head(net[f][s])
           reply == AppendReply(node[s], m, FALSE, 0, 0)
           answer == SnapshotReply(node[s], FALSE)
<1>1. net[f][s] # << >>
  BY DEF HandleAppendEntriesStale, HandleInstallSnapshotStale, Arrives
<1>2. node[s] \in Node /\ node[s] \in NodeState /\ Sound(node[s], Places)
  BY NodeSound
<1>3. PICK x \in Plain :
        x.type # "AppendEntries" /\ Handled(f, s, Send(node[s], f, x))
  <2>1. CASE HandleAppendEntriesStale(f, s)
    <3>1. m \in AppendEntriesRequest /\ Handled(f, s, Send(node[s], f, reply))
      BY <2>1, ArrivingMessage, MessageOfType
      DEF HandleAppendEntriesStale, Arrives
    <3>2. reply \in Plain
      BY <1>2, <3>1, AppendReplyType
    <3> QED
      BY <3>1, <3>2 DEF AppendReply
  <2>2. CASE HandleInstallSnapshotStale(f, s)
    <3>1. Handled(f, s, Send(node[s], f, answer))
      BY <2>2 DEF HandleInstallSnapshotStale
    <3>2. answer \in Plain
      BY <1>2, SnapshotReplyType
    <3> QED
      BY <3>1, <3>2 DEF SnapshotReply
  <2> QED
    BY <2>1, <2>2
<1> DEFINE r == Send(node[s], f, x)
<1>4. x \in Message /\ CarriesIn(x, Places)
  BY <1>3, CarriesNothing DEF Plain
<1>5. /\ r \in Node /\ Advances(node[s], r) /\ Sound(r, Places)
      /\ LastIndex(r) = LastIndex(node[s])
  BY <1>2, <1>4, SendType, SendSound DEF Advances
<1>6. Ends(s, r)
  BY <1>1, <1>3 DEF Ends
<1> HIDE DEF r
<1> QED
  BY <1>5, <1>6, QuietLog

(* handle_append_entries() failing the log check preserves the invariant. *)
LEMMA HandleAppendEntriesInconsistentLog ==
    ASSUME Inv, Inv', LogInv, NEW f \in Server, NEW s \in Server,
           HandleAppendEntriesInconsistent(f, s)
    PROVE  LogInv'
<1> DEFINE m == Head(net[f][s])
           n == Heed(node[s], m, f)
           reply == AppendReply(n, m, FALSE, 0, LastIndex(n))
<1>1. /\ net[f][s] # << >> /\ m.type = "AppendEntries"
      /\ Handled(f, s, Send(n, f, reply))
  BY Zenon DEF HandleAppendEntriesInconsistent, Arrives
<1>2. m \in AppendEntriesRequest
  BY <1>1, ArrivingMessage, MessageOfType
<1>3. /\ n \in Node /\ Advances(node[s], n) /\ Sound(n, Places)
      /\ n.role = "Follower"
  BY <1>1, HeedAtStart
<1> HIDE DEF m, n
<1>4. reply \in Plain
  <2>1. LastIndex(n) \in Nat
    BY <1>3, LastIndexType DEF Node
  <2> QED
    BY <1>2, <1>3, <2>1, AppendReplyType
<1>5. reply.type # "AppendEntries" /\ SameVote(n, n)
  BY DEF AppendReply, SameVote
<1> HIDE DEF reply
<1> QED
  BY <1>1, <1>3, <1>4, <1>5, HeedingLog

(* handle_append_entries() giving up half way preserves the invariant. *)
LEMMA HandleAppendEntriesRefusedLog ==
    ASSUME Inv, Inv', LogInv, NEW f \in Server, NEW s \in Server,
           HandleAppendEntriesRefused(f, s) \/ HandleAppendEntriesFails(f, s)
    PROVE  LogInv'
<1> DEFINE m == Head(net[f][s])
           n == Heed(node[s], m, f)
           merged(k) == Merge(n, m, k)
           truncated(k) == [merged(k) EXCEPT !.log =
                               SubSeq(@, 1, m.prevIndex + k - n.snapIndex)]
<1>1. /\ net[f][s] # << >> /\ m.type = "AppendEntries" /\ Consistent(n, m)
  BY Zenon DEF HandleAppendEntriesRefused, HandleAppendEntriesFails, Arrives
<1>2. m \in AppendEntriesRequest /\ CarriesIn(m, Places)
  BY <1>1, ArrivingMessage, ArrivingCarries, MessageOfType
<1>3. PICK k \in 0 .. Len(m.entries) - 1 :
        \/ Handled(f, s, merged(k))
        \/ /\ ConflictAt(merged(k), m, k + 1)
           /\ Handled(f, s, truncated(k))
  BY DEF HandleAppendEntriesRefused, HandleAppendEntriesFails
<1>4. /\ n \in Node /\ Advances(node[s], n) /\ Sound(n, Places)
      /\ n.pending = {} /\ n.barriers = {} /\ n.role = "Follower"
  BY <1>1, HeedAtStart
<1> HIDE DEF m, n
<1>5. k \in 0 .. Len(m.entries)
  <2>1. Len(m.entries) \in Nat
    BY <1>2 DEF AppendEntriesRequest
  <2> QED
    BY <2>1
<1> DEFINE a == merged(k)
           t == truncated(k)
           cut == m.prevIndex + k - n.snapIndex
<1>6. a \in Node /\ SameVote(n, a) /\ a.snapIndex = n.snapIndex
  BY <1>1, <1>2, <1>4, <1>5, MergeType
<1>7. Sound(a, Places) /\ a.pending = {} /\ a.barriers = {}
  BY <1>1, <1>2, <1>4, <1>5, MergeSound
<1>8. t = [a EXCEPT !.log = SubSeq(@, 1, cut)]
  OBVIOUS
<1> HIDE DEF merged, a, t
<1>9. CASE Handled(f, s, a)
  BY <1>1, <1>4, <1>6, <1>7, <1>9, HeedingLog
<1>10. CASE ConflictAt(a, m, k + 1) /\ Handled(f, s, t)
  <2>1. a \in NodeState
    BY <1>6 DEF Node
  <2>2. a.log \in Seq(Entry) /\ n.snapIndex \in Nat
    BY <1>4, <2>1, NodeFields DEF Node
  <2>3. m.prevIndex \in Nat /\ n.snapIndex <= m.prevIndex
    BY <1>1, <1>2, <2>2 DEF AppendEntriesRequest, Consistent, Stored
  <2>4. m.prevIndex + (k + 1) <= n.snapIndex + Len(a.log)
    BY <1>6, <1>10 DEF ConflictAt, LastIndex
  <2>5. cut \in 0 .. Len(a.log)
    BY <1>5, <2>2, <2>3, <2>4
  <2> HIDE DEF cut
  <2>6. SubSeq(a.log, 1, cut) \in Seq(Entry)
    BY <2>2, <2>5
  <2>7. t \in NodeState
    BY <1>8, <2>1, <2>6, Zenon DEF NodeState
  <2>8. /\ t.snapIndex = a.snapIndex /\ t.applied = a.applied
        /\ t.out = a.out /\ SameVote(a, t)
    BY <1>8, <2>1 DEF NodeState, SameVote
  <2>9. t \in Node /\ SameVote(n, t)
    BY <1>6, <2>7, <2>8 DEF Node, SameVote
  <2>10. Sound(t, Places)
    BY <1>6, <1>7, <1>8, <2>5, CutSound
  <2> QED
    BY <1>1, <1>4, <1>10, <2>9, <2>10, HeedingLog
<1> QED
  BY <1>3, <1>9, <1>10 DEF a, t

(* handle_append_entries() preserves the invariant. *)
LEMMA HandleAppendEntriesLog ==
    ASSUME Inv, Inv', LogInv, NEW f \in Server, NEW s \in Server,
           HandleAppendEntries(f, s)
    PROVE  LogInv'
<1> DEFINE m == Head(net[f][s])
           h == Heed(node[s], m, f)
           n == Merge(h, m, Len(m.entries))
           commit == IF m.commit > n.commit
                     THEN MinOf(m.commit, LastIndex(n)) ELSE n.commit
           c == [n EXCEPT !.commit = commit]
           reply(r) == AppendReply(r, m, TRUE, Matched(r, m), 0)
<1>1. /\ net[f][s] # << >> /\ m.type = "AppendEntries" /\ Consistent(h, m)
  BY Zenon DEF HandleAppendEntries, Arrives
<1>2. PICK limit \in Limits(c) :
        LET r == ApplyCommitted(c, limit)
        IN  Handled(f, s, Send(r, f, reply(r)))
  BY DEF HandleAppendEntries
<1>3. m \in AppendEntriesRequest /\ CarriesIn(m, Places)
  BY <1>1, ArrivingMessage, ArrivingCarries, MessageOfType
<1>4. /\ h \in Node /\ Advances(node[s], h) /\ Sound(h, Places)
      /\ h.pending = {} /\ h.barriers = {} /\ h.role = "Follower"
  BY <1>1, HeedAtStart
<1> HIDE DEF m, h
<1>5. m.entries \in Seq(Entry) /\ m.prevIndex \in Nat /\ m.commit \in Nat
  BY <1>3 DEF AppendEntriesRequest
<1>6. /\ Len(m.entries) \in 0 .. Len(m.entries)
      /\ \A r : Matched(r, m) \in Nat
  BY <1>5 DEF Matched
<1>7. n \in Node /\ SameVote(h, n) /\ Sound(n, Places)
  BY <1>1, <1>3, <1>4, <1>6, MergeType, MergeSound
<1> HIDE DEF n
<1>8. n \in NodeState
  BY <1>7 DEF Node
<1>9. commit \in Nat
  BY <1>5, <1>8, NodeFields, LastIndexType DEF MinOf
<1> HIDE DEF commit
<1>10. c \in NodeState
  BY <1>8, <1>9, Zenon DEF NodeState
<1>11. /\ c.snapIndex = n.snapIndex /\ c.applied = n.applied
       /\ c.out = n.out /\ SameVote(n, c) /\ SameDebts(n, c)
  BY <1>8 DEF NodeState, SameVote, SameDebts
<1> HIDE DEF c
<1>12. c \in Node /\ Sound(c, Places)
  BY <1>7, <1>10, <1>11, SameDebtsSound DEF Node, Sound, OutIn
<1>13. limit \in Nat
  BY <1>12, LimitsType
<1> DEFINE r == ApplyCommitted(c, limit)
<1>14. Handled(f, s, Send(r, f, reply(r)))
  BY <1>2
<1>15. r \in Node /\ SameVote(c, r) /\ Sound(r, Places)
  BY <1>12, <1>13, ApplyCommittedType, ApplyCommittedSound
<1> HIDE DEF r
<1>16. reply(r) \in Plain /\ reply(r).type # "AppendEntries"
  BY <1>3, <1>6, <1>15, AppendReplyType DEF AppendReply
<1> HIDE DEF reply
<1>17. SameVote(h, r)
  BY <1>7, <1>11, <1>15 DEF SameVote
<1> QED
  BY <1>1, <1>4, <1>14, <1>15, <1>16, <1>17, HeedingLog

(* A leader's handler of a response preserves the invariant. *)
LEMMA LeaderHandlerLog ==
    ASSUME Inv, Inv', LogInv, NEW f \in Server, NEW s \in Server,
           net[f][s] # << >>, NEW r \in Node, SameVote(node[s], r),
           Sound(r, Places), LastIndex(r) = LastIndex(node[s]),
           Handled(f, s, r)
    PROVE  LogInv'
<1>1. Advances(node[s], r) /\ Ends(s, r)
  BY DEF Advances, Ends
<1> QED
  BY <1>1, QuietLog

(* A node that differs from a sound one only in what it knows of its peers *)
(* is sound.                                                               *)
LEMMA PeersSound ==
    ASSUME NEW n \in Node, Sound(n, Places), NEW r \in NodeState,
           SameDebts(n, r), SameVote(n, r), r.out = n.out
    PROVE  r \in Node /\ Sound(r, Places) /\ LastIndex(r) = LastIndex(n)
<1>1. OutIn(r, Places)
  BY DEF Sound, OutIn
<1> QED
  BY <1>1, SameDebtsSound DEF Node, SameDebts

(* handle_append_entries_response() of a success preserves the invariant. *)
LEMMA HandleAppendEntriesResponseLog ==
    ASSUME Inv, Inv', LogInv, NEW f \in Server, NEW s \in Server,
           HandleAppendEntriesResponse(f, s)
    PROVE  LogInv'
<1> DEFINE m == Head(net[f][s])
           match == [node[s].match EXCEPT ![f] = MaxOf(@, m.match)]
           acked == [node[s].acked EXCEPT ![f] = MaxOf(@, m.round)]
           n == [node[s] EXCEPT !.match[f] = MaxOf(@, m.match),
                                !.acked[f] = MaxOf(@, m.round)]
           p == [n EXCEPT !.next[f] = MaxOf(@, n.match[f] + 1)]
           next == [n.next EXCEPT ![f] = MaxOf(@, n.match[f] + 1)]
           result(r) == LET e == EvaluateReadBarriers(r)
                        IN  IF r.commit # p.commit /\ ApplyFailed(r) THEN r
                            ELSE IF NeedsMore(e, p, f) THEN SendAppendEntries(e, {f})
                            ELSE e
<1>1. net[f][s] # << >> /\ m.type = "AppendEntriesResponse"
  <2>1. Arrives(f, s, {"AppendEntriesResponse"})
    BY ZenonT(30) DEF HandleAppendEntriesResponse
  <2> QED
    BY <2>1 DEF Arrives
<1>2. PICK limit \in Limits(p) : Handled(f, s, result(AdvanceCommit(p, limit)))
  BY Zenon DEF HandleAppendEntriesResponse
<1>3. m.match \in Nat /\ m.round \in Nat
  <2>1. m \in AppendEntriesResponse
    BY <1>1, ArrivingMessage, MessageOfType
  <2> QED
    BY <2>1 DEF AppendEntriesResponse
<1>4. node[s] \in Node /\ node[s] \in NodeState /\ Sound(node[s], Places)
  BY NodeSound
<1> HIDE DEF m, result
<1>5. match \in [Server -> Nat] /\ acked \in [Server -> Nat]
  BY <1>3, <1>4, NodeFields DEF MaxOf
<1>6. n = [node[s] EXCEPT !.match = match, !.acked = acked]
  OBVIOUS
<1> HIDE DEF n, match, acked
<1>7. n \in NodeState
  BY <1>4, <1>5, <1>6, Zenon DEF NodeState
<1>8. n.out = node[s].out /\ SameVote(node[s], n) /\ SameDebts(node[s], n)
  BY <1>4, <1>6 DEF NodeState, SameVote, SameDebts
<1>9. next \in [Server -> Nat] /\ p = [n EXCEPT !.next = next]
  BY <1>7, NodeFields DEF MaxOf
<1> HIDE DEF p, next
<1>10. p \in NodeState
  BY <1>7, <1>9, Zenon DEF NodeState
<1>11. /\ p \in Node /\ SameVote(node[s], p) /\ Sound(p, Places)
       /\ LastIndex(p) = LastIndex(node[s])
  <2>1. p.out = n.out /\ SameVote(n, p) /\ SameDebts(n, p)
    BY <1>7, <1>9 DEF NodeState, SameVote, SameDebts
  <2>2. p.out = node[s].out /\ SameVote(node[s], p) /\ SameDebts(node[s], p)
    BY <1>8, <2>1 DEF SameVote, SameDebts
  <2> QED
    BY <1>4, <1>10, <2>2, PeersSound
<1>12. limit \in Nat
  BY <1>11, LimitsType
<1> DEFINE r == AdvanceCommit(p, limit)
           e == EvaluateReadBarriers(r)
           x == SendAppendEntries(e, {f})
<1>13. /\ r \in Node /\ SameVote(p, r) /\ Sound(r, Places)
       /\ LastIndex(r) = LastIndex(p)
  BY <1>11, <1>12, AdvanceCommitType, AdvanceCommitSound
<1>14. Handled(f, s, result(r))
  BY <1>2
<1> HIDE DEF r
<1>15. /\ e \in Node /\ SameVote(r, e) /\ Sound(e, Places)
       /\ LastIndex(e) = LastIndex(r)
  BY <1>13, EvaluateReadBarriersType, EvaluateReadBarriersSound
<1> HIDE DEF e
<1>16. /\ x \in Node /\ SameVote(e, x) /\ Sound(x, Places)
       /\ LastIndex(x) = LastIndex(e)
  BY <1>15, SendAppendEntriesType, SendAppendEntriesSound
<1>17. result(r) \in {r, e, x}
  BY DEF result, e
<1> HIDE DEF x
<1>18. /\ result(r) \in Node /\ SameVote(node[s], result(r))
       /\ Sound(result(r), Places) /\ LastIndex(result(r)) = LastIndex(node[s])
  BY <1>11, <1>13, <1>15, <1>16, <1>17 DEF SameVote
<1> QED
  BY <1>1, <1>14, <1>18, LeaderHandlerLog

(* handle_append_entries_response() of a rejection preserves the           *)
(* invariant.                                                              *)
LEMMA HandleAppendEntriesRejectionLog ==
    ASSUME Inv, Inv', LogInv, NEW f \in Server, NEW s \in Server,
           HandleAppendEntriesRejection(f, s)
    PROVE  LogInv'
<1> DEFINE n == node[s]
           next == [n.next EXCEPT ![f] = MaxOf(@ - 1, 1)]
           back == [n EXCEPT !.next[f] = MaxOf(@ - 1, 1)]
<1>1. net[f][s] # << >>
  BY Zenon DEF HandleAppendEntriesRejection, Arrives
<1>2. PICK r \in {SendSnapshot(n, {f}), SendAppendEntries(back, {f})} :
        Handled(f, s, r)
  BY DEF HandleAppendEntriesRejection
<1>3. n \in Node /\ n \in NodeState /\ Sound(n, Places)
  BY NodeSound
<1> HIDE DEF n
<1>4. next \in [Server -> Nat]
  BY <1>3, NodeFields DEF MaxOf
<1>5. back = [n EXCEPT !.next = next]
  OBVIOUS
<1> HIDE DEF back, next
<1>6. back \in NodeState
  BY <1>3, <1>4, <1>5, Zenon DEF NodeState
<1>7. back.out = n.out /\ SameVote(n, back) /\ SameDebts(n, back)
  BY <1>3, <1>5 DEF NodeState, SameVote, SameDebts
<1>8. back \in Node /\ Sound(back, Places) /\ LastIndex(back) = LastIndex(n)
  BY <1>3, <1>6, <1>7, PeersSound
<1>9. /\ r \in Node /\ SameVote(n, r) /\ Sound(r, Places)
      /\ LastIndex(r) = LastIndex(n)
  BY <1>2, <1>3, <1>7, <1>8, SendSnapshotType, SendAppendEntriesType,
     SendSnapshotSound, SendAppendEntriesSound DEF SameVote
<1> QED
  BY <1>1, <1>2, <1>9, LeaderHandlerLog DEF n

(* handle_install_snapshot_response() preserves the invariant. *)
LEMMA HandleInstallSnapshotResponseLog ==
    ASSUME Inv, Inv', LogInv, NEW f \in Server, NEW s \in Server,
           HandleInstallSnapshotResponse(f, s)
    PROVE  LogInv'
<1>1. net[f][s] # << >>
  BY Zenon DEF HandleInstallSnapshotResponse, Arrives
<1>2. PICK r \in {node[s], SendAppendEntries(node[s], {f})} : Handled(f, s, r)
  BY DEF HandleInstallSnapshotResponse
<1>3. node[s] \in Node /\ Sound(node[s], Places)
  BY NodeSound
<1>4. /\ r \in Node /\ SameVote(node[s], r) /\ Sound(r, Places)
      /\ LastIndex(r) = LastIndex(node[s])
  BY <1>2, <1>3, SendAppendEntriesType, SendAppendEntriesSound DEF SameVote
<1> QED
  BY <1>1, <1>2, <1>4, LeaderHandlerLog

(* A node that differs from a sound one only in its snapshot buffer and    *)
(* its data is sound.                                                      *)
LEMMA BufferSound ==
    ASSUME NEW n \in Node, Sound(n, Places), NEW data \in SUBSET Value,
           NEW snap \in PendingSnapshot \cup {Nil}, NEW r,
           r = [n EXCEPT !.data = data, !.snap = snap]
    PROVE  /\ r \in Node /\ SameVote(n, r) /\ Sound(r, Places)
           /\ SameDebts(n, r)
<1>1. n \in NodeState
  BY DEF Node
<1>2. r \in NodeState
  BY <1>1, Zenon DEF NodeState
<1>3. /\ SameDebts(n, r) /\ r.out = n.out /\ SameVote(n, r)
  BY <1>1 DEF NodeState, SameDebts, SameVote
<1>4. Sound(r, Places)
  BY <1>3, SameDebtsSound DEF Sound, OutIn
<1> QED
  BY <1>2, <1>3, <1>4 DEF Node, SameDebts

(* handle_install_snapshot() refusing a chunk, or failing to restore or to *)
(* move the boundary, preserves the invariant.                             *)
LEMMA HandleInstallSnapshotRefusedLog ==
    ASSUME Inv, Inv', LogInv, NEW f \in Server, NEW s \in Server,
           HandleInstallSnapshotRefused(f, s) \/ HandleInstallSnapshotFails(f, s)
    PROVE  LogInv'
<1> DEFINE m == Head(net[f][s])
           n == Heed(node[s], m, f)
           clean == [n EXCEPT !.snap = Nil]
           filled == [clean EXCEPT !.data = m.data]
<1>1. net[f][s] # << >> /\ m.type = "InstallSnapshot"
  BY Zenon DEF HandleInstallSnapshotRefused, HandleInstallSnapshotFails, Arrives
<1>2. PICK r \in {n, clean, filled} :
        Handled(f, s, Send(r, f, SnapshotReply(r, FALSE)))
  <2>1. CASE HandleInstallSnapshotRefused(f, s)
    BY <2>1, Zenon DEF HandleInstallSnapshotRefused
  <2>2. CASE HandleInstallSnapshotFails(f, s)
    BY <2>2 DEF HandleInstallSnapshotFails
  <2> QED
    BY <2>1, <2>2
<1>3. m \in InstallSnapshotRequest
  BY <1>1, HeedArriving
<1>4. /\ n \in Node /\ Advances(node[s], n) /\ Sound(n, Places)
      /\ n.role = "Follower"
  BY <1>1, HeedAtStart
<1> HIDE DEF m, n
<1>5. n \in NodeState /\ m.data \in SUBSET Value /\ n.data \in SUBSET Value
      /\ Nil \in PendingSnapshot \cup {Nil}
  BY <1>3, <1>4, NodeFields DEF Node, InstallSnapshotRequest
<1>6. clean = [n EXCEPT !.data = n.data, !.snap = Nil]
  BY <1>5, Zenon DEF NodeState
<1>7. filled = [n EXCEPT !.data = m.data, !.snap = Nil]
  BY <1>5, Zenon DEF NodeState
<1> HIDE DEF clean, filled
<1>8. r \in Node /\ SameVote(n, r) /\ Sound(r, Places)
  <2>1. clean \in Node /\ SameVote(n, clean) /\ Sound(clean, Places)
    BY <1>4, <1>5, <1>6, BufferSound, Zenon
  <2>2. filled \in Node /\ SameVote(n, filled) /\ Sound(filled, Places)
    BY <1>4, <1>5, <1>7, BufferSound, Zenon
  <2> QED
    BY <1>2, <1>4, <2>1, <2>2 DEF SameVote
<1>9. /\ SnapshotReply(r, FALSE) \in Plain
      /\ SnapshotReply(r, FALSE).type # "AppendEntries"
  BY <1>8, SnapshotReplyType DEF SnapshotReply
<1> QED
  BY <1>1, <1>2, <1>4, <1>8, <1>9, HeedingLog

(* handle_install_snapshot() buffering a chunk preserves the invariant. *)
LEMMA HandleInstallSnapshotChunkLog ==
    ASSUME Inv, Inv', LogInv, NEW f \in Server, NEW s \in Server,
           HandleInstallSnapshotChunk(f, s)
    PROVE  LogInv'
<1> DEFINE m == Head(net[f][s])
           n == Heed(node[s], m, f)
           old == Assembling(node[s], m, f)
           snap == [old EXCEPT !.buffer = Append(@, m.data)]
           r == [n EXCEPT !.snap = snap]
<1>1. /\ net[f][s] # << >> /\ m.type = "InstallSnapshot"
  BY Zenon DEF HandleInstallSnapshotChunk, Arrives
<1>2. Handled(f, s, r)
  BY Zenon DEF HandleInstallSnapshotChunk
<1>3. m \in InstallSnapshotRequest
  BY <1>1, HeedArriving
<1>4. /\ n \in Node /\ Advances(node[s], n) /\ Sound(n, Places)
      /\ n.role = "Follower"
  BY <1>1, HeedAtStart
<1>5. n \in NodeState
  BY <1>4 DEF Node
<1>6. old \in PendingSnapshot
  <2>1. n.snap \in PendingSnapshot \cup {Nil}
    BY <1>5, NodeFields
  <2>2. [index |-> m.index, term |-> m.indexTerm, buffer |-> << >>]
          \in PendingSnapshot
    BY <1>3 DEF InstallSnapshotRequest, PendingSnapshot
  <2>3. \/ old = [index |-> m.index, term |-> m.indexTerm, buffer |-> << >>]
        \/ old = n.snap /\ n.snap # Nil
    BY DEF Assembling
  <2> QED
    BY <2>1, <2>2, <2>3
<1>7. m.data \in SUBSET Value
  BY <1>3 DEF InstallSnapshotRequest
<1> HIDE DEF m, n, old
<1>8. snap \in PendingSnapshot
  BY <1>6, <1>7 DEF PendingSnapshot
<1> HIDE DEF snap
<1>9. r = [n EXCEPT !.data = n.data, !.snap = snap]
  BY <1>5, Zenon DEF NodeState
<1> HIDE DEF r
<1>10. r \in Node /\ SameVote(n, r) /\ Sound(r, Places)
  <2>1. n.data \in SUBSET Value /\ snap \in PendingSnapshot \cup {Nil}
    BY <1>5, <1>8, NodeFields
  <2> QED
    BY <1>4, <1>9, <2>1, BufferSound, Zenon
<1> QED
  BY <1>1, <1>2, <1>4, <1>10, HeedingLog

(* handle_install_snapshot() of the last chunk preserves the invariant. *)
LEMMA HandleInstallSnapshotLog ==
    ASSUME Inv, Inv', LogInv, NEW f \in Server, NEW s \in Server,
           HandleInstallSnapshot(f, s)
    PROVE  LogInv'
<1> DEFINE m == Head(net[f][s])
           h == Heed(node[s], m, f)
           n == Restored(h, m)
           i == InstallBoundary(n, m.index, m.indexTerm)
           r == [i EXCEPT !.pending = {p \in @ : p.index > m.index}]
           e == EvaluateReadBarriers(r)
<1>1. /\ net[f][s] # << >> /\ m.type = "InstallSnapshot"
  BY Zenon DEF HandleInstallSnapshot, Arrives
<1>2. /\ Handled(f, s, Send(e, f, SnapshotReply(r, TRUE)))
      /\ Fits(node[s], m, f)
  BY Zenon DEF HandleInstallSnapshot
<1>3. m \in InstallSnapshotRequest /\ h.applied = node[s].applied
  BY <1>1, HeedArriving
<1>4. /\ h \in Node /\ Advances(node[s], h) /\ Sound(h, Places)
      /\ h.pending = {} /\ h.barriers = {} /\ h.role = "Follower"
  BY <1>1, HeedAtStart
<1>5. /\ m.index \in Nat /\ m.indexTerm \in Nat /\ m.data \in SUBSET Value
      /\ Nil \in PendingSnapshot \cup {Nil}
  BY <1>3 DEF InstallSnapshotRequest
<1> HIDE DEF m, h
<1>6. h.snapIndex <= m.index
  <2>1. m.index >= h.applied
    BY <1>2, <1>3 DEF Fits
  <2>2. h.snapIndex <= h.applied /\ h.snapIndex \in Nat /\ h.applied \in Nat
    BY <1>4, NodeFields DEF Node
  <2> QED
    BY <1>5, <2>1, <2>2
<1>7. n \in Node /\ SameVote(h, n) /\ Sound(n, Places) /\ SameDebts(h, n)
  BY <1>4, <1>5, BufferSound DEF Restored
<1> HIDE DEF n
<1>8. n.pending = {} /\ n.barriers = {} /\ n.snapIndex <= m.index
  BY <1>4, <1>6, <1>7 DEF SameDebts
<1>9. i \in Node /\ SameVote(n, i)
  BY <1>5, <1>7, <1>8, InstallBoundaryType
<1>10. Sound(i, Places) /\ i.pending = {} /\ i.barriers = {}
  BY <1>5, <1>7, <1>8, InstallBoundarySound
<1> HIDE DEF i
<1>11. i \in NodeState
  BY <1>9 DEF Node
<1>12. {p \in i.pending : p.index > m.index} = i.pending
  BY <1>10
<1>13. r = i
  BY <1>11, <1>12, Zenon DEF NodeState
<1> HIDE DEF r
<1>14. r \in Node /\ SameVote(h, r) /\ Sound(r, Places)
  BY <1>7, <1>9, <1>10, <1>13 DEF SameVote
<1>15. e \in Node /\ SameVote(r, e) /\ Sound(e, Places)
  BY <1>14, EvaluateReadBarriersType, EvaluateReadBarriersSound
<1> HIDE DEF e
<1>16. /\ SnapshotReply(r, TRUE) \in Plain
       /\ SnapshotReply(r, TRUE).type # "AppendEntries"
  BY <1>14, SnapshotReplyType DEF SnapshotReply
<1>17. SameVote(h, e)
  BY <1>14, <1>15 DEF SameVote
<1> QED
  BY <1>1, <1>2, <1>4, <1>15, <1>16, <1>17, HeedingLog

(* A step that adds nothing to any log and loses or repeats what is on its *)
(* way preserves the invariant.                                            *)
LEMMA NothingWrittenLog ==
    ASSUME Inv, LogInv, UNCHANGED <<told, elected>>, PartOf(net'),
           \A t \in Server :
             \/ node'[t] = node[t]
             \/ /\ node'[t].log = node[t].log
                /\ node'[t].snapIndex = node[t].snapIndex
                /\ node'[t].term = node[t].term /\ node'[t].role = "Follower"
                /\ node'[t].pending = {} /\ node'[t].barriers = {}
    PROVE  LogInv'
<1>1. \A t \in Server : /\ node'[t].log = node[t].log
                        /\ node'[t].snapIndex = node[t].snapIndex
                        /\ node'[t].term = node[t].term
                        /\ LastIndex(node'[t]) = LastIndex(node[t])
                        /\ \/ node'[t] = node[t]
                           \/ node'[t].role = "Follower"
  BY DEF LastIndex
<1>2. Places' \subseteq Places
  <2> SUFFICES ASSUME NEW x \in Nat \X Entry, Written(x[1], x[2])'
               PROVE  Written(x[1], x[2])
    BY DEF Places
  <2>1. CASE \E t \in Server : \E i \in 1 .. Len(node'[t].log) :
               x[1] = node'[t].snapIndex + i /\ x[2] = node'[t].log[i]
    BY <1>1, <2>1, SMTT(30) DEF Written
  <2>2. CASE \E f, t \in Server : \E i \in DOMAIN net'[f][t] :
               /\ net'[f][t][i].type = "AppendEntries"
               /\ \E j \in 1 .. Len(net'[f][t][i].entries) :
                    /\ x[1] = net'[f][t][i].prevIndex + j
                    /\ x[2] = net'[f][t][i].entries[j]
    <3>1. PICK f \in Server, t \in Server : \E i \in DOMAIN net'[f][t] :
               /\ net'[f][t][i].type = "AppendEntries"
               /\ \E j \in 1 .. Len(net'[f][t][i].entries) :
                    /\ x[1] = net'[f][t][i].prevIndex + j
                    /\ x[2] = net'[f][t][i].entries[j]
      BY <2>2
    <3>2. PICK i \in DOMAIN net'[f][t] :
               /\ net'[f][t][i].type = "AppendEntries"
               /\ \E j \in 1 .. Len(net'[f][t][i].entries) :
                    /\ x[1] = net'[f][t][i].prevIndex + j
                    /\ x[2] = net'[f][t][i].entries[j]
      BY <3>1
    <3>3. PICK k \in DOMAIN net[f][t] : net'[f][t][i] = net[f][t][k]
      BY DEF PartOf
    <3>4. /\ net[f][t][k].type = "AppendEntries"
          /\ \E j \in 1 .. Len(net[f][t][k].entries) :
               /\ x[1] = net[f][t][k].prevIndex + j
               /\ x[2] = net[f][t][k].entries[j]
      BY <3>2, <3>3
    <3> QED
      BY ONLY <3>4, f \in Server, t \in Server, k \in DOMAIN net[f][t], Zenon DEF Written
  <2> QED
    BY <2>1, <2>2 DEF Written
<1>3. WrittenByElected' /\ OneEntryAPlace' /\ CompletedOwnEntry'
  BY <1>2 DEF LogInv, WrittenByElected, OneEntryAPlace, CompletedOwnEntry,
              Completed
<1>4. LeaderIsAhead'
  <2> SUFFICES ASSUME NEW t \in Server, node'[t].role = "Leader",
                      NEW x \in Places', x[2].term = node'[t].term
               PROVE  x[1] <= LastIndex(node'[t])
    BY DEF LeaderIsAhead, LastIndex
  <2> QED
    BY <1>1, <1>2 DEF LogInv, LeaderIsAhead
<1>5. ElectedBefore'
  <2>1. \A e \in elected : e[1] \in Server
    BY DEF Inv, TypeInv, TypeOK
  <2> QED
    BY <1>1, <2>1 DEF LogInv, ElectedBefore
<1>6. DebtsBacked'
  <2> SUFFICES ASSUME NEW t \in Server PROVE Owed(node'[t]) /\ Backed(node'[t])
    BY DEF DebtsBacked, Owed, Backed, LastIndex
  <2>1. CASE node'[t] = node[t]
    BY <2>1 DEF LogInv, DebtsBacked
  <2>2. CASE node'[t] # node[t]
    BY <2>2 DEF Owed, Backed
  <2> QED
    BY <2>1, <2>2
<1> QED
  BY <1>3, <1>4, <1>5, <1>6 DEF LogInv

(* A crash, which fails whatever waits, and start() preserve the invariant. *)
LEMMA CrashRestartLog ==
    ASSUME Inv, LogInv, NEW s \in Server, Crash(s) \/ Restart(s)
    PROVE  LogInv'
<1>1. UNCHANGED <<told, elected>>
  BY DEF Crash, Restart
<1>2. PartOf(net')
  <2>1. \A f, t \in Server : net'[f][t] \in {net[f][t], << >>}
    BY CrashRestart
  <2> QED
    BY <2>1 DEF PartOf
<1>3. /\ node'[s].log = node[s].log /\ node'[s].snapIndex = node[s].snapIndex
      /\ node'[s].term = node[s].term /\ node'[s].role = "Follower"
      /\ node'[s].pending = {} /\ node'[s].barriers = {}
      /\ \A t \in Server \ {s} : node'[t] = node[t]
  BY CrashRestart
<1> QED
  BY <1>1, <1>2, <1>3, NothingWrittenLog

(* Losing a message and sending one again preserve the invariant. *)
LEMMA WireLog ==
    ASSUME Inv, LogInv, NEW f \in Server, NEW s \in Server,
           Lose(f, s) \/ Resend(f, s)
    PROVE  LogInv'
<1>1. UNCHANGED <<node, told, elected>>
  BY DEF Lose, Resend
<1>2. PartOf(net')
  BY WirePart
<1> QED
  BY <1>1, <1>2, NothingWrittenLog

(* Every message handler preserves the invariant. *)
LEMMA HandleLog ==
    ASSUME Inv, Inv', LogInv, NEW f \in Server, NEW s \in Server, Handle(f, s)
    PROVE  LogInv'
BY HandleRequestVoteLog, StepDownLog, HandleOutdatedLog,
   HandleRequestVoteResponseLog, HandleStaleLog,
   HandleAppendEntriesInconsistentLog, HandleAppendEntriesRefusedLog,
   HandleAppendEntriesLog, HandleAppendEntriesResponseLog,
   HandleAppendEntriesRejectionLog, HandleInstallSnapshotRefusedLog,
   HandleInstallSnapshotChunkLog, HandleInstallSnapshotLog,
   HandleInstallSnapshotResponseLog, Zenon DEF Handle

(* Every step preserves the invariant. *)
LEMMA NextLog == Inv /\ Inv' /\ LogInv /\ [Next]_vars => LogInv'
<1> SUFFICES ASSUME Inv, Inv', LogInv, [Next]_vars PROVE LogInv'
  OBVIOUS
<1>1. CASE UNCHANGED vars
  <2>1. UNCHANGED <<node, net, told, elected>>
    BY <1>1 DEF vars
  <2>2. PartOf(net')
    BY <2>1 DEF PartOf
  <2> QED
    BY <2>1, <2>2, NothingWrittenLog
<1>2. ASSUME NEW s \in Server,
             \/ TickIdle(s) \/ TickCompactionFails(s) \/ TickHeartbeat(s)
             \/ TickElection(s) \/ TickElectionFails(s)
             \/ (\E v \in Value : Propose(s, v)) \/ ReadIndex(s)
             \/ Crash(s) \/ Restart(s)
      PROVE  LogInv'
  BY <1>2, TickIdleLog, TickCompactionFailsLog, TickElectionLog,
     TickElectionFailsLog, ProposeLog, ReadIndexLog, CrashRestartLog, Zenon
<1>3. ASSUME NEW f \in Server, NEW s \in Server,
             Handle(f, s) \/ Lose(f, s) \/ Resend(f, s)
      PROVE  LogInv'
  BY <1>3, HandleLog, WireLog, Zenon
<1> QED
  BY <1>1, <1>2, <1>3, Zenon DEF Next

(* The invariant holds of servers that have never run. *)
LEMMA InitLog == Init => LogInv
<1> SUFFICES ASSUME Init PROVE LogInv
  OBVIOUS
<1>1. \A s \in Server : /\ node[s].log = << >> /\ node[s].role = "Follower"
                        /\ node[s].pending = {} /\ node[s].barriers = {}
  BY DEF Init, EmptyNode
<1>2. /\ \A f, s \in Server : net[f][s] = << >>
      /\ told = {} /\ elected = {}
  BY DEF Init
<1>3. Places = {}
  BY <1>1, <1>2 DEF Places, Written
<1>4. WrittenByElected /\ OneEntryAPlace /\ LeaderIsAhead
  BY <1>3 DEF WrittenByElected, OneEntryAPlace, LeaderIsAhead
<1>5. ElectedBefore /\ DebtsBacked /\ CompletedOwnEntry
  BY <1>1, <1>2 DEF ElectedBefore, DebtsBacked, Owed, Backed,
     CompletedOwnEntry, Completed
<1> QED
  BY <1>4, <1>5 DEF LogInv

(* The entries everywhere are entries that were written. *)
LEMMA LogInvHolds == Spec => [](Inv /\ LogInv)
BY InitInv, NextInv, InitLog, NextLog, PTL DEF Spec

-----------------------------------------------------------------------------
(* become_follower(), start(): whoever waits for an answer waits at a      *)
(* leader, in every state of every group: stepping down, losing an         *)
(* election, taking a snapshot and crashing all fail what is pending.      *)
THEOREM OnlyLeadersOweAnswers == Spec => []OnlyLeadersOwe
<1>1. Inv /\ LogInv => OnlyLeadersOwe
  BY DEF LogInv, DebtsBacked, Owed, OnlyLeadersOwe
<1> QED
  BY <1>1, LogInvHolds, PTL

(* complete_applied_proposal(): a client is told "applied" of the entry it *)
(* proposed and of no other, because a proposal waits in the term that     *)
(* made it, and in that term nothing overwrites the leader's log.          *)
THEOREM AnswersMatchProposals == Spec => []CompletedOwnEntry
<1>1. Inv /\ LogInv => CompletedOwnEntry
  BY DEF LogInv
<1> QED
  BY <1>1, LogInvHolds, PTL

(* handle_append_entries(): an index and a term determine the entry, in    *)
(* every log and every message, so the error "same log position has        *)
(* different data in the same term" cannot occur.                          *)
THEOREM IndexAndTermDetermineEntry == Spec => []SameTermSameData
<1>1. Inv /\ LogInv => SameTermSameData
  <2> SUFFICES ASSUME Inv, LogInv,
                      NEW f \in Server, NEW s \in Server,
                      NEW i \in DOMAIN net[f][s],
                      net[f][s][i].type = "AppendEntries"
               PROVE  \A j \in DOMAIN net[f][s][i].entries, t \in Server :
                        LET k == net[f][s][i].prevIndex + j - node[t].snapIndex
                        IN  k \in DOMAIN node[t].log
                              /\ node[t].log[k].term = net[f][s][i].entries[j].term
                            => node[t].log[k] = net[f][s][i].entries[j]
    BY Zenon DEF SameTermSameData
  <2> SUFFICES ASSUME NEW j \in DOMAIN net[f][s][i].entries,
                      NEW t \in Server,
                      net[f][s][i].prevIndex + j - node[t].snapIndex
                        \in DOMAIN node[t].log,
                      node[t].log[net[f][s][i].prevIndex + j
                                    - node[t].snapIndex].term
                        = net[f][s][i].entries[j].term
               PROVE  node[t].log[net[f][s][i].prevIndex + j
                                    - node[t].snapIndex]
                        = net[f][s][i].entries[j]
    OBVIOUS
  <2> DEFINE m == net[f][s][i]
             n == node[t]
             k == m.prevIndex + j - n.snapIndex
  <2>1. net[f][s] \in Seq(Message) /\ n \in NodeState
    BY DEF Inv, TypeInv, TypeOK
  <2>2. m \in Message
    BY <2>1
  <2>3. CarriesIn(m, Places) /\ LogIn(n, Places)
    BY KnownPlaces
  <2>4. /\ m.type = "AppendEntries" /\ k \in DOMAIN n.log
        /\ n.log[k].term = m.entries[j].term /\ j \in DOMAIN m.entries
    OBVIOUS
  <2> SUFFICES n.log[k] = m.entries[j]
    OBVIOUS
  <2>5. n.log \in Seq(Entry) /\ n.snapIndex \in Nat
    BY <2>1, NodeFields
  <2> HIDE DEF m, n
  <2>6. m \in AppendEntriesRequest
    BY <2>2, <2>4, MessageOfType
  <2>7. m.entries \in Seq(Entry) /\ m.prevIndex \in Nat
    BY <2>6 DEF AppendEntriesRequest
  <2>8. j \in 1 .. Len(m.entries) /\ k \in 1 .. Len(n.log)
    BY <2>4, <2>5, <2>7
  <2>9. /\ <<m.prevIndex + j, m.entries[j]>> \in Places
        /\ <<n.snapIndex + k, n.log[k]>> \in Places
    BY <2>3, <2>4, <2>8 DEF CarriesIn, LogIn
  <2>10. n.snapIndex + k = m.prevIndex + j
    BY <2>5, <2>7, <2>8
  <2> DEFINE x == <<m.prevIndex + j, m.entries[j]>>
             y == <<n.snapIndex + k, n.log[k]>>
  <2>11. x[1] = y[1] /\ x[2].term = y[2].term
    BY <2>4, <2>10
  <2>12. x = y
    BY <2>9, <2>11, Zenon DEF LogInv, OneEntryAPlace
  <2> QED
    BY <2>12
<1> QED
  BY <1>1, LogInvHolds, PTL
=============================================================================
