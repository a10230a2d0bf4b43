------------------------------ MODULE Transport ------------------------------
(* RaftTcpTransport in one direction: the server Me sends to its peers.     *)
(* send() puts a frame into a bounded queue; the sender thread moves the    *)
(* queue into one buffer of bytes per peer, dials, says who it is and       *)
(* writes, and after a failure keeps the bytes and dials again after a      *)
(* backoff.  At a peer every connection has a handler that puts the chunks  *)
(* it reads together again and hands complete messages to their group.      *)
(* Counters and the log are left out.                                       *)
EXTENDS Wire, FiniteSets

CONSTANTS
    Me, Peer,            \* node ids
    Groups,              \* the groups whose callback a peer has registered
    Scripts,             \* what RaftNode sends: sequences of [to, group, message]
    Cut,                 \* bound: where a stream may be split
    MaxQueue,            \* max_outbound_queue
    MaxFaults,           \* bound: dials, writes and posts that fail
    Prompt               \* a round of the sender is shorter than the backoff

ASSUME TransportAssumption ==
    /\ Me \in Nat \ {0} /\ Peer \subseteq Nat \ {0}
    /\ MaxQueue \in Nat /\ Cut \in Nat \ {0} /\ MaxFaults \in Nat /\ Prompt \in BOOLEAN
    /\ \A s \in Scripts : \A i \in DOMAIN s : s[i].to \in Peer \cup {Me}

VARIABLES
    script,      \* the calls of send() still to come
    queue,       \* outbound_queue_: the messages and their frames
    stopping,    \* stopping_
    sender,      \* where the sender thread is, and the peers left to flush
    out,         \* OutboundPeer of every peer
    conns,       \* the connections dialed so far, with their handlers
    delivered,   \* what the peers' groups were handed
    sent,        \* ghost: what send() was called with
    accepted,    \* ghost: per peer the calls whose frame was queued
    lost,        \* ghost: those that a failure took after the write
    faults
vars == <<script, queue, stopping, sender, out, conns, delivered, sent,
          accepted, lost, faults>>

NoConn == 0
Init ==
    /\ script \in Scripts /\ queue = <<>> /\ stopping = FALSE
    /\ sender = [at |-> "top", todo |-> <<>>]
    /\ out = [p \in Peer |->
                [pending |-> <<>>, frames |-> 0, fd |-> NoConn, retry |-> "passed"]]
    /\ conns = <<>> /\ delivered = {}
    /\ sent = {} /\ accepted = [p \in Peer |-> <<>>]
    /\ lost = [p \in Peer |-> {}] /\ faults = 0

Fault == faults < MaxFaults /\ faults' = faults + 1

(* How many of a number of units a read or a failing write gets through: at *)
(* Cut units some frame, and the prefix of another, is split (bound).       *)
Cuts(n) == {0, Cut, n} \cap 0 .. n

(* A message as the receiver is given it. *)
Packet(c) ==
    [from |-> Me, to |-> c.to, group |-> c.group, message |-> c.message]

-----------------------------------------------------------------------------
(* RaftNode's thread. *)
Send ==
    LET c == Head(script)
        refused == stopping \/ Len(queue) >= MaxQueue
    IN  /\ script # <<>> /\ script' = Tail(script)
        /\ sent' = sent \cup {Packet(c)}
        /\ IF c.to = Me \/ refused THEN UNCHANGED <<queue, accepted>>
           ELSE /\ queue' = Append(queue, c)
                /\ accepted' = [accepted EXCEPT ![c.to] = Append(@, Packet(c))]
        /\ UNCHANGED <<stopping, sender, out, conns, delivered, lost, faults>>

(* stop() returns when the sender has ended. *)
Stop ==
    /\ ~stopping /\ stopping' = TRUE
    /\ UNCHANGED <<script, queue, sender, out, conns, delivered, sent, accepted,
                   lost, faults>>

-----------------------------------------------------------------------------
(* The sender thread, under the mutex.  With nothing queued it computes for *)
(* how long to sleep; the first peer's delay that is not negative counts,   *)
(* and a negative result reads as "no deadline".                            *)
InOrder == SetToSortSeq(Peer, <)
Due(p) == IF out[p].retry = "future" THEN 1 ELSE -1
Delay ==
    LET shorter(d, p) == IF out[p].pending = <<>> THEN d
                         ELSE IF d < 0 THEN Due(p)
                         ELSE IF Due(p) < d THEN Due(p) ELSE d
    IN  FoldLeft(shorter, -1, InOrder)

AtMutex == sender.at \in {"top", "wait", "sleep"}
SenderWaitsForWork ==                                           \* mutant
    /\ sender.at = "top" /\ ~stopping /\ queue = <<>>
    /\ sender' = [sender EXCEPT !.at = "wait"]
    /\ UNCHANGED <<script, queue, stopping, out, conns, delivered, sent,
                   accepted, lost, faults>>
SenderWaits ==
    /\ sender.at = "top" /\ ~stopping /\ queue = <<>>
    /\ sender' = [sender EXCEPT !.at = IF Delay < 0 THEN "wait" ELSE "sleep"]
    /\ UNCHANGED <<script, queue, stopping, out, conns, delivered, sent,
                   accepted, lost, faults>>

(* Woken by work or by the deadline: the frames join their peer's bytes. *)
QueuedFor(p) ==
    LET of(c) == c.to = p IN SelectSeq(queue, of)
Frames(p) ==
    FlattenSeq([i \in DOMAIN QueuedFor(p) |->
                  EncodeFrame(QueuedFor(p)[i].group, QueuedFor(p)[i].message)])
Overdue == \E p \in Peer : out[p].pending # <<>> /\ out[p].retry = "passed"
SenderDrains ==
    /\ AtMutex /\ ~stopping
    /\ queue # <<>> \/ (sender.at = "sleep" /\ Overdue)
    /\ sender' = [at |-> "flush", todo |-> InOrder]
    /\ out' = [p \in Peer |-> [out[p] EXCEPT !.pending = @ \o Frames(p),
                                             !.frames = @ + Len(QueuedFor(p))]]
    /\ queue' = <<>>
    /\ UNCHANGED <<script, stopping, conns, delivered, sent, accepted, lost, faults>>

(* close_peer(): the handlers read what is under way and then the end. *)
SenderEnds ==
    /\ AtMutex /\ stopping
    /\ sender' = [sender EXCEPT !.at = "ended"]
    /\ conns' = [i \in DOMAIN conns |-> [conns[i] EXCEPT !.open = FALSE]]
    /\ out' = [p \in Peer |-> [out[p] EXCEPT !.fd = NoConn]]
    /\ UNCHANGED <<script, queue, stopping, delivered, sent, accepted, lost, faults>>

(* A deadline passes. *)
Deadline(p) ==
    /\ out[p].retry = "future"
    /\ Prompt => sender.at \in {"wait", "sleep"}
    /\ out' = [out EXCEPT ![p].retry = "passed"]
    /\ UNCHANGED <<script, queue, stopping, sender, conns, delivered, sent,
                   accepted, lost, faults>>

-----------------------------------------------------------------------------
(* flush_peer(), without the mutex. *)
Flushing(p) == sender.at = "flush" /\ sender.todo # <<>> /\ Head(sender.todo) = p
NextPeer == sender' = [sender EXCEPT !.todo = Tail(@)]
Idle(p) ==
    \/ out[p].pending = <<>>
    \/ out[p].fd = NoConn /\ out[p].retry = "future"

FlushSkips(p) ==
    /\ Flushing(p) /\ Idle(p) /\ NextPeer
    /\ UNCHANGED <<script, queue, stopping, out, conns, delivered, sent,
                   accepted, lost, faults>>

FlushEnds ==
    /\ sender.at = "flush" /\ sender.todo = <<>>
    /\ sender' = [sender EXCEPT !.at = "top"]
    /\ UNCHANGED <<script, queue, stopping, out, conns, delivered, sent,
                   accepted, lost, faults>>

(* ensure_connected(): a connection begins with the handshake. *)
Hello == FramePayload(EncodeHello(Me))
Connection(p, units) ==
    [to |-> p, units |-> units, open |-> TRUE, broken |-> FALSE,
     running |-> TRUE, buffer |-> <<>>, peer |-> NoNode, error |-> FALSE,
     got |-> <<>>]

DialFails(p) ==
    /\ Flushing(p) /\ ~Idle(p) /\ out[p].fd = NoConn
    /\ Fault /\ NextPeer
    /\ out' = [out EXCEPT ![p].retry = "future"]
    /\ UNCHANGED <<script, queue, stopping, conns, delivered, sent, accepted, lost>>

(* Some units of the handshake are written before the failure. *)
HelloFails(p) ==
    /\ Flushing(p) /\ ~Idle(p) /\ out[p].fd = NoConn
    /\ Fault /\ NextPeer
    /\ \E n \in Cuts(Len(Hello) - 1) :
         conns' = Append(conns, [Connection(p, SubSeq(Hello, 1, n))
                                   EXCEPT !.open = FALSE])
    /\ out' = [out EXCEPT ![p].retry = "future"]
    /\ UNCHANGED <<script, queue, stopping, delivered, sent, accepted, lost>>

Dials(p) ==
    /\ Flushing(p) /\ ~Idle(p) /\ out[p].fd = NoConn
    /\ conns' = Append(conns, Connection(p, Hello))
    /\ out' = [out EXCEPT ![p].fd = Len(conns) + 1, ![p].retry = "passed"]
    /\ UNCHANGED <<script, queue, stopping, sender, delivered, sent, accepted,
                   lost, faults>>

Ready(p) == Flushing(p) /\ out[p].pending # <<>> /\ out[p].fd # NoConn
Link(p) == conns[out[p].fd]

WriteAll(p) ==
    /\ Ready(p) /\ ~Link(p).broken /\ NextPeer
    /\ conns' = [conns EXCEPT ![out[p].fd].units = @ \o out[p].pending]
    /\ out' = [out EXCEPT ![p].pending = <<>>, ![p].frames = 0]
    /\ UNCHANGED <<script, queue, stopping, delivered, sent, accepted, lost, faults>>

(* What has been accepted for p and is neither queued nor buffered. *)
Written(p) == 1 .. Len(accepted[p]) - Len(QueuedFor(p)) - out[p].frames

(* The write succeeds but the connection breaks: the peer may receive the   *)
(* beginning of what is under way, and the next write fails.                *)
WriteVanishes(p) ==
    /\ Ready(p) /\ ~Link(p).broken /\ Fault /\ NextPeer
    /\ \E n \in Cuts(Len(Link(p).units) + Len(out[p].pending)) :
         conns' = [conns EXCEPT ![out[p].fd] =
                     [@ EXCEPT !.units = SubSeq(@ \o out[p].pending, 1, n),
                               !.broken = TRUE]]
    /\ out' = [out EXCEPT ![p].pending = <<>>, ![p].frames = 0]
    /\ lost' = [lost EXCEPT ![p] = 1 .. Len(accepted[p]) - Len(QueuedFor(p))]
    /\ UNCHANGED <<script, queue, stopping, delivered, sent, accepted>>

(* The write fails after n units: the bytes stay for the next connection,   *)
(* from the first one on.                                                   *)
Failing(p) == Ready(p) /\ NextPeer /\ (IF Link(p).broken THEN faults' = faults ELSE Fault)
Broken(p, n) ==
    [conns EXCEPT ![out[p].fd] =
       [@ EXCEPT !.units = SubSeq(@ \o out[p].pending, 1, n),
                 !.open = FALSE, !.broken = TRUE]]
Reached(p) ==
    IF Link(p).broken THEN {Len(Link(p).units)}
    ELSE Cuts(Len(Link(p).units) + Len(out[p].pending) - 1)

WriteFailsKeepsRest(p) ==                                       \* mutant
    /\ Failing(p)
    /\ \E n \in Reached(p) :
         /\ conns' = Broken(p, n)
         /\ out' = [out EXCEPT ![p] =
                      [frames |-> @.frames, pending |-> SubSeq(@.pending, 1 + IF n > Len(Link(p).units)
                                             THEN n - Len(Link(p).units) ELSE 0,
                                          Len(@.pending)),
                       fd |-> NoConn, retry |-> "future"]]
    /\ lost' = [lost EXCEPT ![p] = Written(p)]
    /\ UNCHANGED <<script, queue, stopping, delivered, sent, accepted>>
WriteFails(p) ==
    /\ Failing(p)
    /\ \E n \in Reached(p) : conns' = Broken(p, n)
    /\ out' = [out EXCEPT ![p].fd = NoConn, ![p].retry = "future"]
    /\ lost' = [lost EXCEPT ![p] = Written(p)]
    /\ UNCHANGED <<script, queue, stopping, delivered, sent, accepted>>

-----------------------------------------------------------------------------
(* handle_inbound(): the handler of connection i reads a chunk and then     *)
(* deals with the frames that are complete, one after the other.            *)
Waiting(i) == conns[i].running /\ NextFrame(conns[i].buffer) = "more"
ReadSome(i) ==
    /\ Waiting(i)
    /\ \E n \in Cuts(Len(conns[i].units)) \ {0} :
         conns' = [conns EXCEPT ![i] =
                     [@ EXCEPT !.units = SubSeq(@, n + 1, Len(@)),
                               !.buffer = @ \o SubSeq(conns[i].units, 1, n)]]
    /\ UNCHANGED <<script, queue, stopping, sender, out, delivered, sent, accepted,
                   lost, faults>>

Handling(i) == conns[i].running /\ NextFrame(conns[i].buffer) # "more"
Refuse(c) == [c EXCEPT !.error = TRUE, !.running = FALSE]
Consumed(i) == [conns[i] EXCEPT !.buffer = AfterFrame(@)]
Greeted(i) ==
    LET node == DecodeHello(FrameOf(conns[i].buffer))
    IN  IF node \in {NoNode, conns[i].to} THEN Refuse(Consumed(i))
        ELSE [Consumed(i) EXCEPT !.peer = node]

(* The first frame must be the handshake. *)
Greets(i) ==
    /\ Handling(i) /\ conns[i].peer = NoNode
    /\ conns' = [conns EXCEPT ![i] =
                   IF NextFrame(@.buffer) = "error" THEN Refuse(@) ELSE Greeted(i)]
    /\ UNCHANGED <<script, queue, stopping, sender, out, delivered, sent, accepted,
                   lost, faults>>

Arriving(i) ==
    IF NextFrame(conns[i].buffer) = "error" THEN Malformed
    ELSE DecodeMessage(FrameOf(conns[i].buffer))
Incoming(i, d) == [from |-> conns[i].peer, to |-> conns[i].to, group |-> d.group,
                   message |-> d.message]
Handled(i, d) ==
    conns' = [conns EXCEPT ![i] =
                IF d = Malformed THEN Refuse(@)
                ELSE [Consumed(i) EXCEPT !.got = Append(@, Incoming(i, d))]]

(* deliver(): a message of a group nobody registered is dropped. *)
Delivers(i) ==
    /\ Handling(i) /\ conns[i].peer # NoNode
    /\ \E d \in {Arriving(i)} :
         /\ Handled(i, d)
         /\ delivered' = delivered \cup
                           {m \in {Incoming(i, d)} : d # Malformed /\ m.group \in Groups}
    /\ UNCHANGED <<script, queue, stopping, sender, out, sent, accepted, lost, faults>>

(* The service of the group is backed up or stopping and does not take it. *)
DeliverRefused(i) ==
    /\ Handling(i) /\ conns[i].peer # NoNode /\ Fault
    /\ \E d \in {Arriving(i)} :
         /\ d # Malformed /\ Handled(i, d)
         /\ LET p == conns[i].to
            IN  lost' = [lost EXCEPT ![p] = @ \cup
                           {n \in Written(p) : accepted[p][n] = Incoming(i, d)}]
    /\ UNCHANGED <<script, queue, stopping, sender, out, delivered, sent, accepted>>

ReadEnds(i) ==
    /\ Waiting(i) /\ conns[i].units = <<>>
    /\ ~conns[i].open \/ conns[i].broken
    /\ conns' = [conns EXCEPT ![i].running = FALSE, ![i].buffer = <<>>]
    /\ UNCHANGED <<script, queue, stopping, sender, out, delivered, sent,
                   accepted, lost, faults>>

Inbound(i) == ReadSome(i) \/ Greets(i) \/ Delivers(i) \/ ReadEnds(i)
SenderStep ==
    \/ SenderWaits \/ SenderDrains \/ SenderEnds \/ FlushEnds
    \/ \E p \in Peer :
         \/ FlushSkips(p) \/ DialFails(p) \/ HelloFails(p) \/ Dials(p)
         \/ WriteAll(p) \/ WriteVanishes(p) \/ WriteFails(p)
Next ==
    \/ Send \/ Stop \/ SenderStep
    \/ \E p \in Peer : Deadline(p)
    \/ \E i \in DOMAIN conns : Inbound(i) \/ DeliverRefused(i)

Spec == Init /\ [][Next]_vars

(* The sender thread and the handlers run, and time passes.  How often a    *)
(* dial, a write or a post can fail is bounded.                             *)
FairSpec ==
    /\ Spec
    /\ WF_vars(SenderStep)
    /\ \A p \in Peer : WF_vars(Deadline(p))
    /\ \A i \in 1 .. MaxFaults + Cardinality(Peer) :
         WF_vars(i \in DOMAIN conns /\ Inbound(i))

-----------------------------------------------------------------------------
(* Whatever a broken connection left half-written, no handler ever loses    *)
(* its place in the stream: it never meets a frame it must refuse, it knows *)
(* who is calling, and what one connection carries is a run of the messages *)
(* accepted for the peer, in the order of the calls and without a gap.      *)
StreamsExact ==
    \A i \in DOMAIN conns :
      LET c == conns[i]
      IN  /\ ~c.error /\ c.peer \in {NoNode, Me}
          /\ \E j \in 0 .. Len(accepted[c.to]) - Len(c.got) :
               c.got = SubSeq(accepted[c.to], j + 1, j + Len(c.got))

(* What Raft assumes of its transport: nothing is delivered that was not    *)
(* sent to that node and group, field by field, by the node it names.       *)
ImplementsNetwork == INSTANCE Network
DeliversWhatWasSent == ImplementsNetwork!Spec

(* A message that was accepted for a peer arrives, unless a connection      *)
(* broke or a service refused work after it was written, or the transport   *)
(* is stopped: a failed dial or write is tried again when its backoff ends, *)
(* even when nothing else is sent any more.                                 *)
Longest == 3                                    \* of the scripts checked
Arrived(p, n) ==
    n \in DOMAIN accepted[p] /\ accepted[p][n].group \in Groups
      => accepted[p][n] \in delivered
AcceptedArrives ==
    \A p \in Peer : \A n \in 1 .. Longest :
      n <= Len(accepted[p]) ~> n \in lost[p] \/ stopping \/ Arrived(p, n)
=============================================================================
