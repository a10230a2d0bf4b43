---------------------------- MODULE ServerProofs ----------------------------
(* Theorems about Server, for every set of clients, every number of read    *)
(* threads and every bound on the queues: no wake-up is lost and none is    *)
(* given twice, a shutdown that was not forced leaves nothing behind, and   *)
(* every step of the server is a step of Conversation.                      *)
EXTENDS Server, TLAPS, FiniteSetTheorems, SequenceTheorems

(* Type correctness. *)
Frame == Query \cup Prompt \cup {"options", "bye", "broken"}
Place == {"none", "start", "frame", "read", "write", "flush", "parse",
          "parsing", "running", "closed"}
Output == Reply \cup {"hello", "timeout", "bye"}

Socket ==
    [state : {"none", "open", "closed"}, wire : Seq(Frame), half : BOOLEAN,
     shut : BOOLEAN, gone : BOOLEAN]
Coroutine ==
    [at : Place, in : Seq(Frame), out : Output \cup {None},
     job : Query \cup {None}, ok : BOOLEAN, tx : BOOLEAN, generation : Nat,
     timed_out : BOOLEAN, stopping : BOOLEAN]
EventLoop ==
    [current : Clients \cup {None}, pending : Seq(Clients),
     timers : SUBSET (Clients \X Nat),
     watches : [Clients -> {"none", "in", "out"}],
     stop : BOOLEAN, exited : BOOLEAN]
Worker ==
    [queue : Seq(Clients), running : Clients \cup {None}, stopping : BOOLEAN]
TcpServer ==
    [listening : BOOLEAN, limit : Nat, connections : Int, asked : BOOLEAN,
     stopping : BOOLEAN, waited : Nat, next : Nat, forced : BOOLEAN]

Typed ==
    /\ sock \in [Clients -> Socket]
    /\ conn \in [Clients -> Coroutine]
    /\ loop \in EventLoop
    /\ svc \in [Service -> Worker]
    /\ srv \in TcpServer
    /\ asked \in [Clients -> Nat]
    /\ answered \in [Clients -> Nat]

-----------------------------------------------------------------------------
(* The continuations, by where they are.  A coroutine is live exactly when  *)
(* it has one, it never has two of different kinds, and it never has two of *)
(* the same kind.                                                           *)
Current(c) == loop.current = c
Watched(c) == loop.watches[c] # "none"
Posted(c) == \E i \in 1 .. Len(loop.pending) : loop.pending[i] = c
Working(c) == \E s \in Service : svc[s].running = c
Queued(c) ==
    \E s \in Service : \E i \in 1 .. Len(svc[s].queue) : svc[s].queue[i] = c

OneKind(c) ==
    /\ Live(c) <=> (Current(c) \/ Watched(c) \/ Posted(c) \/ Working(c) \/ Queued(c))
    /\ Current(c) => ~Watched(c) /\ ~Posted(c) /\ ~Working(c) /\ ~Queued(c)
    /\ Watched(c) => ~Posted(c) /\ ~Working(c) /\ ~Queued(c)
    /\ Posted(c) => ~Working(c) /\ ~Queued(c)
    /\ Working(c) => ~Queued(c)

PostedOnce ==
    \A i, j \in 1 .. Len(loop.pending) :
        loop.pending[i] = loop.pending[j] => i = j
WorkedOnce ==
    \A s, t \in Service :
        svc[s].running = svc[t].running /\ svc[s].running # None => s = t
QueuedOnce ==
    \A s, t \in Service :
        \A i \in 1 .. Len(svc[s].queue), j \in 1 .. Len(svc[t].queue) :
            svc[s].queue[i] = svc[t].queue[j] => s = t /\ i = j
Bounded == \A s \in Service : Len(svc[s].queue) <= QueueMax

Scheduled ==
    /\ \A c \in Clients : OneKind(c)
    /\ PostedOnce
    /\ WorkedOnce
    /\ QueuedOnce
    /\ Bounded

-----------------------------------------------------------------------------
(* The dialogue: what a coroutine is writing, and whether it owes a reply. *)
Owing(n) == n.at \in {"parse", "parsing", "running"} \/ n.out \in Reply
Turn(n, taken, written) ==
    /\ IF n.at \in {"write", "flush"} THEN n.out \in Output ELSE n.out = None
    /\ n.at # "closed" /\ n.out # "bye" => taken = written + Holds(Owing(n))
Dialogue == \A c \in Clients : Turn(conn[c], asked[c], answered[c])

(* The shutdown: what is over stays over. *)
Lives == {c \in Clients : Live(c)}
Ordered ==
    /\ \A c \in Clients : sock[c].state = "none" => conn[c].at = "none"
    /\ \A c \in Clients : ~Live(c) => ~conn[c].tx
    /\ IsFiniteSet(Lives)
    /\ ~loop.exited => srv.connections = Cardinality(Lives)
    /\ srv.stopping => ~srv.listening
    /\ loop.stop => srv.stopping
    /\ loop.stop /\ ~srv.forced => Lives = {}
    /\ loop.exited => loop.stop /\ loop.current = None
    /\ \A s \in Service : svc[s].stopping => loop.exited /\ svc[s].queue = << >>

ServerInv == Typed /\ Scheduled /\ Dialogue /\ Ordered

-----------------------------------------------------------------------------
(* How a continuation moves.  First: it does not. *)
LEMMA Stays ==
  ASSUME Scheduled,
         loop'.current = loop.current, loop'.watches = loop.watches,
         loop'.pending = loop.pending,
         \A s \in Service : /\ svc'[s].running = svc[s].running
                            /\ svc'[s].queue = svc[s].queue,
         \A c \in Clients : Live(c)' <=> Live(c)
  PROVE  Scheduled'
  <1>1. \A c \in Clients :
           /\ Current(c)' <=> Current(c)
           /\ Watched(c)' <=> Watched(c)
           /\ Posted(c)' <=> Posted(c)
           /\ Working(c)' <=> Working(c)
           /\ Queued(c)' <=> Queued(c)
    BY DEF Current, Watched, Posted, Working, Queued
  <1>2. \A c \in Clients : OneKind(c)'
    BY <1>1 DEF Scheduled, OneKind
  <1>3. PostedOnce' /\ WorkedOnce' /\ QueuedOnce' /\ Bounded'
    BY SMTT(30) DEF Scheduled, PostedOnce, WorkedOnce, QueuedOnce, Bounded
  <1> QED BY <1>2, <1>3 DEF Scheduled

(* The loop runs what was posted first. *)
LEMMA PostedRuns ==
  ASSUME Typed, Scheduled, loop.current = None, loop.pending # << >>,
         loop'.current = Head(loop.pending), loop'.watches = loop.watches,
         loop'.pending = Tail(loop.pending),
         svc' = svc, \A c \in Clients : Live(c)' <=> Live(c)
  PROVE  Scheduled'
  <1> DEFINE p == loop.pending
  <1>1. p \in Seq(Clients)
    BY DEF Typed, EventLoop
  <1>2. /\ Len(Tail(p)) = Len(p) - 1 /\ Head(p) = p[1] /\ Head(p) \in Clients
        /\ \A i \in 1 .. Len(p) - 1 : Tail(p)[i] = p[i + 1]
        /\ Len(p) \in Nat /\ Len(p) >= 1
    BY <1>1
  <1>3. Head(p) # None
    BY <1>2, ServerAssumption
  <1> HIDE DEF p
  <1>h. PICK h \in Clients : h = Head(p)
    BY <1>2
  <1>4. \A c \in Clients : c # h =>
           /\ ~Current(c)' /\ ~Current(c)
           /\ Posted(c)' <=> Posted(c)
    <2> SUFFICES ASSUME NEW c \in Clients, c # h
                 PROVE  ~Current(c)' /\ ~Current(c) /\ (Posted(c)' <=> Posted(c))
      OBVIOUS
    <2>1. ~Current(c)' /\ ~Current(c)
      BY <1>h, ServerAssumption DEF Current, p
    <2>2. ASSUME Posted(c) PROVE Posted(c)'
      <3>1. PICK i \in 1 .. Len(p) : p[i] = c
        BY <2>2 DEF Posted, p
      <3>2. i - 1 \in 1 .. Len(p) - 1 /\ Tail(p)[i - 1] = c
        BY <3>1, <1>2, <1>h
      <3> QED BY <3>2, <1>2 DEF Posted, p
    <2>3. ASSUME Posted(c)' PROVE Posted(c)
      <3>1. PICK i \in 1 .. Len(p) - 1 : Tail(p)[i] = c
        BY <2>3, <1>2 DEF Posted, p
      <3>2. i + 1 \in 1 .. Len(p) /\ p[i + 1] = c
        BY <3>1, <1>2
      <3> QED BY <3>2 DEF Posted, p
    <2> QED BY <2>1, <2>2, <2>3
  <1>5. Current(h)' /\ Posted(h) /\ ~Posted(h)'
    <2>1. Current(h)' /\ Posted(h)
      BY <1>2, <1>h DEF Current, Posted, p
    <2>2. \A i \in 1 .. Len(p) - 1 : Tail(p)[i] # p[1]
      <3> SUFFICES ASSUME NEW i \in 1 .. Len(p) - 1, Tail(p)[i] = p[1] PROVE FALSE
        OBVIOUS
      <3>1. i + 1 \in 1 .. Len(p) /\ 1 \in 1 .. Len(p) /\ p[i + 1] = p[1]
        BY <1>2
      <3> QED BY <3>1 DEF Scheduled, PostedOnce, p
    <2> QED BY <2>1, <2>2, <1>2, <1>h DEF Posted, p
  <1>6. \A c \in Clients : /\ Watched(c)' <=> Watched(c)
                           /\ Working(c)' <=> Working(c)
                           /\ Queued(c)' <=> Queued(c)
    BY DEF Watched, Working, Queued
  <1>7. \A c \in Clients : OneKind(c)'
    BY <1>2, <1>4, <1>5, <1>6 DEF Scheduled, OneKind
  <1>8. PostedOnce'
    <2> SUFFICES ASSUME NEW i \in 1 .. Len(p) - 1, NEW j \in 1 .. Len(p) - 1,
                        Tail(p)[i] = Tail(p)[j]
                 PROVE  i = j
      BY <1>2 DEF PostedOnce, p
    <2>1. /\ i + 1 \in 1 .. Len(p) /\ j + 1 \in 1 .. Len(p)
          /\ p[i + 1] = p[j + 1]
      BY <1>2
    <2>2. i + 1 = j + 1
      BY <2>1 DEF Scheduled, PostedOnce, p
    <2> QED BY <2>2
  <1>9. WorkedOnce' /\ QueuedOnce' /\ Bounded'
    BY DEF Scheduled, WorkedOnce, QueuedOnce, Bounded
  <1> QED BY <1>7, <1>8, <1>9 DEF Scheduled

(* The watch of c is taken off and c runs; or c gives the loop back. *)
LEMMA WatchMoves ==
  ASSUME Typed, Scheduled, NEW c \in Clients, NEW e \in {"none", "in", "out"},
         \/ Watched(c) /\ loop.current = None /\ loop'.current = c /\ e = "none"
         \/ Current(c) /\ loop'.current = None /\ e # "none",
         loop'.watches = [loop.watches EXCEPT ![c] = e],
         loop'.pending = loop.pending,
         svc' = svc, \A d \in Clients : Live(d)' <=> Live(d)
  PROVE  Scheduled'
  <1>1. \A d \in Clients : /\ Posted(d)' <=> Posted(d)
                           /\ Working(d)' <=> Working(d)
                           /\ Queued(d)' <=> Queued(d)
    BY DEF Posted, Working, Queued
  <1>2. \A d \in Clients : d # c => /\ Watched(d)' <=> Watched(d)
                                    /\ ~Current(d)' /\ ~Current(d)
    BY ServerAssumption DEF Watched, Current, Typed, EventLoop
  <1>3. \/ Watched(c) /\ ~Watched(c)' /\ Current(c)'
        \/ Current(c) /\ ~Current(c)' /\ Watched(c)'
    BY ServerAssumption DEF Watched, Current, Typed, EventLoop
  <1>4. \A d \in Clients : OneKind(d)'
    BY <1>1, <1>2, <1>3 DEF Scheduled, OneKind
  <1>5. PostedOnce' /\ WorkedOnce' /\ QueuedOnce' /\ Bounded'
    BY DEF Scheduled, PostedOnce, WorkedOnce, QueuedOnce, Bounded
  <1> QED BY <1>4, <1>5 DEF Scheduled

(* The coroutine of c ends. *)
LEMMA Ends ==
  ASSUME Typed, Scheduled, NEW c \in Clients, Current(c),
         loop'.current = None, loop'.watches = loop.watches,
         loop'.pending = loop.pending, svc' = svc,
         ~Live(c)', \A d \in Clients \ {c} : Live(d)' <=> Live(d)
  PROVE  Scheduled'
  <1>1. \A d \in Clients : /\ Watched(d)' <=> Watched(d)
                           /\ Posted(d)' <=> Posted(d)
                           /\ Working(d)' <=> Working(d)
                           /\ Queued(d)' <=> Queued(d)
    BY DEF Watched, Posted, Working, Queued
  <1>2. \A d \in Clients : ~Current(d)' /\ (Current(d) => d = c)
    BY ServerAssumption DEF Current
  <1>3. \A d \in Clients : OneKind(d)'
    BY <1>1, <1>2 DEF Scheduled, OneKind
  <1>4. PostedOnce' /\ WorkedOnce' /\ QueuedOnce' /\ Bounded'
    BY DEF Scheduled, PostedOnce, WorkedOnce, QueuedOnce, Bounded
  <1> QED BY <1>3, <1>4 DEF Scheduled

(* The continuation of c is posted: c has just been accepted, or the job of *)
(* c is done.                                                               *)
LEMMA Appended ==
  ASSUME NEW q \in Seq(Clients), NEW c \in Clients
  PROVE  /\ Append(q, c) \in Seq(Clients)
         /\ Len(Append(q, c)) = Len(q) + 1 /\ Len(q) \in Nat
         /\ \A i \in 1 .. Len(q) : Append(q, c)[i] = q[i]
         /\ Append(q, c)[Len(q) + 1] = c
  OBVIOUS

LEMMA PostMoves ==
  ASSUME Typed, Scheduled, NEW c \in Clients,
         \/ ~Live(c) /\ \A s \in Service : svc'[s].running = svc[s].running
         \/ \E s \in Service : /\ svc[s].running = c /\ svc'[s].running = None
                               /\ \A t \in Service \ {s} :
                                     svc'[t].running = svc[t].running,
         \A s \in Service : svc'[s].queue = svc[s].queue,
         loop'.current = loop.current, loop'.watches = loop.watches,
         loop'.pending = Append(loop.pending, c),
         Live(c)', \A d \in Clients \ {c} : Live(d)' <=> Live(d)
  PROVE  Scheduled'
  <1> DEFINE p == loop.pending
             p1 == loop'.pending
  <1>1. p \in Seq(Clients)
    BY DEF Typed, EventLoop
  <1>2. /\ Len(p1) = Len(p) + 1 /\ Len(p) \in Nat
        /\ \A i \in 1 .. Len(p) : p1[i] = p[i]
        /\ p1[Len(p) + 1] = c
    BY <1>1, Appended
  <1> HIDE DEF p, p1
  <1>3. \A d \in Clients : /\ Current(d)' <=> Current(d)
                           /\ Watched(d)' <=> Watched(d)
                           /\ Queued(d)' <=> Queued(d)
    BY DEF Current, Watched, Queued
  <1>4. ~Posted(c) /\ ~Working(c)' /\ ~Queued(c) /\ ~Current(c) /\ ~Watched(c)
    <2>1. CASE ~Live(c) /\ \A s \in Service : svc'[s].running = svc[s].running
      BY <2>1 DEF Scheduled, OneKind, Working
    <2>2. CASE \E s \in Service : /\ svc[s].running = c /\ svc'[s].running = None
                                  /\ \A t \in Service \ {s} :
                                        svc'[t].running = svc[t].running
      <3>1. Working(c) /\ ~Working(c)'
        BY <2>2, ServerAssumption DEF Working, Scheduled, WorkedOnce
      <3> QED BY <3>1 DEF Scheduled, OneKind
    <2> QED BY <2>1, <2>2
  <1>5. Posted(c)'
    BY <1>2 DEF Posted, p, p1
  <1>6. \A d \in Clients \ {c} : Posted(d)' <=> Posted(d)
    <2> SUFFICES ASSUME NEW d \in Clients \ {c} PROVE Posted(d)' <=> Posted(d)
      OBVIOUS
    <2>1. ASSUME Posted(d) PROVE Posted(d)'
      <3>1. PICK i \in 1 .. Len(p) : p[i] = d
        BY <2>1 DEF Posted, p
      <3>2. i \in 1 .. Len(p1) /\ p1[i] = d
        BY <3>1, <1>2
      <3> QED BY <3>2 DEF Posted, p1
    <2>2. ASSUME Posted(d)' PROVE Posted(d)
      <3>1. PICK i \in 1 .. Len(p1) : p1[i] = d
        BY <2>2 DEF Posted, p1
      <3>2. i \in 1 .. Len(p) /\ p[i] = d
        BY <3>1, <1>2
      <3> QED BY <3>2 DEF Posted, p
    <2> QED BY <2>1, <2>2
  <1>7. \A d \in Clients \ {c} : Working(d)' <=> Working(d)
    BY ServerAssumption DEF Working
  <1>8. \A d \in Clients : OneKind(d)'
    BY <1>3, <1>4, <1>5, <1>6, <1>7 DEF Scheduled, OneKind
  <1>9. PostedOnce'
    <2>1. \A i \in 1 .. Len(p) : p[i] # c
      BY <1>4 DEF Posted, p
    <2>2. \A i, j \in 1 .. Len(p) : p[i] = p[j] => i = j
      BY DEF Scheduled, PostedOnce, p
    <2>3. \A i, j \in 1 .. Len(p1) : p1[i] = p1[j] => i = j
      BY <2>1, <2>2, <1>2
    <2> QED BY <2>3 DEF PostedOnce, p1
  <1>10. WorkedOnce' /\ QueuedOnce' /\ Bounded'
    <2>1. QueuedOnce' /\ Bounded'
      <3>1. \A s \in Service : svc'[s].queue = svc[s].queue
        OBVIOUS
      <3>2. QueuedOnce /\ Bounded
        BY DEF Scheduled
      <3> QED BY ONLY <3>1, <3>2, SMTT(30) DEF QueuedOnce, Bounded
    <2>2. \A s \in Service : svc'[s].running \in {svc[s].running, None}
      OBVIOUS
    <2>3. WorkedOnce'
      BY <2>2 DEF Scheduled, WorkedOnce
    <2> QED BY <2>1, <2>3
  <1> QED BY <1>8, <1>9, <1>10 DEF Scheduled

LEMMA QueueLimit == QueueMax \in Nat
  BY ServerAssumption

(* The coroutine of c hands its work to thread s. *)
LEMMA Submits ==
  ASSUME Typed, Scheduled, NEW c \in Clients, NEW s \in Service, Current(c),
         Len(svc[s].queue) < QueueMax,
         svc'[s].queue = Append(svc[s].queue, c),
         svc'[s].running = svc[s].running,
         \A t \in Service \ {s} : svc'[t] = svc[t],
         loop'.current = None, loop'.watches = loop.watches,
         loop'.pending = loop.pending,
         \A d \in Clients : Live(d)' <=> Live(d)
  PROVE  Scheduled'
  <1> DEFINE q == svc[s].queue
             q1 == svc'[s].queue
  <1>1. q \in Seq(Clients)
    BY DEF Typed, Worker
  <1>2. /\ Len(q1) = Len(q) + 1 /\ Len(q) \in Nat
        /\ \A i \in 1 .. Len(q) : q1[i] = q[i]
        /\ q1[Len(q) + 1] = c
    BY <1>1, Appended
  <1> HIDE DEF q, q1
  <1>3. \A d \in Clients : /\ Watched(d)' <=> Watched(d)
                           /\ Posted(d)' <=> Posted(d)
    BY DEF Watched, Posted
  <1>4. \A d \in Clients : Working(d)' <=> Working(d)
    BY DEF Working
  <1>5. \A d \in Clients : ~Current(d)' /\ (Current(d) => d = c)
    BY ServerAssumption DEF Current
  <1>6. Queued(c)' /\ ~Queued(c)
    BY <1>2 DEF Queued, q1, Scheduled, OneKind
  <1>7. \A d \in Clients \ {c} : Queued(d)' <=> Queued(d)
    <2> SUFFICES ASSUME NEW d \in Clients \ {c} PROVE Queued(d)' <=> Queued(d)
      OBVIOUS
    <2>1. (\E i \in 1 .. Len(q) : q[i] = d) <=> (\E i \in 1 .. Len(q1) : q1[i] = d)
      <3>1. \A i \in 1 .. Len(q) : i \in 1 .. Len(q1) /\ q1[i] = q[i]
        BY <1>2
      <3>2. \A i \in 1 .. Len(q1) : q1[i] = d => i \in 1 .. Len(q) /\ q[i] = d
        BY <1>2
      <3> QED BY <3>1, <3>2
    <2> QED BY <2>1 DEF Queued, q, q1
  <1>8. \A d \in Clients : OneKind(d)'
    BY <1>3, <1>4, <1>5, <1>6, <1>7 DEF Scheduled, OneKind
  <1>9. QueuedOnce'
    <2>1. \A t \in Service : \A i \in 1 .. Len(svc[t].queue) : svc[t].queue[i] # c
      BY <1>6 DEF Queued
    <2>2. \A i, j \in 1 .. Len(q1) : q1[i] = q1[j] => i = j
      <3>1. \A i \in 1 .. Len(q) : q[i] # c
        BY <2>1 DEF q
      <3>2. \A i, j \in 1 .. Len(q) : q[i] = q[j] => i = j
        BY DEF Scheduled, QueuedOnce, q
      <3> QED BY <3>1, <3>2, <1>2
    <2>3. \A t \in Service \ {s} :
             \A i \in 1 .. Len(q1), j \in 1 .. Len(svc[t].queue) :
                q1[i] # svc[t].queue[j]
      <3> SUFFICES ASSUME NEW t \in Service \ {s}, NEW i \in 1 .. Len(q1),
                          NEW j \in 1 .. Len(svc[t].queue),
                          q1[i] = svc[t].queue[j]
                   PROVE  FALSE
        OBVIOUS
      <3>1. CASE i = Len(q) + 1
        BY <3>1, <2>1, <1>2
      <3>2. CASE i \in 1 .. Len(q)
        BY <3>2, <1>2 DEF Scheduled, QueuedOnce, q
      <3> QED BY <3>1, <3>2, <1>2
    <2>4. ASSUME NEW t \in Service, NEW u \in Service,
                 NEW i \in 1 .. Len(svc'[t].queue), NEW j \in 1 .. Len(svc'[u].queue),
                 svc'[t].queue[i] = svc'[u].queue[j]
          PROVE  t = u /\ i = j
      <3>1. CASE t = s /\ u = s
        BY <3>1, <2>4, <2>2 DEF q1
      <3>2. CASE t = s /\ u # s
        <4>1. /\ u \in Service \ {s} /\ i \in 1 .. Len(q1)
              /\ j \in 1 .. Len(svc[u].queue) /\ q1[i] = svc[u].queue[j]
          BY <3>2, <2>4 DEF q1
        <4> QED BY <4>1, <2>3
      <3>3. CASE t # s /\ u = s
        <4>1. /\ t \in Service \ {s} /\ j \in 1 .. Len(q1)
              /\ i \in 1 .. Len(svc[t].queue) /\ q1[j] = svc[t].queue[i]
          BY <3>3, <2>4 DEF q1
        <4> QED BY <4>1, <2>3
      <3>4. CASE t # s /\ u # s
        BY <3>4, <2>4, SMTT(30) DEF Scheduled, QueuedOnce
      <3> QED BY <3>1, <3>2, <3>3, <3>4
    <2> QED BY <2>4 DEF QueuedOnce
  <1>10. Bounded'
    <2>1. Len(q1) <= QueueMax
      BY <1>2, QueueLimit DEF q
    <2> QED BY <2>1 DEF Scheduled, Bounded, q1
  <1>11. PostedOnce' /\ WorkedOnce'
    BY DEF Scheduled, PostedOnce, WorkedOnce
  <1> QED BY <1>8, <1>9, <1>10, <1>11 DEF Scheduled

(* Thread s takes the oldest job of its queue. *)
LEMMA Takes ==
  ASSUME Typed, Scheduled, NEW s \in Service,
         svc[s].running = None, svc[s].queue # << >>,
         svc'[s].running = Head(svc[s].queue),
         svc'[s].queue = Tail(svc[s].queue),
         \A t \in Service \ {s} : svc'[t] = svc[t],
         loop' = loop, \A d \in Clients : Live(d)' <=> Live(d)
  PROVE  Scheduled'
  <1> DEFINE q == svc[s].queue
             q1 == svc'[s].queue
  <1>1. q \in Seq(Clients)
    BY DEF Typed, Worker
  <1>2. /\ Len(q1) = Len(q) - 1 /\ Len(q) \in Nat /\ Len(q) >= 1
        /\ \A i \in 1 .. Len(q) - 1 : q1[i] = q[i + 1]
        /\ Head(q) = q[1] /\ Head(q) \in Clients
    BY <1>1
  <1> HIDE DEF q, q1
  <1>3. PICK c \in Clients : c = Head(q)
    BY <1>2
  <1>4. svc'[s].running = c /\ q[1] = c /\ c # None
    BY <1>2, <1>3, ServerAssumption DEF q
  <1>5. \A d \in Clients : /\ Current(d)' <=> Current(d)
                           /\ Watched(d)' <=> Watched(d)
                           /\ Posted(d)' <=> Posted(d)
    BY DEF Current, Watched, Posted
  <1>6. Queued(c) /\ Working(c)' /\ ~Queued(c)' /\ ~Working(c)
    <2>1. Queued(c) /\ Working(c)'
      BY <1>2, <1>4 DEF Queued, Working, q
    <2>2. \A i \in 1 .. Len(q1) : q1[i] # c
      <3> SUFFICES ASSUME NEW i \in 1 .. Len(q1), q1[i] = c PROVE FALSE
        OBVIOUS
      <3>1. i + 1 \in 1 .. Len(q) /\ 1 \in 1 .. Len(q) /\ q[i + 1] = q[1]
            /\ i + 1 # 1
        BY <1>2, <1>4
      <3> QED BY <3>1 DEF Scheduled, QueuedOnce, q
    <2>3. \A t \in Service \ {s} : \A i \in 1 .. Len(svc[t].queue) :
             svc[t].queue[i] # c
      <3> SUFFICES ASSUME NEW t \in Service \ {s},
                          NEW i \in 1 .. Len(svc[t].queue), svc[t].queue[i] = c
                   PROVE  FALSE
        OBVIOUS
      <3>1. 1 \in 1 .. Len(q)
        BY <1>2
      <3> QED BY <3>1, <1>4 DEF Scheduled, QueuedOnce, q
    <2>4. ~Queued(c)'
      BY <2>2, <2>3 DEF Queued, q1
    <2> QED BY <2>1, <2>4 DEF Scheduled, OneKind
  <1>7. \A d \in Clients \ {c} : Working(d)' <=> Working(d)
    BY <1>4, ServerAssumption DEF Working
  <1>8. \A d \in Clients \ {c} : Queued(d)' <=> Queued(d)
    <2> SUFFICES ASSUME NEW d \in Clients \ {c} PROVE Queued(d)' <=> Queued(d)
      OBVIOUS
    <2>1. (\E i \in 1 .. Len(q) : q[i] = d) <=> (\E i \in 1 .. Len(q1) : q1[i] = d)
      <3>1. \A i \in 1 .. Len(q) :
               q[i] = d => i - 1 \in 1 .. Len(q1) /\ q1[i - 1] = d
        BY <1>2, <1>4
      <3>2. \A i \in 1 .. Len(q1) : i + 1 \in 1 .. Len(q) /\ q1[i] = q[i + 1]
        BY <1>2
      <3> QED BY <3>1, <3>2
    <2> QED BY <2>1 DEF Queued, q, q1
  <1>9. \A d \in Clients : OneKind(d)'
    BY <1>5, <1>6, <1>7, <1>8 DEF Scheduled, OneKind
  <1>10. WorkedOnce'
    <2>1. \A t \in Service : svc[t].running # c
      BY <1>6 DEF Working
    <2> QED BY <2>1, <1>4 DEF Scheduled, WorkedOnce
  <1>11. QueuedOnce'
    <2>1. \A i, j \in 1 .. Len(q1) : q1[i] = q1[j] => i = j
      <3> SUFFICES ASSUME NEW i \in 1 .. Len(q1), NEW j \in 1 .. Len(q1),
                          q1[i] = q1[j]
                   PROVE  i = j
        OBVIOUS
      <3>1. /\ i + 1 \in 1 .. Len(q) /\ j + 1 \in 1 .. Len(q)
            /\ q[i + 1] = q[j + 1]
        BY <1>2
      <3>2. i + 1 = j + 1
        BY <3>1 DEF Scheduled, QueuedOnce, q
      <3> QED BY <3>2, <1>2
    <2>2. \A t \in Service \ {s} :
             \A i \in 1 .. Len(q1), j \in 1 .. Len(svc[t].queue) :
                q1[i] # svc[t].queue[j]
      <3> SUFFICES ASSUME NEW t \in Service \ {s}, NEW i \in 1 .. Len(q1),
                          NEW j \in 1 .. Len(svc[t].queue),
                          q1[i] = svc[t].queue[j]
                   PROVE  FALSE
        OBVIOUS
      <3>1. i + 1 \in 1 .. Len(q) /\ q[i + 1] = svc[t].queue[j]
        BY <1>2
      <3> QED BY <3>1 DEF Scheduled, QueuedOnce, q
    <2>4. ASSUME NEW t \in Service, NEW u \in Service,
                 NEW i \in 1 .. Len(svc'[t].queue), NEW j \in 1 .. Len(svc'[u].queue),
                 svc'[t].queue[i] = svc'[u].queue[j]
          PROVE  t = u /\ i = j
      <3>1. CASE t = s /\ u = s
        BY <3>1, <2>4, <2>1 DEF q1
      <3>2. CASE t = s /\ u # s
        <4>1. /\ u \in Service \ {s} /\ i \in 1 .. Len(q1)
              /\ j \in 1 .. Len(svc[u].queue) /\ q1[i] = svc[u].queue[j]
          BY <3>2, <2>4 DEF q1
        <4> QED BY <4>1, <2>2
      <3>3. CASE t # s /\ u = s
        <4>1. /\ t \in Service \ {s} /\ j \in 1 .. Len(q1)
              /\ i \in 1 .. Len(svc[t].queue) /\ q1[j] = svc[t].queue[i]
          BY <3>3, <2>4 DEF q1
        <4> QED BY <4>1, <2>2
      <3>4. CASE t # s /\ u # s
        BY <3>4, <2>4, SMTT(30) DEF Scheduled, QueuedOnce
      <3> QED BY <3>1, <3>2, <3>3, <3>4
    <2> QED BY <2>4 DEF QueuedOnce
  <1>12. Bounded'
    <2>1. Len(q1) <= QueueMax
      BY <1>2, QueueLimit DEF q, Scheduled, Bounded
    <2> QED BY <2>1 DEF Scheduled, Bounded, q1
  <1>13. PostedOnce'
    BY DEF Scheduled, PostedOnce
  <1> QED BY <1>9, <1>10, <1>11, <1>12, <1>13 DEF Scheduled

(* A set of places that has at most one member counts as it should. *)
LEMMA AtMostOne ==
  ASSUME NEW S, \A x, y \in S : x = y
  PROVE  Cardinality(S) = Holds(S # {})
  <1>1. CASE S = {}
    BY <1>1, FS_EmptySet DEF Holds
  <1>2. CASE S # {}
    <2>1. PICK x \in S : TRUE
      BY <1>2
    <2>2. S = {x}
      BY <2>1
    <2> QED BY <2>2, FS_Singleton DEF Holds
  <1> QED BY <1>1, <1>2

LEMMA ScheduledOnce ==
  ASSUME Typed, Scheduled
  PROVE  OneContinuation
  <1> SUFFICES ASSUME NEW c \in Clients PROVE Continuations(c) = Holds(Live(c))
    BY DEF OneContinuation
  <1>1. Count(loop.pending, c) = Holds(Posted(c))
    <2> DEFINE P == {i \in DOMAIN loop.pending : loop.pending[i] = c}
    <2>1. loop.pending \in Seq(Clients)
      BY DEF Typed, EventLoop
    <2>2. DOMAIN loop.pending = 1 .. Len(loop.pending)
      BY <2>1
    <2>3. \A x, y \in P : x = y
      BY <2>2 DEF Scheduled, PostedOnce
    <2>4. P # {} <=> Posted(c)
      BY <2>2 DEF Posted
    <2>5. Cardinality(P) = Holds(P # {})
      <3> HIDE DEF P
      <3> QED BY <2>3, AtMostOne
    <2> QED BY <2>4, <2>5 DEF Count, Holds
  <1>2. Cardinality({s \in Service : svc[s].running = c}) = Holds(Working(c))
    <2> DEFINE W == {s \in Service : svc[s].running = c}
    <2>1. \A x, y \in W : x = y
      BY ServerAssumption DEF Scheduled, WorkedOnce
    <2>2. W # {} <=> Working(c)
      BY DEF Working
    <2>3. Cardinality(W) = Holds(W # {})
      <3> HIDE DEF W
      <3> QED BY <2>1, AtMostOne
    <2> QED BY <2>2, <2>3 DEF Holds
  <1>3. Cardinality({q \in Service \X (1 .. QueueMax) :
                        /\ q[2] <= Len(svc[q[1]].queue)
                        /\ svc[q[1]].queue[q[2]] = c}) = Holds(Queued(c))
    <2> DEFINE Q == {q \in Service \X (1 .. QueueMax) :
                        /\ q[2] <= Len(svc[q[1]].queue)
                        /\ svc[q[1]].queue[q[2]] = c}
    <2>0. \A s \in Service : Len(svc[s].queue) \in Nat /\ Len(svc[s].queue) <= QueueMax
      BY DEF Typed, Worker, Scheduled, Bounded
    <2>1. ASSUME NEW x \in Q, NEW y \in Q PROVE x = y
      <3>1. /\ x[1] \in Service /\ y[1] \in Service
            /\ x[2] \in 1 .. QueueMax /\ y[2] \in 1 .. QueueMax
            /\ x = <<x[1], x[2]>> /\ y = <<y[1], y[2]>>
        BY <2>1
      <3>2. x[2] \in 1 .. Len(svc[x[1]].queue) /\ y[2] \in 1 .. Len(svc[y[1]].queue)
        BY <3>1, <2>0, QueueLimit
      <3>3. svc[x[1]].queue[x[2]] = svc[y[1]].queue[y[2]]
        OBVIOUS
      <3>4. x[1] = y[1] /\ x[2] = y[2]
        BY <3>1, <3>2, <3>3 DEF Scheduled, QueuedOnce
      <3> QED BY <3>1, <3>4
    <2>2. ASSUME Queued(c) PROVE Q # {}
      <3>1. PICK s \in Service :
               \E i \in 1 .. Len(svc[s].queue) : svc[s].queue[i] = c
        BY <2>2 DEF Queued
      <3>2. PICK i \in 1 .. Len(svc[s].queue) : svc[s].queue[i] = c
        BY <3>1
      <3>3. i \in 1 .. QueueMax /\ i <= Len(svc[s].queue)
        BY <3>2, <2>0, QueueLimit
      <3>4. <<s, i>> \in Q
        BY <3>1, <3>2, <3>3
      <3> QED BY <3>4
    <2>3. ASSUME Q # {} PROVE Queued(c)
      <3>1. PICK x \in Q : TRUE
        BY <2>3
      <3>2. x[1] \in Service /\ x[2] \in 1 .. QueueMax
        BY <3>1
      <3>3. x[2] \in 1 .. Len(svc[x[1]].queue) /\ svc[x[1]].queue[x[2]] = c
        BY <3>1, <3>2, <2>0, QueueLimit
      <3> QED BY <3>2, <3>3 DEF Queued
    <2>4. Cardinality(Q) = Holds(Q # {})
      <3> HIDE DEF Q
      <3> QED BY <2>1, AtMostOne
    <2> QED BY <2>2, <2>3, <2>4 DEF Holds
  <1>4. Continuations(c) = Holds(Current(c)) + Holds(Watched(c)) + Holds(Posted(c))
                             + Holds(Working(c)) + Holds(Queued(c))
    BY <1>1, <1>2, <1>3 DEF Continuations, Current, Watched
  <1>5. OneKind(c)
    BY DEF Scheduled
  <1> QED BY <1>4, <1>5 DEF OneKind, Holds

-----------------------------------------------------------------------------
(* What most steps leave alone, seen from each part of the invariant. *)
LEMMA OrderKept ==
  ASSUME Ordered,
         \A c \in Clients : /\ Live(c)' <=> Live(c)
                            /\ sock'[c].state = "none" => sock[c].state = "none"
                            /\ conn[c].at = "none" => conn'[c].at = "none"
                            /\ ~Live(c) => conn'[c].tx = conn[c].tx,
         srv'.connections = srv.connections, srv'.stopping = srv.stopping,
         srv'.listening = srv.listening, srv'.forced = srv.forced,
         loop'.stop = loop.stop, loop'.exited = loop.exited,
         loop'.current = loop.current \/ ~loop.exited,
         \A s \in Service : svc'[s].stopping => svc[s].stopping /\ svc'[s].queue = << >>
  PROVE  Ordered'
  <1>1. Lives' = Lives
    BY DEF Lives
  <1>2. \A c \in Clients : sock'[c].state = "none" => conn'[c].at = "none"
    BY DEF Ordered
  <1>3. \A c \in Clients : ~Live(c)' => ~conn'[c].tx
    BY DEF Ordered
  <1>4. \A s \in Service : svc'[s].stopping => loop'.exited /\ svc'[s].queue = << >>
    BY DEF Ordered
  <1>5. loop'.exited => loop'.stop /\ loop'.current = None
    BY DEF Ordered
  <1>6. /\ IsFiniteSet(Lives')
        /\ ~loop'.exited => srv'.connections = Cardinality(Lives')
        /\ srv'.stopping => ~srv'.listening
        /\ loop'.stop => srv'.stopping
        /\ loop'.stop /\ ~srv'.forced => Lives' = {}
    BY <1>1 DEF Ordered
  <1> QED BY <1>2, <1>3, <1>4, <1>5, <1>6 DEF Ordered

LEMMA DialogueKept ==
  ASSUME Dialogue, asked' = asked, answered' = answered,
         \A c \in Clients : conn'[c].at = conn[c].at /\ conn'[c].out = conn[c].out
  PROVE  Dialogue'
  BY DEF Dialogue, Turn, Owing

(* A running coroutine that keeps running: only its record r, its counters  *)
(* and what no other coroutine looks at have changed.                       *)
LEMMA Serves ==
  ASSUME ServerInv, NEW c \in Clients, Current(c),
         NEW r \in Coroutine, r.at \notin {"none", "closed"},
         NEW m \in Nat, NEW n \in Nat, Turn(r, m, n),
         conn' = [conn EXCEPT ![c] = r],
         asked' = [asked EXCEPT ![c] = m], answered' = [answered EXCEPT ![c] = n],
         sock' \in [Clients -> Socket],
         \A d \in Clients : sock'[d].state = sock[d].state,
         loop' \in EventLoop,
         loop'.current = loop.current, loop'.watches = loop.watches,
         loop'.pending = loop.pending,
         loop'.stop = loop.stop, loop'.exited = loop.exited, svc' = svc,
         srv' \in TcpServer,
         srv'.connections = srv.connections, srv'.stopping = srv.stopping,
         srv'.listening = srv.listening, srv'.forced = srv.forced
  PROVE  ServerInv'
  <1>0. /\ conn'[c] = r /\ asked'[c] = m /\ answered'[c] = n
        /\ \A d \in Clients \ {c} : /\ conn'[d] = conn[d]
                                    /\ asked'[d] = asked[d]
                                    /\ answered'[d] = answered[d]
    BY DEF ServerInv, Typed
  <1>1. Live(c) /\ Live(c)'
    BY <1>0 DEF ServerInv, Scheduled, OneKind, Live
  <1>2. \A d \in Clients : Live(d)' <=> Live(d)
    BY <1>0, <1>1 DEF Live
  <1>3. Scheduled'
    BY <1>2, Stays DEF ServerInv
  <1>4. Dialogue'
    BY <1>0 DEF ServerInv, Dialogue
  <1>5. \A d \in Clients : /\ conn[d].at = "none" => conn'[d].at = "none"
                           /\ ~Live(d) => conn'[d].tx = conn[d].tx
    BY <1>0, <1>1 DEF Live
  <1>6. \A s \in Service : svc'[s].stopping => svc[s].stopping /\ svc'[s].queue = << >>
    BY DEF ServerInv, Ordered
  <1>7. Ordered'
    BY <1>2, <1>5, <1>6, OrderKept DEF ServerInv
  <1>8. Typed'
    BY DEF ServerInv, Typed
  <1> QED BY <1>3, <1>4, <1>7, <1>8 DEF ServerInv

(* The same when only the record changes. *)
LEMMA ServesQuietly ==
  ASSUME ServerInv, NEW c \in Clients, Current(c),
         NEW r \in Coroutine, r.at \notin {"none", "closed"},
         Turn(r, asked[c], answered[c]),
         conn' = [conn EXCEPT ![c] = r],
         UNCHANGED <<sock, loop, svc, srv, asked, answered>>
  PROVE  ServerInv'
  <1>1. /\ asked[c] \in Nat /\ answered[c] \in Nat
        /\ asked' = [asked EXCEPT ![c] = asked[c]]
        /\ answered' = [answered EXCEPT ![c] = answered[c]]
    BY DEF ServerInv, Typed
  <1>2. sock' \in [Clients -> Socket] /\ loop' \in EventLoop /\ srv' \in TcpServer
    BY DEF ServerInv, Typed
  <1>3. /\ \A d \in Clients : sock'[d].state = sock[d].state
        /\ loop'.current = loop.current /\ loop'.watches = loop.watches
        /\ loop'.pending = loop.pending
        /\ loop'.stop = loop.stop /\ loop'.exited = loop.exited
        /\ srv'.connections = srv.connections /\ srv'.stopping = srv.stopping
        /\ srv'.listening = srv.listening /\ srv'.forced = srv.forced
    OBVIOUS
  <1>4. svc' = svc
    OBVIOUS
  <1> QED BY <1>1, <1>2, <1>3, <1>4, Serves, ZenonT(40)

LEMMA RunningTurn ==
  ASSUME ServerInv, NEW c \in Clients
  PROVE  /\ Turn(conn[c], asked[c], answered[c])
         /\ conn[c] \in Coroutine /\ sock[c] \in Socket
         /\ asked[c] \in Nat /\ answered[c] \in Nat
         /\ conn \in [Clients -> Coroutine] /\ sock \in [Clients -> Socket]
         /\ asked \in [Clients -> Nat] /\ answered \in [Clients -> Nat]
         /\ loop \in EventLoop /\ srv \in TcpServer /\ svc \in [Service -> Worker]
  BY DEF ServerInv, Typed, Dialogue

LEMMA OutputNotNone == None \notin Output /\ None \notin Clients
  BY ServerAssumption DEF Output

(* What a step that sets the place and the output makes of the record. *)
LEMMA WriteInv ==
  ASSUME ServerInv, NEW c \in Clients, NEW w \in Output,
         Current(c), Write(c, w),
         w # "bye" => asked[c] = answered[c] + Holds(w \in Reply),
         UNCHANGED <<sock, loop, svc, srv, asked, answered>>
  PROVE  ServerInv'
  <1> DEFINE r == [conn[c] EXCEPT !.at = "write", !.out = w]
  <1>1. conn[c] \in Coroutine /\ conn \in [Clients -> Coroutine]
    BY RunningTurn
  <1>2. r \in Coroutine /\ r.at = "write" /\ r.out = w
    BY <1>1 DEF Coroutine, Place
  <1>3. conn' = [conn EXCEPT ![c] = r]
    BY <1>1 DEF Write
  <1> HIDE DEF r
  <1>4. Turn(r, asked[c], answered[c])
    BY <1>2 DEF Turn, Owing
  <1> QED BY <1>2, <1>3, <1>4, ServesQuietly

LEMMA StartSessionInv ==
  ASSUME ServerInv, NEW c \in Clients, StartSession(c)
  PROVE  ServerInv'
  <1>1. Current(c) /\ conn[c].at = "start"
    BY DEF StartSession, At, Current
  <1>2. asked[c] = answered[c] + Holds("hello" \in Reply)
    BY <1>1, RunningTurn, OutputNotNone DEF Turn, Owing, Output, Reply, Holds
  <1> QED BY <1>1, <1>2, WriteInv DEF StartSession, history, Output

LEMMA WriteFailsInv ==
  ASSUME ServerInv, NEW c \in Clients, WriteFails(c) \/ Leave(c)
  PROVE  ServerInv'
  <1>1. Current(c) /\ Write(c, "bye")
        /\ UNCHANGED <<sock, loop, svc, srv, asked, answered>>
    BY DEF WriteFails, Leave, Writing, At, Current, history
  <1> QED BY <1>1, WriteInv DEF Output

LEMMA RefusalInv ==
  ASSUME ServerInv, NEW c \in Clients,
         ParseRejected(c) \/ ParseFailed(c) \/ ReplyResult(c)
  PROVE  ServerInv'
  <1>1. PICK w \in Reply : /\ Current(c) /\ Write(c, w)
                           /\ UNCHANGED <<sock, loop, svc, srv, asked, answered>>
    BY DEF ParseRejected, ParseFailed, ReplyResult, At, Current, history, Reply
  <1>2. conn[c].at \in {"parse", "parsing", "running"}
    BY DEF ParseRejected, ParseFailed, ReplyResult, At
  <1>3. asked[c] = answered[c] + Holds(w \in Reply)
    BY <1>1, <1>2, RunningTurn, OutputNotNone DEF Turn, Owing, Output, Holds
  <1> QED BY <1>1, <1>3, WriteInv DEF Output

LEMMA Routes ==
  ASSUME ServerInv, NEW c \in Clients
  PROVE  /\ Routed(c) \in Service
         /\ srv.next \in Nat /\ (srv.next + 1) % ReadThreads \in Nat
         /\ ReadThreads \in Nat \ {0}
  <1>1. srv.next \in Nat
    BY DEF ServerInv, Typed, TcpServer
  <1>2. ReadThreads \in Nat \ {0}
    BY ServerAssumption
  <1>3. srv.next % ReadThreads \in 0 .. ReadThreads - 1
    BY <1>1, <1>2
  <1>4. (srv.next + 1) % ReadThreads \in 0 .. ReadThreads - 1
    BY <1>1, <1>2
  <1>5. 2 \in Service /\ 3 + (srv.next % ReadThreads) \in Service
    BY <1>2, <1>3 DEF Service
  <1> QED BY <1>1, <1>2, <1>4, <1>5 DEF Routed, WriteService

LEMMA NextReader ==
  ASSUME ServerInv, NEW c \in Clients,
         srv' = [srv EXCEPT !.next =
            IF Routed(c) = WriteService THEN @ ELSE (@ + 1) % ReadThreads]
  PROVE  /\ srv' \in TcpServer
         /\ srv'.connections = srv.connections /\ srv'.stopping = srv.stopping
         /\ srv'.listening = srv.listening /\ srv'.forced = srv.forced
  <1>1. srv \in TcpServer
    BY DEF ServerInv, Typed
  <1>2. (IF Routed(c) = WriteService THEN srv.next
         ELSE (srv.next + 1) % ReadThreads) \in Nat
    BY Routes
  <1> QED BY <1>1, <1>2 DEF TcpServer

LEMMA StatementRejectedInv ==
  ASSUME ServerInv, NEW c \in Clients, StatementRejected(c)
  PROVE  ServerInv'
  <1> DEFINE r == [conn[c] EXCEPT !.at = "write", !.out = "busy"]
  <1>1. conn[c] \in Coroutine /\ conn \in [Clients -> Coroutine]
    BY RunningTurn
  <1>2. r \in Coroutine /\ r.at = "write" /\ r.out = "busy"
    BY <1>1 DEF Coroutine, Place, Output, Reply
  <1>3. conn' = [conn EXCEPT ![c] = r]
    BY <1>1 DEF StatementRejected, Write
  <1> HIDE DEF r
  <1>4. Current(c) /\ conn[c].at = "parsing"
    BY DEF StatementRejected, At, Current
  <1>5. Turn(r, asked[c], answered[c])
    BY <1>2, <1>4, RunningTurn, OutputNotNone DEF Turn, Owing, Output, Reply, Holds
  <1>6. /\ srv' \in TcpServer
        /\ srv'.connections = srv.connections /\ srv'.stopping = srv.stopping
        /\ srv'.listening = srv.listening /\ srv'.forced = srv.forced
    BY NextReader DEF StatementRejected
  <1>7. /\ asked[c] \in Nat /\ answered[c] \in Nat
        /\ asked' = [asked EXCEPT ![c] = asked[c]]
        /\ answered' = [answered EXCEPT ![c] = answered[c]]
    BY RunningTurn DEF StatementRejected, history
  <1>8. /\ sock' \in [Clients -> Socket] /\ loop' \in EventLoop
        /\ \A d \in Clients : sock'[d].state = sock[d].state
        /\ loop'.current = loop.current /\ loop'.watches = loop.watches
        /\ loop'.pending = loop.pending
        /\ loop'.stop = loop.stop /\ loop'.exited = loop.exited
        /\ svc' = svc
    BY RunningTurn DEF StatementRejected
  <1> QED BY <1>2, <1>3, <1>4, <1>5, <1>6, <1>7, <1>8, Serves

LEMMA WriteDoneInv ==
  ASSUME ServerInv, NEW c \in Clients, WriteDone(c)
  PROVE  ServerInv'
  <1> DEFINE late == conn[c].out = "timeout"
             r == [conn[c] EXCEPT !.at = IF late THEN "write" ELSE "frame",
                                  !.out = IF late THEN "bye" ELSE None]
             n == IF conn[c].out \in Reply THEN answered[c] + 1 ELSE answered[c]
  <1>1. /\ conn[c] \in Coroutine /\ conn \in [Clients -> Coroutine]
        /\ asked[c] \in Nat /\ n \in Nat
        /\ asked \in [Clients -> Nat] /\ answered \in [Clients -> Nat]
    BY RunningTurn
  <1>2. /\ r \in Coroutine
        /\ r.at = IF late THEN "write" ELSE "frame"
        /\ r.out = IF late THEN "bye" ELSE None
    BY <1>1 DEF Coroutine, Place, Output
  <1>3. /\ conn' = [conn EXCEPT ![c] = r]
        /\ asked' = [asked EXCEPT ![c] = asked[c]]
        /\ answered' = [answered EXCEPT ![c] = n]
    BY <1>1 DEF WriteDone
  <1>4. Current(c) /\ conn[c].at \in {"write", "flush"} /\ conn[c].out # "bye"
    BY DEF WriteDone, Writing, At, Current
  <1> HIDE DEF r
  <1>5. Turn(r, asked[c], n)
    <2>1. asked[c] = answered[c] + Holds(Owing(conn[c]))
      BY <1>4, RunningTurn DEF Turn
    <2>2. Owing(conn[c]) <=> conn[c].out \in Reply
      BY <1>4 DEF Owing
    <2>3. CASE late
      BY <2>3, <1>2 DEF Turn, Output
    <2>4. CASE ~late
      <3>1. r.at = "frame" /\ r.out = None
        BY <2>4, <1>2
      <3>2. ~Owing(r)
        BY <3>1, OutputNotNone DEF Owing, Output
      <3>3. asked[c] = n
        BY <2>1, <2>2, RunningTurn DEF Holds
      <3>4. asked[c] = n + Holds(Owing(r))
        BY <3>2, <3>3, <1>1 DEF Holds
      <3> QED BY <3>1, <3>4 DEF Turn
    <2> QED BY <2>3, <2>4
  <1>6. r.at \notin {"none", "closed"}
    BY <1>2
  <1>7. /\ sock' \in [Clients -> Socket] /\ loop' \in EventLoop /\ srv' \in TcpServer
        /\ UNCHANGED <<sock, loop, svc, srv>>
    BY RunningTurn DEF WriteDone
  <1> HIDE DEF n
  <1> QED BY <1>1, <1>2, <1>3, <1>4, <1>5, <1>6, <1>7, Serves

LEMMA ArmInv ==
  ASSUME ServerInv, NEW c \in Clients, NextRead(c)
  PROVE  ServerInv'
  <1> DEFINE r == [conn[c] EXCEPT !.at = "read"]
             q == [conn[c] EXCEPT !.at = "read", !.generation = @ + 1]
  <1>1. /\ conn[c] \in Coroutine /\ conn \in [Clients -> Coroutine]
        /\ loop \in EventLoop /\ conn[c].generation + 1 \in Nat
    BY RunningTurn DEF Coroutine
  <1>2. /\ r \in Coroutine /\ r.at = "read" /\ r.out = conn[c].out
        /\ q \in Coroutine /\ q.at = "read" /\ q.out = conn[c].out
    BY <1>1 DEF Coroutine, Place
  <1>3. Current(c) /\ conn[c].at = "frame"
    BY DEF NextRead, At, Current
  <1>4. PICK p \in {r, q} : conn' = [conn EXCEPT ![c] = p]
    BY <1>1 DEF NextRead, ArmIdleWatchdog
  <1>5. p \in Coroutine /\ p.at = "read" /\ p.out = conn[c].out
    BY <1>2
  <1>6. Turn(p, asked[c], answered[c])
    BY <1>3, <1>5, RunningTurn DEF Turn, Owing
  <1>7. /\ loop' \in EventLoop
        /\ loop'.current = loop.current /\ loop'.watches = loop.watches
        /\ loop'.pending = loop.pending
        /\ loop'.stop = loop.stop /\ loop'.exited = loop.exited
    <2>1. CASE loop' = loop
      BY <2>1, <1>1
    <2>2. CASE loop' = [loop EXCEPT !.timers = @ \cup {<<c, conn[c].generation + 1>>}]
      <3>1. loop.timers \cup {<<c, conn[c].generation + 1>>} \in SUBSET (Clients \X Nat)
        BY <1>1 DEF EventLoop
      <3> QED BY <2>2, <3>1, <1>1 DEF EventLoop
    <2> QED BY <2>1, <2>2 DEF NextRead, ArmIdleWatchdog
  <1>8. /\ asked[c] \in Nat /\ answered[c] \in Nat
        /\ asked' = [asked EXCEPT ![c] = asked[c]]
        /\ answered' = [answered EXCEPT ![c] = answered[c]]
        /\ sock' \in [Clients -> Socket] /\ srv' \in TcpServer
        /\ UNCHANGED <<sock, svc, srv>>
    BY RunningTurn DEF NextRead, history
  <1> HIDE DEF r, q
  <1> QED BY <1>3, <1>4, <1>5, <1>6, <1>7, <1>8, Serves

LEMMA ReadSomeInv ==
  ASSUME ServerInv, NEW c \in Clients, ReadSome(c)
  PROVE  ServerInv'
  <1>1. /\ conn[c] \in Coroutine /\ conn \in [Clients -> Coroutine]
        /\ sock[c] \in Socket /\ sock \in [Clients -> Socket]
        /\ sock[c].wire \in Seq(Frame) /\ conn[c].in \in Seq(Frame)
    BY RunningTurn DEF Coroutine, Socket
  <1>2. Current(c) /\ conn[c].at = "read"
    BY DEF ReadSome, At, Current
  <1>3. PICK n \in 0 .. Len(sock[c].wire), part \in BOOLEAN :
           /\ sock' = [sock EXCEPT ![c].half = part,
                  ![c].wire = SubSeq(@, n + 1, Len(@))]
           /\ conn' = [conn EXCEPT ![c].at = "frame",
                  ![c].in = @ \o SubSeq(sock[c].wire, 1, n)]
    BY DEF ReadSome
  <1> DEFINE w == SubSeq(sock[c].wire, n + 1, Len(sock[c].wire))
             i == conn[c].in \o SubSeq(sock[c].wire, 1, n)
             r == [conn[c] EXCEPT !.at = "frame", !.in = i]
             k == [sock[c] EXCEPT !.half = part, !.wire = w]
  <1>4. n \in Nat /\ n <= Len(sock[c].wire) /\ Len(sock[c].wire) \in Nat
    BY <1>1
  <1>5. w \in Seq(Frame)
    BY <1>1, <1>4, SubSeqProperties
  <1>6. SubSeq(sock[c].wire, 1, n) \in Seq(Frame)
    BY <1>1, <1>4, SubSeqProperties
  <1>7. i \in Seq(Frame)
    BY <1>1, <1>6, ConcatProperties
  <1> HIDE DEF w, i
  <1>8. /\ r \in Coroutine /\ r.at = "frame" /\ r.out = conn[c].out
        /\ k \in Socket /\ k.state = sock[c].state
    BY <1>1, <1>5, <1>7 DEF Coroutine, Socket, Place
  <1>9. conn' = [conn EXCEPT ![c] = r] /\ sock' = [sock EXCEPT ![c] = k]
    BY <1>1, <1>3 DEF w, i
  <1> HIDE DEF r, k
  <1>10. Turn(r, asked[c], answered[c])
    BY <1>2, <1>8, RunningTurn DEF Turn, Owing
  <1>11. /\ sock' \in [Clients -> Socket]
         /\ \A d \in Clients : sock'[d].state = sock[d].state
    BY <1>1, <1>8, <1>9
  <1>12. /\ asked[c] \in Nat /\ answered[c] \in Nat
         /\ asked' = [asked EXCEPT ![c] = asked[c]]
         /\ answered' = [answered EXCEPT ![c] = answered[c]]
         /\ loop' \in EventLoop /\ srv' \in TcpServer
         /\ UNCHANGED <<loop, svc, srv>>
    BY RunningTurn DEF ReadSome, history
  <1> QED BY <1>2, <1>8, <1>9, <1>10, <1>11, <1>12, Serves

LEMMA ReadEndsInv ==
  ASSUME ServerInv, NEW c \in Clients, ReadEnds(c)
  PROVE  ServerInv'
  <1> DEFINE o == IF conn[c].timed_out THEN "timeout" ELSE "bye"
             t == conn[c].tx /\ ~conn[c].timed_out
             r == [conn[c] EXCEPT !.at = "write", !.out = o, !.tx = t]
  <1>1. conn[c] \in Coroutine /\ conn \in [Clients -> Coroutine]
    BY RunningTurn
  <1>2. t \in BOOLEAN /\ o \in {"timeout", "bye"}
    OBVIOUS
  <1>3. conn' = [conn EXCEPT ![c] = r]
    BY <1>1 DEF ReadEnds
  <1> HIDE DEF o, t
  <1>4. r \in Coroutine /\ r.at = "write" /\ r.out = o
    BY <1>1, <1>2 DEF Coroutine, Place, Output
  <1> HIDE DEF r
  <1>5. Current(c) /\ conn[c].at = "read"
    BY DEF ReadEnds, At, Current
  <1>6. Turn(r, asked[c], answered[c])
    BY <1>2, <1>4, <1>5, RunningTurn, OutputNotNone
       DEF Turn, Owing, Output, Reply, Holds
  <1> QED BY <1>3, <1>4, <1>5, <1>6, ServesQuietly DEF ReadEnds, history

(* A frame is taken from the buffer. *)
LEMMA FrameTaken ==
  ASSUME ServerInv, NEW c \in Clients, conn[c].in # << >>
  PROVE  Tail(conn[c].in) \in Seq(Frame) /\ Head(conn[c].in) \in Frame
  BY RunningTurn DEF Coroutine

LEMMA ClientOptionsInv ==
  ASSUME ServerInv, NEW c \in Clients, ClientOptions(c)
  PROVE  ServerInv'
  <1> DEFINE r == [conn[c] EXCEPT !.in = Tail(@)]
  <1>1. conn[c] \in Coroutine /\ conn \in [Clients -> Coroutine]
    BY RunningTurn
  <1>2. Tail(conn[c].in) \in Seq(Frame)
    BY FrameTaken DEF ClientOptions
  <1>3. r \in Coroutine /\ r.at = conn[c].at /\ r.out = conn[c].out
    BY <1>1, <1>2 DEF Coroutine
  <1>4. conn' = [conn EXCEPT ![c] = r]
    BY <1>1 DEF ClientOptions
  <1> HIDE DEF r
  <1>5. Current(c) /\ conn[c].at = "frame"
    BY DEF ClientOptions, At, Current
  <1>6. Turn(r, asked[c], answered[c])
    BY <1>3, <1>5, RunningTurn DEF Turn, Owing
  <1> QED BY <1>3, <1>4, <1>5, <1>6, ServesQuietly DEF ClientOptions, history

LEMMA RequestInv ==
  ASSUME ServerInv, NEW c \in Clients, PromptReply(c) \/ QueryFrame(c)
  PROVE  ServerInv'
  <1> DEFINE rest == Tail(conn[c].in)
             first == Head(conn[c].in)
             p == [conn[c] EXCEPT !.at = "write", !.out = "pong", !.in = rest]
             q == [conn[c] EXCEPT !.at = "parse", !.in = rest, !.job = first]
  <1>1. /\ conn[c] \in Coroutine /\ conn \in [Clients -> Coroutine]
        /\ asked[c] \in Nat /\ answered[c] \in Nat
        /\ asked \in [Clients -> Nat] /\ answered \in [Clients -> Nat]
    BY RunningTurn
  <1>2. rest \in Seq(Frame)
    BY FrameTaken DEF PromptReply, QueryFrame
  <1>3. Current(c) /\ conn[c].at = "frame"
    BY DEF PromptReply, QueryFrame, At, Current
  <1>4. asked[c] = answered[c] /\ conn[c].out = None
    BY <1>3, RunningTurn, OutputNotNone DEF Turn, Owing, Output, Holds
  <1>5. \E r \in Coroutine : /\ conn' = [conn EXCEPT ![c] = r]
                             /\ r.at \notin {"none", "closed"}
                             /\ Turn(r, asked[c] + 1, answered[c])
    <2>1. CASE PromptReply(c)
      <3>1. conn' = [conn EXCEPT ![c] = p]
        BY <2>1, <1>1 DEF PromptReply
      <3> HIDE DEF rest
      <3>2. p \in Coroutine /\ p.at = "write" /\ p.out = "pong"
        BY <1>1, <1>2 DEF Coroutine, Place, Output, Reply
      <3> HIDE DEF p
      <3>3. Turn(p, asked[c] + 1, answered[c])
        BY <3>2, <1>1, <1>4 DEF Turn, Owing, Output, Reply, Holds
      <3> QED BY <3>1, <3>2, <3>3
    <2>2. CASE QueryFrame(c)
      <3>1. conn' = [conn EXCEPT ![c] = q] /\ first \in Query
        BY <2>2, <1>1 DEF QueryFrame
      <3> HIDE DEF rest, first
      <3>2. q \in Coroutine /\ q.at = "parse" /\ q.out = conn[c].out
        BY <3>1, <1>1, <1>2 DEF Coroutine, Place
      <3> HIDE DEF q
      <3>3. Turn(q, asked[c] + 1, answered[c])
        BY <3>2, <1>1, <1>4, OutputNotNone DEF Turn, Owing, Output, Holds
      <3> QED BY <3>1, <3>2, <3>3
    <2> QED BY <2>1, <2>2
  <1>6. PICK r \in Coroutine : /\ conn' = [conn EXCEPT ![c] = r]
                               /\ r.at \notin {"none", "closed"}
                               /\ Turn(r, asked[c] + 1, answered[c])
    BY <1>5
  <1>7. /\ asked' = [asked EXCEPT ![c] = asked[c] + 1]
        /\ answered' = [answered EXCEPT ![c] = answered[c]]
        /\ asked[c] + 1 \in Nat
    BY <1>1 DEF PromptReply, QueryFrame
  <1>8. /\ sock' \in [Clients -> Socket] /\ loop' \in EventLoop /\ srv' \in TcpServer
        /\ UNCHANGED <<sock, loop, svc, srv>>
    BY RunningTurn DEF PromptReply, QueryFrame
  <1> QED BY <1>1, <1>3, <1>6, <1>7, <1>8, Serves

-----------------------------------------------------------------------------
(* The coroutine suspends itself or ends. *)
LEMMA WaitInv ==
  ASSUME ServerInv, NEW c \in Clients, WriteBlocks(c) \/ ReadWaits(c)
  PROVE  ServerInv'
  <1>1. /\ conn[c] \in Coroutine /\ conn \in [Clients -> Coroutine]
        /\ loop \in EventLoop /\ Turn(conn[c], asked[c], answered[c])
    BY RunningTurn
  <1>2. Current(c) /\ conn[c].at \in {"write", "read"}
    BY DEF WriteBlocks, ReadWaits, At, Current
  <1>3. PICK e \in {"in", "out"} :
           loop' = [loop EXCEPT !.current = None, !.watches[c] = e]
    BY DEF WriteBlocks, ReadWaits, WaitFd
  <1>4. /\ loop'.current = None /\ loop'.pending = loop.pending
        /\ loop'.watches = [loop.watches EXCEPT ![c] = e]
        /\ loop'.stop = loop.stop /\ loop'.exited = loop.exited
        /\ loop' \in EventLoop
    BY <1>1, <1>3 DEF EventLoop
  <1>5. /\ conn' \in [Clients -> Coroutine]
        /\ \A d \in Clients : /\ conn'[d].out = conn[d].out
                              /\ conn'[d].tx = conn[d].tx
                              /\ d # c => conn'[d].at = conn[d].at
        /\ \/ conn[c].at = "read" /\ conn'[c].at = "read"
           \/ conn[c].at = "write" /\ conn'[c].at = "flush"
    <2>1. CASE WriteBlocks(c)
      BY <2>1, <1>1 DEF WriteBlocks, At, Coroutine, Place
    <2>2. CASE ReadWaits(c)
      BY <2>2, <1>1 DEF ReadWaits, At
    <2> QED BY <2>1, <2>2
  <1>6. UNCHANGED <<sock, svc, srv, asked, answered>>
    BY DEF WriteBlocks, ReadWaits, history
  <1>7. \A d \in Clients : Live(d)' <=> Live(d)
    BY <1>2, <1>5 DEF Live
  <1>8. Typed'
    BY <1>4, <1>5, <1>6 DEF ServerInv, Typed
  <1>9. Scheduled'
    BY <1>2, <1>4, <1>6, <1>7, WatchMoves DEF ServerInv
  <1>10. Dialogue'
    BY <1>5, <1>6 DEF ServerInv, Dialogue, Turn, Owing
  <1>11. ~loop.exited
    BY <1>2, OutputNotNone DEF ServerInv, Ordered, Current
  <1>12. \A s \in Service : svc'[s].stopping => svc[s].stopping /\ svc'[s].queue = << >>
    BY <1>6 DEF ServerInv, Ordered
  <1>13. \A d \in Clients : /\ sock'[d].state = "none" => sock[d].state = "none"
                            /\ conn[d].at = "none" => conn'[d].at = "none"
                            /\ ~Live(d) => conn'[d].tx = conn[d].tx
    BY <1>2, <1>5, <1>6
  <1>14. Ordered'
    BY <1>4, <1>6, <1>7, <1>11, <1>12, <1>13, OrderKept DEF ServerInv
  <1> QED BY <1>8, <1>9, <1>10, <1>14 DEF ServerInv

LEMMA SubmitInv ==
  ASSUME ServerInv, NEW c \in Clients, SubmitParse(c) \/ SubmitStatement(c)
  PROVE  ServerInv'
  <1>1. /\ conn[c] \in Coroutine /\ conn \in [Clients -> Coroutine]
        /\ loop \in EventLoop /\ svc \in [Service -> Worker]
    BY RunningTurn
  <1>2. Current(c) /\ conn[c].at \in {"parse", "parsing"}
    BY DEF SubmitParse, SubmitStatement, At, Current
  <1>3. PICK s \in Service, place \in {"parsing", "running"} : Submit(c, s, place)
    <2>1. ParseService \in Service
      BY Routes DEF ParseService, Service
    <2> QED BY <2>1, Routes DEF SubmitParse, SubmitStatement
  <1>4. /\ Len(svc[s].queue) < QueueMax /\ ~svc[s].stopping
        /\ svc'[s].queue = Append(svc[s].queue, c)
        /\ svc'[s].running = svc[s].running /\ svc'[s].stopping = svc[s].stopping
        /\ \A t \in Service \ {s} : svc'[t] = svc[t]
    BY <1>1, <1>3 DEF Submit, Accepts, Worker
  <1>5. svc' \in [Service -> Worker]
    <2>1. Append(svc[s].queue, c) \in Seq(Clients)
      BY <1>1 DEF Worker
    <2>2. [svc[s] EXCEPT !.queue = Append(@, c)] \in Worker
      BY <1>1, <2>1 DEF Worker
    <2> QED BY <1>1, <1>3, <2>2 DEF Submit
  <1>6. /\ loop'.current = None /\ loop'.pending = loop.pending
        /\ loop'.watches = loop.watches
        /\ loop'.stop = loop.stop /\ loop'.exited = loop.exited
        /\ loop' \in EventLoop
    BY <1>1, <1>3 DEF Submit, EventLoop
  <1>7. /\ conn' \in [Clients -> Coroutine]
        /\ conn'[c].at \in {"parsing", "running"}
        /\ \A d \in Clients : /\ conn'[d].out = conn[d].out
                              /\ conn'[d].tx = conn[d].tx
                              /\ d # c => conn'[d].at = conn[d].at
    BY <1>1, <1>3 DEF Submit, Coroutine, Place
  <1>8. UNCHANGED <<sock, asked, answered>>
    BY DEF SubmitParse, SubmitStatement, history
  <1>9. /\ srv' \in TcpServer
        /\ srv'.connections = srv.connections /\ srv'.stopping = srv.stopping
        /\ srv'.listening = srv.listening /\ srv'.forced = srv.forced
    BY NextReader, RunningTurn DEF SubmitParse, SubmitStatement
  <1>10. \A d \in Clients : Live(d)' <=> Live(d)
    BY <1>2, <1>7 DEF Live
  <1>11. Typed'
    BY <1>5, <1>6, <1>7, <1>8, <1>9 DEF ServerInv, Typed
  <1>12. Scheduled'
    BY <1>2, <1>4, <1>6, <1>10, Submits DEF ServerInv
  <1>13. Dialogue'
    BY <1>2, <1>7, <1>8 DEF ServerInv, Dialogue, Turn, Owing
  <1>14. ~loop.exited
    BY <1>2, OutputNotNone DEF ServerInv, Ordered, Current
  <1>15. \A t \in Service : svc'[t].stopping => svc[t].stopping /\ svc'[t].queue = << >>
    BY <1>4 DEF ServerInv, Ordered
  <1>16. \A d \in Clients : /\ sock'[d].state = "none" => sock[d].state = "none"
                            /\ conn[d].at = "none" => conn'[d].at = "none"
                            /\ ~Live(d) => conn'[d].tx = conn[d].tx
    BY <1>2, <1>7, <1>8
  <1>17. Ordered'
    BY <1>6, <1>9, <1>10, <1>14, <1>15, <1>16, OrderKept DEF ServerInv
  <1> QED BY <1>11, <1>12, <1>13, <1>17 DEF ServerInv

LEMMA CloseConnectionInv ==
  ASSUME ServerInv, NEW c \in Clients, CloseConnection(c)
  PROVE  ServerInv'
  <1>1. /\ conn[c] \in Coroutine /\ conn \in [Clients -> Coroutine]
        /\ sock[c] \in Socket /\ sock \in [Clients -> Socket]
        /\ loop \in EventLoop /\ srv \in TcpServer
    BY RunningTurn
  <1>2. Current(c) /\ conn[c].at \in {"write", "flush"}
    BY DEF CloseConnection, Writing, At, Current
  <1>3. /\ conn' \in [Clients -> Coroutine]
        /\ conn'[c].at = "closed" /\ conn'[c].out = None /\ ~conn'[c].tx
        /\ \A d \in Clients \ {c} : conn'[d] = conn[d]
    BY <1>1 DEF CloseConnection, Coroutine, Place
  <1>4. /\ sock' \in [Clients -> Socket] /\ sock'[c].state = "closed"
        /\ \A d \in Clients \ {c} : sock'[d] = sock[d]
    BY <1>1 DEF CloseConnection, Socket
  <1>5. /\ loop' \in EventLoop
        /\ loop'.current = None /\ loop'.pending = loop.pending
        /\ loop'.watches = loop.watches
        /\ loop'.stop = loop.stop /\ loop'.exited = loop.exited
    BY <1>1 DEF CloseConnection, EventLoop
  <1>6. /\ srv' \in TcpServer /\ srv'.connections = srv.connections - 1
        /\ srv'.stopping = srv.stopping
        /\ srv'.listening = srv.listening /\ srv'.forced = srv.forced
    BY <1>1 DEF CloseConnection, TcpServer
  <1>7. UNCHANGED <<svc, asked, answered>>
    BY DEF CloseConnection, history
  <1>8. /\ Live(c) /\ ~Live(c)'
        /\ \A d \in Clients \ {c} : Live(d)' <=> Live(d)
    BY <1>2, <1>3 DEF Live
  <1>9. Typed'
    BY <1>3, <1>4, <1>5, <1>6, <1>7 DEF ServerInv, Typed
  <1>10. Scheduled'
    BY <1>2, <1>5, <1>7, <1>8, Ends DEF ServerInv
  <1>11. Dialogue'
    BY <1>3, <1>7 DEF ServerInv, Dialogue, Turn, Owing
  <1>12. Ordered'
    <2>1. Lives' = Lives \ {c} /\ c \in Lives
      BY <1>8 DEF Lives
    <2>2. IsFiniteSet(Lives') /\ Cardinality(Lives') = Cardinality(Lives) - 1
      BY <2>1, FS_RemoveElement DEF ServerInv, Ordered
    <2>3. ~loop.exited /\ (loop.stop => srv.forced)
      BY <2>1, <1>2, OutputNotNone DEF ServerInv, Ordered, Current
    <2>4. \A d \in Clients : /\ sock'[d].state = "none" => conn'[d].at = "none"
                             /\ ~Live(d)' => ~conn'[d].tx
      BY <1>3, <1>4, <1>8 DEF ServerInv, Ordered
    <2>5. srv'.connections = Cardinality(Lives')
      BY <2>2, <2>3, <1>6 DEF ServerInv, Ordered
    <2>6. \A s \in Service : svc'[s].stopping => loop'.exited /\ svc'[s].queue = << >>
      BY <1>5, <1>7 DEF ServerInv, Ordered
    <2> QED BY <2>2, <2>3, <2>4, <2>5, <2>6, <1>5, <1>6 DEF ServerInv, Ordered
  <1> QED BY <1>9, <1>10, <1>11, <1>12 DEF ServerInv

-----------------------------------------------------------------------------
(* The loop resumes a coroutine. *)
LEMMA ResumeInv ==
  ASSUME ServerInv, RunPending \/ \E c \in Clients : FdReady(c)
  PROVE  ServerInv'
  <1>1. /\ UNCHANGED <<sock, conn, svc, srv, asked, answered>>
        /\ loop.current = None /\ ~loop.exited
    BY DEF RunPending, FdReady, Polling, history
  <1>2. loop \in EventLoop
    BY DEF ServerInv, Typed
  <1>3. \A d \in Clients : Live(d)' <=> Live(d)
    BY <1>1 DEF Live
  <1>4. /\ Scheduled' /\ loop' \in EventLoop
        /\ loop'.stop = loop.stop /\ loop'.exited = loop.exited
    <2>1. CASE RunPending
      <3>1. loop.pending \in Seq(Clients) /\ loop.pending # << >>
        BY <2>1, <1>2 DEF RunPending, EventLoop
      <3>2. Head(loop.pending) \in Clients /\ Tail(loop.pending) \in Seq(Clients)
        BY <3>1
      <3>3. /\ loop' \in EventLoop
            /\ loop'.current = Head(loop.pending) /\ loop'.watches = loop.watches
            /\ loop'.pending = Tail(loop.pending)
            /\ loop'.stop = loop.stop /\ loop'.exited = loop.exited
        BY <2>1, <1>2, <3>2 DEF RunPending, EventLoop
      <3> QED BY <3>1, <3>3, <1>1, <1>3, PostedRuns DEF ServerInv
    <2>2. CASE \E c \in Clients : FdReady(c)
      <3>1. PICK c \in Clients : FdReady(c)
        BY <2>2
      <3>2. /\ loop' \in EventLoop
            /\ loop'.current = c
            /\ loop'.watches = [loop.watches EXCEPT ![c] = "none"]
            /\ loop'.pending = loop.pending
            /\ loop'.stop = loop.stop /\ loop'.exited = loop.exited
        BY <3>1, <1>2 DEF FdReady, EventLoop
      <3>3. Watched(c)
        BY <3>1 DEF FdReady, Watched
      <3> QED BY <3>2, <3>3, <1>1, <1>3, WatchMoves DEF ServerInv
    <2> QED BY <2>1, <2>2
  <1>5. Typed'
    BY <1>1, <1>4 DEF ServerInv, Typed
  <1>6. Dialogue'
    BY <1>1, DialogueKept DEF ServerInv
  <1>7. /\ \A s \in Service : svc'[s].stopping => svc[s].stopping /\ svc'[s].queue = << >>
        /\ \A d \in Clients : /\ sock'[d].state = "none" => sock[d].state = "none"
                              /\ conn[d].at = "none" => conn'[d].at = "none"
                              /\ ~Live(d) => conn'[d].tx = conn[d].tx
    BY <1>1 DEF ServerInv, Ordered
  <1>8. Ordered'
    BY <1>1, <1>3, <1>4, <1>7, OrderKept DEF ServerInv
  <1> QED BY <1>4, <1>5, <1>6, <1>8 DEF ServerInv

(* The service threads. *)
LEMMA TakeJobInv ==
  ASSUME ServerInv, NEW s \in Service, TakeJob(s)
  PROVE  ServerInv'
  <1>1. /\ UNCHANGED <<sock, conn, loop, srv, asked, answered>>
        /\ svc[s].running = None /\ svc[s].queue # << >>
    BY DEF TakeJob, history
  <1>2. svc \in [Service -> Worker] /\ svc[s].queue \in Seq(Clients)
    BY DEF ServerInv, Typed, Worker
  <1>3. Head(svc[s].queue) \in Clients /\ Tail(svc[s].queue) \in Seq(Clients)
    BY <1>1, <1>2
  <1>4. /\ svc' \in [Service -> Worker]
        /\ svc'[s].running = Head(svc[s].queue)
        /\ svc'[s].queue = Tail(svc[s].queue)
        /\ svc'[s].stopping = svc[s].stopping
        /\ \A t \in Service \ {s} : svc'[t] = svc[t]
    BY <1>2, <1>3 DEF TakeJob, Worker
  <1>5. \A d \in Clients : Live(d)' <=> Live(d)
    BY <1>1 DEF Live
  <1>6. Scheduled'
    BY <1>1, <1>4, <1>5, Takes DEF ServerInv
  <1>7. Typed'
    BY <1>1, <1>4 DEF ServerInv, Typed
  <1>8. Dialogue'
    BY <1>1, DialogueKept DEF ServerInv
  <1>9. /\ \A t \in Service : svc'[t].stopping => svc[t].stopping /\ svc'[t].queue = << >>
        /\ \A d \in Clients : /\ sock'[d].state = "none" => sock[d].state = "none"
                              /\ conn[d].at = "none" => conn'[d].at = "none"
                              /\ ~Live(d) => conn'[d].tx = conn[d].tx
    BY <1>1, <1>4 DEF ServerInv, Ordered
  <1>10. Ordered'
    BY <1>1, <1>5, <1>9, OrderKept DEF ServerInv
  <1> QED BY <1>6, <1>7, <1>8, <1>10 DEF ServerInv

LEMMA OutcomeType ==
  ASSUME ServerInv, NEW c \in Clients, NEW o \in Outcomes(c)
  PROVE  o.ok \in BOOLEAN /\ o.tx \in BOOLEAN
  <1>1. conn[c].tx \in BOOLEAN
    BY RunningTurn DEF Coroutine
  <1> DEFINE same(k) == [ok |-> k, tx |-> conn[c].tx]
  <1>2. \/ \E k \in BOOLEAN : o = same(k)
        \/ o = [ok |-> TRUE, tx |-> TRUE]
        \/ \E k \in BOOLEAN : o = [ok |-> k, tx |-> FALSE]
    <2>1. CASE conn[c].job = "begin"
      <3>1. o \in IF conn[c].tx THEN {same(FALSE)}
                 ELSE {same(FALSE), [ok |-> TRUE, tx |-> TRUE]}
        BY <2>1 DEF Outcomes
      <3> QED BY <3>1
    <2>2. CASE conn[c].job = "end"
      <3>1. o \in IF conn[c].tx THEN {same(FALSE)} \cup
                                    {[ok |-> k, tx |-> FALSE] : k \in BOOLEAN}
                 ELSE {same(FALSE)}
        BY <2>2 DEF Outcomes
      <3> QED BY <3>1
    <2>3. CASE conn[c].job \notin {"begin", "end"}
      <3>1. o \in {same(FALSE), same(TRUE)}
        BY <2>3 DEF Outcomes
      <3> QED BY <3>1
    <2> QED BY <2>1, <2>2, <2>3
  <1>3. \A k \in BOOLEAN : same(k).ok = k /\ same(k).tx = conn[c].tx
    OBVIOUS
  <1> HIDE DEF same
  <1>4. CASE \E k \in BOOLEAN : o = same(k)
    BY <1>1, <1>3, <1>4
  <1>5. CASE o = [ok |-> TRUE, tx |-> TRUE]
    BY <1>5
  <1>6. CASE \E k \in BOOLEAN : o = [ok |-> k, tx |-> FALSE]
    BY <1>6
  <1> QED BY <1>2, <1>4, <1>5, <1>6

LEMMA FinishJobInv ==
  ASSUME ServerInv, NEW s \in Service, FinishJob(s)
  PROVE  ServerInv'
  <1>1. svc \in [Service -> Worker] /\ loop \in EventLoop
        /\ conn \in [Clients -> Coroutine]
    BY DEF ServerInv, Typed
  <1>2. PICK c \in Clients : c = svc[s].running
    BY <1>1 DEF FinishJob, Worker
  <1>3. Live(c)
    BY <1>2 DEF ServerInv, Scheduled, OneKind, Working
  <1>4. /\ svc' \in [Service -> Worker]
        /\ svc'[s].running = None
        /\ \A t \in Service : svc'[t].queue = svc[t].queue
        /\ \A t \in Service : svc'[t].stopping = svc[t].stopping
        /\ \A t \in Service \ {s} : svc'[t].running = svc[t].running
    BY <1>1 DEF FinishJob, Worker
  <1>5. /\ conn' \in [Clients -> Coroutine]
        /\ \A d \in Clients : /\ conn'[d].at = conn[d].at
                              /\ conn'[d].out = conn[d].out
                              /\ d # c => conn'[d].tx = conn[d].tx
    <2>1. CASE conn[c].at = "parsing"
      <3>1. conn' = [conn EXCEPT ![c].ok = Parse(conn[c].job).ok]
        BY <2>1, <1>2 DEF FinishJob
      <3>2. Parse(conn[c].job).ok \in BOOLEAN
        BY DEF Parse
      <3> QED BY <3>1, <3>2, <1>1, ZenonT(40) DEF Coroutine
    <2>2. CASE conn[c].at # "parsing"
      <3>1. PICK o \in Outcomes(c) :
               conn' = [conn EXCEPT ![c].ok = o.ok, ![c].tx = o.tx]
        BY <2>2, <1>2 DEF FinishJob
      <3>2. o.ok \in BOOLEAN /\ o.tx \in BOOLEAN
        BY OutcomeType
      <3> DEFINE n == [conn[c] EXCEPT !.ok = o.ok, !.tx = o.tx]
      <3>3. conn[c] \in Coroutine
        BY <1>1
      <3>4. n \in Coroutine /\ n.at = conn[c].at /\ n.out = conn[c].out
        BY <3>2, <3>3 DEF Coroutine
      <3>5. conn' = [conn EXCEPT ![c] = n]
        BY <3>1
      <3> HIDE DEF n
      <3> QED BY <3>4, <3>5, <1>1
    <2> QED BY <2>1, <2>2
  <1>6. /\ loop' \in EventLoop
        /\ loop'.current = loop.current /\ loop'.watches = loop.watches
        /\ loop'.pending = Append(loop.pending, c)
        /\ loop'.stop = loop.stop /\ loop'.exited = loop.exited
    <2>1. Append(loop.pending, c) \in Seq(Clients)
      BY <1>1 DEF EventLoop
    <2> QED BY <2>1, <1>1, <1>2 DEF FinishJob, Post, EventLoop
  <1>7. UNCHANGED <<sock, srv, asked, answered>>
    BY DEF FinishJob, history
  <1>8. \A d \in Clients : Live(d)' <=> Live(d)
    BY <1>5 DEF Live
  <1>9. Scheduled'
    BY <1>2, <1>3, <1>4, <1>6, <1>8, PostMoves DEF ServerInv
  <1>10. Typed'
    BY <1>4, <1>5, <1>6, <1>7 DEF ServerInv, Typed
  <1>11. Dialogue'
    BY <1>5, <1>7, DialogueKept DEF ServerInv
  <1>12. /\ \A t \in Service : svc'[t].stopping => svc[t].stopping /\ svc'[t].queue = << >>
         /\ \A d \in Clients : /\ sock'[d].state = "none" => sock[d].state = "none"
                               /\ conn[d].at = "none" => conn'[d].at = "none"
                               /\ ~Live(d) => conn'[d].tx = conn[d].tx
    BY <1>3, <1>4, <1>5, <1>7 DEF ServerInv, Ordered
  <1>13. Ordered'
    BY <1>6, <1>7, <1>8, <1>12, OrderKept DEF ServerInv
  <1> QED BY <1>9, <1>10, <1>11, <1>13 DEF ServerInv

LEMMA StopServiceInv ==
  ASSUME ServerInv, NEW s \in Service, StopService(s)
  PROVE  ServerInv'
  <1>1. svc \in [Service -> Worker]
    BY DEF ServerInv, Typed
  <1>2. /\ svc' \in [Service -> Worker]
        /\ \A t \in Service : /\ svc'[t].queue = svc[t].queue
                              /\ svc'[t].running = svc[t].running
                              /\ svc'[t].stopping => svc[t].stopping \/ t = s
        /\ svc[s].queue = << >> /\ loop.exited
    BY <1>1 DEF StopService, Worker
  <1>3. UNCHANGED <<sock, conn, loop, srv, asked, answered>>
    BY DEF StopService, history
  <1>4. \A d \in Clients : Live(d)' <=> Live(d)
    BY <1>3 DEF Live
  <1>5. Scheduled'
    BY <1>2, <1>3, <1>4, Stays DEF ServerInv
  <1>6. Typed'
    BY <1>2, <1>3 DEF ServerInv, Typed
  <1>7. Dialogue'
    BY <1>3, DialogueKept DEF ServerInv
  <1>8. Ordered'
    <2>1. \A t \in Service : svc'[t].stopping => loop'.exited /\ svc'[t].queue = << >>
      BY <1>2, <1>3 DEF ServerInv, Ordered
    <2>2. Lives' = Lives
      BY <1>4 DEF Lives
    <2> QED BY <2>1, <2>2, <1>3, <1>4 DEF ServerInv, Ordered
  <1> QED BY <1>5, <1>6, <1>7, <1>8 DEF ServerInv

-----------------------------------------------------------------------------
(* A step that moves no continuation, changes no coroutine's place and no   *)
(* part of the shutdown.                                                    *)
LEMMA Quiet ==
  ASSUME ServerInv, svc' = svc, asked' = asked, answered' = answered,
         sock' \in [Clients -> Socket], conn' \in [Clients -> Coroutine],
         loop' \in EventLoop, srv' \in TcpServer,
         \A c \in Clients : /\ sock'[c].state = "none" => sock[c].state = "none"
                            /\ conn'[c].at = conn[c].at
                            /\ conn'[c].out = conn[c].out
                            /\ conn'[c].tx = conn[c].tx,
         loop'.current = loop.current, loop'.watches = loop.watches,
         loop'.pending = loop.pending,
         loop'.stop = loop.stop, loop'.exited = loop.exited,
         srv'.connections = srv.connections, srv'.stopping = srv.stopping,
         srv'.listening = srv.listening, srv'.forced = srv.forced
  PROVE  ServerInv'
  <1>1. \A c \in Clients : Live(c)' <=> Live(c)
    BY DEF Live
  <1>2. Scheduled'
    BY <1>1, Stays DEF ServerInv
  <1>3. Dialogue'
    BY DialogueKept DEF ServerInv
  <1>4. /\ \A s \in Service : svc'[s].stopping => svc[s].stopping /\ svc'[s].queue = << >>
        /\ \A d \in Clients : conn[d].at = "none" => conn'[d].at = "none"
    BY DEF ServerInv, Ordered
  <1>5. Ordered'
    BY <1>1, <1>4, OrderKept DEF ServerInv
  <1>6. Typed'
    BY DEF ServerInv, Typed
  <1> QED BY <1>2, <1>3, <1>5, <1>6 DEF ServerInv

LEMMA ClientInv ==
  ASSUME ServerInv, NEW c \in Clients, ClientStep(c) \/ AcceptRefuses(c)
  PROVE  ServerInv'
  <1>1. /\ sock \in [Clients -> Socket] /\ sock[c] \in Socket
        /\ sock[c].wire \in Seq(Frame)
    BY RunningTurn DEF Socket
  <1>2. UNCHANGED <<conn, loop, svc, srv, asked, answered>>
    BY DEF ClientStep, Send, HangUp, AcceptRefuses, history
  <1>3. /\ sock' \in [Clients -> Socket]
        /\ \A d \in Clients : sock'[d].state \in {sock[d].state, "closed"}
    <2>1. ASSUME NEW k \in Kinds[c], Send(c, k) PROVE <1>3
      <3>1. k \in Frame
        BY ServerAssumption DEF Frame
      <3>2. Append(sock[c].wire, k) \in Seq(Frame)
        BY <1>1, <3>1
      <3>3. sock' = [sock EXCEPT ![c].wire = Append(@, k)]
        BY <2>1 DEF Send
      <3> QED BY <3>2, <3>3, <1>1 DEF Socket
    <2>2. CASE HangUp(c)
      <3>1. PICK kept \in {sock[c].wire, << >>} :
               sock' = [sock EXCEPT ![c].gone = TRUE, ![c].wire = kept]
        BY <2>2 DEF HangUp
      <3>2. kept \in Seq(Frame)
        BY <1>1, EmptySeq
      <3> QED BY <3>1, <3>2, <1>1 DEF Socket
    <2>3. CASE AcceptRefuses(c)
      BY <2>3, <1>1 DEF AcceptRefuses, Socket
    <2> QED BY <2>1, <2>2, <2>3 DEF ClientStep
  <1>4. /\ conn' \in [Clients -> Coroutine] /\ loop' \in EventLoop /\ srv' \in TcpServer
    BY <1>2, RunningTurn
  <1>5. \A d \in Clients : sock'[d].state = "none" => sock[d].state = "none"
    BY <1>3
  <1> QED BY <1>2, <1>3, <1>4, <1>5, Quiet

LEMMA IdleInv ==
  ASSUME ServerInv, NEW c \in Clients, Idle(c)
  PROVE  ServerInv'
  <1>1. /\ sock \in [Clients -> Socket] /\ sock[c] \in Socket
        /\ conn \in [Clients -> Coroutine] /\ conn[c] \in Coroutine
        /\ loop \in EventLoop /\ srv \in TcpServer
    BY RunningTurn
  <1>2. PICK t \in loop.timers : IdleTimer(c, t[2])
    BY DEF Idle
  <1>3. UNCHANGED <<svc, srv, asked, answered>>
    BY <1>2 DEF IdleTimer, history
  <1>4. /\ loop' \in EventLoop
        /\ loop'.current = loop.current /\ loop'.watches = loop.watches
        /\ loop'.pending = loop.pending
        /\ loop'.stop = loop.stop /\ loop'.exited = loop.exited
    BY <1>1, <1>2 DEF IdleTimer, EventLoop
  <1>5. CASE UNCHANGED <<conn, sock>>
    BY <1>1, <1>3, <1>4, <1>5, Quiet
  <1>6. CASE /\ conn' = [conn EXCEPT ![c].timed_out = TRUE]
             /\ sock' = [sock EXCEPT ![c].shut = @ \/ sock[c].state = "open"]
    <2>1. /\ conn' \in [Clients -> Coroutine]
          /\ \A d \in Clients : /\ conn'[d].at = conn[d].at
                                /\ conn'[d].out = conn[d].out
                                /\ conn'[d].tx = conn[d].tx
      BY <1>1, <1>6 DEF Coroutine
    <2>2. (sock[c].shut \/ sock[c].state = "open") \in BOOLEAN
      OBVIOUS
    <2>3. /\ sock' \in [Clients -> Socket]
          /\ \A d \in Clients : sock'[d].state = sock[d].state
      BY <1>1, <1>6, <2>2 DEF Socket
    <2> QED BY <1>1, <1>3, <1>4, <2>1, <2>3, Quiet
  <1> QED BY <1>2, <1>5, <1>6 DEF IdleTimer

LEMMA RequestShutdownInv ==
  ASSUME ServerInv, RequestShutdown
  PROVE  ServerInv'
  <1>1. /\ sock \in [Clients -> Socket] /\ conn \in [Clients -> Coroutine]
        /\ loop \in EventLoop /\ srv \in TcpServer
    BY DEF ServerInv, Typed
  <1>2. UNCHANGED <<sock, conn, loop, svc, asked, answered>>
    BY DEF RequestShutdown, history
  <1>3. /\ srv' \in TcpServer
        /\ srv'.connections = srv.connections /\ srv'.stopping = srv.stopping
        /\ srv'.listening = srv.listening /\ srv'.forced = srv.forced
    BY <1>1 DEF RequestShutdown, TcpServer
  <1> QED BY <1>1, <1>2, <1>3, Quiet

LEMMA AttachInv ==
  ASSUME ServerInv, NEW c \in Clients, AttachConnection(c)
  PROVE  ServerInv'
  <1>1. /\ sock \in [Clients -> Socket] /\ sock[c] \in Socket
        /\ conn \in [Clients -> Coroutine] /\ conn[c] \in Coroutine
        /\ loop \in EventLoop /\ srv \in TcpServer
        /\ Turn(conn[c], asked[c], answered[c])
    BY RunningTurn
  <1>2. /\ conn[c].at = "none" /\ ~loop.exited /\ srv.listening
    BY DEF AttachConnection, Polling, ServerInv, Ordered
  <1>3. /\ conn' \in [Clients -> Coroutine]
        /\ conn'[c].at = "start" /\ conn'[c].out = conn[c].out
        /\ \A d \in Clients \ {c} : conn'[d] = conn[d]
    BY <1>1 DEF AttachConnection, Coroutine, Place
  <1>4. /\ sock' \in [Clients -> Socket] /\ sock'[c].state = "open"
        /\ \A d \in Clients \ {c} : sock'[d] = sock[d]
    BY <1>1 DEF AttachConnection, Socket
  <1>5. /\ loop' \in EventLoop
        /\ loop'.current = loop.current /\ loop'.watches = loop.watches
        /\ loop'.pending = Append(loop.pending, c)
        /\ loop'.stop = loop.stop /\ loop'.exited = loop.exited
    <2>1. Append(loop.pending, c) \in Seq(Clients)
      BY <1>1 DEF EventLoop
    <2> QED BY <2>1, <1>1 DEF AttachConnection, Post, EventLoop
  <1>6. /\ srv' \in TcpServer /\ srv'.connections = srv.connections + 1
        /\ srv'.stopping = srv.stopping
        /\ srv'.listening = srv.listening /\ srv'.forced = srv.forced
    <2>1. srv.connections \in Int /\ srv.connections + 1 \in Int
      BY <1>1 DEF TcpServer
    <2>2. srv' = [srv EXCEPT !.connections = srv.connections + 1]
      BY <1>1 DEF AttachConnection, TcpServer
    <2> QED BY <1>1, <2>1, <2>2 DEF TcpServer
  <1>7. UNCHANGED <<svc, asked, answered>>
    BY DEF AttachConnection, history
  <1>8. /\ ~Live(c) /\ Live(c)'
        /\ \A d \in Clients \ {c} : Live(d)' <=> Live(d)
    BY <1>2, <1>3 DEF Live
  <1>9. Typed'
    BY <1>3, <1>4, <1>5, <1>6, <1>7 DEF ServerInv, Typed
  <1>10. Scheduled'
    BY <1>5, <1>7, <1>8, PostMoves DEF ServerInv
  <1>11. Dialogue'
    BY <1>2, <1>3, <1>7 DEF ServerInv, Dialogue, Turn, Owing
  <1>12. Ordered'
    <2>1. Lives' = Lives \cup {c} /\ c \notin Lives
      BY <1>8 DEF Lives
    <2>2. IsFiniteSet(Lives') /\ Cardinality(Lives') = Cardinality(Lives) + 1
      BY <2>1, FS_AddElement DEF ServerInv, Ordered
    <2>3. ~srv.stopping /\ ~loop.stop
      BY <1>2 DEF ServerInv, Ordered
    <2>4. \A d \in Clients : /\ sock'[d].state = "none" => conn'[d].at = "none"
                             /\ ~Live(d)' => ~conn'[d].tx
      BY <1>3, <1>4, <1>8 DEF ServerInv, Ordered
    <2>5. srv'.connections = Cardinality(Lives')
      BY <2>2, <1>2, <1>6 DEF ServerInv, Ordered
    <2>6. \A s \in Service : svc'[s].stopping => loop'.exited /\ svc'[s].queue = << >>
      BY <1>5, <1>7 DEF ServerInv, Ordered
    <2> QED BY <2>2, <2>3, <2>4, <2>5, <2>6, <1>2, <1>5, <1>6 DEF Ordered
  <1> QED BY <1>9, <1>10, <1>11, <1>12 DEF ServerInv

LEMMA ShutdownInv ==
  ASSUME ServerInv, Shutdown
  PROVE  ServerInv'
  <1>1. /\ sock \in [Clients -> Socket] /\ conn \in [Clients -> Coroutine]
        /\ loop \in EventLoop /\ srv \in TcpServer
    BY DEF ServerInv, Typed
  <1>2. /\ UNCHANGED <<svc, asked, answered>>
        /\ loop.current = None /\ ~loop.exited
    BY DEF Shutdown, BeginGracefulShutdown, PollConnections, LoopExits, Polling, history
  <1>3. /\ conn' \in [Clients -> Coroutine]
        /\ \A d \in Clients : /\ conn'[d].at = conn[d].at
                              /\ conn'[d].out = conn[d].out
                              /\ conn'[d].tx = conn[d].tx
    <2>1. CASE BeginGracefulShutdown
      <3>1. conn' = [c \in Clients |-> [conn[c] EXCEPT
                        !.stopping = @ \/ sock[c].state = "open"]]
        BY <2>1 DEF BeginGracefulShutdown
      <3>2. \A c \in Clients : (conn[c].stopping \/ sock[c].state = "open") \in BOOLEAN
        OBVIOUS
      <3> QED BY <3>1, <3>2, <1>1, ZenonT(40) DEF Coroutine
    <2>2. CASE conn' = conn
      BY <2>2, <1>1
    <2> QED BY <2>1, <2>2 DEF Shutdown, PollConnections, LoopExits
  <1>4. /\ sock' \in [Clients -> Socket]
        /\ \A d \in Clients : sock'[d].state = "none" => sock[d].state = "none"
    <2>1. CASE BeginGracefulShutdown
      <3>1. sock' = [c \in Clients |-> [sock[c] EXCEPT
                        !.shut = @ \/ sock[c].state = "open"]]
        BY <2>1 DEF BeginGracefulShutdown
      <3>2. \A c \in Clients : (sock[c].shut \/ sock[c].state = "open") \in BOOLEAN
        OBVIOUS
      <3> QED BY <3>1, <3>2, <1>1 DEF Socket
    <2>2. CASE LoopExits
      <3>1. sock' = [c \in Clients |->
               IF sock[c].state = "open"
               THEN [sock[c] EXCEPT !.state = "closed"] ELSE sock[c]]
        BY <2>2 DEF LoopExits
      <3> QED BY <3>1, <1>1 DEF Socket
    <2>3. CASE PollConnections
      BY <2>3, <1>1 DEF PollConnections
    <2> QED BY <2>1, <2>2, <2>3 DEF Shutdown
  <1>5. /\ loop' \in EventLoop
        /\ loop'.current = loop.current /\ loop'.watches = loop.watches
        /\ loop'.pending = loop.pending
    <2>1. CASE BeginGracefulShutdown
      BY <2>1, <1>1 DEF BeginGracefulShutdown
    <2>2. CASE LoopExits
      BY <2>2, <1>1 DEF LoopExits, EventLoop
    <2>3. CASE PollConnections
      <3>1. PICK b \in BOOLEAN : loop' = [loop EXCEPT !.stop = b]
        <4>1. (srv.waited + 1 >= GracePolls) \in BOOLEAN
          BY <1>1 DEF TcpServer
        <4>2. CASE srv.connections = 0
          BY <2>3, <4>2 DEF PollConnections
        <4>3. CASE srv.connections # 0
          BY <2>3, <4>1, <4>3 DEF PollConnections
        <4> QED BY <4>2, <4>3
      <3> QED BY <3>1, <1>1 DEF EventLoop
    <2> QED BY <2>1, <2>2, <2>3 DEF Shutdown
  <1>6. srv' \in TcpServer
    <2>1. CASE BeginGracefulShutdown
      BY <2>1, <1>1 DEF BeginGracefulShutdown, TcpServer
    <2>2. CASE LoopExits
      <3>1. srv' = [srv EXCEPT !.connections = 0, !.listening = FALSE]
        BY <2>2 DEF LoopExits
      <3>2. 0 \in Int
        OBVIOUS
      <3> QED BY <3>1, <3>2, <1>1, Zenon DEF TcpServer
    <2>3. CASE PollConnections
      <3>1. srv.waited + 1 \in Nat /\ (srv.waited + 1 >= GracePolls) \in BOOLEAN
        BY <1>1 DEF TcpServer
      <3> QED BY <2>3, <3>1, <1>1 DEF PollConnections, TcpServer
    <2> QED BY <2>1, <2>2, <2>3 DEF Shutdown
  <1>7. \A d \in Clients : Live(d)' <=> Live(d)
    BY <1>3 DEF Live
  <1>8. Typed'
    BY <1>2, <1>3, <1>4, <1>5, <1>6 DEF ServerInv, Typed
  <1>9. Scheduled'
    BY <1>2, <1>5, <1>7, Stays DEF ServerInv
  <1>10. Dialogue'
    BY <1>2, <1>3, DialogueKept DEF ServerInv
  <1>11. Ordered'
    <2>1. Lives' = Lives
      BY <1>7 DEF Lives
    <2>2. \A d \in Clients : /\ sock'[d].state = "none" => conn'[d].at = "none"
                             /\ ~Live(d)' => ~conn'[d].tx
      BY <1>3, <1>4, <1>7 DEF ServerInv, Ordered
    <2>3. \A s \in Service : ~svc'[s].stopping
      BY <1>2 DEF ServerInv, Ordered
    <2>4. CASE BeginGracefulShutdown
      <3>1. /\ loop' = loop /\ srv'.stopping /\ ~srv'.listening
            /\ srv'.connections = srv.connections /\ srv'.forced = srv.forced
        BY <2>4, <1>1 DEF BeginGracefulShutdown, TcpServer
      <3> QED BY <3>1, <2>1, <2>2, <2>3 DEF ServerInv, Ordered
    <2>5. CASE LoopExits
      <3>1. /\ loop'.exited /\ loop'.stop /\ loop.stop
            /\ srv'.stopping = srv.stopping /\ ~srv'.listening
            /\ srv'.forced = srv.forced
        BY <2>5, <1>1 DEF LoopExits, EventLoop, TcpServer
      <3> QED BY <3>1, <2>1, <2>2, <2>3, <1>2, <1>5 DEF ServerInv, Ordered
    <2>6. CASE PollConnections
      <3>1. /\ srv.stopping /\ srv'.stopping /\ srv'.listening = srv.listening
            /\ srv'.connections = srv.connections /\ loop'.exited = loop.exited
        BY <2>6, <1>1 DEF PollConnections, TcpServer, EventLoop
      <3>2. loop'.stop /\ ~srv'.forced => srv.connections = 0
        BY <2>6, <1>1 DEF PollConnections, TcpServer, EventLoop
      <3>3. loop'.stop /\ ~srv'.forced => Lives = {}
        <4>1. srv.connections = 0 => Lives = {}
          BY <1>2, FS_EmptySet DEF ServerInv, Ordered
        <4> QED BY <4>1, <3>2
      <3> QED BY <3>1, <3>3, <2>1, <2>2, <2>3, <1>2, <1>5 DEF ServerInv, Ordered
    <2> QED BY <2>4, <2>5, <2>6 DEF Shutdown
  <1> QED BY <1>8, <1>9, <1>10, <1>11 DEF ServerInv

-----------------------------------------------------------------------------
LEMMA InitInv == Init => ServerInv
  <1> SUFFICES ASSUME Init PROVE ServerInv
    OBVIOUS
  <1>1. NewSocket \in Socket
    BY EmptySeq DEF NewSocket, Socket
  <1>2. NewConn \in Coroutine /\ NewConn.at = "none" /\ NewConn.out = None
        /\ NewConn.tx = FALSE
    BY EmptySeq DEF NewConn, Coroutine, Place
  <1>3. \A c \in Clients : /\ conn[c] = NewConn /\ sock[c] = NewSocket
                           /\ asked[c] = 0 /\ answered[c] = 0
                           /\ ~Live(c)
    BY <1>2 DEF Init, Live
  <1>4. loop \in EventLoop
    BY EmptySeq DEF Init, EventLoop
  <1>5. svc \in [Service -> Worker]
    BY EmptySeq DEF Init, Worker
  <1>6. srv \in TcpServer
    <2>1. MaxConnections \subseteq Nat
      BY ServerAssumption
    <2>2. 0 \in Int /\ 0 \in Nat
      OBVIOUS
    <2> QED BY <2>1, <2>2 DEF Init, TcpServer
  <1>7. Typed
    BY <1>1, <1>2, <1>4, <1>5, <1>6 DEF Init, Typed
  <1>8. Scheduled
    <2>1. /\ loop.current = None /\ Len(loop.pending) = 0
          /\ \A c \in Clients : loop.watches[c] = "none"
          /\ \A s \in Service : svc[s].running = None /\ Len(svc[s].queue) = 0
      BY DEF Init
    <2>2. \A c \in Clients : ~Current(c) /\ ~Watched(c) /\ ~Posted(c)
                             /\ ~Working(c) /\ ~Queued(c)
      BY <2>1, OutputNotNone DEF Current, Watched, Posted, Working, Queued
    <2>3. \A c \in Clients : OneKind(c)
      BY <2>2, <1>3 DEF OneKind
    <2>4. PostedOnce /\ WorkedOnce /\ QueuedOnce /\ Bounded
      BY <2>1, QueueLimit DEF PostedOnce, WorkedOnce, QueuedOnce, Bounded
    <2> QED BY <2>3, <2>4 DEF Scheduled
  <1>9. Dialogue
    BY <1>2, <1>3, OutputNotNone DEF Dialogue, Turn, Owing, Output, Holds
  <1>10. Ordered
    <2>1. Lives = {}
      BY <1>3 DEF Lives
    <2>2. IsFiniteSet(Lives) /\ Cardinality(Lives) = 0
      BY <2>1, FS_EmptySet
    <2>3. /\ ~loop.exited /\ ~loop.stop /\ srv.connections = 0 /\ ~srv.stopping
          /\ \A s \in Service : ~svc[s].stopping
      BY DEF Init
    <2> QED BY <2>1, <2>2, <2>3, <1>2, <1>3 DEF Ordered
  <1> QED BY <1>7, <1>8, <1>9, <1>10 DEF ServerInv

LEMMA ContinueInv ==
  ASSUME ServerInv, NEW c \in Clients, Continue(c)
  PROVE  ServerInv'
  BY StartSessionInv, WriteDoneInv, WaitInv, WriteFailsInv, CloseConnectionInv,
     ArmInv, ReadSomeInv, ReadEndsInv, ClientOptionsInv, RequestInv, SubmitInv,
     RefusalInv, StatementRejectedInv
     DEF Continue

LEMMA NextInv == ServerInv /\ [Next]_vars => ServerInv'
  <1> SUFFICES ASSUME ServerInv, [Next]_vars PROVE ServerInv'
    OBVIOUS
  <1>1. CASE UNCHANGED vars
    <2>1. /\ sock \in [Clients -> Socket] /\ conn \in [Clients -> Coroutine]
          /\ loop \in EventLoop /\ srv \in TcpServer
      BY DEF ServerInv, Typed
    <2>2. UNCHANGED <<sock, conn, loop, svc, srv, asked, answered>>
      BY <1>1 DEF vars
    <2> QED BY <2>1, <2>2, Quiet
  <1>2. ASSUME NEW c \in Clients,
               ClientStep(c) \/ Continue(c) \/ FdReady(c) \/ Idle(c) \/ Accept(c)
        PROVE  ServerInv'
    BY <1>2, ClientInv, ContinueInv, ResumeInv, IdleInv, AttachInv DEF Accept
  <1>3. ASSUME NEW s \in Service, ServiceStep(s) PROVE ServerInv'
    BY <1>3, TakeJobInv, FinishJobInv, StopServiceInv DEF ServiceStep
  <1>4. CASE RunPending \/ RequestShutdown \/ Shutdown
    BY <1>4, ResumeInv, RequestShutdownInv, ShutdownInv
  <1> QED BY <1>1, <1>2, <1>3, <1>4 DEF Next, Over

THEOREM ServerInvHolds == Spec => []ServerInv
  BY InitInv, NextInv, PTL DEF Spec

(* While the loop runs, an unfinished connection has exactly one            *)
(* continuation: no wake-up is lost and no coroutine is resumed twice       *)
(* (WaitFd, SubmitToService, Loop::post, ServiceThread).                    *)
THEOREM ContinuationsUnique == Spec => []OneContinuation
  <1>1. ServerInv => OneContinuation
    BY ScheduledOnce DEF ServerInv
  <1> QED BY <1>1, ServerInvHolds, PTL

(* A shutdown that was not forced leaves no coroutine, no transaction and   *)
(* no job behind (begin_graceful_shutdown, ServiceThread::stop).            *)
THEOREM ShutdownIsClean == Spec => []CleanExit
  <1>1. ServerInv => CleanExit
    <2> SUFFICES ASSUME ServerInv, \A s \in Service : svc[s].stopping, ~srv.forced
                 PROVE  /\ \A c \in Clients : ~Live(c) /\ ~conn[c].tx
                        /\ \A s \in Service : svc[s].queue = << >>
      BY DEF CleanExit
    <2>1. 1 \in Service
      BY ServerAssumption DEF Service
    <2>2. loop.stop
      BY <2>1 DEF ServerInv, Ordered
    <2>3. Lives = {}
      BY <2>2 DEF ServerInv, Ordered
    <2>4. \A c \in Clients : ~Live(c) /\ ~conn[c].tx
      BY <2>3 DEF Lives, ServerInv, Ordered
    <2> QED BY <2>4 DEF ServerInv, Ordered
  <1> QED BY <1>1, ServerInvHolds, PTL

-----------------------------------------------------------------------------
(* The refinement.  While the loop runs, the state of a conversation is a   *)
(* function of its coroutine's record.                                      *)
Stage(n) ==
    IF n.at = "closed" THEN "closed"
    ELSE IF n.at \in {"none", "start"} \/ n.out = "hello" THEN "none"
    ELSE "open"

LEMMA StageIs == ~loop.exited => \A c \in Clients : ConversationState(c) = Stage(conn[c])
  BY DEF ConversationState, Stage

(* What makes a step one of Conversation. *)
LEMMA TalkStutters ==
  ASSUME asked' = asked, answered' = answered,
         \A c \in Clients : ConversationState(c)' = ConversationState(c)
  PROVE  UNCHANGED Talk!vars
  BY DEF Talk!vars

LEMMA TalkMoves ==
  ASSUME NEW c \in Clients,
         \A d \in Clients \ {c} : ConversationState(d)' = ConversationState(d),
         \/ /\ ConversationState(c) = "none" /\ ConversationState(c)' = "open"
            /\ asked' = asked /\ answered' = answered
         \/ /\ ConversationState(c) = "open" /\ ConversationState(c)' = "open"
            /\ asked[c] = answered[c]
            /\ asked' = [asked EXCEPT ![c] = @ + 1] /\ answered' = answered
         \/ /\ ConversationState(c) = "open" /\ ConversationState(c)' = "open"
            /\ asked[c] = answered[c] + 1
            /\ asked' = asked /\ answered' = [answered EXCEPT ![c] = @ + 1]
  PROVE  Talk!Next
  <1> DEFINE st == [d \in Clients |-> ConversationState(d)]
  <1>1. \/ Talk!Greet(c)
        \/ Talk!Ask(c)
        \/ Talk!Answer(c)
    <2>1. CASE /\ ConversationState(c) = "none" /\ ConversationState(c)' = "open"
               /\ asked' = asked /\ answered' = answered
      BY <2>1 DEF Talk!Greet
    <2>2. CASE /\ ConversationState(c) = "open" /\ ConversationState(c)' = "open"
               /\ asked[c] = answered[c]
               /\ asked' = [asked EXCEPT ![c] = @ + 1] /\ answered' = answered
      BY <2>2 DEF Talk!Ask
    <2>3. CASE /\ ConversationState(c) = "open" /\ ConversationState(c)' = "open"
               /\ asked[c] = answered[c] + 1
               /\ asked' = asked /\ answered' = [answered EXCEPT ![c] = @ + 1]
      BY <2>3 DEF Talk!Answer
    <2> QED BY <2>1, <2>2, <2>3
  <1> QED BY <1>1 DEF Talk!Next

LEMMA TalkCloses ==
  ASSUME asked' = asked, answered' = answered, NEW cs \in SUBSET Clients,
         \A c \in Clients : ConversationState(c)' =
             IF c \in cs THEN "closed" ELSE ConversationState(c)
  PROVE  Talk!Next
  <1>1. Talk!Close(cs)
    BY DEF Talk!Close
  <1> QED BY <1>1 DEF Talk!Next

(* A step of the loop thread that writes no reply and takes no request, and *)
(* leaves every conversation in its stage.                                  *)
LEMMA StageKept ==
  ASSUME ~loop.exited, ~loop'.exited, asked' = asked, answered' = answered,
         \A c \in Clients : Stage(conn'[c]) = Stage(conn[c])
  PROVE  UNCHANGED Talk!vars
  <1>1. \A c \in Clients : ConversationState(c)' = Stage(conn'[c])
    BY DEF ConversationState, Stage
  <1> QED BY <1>1, StageIs, TalkStutters

LEMMA StageSame ==
  ASSUME NEW c \in Clients, conn'[c].at = conn[c].at, conn'[c].out = conn[c].out
  PROVE  Stage(conn'[c]) = Stage(conn[c])
  BY DEF Stage

(* The steps of the coroutine of c. *)
LEMMA ContinueTalks ==
  ASSUME ServerInv, NEW c \in Clients, Continue(c)
  PROVE  Talk!Next \/ UNCHANGED Talk!vars
  <1>1. /\ conn[c] \in Coroutine /\ conn \in [Clients -> Coroutine]
        /\ Turn(conn[c], asked[c], answered[c])
        /\ asked \in [Clients -> Nat] /\ answered \in [Clients -> Nat]
        /\ loop \in EventLoop
    BY RunningTurn
  <1>2. Current(c)
    BY DEF Continue, StartSession, WriteDone, WriteBlocks, WriteFails,
           CloseConnection, NextRead, ReadSome, ReadWaits, ReadEnds, Leave,
           ClientOptions, PromptReply, QueryFrame, SubmitParse, ParseRejected,
           ParseFailed, SubmitStatement, StatementRejected, ReplyResult,
           Writing, At, Current
  <1>3. ~loop.exited
    BY <1>2, OutputNotNone DEF ServerInv, Ordered, Current
  <1>4. ~loop'.exited
    <2>1. CASE loop' = loop
      BY <2>1, <1>3
    <2>2. CASE \E e \in {"in", "out"} : WaitFd(c, e)
      BY <2>2, <1>1, <1>3 DEF WaitFd, EventLoop
    <2>3. CASE loop' = [loop EXCEPT !.current = None]
      BY <2>3, <1>1, <1>3 DEF EventLoop
    <2>4. CASE loop' = [loop EXCEPT !.timers = @ \cup {<<c, conn[c].generation + 1>>}]
      BY <2>4, <1>1, <1>3 DEF EventLoop
    <2> QED BY <2>1, <2>2, <2>3, <2>4
        DEF Continue, StartSession, WriteDone, WriteBlocks, WriteFails,
            CloseConnection, NextRead, ReadSome, ReadWaits, ReadEnds, Leave,
            ClientOptions, PromptReply, QueryFrame, SubmitParse, ParseRejected,
            ParseFailed, SubmitStatement, StatementRejected, ReplyResult,
            Submit, ArmIdleWatchdog
  <1>5. \A d \in Clients \ {c} : conn'[d] = conn[d]
    BY <1>1
       DEF Continue, StartSession, WriteDone, WriteBlocks, WriteFails,
           CloseConnection, NextRead, ReadSome, ReadWaits, ReadEnds, Leave,
           ClientOptions, PromptReply, QueryFrame, SubmitParse, ParseRejected,
           ParseFailed, SubmitStatement, StatementRejected, ReplyResult,
           Write, Submit, ArmIdleWatchdog
  <1>6. /\ \A d \in Clients : ConversationState(d) = Stage(conn[d])
        /\ \A d \in Clients : ConversationState(d)' = Stage(conn'[d])
        /\ \A d \in Clients \ {c} : ConversationState(d)' = ConversationState(d)
    <2>1. \A d \in Clients : ConversationState(d)' = Stage(conn'[d])
      BY <1>4 DEF ConversationState, Stage
    <2> QED BY <2>1, <1>3, <1>5, StageIs
  <1>7. ASSUME asked' = asked, answered' = answered, Stage(conn'[c]) = Stage(conn[c])
        PROVE  UNCHANGED Talk!vars
    BY <1>3, <1>4, <1>5, <1>7, StageKept
  <1>8. CASE StartSession(c)
    <2>1. conn[c].at = "start" /\ conn'[c].out = "hello" /\ conn'[c].at = "write"
      BY <1>8, <1>1 DEF StartSession, At, Write, Coroutine
    <2> QED BY <2>1, <1>7, <1>8 DEF StartSession, history, Stage
  <1>9. CASE WriteDone(c)
    <2>1. /\ conn[c].at \in {"write", "flush"} /\ conn[c].out # "bye"
          /\ conn'[c].at \in {"write", "frame"} /\ conn'[c].out \in {"bye", None}
          /\ asked' = asked
          /\ answered' = [answered EXCEPT ![c] =
                            IF conn[c].out \in Reply THEN @ + 1 ELSE @]
      BY <1>9, <1>1 DEF WriteDone, Writing, At, Coroutine
    <2>2. Stage(conn'[c]) = "open"
      BY <2>1, OutputNotNone DEF Stage, Output
    <2>3. CASE conn[c].out = "hello"
      <3>1. Stage(conn[c]) = "none" /\ answered' = answered
        BY <2>1, <2>3, <1>1 DEF Stage, Reply
      <3> QED BY <3>1, <2>1, <2>2, <1>6, TalkMoves
    <2>4. CASE conn[c].out \in Reply
      <3>1. Stage(conn[c]) = "open" /\ asked[c] = answered[c] + 1
        BY <2>1, <2>4, <1>1 DEF Stage, Reply, Turn, Owing, Holds
      <3>2. answered' = [answered EXCEPT ![c] = @ + 1]
        BY <2>1, <2>4
      <3> QED BY <3>1, <3>2, <2>1, <2>2, <1>6, TalkMoves
    <2>5. CASE conn[c].out \notin Reply \cup {"hello"}
      <3>1. Stage(conn[c]) = "open" /\ answered' = answered
        BY <2>1, <2>5, <1>1 DEF Stage
      <3> QED BY <3>1, <2>1, <2>2, <1>7
    <2> QED BY <2>3, <2>4, <2>5
  <1>10. CASE WriteFails(c)
    <2>1. /\ conn[c].at \in {"write", "flush"}
          /\ conn'[c].at = "write" /\ conn'[c].out = "bye"
          /\ asked' = asked /\ answered' = answered
      BY <1>10, <1>1 DEF WriteFails, Writing, At, Write, Coroutine, history
    <2>2. Stage(conn'[c]) = "open" /\ Stage(conn[c]) \in {"none", "open"}
      BY <2>1 DEF Stage
    <2> QED BY <2>1, <2>2, <1>6, <1>7, TalkMoves
  <1>11. CASE CloseConnection(c)
    <2>1. /\ conn'[c].at = "closed" /\ asked' = asked /\ answered' = answered
      BY <1>11, <1>1 DEF CloseConnection, Coroutine, history
    <2>2. ConversationState(c)' = "closed"
      BY <2>1, <1>6 DEF Stage
    <2>3. \A d \in Clients : ConversationState(d)' =
             IF d \in {c} THEN "closed" ELSE ConversationState(d)
      BY <2>2, <1>6
    <2> QED BY <2>1, <2>3, TalkCloses
  <1>12. CASE PromptReply(c) \/ QueryFrame(c)
    <2>1. /\ conn[c].at = "frame" /\ conn'[c].at \in {"write", "parse"}
          /\ conn'[c].out \in {"pong", conn[c].out}
          /\ asked' = [asked EXCEPT ![c] = @ + 1] /\ answered' = answered
      BY <1>12, <1>1 DEF PromptReply, QueryFrame, At, Coroutine
    <2>2. conn[c].out = None /\ asked[c] = answered[c]
      BY <2>1, <1>1, OutputNotNone DEF Turn, Owing, Output, Holds
    <2>3. Stage(conn[c]) = "open" /\ Stage(conn'[c]) = "open"
      BY <2>1, <2>2, OutputNotNone DEF Stage, Output
    <2> QED BY <2>1, <2>2, <2>3, <1>6, TalkMoves
  <1>13. CASE \/ WriteBlocks(c) \/ NextRead(c) \/ ReadSome(c) \/ ReadWaits(c)
              \/ ClientOptions(c) \/ SubmitParse(c) \/ SubmitStatement(c)
    <2>1. /\ conn[c].at \notin {"none", "start", "closed"}
          /\ asked' = asked /\ answered' = answered
      BY <1>13
         DEF WriteBlocks, NextRead, ReadSome, ReadWaits, ClientOptions,
             SubmitParse, SubmitStatement, At, history
    <2>2. /\ conn'[c].at \notin {"none", "start", "closed"}
          /\ conn'[c].out = conn[c].out
      <3>1. CASE ReadSome(c)
        <4>1. PICK i : conn' = [conn EXCEPT ![c].at = "frame", ![c].in = i]
          BY <3>1 DEF ReadSome
        <4> QED BY <4>1, <1>1 DEF Coroutine
      <3>2. CASE ReadWaits(c)
        BY <3>2, <2>1 DEF ReadWaits
      <3>3. CASE WriteBlocks(c) \/ SubmitParse(c) \/ SubmitStatement(c)
        BY <3>3, <1>1
           DEF WriteBlocks, SubmitParse, SubmitStatement, Submit, Coroutine
      <3>4. CASE NextRead(c) \/ ClientOptions(c)
        BY <3>4, <2>1, <1>1 DEF NextRead, ArmIdleWatchdog, ClientOptions, Coroutine
      <3> QED BY <1>13, <3>1, <3>2, <3>3, <3>4
    <2> QED BY <2>1, <2>2, <1>7 DEF Stage
  <1>14. CASE \/ ReadEnds(c) \/ Leave(c) \/ ParseRejected(c) \/ ParseFailed(c)
              \/ StatementRejected(c) \/ ReplyResult(c)
    <2>1. /\ conn[c].at \in {"read", "frame", "parse", "parsing", "running"}
          /\ conn'[c].at = "write"
          /\ conn'[c].out # "hello"
          /\ asked' = asked /\ answered' = answered
      BY <1>14, <1>1
         DEF ReadEnds, Leave, ParseRejected, ParseFailed, StatementRejected,
             ReplyResult, Write, At, Coroutine, history
    <2>2. conn[c].out = None
      BY <2>1, <1>1 DEF Turn
    <2> QED BY <2>1, <2>2, <1>7, OutputNotNone DEF Stage, Output
  <1> QED BY <1>8, <1>9, <1>10, <1>11, <1>12, <1>13, <1>14 DEF Continue

(* The other steps. *)
LEMMA ShutdownTalks ==
  ASSUME ServerInv, Shutdown
  PROVE  Talk!Next \/ UNCHANGED Talk!vars
  <1>1. /\ conn \in [Clients -> Coroutine] /\ loop \in EventLoop
        /\ sock \in [Clients -> Socket]
    BY DEF ServerInv, Typed
  <1>2. asked' = asked /\ answered' = answered /\ ~loop.exited
    BY DEF Shutdown, BeginGracefulShutdown, PollConnections, LoopExits, Polling, history
  <1>3. CASE BeginGracefulShutdown \/ PollConnections
    <2>1. ~loop'.exited
      BY <1>1, <1>2, <1>3 DEF BeginGracefulShutdown, PollConnections, EventLoop
    <2>2. \A c \in Clients : conn'[c].at = conn[c].at /\ conn'[c].out = conn[c].out
      <3>1. CASE BeginGracefulShutdown
        <4>1. conn' = [c \in Clients |-> [conn[c] EXCEPT
                          !.stopping = @ \/ sock[c].state = "open"]]
          BY <3>1 DEF BeginGracefulShutdown
        <4> QED BY <4>1, <1>1 DEF Coroutine
      <3>2. CASE PollConnections
        BY <3>2 DEF PollConnections
      <3> QED BY <3>1, <3>2, <1>3
    <2>3. \A c \in Clients : Stage(conn'[c]) = Stage(conn[c])
      BY <2>2, StageSame
    <2> QED BY <2>1, <2>3, <1>2, StageKept
  <1>4. CASE LoopExits
    <2>1. loop'.exited /\ conn' = conn
      BY <1>4, <1>1 DEF LoopExits, EventLoop
    <2> DEFINE cs == {c \in Clients : sock'[c].state = "closed"}
    <2>2. \A c \in Clients : ConversationState(c)' =
             IF c \in cs THEN "closed" ELSE ConversationState(c)
      BY <2>1, <1>2 DEF ConversationState
    <2>3. cs \in SUBSET Clients
      OBVIOUS
    <2> HIDE DEF cs
    <2> QED BY <2>2, <2>3, <1>2, TalkCloses
  <1> QED BY <1>3, <1>4 DEF Shutdown

LEMMA ServiceTalks ==
  ASSUME ServerInv, NEW s \in Service, ServiceStep(s)
  PROVE  UNCHANGED Talk!vars
  <1>1. conn \in [Clients -> Coroutine] /\ loop \in EventLoop
    BY DEF ServerInv, Typed
  <1>2. /\ sock' = sock /\ asked' = asked /\ answered' = answered
        /\ loop'.exited = loop.exited
    BY <1>1 DEF ServiceStep, TakeJob, FinishJob, StopService, Post, EventLoop, history
  <1>3. \A c \in Clients : conn'[c].at = conn[c].at /\ conn'[c].out = conn[c].out
    <2>1. CASE FinishJob(s)
      <3>1. PICK c : \/ \E k : conn' = [conn EXCEPT ![c].ok = k]
                     \/ \E k, t : conn' = [conn EXCEPT ![c].ok = k, ![c].tx = t]
        BY <2>1 DEF FinishJob
      <3>2. CASE \E k : conn' = [conn EXCEPT ![c].ok = k]
        BY <3>2, <1>1 DEF Coroutine
      <3>3. CASE \E k, t : conn' = [conn EXCEPT ![c].ok = k, ![c].tx = t]
        BY <3>3, <1>1 DEF Coroutine
      <3> QED BY <3>1, <3>2, <3>3
    <2>2. CASE conn' = conn
      BY <2>2
    <2> QED BY <2>1, <2>2 DEF ServiceStep, TakeJob, StopService
  <1>4. \A c \in Clients : ConversationState(c)' = ConversationState(c)
    BY <1>2, <1>3 DEF ConversationState
  <1> QED BY <1>2, <1>4, TalkStutters

LEMMA OthersTalk ==
  ASSUME ServerInv, NEW c \in Clients,
         ClientStep(c) \/ FdReady(c) \/ Idle(c) \/ Accept(c)
  PROVE  UNCHANGED Talk!vars
  <1>1. /\ conn \in [Clients -> Coroutine] /\ loop \in EventLoop
        /\ conn[c] \in Coroutine /\ Turn(conn[c], asked[c], answered[c])
    BY RunningTurn
  <1>2. asked' = asked /\ answered' = answered /\ ~loop.exited
    BY DEF ClientStep, Send, HangUp, FdReady, Idle, IdleTimer, Accept,
           AcceptRefuses, AttachConnection, Outside, Polling, history
  <1>3. ~loop'.exited
    <2>1. CASE loop' = loop
      BY <2>1, <1>2
    <2>2. CASE FdReady(c)
      BY <2>2, <1>1, <1>2 DEF FdReady, EventLoop
    <2>3. CASE Idle(c)
      <3>1. PICK g : loop' = [loop EXCEPT !.timers = @ \ {<<c, g>>}]
        BY <2>3 DEF Idle, IdleTimer
      <3> QED BY <3>1, <1>1, <1>2 DEF EventLoop
    <2>4. CASE AttachConnection(c)
      BY <2>4, <1>1, <1>2 DEF AttachConnection, Post, EventLoop
    <2> QED BY <2>1, <2>2, <2>3, <2>4
        DEF ClientStep, Send, HangUp, Accept, AcceptRefuses
  <1>4. \A d \in Clients : Stage(conn'[d]) = Stage(conn[d])
    <2>1. CASE AttachConnection(c)
      <3>1. conn[c].at = "none"
        BY <2>1 DEF AttachConnection, ServerInv, Ordered
      <3>2. conn'[c].at = "start" /\ \A d \in Clients \ {c} : conn'[d] = conn[d]
        BY <2>1, <1>1 DEF AttachConnection, Coroutine
      <3> QED BY <3>1, <3>2 DEF Stage
    <2>2. CASE Idle(c)
      <3>1. conn' = conn \/ conn' = [conn EXCEPT ![c].timed_out = TRUE]
        BY <2>2 DEF Idle, IdleTimer
      <3>2. \A d \in Clients : conn'[d].at = conn[d].at /\ conn'[d].out = conn[d].out
        <4>1. CASE conn' = conn
          BY <4>1
        <4>2. CASE conn' = [conn EXCEPT ![c].timed_out = TRUE]
          BY <4>2, <1>1 DEF Coroutine
        <4> QED BY <3>1, <4>1, <4>2
      <3> QED BY <3>2, StageSame
    <2>3. CASE conn' = conn
      BY <2>3
    <2> QED BY <2>1, <2>2, <2>3
        DEF ClientStep, Send, HangUp, Accept, AcceptRefuses, FdReady
  <1> QED BY <1>2, <1>3, <1>4, StageKept

LEMMA NextTalks ==
  ServerInv /\ [Next]_vars => Talk!Next \/ UNCHANGED Talk!vars
  <1> SUFFICES ASSUME ServerInv, [Next]_vars
               PROVE  Talk!Next \/ UNCHANGED Talk!vars
    OBVIOUS
  <1>1. ASSUME NEW c \in Clients,
               ClientStep(c) \/ Continue(c) \/ FdReady(c) \/ Idle(c) \/ Accept(c)
        PROVE  Talk!Next \/ UNCHANGED Talk!vars
    BY <1>1, ContinueTalks, OthersTalk
  <1>2. ASSUME NEW s \in Service, ServiceStep(s) PROVE UNCHANGED Talk!vars
    BY <1>2, ServiceTalks
  <1>3. CASE Shutdown
    BY <1>3, ShutdownTalks
  <1>4. CASE RunPending \/ RequestShutdown \/ UNCHANGED vars
    <2>1. /\ sock' = sock /\ conn' = conn /\ asked' = asked /\ answered' = answered
          /\ loop'.exited = loop.exited
      BY <1>4 DEF RunPending, RequestShutdown, vars, history, ServerInv, Typed, EventLoop
    <2>2. \A c \in Clients : ConversationState(c)' = ConversationState(c)
      BY <2>1 DEF ConversationState
    <2> QED BY <2>1, <2>2, TalkStutters
  <1> QED BY <1>1, <1>2, <1>3, <1>4 DEF Next, Over

(* The server implements Conversation, for any number of clients and        *)
(* threads: a greeting first, then requests one at a time and exactly one   *)
(* reply to each, until the connection ends (serve_connection).             *)
THEOREM ServerImplementsConversation == Spec => Implements
  <1>1. Init => Talk!Init
    <2> SUFFICES ASSUME Init PROVE Talk!Init
      OBVIOUS
    <2>1. \A c \in Clients : conn[c].at = "none" /\ ~loop.exited
      BY DEF Init, NewConn
    <2>2. \A c \in Clients : ConversationState(c) = "none"
      BY <2>1 DEF ConversationState
    <2> QED BY <2>2 DEF Talk!Init, Init
  <1>2. ServerInv /\ [Next]_vars => [Talk!Next]_(Talk!vars)
    BY NextTalks
  <1> QED BY <1>1, <1>2, ServerInvHolds, PTL DEF Spec, Implements, Talk!Spec
=============================================================================
