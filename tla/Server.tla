------------------------------- MODULE Server -------------------------------
(* The SQL server: the event loop and service threads (svrkit Loop, Task,   *)
(* ServiceThread), the TCP server above them (TcpServer, TcpConnection) and *)
(* the coroutine that serves a connection (Server::serve_connection).       *)
(*                                                                          *)
(* One loop thread runs every coroutine from one suspension to the next;    *)
(* loop.current is the coroutine it is running.  A suspended coroutine is   *)
(* continued by exactly one of: an action posted to the loop, a watch on    *)
(* its socket, a job at a service thread.  Statements are parsed on one     *)
(* service thread and run on the write thread or a read thread, while the   *)
(* loop goes on.  Clock time is left out: an armed timer may fire at any    *)
(* moment.  The bytes of a frame are abstracted to its kind and to whether  *)
(* only a part of it has arrived.                                           *)
EXTENDS Integers, Sequences, FiniteSets

CONSTANTS
    Clients,         \* the clients, one connection each
    None,
    MaxConnections,  \* server.max_connections, as a set of settings
    QueueMax,        \* execution.write_queue_max and read_queue_max
    ReadThreads,     \* execution.read_threads
    GracePolls,      \* shutdown_grace_ms / step_ms
    IdleTimeouts,    \* {TRUE} when idle_in_transaction_timeout_ms > 0,
                     \*   {FALSE} when idle_timeout_ms > 0, or both
    Kinds,           \* what each client sends
    Unreliable,      \* clients that may hang up or leave the send buffer full
    Window,          \* frames a client sends ahead of the replies
    MaxFrames        \* bound: frames sent in all

Query == {"begin", "end", "read", "write", "junk"}   \* "junk" does not parse
Prompt == {"ping", "meta", "odd"}    \* answered by the loop thread itself
Reply == {"pong", "busy", "error", "ok"}

ParseService == 1
WriteService == 2
Service == 1 .. ReadThreads + 2
ReadService == 3 .. ReadThreads + 2

ASSUME ServerAssumption ==
    /\ MaxConnections \cup {QueueMax, ReadThreads} \subseteq Nat \ {0}
    /\ {GracePolls, Window, MaxFrames} \subseteq Nat
    /\ IdleTimeouts \subseteq BOOLEAN
    /\ Kinds \in [Clients -> SUBSET (Query \cup Prompt
                                        \cup {"options", "bye", "broken"})]
    /\ Unreliable \subseteq Clients
    /\ None \notin Clients \cup Reply \cup {"hello", "timeout", "bye"}

VARIABLES
    sock,     \* the sockets, as the kernel keeps them
    conn,     \* the coroutines with their ConnState and Session
    loop,     \* the event loop
    svc,      \* the service threads
    srv,      \* the TCP server
    sent,     \* frames sent in all
    asked,    \* history: requests taken up, by connection
    answered  \* history: replies written, by connection

vars == <<sock, conn, loop, svc, srv, sent, asked, answered>>
history == <<asked, answered>>

NewSocket ==
    [state |-> "none",
     wire |-> << >>,       \* frames in the receive buffer
     half |-> FALSE,       \* a part of the first one has been read
     shut |-> FALSE,       \* shutdown(SHUT_RD)
     gone |-> FALSE]       \* the client has closed its end
NewConn ==
    [at |-> "none",        \* where the coroutine is
     in |-> << >>,         \* complete frames read and not yet served
     out |-> None,         \* what write_all() is writing
     job |-> None,         \* the statement being parsed or run
     ok |-> FALSE,         \* its outcome
     tx |-> FALSE,         \* session.in_transaction()
     generation |-> 0, timed_out |-> FALSE, stopping |-> FALSE]

Init ==
    /\ sock = [c \in Clients |-> NewSocket]
    /\ conn = [c \in Clients |-> NewConn]
    /\ loop = [current |-> None, pending |-> << >>, timers |-> {},
               watches |-> [c \in Clients |-> "none"],
               stop |-> FALSE, exited |-> FALSE]
    /\ svc = [s \in Service |-> [queue |-> << >>, running |-> None,
                                 stopping |-> FALSE]]
    /\ srv \in [listening : {TRUE}, limit : MaxConnections, connections : {0},
                asked : {FALSE}, stopping : {FALSE}, waited : {0}, next : {0},
                forced : {FALSE}]
    /\ sent = 0
    /\ asked = [c \in Clients |-> 0]
    /\ answered = [c \in Clients |-> 0]

-----------------------------------------------------------------------------
(* The clients.  The loop thread sees them only in accept(), read(),        *)
(* write() and poll(); what they do while a coroutine runs counts as done   *)
(* before it, or after it.                                                  *)
Outside == loop.current = None /\ ~loop.exited

(* Frames a client has sent and not yet seen answered. *)
Ahead(c) == Len(sock[c].wire) + Len(conn[c].in) + asked[c] - answered[c]

Send(c, k) ==
    /\ Outside /\ sock[c].state = "open" /\ ~sock[c].gone
    /\ sent < MaxFrames /\ Ahead(c) < Window
    /\ sock' = [sock EXCEPT ![c].wire = Append(@, k)]
    /\ sent' = sent + 1
    /\ UNCHANGED <<conn, loop, svc, srv, history>>

(* The client closes or dies; what it sent last may be lost. *)
HangUp(c) ==
    /\ Outside /\ c \in Unreliable
    /\ sock[c].state = "open" /\ ~sock[c].gone
    /\ \E kept \in {sock[c].wire, << >>} :
          sock' = [sock EXCEPT ![c].gone = TRUE, ![c].wire = kept]
    /\ UNCHANGED <<conn, loop, svc, srv, sent, history>>

-----------------------------------------------------------------------------
(* The event loop. *)
Post(c) == loop' = [loop EXCEPT !.pending = Append(@, c)]

(* The loop thread is free to pick its next action. *)
Polling == loop.current = None /\ ~loop.exited

RunPending ==
    /\ Polling /\ loop.pending # << >>
    /\ loop' = [loop EXCEPT !.current = Head(loop.pending),
                            !.pending = Tail(@)]
    /\ UNCHANGED <<sock, conn, svc, srv, sent, history>>

Readable(c) == sock[c].wire # << >> \/ sock[c].shut \/ sock[c].gone

(* The watch is taken off before its callback runs. *)
FdReadyWatched(c) ==                                            \* mutant
    /\ Polling
    /\ \/ loop.watches[c] = "in" /\ Readable(c)
       \/ loop.watches[c] = "out"
    /\ loop' = [loop EXCEPT !.current = c]
    /\ UNCHANGED <<sock, conn, svc, srv, sent, history>>

FdReady(c) ==
    /\ Polling
    /\ \/ loop.watches[c] = "in" /\ Readable(c)
       \/ loop.watches[c] = "out"
    /\ loop' = [loop EXCEPT !.current = c, !.watches[c] = "none"]
    /\ UNCHANGED <<sock, conn, svc, srv, sent, history>>

(* WaitFd: the coroutine gives the loop back until its socket is ready. *)
WaitFd(c, events) ==
    loop' = [loop EXCEPT !.current = None, !.watches[c] = events]

-----------------------------------------------------------------------------
(* The service threads. *)
Accepts(s) == ~svc[s].stopping /\ Len(svc[s].queue) < QueueMax

(* The worker takes the oldest job ... *)
TakeJob(s) ==
    /\ svc[s].running = None /\ svc[s].queue # << >>
    /\ svc' = [svc EXCEPT ![s].running = Head(svc[s].queue),
                          ![s].queue = Tail(@)]
    /\ UNCHANGED <<sock, conn, loop, srv, sent, history>>

(* Session::parse(): the statement, and whether it only reads. *)
Parse(job) == [ok |-> job # "junk", readOnly |-> job = "read"]

(* ... and posts the continuation when the work is done.  What a statement  *)
(* does to the session: BEGIN and COMMIT may fail, and the COMMIT of an     *)
(* aborted transaction ends it with an error.                               *)
Outcomes(c) ==
    LET tx == conn[c].tx
        same(ok) == [ok |-> ok, tx |-> tx]
    IN  CASE conn[c].job = "begin" ->
               IF tx THEN {same(FALSE)}
               ELSE {same(FALSE), [ok |-> TRUE, tx |-> TRUE]}
          [] conn[c].job = "end" ->
               IF tx THEN {same(FALSE)} \cup
                          {[ok |-> ok, tx |-> FALSE] : ok \in BOOLEAN}
               ELSE {same(FALSE)}
          [] OTHER -> {same(FALSE), same(TRUE)}

FinishJob(s) ==
    LET c == svc[s].running
    IN  /\ c # None
        /\ svc' = [svc EXCEPT ![s].running = None]
        /\ IF conn[c].at = "parsing"
           THEN conn' = [conn EXCEPT ![c].ok = Parse(conn[c].job).ok]
           ELSE \E o \in Outcomes(c) :
                   conn' = [conn EXCEPT ![c].ok = o.ok, ![c].tx = o.tx]
        /\ Post(c)
        /\ UNCHANGED <<sock, srv, sent, history>>

(* stop() returns when the worker has emptied its queue and is joined; the  *)
(* services are stopped one after the other once the loop has returned.     *)
StopService(s) ==
    /\ loop.exited /\ ~svc[s].stopping
    /\ \A t \in 1 .. s - 1 : svc[t].stopping
    /\ svc[s].queue = << >> /\ svc[s].running = None
    /\ svc' = [svc EXCEPT ![s].stopping = TRUE]
    /\ UNCHANGED <<sock, conn, loop, srv, sent, history>>

-----------------------------------------------------------------------------
(* The TCP server.  A client connects and is accepted, or the limit is      *)
(* reached and its socket closed.                                           *)
AcceptRefuses(c) ==
    /\ Polling /\ srv.listening /\ sock[c].state = "none"
    /\ srv.connections >= srv.limit
    /\ sock' = [sock EXCEPT ![c].state = "closed"]
    /\ UNCHANGED <<conn, loop, svc, srv, sent, history>>

AttachConnection(c) ==
    /\ Polling /\ srv.listening /\ sock[c].state = "none"
    /\ srv.connections < srv.limit
    /\ sock' = [sock EXCEPT ![c].state = "open"]
    /\ srv' = [srv EXCEPT !.connections = @ + 1]
    /\ conn' = [conn EXCEPT ![c].at = "start"]
    /\ Post(c)
    /\ UNCHANGED <<svc, sent, history>>

(* Graceful shutdown: the signal, the pass over the connections, the poll   *)
(* every 20 ms until none is left or the grace period is over.              *)
RequestShutdown ==
    /\ Outside /\ ~srv.asked
    /\ srv' = [srv EXCEPT !.asked = TRUE]
    /\ UNCHANGED <<sock, conn, loop, svc, sent, history>>

BeginGracefulShutdownBlind ==                                   \* mutant
    /\ Polling /\ srv.asked /\ ~srv.stopping
    /\ srv' = [srv EXCEPT !.stopping = TRUE, !.listening = FALSE]
    /\ UNCHANGED <<sock, conn, loop, svc, sent, history>>

BeginGracefulShutdown ==
    /\ Polling /\ srv.asked /\ ~srv.stopping
    /\ srv' = [srv EXCEPT !.stopping = TRUE, !.listening = FALSE]
    /\ sock' = [c \in Clients |-> [sock[c] EXCEPT
           !.shut = @ \/ sock[c].state = "open"]]
    /\ conn' = [c \in Clients |-> [conn[c] EXCEPT
           !.stopping = @ \/ sock[c].state = "open"]]
    /\ UNCHANGED <<loop, svc, sent, history>>

PollConnectionsOnce ==                                          \* mutant
    /\ Polling /\ srv.stopping /\ ~loop.stop
    /\ loop' = [loop EXCEPT !.stop = TRUE]
    /\ UNCHANGED <<sock, conn, svc, srv, sent, history>>

PollConnections ==
    /\ Polling /\ srv.stopping /\ ~loop.stop
    /\ IF srv.connections = 0
       THEN /\ loop' = [loop EXCEPT !.stop = TRUE]
            /\ UNCHANGED srv
       ELSE /\ srv' = [srv EXCEPT !.waited = @ + 1,
                                  !.forced = srv.waited + 1 >= GracePolls]
            /\ loop' = [loop EXCEPT !.stop = srv.waited + 1 >= GracePolls]
    /\ UNCHANGED <<sock, conn, svc, sent, history>>

(* run() returns and closes what is left; its coroutines never continue. *)
LoopExits ==
    /\ Polling /\ loop.stop
    /\ loop' = [loop EXCEPT !.exited = TRUE]
    /\ sock' = [c \in Clients |->
           IF sock[c].state = "open"
           THEN [sock[c] EXCEPT !.state = "closed"] ELSE sock[c]]
    /\ srv' = [srv EXCEPT !.connections = 0, !.listening = FALSE]
    /\ UNCHANGED <<conn, svc, sent, history>>

-----------------------------------------------------------------------------
(* A connection: serve_connection(), from one suspension to the next.       *)
(* Everything below runs on the loop thread.                                *)
At(c, place) == loop.current = c /\ conn[c].at = place
Write(c, what) ==
    conn' = [conn EXCEPT ![c].at = "write", ![c].out = what]

StartSession(c) ==
    /\ At(c, "start")
    /\ Write(c, "hello")
    /\ UNCHANGED <<sock, loop, svc, srv, sent, history>>

Writing(c) == At(c, "write") \/ At(c, "flush")

(* write_all(): all written, or the send buffer is full, or the client is   *)
(* gone.  A frame is finite and a writable socket takes some of it, so one  *)
(* wait stands for all.  After a failed write only BYE is tried; after BYE  *)
(* the handler returns, the session rolls back, the connection is closed.   *)
WriteDone(c) ==
    /\ Writing(c) /\ conn[c].out # "bye"
    /\ conn' = [conn EXCEPT
           ![c].at = IF conn[c].out = "timeout" THEN "write" ELSE "frame",
           ![c].out = IF @ = "timeout" THEN "bye" ELSE None]
    /\ answered' = [answered EXCEPT ![c] =
                       IF conn[c].out \in Reply THEN @ + 1 ELSE @]
    /\ UNCHANGED <<sock, loop, svc, srv, sent, asked>>

WriteBlocks(c) ==
    /\ At(c, "write") /\ c \in Unreliable
    /\ WaitFd(c, "out")
    /\ conn' = [conn EXCEPT ![c].at = "flush"]
    /\ UNCHANGED <<sock, svc, srv, sent, history>>

WriteFails(c) ==
    /\ Writing(c) /\ sock[c].gone /\ conn[c].out # "bye"
    /\ Write(c, "bye")
    /\ UNCHANGED <<sock, loop, svc, srv, sent, history>>

CloseConnection(c) ==
    /\ Writing(c) /\ conn[c].out = "bye"
    /\ conn' = [conn EXCEPT ![c].at = "closed", ![c].out = None,
                            ![c].tx = FALSE]
    /\ sock' = [sock EXCEPT ![c].state = "closed"]
    /\ srv' = [srv EXCEPT !.connections = @ - 1]
    /\ loop' = [loop EXCEPT !.current = None]
    /\ UNCHANGED <<svc, sent, history>>

(* arm_idle_watchdog() *)
ArmIdleWatchdog(c) ==
    IF conn[c].tx \notin IdleTimeouts
    THEN conn' = [conn EXCEPT ![c].at = "read"] /\ UNCHANGED loop
    ELSE /\ conn' = [conn EXCEPT ![c].at = "read",
                                 ![c].generation = @ + 1]
         /\ loop' = [loop EXCEPT
                !.timers = @ \cup {<<c, conn[c].generation + 1>>}]

IdleTimerKeepsReading(c, g) ==                                  \* mutant
    /\ Polling /\ <<c, g>> \in loop.timers
    /\ loop' = [loop EXCEPT !.timers = @ \ {<<c, g>>}]
    /\ conn' = [conn EXCEPT ![c].timed_out =
                    @ \/ (conn[c].generation = g /\ ~conn[c].stopping)]
    /\ UNCHANGED <<sock, svc, srv, sent, history>>

IdleTimer(c, g) ==
    /\ Polling /\ <<c, g>> \in loop.timers
    /\ loop' = [loop EXCEPT !.timers = @ \ {<<c, g>>}]
    /\ IF conn[c].generation # g \/ conn[c].stopping
       THEN UNCHANGED <<conn, sock>>
       ELSE /\ conn' = [conn EXCEPT ![c].timed_out = TRUE]
            /\ sock' = [sock EXCEPT ![c].shut = @ \/ sock[c].state = "open"]
    /\ UNCHANGED <<svc, srv, sent, history>>

(* No complete frame is left: arm the watchdog and read. *)
NextRead(c) ==
    /\ At(c, "frame") /\ ~loop.stop /\ conn[c].in = << >>
    /\ ArmIdleWatchdog(c)
    /\ UNCHANGED <<sock, svc, srv, sent, history>>

(* read_some(): n frames and perhaps a part of the next have arrived. *)
ReadSome(c) ==
    /\ At(c, "read")
    /\ \E n \in 0 .. Len(sock[c].wire), part \in BOOLEAN :
          /\ part => n < Len(sock[c].wire)
          /\ n > 0 \/ (part /\ ~sock[c].half)
          /\ sock' = [sock EXCEPT ![c].half = part,
                 ![c].wire = SubSeq(@, n + 1, Len(@))]
          /\ conn' = [conn EXCEPT ![c].at = "frame",
                 ![c].in = @ \o SubSeq(sock[c].wire, 1, n)]
    /\ UNCHANGED <<loop, svc, srv, sent, history>>

ReadWaits(c) ==
    /\ At(c, "read") /\ ~Readable(c)
    /\ WaitFd(c, "in")
    /\ UNCHANGED <<sock, conn, svc, srv, sent, history>>

(* End of input: after an idle timeout the transaction is rolled back and   *)
(* an ERROR frame sent before BYE.                                          *)
ReadEnds(c) ==
    /\ At(c, "read") /\ sock[c].wire = << >> /\ Readable(c)
    /\ conn' = [conn EXCEPT ![c].at = "write",
           ![c].out = IF conn[c].timed_out THEN "timeout" ELSE "bye",
           ![c].tx = @ /\ ~conn[c].timed_out]
    /\ UNCHANGED <<sock, loop, svc, srv, sent, history>>

(* A frame: BYE and what cannot be decoded end the connection, CLIENT_      *)
(* OPTIONS gets no reply, PING, META and unexpected frames get one at once. *)
Leave(c) ==
    /\ At(c, "frame")
    /\ \/ loop.stop
       \/ conn[c].in # << >> /\ Head(conn[c].in) \in {"bye", "broken"}
    /\ Write(c, "bye")
    /\ UNCHANGED <<sock, loop, svc, srv, sent, history>>

ClientOptions(c) ==
    /\ At(c, "frame") /\ ~loop.stop
    /\ conn[c].in # << >> /\ Head(conn[c].in) = "options"
    /\ conn' = [conn EXCEPT ![c].in = Tail(@)]
    /\ UNCHANGED <<sock, loop, svc, srv, sent, history>>

PromptReply(c) ==
    /\ At(c, "frame") /\ ~loop.stop
    /\ conn[c].in # << >> /\ Head(conn[c].in) \in Prompt
    /\ conn' = [conn EXCEPT ![c].at = "write", ![c].out = "pong",
                            ![c].in = Tail(@)]
    /\ asked' = [asked EXCEPT ![c] = @ + 1]
    /\ UNCHANGED <<sock, loop, svc, srv, sent, answered>>

(* co_await SubmitToService: queued, and the loop thread is free; or the    *)
(* service refuses and the coroutine goes on at once.                       *)
Submit(c, s, place) ==
    /\ Accepts(s)
    /\ svc' = [svc EXCEPT ![s].queue = Append(@, c)]
    /\ conn' = [conn EXCEPT ![c].at = place]
    /\ loop' = [loop EXCEPT !.current = None]

QueryFrame(c) ==
    /\ At(c, "frame") /\ ~loop.stop
    /\ conn[c].in # << >> /\ Head(conn[c].in) \in Query
    /\ conn' = [conn EXCEPT ![c].at = "parse", ![c].in = Tail(@),
                            ![c].job = Head(conn[c].in)]
    /\ asked' = [asked EXCEPT ![c] = @ + 1]
    /\ UNCHANGED <<sock, loop, svc, srv, sent, answered>>

SubmitParse(c) ==
    /\ At(c, "parse")
    /\ Submit(c, ParseService, "parsing")
    /\ UNCHANGED <<sock, srv, sent, history>>

ParseRejectedSilently(c) ==                                     \* mutant
    /\ At(c, "parse") /\ ~Accepts(ParseService)
    /\ conn' = [conn EXCEPT ![c].at = "frame"]
    /\ UNCHANGED <<sock, loop, svc, srv, sent, history>>

ParseRejected(c) ==
    /\ At(c, "parse") /\ ~Accepts(ParseService)
    /\ Write(c, "busy")
    /\ UNCHANGED <<sock, loop, svc, srv, sent, history>>

(* Back from the parser: an error, or the statement is routed.  Statements  *)
(* of a transaction and writes go to the write thread, other reads to the   *)
(* read threads in turn.                                                    *)
ParseFailed(c) ==
    /\ At(c, "parsing") /\ ~conn[c].ok
    /\ Write(c, "error")
    /\ UNCHANGED <<sock, loop, svc, srv, sent, history>>

Routed(c) ==
    IF conn[c].tx \/ ~Parse(conn[c].job).readOnly THEN WriteService
    ELSE 3 + (srv.next % ReadThreads)

SubmitStatement(c) ==
    /\ At(c, "parsing") /\ conn[c].ok
    /\ Submit(c, Routed(c), "running")
    /\ srv' = [srv EXCEPT !.next =
           IF Routed(c) = WriteService THEN @ ELSE (@ + 1) % ReadThreads]
    /\ UNCHANGED <<sock, sent, history>>

StatementRejectedTwice(c) ==                                    \* mutant
    /\ At(c, "parsing") /\ conn[c].ok /\ ~Accepts(Routed(c))
    /\ conn' = [conn EXCEPT ![c].at = "running"]
    /\ answered' = [answered EXCEPT ![c] = @ + 1]
    /\ UNCHANGED <<sock, loop, svc, srv, sent, asked>>

StatementRejected(c) ==
    /\ At(c, "parsing") /\ conn[c].ok /\ ~Accepts(Routed(c))
    /\ Write(c, "busy")
    /\ srv' = [srv EXCEPT !.next =
           IF Routed(c) = WriteService THEN @ ELSE (@ + 1) % ReadThreads]
    /\ UNCHANGED <<sock, loop, svc, sent, history>>

ReplyResult(c) ==
    /\ At(c, "running")
    /\ Write(c, IF conn[c].ok THEN "ok" ELSE "error")
    /\ UNCHANGED <<sock, loop, svc, srv, sent, history>>

-----------------------------------------------------------------------------
ClientStep(c) ==
    \/ \E k \in Kinds[c] : Send(c, k)
    \/ HangUp(c)

(* The running coroutine goes on. *)
Continue(c) ==
    \/ StartSession(c)
    \/ WriteDone(c)
    \/ WriteBlocks(c)
    \/ WriteFails(c)
    \/ CloseConnection(c)
    \/ NextRead(c)
    \/ ReadSome(c)
    \/ ReadWaits(c)
    \/ ReadEnds(c)
    \/ Leave(c)
    \/ ClientOptions(c)
    \/ PromptReply(c)
    \/ QueryFrame(c)
    \/ SubmitParse(c)
    \/ ParseRejected(c)
    \/ ParseFailed(c)
    \/ SubmitStatement(c)
    \/ StatementRejected(c)
    \/ ReplyResult(c)

Idle(c) == \E t \in loop.timers : t[1] = c /\ IdleTimer(c, t[2])
Accept(c) == AcceptRefuses(c) \/ AttachConnection(c)
ServiceStep(s) == TakeJob(s) \/ FinishJob(s) \/ StopService(s)
Shutdown == BeginGracefulShutdown \/ PollConnections \/ LoopExits

(* The process is over: the loop has returned and every thread is joined. *)
Over ==
    /\ \A s \in Service : svc[s].stopping
    /\ UNCHANGED vars

Next ==
    \/ \E c \in Clients : ClientStep(c) \/ Continue(c) \/ FdReady(c)
                             \/ Idle(c) \/ Accept(c)
    \/ RunPending
    \/ \E s \in Service : ServiceStep(s)
    \/ RequestShutdown
    \/ Shutdown
    \/ Over

Spec == Init /\ [][Next]_vars

(* The loop and the service threads keep running, the loop serves every     *)
(* ready socket and posted action, and a full send buffer empties or its    *)
(* connection breaks.  Clients, signals and idle timeouts need not happen,  *)
(* and the end of the grace period need not come: the timer of the shutdown *)
(* is fair only once no connection is left.                                 *)
FairSpec ==
    /\ Spec
    /\ \A c \in Clients :
          WF_vars(Continue(c)) /\ WF_vars(FdReady(c)) /\ WF_vars(Accept(c))
    /\ WF_vars(RunPending)
    /\ \A s \in Service : WF_vars(ServiceStep(s))
    /\ WF_vars(BeginGracefulShutdown) /\ WF_vars(LoopExits)
    /\ WF_vars(srv.connections = 0 /\ PollConnections)

-----------------------------------------------------------------------------
(* The continuations of a coroutine: running, posted, watched, or a job.    *)
Count(seq, c) == Cardinality({i \in DOMAIN seq : seq[i] = c})
Holds(p) == IF p THEN 1 ELSE 0
Live(c) == conn[c].at \notin {"none", "closed"}
Continuations(c) ==
    Holds(loop.current = c) + Holds(loop.watches[c] # "none")
      + Count(loop.pending, c)
      + Cardinality({s \in Service : svc[s].running = c})
      + Cardinality({q \in Service \X (1 .. QueueMax) :
                        /\ q[2] <= Len(svc[q[1]].queue)
                        /\ svc[q[1]].queue[q[2]] = c})

(* While the loop runs, an unfinished connection has exactly one            *)
(* continuation and a finished one none (WaitFd, SubmitToService with its   *)
(* immediate resumption, Loop::spawn, ServiceThread::submit): no wake-up is *)
(* lost and no coroutine frame is resumed twice or by two threads.          *)
OneContinuation ==
    ~loop.exited => \A c \in Clients : Continuations(c) = Holds(Live(c))

(* A shutdown that ended before its deadline (begin_graceful_shutdown)      *)
(* leaves nothing behind: every coroutine has finished, no session has a    *)
(* transaction, so that main() can close the storage, no job is queued.     *)
CleanExit ==
    (\A s \in Service : svc[s].stopping) /\ ~srv.forced =>
        /\ \A c \in Clients : ~Live(c) /\ ~conn[c].tx
        /\ \A s \in Service : svc[s].queue = << >>

(* The server implements Conversation: whatever the threads, the queues at  *)
(* their limit, the timers and the shutdown do, a client sees a greeting    *)
(* and then one reply per request, in turn, until its connection ends.      *)
ConversationState(c) ==
    IF conn[c].at = "closed" \/ (loop.exited /\ sock[c].state = "closed")
    THEN "closed"
    ELSE IF conn[c].at \in {"none", "start"} \/ conn[c].out = "hello" THEN "none"
    ELSE "open"
Talk == INSTANCE Conversation WITH
            state <- [c \in Clients |-> ConversationState(c)]
Implements == Talk!Spec

(* Every request that was taken up is answered, or its connection ends: a   *)
(* full queue, a service that stops and a failing write are reported or     *)
(* end the connection, they never leave the client waiting.                 *)
RequestsAnswered ==
    \A c \in Clients : asked[c] > answered[c] ~>
        asked[c] = answered[c] \/ sock[c].state = "closed"

(* A connection the idle watchdog has timed out (arm_idle_watchdog) is      *)
(* closed, and with it ends the transaction that pinned a snapshot or the   *)
(* write slot.                                                              *)
TimedOutCloses ==
    \A c \in Clients : conn[c].timed_out ~>
        sock[c].state = "closed" /\ (conn[c].tx => loop.exited)

(* A requested shutdown ends the process, and does so because the           *)
(* connections leave by themselves: SHUT_RD wakes every reader, also the    *)
(* ones accepted last and those whose statement is still being executed.    *)
ShutdownEnds == srv.asked ~> \A s \in Service : svc[s].stopping

(* What the comments of arm_idle_watchdog and ConnState say: once the next  *)
(* statement has been read, the timer of the earlier wait has no effect.    *)
OnlyIdleTimedOut ==
    [][\A c \in Clients :
          conn'[c].timed_out /\ ~conn[c].timed_out =>
              conn[c].at \notin {"parsing", "running", "flush"}]_vars
=============================================================================
