---------------------------- MODULE Conversation ----------------------------
(* What the SQL server promises the client at the other end of a connection *)
(* (README of src/server, comment of serve_connection): a greeting first,   *)
(* then requests are taken up one at a time and each gets exactly one       *)
(* reply, until one side ends the connection; after the end nothing is      *)
(* taken up or answered.  Threads, queues and timers do not show.           *)
EXTENDS Naturals

CONSTANT Clients

VARIABLES
    state,      \* of each connection
    asked,      \* requests taken up
    answered    \* replies written

vars == <<state, asked, answered>>

Init ==
    /\ state = [c \in Clients |-> "none"]
    /\ asked = [c \in Clients |-> 0]
    /\ answered = [c \in Clients |-> 0]

Greet(c) ==
    /\ state[c] = "none"
    /\ state' = [state EXCEPT ![c] = "open"]
    /\ UNCHANGED <<asked, answered>>

Ask(c) ==
    /\ state[c] = "open" /\ asked[c] = answered[c]
    /\ asked' = [asked EXCEPT ![c] = @ + 1]
    /\ UNCHANGED <<state, answered>>

Answer(c) ==
    /\ state[c] = "open" /\ asked[c] = answered[c] + 1
    /\ answered' = [answered EXCEPT ![c] = @ + 1]
    /\ UNCHANGED <<state, asked>>

(* Connections end one by one, or all together when the server stops. *)
Close(cs) ==
    /\ state' = [c \in Clients |-> IF c \in cs THEN "closed" ELSE state[c]]
    /\ UNCHANGED <<asked, answered>>

Next ==
    \/ \E c \in Clients : Greet(c) \/ Ask(c) \/ Answer(c)
    \/ \E cs \in SUBSET Clients : Close(cs)

Spec == Init /\ [][Next]_vars
=============================================================================
