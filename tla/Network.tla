------------------------------ MODULE Network ------------------------------
(* What Transport promises to RaftNode, and what Raft assumes of it: a      *)
(* message handed to send() may be delivered to the node it is addressed    *)
(* to, any number of times or never, as it was sent, with the group and the *)
(* sender it came with.                                                     *)
VARIABLES
    sent,          \* the messages send() was called with
    delivered      \* the messages the receivers were given, once or more

vars == <<sent, delivered>>

Init == sent = {} /\ delivered = {}

(* send() may refuse the message, and nobody is told. *)
Send == sent \subseteq sent' /\ delivered' = delivered

(* One read may complete several messages. *)
Deliver ==
    /\ sent' = sent
    /\ delivered \subseteq delivered' /\ delivered' \subseteq sent

Next == Send \/ Deliver
Spec == Init /\ [][Next]_vars
=============================================================================
