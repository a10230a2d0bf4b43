------------------------------ MODULE MCServer ------------------------------
(* The server model for TLC: one client runs statements and may break off,  *)
(* the other one also sends what the loop thread answers itself.            *)
EXTENDS Server

CONSTANTS a, b
BothClients == {a, b}
MCKinds == [c \in BothClients |-> IF c = a THEN {"begin", "junk"}
                                  ELSE {"begin", "options", "ping", "read"}]
JustReads == [c \in BothClients |-> {"read"}]
=============================================================================
