------------------------------- MODULE MCRaft -------------------------------
(* Instances of Raft for TLC: symmetry sets and the bounds of each run. *)
EXTENDS Raft, TLC

ServerSymmetry == Permutations(Server)
Symmetry == Permutations(Server) \cup Permutations(Value)

NoBudget == [elections |-> 0, reads |-> 0, crashes |-> 0, faults |-> 0,
             losses |-> 0, resends |-> 0, log |-> 0, rounds |-> 0]

ReplicationBound == [NoBudget EXCEPT !.elections = 2, !.log = 3]
ReadBound == [NoBudget EXCEPT !.elections = 2, !.log = 2, !.reads = 1]
PairBound ==
    [NoBudget EXCEPT !.elections = 2, !.log = 3, !.rounds = 2, !.reads = 1,
                     !.crashes = 1, !.faults = 1, !.losses = 1]
SnapshotBound ==
    [NoBudget EXCEPT !.elections = 2, !.log = 3, !.rounds = 1, !.resends = 1,
                     !.faults = 1]
LivenessBound ==
    [NoBudget EXCEPT !.elections = 1, !.log = 2, !.reads = 1]
RevertBound ==
    [NoBudget EXCEPT !.elections = 1, !.log = 3, !.rounds = 0, !.crashes = 1,
                     !.resends = 1]
SmallBound == [NoBudget EXCEPT !.elections = 2, !.log = 3, !.crashes = 1]

(* A read that starts before anything is acknowledged cannot be stale. *)
ReadsFollowWrites ==
    \A s \in Server : \A b \in node[s].barriers : b.need # {}

(* The second campaign starts once a client's command is in a log; rival    *)
(* candidates before that are left to the theorem.                          *)
CampaignsFollowWrites == used["elections"] < 2 \/ proposed # {}
=============================================================================
