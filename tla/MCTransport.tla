---------------------------- MODULE MCTransport ----------------------------
(* Two peers; each script uses other message types, addresses this server   *)
(* itself, an unknown group or more than the queue holds.                   *)
EXTENDS Transport

Vote == [type |-> "RequestVote", term |-> 2, candidate |-> 1, lastIndex |-> 3,
         lastTerm |-> 1]
Granted == [type |-> "RequestVoteResponse", term |-> 2, granted |-> TRUE]
Append1 == [type |-> "AppendEntries", term |-> 2, leader |-> 1, prevIndex |-> 1,
            prevTerm |-> 1, commit |-> 1, round |-> 4,
            entries |-> <<[index |-> 2, term |-> 1, data |-> <<7>>],
                          [index |-> 3, term |-> 2, data |-> <<>>]>>]
Rejected == [type |-> "AppendEntriesResponse", term |-> 2, success |-> FALSE,
             match |-> 0, round |-> 4, hint |-> 3]
Install == [type |-> "InstallSnapshot", term |-> 2, leader |-> 1, index |-> 5,
            indexTerm |-> 1, offset |-> 3, done |-> TRUE, data |-> <<5, 6>>]
Installed == [type |-> "InstallSnapshotResponse", term |-> 2, success |-> TRUE]

To(p, g, m) == [to |-> p, group |-> g, message |-> m]
MCScripts ==
    {<<To(2, 0, Append1), To(2, 0, Installed)>>,
     <<To(2, 0, Granted), To(3, 0, Vote), To(1, 0, Vote)>>,
     <<To(2, 0, Granted), To(2, 1, Rejected), To(2, 0, Installed)>>,
     <<To(3, 0, Install)>>}
=============================================================================
