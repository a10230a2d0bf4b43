----------------------------- MODULE MCKVEngine -----------------------------
(* Instances of KVEngine for TLC. *)
EXTENDS KVEngine, TLC

ConnSymmetry == Permutations(Conn)
NoData == [k \in Key |-> Absent]
WholeRange == {Key}
=============================================================================
