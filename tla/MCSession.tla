------------------------------ MODULE MCSession ------------------------------
(* Instances of Session for TLC: two rows, values that are also counts. *)
EXTENDS Session, TLC

SessionSymmetry == Permutations(Conn)
AllKeys == Rows \cup {Databases, Tables, Schema, Stats}
NoPrefix == {}
SmallValue == 0 .. 2

NoDatabase == [k \in AllKeys |-> Absent]
(* A database with an empty table, as CREATE DATABASE and CREATE TABLE      *)
(* leave it.                                                                *)
EmptyTable ==
    [k \in AllKeys |->
        IF k \in {Databases, Tables, Schema} THEN 1
        ELSE IF k = Stats THEN 0 ELSE Absent]

On(kind, rows) == [kind |-> kind, rows |-> rows, value |-> 1]
Catalog(kinds) == {On(kind, {}) : kind \in kinds}
EachRow == {{r} : r \in Rows} \cup {Rows}

DmlStatements ==
    {On("insert", rs) : rs \in EachRow}
        \cup {On("update", Rows), On("delete", Rows)} \cup Catalog({"use"})
DdlStatements ==
    Catalog(Kinds \ {"insert", "update", "delete"}) \cup {On("insert", Rows)}

NoPlans == {}
OneRange == {<<Rows>>} \cup {<<{r}>> : r \in Rows}
==============================================================================
