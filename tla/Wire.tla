-------------------------------- MODULE Wire --------------------------------
(* The encoding of the Raft messages between two servers, and its framing.  *)
(* Bytes are abstracted to units: a u8 or a u64 is one unit and the u32 of  *)
(* the length prefix two, so that a read can end inside it.                 *)
EXTENDS Integers, SequencesExt

CONSTANT Radix         \* what a unit of the length prefix can count

ASSUME WireAssumption == Radix \in Nat \ {0}

Version == 3                                    \* kMessageVersion
HelloKind == 1                                  \* kHelloKind
MaxFrame == Radix * Radix - 1                   \* kMaxFrameBytes

Types == <<"RequestVote", "RequestVoteResponse", "AppendEntries",
           "AppendEntriesResponse", "InstallSnapshot",
           "InstallSnapshotResponse">>

(* The fields of each type in the order they are written, with their kinds. *)
Word(name) == [name |-> name, kind |-> "word"]
Flag(name) == [name |-> name, kind |-> "flag"]
Layout ==
    [RequestVote |->
       <<Word("term"), Word("candidate"), Word("lastIndex"), Word("lastTerm")>>,
     RequestVoteResponse |-> <<Word("term"), Flag("granted")>>,
     AppendEntries |->
       <<Word("term"), Word("leader"), Word("prevIndex"), Word("prevTerm"),
         Word("commit"), Word("round"), [name |-> "entries", kind |-> "entries"]>>,
     AppendEntriesResponse |->
       <<Word("term"), Flag("success"), Word("match"), Word("round"), Word("hint")>>,
     InstallSnapshot |->
       <<Word("term"), Word("leader"), Word("index"), Word("indexTerm"),
         Word("offset"), Flag("done"), [name |-> "data", kind |-> "bytes"]>>,
     InstallSnapshotResponse |-> <<Word("term"), Flag("success")>>]

-----------------------------------------------------------------------------
(* Encoding. *)
PutBytes(data) == <<Len(data)>> \o data
PutEntryTermFirst(e) == <<e.term, e.index>> \o PutBytes(e.data)    \* mutant
PutEntry(e) == <<e.index, e.term>> \o PutBytes(e.data)
PutField(kind, v) ==
    CASE kind = "word" -> <<v>>
      [] kind = "flag" -> <<IF v THEN 1 ELSE 0>>
      [] kind = "bytes" -> PutBytes(v)
      [] kind = "entries" ->
           <<Len(v)>> \o FlattenSeq([i \in DOMAIN v |-> PutEntry(v[i])])

TypeCode(type) == CHOOSE i \in DOMAIN Types : Types[i] = type
EncodeMessage(group, m) ==
    LET fields == Layout[m.type]
    IN  <<Version, group, TypeCode(m.type)>>
          \o FlattenSeq([i \in DOMAIN fields |->
                           PutField(fields[i].kind, m[fields[i].name])])

EncodeHello(node) == <<HelloKind, node>>
FramePayload(payload) ==
    <<Len(payload) \div Radix, Len(payload) % Radix>> \o payload
EncodeFrame(group, m) == FramePayload(EncodeMessage(group, m))

-----------------------------------------------------------------------------
(* Op of a value that is computed once. *)
Once(Op(_), x) == CHOOSE y \in {Op(v) : v \in {x}} : TRUE

(* Decoding: a reader has the units left, the values read and whether all   *)
(* of them could be read.                                                   *)
Reader(units) ==
    [rest |-> units, ok |-> TRUE, got |-> <<>>, size |-> Len(units)]
Failed(r) == [r EXCEPT !.ok = FALSE]
Take(r, n, v) == [r EXCEPT !.rest = SubSeq(@, n + 1, Len(@)),
                           !.got = Append(@, v)]

ReadWord(r) ==
    IF ~r.ok \/ r.rest = <<>> THEN Failed(r) ELSE Take(r, 1, Head(r.rest))
ReadFlag(r) ==
    IF ~r.ok \/ r.rest = <<>> \/ Head(r.rest) > 1 THEN Failed(r)
    ELSE Take(r, 1, Head(r.rest) = 1)
ReadBytes(r) ==
    IF ~r.ok \/ r.rest = <<>> \/ Head(r.rest) > Len(r.rest) - 1 THEN Failed(r)
    ELSE Take(r, 1 + Head(r.rest), SubSeq(r.rest, 2, 1 + Head(r.rest)))

(* An entry, from its three values at the end of what has been read. *)
ReadEntry(r) ==
    LET e == Once(ReadBytes, Once(ReadWord, Once(ReadWord, r)))
        pack(s) == IF ~s.ok THEN s
                   ELSE LET n == Len(s.got)
                        IN  [s EXCEPT !.got = Append(SubSeq(@, 1, n - 3),
                               [index |-> @[n - 2], term |-> @[n - 1], data |-> @[n]])]
    IN  Once(pack, e)

(* The entries become one value, a sequence of records. *)
ReadEntries(r) ==
    IF ~r.ok \/ r.rest = <<>> \/ Head(r.rest) > r.size THEN Failed(r)
    ELSE LET entry(e, i) == Once(ReadEntry, e)
             before == Len(r.got)
             pack(s) == [s EXCEPT !.got = Append(SubSeq(@, 1, before),
                                                 SubSeq(@, before + 1, Len(@)))]
         IN  Once(pack, FoldLeft(entry, [r EXCEPT !.rest = Tail(@)],
                                 [i \in 1 .. Head(r.rest) |-> i]))

ReadField(r, field) ==
    CASE field.kind = "word" -> Once(ReadWord, r)
      [] field.kind = "flag" -> Once(ReadFlag, r)
      [] field.kind = "bytes" -> Once(ReadBytes, r)
      [] field.kind = "entries" -> Once(ReadEntries, r)

(* A message and its group, unless the version, the type, a field or the    *)
(* length is wrong.                                                         *)
Malformed == [group |-> -1, message |-> <<>>]
Fields(type) == {Layout[type][i].name : i \in DOMAIN Layout[type]}
Place(type, name) == CHOOSE i \in DOMAIN Layout[type] : Layout[type][i].name = name

DecodeBody(head) ==
    LET type == Types[head.got[3]]
        finish(r) ==
          IF ~r.ok \/ r.rest # <<>> THEN Malformed
          ELSE [group |-> head.got[2],
                message |-> [name \in Fields(type) \cup {"type"} |->
                               IF name = "type" THEN type
                               ELSE r.got[3 + Place(type, name)]]]
    IN  IF ~head.ok \/ head.got[1] # Version \/ head.got[3] \notin DOMAIN Types
        THEN Malformed
        ELSE Once(finish, FoldLeft(ReadField, head, Layout[type]))
DecodeMessage(payload) ==
    Once(DecodeBody, Once(ReadWord, Once(ReadWord, Once(ReadWord, Reader(payload)))))

NoNode == 0
DecodeHello(payload) ==
    IF Len(payload) = 2 /\ payload[1] = HelloKind THEN payload[2] ELSE NoNode

(* FrameDecoder::next() over what has been received and not consumed. *)
FrameSize(buffer) == buffer[1] * Radix + buffer[2]
NextFrame(buffer) ==
    CASE Len(buffer) < 2 -> "more"
      [] FrameSize(buffer) > MaxFrame -> "error"
      [] Len(buffer) - 2 < FrameSize(buffer) -> "more"
      [] OTHER -> "frame"
FrameOf(buffer) == SubSeq(buffer, 3, 2 + FrameSize(buffer))
AfterFrame(buffer) == SubSeq(buffer, 3 + FrameSize(buffer), Len(buffer))
=============================================================================
