------------------------- MODULE RaftHistoryProofs --------------------------
(***************************************************************************)
(* A raft group has a history: the logs its leaders wrote, what they have  *)
(* committed, and who ever held which entry.  This module says what a      *)
(* lawful history is and what it is for a node to be upright in one, and   *)
(* shows that what a node does to itself - send, apply, commit, compact,   *)
(* campaign, win an election, write to its log, take entries of its leader *)
(* - leaves it upright in a history that goes on lawfully.                 *)
(***************************************************************************)
EXTENDS RaftProofs, WellFoundedInduction

-----------------------------------------------------------------------------
(* A world is a history of the group: logs[t] is the log of the leader of  *)
(* term t with everything it has compacted, chosen is what leaders have    *)
(* committed so far, held has <<s, k, t>> for every entry of index k and   *)
(* term t that was ever in the log of s, and terms[s] is the term of s.    *)

World == [logs : [Nat -> Seq(Entry)], chosen : Seq(Entry),
          held : SUBSET (Server \X Nat \X Nat), terms : [Server -> Nat]]

(* Two logs begin with the same k entries. *)
Agree(p, q, k) == k <= Len(p) /\ k <= Len(q) /\ \A i \in 1 .. k : p[i] = q[i]

(* The log of the leader of T has an entry of term t at j. *)
Has(W, T, j, t) == j \in 1 .. Len(W.logs[T]) /\ W.logs[T][j].term = t
Own(W, j, t) == Has(W, t, j, t)

(* The members that quorum_match_index() counts. *)
Majority(Q) == Cardinality(Q) > (Cardinality(Server) - 1) \div 2
Holders(W, j, t) == {q \in Server : <<q, j, t>> \in W.held}

(* A quorum has gone on to later terms without entry j of term t: nobody   *)
(* can commit it any more, for an entry is taken in its own term only.     *)
Lost(W, j, t) ==
    \E V \in SUBSET Server :
      /\ HasQuorum(Cardinality(V))
      /\ \A v \in V : W.terms[v] > t /\ <<v, j, t>> \notin W.held

(* Leaders of terms up to T have committed the first k entries. *)
ChosenBy(W, k, T) ==
    \/ k = 0
    \/ \E t, j \in Nat :
         /\ t <= T /\ Own(W, j, t) /\ k <= j
         /\ Agree(W.chosen, W.logs[t], k)
         /\ Majority(Holders(W, j, t))

(* The log of a leader ends in its own term, its terms never go down. *)
LogsOrdered(W) ==
    \A T \in Nat :
      /\ W.logs[T] # << >> => W.logs[T][Len(W.logs[T])].term = T
      /\ \A j \in 1 .. Len(W.logs[T]) : \A i \in 1 .. j :
           W.logs[T][i].term <= W.logs[T][j].term
(* An entry of term t has the same entries before it as in the log of t. *)
LogsMatch(W) ==
    \A T \in Nat : \A i \in 1 .. Len(W.logs[T]) :
      Agree(W.logs[T], W.logs[W.logs[T][i].term], i)
(* A later leader has the entry of an earlier one, or it is lost. *)
LogsComplete(W) ==
    \A T, t, j \in Nat :
      W.logs[T] # << >> /\ t < T /\ Own(W, j, t) => Has(W, T, j, t) \/ Lost(W, j, t)
(* What was held is an entry of the leader of that term. *)
HeldIsOwn(W) ==
    \A x \in W.held : Own(W, x[2], x[3]) /\ x[3] <= W.terms[x[1]]
(* A quorum has reached the term of every leader. *)
QuorumReached(W) ==
    \A T \in Nat : W.logs[T] # << >> =>
      \E V \in SUBSET Server :
        HasQuorum(Cardinality(V)) /\ \A v \in V : W.terms[v] >= T
(* What is chosen was committed by a leader. *)
ChosenByLeaders(W) == \E T \in Nat : ChosenBy(W, Len(W.chosen), T)

Lawful(W) ==
    /\ LogsOrdered(W) /\ LogsMatch(W) /\ LogsComplete(W) /\ HeldIsOwn(W)
    /\ QuorumReached(W) /\ ChosenByLeaders(W)

(* A step of server s leads from W to U. *)
Extends(W, U, s) ==
    /\ \A T \in Nat : Agree(W.logs[T], U.logs[T], Len(W.logs[T]))
    /\ Agree(W.chosen, U.chosen, Len(W.chosen))
    /\ W.held \subseteq U.held
    /\ \A x \in U.held \ W.held : x[1] = s /\ x[3] >= W.terms[s]
    /\ U.terms[s] >= W.terms[s]
    /\ \A v \in Server \ {s} : U.terms[v] = W.terms[v]

(* The types of the parts of a history. *)
LEMMA WorldFields ==
    ASSUME NEW W \in World
    PROVE  /\ W.logs \in [Nat -> Seq(Entry)] /\ W.chosen \in Seq(Entry)
           /\ W.held \in SUBSET (Server \X Nat \X Nat)
           /\ W.terms \in [Server -> Nat]
           /\ \A T \in Nat : W.logs[T] \in Seq(Entry) /\ Len(W.logs[T]) \in Nat
           /\ Len(W.chosen) \in Nat
BY DEF World

(* The term of an entry in the history is a natural number. *)
LEMMA WorldTerms ==
    ASSUME NEW W \in World, NEW T \in Nat, NEW i \in 1 .. Len(W.logs[T])
    PROVE  W.logs[T][i] \in Entry /\ W.logs[T][i].term \in Nat
<1>1. W.logs[T] \in Seq(Entry)
  BY WorldFields
<1>2. W.logs[T][i] \in Entry
  BY <1>1
<1> QED
  BY <1>2 DEF Entry

(* Logs that begin alike for j entries do so for fewer. *)
LEMMA AgreeLess ==
    ASSUME NEW p, NEW q, NEW j \in Nat, NEW k \in Nat, k <= j, Agree(p, q, j),
           Len(p) \in Nat, Len(q) \in Nat
    PROVE  Agree(p, q, k) /\ Agree(q, p, k)
BY DEF Agree

(* A log agrees with itself to its end. *)
LEMMA AgreeSame ==
    ASSUME NEW p, Len(p) \in Nat
    PROVE  Agree(p, p, Len(p))
BY DEF Agree

(* Logs that begin like a third one begin alike. *)
LEMMA AgreeTransitive ==
    ASSUME NEW p, NEW q, NEW r, NEW k, Agree(p, q, k), Agree(q, r, k)
    PROVE  Agree(p, r, k)
BY DEF Agree

(* A quorum of voters and a majority of holders share a server: one of     *)
(* floor(n / 2) + 1 and one of floor((n + 1) / 2).                         *)
LEMMA QuorumMeetsMajority ==
    ASSUME NEW A \in SUBSET Server, NEW B \in SUBSET Server,
           HasQuorum(Cardinality(A)), Majority(B)
    PROVE  A \cap B # {}
<1>1. IsFiniteSet(Server) /\ IsFiniteSet(A) /\ IsFiniteSet(B)
  BY ServerAssumption, FS_Subset
<1>2. IsFiniteSet(A \cup B) /\ Cardinality(A \cup B) <= Cardinality(Server)
  BY <1>1, FS_Subset, A \cup B \subseteq Server
<1>3. /\ Cardinality(A) \in Nat /\ Cardinality(B) \in Nat
      /\ Cardinality(Server) \in Nat /\ Cardinality(A \cap B) \in Nat
  BY <1>1, FS_CardinalityType, FS_Intersection
<1>4. Cardinality(A \cup B)
        = Cardinality(A) + Cardinality(B) - Cardinality(A \cap B)
  BY <1>1, FS_Union
<1>5. Cardinality(A \cap B) > 0
  BY <1>2, <1>3, <1>4 DEF HasQuorum, Majority
<1>6. Cardinality({}) = 0
  BY FS_EmptySet
<1> QED
  BY <1>5, <1>6

(* What is committed is not lost. *)
LEMMA HeldNotLost ==
    ASSUME NEW W, NEW j, NEW t, Majority(Holders(W, j, t)), Lost(W, j, t)
    PROVE  FALSE
<1>1. PICK V \in SUBSET Server :
        /\ HasQuorum(Cardinality(V))
        /\ \A v \in V : W.terms[v] > t /\ <<v, j, t>> \notin W.held
  BY DEF Lost
<1>2. V \cap Holders(W, j, t) # {}
  BY <1>1, QuorumMeetsMajority DEF Holders
<1> QED
  BY <1>1, <1>2 DEF Holders

(* Leader completeness: what leaders up to T committed is in the log of T. *)
LEMMA ChosenInLog ==
    ASSUME NEW W \in World, Lawful(W), NEW k \in Nat, NEW T \in Nat,
           ChosenBy(W, k, T), W.logs[T] # << >>
    PROVE  Agree(W.chosen, W.logs[T], k)
<1>1. CASE k = 0
  <2>1. Len(W.chosen) \in Nat /\ Len(W.logs[T]) \in Nat
    BY ONLY W \in World, T \in Nat, WorldFields
  <2>2. 0 <= Len(W.chosen) /\ 0 <= Len(W.logs[T]) /\ 1 .. 0 = {}
    BY ONLY <2>1
  <2> QED
    BY ONLY <1>1, <2>2 DEF Agree
<1>2. CASE k # 0
  <2>1. PICK t \in Nat, j \in Nat :
          /\ t <= T /\ Own(W, j, t) /\ k <= j
          /\ Agree(W.chosen, W.logs[t], k)
          /\ Majority(Holders(W, j, t))
    BY <1>2 DEF ChosenBy
  <2>2. CASE t = T
    BY <2>1, <2>2
  <2>3. CASE t < T
    <3>1. Has(W, T, j, t)
      BY <2>1, <2>3, HeldNotLost DEF Lawful, LogsComplete
    <3>2. Agree(W.logs[T], W.logs[t], j)
      BY <3>1 DEF Lawful, LogsMatch, Has
    <3>3. Agree(W.logs[t], W.logs[T], k)
      <4>1. t \in Nat /\ Len(W.logs[t]) \in Nat /\ Len(W.logs[T]) \in Nat
        BY WorldFields
      <4> QED
        BY <2>1, <3>2, <4>1, AgreeLess
    <3> QED
      BY <2>1, <3>3, AgreeTransitive
  <2> QED
    BY <2>1, <2>2, <2>3
<1> QED
  BY <1>1, <1>2

(* What was chosen up to k by leaders up to T was chosen up to any earlier *)
(* index by leaders up to any later term.                                  *)
LEMMA ChosenByLess ==
    ASSUME NEW W \in World, NEW k \in Nat, NEW l \in Nat, NEW T \in Nat, NEW U \in Nat,
           l <= k, T <= U, ChosenBy(W, k, T)
    PROVE  ChosenBy(W, l, U)
<1>1. CASE l = 0
  BY <1>1 DEF ChosenBy
<1>2. CASE l # 0
  <2>1. PICK t \in Nat, j \in Nat :
          /\ t <= T /\ Own(W, j, t) /\ k <= j
          /\ Agree(W.chosen, W.logs[t], k)
          /\ Majority(Holders(W, j, t))
    BY <1>2 DEF ChosenBy
  <2>2. t \in Nat /\ Len(W.logs[t]) \in Nat /\ Len(W.chosen) \in Nat
    BY WorldFields
  <2>3. Agree(W.chosen, W.logs[t], l) /\ l <= j /\ t <= U
    BY <2>1, <2>2, AgreeLess
  <2> QED
    BY <2>1, <2>3 DEF ChosenBy
<1> QED
  BY <1>1, <1>2

(* What was chosen up to k is in the history up to k. *)
LEMMA ChosenLength ==
    ASSUME NEW W \in World, NEW k \in Nat, NEW T, ChosenBy(W, k, T)
    PROVE  k <= Len(W.chosen)
BY WorldFields DEF ChosenBy, Agree

-----------------------------------------------------------------------------
(* What a step keeps. *)

(* A log of a term keeps its entries when the history goes on, and gains   *)
(* none at an index it had.                                                *)
LEMMA ExtendsOwn ==
    ASSUME NEW W \in World, NEW U \in World, NEW s, Extends(W, U, s),
           NEW T \in Nat, NEW j \in Nat, NEW t \in Nat
    PROVE  /\ Has(W, T, j, t) => Has(U, T, j, t)
           /\ Has(U, T, j, t) /\ j <= Len(W.logs[T]) => Has(W, T, j, t)
<1>1. Agree(W.logs[T], U.logs[T], Len(W.logs[T]))
  BY DEF Extends
<1>2. Len(W.logs[T]) \in Nat /\ Len(U.logs[T]) \in Nat
  BY WorldFields
<1>3. /\ Len(W.logs[T]) <= Len(U.logs[T])
      /\ \A i \in 1 .. Len(W.logs[T]) : W.logs[T][i] = U.logs[T][i]
  BY ONLY <1>1 DEF Agree
<1>4. ASSUME j \in 1 .. Len(W.logs[T])
      PROVE  j \in 1 .. Len(U.logs[T]) /\ W.logs[T][j] = U.logs[T][j]
  BY ONLY <1>2, <1>3, <1>4
<1>5. ASSUME j \in 1 .. Len(U.logs[T]), j <= Len(W.logs[T])
      PROVE  j \in 1 .. Len(W.logs[T])
  BY ONLY <1>2, <1>5
<1> QED
  BY ONLY <1>4, <1>5 DEF Has

(* An entry that can no longer be chosen never will be. *)
LEMMA ExtendsLost ==
    ASSUME NEW W \in World, NEW U \in World, NEW s \in Server, Extends(W, U, s),
           NEW j \in Nat, NEW t \in Nat, Lost(W, j, t)
    PROVE  Lost(U, j, t)
<1>1. PICK V \in SUBSET Server :
        /\ HasQuorum(Cardinality(V))
        /\ \A v \in V : W.terms[v] > t /\ <<v, j, t>> \notin W.held
  BY DEF Lost
<1>2. ASSUME NEW v \in V PROVE U.terms[v] > t /\ <<v, j, t>> \notin U.held
  <2>1. W.terms[v] \in Nat /\ U.terms[v] \in Nat /\ W.terms[v] > t /\ W.terms[s] \in Nat
    BY <1>1, WorldFields
  <2>2. U.terms[v] >= W.terms[v]
    BY <2>1 DEF Extends
  <2>3. ASSUME <<v, j, t>> \in U.held PROVE FALSE
    <3>1. <<v, j, t>>[1] = s /\ <<v, j, t>>[3] >= W.terms[s]
      BY <1>1, <2>3 DEF Extends
    <3> QED
      BY <2>1, <3>1
  <2> QED
    BY <2>1, <2>2, <2>3
<1> QED
  BY <1>1, <1>2 DEF Lost

(* A set that includes a majority is one. *)
LEMMA MajorityGrows ==
    ASSUME NEW A, NEW B \in SUBSET Server, A \subseteq B, Majority(A)
    PROVE  Majority(B)
<1>1. IsFiniteSet(Server) /\ IsFiniteSet(B)
  BY ServerAssumption, FS_Subset
<1>2. IsFiniteSet(A) /\ Cardinality(A) <= Cardinality(B)
  BY <1>1, FS_Subset
<1>3. /\ Cardinality(A) \in Nat /\ Cardinality(B) \in Nat
      /\ Cardinality(Server) \in Nat
  BY <1>1, <1>2, FS_CardinalityType
<1> QED
  BY <1>2, <1>3 DEF Majority

(* What leaders up to T chose stays chosen. *)
LEMMA ExtendsChosenBy ==
    ASSUME NEW W \in World, NEW U \in World, NEW s, Extends(W, U, s),
           NEW k \in Nat, NEW T \in Nat, ChosenBy(W, k, T)
    PROVE  ChosenBy(U, k, T)
<1>1. CASE k = 0
  BY <1>1 DEF ChosenBy
<1>2. CASE k # 0
  <2>1. PICK t \in Nat, j \in Nat :
          /\ t <= T /\ Own(W, j, t) /\ k <= j
          /\ Agree(W.chosen, W.logs[t], k)
          /\ Majority(Holders(W, j, t))
    BY <1>2 DEF ChosenBy
  <2>2. Own(U, j, t)
    BY <2>1, ExtendsOwn DEF Own
  <2>3. Agree(U.chosen, U.logs[t], k)
    <3>1. /\ t \in Nat /\ Len(W.chosen) \in Nat /\ Len(U.chosen) \in Nat
          /\ Len(W.logs[t]) \in Nat /\ Len(U.logs[t]) \in Nat
      BY WorldFields
    <3>2. Agree(W.chosen, U.chosen, Len(W.chosen)) /\ k <= Len(W.chosen)
      BY <2>1 DEF Extends, Agree
    <3>3. Agree(W.logs[t], U.logs[t], Len(W.logs[t])) /\ k <= Len(W.logs[t])
      BY <2>1, <3>1 DEF Extends, Agree
    <3>4. Agree(U.chosen, W.chosen, k) /\ Agree(W.logs[t], U.logs[t], k)
      BY <3>1, <3>2, <3>3, AgreeLess
    <3> QED
      BY <2>1, <3>4, AgreeTransitive
  <2>4. Majority(Holders(U, j, t))
    <3>1. Holders(W, j, t) \subseteq Holders(U, j, t)
      BY DEF Extends, Holders
    <3> QED
      BY <2>1, <3>1, MajorityGrows DEF Holders
  <2> QED
    BY <2>1, <2>2, <2>3, <2>4 DEF ChosenBy
<1> QED
  BY <1>1, <1>2

(* A history that goes on twice goes on. *)
LEMMA ExtendsTransitive ==
    ASSUME NEW W \in World, NEW U \in World, NEW X \in World, NEW s \in Server,
           Extends(W, U, s), Extends(U, X, s)
    PROVE  Extends(W, X, s)
<1>1. /\ W.terms[s] \in Nat /\ U.terms[s] \in Nat /\ X.terms[s] \in Nat
  BY WorldFields
<1>2. ASSUME NEW T \in Nat PROVE Agree(W.logs[T], X.logs[T], Len(W.logs[T]))
  <2>1. /\ Agree(W.logs[T], U.logs[T], Len(W.logs[T]))
        /\ Agree(U.logs[T], X.logs[T], Len(U.logs[T]))
    BY DEF Extends
  <2>2. Len(W.logs[T]) <= Len(U.logs[T])
    BY <2>1 DEF Agree
  <2>3. Len(W.logs[T]) \in Nat /\ Len(U.logs[T]) \in Nat /\ Len(X.logs[T]) \in Nat
    BY WorldFields
  <2>4. Agree(U.logs[T], X.logs[T], Len(W.logs[T]))
    BY <2>1, <2>2, <2>3, AgreeLess
  <2> QED
    BY <2>1, <2>4, AgreeTransitive
<1>3. Agree(W.chosen, X.chosen, Len(W.chosen))
  <2>1. /\ Agree(W.chosen, U.chosen, Len(W.chosen))
        /\ Agree(U.chosen, X.chosen, Len(U.chosen))
    BY DEF Extends
  <2>2. Len(W.chosen) <= Len(U.chosen)
    BY <2>1 DEF Agree
  <2>3. Len(W.chosen) \in Nat /\ Len(U.chosen) \in Nat /\ Len(X.chosen) \in Nat
    BY WorldFields
  <2>4. Agree(U.chosen, X.chosen, Len(W.chosen))
    BY <2>1, <2>2, <2>3, AgreeLess
  <2> QED
    BY <2>1, <2>4, AgreeTransitive
<1>4. ASSUME NEW x \in X.held \ W.held PROVE x[1] = s /\ x[3] >= W.terms[s]
  <2>1. CASE x \in U.held
    BY <1>4, <2>1 DEF Extends
  <2>2. CASE x \notin U.held
    <3>1. x[1] = s /\ x[3] >= U.terms[s]
      BY <2>2 DEF Extends
    <3>2. x[3] \in Nat
      BY WorldFields
    <3> QED
      BY <1>1, <3>1, <3>2 DEF Extends
  <2> QED
    BY <2>1, <2>2
<1> QED
  BY <1>1, <1>2, <1>3, <1>4 DEF Extends

(* A history goes on by staying as it is. *)
LEMMA ExtendsReflexive ==
    ASSUME NEW W \in World, NEW s \in Server
    PROVE  Extends(W, W, s)
BY WorldFields DEF Extends, Agree

-----------------------------------------------------------------------------
(* The four ways in which a history grows. *)

(* No term of a server falls. *)
LEMMA ExtendsTerms ==
    ASSUME NEW W \in World, NEW U \in World, NEW s \in Server, Extends(W, U, s),
           NEW v \in Server
    PROVE  U.terms[v] >= W.terms[v]
<1>1. W.terms[v] \in Nat
  BY WorldFields
<1> QED
  BY <1>1 DEF Extends

(* The logs of the leaders being the same, the law holds on. *)
LEMMA LawfulGrows ==
    ASSUME NEW W \in World, NEW U \in World, NEW s \in Server, Extends(W, U, s),
           Lawful(W), U.logs = W.logs, HeldIsOwn(U), ChosenByLeaders(U)
    PROVE  Lawful(U)
<1>1. LogsOrdered(U) /\ LogsMatch(U)
  BY DEF Lawful, LogsOrdered, LogsMatch
<1>2. LogsComplete(U)
  <2> SUFFICES ASSUME NEW T \in Nat, NEW t \in Nat, NEW j \in Nat,
                      U.logs[T] # << >>, t < T, Own(U, j, t)
               PROVE  Has(U, T, j, t) \/ Lost(U, j, t)
    BY DEF LogsComplete
  <2>1. Own(W, j, t)
    BY DEF Own, Has
  <2>2. Has(W, T, j, t) \/ Lost(W, j, t)
    BY <2>1 DEF Lawful, LogsComplete
  <2> QED
    BY <2>2, ExtendsLost DEF Has
<1>3. QuorumReached(U)
  <2> SUFFICES ASSUME NEW T \in Nat, U.logs[T] # << >>
               PROVE  \E V \in SUBSET Server :
                        HasQuorum(Cardinality(V)) /\ \A v \in V : U.terms[v] >= T
    BY DEF QuorumReached
  <2>1. PICK V \in SUBSET Server :
          HasQuorum(Cardinality(V)) /\ \A v \in V : W.terms[v] >= T
    BY DEF Lawful, QuorumReached
  <2>2. ASSUME NEW v \in V PROVE U.terms[v] >= T
    <3>1. U.terms[v] >= W.terms[v] /\ U.terms[v] \in Nat /\ W.terms[v] \in Nat
      BY ExtendsTerms, WorldFields
    <3> QED
      BY <2>1, <3>1
  <2> QED
    BY <2>1, <2>2
<1> QED
  BY <1>1, <1>2, <1>3 DEF Lawful

(* Server s comes to a later term. *)
LEMMA TermGrows ==
    ASSUME NEW W \in World, Lawful(W), NEW s \in Server, NEW term \in Nat,
           term >= W.terms[s]
    PROVE  \E U \in World :
             /\ Extends(W, U, s) /\ Lawful(U)
             /\ U.logs = W.logs /\ U.chosen = W.chosen /\ U.held = W.held
             /\ U.terms = [W.terms EXCEPT ![s] = term]
<1> DEFINE U == [logs |-> W.logs, chosen |-> W.chosen, held |-> W.held,
                 terms |-> [W.terms EXCEPT ![s] = term]]
<1>1. U \in World
  BY WorldFields DEF World
<1>2. /\ U.logs = W.logs /\ U.chosen = W.chosen /\ U.held = W.held
      /\ U.terms = [W.terms EXCEPT ![s] = term]
  OBVIOUS
<1> HIDE DEF U
<1>3. Extends(W, U, s)
  <2>1. W.terms \in [Server -> Nat] /\ Len(W.chosen) \in Nat
        /\ \A T \in Nat : Len(W.logs[T]) \in Nat
    BY WorldFields
  <2>2. U.terms[s] = term /\ \A v \in Server \ {s} : U.terms[v] = W.terms[v]
    BY <1>2, <2>1
  <2> QED
    BY <1>2, <2>1, <2>2 DEF Extends, Agree
<1>4. HeldIsOwn(U)
  <2> SUFFICES ASSUME NEW x \in U.held
               PROVE  Own(U, x[2], x[3]) /\ x[3] <= U.terms[x[1]]
    BY DEF HeldIsOwn
  <2>1. Own(W, x[2], x[3]) /\ x[3] <= W.terms[x[1]]
    BY <1>2 DEF Lawful, HeldIsOwn
  <2>2. x[1] \in Server /\ x[3] \in Nat
    BY <1>1, WorldFields
  <2>3. /\ U.terms[x[1]] >= W.terms[x[1]]
        /\ U.terms[x[1]] \in Nat /\ W.terms[x[1]] \in Nat
    BY <1>1, <1>3, <2>2, ExtendsTerms, WorldFields
  <2> QED
    BY <1>2, <2>1, <2>2, <2>3 DEF Own, Has
<1>5. ChosenByLeaders(U)
  <2>1. PICK T \in Nat : ChosenBy(W, Len(W.chosen), T)
    BY DEF Lawful, ChosenByLeaders
  <2>2. ChosenBy(U, Len(W.chosen), T)
    BY <1>1, <1>3, <2>1, ExtendsChosenBy, WorldFields
  <2> QED
    BY <1>2, <2>2 DEF ChosenByLeaders
<1> QED
  BY <1>1, <1>2, <1>3, <1>4, <1>5, LawfulGrows

(* Server s takes entries of the leader of its own term. *)
LEMMA HeldGrows ==
    ASSUME NEW W \in World, Lawful(W), NEW s \in Server, NEW J \in SUBSET Nat,
           \A j \in J : Own(W, j, W.terms[s])
    PROVE  \E U \in World :
             /\ Extends(W, U, s) /\ Lawful(U)
             /\ U.logs = W.logs /\ U.chosen = W.chosen /\ U.terms = W.terms
             /\ U.held = W.held \cup {<<s, j, W.terms[s]>> : j \in J}
<1> DEFINE new == {<<s, j, W.terms[s]>> : j \in J}
           U == [logs |-> W.logs, chosen |-> W.chosen,
                 held |-> W.held \cup new, terms |-> W.terms]
<1>0. W.terms[s] \in Nat /\ W.terms \in [Server -> Nat]
  BY WorldFields
<1>1. U \in World
  <2>1. new \in SUBSET (Server \X Nat \X Nat)
    BY <1>0
  <2> QED
    BY <2>1, WorldFields DEF World
<1>2. /\ U.logs = W.logs /\ U.chosen = W.chosen /\ U.terms = W.terms
      /\ U.held = W.held \cup new
  OBVIOUS
<1>3. \A x \in new : x[1] = s /\ x[3] = W.terms[s] /\ x[2] \in J
  OBVIOUS
<1> HIDE DEF U, new
<1>4. Extends(W, U, s)
  <2>1. /\ Len(W.chosen) \in Nat /\ \A T \in Nat : Len(W.logs[T]) \in Nat
    BY WorldFields
  <2>2. \A x \in U.held \ W.held : x[1] = s /\ x[3] >= W.terms[s]
    BY <1>0, <1>2, <1>3
  <2> QED
    BY <1>0, <1>2, <2>1, <2>2 DEF Extends, Agree
<1>5. HeldIsOwn(U)
  <2> SUFFICES ASSUME NEW x \in U.held
               PROVE  Own(U, x[2], x[3]) /\ x[3] <= U.terms[x[1]]
    BY DEF HeldIsOwn
  <2>1. Own(W, x[2], x[3]) /\ x[3] <= W.terms[x[1]]
    BY <1>0, <1>2, <1>3 DEF Lawful, HeldIsOwn
  <2> QED
    BY <1>2, <2>1 DEF Own, Has
<1>6. ChosenByLeaders(U)
  <2>1. PICK T \in Nat : ChosenBy(W, Len(W.chosen), T)
    BY DEF Lawful, ChosenByLeaders
  <2>2. ChosenBy(U, Len(W.chosen), T)
    BY <1>1, <1>4, <2>1, ExtendsChosenBy, WorldFields
  <2> QED
    BY <1>2, <2>2 DEF ChosenByLeaders
<1>7. Lawful(U)
  BY <1>1, <1>2, <1>4, <1>5, <1>6, LawfulGrows
<1> QED
  BY <1>1, <1>2, <1>4, <1>7 DEF new

(* A leader commits an entry of its own term that a majority has taken. *)
LEMMA ChosenGrows ==
    ASSUME NEW W \in World, Lawful(W), NEW s \in Server,
           NEW T \in Nat, NEW k \in Nat,
           Own(W, k, T), Majority(Holders(W, k, T))
    PROVE  \E U \in World :
             /\ Extends(W, U, s) /\ Lawful(U)
             /\ U.logs = W.logs /\ U.held = W.held /\ U.terms = W.terms
             /\ ChosenBy(U, k, T)
<1> DEFINE len == Len(W.chosen)
<1>1. /\ W.chosen \in Seq(Entry) /\ len \in Nat
      /\ W.logs[T] \in Seq(Entry) /\ Len(W.logs[T]) \in Nat
      /\ \A t \in Nat : Len(W.logs[t]) \in Nat
  BY WorldFields
<1>2. k \in 1 .. Len(W.logs[T]) /\ W.logs[T] # << >>
  BY <1>1 DEF Own, Has
<1>3. \A i \in 1 .. k : i <= len => W.chosen[i] = W.logs[T][i]
  <2>1. PICK T0 \in Nat : ChosenBy(W, len, T0)
    BY DEF Lawful, ChosenByLeaders
  <2>2. CASE len = 0
    BY <2>2
  <2>3. CASE len # 0
    <3>1. PICK t \in Nat, j \in Nat :
            /\ t <= T0 /\ Own(W, j, t) /\ len <= j
            /\ Agree(W.chosen, W.logs[t], len)
            /\ Majority(Holders(W, j, t))
      BY <2>1, <2>3 DEF ChosenBy
    <3>2. CASE t <= T
      <4>1. ChosenBy(W, len, T)
        BY <3>1, <3>2 DEF ChosenBy
      <4>2. Agree(W.chosen, W.logs[T], len)
        BY <1>1, <1>2, <4>1, ChosenInLog
      <4> QED
        BY <1>1, <4>2 DEF Agree
    <3>3. CASE t > T
      <4>1. W.logs[t] # << >>
        BY <1>1, <3>1 DEF Own, Has
      <4>2. Has(W, t, k, T)
        BY <3>3, <4>1, HeldNotLost DEF Lawful, LogsComplete
      <4>3. Agree(W.logs[t], W.logs[T], k)
        BY <4>2 DEF Lawful, LogsMatch, Has
      <4> QED
        BY <1>1, <3>1, <4>3 DEF Agree
    <3> QED
      BY <3>2, <3>3
  <2> QED
    BY <2>2, <2>3
<1>4. CASE k <= len
  <2>1. Agree(W.chosen, W.logs[T], k)
    BY <1>1, <1>2, <1>3, <1>4 DEF Agree
  <2>2. ChosenBy(W, k, T)
    BY <2>1 DEF ChosenBy
  <2> QED
    BY <2>2, ExtendsReflexive
<1>5. CASE k > len
  <2> DEFINE chosen == SubSeq(W.logs[T], 1, k)
             U == [logs |-> W.logs, chosen |-> chosen, held |-> W.held,
                   terms |-> W.terms]
  <2>1. /\ chosen \in Seq(Entry) /\ Len(chosen) = k
        /\ \A i \in 1 .. k : chosen[i] = W.logs[T][i]
    BY <1>1, <1>2
  <2> HIDE DEF chosen
  <2>2. U \in World
    BY <2>1, WorldFields DEF World
  <2>3. /\ U.logs = W.logs /\ U.held = W.held /\ U.terms = W.terms
        /\ U.chosen = chosen
    OBVIOUS
  <2> HIDE DEF U
  <2>4. Extends(W, U, s)
    <3>1. Agree(W.chosen, U.chosen, len)
      BY <1>1, <1>3, <1>5, <2>1, <2>3 DEF Agree
    <3>2. W.terms[s] \in Nat
      BY WorldFields
    <3> QED
      BY <1>1, <2>3, <3>1, <3>2 DEF Extends, Agree
  <2>5. ChosenBy(U, k, T)
    <3>1. Agree(U.chosen, U.logs[T], k)
      BY <1>1, <1>2, <2>1, <2>3 DEF Agree
    <3>2. Own(U, k, T) /\ Majority(Holders(U, k, T))
      BY <2>3 DEF Own, Has, Holders
    <3> QED
      BY <3>1, <3>2 DEF ChosenBy
  <2>6. ChosenByLeaders(U)
    BY <2>1, <2>3, <2>5 DEF ChosenByLeaders
  <2>7. HeldIsOwn(U)
    BY <2>3 DEF Lawful, HeldIsOwn, Own, Has
  <2>8. Lawful(U)
    BY <2>2, <2>3, <2>4, <2>6, <2>7, LawfulGrows
  <2> QED
    BY <2>2, <2>3, <2>4, <2>5, <2>8
<1> QED
  BY <1>1, <1>4, <1>5

(* A leader of T may go on from the log p: what the log of its term was,   *)
(* or what a new leader brings with it.                                    *)
Opens(W, T, p) ==
    /\ Agree(W.logs[T], p, Len(W.logs[T]))
    /\ \A j \in 1 .. Len(p) : p[j].term <= T /\ \A i \in 1 .. j :
         p[i].term <= p[j].term
    /\ \A i \in 1 .. Len(p) : Agree(p, W.logs[p[i].term], i)
    /\ \A t, j \in Nat : t < T /\ Own(W, j, t) =>
         (j <= Len(p) /\ p[j].term = t) \/ Lost(W, j, t)
    /\ \A j \in 1 .. Len(p) : p[j].term = T => Own(W, j, T)
    /\ \E V \in SUBSET Server :
         HasQuorum(Cardinality(V)) /\ \A v \in V : W.terms[v] >= T

(* The leader s of term T appends an entry to p. *)
LEMMA LogGrows ==
    ASSUME NEW W \in World, Lawful(W), NEW s \in Server,
           NEW T \in Nat, W.terms[s] = T,
           NEW p \in Seq(Entry), NEW e \in Entry, e.term = T, Opens(W, T, p)
    PROVE  \E U \in World :
             /\ Extends(W, U, s) /\ Lawful(U)
             /\ U.chosen = W.chosen /\ U.terms = W.terms
             /\ U.logs = [W.logs EXCEPT ![T] = Append(p, e)]
             /\ U.held = W.held \cup {<<s, Len(p) + 1, T>>}
<1>p. /\ Agree(W.logs[T], p, Len(W.logs[T]))
      /\ \A j \in 1 .. Len(p) : p[j].term <= T /\ \A i \in 1 .. j :
           p[i].term <= p[j].term
      /\ \A i \in 1 .. Len(p) : Agree(p, W.logs[p[i].term], i)
      /\ \A t, j \in Nat : t < T /\ Own(W, j, t) =>
           (j <= Len(p) /\ p[j].term = t) \/ Lost(W, j, t)
      /\ \E V \in SUBSET Server :
           HasQuorum(Cardinality(V)) /\ \A v \in V : W.terms[v] >= T
  BY DEF Opens
<1> USE <1>p
<1> DEFINE q == Append(p, e)
           k == Len(p) + 1
           U == [logs |-> [W.logs EXCEPT ![T] = q], chosen |-> W.chosen,
                 held |-> W.held \cup {<<s, k, T>>}, terms |-> W.terms]
<1>1. /\ W.logs \in [Nat -> Seq(Entry)] /\ W.terms \in [Server -> Nat]
      /\ W.held \in SUBSET (Server \X Nat \X Nat)
      /\ W.chosen \in Seq(Entry) /\ Len(W.chosen) \in Nat
      /\ \A t \in Nat : Len(W.logs[t]) \in Nat
  BY WorldFields
<1>2. /\ q \in Seq(Entry) /\ Len(q) = k /\ k \in Nat /\ Len(p) \in Nat
      /\ q[k] = e /\ \A i \in 1 .. Len(p) : q[i] = p[i]
  OBVIOUS
<1> HIDE DEF q
<1>3. U \in World
  <2>1. <<s, k, T>> \in Server \X Nat \X Nat
    BY <1>2
  <2>2. [W.logs EXCEPT ![T] = q] \in [Nat -> Seq(Entry)]
    BY <1>1, <1>2
  <2>3. W.held \cup {<<s, k, T>>} \in SUBSET (Server \X Nat \X Nat)
    BY <1>1, <2>1
  <2> QED
    BY <1>1, <2>2, <2>3 DEF World
<1>4. /\ U.chosen = W.chosen /\ U.terms = W.terms
      /\ U.logs = [W.logs EXCEPT ![T] = q]
      /\ U.held = W.held \cup {<<s, k, T>>}
  OBVIOUS
<1> HIDE DEF U
<1>5. U.logs[T] = q /\ \A t \in Nat \ {T} : U.logs[t] = W.logs[t]
  BY <1>1, <1>4
<1>6. Len(W.logs[T]) <= Len(p) /\ \A i \in 1 .. Len(W.logs[T]) : W.logs[T][i] = p[i]
  BY DEF Agree
<1>7. \A x \in U.held \ W.held : x[1] = s /\ x[2] = k /\ x[3] = T
  BY <1>4
<1>8. Extends(W, U, s)
  <2>1. \A t \in Nat : Agree(W.logs[t], U.logs[t], Len(W.logs[t]))
    <3> TAKE t \in Nat
    <3>1. CASE t = T
      <4>0. Len(W.logs[T]) \in Nat
        BY <1>1
      <4>1. Agree(W.logs[T], q, Len(W.logs[T]))
        BY ONLY <1>2, <1>6, <4>0 DEF Agree
      <4> QED
        BY ONLY <1>5, <3>1, <4>1
    <3>2. CASE t # T
      <4>1. U.logs[t] = W.logs[t] /\ Len(W.logs[t]) \in Nat
        BY <1>1, <1>5, <3>2
      <4> QED
        BY ONLY <4>1, AgreeSame
    <3> QED
      BY <3>1, <3>2
  <2>2. Agree(W.chosen, U.chosen, Len(W.chosen))
    BY ONLY <1>1, <1>4, AgreeSame
  <2>3. \A x \in U.held \ W.held : x[1] = s /\ x[3] >= W.terms[s]
    BY ONLY <1>7, W.terms[s] = T, T \in Nat
  <2>4. /\ W.held \subseteq U.held /\ U.terms[s] >= W.terms[s]
        /\ \A v \in Server \ {s} : U.terms[v] = W.terms[v]
    BY ONLY <1>4, W.terms[s] = T, T \in Nat
  <2> QED
    BY ONLY <2>1, <2>2, <2>3, <2>4, Zenon DEF Extends
<1>9. LogsOrdered(U)
  <2> SUFFICES ASSUME NEW t \in Nat
               PROVE  /\ U.logs[t] # << >> => U.logs[t][Len(U.logs[t])].term = t
                      /\ \A j \in 1 .. Len(U.logs[t]) : \A i \in 1 .. j :
                           U.logs[t][i].term <= U.logs[t][j].term
    BY DEF LogsOrdered
  <2>1. CASE t = T
    <3>1. \A j \in 1 .. k : \A i \in 1 .. j : q[i].term <= q[j].term
      BY <1>2
    <3> QED
      BY <1>2, <1>5, <2>1, <3>1
  <2>2. CASE t # T
    BY <1>5, <2>2 DEF Lawful, LogsOrdered
  <2> QED
    BY <2>1, <2>2
<1>10. LogsMatch(U)
  <2> SUFFICES ASSUME NEW t \in Nat, NEW i \in 1 .. Len(U.logs[t])
               PROVE  Agree(U.logs[t], U.logs[U.logs[t][i].term], i)
    BY DEF LogsMatch
  <2> DEFINE u == U.logs[t][i].term
  <2>0. u \in Nat /\ Len(U.logs[t]) \in Nat
    BY <1>3, WorldTerms, WorldFields
  <2>1. CASE t = T /\ i = k
    BY <1>2, <1>5, <2>1 DEF Agree
  <2>2. CASE t = T /\ i # k
    <3>1. i \in 1 .. Len(p) /\ u = p[i].term
      BY <1>2, <1>5, <2>2
    <3>2. Agree(p, W.logs[u], i)
      BY <3>1
    <3>3. CASE u = T
      BY <1>2, <1>5, <2>2, <3>1, <3>3 DEF Agree
    <3>4. CASE u # T
      <4>1. U.logs[u] = W.logs[u]
        BY <1>5, <2>0, <3>4
      <4> HIDE DEF u
      <4>2. Agree(U.logs[t], U.logs[u], i)
        BY <1>2, <1>5, <2>2, <3>1, <3>2, <4>1 DEF Agree
      <4> QED
        BY <4>2 DEF u
    <3> QED
      BY <3>3, <3>4
  <2>3. CASE t # T
    <3>1. U.logs[t] = W.logs[t]
      BY <1>5, <2>3
    <3>2. Agree(W.logs[t], W.logs[u], i)
      BY <3>1 DEF Lawful, LogsMatch
    <3>3. Agree(W.logs[u], U.logs[u], Len(W.logs[u])) /\ Len(W.logs[u]) \in Nat
      BY <1>1, <1>8, <2>0 DEF Extends
    <3> HIDE DEF u
    <3>4. Agree(W.logs[u], U.logs[u], i)
      BY <2>0, <3>2, <3>3 DEF Agree
    <3>5. Agree(U.logs[t], U.logs[u], i)
      BY <3>1, <3>2, <3>4, AgreeTransitive
    <3> QED
      BY <3>5 DEF u
  <2> QED
    BY <2>1, <2>2, <2>3
<1>11. LogsComplete(U)
  <2> SUFFICES ASSUME NEW t2 \in Nat, NEW t \in Nat, NEW j \in Nat,
                      U.logs[t2] # << >>, t < t2, Own(U, j, t)
               PROVE  Has(U, t2, j, t) \/ Lost(U, j, t)
    BY DEF LogsComplete
  <2>1. CASE t2 = T
    <3>1. Own(W, j, t)
      BY <1>5, <2>1 DEF Own, Has
    <3>2. (j <= Len(p) /\ p[j].term = t) \/ Lost(W, j, t)
      BY <2>1, <3>1
    <3>3. ASSUME j <= Len(p), p[j].term = t PROVE Has(U, t2, j, t)
      <4>1. j >= 1
        BY <3>1, <1>1 DEF Own, Has
      <4> QED
        BY <1>2, <1>5, <2>1, <3>3, <4>1 DEF Has
    <3> QED
      BY <1>3, <1>8, <3>2, <3>3, ExtendsLost
  <2>2. CASE t2 # T /\ Own(W, j, t)
    <3>1. U.logs[t2] = W.logs[t2]
      BY <1>5, <2>2
    <3>2. Has(W, t2, j, t) \/ Lost(W, j, t)
      BY <2>2, <3>1 DEF Lawful, LogsComplete
    <3> QED
      BY <1>3, <1>8, <3>1, <3>2, ExtendsLost DEF Has
  <2>3. CASE t2 # T /\ ~Own(W, j, t)
    <3>1. t = T
      BY <1>5, <2>3 DEF Own, Has
    <3>2. U.logs[t2] = W.logs[t2]
      BY <1>5, <2>3
    <3>3. PICK V \in SUBSET Server :
            HasQuorum(Cardinality(V)) /\ \A v \in V : W.terms[v] >= t2
      BY <3>2 DEF Lawful, QuorumReached
    <3>4. ASSUME NEW v \in V PROVE U.terms[v] > t /\ <<v, j, t>> \notin U.held
      <4>1. W.terms[v] \in Nat /\ W.terms[v] >= t2 /\ v \in Server
        BY <1>1, <3>3
      <4>2. v # s
        BY <3>1, <4>1
      <4>3. ASSUME <<v, j, t>> \in W.held PROVE FALSE
        <5>1. Own(W, <<v, j, t>>[2], <<v, j, t>>[3])
          BY <4>3 DEF Lawful, HeldIsOwn
        <5> QED
          BY <2>3, <5>1
      <4>4. <<v, j, t>> # <<s, k, T>>
        BY <4>2
      <4> QED
        BY <1>4, <4>1, <4>3, <4>4
    <3> QED
      BY <3>3, <3>4 DEF Lost
  <2> QED
    BY <2>1, <2>2, <2>3
<1>12. HeldIsOwn(U)
  <2> SUFFICES ASSUME NEW x \in U.held
               PROVE  Own(U, x[2], x[3]) /\ x[3] <= U.terms[x[1]]
    BY DEF HeldIsOwn
  <2>1. CASE x \in W.held
    <3>1. Own(W, x[2], x[3]) /\ x[3] <= W.terms[x[1]]
      BY <2>1 DEF Lawful, HeldIsOwn
    <3>2. x[2] \in Nat /\ x[3] \in Nat
      BY <1>1, <2>1
    <3> QED
      BY <1>3, <1>4, <1>8, <3>1, <3>2, ExtendsOwn DEF Own
  <2>2. CASE x \notin W.held
    <3>1. x[1] = s /\ x[2] = k /\ x[3] = T
      BY <1>7, <2>2
    <3> QED
      BY <1>2, <1>4, <1>5, <3>1 DEF Own, Has
  <2> QED
    BY <2>1, <2>2
<1>13. QuorumReached(U)
  BY <1>4, <1>5 DEF Lawful, QuorumReached
<1>14. ChosenByLeaders(U)
  <2>1. PICK T0 \in Nat : ChosenBy(W, Len(W.chosen), T0)
    BY DEF Lawful, ChosenByLeaders
  <2>2. ChosenBy(U, Len(W.chosen), T0)
    BY <1>1, <1>3, <1>8, <2>1, ExtendsChosenBy
  <2> QED
    BY <1>4, <2>2 DEF ChosenByLeaders
<1> QED
  BY <1>3, <1>4, <1>8, <1>9, <1>10, <1>11, <1>12, <1>13, <1>14 DEF Lawful, q

-----------------------------------------------------------------------------
(* What a history says of a node, also in the middle of a step.            *)

(* No store forgets what it has applied: nothing is compacted, so that no  *)
(* snapshot replaces a store, or no server restarts.                       *)
Durable == Threshold = 0 \/ Bound["crashes"] = 0

ChosenTerm(W, k) == IF k = 0 THEN 0 ELSE W.chosen[k].term
Values(W, k) == {W.chosen[i].value : i \in 1 .. k} \ {NoOp}

(* Server q has the entries of term T up to k, or they are committed. *)
Replicated(W, q, k, T) ==
    /\ k <= Len(W.logs[T])
    /\ \A j \in Nat : j <= k /\ Own(W, j, T) =>
         <<q, j, T>> \in W.held \/ ChosenBy(W, j, T)

(* The log of n is at least as up to date as one that ends in j, t. *)
LastGe(n, j, t) ==
    \/ LastTerm(n) > t
    \/ LastTerm(n) = t /\ LastIndex(n) >= j

(* Everything n has is in the log of the leader of T. *)
Follows(W, n, T) ==
    /\ LastIndex(n) <= Len(W.logs[T])
    /\ \A i \in 1 .. Len(n.log) : n.log[i] = W.logs[T][n.snapIndex + i]

(* What n takes as committed was committed by a leader it has heard of. *)
Committed(W, n) ==
    /\ n.applied <= n.commit /\ n.commit <= LastIndex(n)
    /\ n.commit <= Len(W.chosen)
    /\ n.snapTerm = ChosenTerm(W, n.snapIndex)
    /\ \A i \in 1 .. Len(n.log) :
         n.snapIndex + i <= n.commit => n.log[i] = W.chosen[n.snapIndex + i]
    /\ \E T \in Nat : /\ ChosenBy(W, n.commit, T) /\ T <= n.term
                      /\ n.role = "Candidate" => T < n.term

(* The log of n above its boundary comes from one leader. *)
Copied(W, n) ==
    /\ n.log # << >> => Follows(W, n, LastTerm(n))
    /\ n.role = "Leader" => /\ Follows(W, n, n.term) /\ W.logs[n.term] # << >>
                            /\ LastIndex(n) = Len(W.logs[n.term])

(* What n ever held it still has, unless it is lost to everybody. *)
Recorded(W, n) ==
    /\ W.terms[n.id] = n.term
    /\ \A i \in 1 .. Len(n.log) :
         <<n.id, n.snapIndex + i, n.log[i].term>> \in W.held
    /\ \A j, t \in Nat : <<n.id, j, t>> \in W.held =>
         /\ LastGe(n, j, t) \/ Lost(W, j, t)
         /\ t = n.term => /\ j <= LastIndex(n)
                          /\ j > n.snapIndex => n.log[j - n.snapIndex].term = t

Core(W, n) == Committed(W, n) /\ Copied(W, n) /\ Recorded(W, n)

(* match_index_ of a leader tells what the peers have. *)
Progress(W, n) ==
    /\ \A q \in Server : n.next[q] >= 1
    /\ n.role = "Leader" =>
         \A q \in Server : Replicated(W, q, n.match[q], n.term)

(* What the messages of a leader and the answers to it claim. *)
VouchedEntries(W, m) ==
    /\ W.logs[m.term] # << >>
    /\ m.prevIndex + Len(m.entries) <= Len(W.logs[m.term])
    /\ m.prevTerm = IF m.prevIndex = 0 THEN 0
                    ELSE W.logs[m.term][m.prevIndex].term
    /\ \A j \in 1 .. Len(m.entries) :
         m.entries[j] = W.logs[m.term][m.prevIndex + j]
    /\ m.commit <= m.prevIndex + Len(m.entries)
    /\ ChosenBy(W, m.commit, m.term)
VouchedSnapshot(W, m) ==
    /\ W.logs[m.term] # << >>
    /\ ChosenBy(W, m.index, m.term)
    /\ m.indexTerm = ChosenTerm(W, m.index)
    /\ Durable => Threshold # 0 /\ Values(W, m.index) \subseteq m.data
Vouched(W, f, m) ==
    /\ m.type = "AppendEntries" => VouchedEntries(W, m)
    /\ m.type = "InstallSnapshot" => VouchedSnapshot(W, m)
    /\ m.type = "AppendEntriesResponse" =>
         (m.success => Replicated(W, f, m.match, m.term))

(* A vote is asked for with the log of the candidate. *)
Solicits(n, m) ==
    m.type = "RequestVote" =>
      /\ m.term <= n.term
      /\ m.term = n.term /\ n.role = "Candidate" =>
           m.lastIndex = LastIndex(n) /\ m.lastTerm = LastTerm(n)

Outgoing(W, n) ==
    \A t \in Server : \A i \in DOMAIN n.out[t] :
      Vouched(W, n.id, n.out[t][i]) /\ Solicits(n, n.out[t][i])

(* A command reported as applied is committed at its index. *)
Truthful(W, c) ==
    c.type = "Applied" =>
      /\ c.index >= 1 /\ ChosenBy(W, c.index, c.term)
      /\ W.chosen[c.index].value = c.value
Answers(W, n) == \A c \in n.told : Truthful(W, c)

(* The store has what is applied, and the results what the store has. *)
Stores(W, n) ==
    Durable =>
      /\ Values(W, n.applied) \subseteq n.data /\ n.results \subseteq n.data
      /\ Threshold = 0 => n.snapIndex = 0
      /\ Threshold # 0 => n.results \subseteq Values(W, n.applied) /\ n.up

Upright(W, n) ==
    Core(W, n) /\ Progress(W, n) /\ Outgoing(W, n) /\ Answers(W, n) /\ Stores(W, n)

-----------------------------------------------------------------------------
(* The history grows: what it said stays true. *)

(* What q has replicated it still has when the history goes on. *)
LEMMA ReplicatedGrows ==
    ASSUME NEW W \in World, NEW U \in World, NEW s, Extends(W, U, s),
           NEW q, NEW k \in Nat, NEW T \in Nat, Replicated(W, q, k, T)
    PROVE  Replicated(U, q, k, T)
<1>1. Len(W.logs[T]) \in Nat /\ Len(U.logs[T]) \in Nat
  BY WorldFields
<1>2. Agree(W.logs[T], U.logs[T], Len(W.logs[T]))
  BY DEF Extends
<1>3. k <= Len(U.logs[T]) /\ k <= Len(W.logs[T])
  BY <1>1, <1>2 DEF Replicated, Agree
<1>4. ASSUME NEW j \in Nat, j <= k, Own(U, j, T)
      PROVE  <<q, j, T>> \in U.held \/ ChosenBy(U, j, T)
  <2>1. j <= Len(W.logs[T])
    BY <1>1, <1>3, <1>4
  <2>2. Own(W, j, T)
    BY <1>4, <2>1, ExtendsOwn DEF Own
  <2>3. <<q, j, T>> \in W.held \/ ChosenBy(W, j, T)
    BY <1>4, <2>2 DEF Replicated
  <2>4. W.held \subseteq U.held
    BY DEF Extends
  <2> QED
    BY <2>3, <2>4, ExtendsChosenBy
<1> QED
  BY <1>3, <1>4 DEF Replicated

(* The chosen entries stay what they are. *)
LEMMA ChosenStays ==
    ASSUME NEW W \in World, NEW U \in World, NEW s, Extends(W, U, s),
           NEW k \in Nat, k <= Len(W.chosen)
    PROVE  /\ k <= Len(U.chosen)
           /\ k # 0 => U.chosen[k] = W.chosen[k]
           /\ ChosenTerm(U, k) = ChosenTerm(W, k)
           /\ Values(U, k) = Values(W, k)
<1>1. Len(W.chosen) \in Nat /\ Len(U.chosen) \in Nat
  BY WorldFields
<1>2. Agree(W.chosen, U.chosen, Len(W.chosen))
  BY DEF Extends
<1>3. k <= Len(U.chosen) /\ \A i \in 1 .. k : U.chosen[i] = W.chosen[i]
  BY <1>1, <1>2 DEF Agree
<1>4. Values(U, k) = Values(W, k)
  BY <1>3 DEF Values
<1> QED
  BY <1>3, <1>4 DEF ChosenTerm

(* What was true of a message stays true of it. *)
LEMMA VouchedGrows ==
    ASSUME NEW W \in World, NEW U \in World, NEW s, Extends(W, U, s),
           NEW f, NEW m \in Message, Vouched(W, f, m)
    PROVE  Vouched(U, f, m)
<1>1. m.term \in Nat
  BY MessageOfType
<1>2. /\ W.logs[m.term] \in Seq(Entry) /\ U.logs[m.term] \in Seq(Entry)
      /\ Len(W.logs[m.term]) \in Nat /\ Len(U.logs[m.term]) \in Nat
  BY <1>1, WorldFields
<1>3. /\ Len(W.logs[m.term]) <= Len(U.logs[m.term])
      /\ \A i \in 1 .. Len(W.logs[m.term]) :
           W.logs[m.term][i] = U.logs[m.term][i]
  BY <1>1, <1>2 DEF Extends, Agree
<1>4. W.logs[m.term] # << >> => U.logs[m.term] # << >>
  BY <1>2, <1>3
<1>5. CASE m.type = "AppendEntries"
  <2>1. m \in AppendEntriesRequest
    BY <1>5, MessageOfType
  <2>2. /\ m.prevIndex \in Nat /\ m.commit \in Nat
        /\ m.entries \in Seq(Entry) /\ Len(m.entries) \in Nat
    BY <2>1 DEF AppendEntriesRequest
  <2>3. VouchedEntries(W, m)
    BY <1>5 DEF Vouched
  <2>4. ChosenBy(U, m.commit, m.term)
    BY <1>1, <2>2, <2>3, ExtendsChosenBy DEF VouchedEntries
  <2>5. m.prevIndex # 0 => m.prevIndex \in 1 .. Len(W.logs[m.term])
    BY <1>2, <2>2, <2>3 DEF VouchedEntries
  <2>6. \A j \in 1 .. Len(m.entries) :
          m.prevIndex + j \in 1 .. Len(W.logs[m.term])
    BY <1>2, <2>2, <2>3, SMTT(30) DEF VouchedEntries
  <2>7. /\ m.prevIndex + Len(m.entries) <= Len(U.logs[m.term])
        /\ m.commit <= m.prevIndex + Len(m.entries)
    <3>1. /\ m.prevIndex + Len(m.entries) <= Len(W.logs[m.term])
          /\ m.commit <= m.prevIndex + Len(m.entries)
      BY ONLY <2>3, Zenon DEF VouchedEntries
    <3>2. Len(W.logs[m.term]) <= Len(U.logs[m.term])
      BY ONLY <1>3
    <3>3. m.prevIndex + Len(m.entries) \in Nat
      BY ONLY <2>2
    <3> QED
      BY ONLY <1>2, <3>1, <3>2, <3>3
  <2>8. m.prevTerm = IF m.prevIndex = 0 THEN 0
                     ELSE U.logs[m.term][m.prevIndex].term
    BY ONLY <1>3, <2>3, <2>5 DEF VouchedEntries
  <2>9. \A j \in 1 .. Len(m.entries) :
          m.entries[j] = U.logs[m.term][m.prevIndex + j]
    BY ONLY <1>3, <2>3, <2>6 DEF VouchedEntries
  <2>10. VouchedEntries(U, m)
    BY ONLY <1>4, <2>3, <2>4, <2>7, <2>8, <2>9 DEF VouchedEntries
  <2> QED
    BY <1>5, <2>10 DEF Vouched
<1>6. CASE m.type = "InstallSnapshot"
  <2>1. m \in InstallSnapshotRequest
    BY <1>6, MessageOfType
  <2>2. m.index \in Nat
    BY <2>1 DEF InstallSnapshotRequest
  <2>3. VouchedSnapshot(W, m)
    BY <1>6 DEF Vouched
  <2>4. ChosenBy(U, m.index, m.term)
    BY <1>1, <2>2, <2>3, ExtendsChosenBy DEF VouchedSnapshot
  <2>5. m.index <= Len(W.chosen)
    BY <2>2, <2>3, ChosenLength DEF VouchedSnapshot
  <2>6. ChosenTerm(U, m.index) = ChosenTerm(W, m.index)
        /\ Values(U, m.index) = Values(W, m.index)
    BY <2>2, <2>5, ChosenStays
  <2>7. VouchedSnapshot(U, m)
    BY <1>4, <2>3, <2>4, <2>6 DEF VouchedSnapshot
  <2> QED
    BY <1>6, <2>7 DEF Vouched
<1>7. CASE m.type = "AppendEntriesResponse"
  <2>1. m \in AppendEntriesResponse
    BY <1>7, MessageOfType
  <2>2. m.match \in Nat
    BY <2>1 DEF AppendEntriesResponse
  <2>3. m.success => Replicated(U, f, m.match, m.term)
    BY <1>1, <1>7, <2>2, ReplicatedGrows DEF Vouched
  <2> QED
    BY <1>7, <2>3 DEF Vouched
<1> QED
  BY <1>5, <1>6, <1>7 DEF Vouched

(* What a node took as committed stays chosen. *)
LEMMA CommittedGrows ==
    ASSUME NEW W \in World, NEW U \in World, NEW s, Extends(W, U, s),
           NEW n \in NodeState, n.snapIndex <= n.applied, Committed(W, n)
    PROVE  Committed(U, n)
<1>1. /\ n.log \in Seq(Entry) /\ n.snapIndex \in Nat /\ n.commit \in Nat
      /\ n.applied \in Nat
  BY NodeFields
<1>2. n.commit <= Len(W.chosen) /\ Len(W.chosen) \in Nat /\ n.snapIndex <= n.commit
  BY <1>1, WorldFields DEF Committed
<1>3. \A k \in Nat : k <= Len(W.chosen) => /\ k <= Len(U.chosen)
                                           /\ k # 0 => U.chosen[k] = W.chosen[k]
                                           /\ ChosenTerm(U, k) = ChosenTerm(W, k)
  BY ChosenStays
<1>4. n.commit <= Len(U.chosen) /\ n.snapTerm = ChosenTerm(U, n.snapIndex)
  <2>1. n.snapIndex <= Len(W.chosen)
    BY <1>1, <1>2
  <2> QED
    BY <1>1, <1>2, <1>3, <2>1 DEF Committed
<1>5. \A i \in 1 .. Len(n.log) :
        n.snapIndex + i <= n.commit => n.log[i] = U.chosen[n.snapIndex + i]
  <2> SUFFICES ASSUME NEW i \in 1 .. Len(n.log), n.snapIndex + i <= n.commit
               PROVE  n.log[i] = U.chosen[n.snapIndex + i]
    OBVIOUS
  <2>1. /\ n.snapIndex + i \in Nat /\ n.snapIndex + i # 0
        /\ n.snapIndex + i <= Len(W.chosen)
    BY <1>1, <1>2
  <2> QED
    BY <1>3, <2>1 DEF Committed
<1>6. PICK T \in Nat : /\ ChosenBy(W, n.commit, T) /\ T <= n.term
                       /\ n.role = "Candidate" => T < n.term
  BY DEF Committed
<1>7. ChosenBy(U, n.commit, T)
  BY <1>1, <1>6, ExtendsChosenBy
<1> QED
  BY <1>4, <1>5, <1>6, <1>7 DEF Committed

(* A log that begins the log of T still does. *)
LEMMA FollowsGrows ==
    ASSUME NEW W \in World, NEW U \in World, NEW s, Extends(W, U, s),
           NEW n \in NodeState, NEW T \in Nat, Follows(W, n, T)
    PROVE  Follows(U, n, T)
<1>1. /\ n.log \in Seq(Entry) /\ n.snapIndex \in Nat /\ LastIndex(n) \in Nat
      /\ LastIndex(n) = n.snapIndex + Len(n.log)
  BY NodeFields, LastIndexType DEF LastIndex
<1>2. Len(W.logs[T]) \in Nat /\ Len(U.logs[T]) \in Nat
  BY WorldFields
<1>3. /\ Len(W.logs[T]) <= Len(U.logs[T])
      /\ \A i \in 1 .. Len(W.logs[T]) : W.logs[T][i] = U.logs[T][i]
  BY DEF Extends, Agree
<1>4. \A i \in 1 .. Len(n.log) : n.snapIndex + i \in 1 .. Len(W.logs[T])
  BY <1>1, <1>2, SMTT(30) DEF Follows
<1>5. LastIndex(n) <= Len(U.logs[T])
  BY ONLY <1>1, <1>2, <1>3, Follows(W, n, T) DEF Follows
<1>6. \A i \in 1 .. Len(n.log) : n.log[i] = U.logs[T][n.snapIndex + i]
  BY ONLY <1>3, <1>4, Follows(W, n, T) DEF Follows
<1> QED
  BY ONLY <1>5, <1>6 DEF Follows

(* What a node is sending stays true. *)
LEMMA OutgoingGrows ==
    ASSUME NEW W \in World, NEW U \in World, NEW s, Extends(W, U, s),
           NEW n \in NodeState, Outgoing(W, n)
    PROVE  Outgoing(U, n)
<1> SUFFICES ASSUME NEW t \in Server, NEW i \in DOMAIN n.out[t]
             PROVE  Vouched(U, n.id, n.out[t][i]) /\ Solicits(n, n.out[t][i])
  BY DEF Outgoing
<1>1. n.out[t] \in Seq(Message)
  BY NodeFields
<1>2. n.out[t][i] \in Message
  BY <1>1
<1>3. Vouched(W, n.id, n.out[t][i]) /\ Solicits(n, n.out[t][i])
  BY DEF Outgoing
<1> QED
  BY <1>2, <1>3, VouchedGrows

(* An answer that was true stays true. *)
LEMMA TruthfulGrows ==
    ASSUME NEW W \in World, NEW U \in World, NEW s, Extends(W, U, s),
           NEW c \in Applied \cup ReadServed, Truthful(W, c)
    PROVE  Truthful(U, c)
<1> SUFFICES ASSUME c.type = "Applied" PROVE Truthful(U, c)
  BY DEF Truthful
<1>1. c \in Applied
  BY DEF ReadServed
<1>2. c.index \in Nat /\ c.term \in Nat
  BY <1>1 DEF Applied
<1>3. /\ c.index >= 1 /\ ChosenBy(W, c.index, c.term)
      /\ W.chosen[c.index].value = c.value
  BY DEF Truthful
<1>4. c.index <= Len(W.chosen)
  BY <1>2, <1>3, ChosenLength
<1>5. U.chosen[c.index] = W.chosen[c.index] /\ ChosenBy(U, c.index, c.term)
  BY <1>2, <1>3, <1>4, ChosenStays, ExtendsChosenBy
<1> QED
  BY <1>3, <1>5 DEF Truthful

(* So do the answers a node is giving. *)
LEMMA AnswersGrow ==
    ASSUME NEW W \in World, NEW U \in World, NEW s, Extends(W, U, s),
           NEW n \in NodeState, Answers(W, n)
    PROVE  Answers(U, n)
BY NodeFields, TruthfulGrows DEF Answers

(* A store that has what was applied still has it. *)
LEMMA StoresGrow ==
    ASSUME NEW W \in World, NEW U \in World, NEW s, Extends(W, U, s),
           NEW n \in NodeState, n.applied <= Len(W.chosen), Stores(W, n)
    PROVE  Stores(U, n)
<1>1. n.applied \in Nat
  BY NodeFields
<1>2. Values(U, n.applied) = Values(W, n.applied)
  BY <1>1, ChosenStays
<1> QED
  BY <1>2 DEF Stores

(* Where a log ends: at its last entry, or at the boundary of its          *)
(* snapshot.                                                               *)
LEMMA LastTermType ==
    ASSUME NEW n \in NodeState
    PROVE  /\ LastTerm(n) \in Nat /\ LastIndex(n) \in Nat
           /\ LastIndex(n) = n.snapIndex + Len(n.log)
           /\ n.log # << >> => LastTerm(n) = n.log[Len(n.log)].term
           /\ n.log = << >> => LastTerm(n) = n.snapTerm /\ LastIndex(n) = n.snapIndex
<1>1. n.log \in Seq(Entry) /\ n.snapIndex \in Nat /\ Len(n.log) \in Nat
  BY NodeFields
<1>2. LastIndex(n) = n.snapIndex + Len(n.log)
  BY DEF LastIndex
<1>3. Stored(n, LastIndex(n))
  BY <1>1, <1>2 DEF Stored
<1>4. LastTerm(n) \in Nat
  BY <1>3, TermAtType DEF LastTerm
<1>5. ASSUME n.log # << >> PROVE LastTerm(n) = n.log[Len(n.log)].term
  <2>1. Len(n.log) # 0
    BY <1>1, <1>5
  <2>2. LastIndex(n) # n.snapIndex /\ LastIndex(n) - n.snapIndex = Len(n.log)
    BY <1>1, <1>2, <2>1
  <2> QED
    BY <2>2 DEF LastTerm, TermAt
<1>6. n.log = << >> => LastTerm(n) = n.snapTerm /\ LastIndex(n) = n.snapIndex
  BY <1>1, <1>2 DEF LastTerm, TermAt
<1> QED
  BY <1>1, <1>2, <1>4, <1>5, <1>6

(* The entries a node held are still in its log, or lost. *)
LEMMA RecordedGrows ==
    ASSUME NEW W \in World, NEW U \in World, NEW s \in Server, Extends(W, U, s),
           NEW n \in NodeState, Recorded(W, n),
           U.terms[n.id] = W.terms[n.id],
           \A x \in U.held \ W.held : x[1] # n.id
    PROVE  Recorded(U, n)
<1>1. W.held \subseteq U.held
  BY DEF Extends
<1>2. ASSUME NEW j \in Nat, NEW t \in Nat, <<n.id, j, t>> \in U.held
      PROVE  /\ LastGe(n, j, t) \/ Lost(U, j, t)
             /\ t = n.term => /\ j <= LastIndex(n)
                              /\ j > n.snapIndex
                                   => n.log[j - n.snapIndex].term = t
  <2>1. <<n.id, j, t>> \in W.held
    <3>1. <<n.id, j, t>>[1] = n.id
      OBVIOUS
    <3> QED
      BY <1>2, <3>1
  <2>2. /\ LastGe(n, j, t) \/ Lost(W, j, t)
        /\ t = n.term => /\ j <= LastIndex(n)
                         /\ j > n.snapIndex => n.log[j - n.snapIndex].term = t
    BY <2>1 DEF Recorded
  <2> QED
    BY <2>2, ExtendsLost
<1> QED
  BY <1>1, <1>2 DEF Recorded

(* A log that was copied from its last entry's leader still was. *)
LEMMA CopiedGrows ==
    ASSUME NEW W \in World, NEW U \in World, NEW s, Extends(W, U, s),
           NEW n \in NodeState, Copied(W, n),
           n.role = "Leader" => U.logs[n.term] = W.logs[n.term]
    PROVE  Copied(U, n)
<1>1. LastTerm(n) \in Nat /\ n.term \in Nat
  BY LastTermType, NodeFields
<1>2. n.log # << >> => Follows(U, n, LastTerm(n))
  BY <1>1, FollowsGrows DEF Copied
<1>3. n.role = "Leader" => Follows(U, n, n.term)
  BY <1>1, FollowsGrows DEF Copied
<1> QED
  BY <1>2, <1>3 DEF Copied

(* What a leader knows of its followers stays true. *)
LEMMA ProgressGrows ==
    ASSUME NEW W \in World, NEW U \in World, NEW s, Extends(W, U, s),
           NEW n \in NodeState, Progress(W, n)
    PROVE  Progress(U, n)
<1>1. n.term \in Nat /\ \A q \in Server : n.match[q] \in Nat
  BY NodeFields
<1>2. n.role = "Leader" =>
        \A q \in Server : Replicated(U, q, n.match[q], n.term)
  BY <1>1, ReplicatedGrows DEF Progress
<1> QED
  BY <1>2 DEF Progress

(* A node that takes no part in the step. *)
LEMMA UprightGrows ==
    ASSUME NEW W \in World, NEW U \in World, NEW s \in Server, Extends(W, U, s),
           NEW n \in NodeState, n.snapIndex <= n.applied, Upright(W, n),
           U.terms[n.id] = W.terms[n.id],
           \A x \in U.held \ W.held : x[1] # n.id,
           n.role = "Leader" => U.logs[n.term] = W.logs[n.term]
    PROVE  Upright(U, n)
<1>1. Core(U, n)
  BY CommittedGrows, CopiedGrows, RecordedGrows DEF Upright, Core
<1>2. Progress(U, n) /\ Outgoing(U, n) /\ Answers(U, n)
  BY ProgressGrows, OutgoingGrows, AnswersGrow DEF Upright
<1>3. Stores(U, n)
  <2>1. n.applied \in Nat /\ n.commit \in Nat /\ Len(W.chosen) \in Nat
    BY NodeFields, WorldFields
  <2>2. n.applied <= Len(W.chosen)
    BY <2>1 DEF Upright, Core, Committed
  <2> QED
    BY <2>2, StoresGrow DEF Upright
<1> QED
  BY <1>1, <1>2, <1>3 DEF Upright

-----------------------------------------------------------------------------
(* What the functions of RaftNode do to an upright node. *)

(* r has the log, the term and the role of n. *)
SameCore(n, r) ==
    /\ r.id = n.id /\ r.term = n.term /\ r.role = n.role
    /\ r.log = n.log /\ r.snapIndex = n.snapIndex /\ r.snapTerm = n.snapTerm
    /\ r.commit = n.commit

(* Nodes with the same log end alike. *)
LEMMA SameLast ==
    ASSUME NEW n, NEW r, r.log = n.log, r.snapIndex = n.snapIndex,
           r.snapTerm = n.snapTerm
    PROVE  /\ LastIndex(r) = LastIndex(n) /\ LastTerm(r) = LastTerm(n)
           /\ \A k : TermAt(r, k) = TermAt(n, k) /\ Stored(r, k) = Stored(n, k)
BY DEF LastIndex, LastTerm, TermAt, Stored

(* A node with the same log, term and commit index is as sound. *)
LEMMA SameCoreHolds ==
    ASSUME NEW W, NEW n, NEW r, SameCore(n, r), Core(W, n), r.applied <= r.commit
    PROVE  Core(W, r) /\ LastIndex(r) = LastIndex(n) /\ LastTerm(r) = LastTerm(n)
<1>1. LastIndex(r) = LastIndex(n) /\ LastTerm(r) = LastTerm(n)
  BY SameLast DEF SameCore
<1>2. Committed(W, r)
  BY <1>1 DEF SameCore, Core, Committed
<1>3. Copied(W, r)
  BY <1>1 DEF SameCore, Core, Copied, Follows
<1>4. Recorded(W, r)
  BY <1>1 DEF SameCore, Core, Recorded, LastGe
<1> QED
  BY <1>1, <1>2, <1>3, <1>4 DEF Core

(* What n is sending is as good after a change of nothing it speaks of. *)
LEMMA SameSolicits ==
    ASSUME NEW n, NEW r, SameCore(n, r), NEW m
    PROVE  Solicits(r, m) = Solicits(n, m)
BY SameLast DEF SameCore, Solicits

(* Only the store, the answers and the messages of n change. *)
LEMMA SameCoreUpright ==
    ASSUME NEW W, NEW n, NEW r, SameCore(n, r), Upright(W, n),
           r.applied <= r.commit, r.next = n.next, r.match = n.match,
           r.out = n.out, r.told = n.told, r.applied = n.applied,
           r.data = n.data, r.results = n.results, r.up = n.up
    PROVE  Upright(W, r)
<1>1. Core(W, r)
  BY SameCoreHolds DEF Upright
<1>2. Progress(W, r)
  BY DEF Upright, Progress, SameCore
<1>3. Outgoing(W, r)
  BY SameSolicits DEF Upright, Outgoing, SameCore
<1>4. Answers(W, r) /\ Stores(W, r)
  BY DEF Upright, Answers, Stores, SameCore
<1> QED
  BY <1>1, <1>2, <1>3, <1>4 DEF Upright

(* The terms of committed entries, read from the log or the boundary. *)
LEMMA CommittedTerms ==
    ASSUME NEW W, NEW n \in NodeState, Committed(W, n), NEW k,
           Stored(n, k), k <= n.commit
    PROVE  TermAt(n, k) = ChosenTerm(W, k)
<1>1. /\ n.log \in Seq(Entry) /\ n.snapIndex \in Nat /\ n.commit \in Nat
      /\ LastIndex(n) = n.snapIndex + Len(n.log)
  BY NodeFields, LastTermType
<1>2. k \in n.snapIndex .. n.snapIndex + Len(n.log)
  BY <1>1 DEF Stored
<1>3. CASE k = n.snapIndex
  BY <1>3 DEF TermAt, Committed
<1>4. CASE k # n.snapIndex
  <2>1. k - n.snapIndex \in 1 .. Len(n.log) /\ n.snapIndex + (k - n.snapIndex) = k
        /\ k # 0
    BY <1>1, <1>2, <1>4
  <2>2. n.log[k - n.snapIndex] = W.chosen[k]
    BY <2>1 DEF Committed
  <2> QED
    BY <1>4, <2>1, <2>2 DEF TermAt, ChosenTerm
<1> QED
  BY <1>3, <1>4

(* The log of a leader is the log of its term, which has what is committed. *)
LEMMA LeaderLog ==
    ASSUME NEW W \in World, Lawful(W), NEW n \in Node, Core(W, n),
           n.role = "Leader"
    PROVE  /\ W.logs[n.term] # << >> /\ ChosenBy(W, n.commit, n.term)
           /\ Agree(W.chosen, W.logs[n.term], n.commit)
           /\ LastIndex(n) = Len(W.logs[n.term])
           /\ \A k : Stored(n, k) =>
                TermAt(n, k) = IF k = 0 THEN 0 ELSE W.logs[n.term][k].term
<1>1. /\ n \in NodeState /\ n.log \in Seq(Entry) /\ n.snapIndex \in Nat
      /\ n.commit \in Nat /\ n.term \in Nat /\ n.applied \in Nat
      /\ LastIndex(n) = n.snapIndex + Len(n.log) /\ n.snapIndex <= n.applied
  BY NodeFields, LastTermType DEF Node
<1>2. W.logs[n.term] \in Seq(Entry) /\ Len(W.logs[n.term]) \in Nat
  BY <1>1, WorldFields
<1>3. Follows(W, n, n.term) /\ LastIndex(n) = Len(W.logs[n.term])
  BY DEF Core, Copied
<1>4. W.logs[n.term] # << >>
  BY DEF Core, Copied
<1>5. PICK T \in Nat : ChosenBy(W, n.commit, T) /\ T <= n.term
  BY DEF Core, Committed
<1>6. ChosenBy(W, n.commit, n.term)
  BY <1>1, <1>5, ChosenByLess
<1>7. Agree(W.chosen, W.logs[n.term], n.commit)
  BY <1>1, <1>4, <1>6, ChosenInLog
<1>8. ASSUME NEW k, Stored(n, k)
      PROVE  TermAt(n, k) = IF k = 0 THEN 0 ELSE W.logs[n.term][k].term
  <2>1. k \in n.snapIndex .. n.snapIndex + Len(n.log) /\ k \in Nat
    BY <1>1, <1>8 DEF Stored
  <2>2. CASE k = n.snapIndex
    <3>1. k <= n.commit
      BY <1>1, <2>2 DEF Core, Committed
    <3>2. TermAt(n, k) = ChosenTerm(W, k)
      BY <1>1, <1>8, <3>1, CommittedTerms DEF Core
    <3>3. k # 0 => W.chosen[k] = W.logs[n.term][k]
      BY <1>1, <1>7, <2>1, <3>1 DEF Agree
    <3> QED
      BY <3>2, <3>3 DEF ChosenTerm
  <2>3. CASE k # n.snapIndex
    <3>1. /\ k - n.snapIndex \in 1 .. Len(n.log)
          /\ n.snapIndex + (k - n.snapIndex) = k /\ k # 0
      BY <1>1, <2>1, <2>3
    <3>2. n.log[k - n.snapIndex] = W.logs[n.term][k]
      BY <1>3, <3>1 DEF Follows
    <3> QED
      BY <2>3, <3>1, <3>2 DEF TermAt
  <2> QED
    BY <2>2, <2>3
<1> QED
  BY <1>3, <1>4, <1>6, <1>7, <1>8

(* r is sending what n is sending, and then messages as good. *)
SendsMore(W, n, r) ==
    \A t \in Server :
      \/ r.out[t] = n.out[t]
      \/ \E q \in Seq(Message) :
           /\ r.out[t] = n.out[t] \o q
           /\ \A i \in DOMAIN q : Vouched(W, n.id, q[i]) /\ Solicits(n, q[i])

(* A node that sends more of what is true sends what is true. *)
LEMMA OutgoingAdds ==
    ASSUME NEW W, NEW n \in NodeState, Outgoing(W, n), NEW r, SameCore(n, r),
           SendsMore(W, n, r)
    PROVE  Outgoing(W, r)
<1> SUFFICES ASSUME NEW t \in Server, NEW i \in DOMAIN r.out[t]
             PROVE  Vouched(W, n.id, r.out[t][i]) /\ Solicits(n, r.out[t][i])
  BY SameSolicits DEF Outgoing, SameCore
<1>1. n.out[t] \in Seq(Message)
  BY NodeFields
<1>2. CASE r.out[t] = n.out[t]
  BY <1>2 DEF Outgoing
<1>3. ASSUME NEW q \in Seq(Message), r.out[t] = n.out[t] \o q,
             \A k \in DOMAIN q : Vouched(W, n.id, q[k]) /\ Solicits(n, q[k])
      PROVE  Vouched(W, n.id, r.out[t][i]) /\ Solicits(n, r.out[t][i])
  <2>1. CASE i \in DOMAIN n.out[t]
    <3>1. r.out[t][i] = n.out[t][i]
      BY <1>1, <1>3, <2>1
    <3> QED
      BY <2>1, <3>1 DEF Outgoing
  <2>2. CASE i \notin DOMAIN n.out[t]
    <3>1. /\ i - Len(n.out[t]) \in DOMAIN q
          /\ r.out[t][i] = q[i - Len(n.out[t])]
      BY <1>1, <1>3, <2>2
    <3> QED
      BY <1>3, <3>1
  <2> QED
    BY <2>1, <2>2
<1> QED
  BY <1>2, <1>3 DEF SendsMore

(* send() of a true message keeps a node upright. *)
LEMMA SendUpright ==
    ASSUME NEW W, NEW n \in NodeState, Upright(W, n), NEW to \in Server,
           NEW m \in Message, Vouched(W, n.id, m), Solicits(n, m)
    PROVE  Upright(W, Send(n, to, m)) /\ SameCore(n, Send(n, to, m))
<1> DEFINE r == Send(n, to, m)
<1>1. n.out \in [Server -> Seq(Message)]
  BY NodeFields
<1>2. /\ SameCore(n, r) /\ r.next = n.next /\ r.match = n.match
      /\ r.told = n.told /\ r.applied = n.applied
      /\ r.data = n.data /\ r.results = n.results /\ r.up = n.up
      /\ r.out = [n.out EXCEPT ![to] = Append(@, m)]
  BY DEF NodeState, Send, SameCore
<1> HIDE DEF r
<1>3. Outgoing(W, r)
  <2>1. \A t \in Server :
          \/ r.out[t] = n.out[t]
          \/ \E q \in Seq(Message) :
               /\ r.out[t] = n.out[t] \o q
               /\ \A i \in DOMAIN q : Vouched(W, n.id, q[i]) /\ Solicits(n, q[i])
    <3> TAKE t \in Server
    <3>1. CASE t = to
      <4>1. n.out[t] \in Seq(Message) /\ r.out[t] = Append(n.out[t], m)
        BY <1>1, <1>2, <3>1
      <4>2. r.out[t] = n.out[t] \o <<m>> /\ <<m>> \in Seq(Message)
        BY <4>1
      <4>3. \A i \in DOMAIN <<m>> : <<m>>[i] = m
        OBVIOUS
      <4> QED
        BY <4>2, <4>3
    <3>2. CASE t # to
      BY <1>1, <1>2, <3>2
    <3> QED
      BY <3>1, <3>2
  <2>2. Outgoing(W, n) /\ SendsMore(W, n, r)
    BY <2>1 DEF Upright, SendsMore
  <2> QED
    BY <1>2, <2>2, OutgoingAdds
<1>4. Core(W, r)
  BY <1>2, SameCoreHolds DEF Upright, Core, Committed, SameCore
<1>5. Progress(W, r) /\ Answers(W, r) /\ Stores(W, r)
  BY <1>2 DEF Upright, Progress, Answers, Stores, SameCore
<1> QED
  BY <1>2, <1>3, <1>4, <1>5 DEF Upright, r

(* send_snapshot(): the snapshot is labelled with what is applied, which   *)
(* is committed.                                                           *)
LEMMA SnapshotVouched ==
    ASSUME NEW W \in World, Lawful(W), NEW n \in Node, Upright(W, n),
           n.role = "Leader", Stored(n, n.applied), n.snapIndex # 0,
           NEW c \in 1 .. Chunks
    PROVE  Vouched(W, n.id, SnapshotOf(n)[c]) /\ Solicits(n, SnapshotOf(n)[c])
<1> DEFINE m == SnapshotOf(n)[c]
<1>1. /\ m.type = "InstallSnapshot" /\ m.term = n.term /\ m.index = n.applied
      /\ m.indexTerm = TermAt(n, n.applied) /\ m.data = n.data
  BY DEF SnapshotOf, Snapshot
<1> HIDE DEF m
<1>2. /\ n \in NodeState /\ n.applied \in Nat /\ n.commit \in Nat
      /\ n.term \in Nat /\ Core(W, n) /\ Committed(W, n) /\ Stores(W, n)
  BY NodeFields DEF Node, Upright, Core
<1>3. n.applied <= n.commit
  BY <1>2 DEF Committed
<1>4. W.logs[n.term] # << >> /\ ChosenBy(W, n.commit, n.term)
  BY <1>2, LeaderLog
<1>5. ChosenBy(W, n.applied, n.term)
  BY <1>2, <1>3, <1>4, ChosenByLess
<1>6. TermAt(n, n.applied) = ChosenTerm(W, n.applied)
  BY <1>2, <1>3, CommittedTerms
<1>7. Durable => Threshold # 0 /\ Values(W, n.applied) \subseteq n.data
  BY <1>2 DEF Stores
<1>8. VouchedSnapshot(W, m)
  BY <1>1, <1>4, <1>5, <1>6, <1>7 DEF VouchedSnapshot
<1> QED
  BY <1>1, <1>8 DEF Vouched, Solicits, m

(* send_snapshot() keeps a leader upright: the snapshot is what was chosen *)
(* up to its boundary.                                                     *)
LEMMA SendSnapshotUpright ==
    ASSUME NEW W \in World, Lawful(W), NEW n \in Node, Upright(W, n),
           n.role = "Leader", NEW S \in SUBSET Server, S # {} => n.snapIndex # 0
    PROVE  /\ Upright(W, SendSnapshot(n, S)) /\ SameCore(n, SendSnapshot(n, S))
           /\ SendSnapshot(n, S).applied = n.applied
<1> DEFINE r == SendSnapshot(n, S)
<1>1. CASE ~Stored(n, n.applied)
  BY <1>1 DEF SendSnapshot, SameCore
<1>2. CASE Stored(n, n.applied)
  <2>1. n \in NodeState /\ n.out \in [Server -> Seq(Message)]
        /\ n.match \in [Server -> Nat] /\ n.next \in [Server -> Nat]
        /\ n.applied \in Nat /\ n.commit \in Nat /\ n.term \in Nat
        /\ LastIndex(n) \in Nat
    BY NodeFields, LastIndexType DEF Node
  <2>2. /\ SameCore(n, r)
        /\ r.told = n.told /\ r.applied = n.applied
        /\ r.data = n.data /\ r.results = n.results /\ r.up = n.up
        /\ r.out = [s \in Server |-> IF s \in S THEN n.out[s] \o SnapshotOf(n)
                                                ELSE n.out[s]]
        /\ r.next = [s \in Server |-> IF s \in S THEN n.applied + 1
                                                 ELSE n.next[s]]
        /\ r.match = [s \in Server |-> IF s \in S
                                       THEN MaxOf(n.match[s], n.applied)
                                       ELSE n.match[s]]
    BY <1>2, <2>1 DEF NodeState, SendSnapshot, SameCore
  <2> HIDE DEF r
  <2>3. Core(W, r)
    BY <2>2, SameCoreHolds DEF Upright, Core, Committed, SameCore
  <2>4. Answers(W, r) /\ Stores(W, r)
    BY <2>2 DEF Upright, Answers, Stores, SameCore
  <2>5. SnapshotOf(n) \in Seq(Message) /\ DOMAIN SnapshotOf(n) = 1 .. Chunks
    <3>1. SnapshotOf(n) \in Seq(Plain)
      BY <1>2, <2>1, SnapshotOfType
    <3>2. \A m \in Plain : m \in Message
      BY DEF Plain
    <3>3. DOMAIN SnapshotOf(n) = 1 .. Chunks
      BY DEF SnapshotOf
    <3> QED
      BY <3>1, <3>2, <3>3
  <2>6. Outgoing(W, r)
    <3>1. \A t \in S : \A i \in DOMAIN SnapshotOf(n) :
            Vouched(W, n.id, SnapshotOf(n)[i]) /\ Solicits(n, SnapshotOf(n)[i])
      BY <1>2, <2>5, SnapshotVouched
    <3>2. SendsMore(W, n, r)
      <4> SUFFICES ASSUME NEW t \in Server
                   PROVE  \/ r.out[t] = n.out[t]
                          \/ \E q \in Seq(Message) :
                               /\ r.out[t] = n.out[t] \o q
                               /\ \A i \in DOMAIN q :
                                    /\ Vouched(W, n.id, q[i])
                                    /\ Solicits(n, q[i])
        BY DEF SendsMore
      <4>1. CASE t \in S
        <5>1. r.out[t] = n.out[t] \o SnapshotOf(n)
          BY <2>2, <4>1
        <5> QED
          BY <2>5, <3>1, <4>1, <5>1
      <4>2. CASE t \notin S
        BY <2>2, <4>2
      <4> QED
        BY <4>1, <4>2
    <3>3. Outgoing(W, n)
      BY DEF Upright
    <3> QED
      BY <2>1, <2>2, <3>2, <3>3, OutgoingAdds
  <2>7. Progress(W, r)
    <3>1. \A q \in Server : r.next[q] >= 1
      BY <2>1, <2>2 DEF Upright, Progress
    <3>2. ASSUME NEW q \in Server PROVE Replicated(W, q, r.match[q], r.term)
      <4>1. Replicated(W, q, n.match[q], n.term) /\ n.match[q] \in Nat
        BY <2>1 DEF Upright, Progress
      <4>2. Replicated(W, q, n.applied, n.term)
        <5>1. n.applied <= n.commit /\ n.commit <= LastIndex(n) /\ Core(W, n)
          BY DEF Upright, Core, Committed
        <5>2. ChosenBy(W, n.commit, n.term) /\ LastIndex(n) = Len(W.logs[n.term])
          BY <5>1, LeaderLog
        <5>3. \A j \in Nat : j <= n.applied => ChosenBy(W, j, n.term)
          <6> TAKE j \in Nat
          <6> HAVE j <= n.applied
          <6>1. j <= n.commit
            BY <2>1, <5>1
          <6> QED
            BY <2>1, <5>2, <6>1, ChosenByLess
        <5>4. n.applied <= Len(W.logs[n.term])
          BY <2>1, <5>1, <5>2
        <5> QED
          BY <5>3, <5>4 DEF Replicated
      <4>3. r.match[q] \in {n.match[q], n.applied} /\ r.term = n.term
        BY <2>2 DEF MaxOf, SameCore
      <4> QED
        BY <4>1, <4>2, <4>3
    <3> QED
      BY <3>1, <3>2 DEF Progress
  <2> QED
    BY <2>2, <2>3, <2>4, <2>6, <2>7 DEF Upright, r
<1> QED
  BY <1>1, <1>2

(* send_append_entries() sends what is in the log of the leader's term. *)
LEMMA EntriesVouched ==
    ASSUME NEW W \in World, Lawful(W), NEW n \in Node, Upright(W, n),
           n.role = "Leader", NEW s \in Server, Stored(n, n.next[s] - 1)
    PROVE  /\ Vouched(W, n.id, AppendEntriesTo(n, s))
           /\ Solicits(n, AppendEntriesTo(n, s))
<1> DEFINE m == AppendEntriesTo(n, s)
           from == n.next[s] - n.snapIndex
<1>1. /\ n \in NodeState /\ n.log \in Seq(Entry) /\ n.snapIndex \in Nat
      /\ n.next[s] \in Nat /\ n.term \in Nat /\ n.commit \in Nat
      /\ LastIndex(n) = n.snapIndex + Len(n.log) /\ LastIndex(n) \in Nat
      /\ Len(n.log) \in Nat
  BY NodeFields, LastTermType DEF Node
<1>2. from \in 1 .. Len(n.log) + 1 /\ n.next[s] = n.snapIndex + from
  BY <1>1, SMTT(30) DEF Stored
<1>3. /\ m.type = "AppendEntries" /\ m.term = n.term
      /\ m.prevIndex = n.next[s] - 1 /\ m.prevTerm = TermAt(n, n.next[s] - 1)
      /\ m.entries = SubSeq(n.log, from, Len(n.log)) /\ m.commit = n.commit
  BY DEF AppendEntriesTo
<1> HIDE DEF m, from
<1>4. Core(W, n) /\ Committed(W, n)
  BY DEF Upright, Core
<1>5. /\ W.logs[n.term] # << >> /\ ChosenBy(W, n.commit, n.term)
      /\ LastIndex(n) = Len(W.logs[n.term]) /\ Follows(W, n, n.term)
      /\ TermAt(n, n.next[s] - 1) = IF n.next[s] - 1 = 0 THEN 0
                                    ELSE W.logs[n.term][n.next[s] - 1].term
  BY <1>4, LeaderLog DEF Core, Copied
<1>6. Len(m.entries) = Len(n.log) - from + 1
  BY <1>1, <1>2, <1>3
<1>7. m.prevIndex + Len(m.entries) = LastIndex(n)
  <2>1. m.prevIndex = n.next[s] - 1 /\ from \in Int
    BY <1>2, <1>3
  <2>2. n.snapIndex \in Nat /\ LastIndex(n) = n.snapIndex + Len(n.log) /\ Len(n.log) \in Nat
    BY <1>1
  <2> QED
    BY ONLY <1>2, <1>6, <2>1, <2>2
<1>8. \A j \in 1 .. Len(m.entries) :
        m.entries[j] = W.logs[n.term][m.prevIndex + j]
  <2> TAKE j \in 1 .. Len(m.entries)
  <2>1. m.entries[j] = n.log[from + j - 1] /\ from + j - 1 \in 1 .. Len(n.log)
    BY <1>1, <1>2, <1>3, <1>6, SMTT(30)
  <2>2. n.snapIndex + (from + j - 1) = m.prevIndex + j
    BY <1>1, <1>2, <1>3, <1>6, SMTT(30)
  <2>3. n.log[from + j - 1] = W.logs[n.term][n.snapIndex + (from + j - 1)]
    BY <1>5, <2>1 DEF Follows
  <2> QED
    BY <2>1, <2>2, <2>3
<1>9. n.commit <= LastIndex(n)
  BY <1>4 DEF Committed
<1>10. VouchedEntries(W, m)
  <2>1. /\ W.logs[m.term] # << >> /\ ChosenBy(W, m.commit, m.term)
        /\ m.prevIndex + Len(m.entries) <= Len(W.logs[m.term])
        /\ m.commit <= m.prevIndex + Len(m.entries)
    <3>1. m.term = n.term /\ m.commit = n.commit
      BY <1>3
    <3> QED
      BY ONLY <1>5, <1>7, <1>9, <3>1, <1>1
  <2>2. m.prevTerm = IF m.prevIndex = 0 THEN 0
                     ELSE W.logs[m.term][m.prevIndex].term
    BY ONLY <1>3, <1>5
  <2>3. \A j \in 1 .. Len(m.entries) :
          m.entries[j] = W.logs[m.term][m.prevIndex + j]
    BY ONLY <1>3, <1>8
  <2> QED
    BY ONLY <2>1, <2>2, <2>3 DEF VouchedEntries
<1> QED
  BY <1>3, <1>10 DEF Vouched, Solicits, m

(* send_append_entries() keeps a leader upright, whether it sends entries  *)
(* or a snapshot.                                                          *)
LEMMA SendAppendEntriesUpright ==
    ASSUME NEW W \in World, Lawful(W), NEW n \in Node, Upright(W, n),
           n.role = "Leader", NEW S \in SUBSET Server
    PROVE  /\ Upright(W, SendAppendEntries(n, S))
           /\ SameCore(n, SendAppendEntries(n, S))
           /\ SendAppendEntries(n, S).applied = n.applied
<1> DEFINE ready == {s \in S : Stored(n, n.next[s] - 1)}
           behind == {s \in S : n.next[s] <= n.snapIndex}
           out == [s \in Server |-> IF s \in ready
                     THEN Append(n.out[s], AppendEntriesTo(n, s))
                     ELSE n.out[s]]
           a == [n EXCEPT !.out = out]
<1>1. n \in NodeState /\ n.out \in [Server -> Seq(Plain)]
      /\ n.out \in [Server -> Seq(Message)] /\ n.snapIndex \in Nat
      /\ n.next \in [Server -> Nat]
  BY NodeFields DEF Node
<1>2. \A s \in ready : /\ AppendEntriesTo(n, s) \in Plain
                       /\ Vouched(W, n.id, AppendEntriesTo(n, s))
                       /\ Solicits(n, AppendEntriesTo(n, s))
  BY <1>1, AppendEntriesToType, EntriesVouched
<1>3. SendAppendEntries(n, S) = SendSnapshot(a, behind)
  BY DEF SendAppendEntries
<1>4. behind \in SUBSET Server /\ (behind # {} => n.snapIndex # 0)
  <2>1. \A s \in Server : n.next[s] >= 1 /\ n.next[s] \in Nat
    BY <1>1 DEF Upright, Progress
  <2> QED
    BY <1>1, <2>1
<1> HIDE DEF ready, behind
<1>5. out \in [Server -> Seq(Plain)]
  BY <1>1, <1>2
<1>6. out \in [Server -> Seq(Message)]
  BY <1>5, PlainSequence
<1>7. \A t \in Server :
        \/ out[t] = n.out[t]
        \/ \E q \in Seq(Message) :
             /\ out[t] = n.out[t] \o q
             /\ \A i \in DOMAIN q : Vouched(W, n.id, q[i]) /\ Solicits(n, q[i])
  <2> TAKE t \in Server
  <2>1. CASE t \in ready
    <3> DEFINE q == <<AppendEntriesTo(n, t)>>
    <3>1. AppendEntriesTo(n, t) \in Message
      BY <1>2, <2>1 DEF Plain
    <3>2. n.out[t] \in Seq(Message) /\ out[t] = Append(n.out[t], AppendEntriesTo(n, t))
      BY <1>1, <2>1
    <3>3. out[t] = n.out[t] \o q /\ q \in Seq(Message)
      BY <3>1, <3>2
    <3>4. \A i \in DOMAIN q : q[i] = AppendEntriesTo(n, t)
      OBVIOUS
    <3> HIDE DEF q
    <3> QED
      BY <1>2, <2>1, <3>3, <3>4
  <2>2. CASE t \notin ready
    BY <2>2
  <2> QED
    BY <2>1, <2>2
<1> HIDE DEF out
<1>8. a \in NodeState
  BY <1>1, <1>6, Zenon DEF NodeState
<1>9. /\ SameCore(n, a) /\ a.next = n.next /\ a.match = n.match
      /\ a.told = n.told /\ a.applied = n.applied
      /\ a.data = n.data /\ a.results = n.results /\ a.up = n.up
      /\ a.out = out
  BY <1>1 DEF NodeState, SameCore
<1> HIDE DEF a
<1>10. a \in Node
  BY <1>5, <1>8, <1>9 DEF Node, SameCore
<1>11. Upright(W, a)
  <2>1. Outgoing(W, n) /\ SendsMore(W, n, a)
    BY <1>7, <1>9 DEF Upright, SendsMore
  <2>2. Outgoing(W, a)
    BY <1>1, <1>9, <2>1, OutgoingAdds
  <2>3. Core(W, a)
    BY <1>9, SameCoreHolds DEF Upright, Core, Committed, SameCore
  <2>4. Progress(W, a) /\ Answers(W, a) /\ Stores(W, a)
    BY <1>9 DEF Upright, Progress, Answers, Stores, SameCore
  <2> QED
    BY <2>2, <2>3, <2>4 DEF Upright
<1>12. a.role = "Leader" /\ (behind # {} => a.snapIndex # 0)
  BY <1>4, <1>9 DEF SameCore
<1>13. /\ Upright(W, SendSnapshot(a, behind))
       /\ SameCore(a, SendSnapshot(a, behind))
       /\ SendSnapshot(a, behind).applied = a.applied
  BY <1>4, <1>10, <1>11, <1>12, SendSnapshotUpright
<1> QED
  BY <1>3, <1>9, <1>13 DEF SameCore

(* send_heartbeats() keeps a leader upright. *)
LEMMA SendHeartbeatsUpright ==
    ASSUME NEW W \in World, Lawful(W), NEW n \in Node, Upright(W, n),
           n.role = "Leader"
    PROVE  /\ Upright(W, SendHeartbeats(n)) /\ SameCore(n, SendHeartbeats(n))
           /\ SendHeartbeats(n).applied = n.applied
<1> DEFINE a == [n EXCEPT !.round = @ + 1]
<1>1. n \in NodeState /\ n.round + 1 \in Nat
  BY NodeFields DEF Node
<1>2. a \in NodeState
  BY <1>1, Zenon DEF NodeState
<1>3. /\ SameCore(n, a) /\ a.next = n.next /\ a.match = n.match
      /\ a.told = n.told /\ a.applied = n.applied
      /\ a.data = n.data /\ a.results = n.results /\ a.up = n.up
      /\ a.out = n.out
  BY <1>1 DEF NodeState, SameCore
<1>4. SendHeartbeats(n) = SendAppendEntries(a, Peers(n))
  BY DEF SendHeartbeats
<1> HIDE DEF a
<1>5. a \in Node /\ a.role = "Leader" /\ a.applied <= a.commit
  BY <1>2, <1>3 DEF Node, SameCore, Upright, Core, Committed
<1>6. Upright(W, a)
  BY <1>3, <1>5, SameCoreUpright
<1>7. Peers(n) \in SUBSET Server
  BY DEF Peers
<1>8. /\ Upright(W, SendAppendEntries(a, Peers(n)))
      /\ SameCore(a, SendAppendEntries(a, Peers(n)))
      /\ SendAppendEntries(a, Peers(n)).applied = a.applied
  BY <1>5, <1>6, <1>7, SendAppendEntriesUpright
<1> QED
  BY <1>3, <1>4, <1>8 DEF SameCore

(* Reads are answered, and nothing else of n changes. *)
LEMMA EvaluateReadBarriersUpright ==
    ASSUME NEW W \in World, NEW n \in Node, Upright(W, n)
    PROVE  /\ Upright(W, EvaluateReadBarriers(n))
           /\ SameCore(n, EvaluateReadBarriers(n))
           /\ EvaluateReadBarriers(n).applied = n.applied
<1> DEFINE r == EvaluateReadBarriers(n)
           served(b) == [type |-> "ReadServed", need |-> b.need, data |-> n.data]
<1>1. n \in NodeState
  BY DEF Node
<1>2. /\ SameCore(n, r) /\ r.applied = n.applied /\ r.next = n.next
      /\ r.match = n.match /\ r.out = n.out /\ r.data = n.data
      /\ r.results = n.results /\ r.up = n.up
  BY <1>1 DEF EvaluateReadBarriers, NodeState, SameCore
<1>3. PICK ready : r.told = n.told \cup {served(b) : b \in ready}
  BY <1>1 DEF EvaluateReadBarriers, NodeState
<1>4. ASSUME NEW c \in r.told PROVE Truthful(W, c)
  <2>1. CASE c \in n.told
    BY <2>1 DEF Upright, Answers
  <2>2. CASE c \notin n.told
    <3>1. c.type = "ReadServed"
      BY <1>3, <2>2
    <3> QED
      BY <3>1 DEF Truthful
  <2> QED
    BY <2>1, <2>2
<1> HIDE DEF r
<1>5. Core(W, r)
  <2>1. Core(W, n) /\ r.applied <= r.commit
    BY <1>2 DEF Upright, Core, Committed, SameCore
  <2> QED
    BY <1>2, <2>1, SameCoreHolds
<1>6. Progress(W, r)
  BY <1>2 DEF Upright, Progress, SameCore
<1>7. Outgoing(W, r)
  <2>1. Outgoing(W, n) /\ r.id = n.id
    BY <1>2 DEF Upright, SameCore
  <2>2. \A m : Solicits(r, m) = Solicits(n, m)
    BY <1>2, SameSolicits
  <2> QED
    BY <1>2, <2>1, <2>2 DEF Outgoing
<1>8. Stores(W, r)
  BY <1>2 DEF Upright, Stores, SameCore
<1> QED
  BY <1>2, <1>4, <1>5, <1>6, <1>7, <1>8 DEF Upright, Answers, r

(* The entries applied next are the committed ones. *)
LEMMA AppliedCommandsChosen ==
    ASSUME NEW W \in World, NEW n \in Node, Committed(W, n), NEW upto \in Nat,
           n.applied <= upto,
           n.applied < upto => upto <= LastIndex(n) /\ upto <= n.commit
    PROVE  /\ \A k \in n.applied + 1 .. upto :
                ValueAt(n, k) = W.chosen[k].value
           /\ Values(W, upto) = Values(W, n.applied) \cup AppliedCommands(n, upto)
<1>1. /\ n \in NodeState /\ n.applied \in Nat /\ n.snapIndex \in Nat
      /\ n.commit \in Nat /\ n.snapIndex <= n.applied /\ Len(n.log) \in Nat
      /\ LastIndex(n) = n.snapIndex + Len(n.log)
  BY NodeFields DEF Node, LastIndex
<1>2. ASSUME NEW k \in n.applied + 1 .. upto
      PROVE  ValueAt(n, k) = W.chosen[k].value
  <2>1. /\ k - n.snapIndex \in 1 .. Len(n.log)
        /\ n.snapIndex + (k - n.snapIndex) = k /\ k <= n.commit
    BY <1>1
  <2>2. n.log[k - n.snapIndex] = W.chosen[k]
    BY <2>1 DEF Committed
  <2> QED
    BY <2>2 DEF ValueAt
<1>3. AppliedCommands(n, upto) = {W.chosen[k].value : k \in n.applied + 1 .. upto} \ {NoOp}
  BY <1>2 DEF AppliedCommands
<1>4. 1 .. upto = 1 .. n.applied \cup (n.applied + 1 .. upto)
  BY <1>1
<1> QED
  BY <1>2, <1>3, <1>4 DEF Values

(* apply_committed() applies what is committed and reports it so. *)
LEMMA ExecutedUpright ==
    ASSUME NEW W \in World, NEW n \in Node, Upright(W, n), NEW upto \in Nat,
           n.applied <= upto,
           n.applied < upto => upto <= LastIndex(n) /\ upto <= n.commit
    PROVE  /\ Upright(W, Executed(n, upto)) /\ SameCore(n, Executed(n, upto))
           /\ Executed(n, upto).applied = upto
<1> DEFINE commands == AppliedCommands(n, upto)
           finished == {p \in n.pending : p.index \in n.applied + 1 .. upto}
           done(p) == [type |-> "Applied", term |-> n.term, index |-> p.index,
                       command |-> p.value, value |-> ValueAt(n, p.index)]
           r == Executed(n, upto)
<1>1. /\ n \in NodeState /\ n.applied \in Nat /\ n.snapIndex \in Nat
      /\ n.commit \in Nat /\ n.term \in Nat
  BY NodeFields DEF Node
<1>2. /\ SameCore(n, r) /\ r.applied = upto /\ r.next = n.next
      /\ r.match = n.match /\ r.out = n.out /\ r.up = n.up
      /\ r.data = n.data \cup (commands \ n.results)
      /\ r.results = n.results \cup commands
      /\ r.told = n.told \cup {done(p) : p \in finished}
  BY <1>1 DEF Executed, NodeState, SameCore
<1>3. Committed(W, n) /\ Core(W, n) /\ n.applied <= n.commit
  BY DEF Upright, Core, Committed
<1>4. upto <= n.commit
  BY <1>1, <1>3
<1>5. /\ \A k \in n.applied + 1 .. upto : ValueAt(n, k) = W.chosen[k].value
      /\ Values(W, upto) = Values(W, n.applied) \cup commands
  BY <1>3, AppliedCommandsChosen
<1>6. PICK T \in Nat : ChosenBy(W, n.commit, T) /\ T <= n.term
  BY <1>3 DEF Committed
<1>7. ASSUME NEW p \in finished PROVE Truthful(W, done(p))
  <2>1. p.index \in n.applied + 1 .. upto
    OBVIOUS
  <2>2. p.index \in Nat /\ p.index >= 1 /\ p.index <= n.commit
    BY <1>1, <1>4, <2>1
  <2>3. ChosenBy(W, p.index, n.term)
    BY <1>1, <1>6, <2>2, ChosenByLess
  <2>4. ValueAt(n, p.index) = W.chosen[p.index].value
    BY <1>5, <2>1
  <2>5. /\ done(p).index = p.index /\ done(p).term = n.term
        /\ done(p).value = ValueAt(n, p.index)
    OBVIOUS
  <2> HIDE DEF done
  <2> QED
    BY <2>2, <2>3, <2>4, <2>5 DEF Truthful
<1> HIDE DEF r, commands, done
<1>8. Answers(W, r)
  BY <1>2, <1>7 DEF Upright, Answers
<1> HIDE DEF finished
<1>9. Core(W, r)
  <2>1. r.applied <= r.commit
    BY <1>2, <1>4 DEF SameCore
  <2> QED
    BY <1>2, <1>3, <2>1, SameCoreHolds
<1>10. Progress(W, r)
  BY <1>2 DEF Upright, Progress, SameCore
<1>11. Outgoing(W, r)
  <2>1. Outgoing(W, n) /\ r.id = n.id
    BY <1>2 DEF Upright, SameCore
  <2>2. \A m : Solicits(r, m) = Solicits(n, m)
    BY <1>2, SameSolicits
  <2> QED
    BY <1>2, <2>1, <2>2 DEF Outgoing
<1>12. Stores(W, r)
  <2>1. SUFFICES ASSUME Durable PROVE
          /\ Values(W, r.applied) \subseteq r.data /\ r.results \subseteq r.data
          /\ Threshold = 0 => r.snapIndex = 0
          /\ Threshold # 0 => r.results \subseteq Values(W, r.applied) /\ r.up
    BY DEF Stores
  <2>2. /\ Values(W, n.applied) \subseteq n.data /\ n.results \subseteq n.data
        /\ Threshold = 0 => n.snapIndex = 0
        /\ Threshold # 0 => n.results \subseteq Values(W, n.applied) /\ n.up
    BY <2>1 DEF Upright, Stores
  <2> QED
    BY <1>2, <1>5, <2>2 DEF SameCore
<1> QED
  BY <1>2, <1>8, <1>9, <1>10, <1>11, <1>12 DEF Upright, r

(* apply_committed_entries() keeps a node upright: its store takes what    *)
(* was chosen, and its answers are true.                                   *)
LEMMA ApplyCommittedUpright ==
    ASSUME NEW W \in World, NEW n \in Node, Upright(W, n), NEW limit \in Nat
    PROVE  /\ Upright(W, ApplyCommitted(n, limit))
           /\ SameCore(n, ApplyCommitted(n, limit))
<1>1. PICK upto \in Nat :
        LET r == Executed(n, upto)
            f == [r EXCEPT !.pending = {p \in @ : p.index <= upto},
                           !.barriers = {}]
        IN  /\ n.applied <= upto
            /\ n.applied < upto => upto <= LastIndex(n) /\ upto <= n.commit
            /\ ApplyCommitted(n, limit) \in {f, r, EvaluateReadBarriers(r)}
  BY ApplyCommittedCases
<1> DEFINE r == Executed(n, upto)
           f == [r EXCEPT !.pending = {p \in @ : p.index <= upto},
                          !.barriers = {}]
           e == EvaluateReadBarriers(r)
<1>2. /\ n.applied <= upto
      /\ n.applied < upto => upto <= LastIndex(n) /\ upto <= n.commit
      /\ ApplyCommitted(n, limit) \in {f, r, e}
  BY <1>1
<1>3. r \in Node /\ r \in NodeState /\ Upright(W, r) /\ SameCore(n, r)
  BY <1>2, ExecutedType, ExecutedUpright DEF Node
<1> HIDE DEF r
<1>4. Upright(W, e) /\ SameCore(n, e)
  BY <1>3, EvaluateReadBarriersUpright DEF SameCore
<1>5. Upright(W, f) /\ SameCore(n, f)
  <2>1. /\ SameCore(r, f) /\ f.applied = r.applied /\ f.next = r.next
        /\ f.match = r.match /\ f.out = r.out /\ f.up = r.up
        /\ f.data = r.data /\ f.results = r.results /\ f.told = r.told
    BY <1>3 DEF NodeState, SameCore
  <2>2. r.applied <= r.commit
    BY <1>3 DEF Upright, Core, Committed
  <2> HIDE DEF f
  <2>3. Upright(W, f)
    BY <1>3, <2>1, <2>2, SameCoreUpright DEF SameCore
  <2> QED
    BY <1>3, <2>1, <2>3 DEF SameCore
<1> QED
  BY <1>2, <1>3, <1>4, <1>5

(* r has the log, the term and the role of n; its commit index may differ. *)
SameLog(n, r) ==
    /\ r.id = n.id /\ r.term = n.term /\ r.role = n.role
    /\ r.log = n.log /\ r.snapIndex = n.snapIndex /\ r.snapTerm = n.snapTerm

(* Up to k the log of n is what was chosen. *)
LogIsChosen(W, n, k) ==
    \A i \in 1 .. Len(n.log) :
      n.snapIndex + i <= k => n.log[i] = W.chosen[n.snapIndex + i]

(* n takes k as committed, as a leader up to its term has. *)
LEMMA CommitUpright ==
    ASSUME NEW W \in World, NEW n \in Node, Upright(W, n), NEW k \in Nat,
           n.commit <= k, k <= LastIndex(n), n.role # "Candidate",
           NEW T \in Nat, T <= n.term, ChosenBy(W, k, T), LogIsChosen(W, n, k)
    PROVE  LET c == [n EXCEPT !.commit = k]
           IN  /\ c \in Node /\ Upright(W, c) /\ SameLog(n, c)
               /\ c.commit = k /\ c.applied = n.applied
<1> DEFINE c == [n EXCEPT !.commit = k]
<1>1. /\ n \in NodeState /\ n.applied \in Nat /\ n.commit \in Nat
      /\ n.snapIndex <= n.applied /\ n.out \in [Server -> Seq(Plain)]
  BY NodeFields DEF Node
<1>2. /\ SameLog(n, c) /\ c.commit = k /\ c.applied = n.applied
      /\ c.next = n.next /\ c.match = n.match /\ c.out = n.out /\ c.up = n.up
      /\ c.data = n.data /\ c.results = n.results /\ c.told = n.told
  BY <1>1 DEF NodeState, SameLog
<1>3. c \in NodeState
  BY <1>1, Zenon DEF NodeState
<1> HIDE DEF c
<1>4. c \in Node
  BY <1>1, <1>2, <1>3 DEF Node, SameLog
<1>5. /\ LastIndex(c) = LastIndex(n) /\ LastTerm(c) = LastTerm(n)
  BY <1>2, SameLast DEF SameLog
<1>6. Committed(W, n) /\ Copied(W, n) /\ Recorded(W, n)
  BY DEF Upright, Core
<1>7. Committed(W, c)
  <2>1. k <= Len(W.chosen) /\ n.applied <= k
    BY <1>1, <1>6, ChosenLength DEF Committed
  <2>2. \A i \in 1 .. Len(c.log) :
          c.snapIndex + i <= c.commit => c.log[i] = W.chosen[c.snapIndex + i]
    BY <1>2 DEF SameLog, LogIsChosen
  <2>3. \E t \in Nat : /\ ChosenBy(W, c.commit, t) /\ t <= c.term
                       /\ c.role = "Candidate" => t < c.term
    BY <1>2 DEF SameLog
  <2> QED
    BY <1>2, <1>5, <1>6, <2>1, <2>2, <2>3 DEF Committed, SameLog
<1>8. Copied(W, c)
  BY <1>2, <1>5, <1>6 DEF Copied, Follows, SameLog
<1>9. Recorded(W, c)
  BY <1>2, <1>5, <1>6 DEF Recorded, LastGe, SameLog
<1>10. Progress(W, c) /\ Answers(W, c) /\ Stores(W, c)
  BY <1>2 DEF Upright, Progress, Answers, Stores, SameLog
<1>11. Outgoing(W, c)
  BY <1>2, <1>5 DEF Upright, Outgoing, Solicits, SameLog
<1> QED
  BY <1>2, <1>4, <1>7, <1>8, <1>9, <1>10, <1>11 DEF Upright, Core, c

(* A set of natural numbers has a least element. *)
LEMMA LeastNatural ==
    ASSUME NEW S, S \subseteq Nat, S # {}
    PROVE  \E k \in S : \A j \in S : k <= j
<1> DEFINE R == {ss \in Nat \X Nat : ss[1] < ss[2]}
<1>1. IsWellFoundedOn(R, Nat)
  BY NatLessThanWellFounded, Zenon DEF OpToRel
<1>2. \E k \in S : \A j \in S : <<j, k>> \notin R
  <2> HIDE DEF R
  <2> QED
    BY <1>1, WFMin, Zenon
<1>3. PICK k \in S : \A j \in S : <<j, k>> \notin R
  BY <1>2
<1>4. \A j \in S : k <= j
  <2> TAKE j \in S
  <2>1. <<j, k>> \in Nat \X Nat /\ <<j, k>> \notin R
    BY <1>3
  <2> QED
    BY <2>1
<1> QED
  BY <1>4

(* quorum_match_index() exists, and a majority has at least that much and  *)
(* none has more.                                                          *)
LEMMA QuorumMatch ==
    ASSUME NEW n \in NodeState, NEW top \in Nat,
           \A s \in Server : n.match[s] <= top
    PROVE  /\ QuorumMatchIndex(n) \in Nat /\ QuorumMatchIndex(n) <= top
           /\ Majority({s \in Server : n.match[s] >= QuorumMatchIndex(n)})
           /\ ~Majority({s \in Server : n.match[s] > QuorumMatchIndex(n)})
<1> DEFINE Above(k) == {s \in Server : n.match[s] > k}
           From(k) == {s \in Server : n.match[s] >= k}
           half == (Cardinality(Server) - 1) \div 2
           K == {k \in Nat : Cardinality(Above(k)) <= half}
<1>1. n.match \in [Server -> Nat] /\ n.id \in Server
  BY NodeFields
<1>2. IsFiniteSet(Server) /\ Cardinality(Server) \in Nat /\ Cardinality(Server) # 0
  BY <1>1, ServerAssumption, FS_CardinalityType, FS_EmptySet
<1>3. half \in Nat /\ Cardinality(Server) > half
  BY <1>2
<1>4. \A k \in Nat : Cardinality(Above(k)) \in Nat /\ Cardinality(From(k)) \in Nat
  <2> TAKE k \in Nat
  <2>1. Above(k) \subseteq Server /\ From(k) \subseteq Server
    OBVIOUS
  <2> HIDE DEF Above, From
  <2>2. IsFiniteSet(Above(k)) /\ IsFiniteSet(From(k))
    BY <1>2, <2>1, FS_Subset
  <2> QED
    BY <2>2, FS_CardinalityType
<1>5. top \in K
  <2>1. Above(top) = {}
    BY <1>1
  <2>2. Cardinality(Above(top)) = 0
    BY <2>1, FS_EmptySet
  <2> QED
    BY <1>3, <2>2
<1>6. PICK k \in K : \A j \in K : k <= j
  <2>1. K \in SUBSET Nat
    OBVIOUS
  <2> HIDE DEF K
  <2> QED
    BY <1>5, <2>1, LeastNatural
<1>7. Cardinality(From(k)) > half
  <2>1. CASE k = 0
    <3>1. From(k) = Server
      BY <1>1, <2>1
    <3> QED
      BY <1>3, <3>1
  <2>2. CASE k # 0
    <3>1. k - 1 \in Nat /\ k - 1 \notin K
      BY <1>6, <2>2
    <3>2. Above(k - 1) = From(k)
      BY <1>1, <3>1
    <3>3. ~(Cardinality(Above(k - 1)) <= half)
      BY <3>1
    <3> HIDE DEF Above, From, half
    <3> QED
      BY <1>3, <1>4, <3>1, <3>2, <3>3
  <2> QED
    BY <2>1, <2>2
<1>8. k \in {n.match[s] : s \in Server}
  <2>1. SUFFICES ASSUME k \notin {n.match[s] : s \in Server} PROVE FALSE
    OBVIOUS
  <2>2. From(k) = Above(k)
    BY <1>1, <2>1
  <2>3. Cardinality(Above(k)) <= half /\ k \in Nat
    OBVIOUS
  <2> HIDE DEF Above, From, half
  <2> QED
    BY <1>3, <1>4, <1>7, <2>2, <2>3
<1>9. Cardinality(From(k)) > half /\ Cardinality(Above(k)) <= half
  BY <1>7
<1> DEFINE q == QuorumMatchIndex(n)
<1>10. /\ q \in {n.match[s] : s \in Server}
       /\ Cardinality({s \in Server : n.match[s] >= q})
             > (Cardinality(Server) - 1) \div 2
       /\ Cardinality({s \in Server : n.match[s] > q})
             <= (Cardinality(Server) - 1) \div 2
  BY <1>8, <1>9, Zenon DEF QuorumMatchIndex
<1>11. q \in Nat /\ q <= top
  BY <1>1, <1>10
<1> HIDE DEF q
<1>12. Cardinality({s \in Server : n.match[s] > q}) \in Nat
  <2>1. {s \in Server : n.match[s] > q} \subseteq Server
    OBVIOUS
  <2> QED
    BY <1>2, <2>1, FS_Subset, FS_CardinalityType
<1> QED
  BY <1>3, <1>10, <1>11, <1>12 DEF Majority, q

(* The history grows where no log of a leader does. *)
Chooses(W, U, s) ==
    /\ Extends(W, U, s) /\ Lawful(U)
    /\ U.logs = W.logs /\ U.held = W.held /\ U.terms = W.terms

(* advance_commit(): what a majority has of the leader's own term is       *)
(* chosen.                                                                 *)
LEMMA QuorumMatchChosen ==
    ASSUME NEW W \in World, Lawful(W), NEW n \in Node, Upright(W, n),
           n.role = "Leader", NEW k \in Nat, k = QuorumMatchIndex(n),
           k \in n.commit + 1 .. LastIndex(n), TermAt(n, k) = n.term
    PROVE  \E U \in World : Chooses(W, U, n.id) /\ ChosenBy(U, k, n.term)
<1> DEFINE M == {s \in Server : n.match[s] >= k}
           T == n.term
<1>1. /\ n \in NodeState /\ n.applied \in Nat /\ n.commit \in Nat
      /\ n.snapIndex \in Nat /\ n.id \in Server /\ LastIndex(n) \in Nat
      /\ n.snapIndex <= n.applied /\ T \in Nat /\ n.match \in [Server -> Nat]
  BY NodeFields, LastIndexType DEF Node
<1>2. Core(W, n) /\ n.applied <= n.commit
  BY DEF Upright, Core, Committed
<1>3. \A q \in Server : Replicated(W, q, n.match[q], T)
  BY DEF Upright, Progress
<1>4. Own(W, k, T)
  <2>1. Stored(n, k) /\ k # 0 /\ k <= LastIndex(n)
    BY <1>1, <1>2 DEF Stored
  <2>2. LastIndex(n) = Len(W.logs[T]) /\ TermAt(n, k) = W.logs[T][k].term
    BY <1>2, <2>1, LeaderLog
  <2> QED
    BY <2>1, <2>2 DEF Own, Has
<1>5. Majority(M)
  <2>1. Len(W.logs[T]) \in Nat
    BY <1>1, WorldFields
  <2>2. \A q \in Server : n.match[q] <= Len(W.logs[T])
    BY <1>3 DEF Replicated
  <2> QED
    BY <1>1, <2>1, <2>2, QuorumMatch
<1>6. CASE ChosenBy(W, k, T)
  BY <1>1, <1>6, ExtendsReflexive DEF Chooses
<1>7. CASE ~ChosenBy(W, k, T)
  <2>1. M \subseteq Holders(W, k, T)
    <3> SUFFICES ASSUME NEW q \in M PROVE <<q, k, T>> \in W.held
      BY DEF Holders
    <3>1. n.match[q] \in Nat /\ k <= n.match[q] /\ q \in Server
      BY <1>1
    <3> QED
      BY <1>3, <1>4, <1>7, <3>1 DEF Replicated
  <2>2. Majority(Holders(W, k, T))
    BY <1>5, <2>1, MajorityGrows DEF Holders
  <2>3. \E U \in World :
          /\ Extends(W, U, n.id) /\ Lawful(U)
          /\ U.logs = W.logs /\ U.held = W.held /\ U.terms = W.terms
          /\ ChosenBy(U, k, T)
    BY <1>1, <1>4, <2>2, ChosenGrows
  <2> QED
    BY <2>3 DEF Chooses
<1> QED
  BY <1>6, <1>7

(* A node is upright in a history that chose more. *)
LEMMA ChoosesUpright ==
    ASSUME NEW W \in World, NEW U \in World, NEW n \in Node, Upright(W, n),
           Chooses(W, U, n.id)
    PROVE  Upright(U, n)
<1>1. n \in NodeState /\ n.id \in Server /\ n.snapIndex <= n.applied
  BY NodeFields DEF Node
<1> QED
  BY <1>1, UprightGrows DEF Chooses

(* advance_commit_index() keeps a leader upright in a history that has     *)
(* chosen what the leader now commits.                                     *)
LEMMA AdvanceCommitUpright ==
    ASSUME NEW W \in World, Lawful(W), NEW n \in Node, Upright(W, n),
           n.role = "Leader", NEW limit \in Nat
    PROVE  \E U \in World : /\ Chooses(W, U, n.id)
                            /\ Upright(U, AdvanceCommit(n, limit))
                            /\ SameLog(n, AdvanceCommit(n, limit))
<1> DEFINE k == QuorumMatchIndex(n)
           c == [n EXCEPT !.commit = k]
           r == ApplyCommitted(c, limit)
<1>1. /\ n \in NodeState /\ n.id \in Server /\ n.snapIndex <= n.applied
      /\ n.commit \in Nat /\ n.term \in Nat /\ LastIndex(n) \in Nat
  BY NodeFields, LastIndexType DEF Node
<1>2. CASE k \in n.commit + 1 .. LastIndex(n) /\ TermAt(n, k) = n.term
  <2>1. k \in Nat /\ n.commit <= k /\ k <= LastIndex(n)
    BY <1>1, <1>2
  <2>2. PICK U \in World : Chooses(W, U, n.id) /\ ChosenBy(U, k, n.term)
    BY <1>2, <2>1, QuorumMatchChosen
  <2>3. Upright(U, n) /\ Lawful(U) /\ Core(U, n)
    BY <2>2, ChoosesUpright DEF Chooses, Upright
  <2>4. LogIsChosen(U, n, k)
    <3>1. U.logs[n.term] # << >>
      BY <2>3, LeaderLog
    <3>2. Agree(U.chosen, U.logs[n.term], k)
      BY <1>1, <2>1, <2>2, <2>3, <3>1, ChosenInLog
    <3>3. \A i \in 1 .. Len(n.log) : n.log[i] = U.logs[n.term][n.snapIndex + i]
      BY <2>3 DEF Core, Copied, Follows
    <3>4. n.snapIndex \in Nat /\ Len(n.log) \in Nat
      BY <1>1, NodeFields
    <3> HIDE DEF k
    <3>5. ASSUME NEW i \in 1 .. Len(n.log), n.snapIndex + i <= k
          PROVE  n.log[i] = U.chosen[n.snapIndex + i]
      <4>1. n.snapIndex + i \in 1 .. k
        BY <2>1, <3>4, <3>5
      <4> QED
        BY <3>2, <3>3, <4>1 DEF Agree
    <3> QED
      BY <3>5 DEF LogIsChosen
  <2>5. c \in Node /\ Upright(U, c) /\ SameLog(n, c)
    <3>1. n.role # "Candidate" /\ n.term <= n.term /\ ChosenBy(U, k, n.term)
      BY <1>1, <2>2
    <3> HIDE DEF k
    <3> QED
      BY ONLY <1>1, <2>1, <2>3, <2>4, <3>1, n \in Node, U \in World, CommitUpright DEF c
  <2> HIDE DEF c
  <2>6. r \in Node /\ Upright(U, r) /\ SameLog(n, r)
    BY <2>5, ApplyCommittedType, ApplyCommittedUpright DEF SameLog, SameCore
  <2> HIDE DEF r
  <2>7. r.role = "Leader"
    BY <2>6 DEF SameLog
  <2>8. Upright(U, SendHeartbeats(r)) /\ SameLog(n, SendHeartbeats(r))
    BY <2>3, <2>6, <2>7, SendHeartbeatsUpright DEF SameLog, SameCore
  <2>9. AdvanceCommit(n, limit) \in {r, SendHeartbeats(r)}
    BY <1>2 DEF AdvanceCommit, r, c
  <2> QED
    BY <2>2, <2>6, <2>8, <2>9
<1>3. CASE ~(k \in n.commit + 1 .. LastIndex(n) /\ TermAt(n, k) = n.term)
  <2>1. AdvanceCommit(n, limit) = n
    BY <1>3 DEF AdvanceCommit
  <2> QED
    BY <1>1, <2>1, ExtendsReflexive DEF Chooses, SameLog
<1> QED
  BY <1>2, <1>3

(* r ends in the same entry as n, in the same term and role. *)
SameEnd(n, r) ==
    /\ r.id = n.id /\ r.term = n.term /\ r.role = n.role
    /\ LastIndex(r) = LastIndex(n) /\ LastTerm(r) = LastTerm(n)

(* Nodes with the same log and boundary end alike. *)
LEMMA SameLogEnd ==
    ASSUME NEW n, NEW r, SameLog(n, r)
    PROVE  SameEnd(n, r)
BY SameLast DEF SameLog, SameEnd

(* So do nodes with the same core. *)
LEMMA SameCoreEnd ==
    ASSUME NEW n, NEW r, SameCore(n, r)
    PROVE  SameEnd(n, r)
BY SameLast DEF SameCore, SameEnd

(* The log of n from index b on, b included in the boundary. *)
LEMMA CutPrefix ==
    ASSUME NEW n \in NodeState, NEW b \in Nat, Stored(n, b), n.snapIndex < b,
           NEW r \in NodeState,
           r.snapIndex = b, r.snapTerm = TermAt(n, b),
           r.log = SubSeq(n.log, b - n.snapIndex + 1, Len(n.log))
    PROVE  /\ LastIndex(r) = LastIndex(n) /\ LastTerm(r) = LastTerm(n)
           /\ \A i \in 1 .. Len(r.log) :
                /\ i + (b - n.snapIndex) \in 1 .. Len(n.log)
                /\ r.log[i] = n.log[i + (b - n.snapIndex)]
                /\ r.snapIndex + i = n.snapIndex + (i + (b - n.snapIndex))
           /\ r.log # << >> => n.log # << >>
<1> DEFINE d == b - n.snapIndex
<1>1. /\ n.log \in Seq(Entry) /\ n.snapIndex \in Nat /\ Len(n.log) \in Nat
      /\ LastIndex(n) = n.snapIndex + Len(n.log)
      /\ LastIndex(r) = r.snapIndex + Len(r.log)
  BY NodeFields DEF LastIndex
<1>2. d \in 1 .. Len(n.log) /\ b = n.snapIndex + d
  BY <1>1, SMTT(30) DEF Stored
<1>c. r.log = SubSeq(n.log, d + 1, Len(n.log)) /\ d \in Nat
  BY <1>2
<1> HIDE DEF d
<1>3. Len(r.log) = Len(n.log) - d
  BY ONLY <1>1, <1>2, <1>c
<1>4. \A i \in 1 .. Len(r.log) :
        i + d \in 1 .. Len(n.log) /\ r.log[i] = n.log[i + d]
  <2> TAKE i \in 1 .. Len(r.log)
  <2>1. i \in Nat /\ i >= 1 /\ i <= Len(n.log) - d
    BY ONLY <1>1, <1>2, <1>3, i \in 1 .. Len(r.log)
  <2>2. i + d \in 1 .. Len(n.log) /\ i + d = (d + 1) + i - 1
    BY ONLY <1>1, <1>2, <2>1
  <2>3. SubSeq(n.log, d + 1, Len(n.log))[i] = n.log[(d + 1) + i - 1]
    BY ONLY <1>1, <1>2, <2>1, <1>c
  <2> QED
    BY <1>c, <2>2, <2>3
<1>5. LastIndex(r) = LastIndex(n)
  BY ONLY <1>1, <1>2, <1>3, r.snapIndex = b
<1>6. LastTerm(r) = LastTerm(n)
  <2>1. CASE r.log = << >>
    <3>1. Len(n.log) = d /\ LastIndex(n) = b
      <4>1. Len(r.log) = 0
        BY ONLY <2>1
      <4> QED
        BY ONLY <1>1, <1>2, <1>3, <4>1
    <3>2. LastTerm(r) = r.snapTerm
      BY <2>1, LastTermType
    <3> QED
      BY <3>1, <3>2 DEF LastTerm
  <2>2. CASE r.log # << >>
    <3>1. Len(r.log) # 0 /\ Len(r.log) \in Nat
      <4>1. r.log \in Seq(Entry)
        BY ONLY NodeFields, r \in NodeState
      <4> QED
        BY ONLY <2>2, <4>1
    <3>2. Len(r.log) \in 1 .. Len(r.log) /\ Len(r.log) + d = Len(n.log)
      BY ONLY <1>1, <1>2, <1>3, <3>1
    <3>3. r.log[Len(r.log)] = n.log[Len(n.log)]
      BY <1>4, <3>2
    <3>4. n.log # << >>
      BY <1>1, <1>2
    <3>5. /\ LastTerm(r) = r.log[Len(r.log)].term
          /\ LastTerm(n) = n.log[Len(n.log)].term
      BY <2>2, <3>4, LastTermType
    <3> QED
      BY <3>3, <3>5
  <2> QED
    BY <2>1, <2>2
<1>7. \A i \in 1 .. Len(r.log) : r.snapIndex + i = n.snapIndex + (i + d)
  BY ONLY <1>1, <1>2, r.snapIndex = b
<1>8. r.log # << >> => n.log # << >>
  BY <1>1, <1>2
<1> QED
  BY <1>4, <1>5, <1>6, <1>7, <1>8 DEF d

(* maybe_compact_log() *)
LEMMA MaybeCompactUpright ==
    ASSUME NEW W \in World, NEW n \in Node, Upright(W, n)
    PROVE  Upright(W, MaybeCompact(n)) /\ SameEnd(n, MaybeCompact(n))
<1> DEFINE b == n.applied
           r == [n EXCEPT !.snapIndex = n.applied, !.snapTerm = TermAt(n, n.applied),
                   !.log = SubSeq(@, n.applied - n.snapIndex + 1, Len(@))]
           due == /\ n.role # "Candidate"
                  /\ Threshold # 0 /\ Len(n.log) >= Threshold
                  /\ n.applied > n.snapIndex /\ Stored(n, n.applied)
<1>1. CASE ~due
  <2>1. MaybeCompact(n) = n
    BY <1>1 DEF MaybeCompact
  <2> QED
    BY <2>1 DEF SameEnd
<1>2. CASE due
  <2>1. MaybeCompact(n) = r
    BY <1>2 DEF MaybeCompact
  <2>2. /\ n \in NodeState /\ n.applied \in Nat /\ n.snapIndex \in Nat
        /\ n.commit \in Nat /\ n.log \in Seq(Entry)
    BY NodeFields DEF Node
  <2>3. r \in NodeState
    BY <2>1, MaybeCompactType DEF Node
  <2>4. /\ r.id = n.id /\ r.term = n.term /\ r.role = n.role
        /\ r.snapIndex = b /\ r.snapTerm = TermAt(n, b)
        /\ r.log = SubSeq(n.log, b - n.snapIndex + 1, Len(n.log))
        /\ r.commit = n.commit /\ r.applied = n.applied /\ r.next = n.next
        /\ r.match = n.match /\ r.out = n.out /\ r.told = n.told
        /\ r.data = n.data /\ r.results = n.results /\ r.up = n.up
    BY <2>2 DEF NodeState
  <2> HIDE DEF r
  <2>5. /\ LastIndex(r) = LastIndex(n) /\ LastTerm(r) = LastTerm(n)
        /\ \A i \in 1 .. Len(r.log) :
             /\ i + (b - n.snapIndex) \in 1 .. Len(n.log)
             /\ r.log[i] = n.log[i + (b - n.snapIndex)]
             /\ r.snapIndex + i = n.snapIndex + (i + (b - n.snapIndex))
        /\ r.log # << >> => n.log # << >>
    BY <1>2, <2>2, <2>3, <2>4, CutPrefix
  <2>6. Committed(W, n) /\ Copied(W, n) /\ Recorded(W, n)
    BY DEF Upright, Core
  <2>7. Committed(W, r)
    <3>1. b <= n.commit
      BY <2>6 DEF Committed
    <3>2. r.snapTerm = ChosenTerm(W, r.snapIndex)
      BY <1>2, <2>2, <2>4, <2>6, <3>1, CommittedTerms
    <3>3. \A i \in 1 .. Len(r.log) : r.snapIndex + i <= r.commit =>
            r.log[i] = W.chosen[r.snapIndex + i]
      BY <2>4, <2>5, <2>6 DEF Committed
    <3> QED
      BY <2>4, <2>5, <2>6, <3>2, <3>3 DEF Committed
  <2>8. Copied(W, r)
    <3>1. \A T : Follows(W, n, T) => Follows(W, r, T)
      BY <2>5 DEF Follows
    <3> QED
      BY <2>4, <2>5, <2>6, <3>1 DEF Copied
  <2>9. Recorded(W, r)
    <3>1. \A i \in 1 .. Len(r.log) :
            <<r.id, r.snapIndex + i, r.log[i].term>> \in W.held
      BY <2>4, <2>5, <2>6 DEF Recorded
    <3>2. ASSUME NEW j \in Nat, NEW t \in Nat, <<r.id, j, t>> \in W.held
          PROVE  /\ LastGe(r, j, t) \/ Lost(W, j, t)
                 /\ t = r.term => j <= LastIndex(r)
      BY <2>4, <2>5, <2>6, <3>2 DEF Recorded, LastGe
    <3>3. ASSUME NEW j \in Nat, NEW t \in Nat, <<r.id, j, t>> \in W.held,
                 t = r.term, j > r.snapIndex
          PROVE  r.log[j - r.snapIndex].term = t
      <4>1. j > n.snapIndex /\ j <= LastIndex(n)
        BY <1>2, <2>2, <2>4, <2>6, <3>3 DEF Recorded
      <4>2. n.log[j - n.snapIndex].term = t
        BY <2>4, <2>6, <3>3, <4>1 DEF Recorded
      <4>3. j - r.snapIndex \in 1 .. Len(r.log)
        <5>1. LastIndex(r) = r.snapIndex + Len(r.log) /\ Len(r.log) \in Nat
          BY <2>3, NodeFields DEF LastIndex
        <5>2. j <= LastIndex(r) /\ r.snapIndex \in Nat
          BY <2>2, <2>4, <2>5, <4>1
        <5> QED
          BY ONLY <3>3, <5>1, <5>2
      <4>4. j - r.snapIndex + (b - n.snapIndex) = j - n.snapIndex
        BY <2>2, <2>4
      <4>5. r.log[j - r.snapIndex] = n.log[j - r.snapIndex + (b - n.snapIndex)]
        BY <2>5, <4>3
      <4> QED
        BY <4>2, <4>4, <4>5
    <3> QED
      BY <2>4, <2>6, <3>1, <3>2, <3>3 DEF Recorded
  <2>10. Progress(W, r) /\ Answers(W, r)
    BY <2>4 DEF Upright, Progress, Answers
  <2>11. Stores(W, r)
    BY <1>2, <2>4 DEF Upright, Stores
  <2>12. Outgoing(W, r)
    BY <2>4, <2>5 DEF Upright, Outgoing, Solicits
  <2> QED
    BY <2>1, <2>4, <2>5, <2>7, <2>8, <2>9, <2>10, <2>11, <2>12
    DEF Upright, Core, SameEnd
<1> QED
  BY <1>1, <1>2

(* The compaction and the answers to reads that end a tick keep a node     *)
(* upright.                                                                *)
LEMMA AfterTickUpright ==
    ASSUME NEW W \in World, NEW n \in Node, Upright(W, n), NEW limit \in Nat
    PROVE  Upright(W, AfterTick(n, limit)) /\ SameEnd(n, AfterTick(n, limit))
<1> DEFINE r == ApplyCommitted(n, limit)
<1>1. r \in Node /\ Upright(W, r) /\ SameEnd(n, r)
  BY ApplyCommittedType, ApplyCommittedUpright, SameCoreEnd
<1>2. AfterTick(n, limit) = MaybeCompact(r)
  BY DEF AfterTick
<1> HIDE DEF r
<1>3. Upright(W, MaybeCompact(r)) /\ SameEnd(r, MaybeCompact(r))
  BY <1>1, MaybeCompactUpright
<1> QED
  BY <1>1, <1>2, <1>3 DEF SameEnd

-----------------------------------------------------------------------------
(* Changes of the term. *)

(* A step of s that adds to no log of a leader. *)
Grows(W, U, s) == Extends(W, U, s) /\ Lawful(U) /\ U.logs = W.logs

(* A history that grows twice grows. *)
LEMMA GrowsTransitive ==
    ASSUME NEW W \in World, NEW U \in World, NEW X \in World, NEW s \in Server,
           Grows(W, U, s), Grows(U, X, s)
    PROVE  Grows(W, X, s)
BY ExtendsTransitive DEF Grows

(* A history grows by staying as it is. *)
LEMMA GrowsReflexive ==
    ASSUME NEW W \in World, Lawful(W), NEW s \in Server
    PROVE  Grows(W, W, s)
BY ExtendsReflexive DEF Grows

(* A history that chooses more grows. *)
LEMMA ChoosesGrows ==
    ASSUME NEW W, NEW U, NEW s, Chooses(W, U, s)
    PROVE  Grows(W, U, s)
BY DEF Chooses, Grows

(* r has the log, the stores and the messages of n. *)
SameStores(n, r) ==
    /\ r.id = n.id /\ r.log = n.log /\ r.snapIndex = n.snapIndex
    /\ r.snapTerm = n.snapTerm /\ r.commit = n.commit /\ r.applied = n.applied
    /\ r.out = n.out /\ r.told = n.told /\ r.data = n.data
    /\ r.results = n.results /\ r.up = n.up

(* become_follower(), start_election(): only the term and the role change. *)
LEMMA TermUpright ==
    ASSUME NEW W \in World, Lawful(W), NEW n \in Node, Upright(W, n),
           NEW r \in Node, SameStores(n, r), \A q \in Server : r.next[q] >= 1,
           \/ r.role = "Follower" /\ r.term >= n.term
           \/ r.role = "Candidate" /\ r.term > n.term
    PROVE  \E U \in World : Grows(W, U, n.id) /\ Upright(U, r)
<1>1. /\ n \in NodeState /\ r \in NodeState /\ n.id \in Server
      /\ n.term \in Nat /\ r.term \in Nat /\ n.snapIndex <= n.applied
      /\ n.applied \in Nat /\ n.commit \in Nat
  BY NodeFields DEF Node
<1>2. Committed(W, n) /\ Copied(W, n) /\ Recorded(W, n) /\ r.term >= n.term
  BY <1>1 DEF Upright, Core
<1>3. W.terms[n.id] = n.term
  BY <1>2 DEF Recorded
<1>4. PICK U \in World :
        /\ Extends(W, U, n.id) /\ Lawful(U)
        /\ U.logs = W.logs /\ U.chosen = W.chosen /\ U.held = W.held
        /\ U.terms = [W.terms EXCEPT ![n.id] = r.term]
  BY <1>1, <1>2, <1>3, TermGrows
<1>5. LastIndex(r) = LastIndex(n) /\ LastTerm(r) = LastTerm(n)
  BY SameLast DEF SameStores
<1>6. Committed(U, r)
  <2>1. Committed(U, n)
    BY <1>1, <1>2, <1>4, CommittedGrows
  <2>2. PICK T \in Nat : /\ ChosenBy(W, n.commit, T) /\ T <= n.term
    BY <1>2 DEF Committed
  <2>3. ChosenBy(U, n.commit, T)
    BY <1>1, <1>4, <2>2, ExtendsChosenBy
  <2>4. \E t \in Nat : /\ ChosenBy(U, r.commit, t) /\ t <= r.term
                       /\ r.role = "Candidate" => t < r.term
    BY <1>1, <1>2, <2>2, <2>3 DEF SameStores
  <2> QED
    BY <1>5, <2>1, <2>4 DEF Committed, SameStores
<1>7. Copied(U, r)
  BY <1>2, <1>4, <1>5 DEF Copied, Follows, SameStores
<1>8. Recorded(U, r)
  <2>1. U.terms[r.id] = r.term
    BY <1>1, <1>4, WorldFields DEF SameStores
  <2>2. \A i \in 1 .. Len(r.log) :
          <<r.id, r.snapIndex + i, r.log[i].term>> \in U.held
    BY <1>2, <1>4 DEF Recorded, SameStores
  <2>3. ASSUME NEW j \in Nat, NEW t \in Nat, <<r.id, j, t>> \in U.held
        PROVE  /\ LastGe(r, j, t) \/ Lost(U, j, t)
               /\ t = r.term => /\ j <= LastIndex(r)
                                /\ j > r.snapIndex => r.log[j - r.snapIndex].term = t
    <3>1. <<n.id, j, t>> \in W.held
      BY <1>4, <2>3 DEF SameStores
    <3>2. LastGe(n, j, t) \/ Lost(W, j, t)
      BY <1>2, <3>1 DEF Recorded
    <3>3. Lost(W, j, t) => Lost(U, j, t)
      BY <1>1, <1>4, ExtendsLost
    <3>4. t <= n.term
      <4>1. <<n.id, j, t>>[3] <= W.terms[<<n.id, j, t>>[1]]
        BY <3>1, Zenon DEF Lawful, HeldIsOwn
      <4> QED
        BY <1>3, <4>1
    <3>5. t = r.term => t = n.term
      BY <1>1, <1>2, <3>4
    <3>6. t = n.term => /\ j <= LastIndex(n)
                        /\ j > n.snapIndex => n.log[j - n.snapIndex].term = t
      BY <1>2, <3>1 DEF Recorded
    <3> QED
      BY <1>5, <3>2, <3>3, <3>5, <3>6 DEF LastGe, SameStores
  <2> QED
    BY <2>1, <2>2, <2>3 DEF Recorded
<1>9. Progress(U, r)
  BY DEF Progress
<1>10. Answers(U, r)
  <2>1. Answers(U, n)
    BY <1>1, <1>4, AnswersGrow DEF Upright
  <2> QED
    BY <2>1 DEF Answers, SameStores
<1>11. Stores(U, r)
  <2>1. n.applied <= Len(W.chosen)
    BY <1>1, <1>2, WorldFields DEF Committed
  <2>2. Stores(U, n)
    BY <1>1, <1>4, <2>1, StoresGrow DEF Upright
  <2> QED
    BY <2>2 DEF Stores, SameStores
<1>12. Outgoing(U, r)
  <2>1. Outgoing(U, n) /\ Outgoing(W, n)
    BY <1>1, <1>4, OutgoingGrows DEF Upright
  <2> SUFFICES ASSUME NEW t \in Server, NEW i \in DOMAIN n.out[t]
               PROVE  Vouched(U, n.id, n.out[t][i]) /\ Solicits(r, n.out[t][i])
    BY DEF Outgoing, SameStores
  <2>2. Vouched(U, n.id, n.out[t][i]) /\ Solicits(n, n.out[t][i])
    BY <2>1 DEF Outgoing
  <2>3. n.out[t][i] \in Message
    <3>1. n.out[t] \in Seq(Message)
      BY <1>1, NodeFields
    <3> QED
      BY <3>1
  <2>4. n.out[t][i].term \in Nat
    BY <2>3, MessageOfType
  <2>5. Solicits(r, n.out[t][i])
    BY <1>1, <1>2, <1>5, <2>2, <2>4 DEF Solicits
  <2> QED
    BY <2>2, <2>5
<1> QED
  BY <1>4, <1>6, <1>7, <1>8, <1>9, <1>10, <1>11, <1>12 DEF Upright, Core, Grows

(* become_follower() keeps a node upright in a history that knows its new  *)
(* term.                                                                   *)
LEMMA BecomeFollowerUpright ==
    ASSUME NEW W \in World, Lawful(W), NEW n \in Node, Upright(W, n),
           NEW term \in Nat, NEW leader \in Server \cup {Nil}
    PROVE  \E U \in World : /\ Grows(W, U, n.id)
                            /\ Upright(U, BecomeFollower(n, term, leader))
<1> DEFINE r == BecomeFollower(n, term, leader)
<1>1. n \in NodeState /\ n.term \in Nat
  BY NodeFields DEF Node
<1>2. r \in Node /\ r.role = "Follower" /\ r.term = MaxOf(n.term, term)
  BY BecomeFollowerType
<1>3. SameStores(n, r) /\ r.next = n.next
  BY <1>1 DEF BecomeFollower, NodeState, SameStores
<1>4. \A q \in Server : r.next[q] >= 1
  BY <1>3 DEF Upright, Progress
<1>5. r.term >= n.term
  BY <1>1, <1>2 DEF MaxOf
<1> HIDE DEF r
<1>6. \E U \in World : Grows(W, U, n.id) /\ Upright(U, r)
  BY <1>2, <1>3, <1>4, <1>5, TermUpright
<1> QED
  BY <1>6 DEF r

(* A node that heeds a message of its term or a later one becomes an       *)
(* upright follower of that term.                                          *)
LEMMA HeedUpright ==
    ASSUME NEW W \in World, Lawful(W), NEW n \in Node, Upright(W, n),
           NEW m, m.term \in Nat, NEW f \in Server, m.term >= n.term
    PROVE  /\ \E U \in World : Grows(W, U, n.id) /\ Upright(U, Heed(n, m, f))
           /\ Heed(n, m, f).role = "Follower" /\ Heed(n, m, f).term = m.term
           /\ SameStores(n, Heed(n, m, f))
<1>1. n \in NodeState /\ n.term \in Nat
  BY NodeFields DEF Node
<1>2. CASE m.term > n.term \/ n.role # "Follower"
  <2>1. Heed(n, m, f) = BecomeFollower(n, m.term, f)
    BY <1>2 DEF Heed
  <2>2. SameStores(n, BecomeFollower(n, m.term, f))
    BY <1>1 DEF BecomeFollower, NodeState, SameStores
  <2>3. /\ BecomeFollower(n, m.term, f).role = "Follower"
        /\ BecomeFollower(n, m.term, f).term = m.term
    BY <1>1, BecomeFollowerType DEF MaxOf
  <2>4. \E U \in World : Grows(W, U, n.id) /\ Upright(U, BecomeFollower(n, m.term, f))
    BY BecomeFollowerUpright
  <2> QED
    BY <2>1, <2>2, <2>3, <2>4
<1>3. CASE ~(m.term > n.term \/ n.role # "Follower")
  <2> DEFINE r == [n EXCEPT !.leader = f]
  <2>1. Heed(n, m, f) = r
    BY <1>3 DEF Heed
  <2>2. /\ SameStores(n, r) /\ SameCore(n, r) /\ r.next = n.next
        /\ r.match = n.match /\ r.role = "Follower" /\ r.term = n.term
    BY <1>1, <1>3 DEF NodeState, SameStores, SameCore
  <2> HIDE DEF r
  <2>3. r.applied <= r.commit
    BY <2>2 DEF Upright, Core, Committed, SameStores
  <2>4. Upright(W, r)
    BY <2>2, <2>3, SameCoreUpright DEF SameStores
  <2>5. m.term = n.term
    BY <1>1, <1>3
  <2>6. n.id \in Server
    BY <1>1, NodeFields
  <2> QED
    BY <2>1, <2>2, <2>4, <2>5, <2>6, GrowsReflexive
<1> QED
  BY <1>2, <1>3

(* A node that starts an election becomes an upright candidate of the next *)
(* term.                                                                   *)
LEMMA CampaignUpright ==
    ASSUME NEW W \in World, Lawful(W), NEW n \in Node, Upright(W, n)
    PROVE  /\ \E U \in World : Grows(W, U, n.id) /\ Upright(U, Campaign(n))
           /\ SameStores(n, Campaign(n))
<1> DEFINE r == Campaign(n)
<1>1. n \in NodeState /\ n.term \in Nat
  BY NodeFields DEF Node
<1>2. r \in Node /\ r.role = "Candidate" /\ r.term = n.term + 1
  BY CampaignType
<1>3. SameStores(n, r) /\ r.next = n.next
  BY <1>1 DEF Campaign, NodeState, SameStores
<1>4. \A q \in Server : r.next[q] >= 1
  BY <1>3 DEF Upright, Progress
<1>5. r.term > n.term
  BY <1>1, <1>2
<1> HIDE DEF r
<1>6. \E U \in World : Grows(W, U, n.id) /\ Upright(U, r)
  BY <1>2, <1>3, <1>4, <1>5, TermUpright
<1> QED
  BY <1>3, <1>6 DEF r

(* The requests for votes tell where the log of the candidate ends. *)
LEMMA RequestVotesUpright ==
    ASSUME NEW W \in World, NEW n \in Node, Upright(W, n)
    PROVE  Upright(W, RequestVotes(n)) /\ SameCore(n, RequestVotes(n))
<1> DEFINE m == [type |-> "RequestVote", term |-> n.term,
                 lastIndex |-> LastIndex(n), lastTerm |-> LastTerm(n)]
           r == RequestVotes(n)
<1>1. /\ n \in NodeState /\ n.out \in [Server -> Seq(Message)] /\ n.term \in Nat
      /\ LastIndex(n) \in Nat /\ LastTerm(n) \in Nat
  BY NodeFields, LastTermType DEF Node
<1>2. m \in Message
  BY <1>1 DEF Message, RequestVoteRequest
<1>3. Vouched(W, n.id, m) /\ Solicits(n, m)
  BY <1>1 DEF Vouched, Solicits
<1>4. /\ SameCore(n, r) /\ r.next = n.next /\ r.match = n.match
      /\ r.told = n.told /\ r.applied = n.applied
      /\ r.data = n.data /\ r.results = n.results /\ r.up = n.up
      /\ r.out = [s \in Server |-> IF s \in Peers(n)
                                   THEN Append(n.out[s], m) ELSE n.out[s]]
  BY <1>1 DEF NodeState, RequestVotes, SameCore
<1> HIDE DEF r, m
<1>5. SendsMore(W, n, r)
  <2> SUFFICES ASSUME NEW t \in Server
               PROVE  \/ r.out[t] = n.out[t]
                      \/ \E q \in Seq(Message) :
                           /\ r.out[t] = n.out[t] \o q
                           /\ \A i \in DOMAIN q :
                                Vouched(W, n.id, q[i]) /\ Solicits(n, q[i])
    BY DEF SendsMore
  <2>1. CASE t \in Peers(n)
    <3>1. n.out[t] \in Seq(Message) /\ r.out[t] = Append(n.out[t], m)
      BY <1>1, <1>4, <2>1
    <3>2. r.out[t] = n.out[t] \o <<m>> /\ <<m>> \in Seq(Message)
      BY <1>2, <3>1
    <3>3. \A i \in DOMAIN <<m>> : <<m>>[i] = m
      OBVIOUS
    <3> QED
      BY <1>3, <3>2, <3>3
  <2>2. CASE t \notin Peers(n)
    BY <1>4, <2>2
  <2> QED
    BY <2>1, <2>2
<1>6. Outgoing(W, r)
  BY <1>1, <1>4, <1>5, OutgoingAdds DEF Upright
<1>7. Core(W, r)
  BY <1>4, SameCoreHolds DEF Upright, Core, Committed, SameCore
<1>8. Progress(W, r) /\ Answers(W, r) /\ Stores(W, r)
  BY <1>4 DEF Upright, Progress, Answers, Stores, SameCore
<1> QED
  BY <1>4, <1>6, <1>7, <1>8 DEF Upright, r

-----------------------------------------------------------------------------
(* The log of a leader grows. *)

(* The log of n is p. *)
Carries(n, p) ==
    LastIndex(n) = Len(p) /\ \A i \in 1 .. Len(n.log) : n.log[i] = p[n.snapIndex + i]

(* The log of a leader may be written to: it is the log of its term. *)
LEMMA LeaderOpens ==
    ASSUME NEW W \in World, Lawful(W), NEW n \in Node, Core(W, n),
           n.role = "Leader"
    PROVE  Opens(W, n.term, W.logs[n.term]) /\ Carries(n, W.logs[n.term])
<1> DEFINE T == n.term
           p == W.logs[T]
<1>1. T \in Nat
  BY NodeFields DEF Node
<1>2. p \in Seq(Entry) /\ Len(p) \in Nat
  BY <1>1, WorldFields
<1>3. p # << >> /\ LastIndex(n) = Len(p)
  BY LeaderLog
<1>4. Carries(n, p)
  BY <1>3 DEF Core, Copied, Follows, Carries
<1>5. Agree(p, p, Len(p))
  BY <1>2, AgreeSame
<1>6. Len(p) \in 1 .. Len(p)
  BY <1>2, <1>3
<1>7. /\ p[Len(p)].term = T
      /\ \A j \in 1 .. Len(p) : \A i \in 1 .. j : p[i].term <= p[j].term
  BY <1>1, <1>3 DEF Lawful, LogsOrdered
<1>8. \A j \in 1 .. Len(p) : p[j].term <= T
  <2> TAKE j \in 1 .. Len(p)
  <2>1. j \in 1 .. Len(p) /\ Len(p) \in 1 .. Len(p)
    BY <1>6
  <2> HIDE DEF p
  <2> QED
    BY <1>7, <2>1
<1>9. \A i \in 1 .. Len(p) : Agree(p, W.logs[p[i].term], i)
  BY <1>1 DEF Lawful, LogsMatch
<1>10. \A t, j \in Nat : t < T /\ Own(W, j, t) =>
         (j <= Len(p) /\ p[j].term = t) \/ Lost(W, j, t)
  <2> TAKE t, j \in Nat
  <2> HAVE t < T /\ Own(W, j, t)
  <2>1. Has(W, T, j, t) \/ Lost(W, j, t)
    BY <1>1, <1>3 DEF Lawful, LogsComplete
  <2> QED
    BY <1>2, <2>1 DEF Has
<1>11. \A j \in 1 .. Len(p) : p[j].term = T => Own(W, j, T)
  BY DEF Own, Has
<1>12. \E V \in SUBSET Server :
         HasQuorum(Cardinality(V)) /\ \A v \in V : W.terms[v] >= T
  BY <1>1, <1>3 DEF Lawful, QuorumReached
<1> HIDE DEF p, T
<1>13. Opens(W, T, p)
  <2>1. W.logs[T] = p
    BY DEF p
  <2> QED
    BY <1>5, <1>7, <1>8, <1>9, <1>10, <1>11, <1>12, <2>1 DEF Opens
<1> QED
  BY <1>4, <1>13 DEF p, T

(* The peers have what n takes them to have. *)
Matches(W, n) ==
    \A q \in Server :
      /\ n.match[q] <= LastIndex(n)
      /\ \A j \in Nat : j <= n.match[q] /\ Own(W, j, n.term) =>
           <<q, j, n.term>> \in W.held \/ ChosenBy(W, j, n.term)

(* The history after server s of term T added e to the log p. *)
Adds(W, U, s, T, p, e) ==
    /\ Extends(W, U, s) /\ Lawful(U)
    /\ U.chosen = W.chosen /\ U.terms = W.terms
    /\ U.logs = [W.logs EXCEPT ![T] = Append(p, e)]
    /\ U.held = W.held \cup {<<s, Len(p) + 1, T>>}

(* Everything that makes a leader upright but for the log of its term. *)
LeaderToBe(W, n) ==
    /\ Committed(W, n) /\ Recorded(W, n) /\ Outgoing(W, n) /\ Answers(W, n)
    /\ Stores(W, n) /\ Matches(W, n) /\ n.role = "Leader"
    /\ \A q \in Server : n.next[q] >= 1

(* What append_log() of a leader changes. *)
LEMMA AppendOwnFields ==
    ASSUME NEW n \in Node, NEW value \in Command
    PROVE  LET r == AppendOwn(n, value)
               e == [term |-> n.term, value |-> value]
           IN  /\ r.id = n.id /\ r.term = n.term /\ r.role = n.role
               /\ r.snapIndex = n.snapIndex /\ r.snapTerm = n.snapTerm
               /\ r.log = Append(n.log, e) /\ e \in Entry /\ e.term = n.term
               /\ LastIndex(r) = LastIndex(n) + 1 /\ LastTerm(r) = n.term
               /\ r.commit = n.commit /\ r.applied = n.applied
               /\ r.match = [n.match EXCEPT ![n.id] = LastIndex(n) + 1]
               /\ r.next = [n.next EXCEPT ![n.id] = LastIndex(n) + 2]
               /\ r.out = n.out /\ r.told = n.told /\ r.data = n.data
               /\ r.results = n.results /\ r.up = n.up
<1> DEFINE r == AppendOwn(n, value)
           e == [term |-> n.term, value |-> value]
<1>1. /\ n \in NodeState /\ n.log \in Seq(Entry) /\ n.snapIndex \in Nat
      /\ n.term \in Nat /\ Len(n.log) \in Nat
      /\ LastIndex(n) = n.snapIndex + Len(n.log)
  BY NodeFields DEF Node, LastIndex
<1>2. e \in Entry /\ e.term = n.term
  BY <1>1 DEF Entry
<1>3. /\ r.id = n.id /\ r.term = n.term /\ r.role = n.role
      /\ r.snapIndex = n.snapIndex /\ r.snapTerm = n.snapTerm
      /\ r.log = Append(n.log, e)
      /\ r.commit = n.commit /\ r.applied = n.applied
      /\ r.match = [n.match EXCEPT ![n.id] = LastIndex(n) + 1]
      /\ r.next = [n.next EXCEPT ![n.id] = LastIndex(n) + 2]
      /\ r.out = n.out /\ r.told = n.told /\ r.data = n.data
      /\ r.results = n.results /\ r.up = n.up
  BY <1>1 DEF AppendOwn, NodeState
<1> HIDE DEF r, e
<1>4. Len(r.log) = Len(n.log) + 1 /\ r.log[Len(n.log) + 1] = e
  BY <1>1, <1>2, <1>3
<1>5. LastIndex(r) = LastIndex(n) + 1
  <2>1. LastIndex(r) = n.snapIndex + (Len(n.log) + 1)
    BY <1>3, <1>4 DEF LastIndex
  <2>2. n.snapIndex \in Nat /\ Len(n.log) \in Nat
    BY <1>1
  <2> QED
    BY ONLY <2>1, <2>2, <1>1
<1>6. LastTerm(r) = n.term
  <2>1. LastIndex(r) - r.snapIndex = Len(n.log) + 1 /\ LastIndex(r) # r.snapIndex
    BY <1>1, <1>3, <1>5
  <2> QED
    BY <1>2, <1>4, <2>1 DEF LastTerm, TermAt
<1> QED
  BY <1>2, <1>3, <1>5, <1>6 DEF r, e

(* The leader appends: in the history, and in its own log. *)
LEMMA AddsUpright ==
    ASSUME NEW W \in World, Lawful(W), NEW n \in Node, LeaderToBe(W, n),
           NEW value \in Command, NEW p \in Seq(Entry),
           Opens(W, n.term, p), Carries(n, p), NEW U \in World,
           Adds(W, U, n.id, n.term, p, [term |-> n.term, value |-> value])
    PROVE  Upright(U, AppendOwn(n, value))
<1> DEFINE r == AppendOwn(n, value)
           e == [term |-> n.term, value |-> value]
           T == n.term
           s == n.id
<1>1. /\ n \in NodeState /\ n.log \in Seq(Entry) /\ n.snapIndex \in Nat
      /\ T \in Nat /\ Len(n.log) \in Nat /\ s \in Server
      /\ LastIndex(n) = n.snapIndex + Len(n.log) /\ LastIndex(n) \in Nat
      /\ n.commit \in Nat /\ n.applied \in Nat /\ n.snapIndex <= n.applied
      /\ n.match \in [Server -> Nat] /\ n.next \in [Server -> Nat]
  BY NodeFields, LastTermType DEF Node
<1>2. /\ r.id = s /\ r.term = T /\ r.role = "Leader"
      /\ r.snapIndex = n.snapIndex /\ r.snapTerm = n.snapTerm
      /\ r.log = Append(n.log, e) /\ e \in Entry /\ e.term = T
      /\ LastIndex(r) = LastIndex(n) + 1 /\ LastTerm(r) = T
      /\ r.commit = n.commit /\ r.applied = n.applied
      /\ r.match = [n.match EXCEPT ![s] = LastIndex(n) + 1]
      /\ r.next = [n.next EXCEPT ![s] = LastIndex(n) + 2]
      /\ r.out = n.out /\ r.told = n.told /\ r.data = n.data
      /\ r.results = n.results /\ r.up = n.up
  BY AppendOwnFields DEF LeaderToBe
<1>3. Adds(W, U, s, T, p, e)
  OBVIOUS
<1> HIDE DEF r, e
<1>4. /\ U.logs[T] = Append(p, e) /\ Extends(W, U, s) /\ Lawful(U)
      /\ U.chosen = W.chosen /\ U.terms = W.terms
      /\ U.held = W.held \cup {<<s, Len(p) + 1, T>>}
  <2>1. W.logs \in [Nat -> Seq(Entry)]
    BY WorldFields
  <2> QED
    BY <1>1, <1>3, <2>1 DEF Adds
<1>5. LastIndex(n) = Len(p) /\ Len(p) \in Nat
  BY <1>1 DEF Carries
<1>6. /\ Len(r.log) = Len(n.log) + 1 /\ r.log[Len(n.log) + 1] = e
      /\ \A i \in 1 .. Len(n.log) : r.log[i] = n.log[i]
  BY <1>1, <1>2
<1>7. /\ Len(U.logs[T]) = Len(p) + 1 /\ U.logs[T][Len(p) + 1] = e
      /\ \A i \in 1 .. Len(p) : U.logs[T][i] = p[i]
  BY <1>2, <1>4, <1>5
<1>8. Committed(W, n) /\ Recorded(W, n) /\ n.commit <= LastIndex(n) /\ n.applied <= n.commit
  BY DEF LeaderToBe, Committed
<1>9. Committed(U, r)
  <2>1. Committed(U, n)
    BY <1>1, <1>4, <1>8, CommittedGrows
  <2>2. ASSUME NEW i \in 1 .. Len(r.log), r.snapIndex + i <= r.commit
        PROVE  r.log[i] = U.chosen[r.snapIndex + i]
    <3>1. i \in 1 .. Len(n.log)
      BY ONLY <1>1, <1>2, <1>6, <1>8, <2>2, SMTT(30)
    <3> QED
      BY <1>2, <1>6, <2>1, <2>2, <3>1 DEF Committed
  <2>3. r.commit <= LastIndex(r)
    BY ONLY <1>1, <1>2, <1>8
  <2>4. \E t \in Nat : /\ ChosenBy(U, r.commit, t) /\ t <= r.term
                       /\ r.role = "Candidate" => t < r.term
    BY <1>2, <2>1 DEF Committed
  <2> QED
    BY <1>2, <2>1, <2>2, <2>3, <2>4 DEF Committed
<1>10. Copied(U, r)
  <2>1. LastIndex(r) = Len(U.logs[T])
    BY <1>2, <1>5, <1>7
  <2>2. ASSUME NEW i \in 1 .. Len(r.log)
        PROVE  r.log[i] = U.logs[T][r.snapIndex + i]
    <3>1. CASE i \in 1 .. Len(n.log)
      <4>1. r.log[i] = p[n.snapIndex + i]
        BY <1>6, <3>1 DEF Carries
      <4>2. n.snapIndex + i \in 1 .. Len(p)
        BY ONLY <1>1, <1>5, <3>1, SMTT(30)
      <4> QED
        BY <1>2, <1>7, <4>1, <4>2
    <3>2. CASE i \notin 1 .. Len(n.log)
      <4>1. i = Len(n.log) + 1 /\ n.snapIndex + i = Len(p) + 1
        <5>1. i \in 1 .. Len(n.log) + 1 /\ Len(n.log) \in Nat
          BY <1>1, <1>6
        <5>2. i = Len(n.log) + 1
          BY ONLY <3>2, <5>1
        <5>3. n.snapIndex \in Nat /\ Len(p) = n.snapIndex + Len(n.log)
          BY <1>1, <1>5
        <5> QED
          BY ONLY <5>1, <5>2, <5>3
      <4> QED
        BY <1>2, <1>6, <1>7, <4>1
    <3> QED
      BY <3>1, <3>2
  <2>3. Follows(U, r, T)
    <3>1. LastIndex(r) \in Nat
      BY <1>1, <1>2
    <3> QED
      BY <2>1, <2>2, <3>1 DEF Follows
  <2>4. U.logs[T] # << >>
    BY <1>5, <1>7
  <2> QED
    BY <1>2, <2>1, <2>3, <2>4 DEF Copied
<1>11. Recorded(U, r)
  <2>1. U.terms[r.id] = r.term
    BY <1>2, <1>4, <1>8 DEF Recorded
  <2>2. ASSUME NEW i \in 1 .. Len(r.log)
        PROVE  <<r.id, r.snapIndex + i, r.log[i].term>> \in U.held
    <3>1. CASE i \in 1 .. Len(n.log)
      BY <1>2, <1>4, <1>6, <1>8, <3>1 DEF Recorded
    <3>2. CASE i \notin 1 .. Len(n.log)
      <4>1. i = Len(n.log) + 1 /\ n.snapIndex + i = Len(p) + 1
        <5>1. i \in 1 .. Len(n.log) + 1 /\ Len(n.log) \in Nat
          BY <1>1, <1>6
        <5>2. i = Len(n.log) + 1
          BY ONLY <3>2, <5>1
        <5>3. n.snapIndex \in Nat /\ Len(p) = n.snapIndex + Len(n.log)
          BY <1>1, <1>5
        <5> QED
          BY ONLY <5>1, <5>2, <5>3
      <4> QED
        BY <1>2, <1>4, <1>6, <4>1
    <3> QED
      BY <3>1, <3>2
  <2>3. ASSUME NEW j \in Nat, NEW t \in Nat, <<r.id, j, t>> \in U.held
        PROVE  /\ LastGe(r, j, t) \/ Lost(U, j, t)
               /\ t = r.term => /\ j <= LastIndex(r)
                                /\ j > r.snapIndex => r.log[j - r.snapIndex].term = t
    <3>1. CASE <<s, j, t>> \in W.held
      <4>1. t <= T
        <5>1. <<s, j, t>>[3] <= W.terms[<<s, j, t>>[1]]
          BY <3>1, Zenon DEF Lawful, HeldIsOwn
        <5> QED
          BY <1>8, <5>1 DEF Recorded
      <4>2. t = T => /\ j <= LastIndex(n)
                     /\ j > n.snapIndex => n.log[j - n.snapIndex].term = t
        BY <1>8, <3>1 DEF Recorded
      <4>3. t = T => j <= LastIndex(r)
        BY <1>1, <1>2, <4>2
      <4>4. LastGe(r, j, t)
        BY <1>1, <1>2, <4>1, <4>3 DEF LastGe
      <4>5. t = T /\ j > n.snapIndex => r.log[j - n.snapIndex].term = t
        <5> SUFFICES ASSUME t = T, j > n.snapIndex
                     PROVE  r.log[j - n.snapIndex].term = t
          OBVIOUS
        <5>1. j - n.snapIndex \in 1 .. Len(n.log)
          BY <1>1, <4>2, SMTT(30)
        <5> QED
          BY <1>6, <4>2, <5>1
      <4> QED
        BY <1>2, <4>3, <4>4, <4>5
    <3>2. CASE <<s, j, t>> \notin W.held
      <4>1. j = Len(p) + 1 /\ t = T
        BY <1>2, <1>4, <2>3, <3>2
      <4>2. j - r.snapIndex = Len(n.log) + 1 /\ j <= LastIndex(r) /\ LastIndex(r) >= j
        BY <1>1, <1>2, <1>5, <4>1, SMTT(30)
      <4> QED
        BY <1>2, <1>6, <4>1, <4>2 DEF LastGe
    <3> QED
      BY <3>1, <3>2
  <2> QED
    BY <2>1, <2>2, <2>3 DEF Recorded
<1>12. Progress(U, r)
  <2>1. \A q \in Server : r.next[q] >= 1
    BY <1>1, <1>2 DEF LeaderToBe
  <2>2. ASSUME NEW j \in Nat, j <= Len(p), Own(U, j, T)
        PROVE  Own(W, j, T)
    <3>1. j \in 1 .. Len(p) /\ U.logs[T][j].term = T
      BY <1>5, <2>2 DEF Own, Has
    <3>2. p[j].term = T
      BY <1>7, <3>1
    <3> QED
      BY <3>1, <3>2 DEF Opens
  <2>3. ASSUME NEW q \in Server PROVE Replicated(U, q, r.match[q], T)
    <3>1. CASE q # s
      <4>1. r.match[q] = n.match[q] /\ n.match[q] \in Nat /\ n.match[q] <= Len(p)
        BY <1>1, <1>2, <1>5, <3>1 DEF LeaderToBe, Matches
      <4>2. ASSUME NEW j \in Nat, j <= r.match[q], Own(U, j, T)
            PROVE  <<q, j, T>> \in U.held \/ ChosenBy(U, j, T)
        <5>1. Own(W, j, T)
          BY <1>5, <2>2, <4>1, <4>2
        <5>2. <<q, j, T>> \in W.held \/ ChosenBy(W, j, T)
          BY <4>1, <4>2, <5>1 DEF LeaderToBe, Matches
        <5>3. ChosenBy(W, j, T) => ChosenBy(U, j, T)
          BY <1>1, <1>4, ExtendsChosenBy
        <5> QED
          BY <1>4, <5>2, <5>3
      <4>3. r.match[q] <= Len(U.logs[T])
        BY <1>5, <1>7, <4>1
      <4> QED
        BY <4>2, <4>3 DEF Replicated
    <3>2. CASE q = s
      <4>1. r.match[q] = Len(p) + 1
        BY <1>1, <1>2, <1>5, <3>2
      <4>2. ASSUME NEW j \in Nat, j <= r.match[q], Own(U, j, T)
            PROVE  <<q, j, T>> \in U.held \/ ChosenBy(U, j, T)
        <5>1. CASE j = Len(p) + 1
          BY <1>4, <3>2, <5>1
        <5>2. CASE j # Len(p) + 1 /\ j > n.snapIndex
          <6>1. j <= Len(p)
            BY <1>5, <4>1, <4>2, <5>2
          <6>2. Own(W, j, T)
            BY <2>2, <4>2, <6>1
          <6>3. j - n.snapIndex \in 1 .. Len(n.log) /\ n.snapIndex + (j - n.snapIndex) = j
            BY <1>1, <1>5, <5>2, <6>1, SMTT(30)
          <6>4. n.log[j - n.snapIndex] = p[j]
            BY <6>3 DEF Carries
          <6>5. U.logs[T][j].term = T /\ j \in 1 .. Len(p)
            BY <1>5, <4>2, <6>1 DEF Own, Has
          <6>6. n.log[j - n.snapIndex].term = T
            BY <1>7, <6>4, <6>5
          <6>7. <<s, j, T>> \in W.held
            BY <1>8, <6>3, <6>6 DEF Recorded
          <6> QED
            BY <1>4, <3>2, <6>7
        <5>3. CASE j <= n.snapIndex
          <6>1. PICK t \in Nat : ChosenBy(W, n.commit, t) /\ t <= T
            BY <1>8 DEF Committed
          <6>2. j <= n.commit
            BY <1>1, <1>8, <5>3
          <6>3. ChosenBy(W, j, T)
            BY <1>1, <6>1, <6>2, ChosenByLess
          <6> QED
            BY <1>1, <1>4, <6>3, ExtendsChosenBy
        <5> QED
          BY <1>1, <5>1, <5>2, <5>3
      <4>3. r.match[q] <= Len(U.logs[T])
        BY <1>5, <1>7, <4>1
      <4> QED
        BY <4>2, <4>3 DEF Replicated
    <3> QED
      BY <3>1, <3>2
  <2> QED
    BY <1>2, <2>1, <2>3 DEF Progress
<1>13. Answers(U, r)
  <2>1. Answers(U, n)
    BY <1>1, <1>4, AnswersGrow DEF LeaderToBe
  <2> QED
    BY <1>2, <2>1 DEF Answers
<1>14. Stores(U, r)
  <2>1. n.applied <= Len(W.chosen)
    BY <1>1, <1>8, WorldFields DEF Committed
  <2>2. Stores(U, n)
    BY <1>1, <1>4, <2>1, StoresGrow DEF LeaderToBe
  <2> QED
    BY <1>2, <2>2 DEF Stores
<1>15. Outgoing(U, r)
  <2>1. Outgoing(U, n)
    BY <1>1, <1>4, OutgoingGrows DEF LeaderToBe
  <2>2. \A m : Solicits(n, m) => Solicits(r, m)
    BY <1>2 DEF Solicits
  <2> QED
    BY <1>2, <2>1, <2>2 DEF Outgoing
<1> QED
  BY <1>9, <1>10, <1>11, <1>12, <1>13, <1>14, <1>15 DEF Upright, Core, r

(* The entry a leader writes leads to a lawful history. *)
LEMMA OpensAdds ==
    ASSUME NEW W \in World, Lawful(W), NEW s \in Server, NEW T \in Nat,
           W.terms[s] = T, NEW p \in Seq(Entry), Opens(W, T, p),
           NEW e \in Entry, e.term = T
    PROVE  \E U \in World : Adds(W, U, s, T, p, e)
BY LogGrows DEF Adds

(* A step of s, the leader of T, that adds to no other log of a leader. *)
Leads(W, U, s, T) ==
    /\ Extends(W, U, s) /\ Lawful(U)
    /\ \A t \in Nat \ {T} : U.logs[t] = W.logs[t]

(* A leader that goes on twice goes on. *)
LEMMA LeadsTransitive ==
    ASSUME NEW W \in World, NEW U \in World, NEW X \in World, NEW s \in Server,
           NEW T, Leads(W, U, s, T), Leads(U, X, s, T)
    PROVE  Leads(W, X, s, T)
BY ExtendsTransitive DEF Leads

(* A history that grows keeps the logs of all terms. *)
LEMMA GrowsLeads ==
    ASSUME NEW W, NEW U, NEW s, NEW T, Grows(W, U, s)
    PROVE  Leads(W, U, s, T)
BY DEF Grows, Leads

(* An entry written by the leader of T changes the log of T only. *)
LEMMA AddsLeads ==
    ASSUME NEW W \in World, NEW U, NEW s, NEW T \in Nat, NEW p, NEW e,
           Adds(W, U, s, T, p, e)
    PROVE  Leads(W, U, s, T)
<1>1. W.logs \in [Nat -> Seq(Entry)]
  BY WorldFields
<1> QED
  BY <1>1 DEF Adds, Leads

(* The append of a leader to the log of its term. *)
LEMMA AppendOwnUpright ==
    ASSUME NEW W \in World, Lawful(W), NEW n \in Node, Upright(W, n),
           n.role = "Leader", NEW value \in Command
    PROVE  \E U \in World : /\ Leads(W, U, n.id, n.term)
                            /\ Upright(U, AppendOwn(n, value))
<1> DEFINE T == n.term
           p == W.logs[T]
           e == [term |-> n.term, value |-> value]
<1>1. /\ T \in Nat /\ n.id \in Server
  BY NodeFields DEF Node
<1>2. p \in Seq(Entry) /\ e \in Entry /\ e.term = T
  BY <1>1, WorldFields DEF Entry
<1>3. Core(W, n) /\ W.terms[n.id] = T
  BY DEF Upright, Core, Recorded
<1>4. Opens(W, T, p) /\ Carries(n, p) /\ LastIndex(n) = Len(p)
  BY <1>3, LeaderOpens DEF Carries
<1>5. LeaderToBe(W, n)
  <2>1. Matches(W, n)
    BY <1>4 DEF Upright, Progress, Replicated, Matches
  <2> QED
    BY <2>1 DEF Upright, Core, Progress, LeaderToBe
<1> HIDE DEF p
<1>6. PICK U \in World : Adds(W, U, n.id, T, p, e)
  BY <1>1, <1>2, <1>3, <1>4, OpensAdds
<1>7. Upright(U, AppendOwn(n, value))
  BY <1>2, <1>4, <1>5, <1>6, AddsUpright
<1> QED
  BY <1>1, <1>6, <1>7, AddsLeads

-----------------------------------------------------------------------------
(* A new leader. *)

(* A quorum that voted for n, none of whose members has an entry of an     *)
(* earlier term that n lacks, unless it is lost anyway.                    *)
Backers(W, n) ==
    \E V \in SUBSET Server :
      /\ HasQuorum(Cardinality(V))
      /\ \A v \in V :
           /\ W.terms[v] >= n.term
           /\ \A j, t \in Nat : <<v, j, t>> \in W.held /\ t < n.term =>
                LastGe(n, j, t) \/ Lost(W, j, t)

(* The log n would have, had it compacted nothing. *)
Whole(W, n) == SubSeq(W.chosen, 1, n.snapIndex) \o n.log

(* The log of a node with what it has compacted put back. *)
LEMMA WholeLog ==
    ASSUME NEW W \in World, NEW n \in NodeState, n.snapIndex <= Len(W.chosen)
    PROVE  /\ Whole(W, n) \in Seq(Entry) /\ Len(Whole(W, n)) = LastIndex(n)
           /\ \A i \in 1 .. n.snapIndex : Whole(W, n)[i] = W.chosen[i]
           /\ \A i \in 1 .. Len(n.log) : Whole(W, n)[n.snapIndex + i] = n.log[i]
           /\ Carries(n, Whole(W, n))
<1> DEFINE c == SubSeq(W.chosen, 1, n.snapIndex)
<1>1. /\ W.chosen \in Seq(Entry) /\ n.log \in Seq(Entry) /\ n.snapIndex \in Nat
      /\ Len(n.log) \in Nat
  BY WorldFields, NodeFields
<1>2. /\ c \in Seq(Entry) /\ Len(c) = n.snapIndex
      /\ \A i \in 1 .. n.snapIndex : c[i] = W.chosen[i]
  BY <1>1
<1> HIDE DEF c
<1> DEFINE p == c \o n.log
<1>3. /\ p \in Seq(Entry) /\ Len(p) = n.snapIndex + Len(n.log)
      /\ \A i \in 1 .. n.snapIndex : p[i] = c[i]
      /\ \A i \in 1 .. Len(n.log) : p[n.snapIndex + i] = n.log[i]
  <2>0. c \in Seq(Entry) /\ n.log \in Seq(Entry)
    BY <1>1, <1>2
  <2>1. p \in Seq(Entry) /\ Len(p) = Len(c) + Len(n.log)
    BY ONLY <2>0
  <2>2. \A i \in 1 .. Len(c) : p[i] = c[i]
    BY <1>1, <1>2
  <2>3. ASSUME NEW i \in 1 .. Len(n.log) PROVE p[Len(c) + i] = n.log[i]
    <3>1. Len(c) + i \in 1 .. Len(c) + Len(n.log) /\ Len(c) + i > Len(c)
      BY <1>1, <1>2
    <3>2. Len(c) + i - Len(c) = i
      BY <1>1, <1>2
    <3> QED
      BY <1>1, <1>2, <3>1, <3>2, SMTT(30)
  <2> QED
    BY <1>2, <2>1, <2>2, <2>3
<1>4. Whole(W, n) = p
  BY DEF Whole, c
<1> HIDE DEF p
<1> QED
  BY <1>2, <1>3, <1>4 DEF Carries, LastIndex

(* What n takes as committed is in the log its last entry comes from. *)
LEMMA WinnerHasCommitted ==
    ASSUME NEW W \in World, Lawful(W), NEW n \in Node, Core(W, n),
           n.role = "Candidate", Backers(W, n), LastIndex(n) # 0
    PROVE  /\ W.logs[LastTerm(n)] # << >>
           /\ Agree(W.chosen, W.logs[LastTerm(n)], n.commit)
           /\ LastTerm(n) < n.term \/ n.log # << >>
<1> DEFINE L == LastTerm(n)
<1>1. /\ n \in NodeState /\ n.log \in Seq(Entry) /\ n.snapIndex \in Nat
      /\ Len(n.log) \in Nat /\ n.commit \in Nat /\ n.applied \in Nat
      /\ n.snapIndex <= n.applied /\ n.term \in Nat /\ L \in Nat
      /\ LastIndex(n) = n.snapIndex + Len(n.log)
  BY NodeFields, LastTermType DEF Node
<1>2. /\ Committed(W, n) /\ Copied(W, n) /\ n.applied <= n.commit
      /\ n.commit <= LastIndex(n)
  BY DEF Core, Committed
<1>3. /\ Len(W.chosen) \in Nat /\ W.logs[L] \in Seq(Entry)
      /\ Len(W.logs[L]) \in Nat
  BY <1>1, WorldFields
<1>4. n.log # << >> => W.logs[L] # << >>
  <2> SUFFICES ASSUME n.log # << >> PROVE W.logs[L] # << >>
    OBVIOUS
  <2>1. Len(n.log) # 0 /\ n.snapIndex + Len(n.log) <= Len(W.logs[L])
    BY <1>1, <1>2 DEF Copied, Follows
  <2> QED
    BY <1>1, <1>3, <2>1
<1>5. CASE n.commit = 0
  <2>1. n.snapIndex = 0
    BY <1>1, <1>2, <1>5
  <2>2. n.log # << >>
    BY <1>1, <2>1
  <2> QED
    BY <1>3, <1>4, <1>5, <2>2 DEF Agree
<1>6. CASE n.commit # 0
  <2>1. PICK T \in Nat : ChosenBy(W, n.commit, T) /\ T < n.term
    BY <1>2 DEF Committed
  <2>2. PICK t \in Nat, j \in Nat :
          /\ t <= T /\ Own(W, j, t) /\ n.commit <= j
          /\ Agree(W.chosen, W.logs[t], n.commit)
          /\ Majority(Holders(W, j, t))
    BY <1>6, <2>1 DEF ChosenBy
  <2>3. t < n.term /\ Len(W.logs[t]) \in Nat
    <3>1. Len(W.logs[t]) \in Nat
      BY WorldFields
    <3>2. t \in Nat /\ T \in Nat /\ n.term \in Nat /\ t <= T /\ T < n.term
      BY <1>1, <2>1, <2>2
    <3> QED
      BY ONLY <3>1, <3>2
  <2>4. PICK V \in SUBSET Server :
          /\ HasQuorum(Cardinality(V))
          /\ \A v \in V : \A i, u \in Nat : <<v, i, u>> \in W.held /\ u < n.term =>
               LastGe(n, i, u) \/ Lost(W, i, u)
    BY DEF Backers
  <2>5. V \cap Holders(W, j, t) # {}
    BY <2>2, <2>4, QuorumMeetsMajority DEF Holders
  <2>6. PICK v \in V : <<v, j, t>> \in W.held
    BY <2>5 DEF Holders
  <2>7. ~Lost(W, j, t)
    BY <2>2, HeldNotLost
  <2>8. LastGe(n, j, t)
    BY <2>3, <2>4, <2>6, <2>7
  <2>9. L >= t
    BY <1>1, <2>8 DEF LastGe
  <2>10. CASE L = t
    <3>1. W.logs[L] # << >>
      BY <2>2, <2>3, <2>10 DEF Own, Has
    <3> QED
      BY <2>2, <2>3, <2>10, <3>1
  <2>11. CASE L # t
    <3>1. L > t
      BY <1>1, <2>9, <2>11
    <3>2. n.log = << >> => W.logs[L] # << >> /\ L < n.term
      <4> SUFFICES ASSUME n.log = << >> PROVE W.logs[L] # << >> /\ L < n.term
        OBVIOUS
      <4>1. L = n.snapTerm /\ n.snapIndex # 0 /\ n.snapIndex = n.commit
        BY <1>1, <1>2, LastTermType
      <4>2. L = W.chosen[n.commit].term
        BY <1>2, <4>1 DEF Committed, ChosenTerm
      <4>3. n.commit \in 1 .. Len(W.logs[t]) /\ W.chosen[n.commit] = W.logs[t][n.commit]
        BY <1>1, <1>6, <2>2, <2>3, SMTT(30) DEF Agree
      <4>4. Agree(W.logs[t], W.logs[L], n.commit)
        BY <4>2, <4>3 DEF Lawful, LogsMatch
      <4>5. W.logs[L] # << >>
        BY <1>1, <1>3, <1>6, <4>4 DEF Agree
      <4>6. W.logs[t][n.commit].term <= W.logs[t][Len(W.logs[t])].term
        <5>1. Len(W.logs[t]) \in 1 .. Len(W.logs[t])
          BY <2>3, <4>3
        <5>2. n.commit \in 1 .. Len(W.logs[t])
          BY <4>3
        <5> QED
          BY <5>1, <5>2 DEF Lawful, LogsOrdered
      <4>7. W.logs[t] # << >>
        BY <4>3
      <4>8. W.logs[t][Len(W.logs[t])].term = t
        BY <4>7 DEF Lawful, LogsOrdered
      <4>9. L <= t
        BY <4>2, <4>3, <4>6, <4>8
      <4> QED
        BY <1>1, <3>1, <4>9
    <3>3. W.logs[L] # << >>
      BY <1>4, <3>2
    <3>4. Has(W, L, j, t)
      BY <1>1, <2>2, <2>7, <3>1, <3>3 DEF Lawful, LogsComplete
    <3>5. Agree(W.logs[L], W.logs[t], j)
      BY <1>1, <3>4 DEF Lawful, LogsMatch, Has
    <3>6. Agree(W.logs[t], W.logs[L], n.commit)
      BY <1>1, <1>3, <2>2, <2>3, <3>5, AgreeLess
    <3>7. Agree(W.chosen, W.logs[L], n.commit)
      BY <2>2, <3>6, AgreeTransitive
    <3> QED
      BY <3>2, <3>3, <3>7
  <2> QED
    BY <2>10, <2>11
<1> QED
  BY <1>5, <1>6

(* The log of a candidate that wins is a beginning of the log its last     *)
(* entry comes from.                                                       *)
LEMMA WinnerFollows ==
    ASSUME NEW W \in World, Lawful(W), NEW n \in Node, Core(W, n),
           n.role = "Candidate", Backers(W, n), LastIndex(n) # 0,
           W.logs[n.term] = << >>
    PROVE  /\ LastTerm(n) < n.term /\ W.logs[LastTerm(n)] # << >>
           /\ Agree(Whole(W, n), W.logs[LastTerm(n)], LastIndex(n))
           /\ W.logs[LastTerm(n)][LastIndex(n)].term = LastTerm(n)
<1> DEFINE L == LastTerm(n)
           p == Whole(W, n)
<1>1. /\ n \in NodeState /\ n.log \in Seq(Entry) /\ n.snapIndex \in Nat
      /\ Len(n.log) \in Nat /\ n.commit \in Nat /\ n.applied \in Nat
      /\ n.snapIndex <= n.applied /\ n.term \in Nat /\ L \in Nat
      /\ LastIndex(n) = n.snapIndex + Len(n.log) /\ n.id \in Server
  BY NodeFields, LastTermType DEF Node
<1>2. /\ Committed(W, n) /\ Copied(W, n) /\ Recorded(W, n)
      /\ n.applied <= n.commit /\ n.commit <= LastIndex(n)
      /\ n.commit <= Len(W.chosen)
  BY DEF Core, Committed
<1>3. /\ Len(W.chosen) \in Nat /\ W.logs[L] \in Seq(Entry)
      /\ Len(W.logs[L]) \in Nat
  BY <1>1, WorldFields
<1>4. n.snapIndex <= n.commit /\ n.snapIndex <= Len(W.chosen)
  BY ONLY <1>1, <1>2, <1>3
<1>5. /\ p \in Seq(Entry) /\ Len(p) = LastIndex(n)
      /\ \A i \in 1 .. n.snapIndex : p[i] = W.chosen[i]
      /\ \A i \in 1 .. Len(n.log) : p[n.snapIndex + i] = n.log[i]
  BY <1>1, <1>4, WholeLog
<1>6. /\ W.logs[L] # << >> /\ Agree(W.chosen, W.logs[L], n.commit)
      /\ L < n.term \/ n.log # << >>
  BY WinnerHasCommitted
<1> HIDE DEF p
<1>7. L < n.term
  <2>1. CASE n.log = << >>
    BY <1>6, <2>1
  <2>2. CASE n.log # << >>
    <3>1. Len(n.log) \in 1 .. Len(n.log) /\ L = n.log[Len(n.log)].term
      BY <1>1, <2>2, LastTermType
    <3>2. <<n.id, n.snapIndex + Len(n.log), L>> \in W.held /\ W.terms[n.id] = n.term
      BY <1>2, <3>1 DEF Recorded
    <3>3. <<n.id, n.snapIndex + Len(n.log), L>>[3]
            <= W.terms[<<n.id, n.snapIndex + Len(n.log), L>>[1]]
      BY <3>2, Zenon DEF Lawful, HeldIsOwn
    <3>4. L <= n.term
      BY <3>2, <3>3
    <3> QED
      BY <1>1, <1>6, <3>4
  <2> QED
    BY <2>1, <2>2
<1>8. n.log # << >> => Follows(W, n, L)
  BY <1>2 DEF Copied
<1>9. LastIndex(n) <= Len(W.logs[L])
  <2>1. CASE n.log = << >>
    <3>1. LastIndex(n) = n.commit
      BY <1>1, <1>2, <1>4, <2>1
    <3> QED
      BY <1>6, <3>1 DEF Agree
  <2>2. CASE n.log # << >>
    BY <1>8, <2>2 DEF Follows
  <2> QED
    BY <2>1, <2>2
<1>10. ASSUME NEW i \in 1 .. LastIndex(n) PROVE p[i] = W.logs[L][i]
  <2>1. CASE i <= n.snapIndex
    <3>1. i \in 1 .. n.snapIndex /\ i \in 1 .. n.commit
      BY <1>1, <1>4, <2>1
    <3>2. W.chosen[i] = W.logs[L][i]
      BY <1>6, <3>1 DEF Agree
    <3> QED
      BY <1>5, <3>1, <3>2
  <2>2. CASE i > n.snapIndex
    <3>1. i - n.snapIndex \in 1 .. Len(n.log) /\ n.snapIndex + (i - n.snapIndex) = i
      BY <1>1, <2>2
    <3>2. n.log # << >>
      BY <3>1
    <3>3. n.log[i - n.snapIndex] = W.logs[L][i]
      BY <1>8, <3>1, <3>2 DEF Follows
    <3>4. p[n.snapIndex + (i - n.snapIndex)] = n.log[i - n.snapIndex]
      BY <1>5, <3>1
    <3> QED
      BY <3>1, <3>3, <3>4
  <2> QED
    BY <1>1, <2>1, <2>2
<1>11. Agree(p, W.logs[L], LastIndex(n))
  BY <1>1, <1>5, <1>9, <1>10 DEF Agree
<1>12. W.logs[L][LastIndex(n)].term = L
  <2>1. CASE n.log = << >>
    <3>1. LastIndex(n) = n.commit /\ LastIndex(n) = n.snapIndex /\ L = n.snapTerm
      BY <1>1, <1>2, <1>4, <2>1, LastTermType
    <3>2. L = W.chosen[n.commit].term
      BY <1>2, <3>1 DEF Committed, ChosenTerm
    <3>3. n.commit \in 1 .. n.commit
      BY <1>1, <3>1
    <3>4. W.chosen[n.commit] = W.logs[L][n.commit]
      BY <1>6, <3>3 DEF Agree
    <3> QED
      BY <3>1, <3>2, <3>4
  <2>2. CASE n.log # << >>
    <3>1. Len(n.log) \in 1 .. Len(n.log) /\ L = n.log[Len(n.log)].term
      BY <1>1, <2>2, LastTermType
    <3>2. n.log[Len(n.log)] = W.logs[L][n.snapIndex + Len(n.log)]
      BY <1>8, <2>2, <3>1 DEF Follows
    <3> QED
      BY <1>1, <3>1, <3>2
  <2> QED
    BY <2>1, <2>2
<1> QED
  BY <1>6, <1>7, <1>11, <1>12 DEF p

(* A candidate that wins may open the log of its term with its own. *)
LEMMA WinnerOpens ==
    ASSUME NEW W \in World, Lawful(W), NEW n \in Node, Core(W, n),
           n.role = "Candidate", Backers(W, n), W.logs[n.term] = << >>
    PROVE  /\ Opens(W, n.term, Whole(W, n)) /\ Carries(n, Whole(W, n))
           /\ Whole(W, n) \in Seq(Entry)
<1> DEFINE L == LastTerm(n)
           T == n.term
           p == Whole(W, n)
<1>1. /\ n \in NodeState /\ n.snapIndex \in Nat /\ Len(n.log) \in Nat
      /\ n.log \in Seq(Entry) /\ n.commit \in Nat /\ n.applied \in Nat
      /\ n.snapIndex <= n.applied /\ T \in Nat /\ L \in Nat
      /\ LastIndex(n) = n.snapIndex + Len(n.log) /\ LastIndex(n) \in Nat
  BY NodeFields, LastTermType DEF Node
<1>2. /\ Committed(W, n) /\ n.applied <= n.commit /\ n.commit <= Len(W.chosen)
  BY DEF Core, Committed
<1>3. /\ Len(W.chosen) \in Nat /\ W.logs[L] \in Seq(Entry)
      /\ Len(W.logs[L]) \in Nat
  BY <1>1, WorldFields
<1>4. n.snapIndex <= Len(W.chosen)
  BY ONLY <1>1, <1>2, <1>3
<1>5. p \in Seq(Entry) /\ Len(p) = LastIndex(n) /\ Carries(n, p)
  BY <1>1, <1>4, WholeLog
<1>6. LastIndex(n) # 0 =>
        /\ L < T /\ W.logs[L] # << >> /\ Agree(p, W.logs[L], LastIndex(n))
        /\ W.logs[L][LastIndex(n)].term = L
  BY WinnerFollows
<1> HIDE DEF p
<1>7. ASSUME NEW i \in 1 .. Len(p)
      PROVE  /\ LastIndex(n) # 0 /\ i \in 1 .. Len(W.logs[L]) /\ p[i] = W.logs[L][i]
             /\ p[i].term \in Nat /\ p[i].term <= L /\ L < T
  <2>1. LastIndex(n) # 0
    BY <1>1, <1>5, <1>7
  <2>2. i \in 1 .. Len(W.logs[L]) /\ p[i] = W.logs[L][i]
    BY <1>1, <1>3, <1>5, <1>6, <2>1 DEF Agree
  <2>3. p[i].term \in Nat
    BY <1>1, <2>2, WorldTerms
  <2>4. Len(W.logs[L]) \in 1 .. Len(W.logs[L]) /\ i \in 1 .. Len(W.logs[L])
    BY <1>3, <2>2
  <2>5. W.logs[L][Len(W.logs[L])].term = L
    BY <1>1, <1>6, <2>1 DEF Lawful, LogsOrdered
  <2>6. W.logs[L][i].term <= W.logs[L][Len(W.logs[L])].term
    BY <1>1, <2>4 DEF Lawful, LogsOrdered
  <2> QED
    BY <1>6, <2>1, <2>2, <2>3, <2>5, <2>6
<1>8. Agree(W.logs[T], p, Len(W.logs[T]))
  BY <1>1, <1>5 DEF Agree
<1>9. ASSUME NEW j \in 1 .. Len(p)
      PROVE  p[j].term <= T /\ \A i \in 1 .. j : p[i].term <= p[j].term
  <2>1. p[j].term <= T
    BY <1>1, <1>7
  <2>2. ASSUME NEW i \in 1 .. j PROVE p[i].term <= p[j].term
    <3>1. i \in 1 .. Len(p)
      BY <1>1, <1>5
    <3>2. j \in 1 .. Len(W.logs[L]) /\ p[j] = W.logs[L][j] /\ p[i] = W.logs[L][i]
      BY <1>7, <3>1
    <3> QED
      BY <1>1, <3>2 DEF Lawful, LogsOrdered
  <2> QED
    BY <2>1, <2>2
<1>10. ASSUME NEW i \in 1 .. Len(p) PROVE Agree(p, W.logs[p[i].term], i)
  <2>1. Agree(W.logs[L], W.logs[W.logs[L][i].term], i)
    BY <1>1, <1>7 DEF Lawful, LogsMatch
  <2>2. Agree(p, W.logs[L], i)
    BY <1>1, <1>3, <1>5, <1>6, <1>7, AgreeLess
  <2> QED
    BY <1>7, <2>1, <2>2, AgreeTransitive
<1>11. PICK V \in SUBSET Server :
          /\ HasQuorum(Cardinality(V))
          /\ \A v \in V :
               /\ W.terms[v] >= T
               /\ \A j, t \in Nat : <<v, j, t>> \in W.held /\ t < T =>
                    LastGe(n, j, t) \/ Lost(W, j, t)
  BY DEF Backers
<1>12. ASSUME NEW t \in Nat, NEW j \in Nat, t < T, Own(W, j, t)
       PROVE  (j <= Len(p) /\ p[j].term = t) \/ Lost(W, j, t)
  <2>1. CASE \A v \in V : <<v, j, t>> \notin W.held
    <3>1. ASSUME NEW v \in V PROVE W.terms[v] > t
      <4>1. W.terms[v] \in Nat /\ W.terms[v] >= T
        BY <1>11, WorldFields
      <4> QED
        BY ONLY <1>1, <1>12, <4>1
    <3> QED
      BY <1>11, <2>1, <3>1 DEF Lost
  <2>2. CASE \E v \in V : <<v, j, t>> \in W.held
    <3> SUFFICES ASSUME LastGe(n, j, t), ~Lost(W, j, t)
                 PROVE  j <= Len(p) /\ p[j].term = t
      BY <1>11, <1>12, <2>2
    <3>1. j >= 1
      BY <1>12 DEF Own, Has
    <3>2. LastIndex(n) # 0
      <4> SUFFICES ASSUME LastIndex(n) = 0 PROVE FALSE
        OBVIOUS
      <4>1. n.snapIndex = 0 /\ Len(n.log) = 0
        BY <1>1
      <4>2. n.log = << >>
        BY <1>1, <4>1
      <4>3. L = 0
        BY <1>1, <1>2, <4>1, <4>2, LastTermType DEF Committed, ChosenTerm
      <4> QED
        BY <3>1, <4>3 DEF LastGe
    <3>3. CASE L = t
      <4>1. j <= LastIndex(n)
        BY <1>1, <3>3 DEF LastGe
      <4>2. j \in 1 .. Len(p)
        BY <1>5, <3>1, <4>1
      <4>3. W.logs[t][j].term = t
        BY <1>12 DEF Own, Has
      <4> QED
        BY <1>5, <1>7, <3>3, <4>1, <4>2, <4>3
    <3>4. CASE L # t
      <4>1. L > t
        BY <1>1, <3>4 DEF LastGe
      <4>2. Has(W, L, j, t)
        BY <1>1, <1>6, <1>12, <3>2, <4>1 DEF Lawful, LogsComplete
      <4>3. j <= LastIndex(n)
        <5> SUFFICES ASSUME j > LastIndex(n) PROVE FALSE
          BY <1>1
        <5>1. j \in 1 .. Len(W.logs[L]) /\ W.logs[L][j].term = t
          BY <4>2 DEF Has
        <5>2. LastIndex(n) \in 1 .. j
          BY <1>1, <3>2
        <5>3. W.logs[L][LastIndex(n)].term <= W.logs[L][j].term
          BY <1>1, <5>1, <5>2 DEF Lawful, LogsOrdered
        <5> QED
          BY <1>1, <1>6, <3>2, <4>1, <5>1, <5>3
      <4>4. j \in 1 .. Len(p)
        BY <1>5, <3>1, <4>3
      <4> QED
        BY <1>5, <1>7, <4>2, <4>3, <4>4 DEF Has
    <3> QED
      BY <3>3, <3>4
  <2> QED
    BY <2>1, <2>2
<1>13. ASSUME NEW j \in 1 .. Len(p), p[j].term = T PROVE Own(W, j, T)
  BY <1>1, <1>7, <1>13
<1>14. Opens(W, T, p)
  BY <1>8, <1>9, <1>10, <1>11, <1>12, <1>13 DEF Opens
<1> QED
  BY <1>5, <1>14 DEF p

(* The candidate that has a quorum, ready to append its no-op. *)
LEMMA InitializeLeaderProgressToBe ==
    ASSUME NEW W \in World, NEW n \in Node, Upright(W, n),
           n.role = "Candidate", W.logs[n.term] = << >>
    PROVE  LET i == InitializeLeaderProgress(n)
           IN  /\ i \in Node /\ LeaderToBe(W, i) /\ i.id = n.id /\ i.term = n.term
               /\ i.log = n.log /\ i.snapIndex = n.snapIndex /\ SameStores(n, i)
<1> DEFINE i == InitializeLeaderProgress(n)
<1>1. /\ n \in NodeState /\ LastIndex(n) \in Nat /\ n.id \in Server /\ n.term \in Nat
  BY NodeFields, LastIndexType DEF Node
<1>2. i \in Node /\ i.role = "Leader"
  BY InitializeLeaderProgressType
<1>3. /\ SameStores(n, i) /\ i.term = n.term
      /\ i.next = [s \in Server |-> LastIndex(n) + 1]
      /\ i.match = [s \in Server |-> IF s = n.id THEN LastIndex(n) ELSE 0]
  BY <1>1 DEF InitializeLeaderProgress, NodeState, SameStores
<1> HIDE DEF i
<1>4. LastIndex(i) = LastIndex(n) /\ LastTerm(i) = LastTerm(n)
  BY <1>3, SameLast DEF SameStores
<1>5. Committed(W, i)
  <2>1. Committed(W, n)
    BY DEF Upright, Core
  <2>2. PICK T \in Nat : ChosenBy(W, n.commit, T) /\ T <= n.term
    BY <2>1 DEF Committed
  <2> QED
    BY <1>2, <1>3, <1>4, <2>1, <2>2 DEF Committed, SameStores
<1>6. Recorded(W, i)
  <2>1. Recorded(W, n)
    BY DEF Upright, Core
  <2>2. \A j, t : LastGe(i, j, t) = LastGe(n, j, t)
    BY <1>4 DEF LastGe
  <2> QED
    BY <1>3, <1>4, <2>1, <2>2 DEF Recorded, SameStores
<1>7. Outgoing(W, i)
  <2>1. Outgoing(W, n)
    BY DEF Upright
  <2>2. \A m : Solicits(n, m) => Solicits(i, m)
    BY <1>2, <1>3 DEF Solicits
  <2> QED
    BY <1>3, <2>1, <2>2 DEF Outgoing, SameStores
<1>8. Answers(W, i) /\ Stores(W, i)
  BY <1>3 DEF Upright, Answers, Stores, SameStores
<1>9. Matches(W, i)
  <2>1. ASSUME NEW q \in Server PROVE i.match[q] <= LastIndex(i)
    BY <1>1, <1>3, <1>4
  <2>2. ASSUME NEW j \in Nat, Own(W, j, i.term) PROVE FALSE
    <3>1. Own(W, j, n.term)
      BY <1>3, <2>2
    <3>2. j \in 1 .. Len(W.logs[n.term])
      BY <3>1 DEF Own, Has
    <3>3. Len(W.logs[n.term]) = 0
      OBVIOUS
    <3> QED
      BY <3>2, <3>3
  <2> QED
    BY <2>1, <2>2 DEF Matches
<1>10. \A q \in Server : i.next[q] >= 1
  BY <1>1, <1>3
<1>11. LeaderToBe(W, i)
  BY <1>2, <1>5, <1>6, <1>7, <1>8, <1>9, <1>10 DEF LeaderToBe
<1> QED
  BY <1>2, <1>3, <1>11 DEF i, SameStores

(* become_leader() of a candidate with a quorum behind it. *)
LEMMA BecomeLeaderUpright ==
    ASSUME NEW W \in World, Lawful(W), NEW n \in Node, Upright(W, n),
           n.role = "Candidate", W.logs[n.term] = << >>, Backers(W, n),
           NEW limit \in Nat
    PROVE  \E U \in World : /\ Leads(W, U, n.id, n.term)
                            /\ Upright(U, BecomeLeader(n, limit))
<1> DEFINE T == n.term
           p == Whole(W, n)
           i == InitializeLeaderProgress(n)
           a == AppendOwn(i, NoOp)
           h == SendHeartbeats(a)
           e == [term |-> i.term, value |-> NoOp]
<1>1. n.id \in Server /\ T \in Nat
  BY NodeFields DEF Node
<1>2. /\ i \in Node /\ LeaderToBe(W, i) /\ i.id = n.id /\ i.term = T
      /\ i.log = n.log /\ i.snapIndex = n.snapIndex
  BY InitializeLeaderProgressToBe
<1>3. Opens(W, T, p) /\ Carries(n, p) /\ p \in Seq(Entry)
  BY WinnerOpens DEF Upright
<1> HIDE DEF p, i
<1>4. Carries(i, p)
  BY <1>2, <1>3 DEF Carries, LastIndex
<1>5. e \in Entry /\ e.term = T /\ NoOp \in Command
  BY <1>1, <1>2 DEF Entry, Command
<1>6. W.terms[n.id] = T
  BY DEF Upright, Core, Recorded
<1>7. PICK U \in World : Adds(W, U, n.id, T, p, e)
  BY <1>1, <1>3, <1>5, <1>6, OpensAdds
<1>8. Upright(U, a)
  BY <1>2, <1>3, <1>4, <1>5, <1>7, AddsUpright
<1>9. Leads(W, U, n.id, T) /\ Lawful(U)
  BY <1>1, <1>7, AddsLeads DEF Adds
<1>10. a \in Node /\ SameVote(i, a)
  BY <1>2, <1>5, AppendOwnType
<1>11. a.role = "Leader" /\ a.id = n.id /\ a.term = T
  BY <1>2, <1>10 DEF SameVote, LeaderToBe
<1> HIDE DEF a
<1>12. h \in Node /\ Upright(U, h) /\ SameCore(a, h)
  BY <1>8, <1>9, <1>10, <1>11, SendHeartbeatsUpright, SendHeartbeatsType
<1>13. h.role = "Leader" /\ h.id = n.id
  BY <1>11, <1>12 DEF SameCore
<1> HIDE DEF h
<1>14. PICK X \in World : Chooses(U, X, h.id) /\ Upright(X, AdvanceCommit(h, limit))
  BY <1>9, <1>12, <1>13, AdvanceCommitUpright
<1>15. Leads(U, X, n.id, T)
  BY <1>13, <1>14, ChoosesGrows, GrowsLeads
<1>16. Leads(W, X, n.id, T)
  BY <1>1, <1>9, <1>15, LeadsTransitive
<1>17. BecomeLeader(n, limit) = AdvanceCommit(h, limit)
  BY DEF BecomeLeader, h, a, i
<1> QED
  BY <1>14, <1>16, <1>17

(* become_leader() failing to write its no-op. *)
LEMMA BecomeLeaderFailedUpright ==
    ASSUME NEW W \in World, Lawful(W), NEW n \in Node, Upright(W, n)
    PROVE  \E U \in World : Grows(W, U, n.id) /\ Upright(U, BecomeLeaderFailed(n))
<1> DEFINE r == BecomeLeaderFailed(n)
<1>1. n \in NodeState /\ LastIndex(n) \in Nat /\ n.term \in Nat
  BY NodeFields, LastIndexType DEF Node
<1>2. r \in Node /\ r.role = "Follower" /\ r.term = n.term
  BY BecomeLeaderFailedType
<1>3. SameStores(n, r) /\ r.next = [s \in Server |-> LastIndex(n) + 1]
  BY <1>1 DEF BecomeLeaderFailed, BecomeFollower, InitializeLeaderProgress,
              NodeState, SameStores
<1> HIDE DEF r
<1>4. \A q \in Server : r.next[q] >= 1
  BY <1>1, <1>3
<1>5. r.term >= n.term
  BY <1>1, <1>2
<1>6. \E U \in World : Grows(W, U, n.id) /\ Upright(U, r)
  BY <1>2, <1>3, <1>4, <1>5, TermUpright
<1> QED
  BY <1>6 DEF r

-----------------------------------------------------------------------------
(* A follower takes entries of its leader. *)

(* The log check: where the terms agree, so does everything before. *)
LEMMA TermsMatch ==
    ASSUME NEW W \in World, Lawful(W), NEW n \in Node, Core(W, n),
           NEW T \in Nat, NEW i \in 1 .. Len(n.log),
           n.snapIndex + i <= Len(W.logs[T]),
           n.log[i].term = W.logs[T][n.snapIndex + i].term
    PROVE  \A h \in 1 .. i : n.log[h] = W.logs[T][n.snapIndex + h]
<1> DEFINE L == LastTerm(n)
           k == n.snapIndex + i
           t == n.log[i].term
<1>1. /\ n \in NodeState /\ n.log \in Seq(Entry) /\ n.snapIndex \in Nat
      /\ Len(n.log) \in Nat /\ L \in Nat /\ n.log # << >>
      /\ LastIndex(n) = n.snapIndex + Len(n.log)
  BY NodeFields, LastTermType DEF Node
<1>2. /\ Len(W.logs[L]) \in Nat /\ Len(W.logs[T]) \in Nat /\ k \in Nat
  <2>1. Len(W.logs[L]) \in Nat /\ Len(W.logs[T]) \in Nat
    BY <1>1, WorldFields
  <2>2. k \in Nat
    BY <1>1
  <2> QED
    BY <2>1, <2>2
<1>3. Follows(W, n, L)
  BY <1>1 DEF Core, Copied
<1>4. /\ k \in 1 .. Len(W.logs[L]) /\ n.log[i] = W.logs[L][k]
      /\ k \in 1 .. Len(W.logs[T])
  BY <1>1, <1>2, <1>3, SMTT(30) DEF Follows
<1>5. t \in Nat
  BY <1>1, <1>4, WorldTerms
<1>6. Agree(W.logs[L], W.logs[t], k) /\ Agree(W.logs[T], W.logs[t], k)
  BY <1>1, <1>4 DEF Lawful, LogsMatch
<1>7. ASSUME NEW h \in 1 .. i PROVE n.log[h] = W.logs[T][n.snapIndex + h]
  <2>1. n.snapIndex + h \in 1 .. k /\ h \in 1 .. Len(n.log)
    BY <1>1
  <2>2. n.log[h] = W.logs[L][n.snapIndex + h]
    BY <1>3, <2>1 DEF Follows
  <2> QED
    BY <1>6, <2>1, <2>2 DEF Agree
<1> QED
  BY <1>7

(* A node with an entry of its own term has a beginning of the log of that *)
(* term.                                                                   *)
LEMMA OwnTermFollows ==
    ASSUME NEW W \in World, Lawful(W), NEW n \in Node, Core(W, n),
           NEW i \in 1 .. Len(n.log), n.log[i].term = n.term
    PROVE  Follows(W, n, n.term) /\ LastTerm(n) = n.term
<1> DEFINE L == LastTerm(n)
           e == n.snapIndex + Len(n.log)
<1>1. /\ n \in NodeState /\ n.log \in Seq(Entry) /\ n.snapIndex \in Nat
      /\ Len(n.log) \in Nat /\ L \in Nat /\ n.log # << >> /\ n.id \in Server
      /\ LastIndex(n) = e /\ n.term \in Nat
      /\ L = n.log[Len(n.log)].term /\ Len(n.log) \in 1 .. Len(n.log)
  BY NodeFields, LastTermType DEF Node
<1>2. Len(W.logs[L]) \in Nat
  BY <1>1, WorldFields
<1>3. Follows(W, n, L)
  BY <1>1 DEF Core, Copied
<1>4. <<n.id, e, L>> \in W.held /\ W.terms[n.id] = n.term
  BY <1>1 DEF Core, Recorded
<1>5. <<n.id, e, L>>[3] <= W.terms[<<n.id, e, L>>[1]]
  BY <1>4, Zenon DEF Lawful, HeldIsOwn
<1>6. L <= n.term
  BY <1>4, <1>5
<1>7. /\ n.log[i] = W.logs[L][n.snapIndex + i] /\ n.log[Len(n.log)] = W.logs[L][e]
      /\ e \in 1 .. Len(W.logs[L]) /\ n.snapIndex + i \in 1 .. e
  <2>1. \A h \in 1 .. Len(n.log) : n.log[h] = W.logs[L][n.snapIndex + h]
    BY <1>3 DEF Follows
  <2>2. e <= Len(W.logs[L])
    BY <1>1, <1>3 DEF Follows
  <2>3. e \in 1 .. Len(W.logs[L]) /\ n.snapIndex + i \in 1 .. e
    BY <1>1, <1>2, <2>2
  <2> QED
    BY <1>1, <2>1, <2>3
<1>8. W.logs[L][n.snapIndex + i].term <= W.logs[L][e].term
  BY <1>1, <1>7 DEF Lawful, LogsOrdered
<1>9. L = n.term
  <2>1. n.term <= L
    BY <1>1, <1>7, <1>8
  <2>2. L \in Nat /\ n.term \in Nat
    BY <1>1
  <2> HIDE DEF L
  <2> QED
    BY ONLY <1>6, <2>1, <2>2
<1> QED
  BY <1>3, <1>9

(* The terms of a log that is a beginning of the log of T. *)
LEMMA LeaderLastGe ==
    ASSUME NEW W \in World, Lawful(W), NEW r \in NodeState, NEW T \in Nat,
           LastIndex(r) <= Len(W.logs[T]),
           LastIndex(r) # 0 => LastTerm(r) = W.logs[T][LastIndex(r)].term,
           NEW j \in Nat, NEW t \in Nat, Has(W, T, j, t), j <= LastIndex(r)
    PROVE  LastGe(r, j, t)
<1>1. LastIndex(r) \in Nat /\ LastTerm(r) \in Nat /\ Len(W.logs[T]) \in Nat
  BY LastTermType, WorldFields
<1>2. j \in 1 .. LastIndex(r) /\ LastIndex(r) \in 1 .. Len(W.logs[T])
  BY <1>1 DEF Has
<1>3. W.logs[T][j].term <= W.logs[T][LastIndex(r)].term
  BY <1>2 DEF Lawful, LogsOrdered
<1>4. t <= LastTerm(r)
  BY <1>1, <1>2, <1>3 DEF Has
<1> QED
  BY <1>1, <1>4 DEF LastGe

(* The term at the boundary or the end of a log that follows T. *)
LEMMA FollowerLast ==
    ASSUME NEW W \in World, Lawful(W), NEW r \in Node, Committed(W, r),
           r.role # "Candidate", NEW T \in Nat, T = r.term, W.logs[T] # << >>,
           Follows(W, r, T), LastIndex(r) # 0
    PROVE  LastTerm(r) = W.logs[T][LastIndex(r)].term
<1>1. /\ r \in NodeState /\ r.snapIndex \in Nat /\ Len(r.log) \in Nat
      /\ r.log \in Seq(Entry) /\ r.commit \in Nat /\ r.applied \in Nat
      /\ r.snapIndex <= r.applied /\ LastIndex(r) = r.snapIndex + Len(r.log)
  BY NodeFields, LastTermType DEF Node
<1>2. CASE r.log # << >>
  <2>1. Len(r.log) \in 1 .. Len(r.log)
    BY <1>1, <1>2
  <2> QED
    BY <1>1, <1>2, <2>1, LastTermType DEF Follows
<1>3. CASE r.log = << >>
  <2>1. LastTerm(r) = r.snapTerm /\ LastIndex(r) = r.snapIndex
    BY <1>1, <1>3, LastTermType
  <2>2. PICK t \in Nat : ChosenBy(W, r.commit, t) /\ t <= T
    BY DEF Committed
  <2>3. r.snapIndex <= r.commit
    BY <1>1 DEF Committed
  <2>4. ChosenBy(W, r.snapIndex, T)
    BY <1>1, <2>2, <2>3, ChosenByLess
  <2>5. Agree(W.chosen, W.logs[T], r.snapIndex)
    BY <1>1, <2>4, ChosenInLog
  <2>6. r.snapIndex \in 1 .. r.snapIndex
    BY <1>1, <2>1
  <2> QED
    BY <2>1, <2>5, <2>6 DEF Committed, ChosenTerm, Agree
<1> QED
  BY <1>2, <1>3

(* r differs from n in its log and its debts only. *)
SameButLog(n, r) ==
    /\ r.id = n.id /\ r.term = n.term /\ r.role = n.role
    /\ r.snapIndex = n.snapIndex /\ r.snapTerm = n.snapTerm
    /\ r.commit = n.commit /\ r.applied = n.applied /\ r.next = n.next
    /\ r.out = n.out /\ r.told = n.told /\ r.data = n.data
    /\ r.results = n.results /\ r.up = n.up

(* The log of r is one that n may have after a message of its leader: it   *)
(* comes from the leader of the term, what is new in it is of that term,   *)
(* and nothing that n held and the leader has is missing.                  *)
Rewritten(W, n, r) ==
    /\ Follows(W, r, n.term) /\ n.commit <= LastIndex(r)
    /\ \A i \in 1 .. Len(r.log) :
         r.log[i].term = n.term \/ (i \in 1 .. Len(n.log) /\ n.log[i] = r.log[i])
    /\ \A j, t \in Nat : <<n.id, j, t>> \in W.held /\ Has(W, n.term, j, t) =>
         j <= LastIndex(r)

(* A log that begins the log of T begins the log of its last entry's term. *)
LEMMA RewrittenCopied ==
    ASSUME NEW W \in World, Lawful(W), NEW r \in NodeState, NEW T \in Nat,
           Follows(W, r, T), r.log # << >>
    PROVE  Follows(W, r, LastTerm(r))
<1> DEFINE t == LastTerm(r)
           e == r.snapIndex + Len(r.log)
<1>1. /\ r.log \in Seq(Entry) /\ r.snapIndex \in Nat /\ Len(r.log) \in Nat
      /\ LastIndex(r) = e /\ t = r.log[Len(r.log)].term
      /\ Len(r.log) \in 1 .. Len(r.log) /\ t \in Nat
  <2>1. r.log \in Seq(Entry) /\ r.snapIndex \in Nat
    BY NodeFields
  <2>2. Len(r.log) \in Nat /\ Len(r.log) \in 1 .. Len(r.log)
    BY <2>1
  <2> QED
    BY <2>1, <2>2, LastTermType
<1>2. /\ Len(W.logs[T]) \in Nat /\ e <= Len(W.logs[T])
      /\ \A h \in 1 .. Len(r.log) : r.log[h] = W.logs[T][r.snapIndex + h]
  BY <1>1, WorldFields DEF Follows
<1>3. e \in 1 .. Len(W.logs[T]) /\ W.logs[T][e].term = t
  <2>1. e \in 1 .. Len(W.logs[T])
    BY <1>1, <1>2
  <2>2. r.log[Len(r.log)] = W.logs[T][e]
    BY <1>1, <1>2
  <2> QED
    BY <1>1, <2>1, <2>2
<1>4. Agree(W.logs[T], W.logs[t], e)
  BY <1>3 DEF Lawful, LogsMatch
<1>5. ASSUME NEW h \in 1 .. Len(r.log) PROVE r.log[h] = W.logs[t][r.snapIndex + h]
  <2>1. r.snapIndex + h \in 1 .. e
    BY <1>1
  <2> QED
    BY <1>2, <1>4, <2>1 DEF Agree
<1> QED
  BY <1>1, <1>4, <1>5 DEF Follows, Agree

(* A follower whose log was rewritten keeps what it committed. *)
LEMMA RewrittenCommitted ==
    ASSUME NEW W \in World, Lawful(W), NEW n \in Node, Committed(W, n),
           n.role = "Follower", W.logs[n.term] # << >>,
           NEW r \in Node, SameButLog(n, r), Rewritten(W, n, r)
    PROVE  Committed(W, r)
<1> DEFINE T == n.term
<1>1. /\ n.snapIndex \in Nat /\ n.commit \in Nat /\ T \in Nat
      /\ r.log \in Seq(Entry) /\ Len(r.log) \in Nat
      /\ r.snapIndex = n.snapIndex /\ r.commit = n.commit
      /\ r.role = "Follower" /\ r.term = T
  BY NodeFields DEF Node, SameButLog
<1>2. PICK t \in Nat : ChosenBy(W, n.commit, t) /\ t <= T
  BY DEF Committed
<1>3. Agree(W.chosen, W.logs[T], n.commit)
  BY <1>1, <1>2, ChosenByLess, ChosenInLog
<1>4. ASSUME NEW i \in 1 .. Len(r.log), r.snapIndex + i <= r.commit
      PROVE  r.log[i] = W.chosen[r.snapIndex + i]
  <2>1. r.log[i] = W.logs[T][r.snapIndex + i]
    BY DEF Rewritten, Follows
  <2>2. r.snapIndex + i \in 1 .. n.commit
    BY <1>1, <1>4
  <2> QED
    BY <1>3, <2>1, <2>2 DEF Agree
<1>5. ChosenBy(W, r.commit, t) /\ t <= r.term /\ r.role # "Candidate"
  BY <1>1, <1>2
<1> QED
  BY <1>4, <1>5 DEF Committed, Rewritten, SameButLog

(* A follower whose log was rewritten to that of its leader is upright. *)
LEMMA RewrittenUpright ==
    ASSUME NEW W \in World, Lawful(W), NEW n \in Node, Upright(W, n),
           n.role = "Follower", W.logs[n.term] # << >>,
           NEW r \in Node, SameButLog(n, r), Rewritten(W, n, r)
    PROVE  \E U \in World : Grows(W, U, n.id) /\ Upright(U, r)
<1> DEFINE T == n.term
           s == n.id
           J == {j \in Nat : \E i \in 1 .. Len(r.log) :
                               j = r.snapIndex + i /\ r.log[i].term = T}
<1>1. /\ n \in NodeState /\ r \in NodeState /\ n.snapIndex \in Nat
      /\ T \in Nat /\ s \in Server /\ n.commit \in Nat
      /\ r.log \in Seq(Entry) /\ Len(r.log) \in Nat
      /\ n.log \in Seq(Entry) /\ Len(n.log) \in Nat
      /\ r.snapIndex = n.snapIndex /\ r.commit = n.commit
      /\ r.role = "Follower" /\ r.term = T /\ r.id = s
      /\ r.snapIndex <= r.applied /\ n.snapIndex <= n.applied
      /\ LastIndex(r) = r.snapIndex + Len(r.log) /\ r.applied = n.applied
      /\ n.applied \in Nat
  BY NodeFields, LastTermType, SMTT(30) DEF Node, SameButLog
<1>2. W.logs[T] \in Seq(Entry) /\ Len(W.logs[T]) \in Nat
  BY <1>1, WorldFields
<1>3. /\ LastIndex(r) <= Len(W.logs[T])
      /\ \A i \in 1 .. Len(r.log) : r.log[i] = W.logs[T][r.snapIndex + i]
  BY DEF Rewritten, Follows
<1>4. Committed(W, n) /\ Recorded(W, n) /\ W.terms[s] = T
  BY DEF Upright, Core, Recorded
<1> HIDE DEF J
<1>a. ASSUME NEW i \in 1 .. Len(r.log), r.log[i].term = T
      PROVE  Own(W, r.snapIndex + i, T)
  <2>1. r.snapIndex + i \in 1 .. Len(W.logs[T])
    BY <1>1, <1>2, <1>3, SMTT(30)
  <2> QED
    BY <1>3, <1>a, <2>1 DEF Own, Has
<1>5. ASSUME NEW j \in J PROVE Own(W, j, W.terms[s])
  BY <1>4, <1>a DEF J
<1>6. J \in SUBSET Nat
  BY DEF J
<1>7. PICK U \in World :
        /\ Extends(W, U, s) /\ Lawful(U)
        /\ U.logs = W.logs /\ U.chosen = W.chosen /\ U.terms = W.terms
        /\ U.held = W.held \cup {<<s, j, W.terms[s]>> : j \in J}
  BY <1>1, <1>5, <1>6, HeldGrows
<1>8. Committed(W, r)
  BY <1>4, RewrittenCommitted
<1>9. Committed(U, r)
  BY <1>1, <1>7, <1>8, CommittedGrows
<1>10. Copied(U, r)
  <2>1. r.log # << >> => Follows(W, r, LastTerm(r))
    BY <1>1, RewrittenCopied DEF Rewritten
  <2> QED
    BY <1>1, <1>7, <2>1 DEF Copied, Follows
<1>11. Recorded(U, r)
  <2>1. U.terms[r.id] = r.term
    BY <1>1, <1>4, <1>7
  <2>2. ASSUME NEW i \in 1 .. Len(r.log)
        PROVE  <<r.id, r.snapIndex + i, r.log[i].term>> \in U.held
    <3>1. CASE r.log[i].term = T
      <4>1. r.snapIndex + i \in J
        BY <1>1, <3>1 DEF J
      <4> QED
        BY <1>1, <1>4, <1>7, <3>1, <4>1
    <3>2. CASE r.log[i].term # T
      <4>1. i \in 1 .. Len(n.log) /\ n.log[i] = r.log[i]
        BY <3>2 DEF Rewritten
      <4> QED
        BY <1>1, <1>4, <1>7, <4>1 DEF Recorded
    <3> QED
      BY <3>1, <3>2
  <2>3. ASSUME NEW j \in Nat, NEW t \in Nat, <<r.id, j, t>> \in U.held,
               Has(W, T, j, t)
        PROVE  j <= LastIndex(r) /\ LastGe(r, j, t)
    <3>1. j <= LastIndex(r)
      <4>1. CASE <<s, j, t>> \in W.held
        BY <2>3, <4>1 DEF Rewritten
      <4>2. CASE <<s, j, t>> \notin W.held
        <5>1. j \in J
          BY <1>1, <1>7, <2>3, <4>2
        <5> QED
          BY <1>1, <5>1 DEF J
      <4> QED
        BY <4>1, <4>2
    <3>2. LastIndex(r) # 0 => LastTerm(r) = W.logs[T][LastIndex(r)].term
      BY <1>1, <1>8, FollowerLast DEF Rewritten
    <3> QED
      BY <1>1, <1>3, <2>3, <3>1, <3>2, LeaderLastGe
  <2>4. ASSUME NEW j \in Nat, NEW t \in Nat, <<r.id, j, t>> \in U.held
        PROVE  /\ LastGe(r, j, t) \/ Lost(U, j, t)
               /\ t = r.term => /\ j <= LastIndex(r)
                                /\ j > r.snapIndex => r.log[j - r.snapIndex].term = t
    <3>1. Own(U, j, t) /\ t <= T
      <4>1. Own(U, <<r.id, j, t>>[2], <<r.id, j, t>>[3])
            /\ <<r.id, j, t>>[3] <= U.terms[<<r.id, j, t>>[1]]
        BY <1>7, <2>4, Zenon DEF Lawful, HeldIsOwn
      <4> QED
        BY <1>1, <2>1, <4>1
    <3>2. Own(W, j, t)
      BY <1>7, <3>1 DEF Own, Has
    <3>3. CASE t = T
      <4>1. Has(W, T, j, t)
        BY <3>2, <3>3 DEF Own
      <4>2. j <= LastIndex(r) /\ LastGe(r, j, t)
        BY <2>3, <2>4, <4>1
      <4>3. ASSUME j > r.snapIndex PROVE r.log[j - r.snapIndex].term = t
        <5>1. j - r.snapIndex \in 1 .. Len(r.log) /\ r.snapIndex + (j - r.snapIndex) = j
          BY <1>1, <4>2, <4>3
        <5>2. r.log[j - r.snapIndex] = W.logs[T][r.snapIndex + (j - r.snapIndex)]
          BY <1>3, <5>1
        <5> QED
          BY <4>1, <5>1, <5>2 DEF Has
      <4> QED
        BY <4>2, <4>3
    <3>4. CASE t # T
      <4>1. t < T
        BY <1>1, <3>1, <3>4
      <4>2. Has(W, T, j, t) \/ Lost(W, j, t)
        BY <1>1, <3>2, <4>1 DEF Lawful, LogsComplete
      <4>3. CASE Lost(W, j, t)
        BY <1>1, <1>7, <3>4, <4>3, ExtendsLost
      <4>4. CASE Has(W, T, j, t)
        BY <1>1, <2>3, <2>4, <3>4, <4>4
      <4> QED
        BY <4>2, <4>3, <4>4
    <3> QED
      BY <3>3, <3>4
  <2> QED
    BY <2>1, <2>2, <2>4 DEF Recorded
<1>12. Progress(U, r)
  BY <1>1 DEF Upright, Progress, SameButLog
<1>13. Answers(U, r)
  <2>1. Answers(U, n)
    BY <1>1, <1>7, AnswersGrow DEF Upright
  <2> QED
    BY <2>1 DEF Answers, SameButLog
<1>14. Stores(U, r)
  <2>1. n.applied <= Len(W.chosen)
    <3>1. n.applied <= n.commit /\ n.commit <= Len(W.chosen)
      BY <1>4 DEF Committed
    <3>2. Len(W.chosen) \in Nat
      BY WorldFields
    <3> QED
      BY <1>1, <3>1, <3>2
  <2>2. Stores(U, n)
    BY <1>1, <1>7, <2>1, StoresGrow DEF Upright
  <2> QED
    BY <2>2 DEF Stores, SameButLog
<1>15. Outgoing(U, r)
  <2>1. Outgoing(U, n)
    BY <1>1, <1>7, OutgoingGrows DEF Upright
  <2>2. \A m : Solicits(n, m) => Solicits(r, m)
    BY <1>1 DEF Solicits
  <2>3. r.out = n.out /\ r.id = n.id
    BY DEF SameButLog
  <2> QED
    BY <2>1, <2>2, <2>3 DEF Outgoing
<1>16. Upright(U, r)
  BY <1>9, <1>10, <1>11, <1>12, <1>13, <1>14, <1>15 DEF Upright, Core
<1> QED
  BY <1>7, <1>16 DEF Grows

(* n heeds the request m of its leader, and the log check has passed. *)
Accepts(W, n, m) ==
    /\ Upright(W, n) /\ n.role = "Follower" /\ n.term = m.term
    /\ VouchedEntries(W, m) /\ Consistent(n, m)

(* Up to k the log of n is that of the leader of T. *)
Verified(W, n, T, k) ==
    /\ k <= LastIndex(n) /\ k <= Len(W.logs[T])
    /\ \A i \in 1 .. Len(n.log) :
         n.snapIndex + i <= k => n.log[i] = W.logs[T][n.snapIndex + i]

(* The log check passes inside the log of the follower. *)
LEMMA AcceptedFields ==
    ASSUME NEW n \in Node, NEW m \in AppendEntriesRequest, Consistent(n, m)
    PROVE  /\ n \in NodeState /\ n.snapIndex \in Nat /\ n.term \in Nat
           /\ n.id \in Server
           /\ n.log \in Seq(Entry) /\ Len(n.log) \in Nat
           /\ LastIndex(n) = n.snapIndex + Len(n.log)
           /\ m.prevIndex \in Nat /\ m.entries \in Seq(Entry)
           /\ Len(m.entries) \in Nat
           /\ m.prevIndex - n.snapIndex \in 0 .. Len(n.log)
           /\ m.prevIndex <= LastIndex(n) /\ n.snapIndex <= m.prevIndex
<1>1. /\ n \in NodeState /\ n.snapIndex \in Nat /\ n.term \in Nat
      /\ n.id \in Server
      /\ n.log \in Seq(Entry) /\ Len(n.log) \in Nat
  BY NodeFields DEF Node
<1>2. m.prevIndex \in Nat /\ m.entries \in Seq(Entry) /\ Len(m.entries) \in Nat
  BY DEF AppendEntriesRequest
<1>3. m.prevIndex \in n.snapIndex .. n.snapIndex + Len(n.log)
  BY DEF Consistent, Stored, LastIndex
<1> QED
  BY <1>1, <1>2, <1>3 DEF LastIndex

(* Up to the index of the log check the follower has the log of its        *)
(* leader.                                                                 *)
LEMMA AcceptedPrefix ==
    ASSUME NEW W \in World, Lawful(W), NEW n \in Node,
           NEW m \in AppendEntriesRequest, Accepts(W, n, m)
    PROVE  Verified(W, n, n.term, m.prevIndex)
<1> DEFINE T == n.term
           at == m.prevIndex - n.snapIndex
<1>1. Consistent(n, m) /\ VouchedEntries(W, m) /\ m.term = T /\ Core(W, n)
  BY DEF Accepts, Upright
<1>2. /\ n \in NodeState /\ n.snapIndex \in Nat /\ T \in Nat
      /\ n.log \in Seq(Entry) /\ Len(n.log) \in Nat
      /\ LastIndex(n) = n.snapIndex + Len(n.log)
      /\ m.prevIndex \in Nat /\ Len(m.entries) \in Nat
      /\ at \in 0 .. Len(n.log) /\ m.prevIndex <= LastIndex(n)
      /\ n.snapIndex <= m.prevIndex
  BY <1>1, AcceptedFields
<1>3. Len(W.logs[T]) \in Nat
  BY <1>2, WorldFields
<1>4. m.prevIndex <= Len(W.logs[T])
  BY <1>1, <1>2, <1>3 DEF VouchedEntries
<1>5. ASSUME NEW i \in 1 .. Len(n.log), n.snapIndex + i <= m.prevIndex
      PROVE  n.log[i] = W.logs[T][n.snapIndex + i]
  <2>1. /\ at \in 1 .. Len(n.log) /\ n.snapIndex + at = m.prevIndex /\ i \in 1 .. at
        /\ m.prevIndex # 0 /\ m.prevIndex # n.snapIndex
    BY <1>2, <1>5
  <2>2. TermAt(n, m.prevIndex) = n.log[at].term
    BY <2>1 DEF TermAt
  <2>3. TermAt(n, m.prevIndex) = W.logs[T][m.prevIndex].term
    BY <1>1, <2>1 DEF Consistent, VouchedEntries
  <2> HIDE DEF at
  <2>4. /\ n.log[at].term = W.logs[T][n.snapIndex + at].term
        /\ n.snapIndex + at <= Len(W.logs[T])
    BY <1>4, <2>1, <2>2, <2>3
  <2> QED
    BY <1>1, <1>2, <2>1, <2>4, TermsMatch
<1> QED
  BY <1>2, <1>4, <1>5 DEF Verified

(* A log that follows the leader has no conflict with it. *)
LEMMA FollowsNoConflict ==
    ASSUME NEW W \in World, NEW n \in Node,
           NEW m \in AppendEntriesRequest, Accepts(W, n, m),
           NEW c \in 1 .. Len(m.entries), ConflictAt(n, m, c)
    PROVE  /\ ~Follows(W, n, n.term)
           /\ (m.prevIndex - n.snapIndex) + c \in 1 .. Len(n.log)
           /\ n.log[(m.prevIndex - n.snapIndex) + c] # W.logs[n.term][m.prevIndex + c]
<1> DEFINE T == n.term
           i == (m.prevIndex - n.snapIndex) + c
<1>1. Consistent(n, m) /\ VouchedEntries(W, m) /\ m.term = T
  BY DEF Accepts
<1>2. /\ n.snapIndex \in Nat /\ Len(n.log) \in Nat
      /\ LastIndex(n) = n.snapIndex + Len(n.log)
      /\ m.prevIndex \in Nat /\ Len(m.entries) \in Nat
      /\ n.snapIndex <= m.prevIndex
  BY <1>1, AcceptedFields
<1>3. m.prevIndex + c <= LastIndex(n)
  BY DEF ConflictAt
<1>4. /\ i \in 1 .. Len(n.log) /\ n.snapIndex + i = m.prevIndex + c
      /\ m.prevIndex + c # n.snapIndex /\ (m.prevIndex + c) - n.snapIndex = i
  BY <1>2, <1>3
<1>5. TermAt(n, m.prevIndex + c) = n.log[i].term
  BY <1>4 DEF TermAt
<1>6. m.entries[c] = W.logs[T][m.prevIndex + c]
  BY <1>1 DEF VouchedEntries
<1>7. n.log[i] # W.logs[T][m.prevIndex + c]
  BY <1>5, <1>6 DEF ConflictAt
<1> HIDE DEF i
<1>8. ~Follows(W, n, T)
  BY <1>4, <1>7 DEF Follows
<1> QED
  BY <1>4, <1>7, <1>8 DEF i

(* truncate_suffix() never reaches what is committed. *)
LEMMA ConflictBeyondCommit ==
    ASSUME NEW W \in World, Lawful(W), NEW n \in Node,
           NEW m \in AppendEntriesRequest, Accepts(W, n, m),
           NEW c \in 1 .. Len(m.entries), ConflictAt(n, m, c)
    PROVE  n.commit < m.prevIndex + c
<1> DEFINE T == n.term
           i == (m.prevIndex - n.snapIndex) + c
<1>1. /\ Consistent(n, m) /\ VouchedEntries(W, m) /\ m.term = T
      /\ Committed(W, n)
  BY DEF Accepts, Upright, Core
<1>2. /\ n \in NodeState /\ n.snapIndex \in Nat /\ T \in Nat /\ n.commit \in Nat
      /\ m.prevIndex \in Nat /\ Len(m.entries) \in Nat /\ Len(n.log) \in Nat
  BY <1>1, AcceptedFields, NodeFields
<1>3. /\ i \in 1 .. Len(n.log) /\ n.log[i] # W.logs[T][m.prevIndex + c]
      /\ n.snapIndex + i = m.prevIndex + c
  BY <1>2, FollowsNoConflict
<1> HIDE DEF i
<1> SUFFICES ASSUME m.prevIndex + c <= n.commit PROVE FALSE
  BY <1>2
<1>4. n.log[i] = W.chosen[m.prevIndex + c]
  BY <1>1, <1>3 DEF Committed
<1>5. PICK t \in Nat : ChosenBy(W, n.commit, t) /\ t <= T
  BY <1>1 DEF Committed
<1>6. Agree(W.chosen, W.logs[T], n.commit)
  <2>1. ChosenBy(W, n.commit, T) /\ W.logs[T] # << >>
    BY <1>1, <1>2, <1>5, ChosenByLess DEF VouchedEntries
  <2> QED
    BY <1>2, <2>1, ChosenInLog
<1>7. m.prevIndex + c \in 1 .. n.commit
  BY <1>2
<1> QED
  BY <1>3, <1>4, <1>6, <1>7 DEF Agree

(* What n held of its leader's log behind the entries of the request. *)
LEMMA HeldAhead ==
    ASSUME NEW W \in World, Lawful(W), NEW n \in Node,
           NEW m \in AppendEntriesRequest, Accepts(W, n, m),
           1 <= Len(m.entries), m.entries[1].term = m.term,
           NEW j \in Nat, NEW t \in Nat, <<n.id, j, t>> \in W.held,
           Has(W, n.term, j, t), j > m.prevIndex
    PROVE  j <= LastIndex(n) /\ Follows(W, n, n.term)
<1> DEFINE T == n.term
<1>1. /\ Consistent(n, m) /\ VouchedEntries(W, m) /\ m.term = T
      /\ Core(W, n) /\ Recorded(W, n)
  BY DEF Accepts, Upright, Core
<1>2. /\ n.snapIndex \in Nat /\ T \in Nat /\ n.id \in Server
      /\ m.prevIndex \in Nat /\ Len(m.entries) \in Nat /\ Len(n.log) \in Nat
      /\ LastIndex(n) = n.snapIndex + Len(n.log) /\ n.snapIndex <= m.prevIndex
  BY <1>1, AcceptedFields
<1>3. 1 \in 1 .. Len(m.entries)
  BY <1>2
<1>4. W.logs[T][m.prevIndex + 1].term = T
  BY <1>1, <1>3 DEF VouchedEntries
<1>5. /\ m.prevIndex + 1 \in 1 .. j /\ j \in 1 .. Len(W.logs[T])
      /\ W.logs[T][j].term = t
  BY <1>2 DEF Has
<1>6. T <= t
  BY <1>2, <1>4, <1>5 DEF Lawful, LogsOrdered
<1>7. <<n.id, j, t>>[3] <= W.terms[<<n.id, j, t>>[1]]
  BY Zenon DEF Lawful, HeldIsOwn
<1>8. t = T
  <2>1. t <= T
    BY <1>1, <1>7 DEF Recorded
  <2> QED
    BY ONLY <1>2, <1>6, <2>1, t \in Nat
<1>9. j <= LastIndex(n) /\ (j > n.snapIndex => n.log[j - n.snapIndex].term = t)
  BY <1>1, <1>8 DEF Recorded
<1>10. j - n.snapIndex \in 1 .. Len(n.log) /\ n.log[j - n.snapIndex].term = T
  BY <1>2, <1>8, <1>9
<1> QED
  BY <1>1, <1>9, <1>10, OwnTermFollows

(* A follower keeps its log, or cuts it after the log check and takes the  *)
(* entries of the request.                                                 *)
LEMMA MergeFields ==
    ASSUME NEW n \in Node, NEW m \in AppendEntriesRequest,
           NEW k \in 0 .. Len(m.entries), Consistent(n, m)
    PROVE  LET r == Merge(n, m, k)
               at == m.prevIndex - n.snapIndex
           IN  /\ SameButLog(n, r)
               /\ \/ /\ r = n /\ m.prevIndex + k <= LastIndex(n)
                     /\ \A j \in 1 .. k : ~ConflictAt(n, m, j)
                  \/ /\ \/ \E j \in 1 .. k : ConflictAt(n, m, j)
                        \/ m.prevIndex + k > LastIndex(n)
                     /\ Len(r.log) = at + k
                     /\ \A i \in 1 .. at : r.log[i] = n.log[i]
                     /\ \A j \in 1 .. k : r.log[at + j] = m.entries[j]
<1> DEFINE conflicts == {j \in 1 .. k : ConflictAt(n, m, j)}
           kept(p) == \A j \in conflicts : p.index < m.prevIndex + j
           log == TruncateSuffix(n, m.prevIndex + 1) \o SubSeq(m.entries, 1, k)
           r == [n EXCEPT !.log = log, !.pending = {p \in @ : kept(p)}]
           at == m.prevIndex - n.snapIndex
<1>1. /\ n \in NodeState /\ n.snapIndex \in Nat
      /\ n.log \in Seq(Entry) /\ Len(n.log) \in Nat
      /\ m.prevIndex \in Nat /\ m.entries \in Seq(Entry) /\ Len(m.entries) \in Nat
      /\ at \in 0 .. Len(n.log) /\ LastIndex(n) \in Nat
  BY AcceptedFields, LastIndexType
<1>2. log = SubSeq(n.log, 1, at) \o SubSeq(m.entries, 1, k)
  <2>1. (m.prevIndex + 1) - 1 - n.snapIndex = at
    BY <1>1
  <2> HIDE DEF at
  <2> QED
    BY <2>1, Zenon DEF TruncateSuffix
<1>3. r.log = log /\ SameButLog(n, r) /\ SameButLog(n, n)
  <2> HIDE DEF log, kept
  <2> QED
    BY <1>1 DEF NodeState, SameButLog
<1>4. CASE conflicts # {} \/ m.prevIndex + k > LastIndex(n)
  <2>1. Merge(n, m, k) = r
    BY <1>4 DEF Merge
  <2> HIDE DEF r, log, at
  <2>2. /\ Len(log) = at + k
        /\ \A i \in 1 .. at : log[i] = n.log[i]
        /\ \A j \in 1 .. k : log[at + j] = m.entries[j]
    BY <1>1, <1>2
  <2> QED
    BY <1>3, <1>4, <2>1, <2>2 DEF at
<1>5. CASE ~(conflicts # {} \/ m.prevIndex + k > LastIndex(n))
  <2>1. Merge(n, m, k) = n
    BY <1>5 DEF Merge
  <2>2. m.prevIndex + k <= LastIndex(n) /\ \A j \in 1 .. k : ~ConflictAt(n, m, j)
    BY <1>1, <1>5
  <2> QED
    BY <1>3, <2>1, <2>2
<1> QED
  BY <1>4, <1>5

(* A request that finds its entries in the log already. *)
LEMMA NoConflictVerified ==
    ASSUME NEW W \in World, Lawful(W), NEW n \in Node,
           NEW m \in AppendEntriesRequest, Accepts(W, n, m),
           NEW k \in 0 .. Len(m.entries), OfRequestTerm(m, k),
           m.prevIndex + k <= LastIndex(n),
           \A j \in 1 .. k : ~ConflictAt(n, m, j)
    PROVE  Verified(W, n, n.term, m.prevIndex + k) /\ (k # 0 => Follows(W, n, n.term))
<1> DEFINE T == n.term
           at == m.prevIndex - n.snapIndex
<1>1. /\ Consistent(n, m) /\ VouchedEntries(W, m) /\ m.term = T
      /\ Core(W, n)
  BY DEF Accepts, Upright
<1>2. /\ n \in NodeState /\ n.snapIndex \in Nat /\ T \in Nat
      /\ m.prevIndex \in Nat /\ Len(m.entries) \in Nat /\ Len(n.log) \in Nat
      /\ LastIndex(n) = n.snapIndex + Len(n.log) /\ n.snapIndex <= m.prevIndex
      /\ k \in Nat /\ k <= Len(m.entries)
  BY <1>1, AcceptedFields
<1>3. Verified(W, n, T, m.prevIndex)
  BY AcceptedPrefix
<1>4. CASE k = 0
  BY <1>2, <1>3, <1>4
<1>5. CASE k # 0
  <2>1. k \in 1 .. k /\ m.entries[k].term = T
    BY <1>1, <1>2, <1>5 DEF OfRequestTerm
  <2>2. TermAt(n, m.prevIndex + k) = T
    BY <2>1 DEF ConflictAt
  <2>3. /\ at + k \in 1 .. Len(n.log) /\ (m.prevIndex + k) - n.snapIndex = at + k
        /\ m.prevIndex + k # n.snapIndex
    BY <1>2, <1>5, SMTT(30)
  <2>4. n.log[at + k].term = T
    BY <2>2, <2>3 DEF TermAt
  <2>5. Follows(W, n, T)
    BY <1>1, <2>3, <2>4, OwnTermFollows
  <2>6. m.prevIndex + k <= Len(W.logs[T])
    <3>1. m.prevIndex + Len(m.entries) <= Len(W.logs[T]) /\ Len(W.logs[T]) \in Nat
      BY <1>1, <1>2, WorldFields DEF VouchedEntries
    <3> QED
      BY ONLY <1>2, <3>1
  <2> QED
    BY <2>5, <2>6 DEF Follows, Verified
<1> QED
  BY <1>4, <1>5

(* The loop of handle_append_entries(). *)
LEMMA MergeUpright ==
    ASSUME NEW W \in World, Lawful(W), NEW n \in Node,
           NEW m \in AppendEntriesRequest, Accepts(W, n, m),
           NEW k \in 0 .. Len(m.entries), OfRequestTerm(m, k)
    PROVE  \E U \in World : /\ Grows(W, U, n.id) /\ Upright(U, Merge(n, m, k))
                            /\ Verified(U, Merge(n, m, k), n.term, m.prevIndex + k)
<1> DEFINE T == n.term
           at == m.prevIndex - n.snapIndex
           r == Merge(n, m, k)
<1>1. /\ Consistent(n, m) /\ VouchedEntries(W, m) /\ m.term = T
      /\ Upright(W, n) /\ Core(W, n) /\ n.role = "Follower" /\ Committed(W, n)
      /\ n.commit <= LastIndex(n)
  BY DEF Accepts, Upright, Core, Committed
<1>2. /\ n \in NodeState /\ n.snapIndex \in Nat /\ T \in Nat /\ n.id \in Server
      /\ m.prevIndex \in Nat /\ Len(m.entries) \in Nat /\ Len(n.log) \in Nat
      /\ LastIndex(n) = n.snapIndex + Len(n.log) /\ n.snapIndex <= m.prevIndex
      /\ k \in Nat /\ k <= Len(m.entries) /\ n.commit \in Nat
      /\ at \in 0 .. Len(n.log) /\ m.prevIndex = n.snapIndex + at
  BY <1>1, AcceptedFields, NodeFields
<1>3. r \in Node /\ SameButLog(n, r)
  BY <1>1, MergeType, MergeFields
<1>4. \/ /\ r = n /\ m.prevIndex + k <= LastIndex(n)
         /\ \A j \in 1 .. k : ~ConflictAt(n, m, j)
      \/ /\ (\E j \in 1 .. k : ConflictAt(n, m, j)) \/ m.prevIndex + k > LastIndex(n)
         /\ Len(r.log) = at + k
         /\ \A i \in 1 .. at : r.log[i] = n.log[i]
         /\ \A j \in 1 .. k : r.log[at + j] = m.entries[j]
  BY <1>1, MergeFields
<1> HIDE DEF r, at
<1>5. CASE r = n /\ m.prevIndex + k <= LastIndex(n) /\ \A j \in 1 .. k : ~ConflictAt(n, m, j)
  <2>1. Verified(W, r, T, m.prevIndex + k)
    BY <1>5, NoConflictVerified
  <2> QED
    BY <1>1, <1>2, <1>5, <2>1, GrowsReflexive DEF r
<1>6. CASE /\ (\E j \in 1 .. k : ConflictAt(n, m, j)) \/ m.prevIndex + k > LastIndex(n)
           /\ Len(r.log) = at + k
           /\ \A i \in 1 .. at : r.log[i] = n.log[i]
           /\ \A j \in 1 .. k : r.log[at + j] = m.entries[j]
  <2>1. r.snapIndex = n.snapIndex /\ LastIndex(r) = m.prevIndex + k
    BY <1>2, <1>3, <1>6 DEF SameButLog, LastIndex
  <2>2. k # 0
    BY <1>2, <1>6
  <2>3. m.prevIndex + k <= Len(W.logs[T])
    <3>1. m.prevIndex + Len(m.entries) <= Len(W.logs[T]) /\ Len(W.logs[T]) \in Nat
      BY <1>1, <1>2, WorldFields DEF VouchedEntries
    <3>2. /\ m.prevIndex \in Nat /\ k \in Nat /\ Len(m.entries) \in Nat
          /\ k <= Len(m.entries)
      BY <1>2
    <3> QED
      BY ONLY <3>1, <3>2
  <2>4. ASSUME NEW i \in 1 .. Len(r.log)
        PROVE  /\ r.log[i] = W.logs[T][n.snapIndex + i]
               /\ r.log[i].term = T \/ (i \in 1 .. Len(n.log) /\ n.log[i] = r.log[i])
    <3>1. CASE i <= at
      <4>1. /\ i \in 1 .. at /\ i \in 1 .. Len(n.log) /\ n.snapIndex + i <= m.prevIndex
        BY <1>2, <3>1, SMTT(30)
      <4>2. n.log[i] = W.logs[T][n.snapIndex + i]
        BY <4>1, AcceptedPrefix DEF Verified
      <4> QED
        BY <1>6, <4>1, <4>2
    <3>2. CASE i > at
      <4>1. /\ i - at \in 1 .. k /\ at + (i - at) = i
            /\ m.prevIndex + (i - at) = n.snapIndex + i
            /\ i - at \in 1 .. Len(m.entries)
        <5>1. i \in 1 .. at + k /\ at \in Nat
          BY <1>2, <1>6
        <5> QED
          BY ONLY <1>2, <3>2, <5>1
      <4>2. r.log[at + (i - at)] = m.entries[i - at]
        BY <1>6, <4>1
      <4>3. m.entries[i - at] = W.logs[T][m.prevIndex + (i - at)]
        BY <1>1, <4>1 DEF VouchedEntries
      <4>4. m.entries[i - at].term = T
        BY <1>1, <4>1 DEF OfRequestTerm
      <4>5. r.log[i] = m.entries[i - at]
        BY <4>1, <4>2
      <4>6. m.entries[i - at] = W.logs[T][n.snapIndex + i]
        BY <4>1, <4>3
      <4> QED
        BY <4>4, <4>5, <4>6
    <3> QED
      BY <1>2, <3>1, <3>2
  <2>5. Follows(W, r, T)
    BY <2>1, <2>3, <2>4 DEF Follows
  <2>6. n.commit <= LastIndex(r)
    <3>1. ASSUME NEW c \in 1 .. k, ConflictAt(n, m, c) PROVE n.commit <= LastIndex(r)
      <4>1. c \in 1 .. Len(m.entries)
        BY <1>2
      <4>2. n.commit < m.prevIndex + c
        BY <3>1, <4>1, ConflictBeyondCommit
      <4> QED
        BY <1>2, <2>1, <4>2
    <3>2. CASE m.prevIndex + k > LastIndex(n)
      BY <1>1, <1>2, <2>1, <3>2
    <3> QED
      BY <1>6, <3>1, <3>2
  <2>7. ASSUME NEW j \in Nat, NEW t \in Nat, <<n.id, j, t>> \in W.held,
               Has(W, T, j, t)
        PROVE  j <= LastIndex(r)
    <3> SUFFICES ASSUME j > m.prevIndex PROVE j <= LastIndex(r)
      BY <1>2, <2>1
    <3>1. 1 \in 1 .. k /\ 1 <= Len(m.entries)
      BY <1>2, <2>2
    <3>2. m.entries[1].term = m.term
      BY <3>1 DEF OfRequestTerm
    <3>3. j <= LastIndex(n) /\ Follows(W, n, T)
      BY <2>7, <3>1, <3>2, HeldAhead
    <3>4. ASSUME NEW c \in 1 .. k, ConflictAt(n, m, c) PROVE FALSE
      <4>1. c \in 1 .. Len(m.entries)
        BY <1>2
      <4> QED
        BY <3>3, <3>4, <4>1, FollowsNoConflict
    <3>5. m.prevIndex + k > LastIndex(n)
      BY <1>6, <3>4
    <3> QED
      BY <1>2, <2>1, <3>3, <3>5
  <2>8. Rewritten(W, n, r)
    BY <2>4, <2>5, <2>6, <2>7 DEF Rewritten
  <2>9. PICK U \in World : Grows(W, U, n.id) /\ Upright(U, r)
    BY <1>1, <1>3, <2>8, RewrittenUpright DEF VouchedEntries
  <2>10. Verified(U, r, T, m.prevIndex + k)
    <3>1. U.logs = W.logs
      BY <2>9 DEF Grows
    <3>2. m.prevIndex + k <= LastIndex(r)
      BY <1>2, <2>1
    <3> QED
      BY <2>1, <2>3, <2>4, <3>1, <3>2 DEF Verified
  <2> QED
    BY <2>9, <2>10 DEF r
<1> QED
  BY <1>4, <1>5, <1>6

(* A log write fails between the truncation and the append: the suffix of  *)
(* an earlier leader is gone, and nothing that this leader has.            *)
LEMMA TruncatedUpright ==
    ASSUME NEW W \in World, Lawful(W), NEW n \in Node,
           NEW m \in AppendEntriesRequest, Accepts(W, n, m),
           NEW k \in 0 .. Len(m.entries) - 1, OfRequestTerm(m, k + 1),
           ConflictAt(Merge(n, m, k), m, k + 1)
    PROVE  LET r == [Merge(n, m, k) EXCEPT !.log =
                       SubSeq(@, 1, m.prevIndex + k - n.snapIndex)]
           IN  /\ r \in Node /\ SameVote(n, r)
               /\ \E U \in World : Grows(W, U, n.id) /\ Upright(U, r)
<1> DEFINE T == n.term
           at == m.prevIndex - n.snapIndex
           r == [n EXCEPT !.log = SubSeq(@, 1, at)]
<1>1. /\ Consistent(n, m) /\ VouchedEntries(W, m) /\ m.term = T
      /\ Upright(W, n) /\ Core(W, n) /\ n.role = "Follower" /\ Committed(W, n)
      /\ n.commit <= LastIndex(n)
  BY DEF Accepts, Upright, Core, Committed
<1>2. /\ n \in NodeState /\ n.snapIndex \in Nat /\ T \in Nat /\ n.id \in Server
      /\ m.prevIndex \in Nat /\ Len(m.entries) \in Nat /\ Len(n.log) \in Nat
      /\ n.log \in Seq(Entry)
      /\ LastIndex(n) = n.snapIndex + Len(n.log) /\ n.snapIndex <= m.prevIndex
      /\ n.commit \in Nat /\ at \in 0 .. Len(n.log)
      /\ m.prevIndex = n.snapIndex + at
  BY <1>1, AcceptedFields, NodeFields
<1>3. /\ k \in Nat /\ k \in 0 .. Len(m.entries) /\ k + 1 \in 1 .. Len(m.entries)
      /\ 1 <= Len(m.entries) /\ 1 \in 1 .. Len(m.entries)
  BY <1>2
<1>4. Merge(n, m, k) = n /\ m.prevIndex + k <= LastIndex(n)
      /\ \A j \in 1 .. k : ~ConflictAt(n, m, j)
  <2>1. m.prevIndex + (k + 1) <= LastIndex(Merge(n, m, k))
    BY DEF ConflictAt
  <2>2. Merge(n, m, k).snapIndex = n.snapIndex
    BY <1>1, <1>3, MergeFields DEF SameButLog
  <2>3. Len(Merge(n, m, k).log) # at + k
    <3>1. LastIndex(Merge(n, m, k)) = n.snapIndex + Len(Merge(n, m, k).log)
      BY <2>2 DEF LastIndex
    <3>2. at \in Nat
      BY <1>2
    <3> HIDE DEF at
    <3> QED
      BY <1>2, <1>3, <2>1, <3>1, <3>2
  <2> QED
    BY <1>1, <1>3, <2>3, MergeFields
<1>5. OfRequestTerm(m, k) /\ m.entries[1].term = m.term
  <2>1. \A j \in 1 .. k + 1 : m.entries[j].term = m.term
    BY DEF OfRequestTerm
  <2>2. 1 \in 1 .. k + 1 /\ \A j \in 1 .. k : j \in 1 .. k + 1
    BY <1>3
  <2> QED
    BY <2>1, <2>2 DEF OfRequestTerm
<1>6. ~Follows(W, n, T)
  BY <1>3, <1>4, FollowsNoConflict
<1>7. k = 0
  BY <1>3, <1>4, <1>5, <1>6, NoConflictVerified
<1>8. ConflictAt(n, m, 1)
  BY <1>4, <1>7
<1>9. [Merge(n, m, k) EXCEPT !.log = SubSeq(@, 1, m.prevIndex + k - n.snapIndex)] = r
  <2>1. m.prevIndex + k - n.snapIndex = at
    BY <1>2, <1>7
  <2> QED
    BY <1>4, <2>1, Zenon
<1>10. /\ r.log = SubSeq(n.log, 1, at) /\ SameButLog(n, r) /\ SameVote(n, r)
  <2> HIDE DEF at
  <2> QED
    BY <1>2 DEF NodeState, SameButLog, SameVote
<1>11. r \in Node
  <2>1. SubSeq(n.log, 1, at) \in Seq(Entry)
    BY <1>2
  <2> HIDE DEF at
  <2>2. r \in NodeState
    BY <1>2, <2>1, Zenon DEF NodeState
  <2> HIDE DEF r
  <2> QED
    BY <1>10, <2>2 DEF Node, SameButLog
<1> HIDE DEF r, at
<1>12. /\ Len(r.log) = at /\ \A i \in 1 .. at : r.log[i] = n.log[i]
  BY <1>2, <1>10
<1>13. r.snapIndex = n.snapIndex /\ LastIndex(r) = m.prevIndex
  BY <1>2, <1>10, <1>12 DEF SameButLog, LastIndex
<1>14. Rewritten(W, n, r)
  <2>1. Verified(W, n, T, m.prevIndex)
    BY AcceptedPrefix
  <2>2. ASSUME NEW i \in 1 .. Len(r.log)
        PROVE  /\ i \in 1 .. Len(n.log) /\ n.log[i] = r.log[i]
               /\ r.log[i] = W.logs[T][r.snapIndex + i]
    <3>1. i \in 1 .. Len(n.log) /\ i \in 1 .. at /\ n.snapIndex + i <= m.prevIndex
      BY <1>2, <1>12
    <3> QED
      BY <1>12, <1>13, <2>1, <3>1 DEF Verified
  <2>3. Follows(W, r, T)
    BY <1>13, <2>1, <2>2 DEF Follows, Verified
  <2>4. n.commit <= LastIndex(r)
    <3>1. n.commit < m.prevIndex + 1
      BY <1>3, <1>8, ConflictBeyondCommit
    <3> QED
      BY <1>2, <1>13, <3>1
  <2>5. ASSUME NEW j \in Nat, NEW t \in Nat, <<n.id, j, t>> \in W.held,
               Has(W, T, j, t)
        PROVE  j <= LastIndex(r)
    <3> SUFFICES ASSUME j > m.prevIndex PROVE FALSE
      BY <1>2, <1>13
    <3> QED
      BY <1>3, <1>5, <1>6, <2>5, HeldAhead
  <2> QED
    BY <2>2, <2>3, <2>4, <2>5 DEF Rewritten
<1>15. \E U \in World : Grows(W, U, n.id) /\ Upright(U, r)
  BY <1>1, <1>10, <1>11, <1>14, RewrittenUpright DEF VouchedEntries
<1> QED
  BY <1>9, <1>10, <1>11, <1>15

(* What the success reply of a follower claims. *)
LEMMA VerifiedReplicated ==
    ASSUME NEW W \in World, NEW n \in Node, Core(W, n), NEW k \in Nat,
           Verified(W, n, n.term, k)
    PROVE  Replicated(W, n.id, k, n.term)
<1> DEFINE T == n.term
<1>1. /\ n.snapIndex \in Nat /\ n.commit \in Nat /\ n.applied \in Nat /\ T \in Nat
      /\ n.snapIndex <= n.applied /\ Len(n.log) \in Nat
      /\ LastIndex(n) = n.snapIndex + Len(n.log)
  BY NodeFields DEF Node, LastIndex
<1>2. n.applied <= n.commit
  BY DEF Core, Committed
<1>3. ASSUME NEW j \in Nat, j <= k, Own(W, j, T)
      PROVE  <<n.id, j, T>> \in W.held \/ ChosenBy(W, j, T)
  <2>1. CASE j <= n.snapIndex
    <3>1. PICK t \in Nat : ChosenBy(W, n.commit, t) /\ t <= T
      BY DEF Core, Committed
    <3>2. j <= n.commit
      BY <1>1, <1>2, <2>1
    <3> QED
      BY <1>1, <3>1, <3>2, ChosenByLess
  <2>2. CASE j > n.snapIndex
    <3>1. /\ j - n.snapIndex \in 1 .. Len(n.log)
          /\ n.snapIndex + (j - n.snapIndex) = j
      BY <1>1, <1>3, <2>2 DEF Verified
    <3>2. n.log[j - n.snapIndex] = W.logs[T][j]
      BY <1>3, <3>1 DEF Verified
    <3>3. n.log[j - n.snapIndex].term = T
      BY <1>3, <3>2 DEF Own, Has
    <3> QED
      BY <3>1, <3>3 DEF Core, Recorded
  <2> QED
    BY <1>1, <2>1, <2>2
<1> QED
  BY <1>3 DEF Replicated, Verified

(* The follower takes over the commit index of the request, which speaks   *)
(* of nothing the request does not carry.                                  *)
LEMMA FollowCommitUpright ==
    ASSUME NEW W \in World, Lawful(W), NEW n \in Node, Upright(W, n),
           n.role = "Follower", NEW m \in AppendEntriesRequest,
           m.term = n.term, VouchedEntries(W, m),
           Verified(W, n, n.term, m.prevIndex + Len(m.entries))
    PROVE  LET c == [n EXCEPT !.commit = IF m.commit > @
                                         THEN MinOf(m.commit, LastIndex(n)) ELSE @]
           IN  c \in Node /\ Upright(W, c) /\ SameLog(n, c)
<1> DEFINE T == n.term
           k == IF m.commit > n.commit THEN MinOf(m.commit, LastIndex(n))
                                       ELSE n.commit
<1>1. /\ n \in NodeState /\ n.commit \in Nat /\ T \in Nat /\ n.snapIndex \in Nat
      /\ Len(n.log) \in Nat
  BY NodeFields DEF Node
<1>2. /\ m.commit \in Nat /\ m.prevIndex \in Nat /\ Len(m.entries) \in Nat
  BY DEF AppendEntriesRequest
<1>3. LastIndex(n) \in Nat
  BY <1>1, LastIndexType
<1>4. Committed(W, n)
  BY DEF Upright, Core
<1>5. CASE m.commit > n.commit
  <2>1. m.commit <= m.prevIndex + Len(m.entries) /\ ChosenBy(W, m.commit, T)
    BY DEF VouchedEntries
  <2>2. m.commit <= LastIndex(n)
    BY <1>2, <1>3, <2>1 DEF Verified
  <2>3. k = m.commit
    BY <1>2, <1>3, <1>5, <2>2 DEF MinOf
  <2>4. Agree(W.chosen, W.logs[T], m.commit)
    BY <1>1, <1>2, <2>1, ChosenInLog DEF VouchedEntries
  <2>5. ASSUME NEW i \in 1 .. Len(n.log), n.snapIndex + i <= m.commit
        PROVE  n.log[i] = W.chosen[n.snapIndex + i]
    <3>1. /\ n.snapIndex + i \in 1 .. m.commit
          /\ n.snapIndex + i <= m.prevIndex + Len(m.entries)
      BY <1>1, <1>2, <2>1, <2>5
    <3>2. n.log[i] = W.logs[T][n.snapIndex + i]
      BY <3>1 DEF Verified
    <3> QED
      BY <2>4, <3>1, <3>2 DEF Agree
  <2>6. LogIsChosen(W, n, m.commit)
    BY <2>5 DEF LogIsChosen
  <2>7. n.commit <= m.commit /\ T <= n.term
    BY <1>1, <1>2, <1>5
  <2>8. LET c == [n EXCEPT !.commit = m.commit]
        IN  c \in Node /\ Upright(W, c) /\ SameLog(n, c)
    BY <1>1, <1>2, <2>1, <2>2, <2>6, <2>7, CommitUpright
  <2> QED
    BY <2>3, <2>8
<1>6. CASE ~(m.commit > n.commit)
  <2>1. k = n.commit
    BY <1>6
  <2>2. PICK t \in Nat : ChosenBy(W, n.commit, t) /\ t <= T
    BY <1>4 DEF Committed
  <2>3. LogIsChosen(W, n, n.commit) /\ n.commit <= LastIndex(n)
    BY <1>4 DEF LogIsChosen, Committed
  <2>4. n.commit <= n.commit
    BY <1>1
  <2>5. LET c == [n EXCEPT !.commit = n.commit]
        IN  c \in Node /\ Upright(W, c) /\ SameLog(n, c)
    BY <1>1, <2>2, <2>3, <2>4, CommitUpright
  <2> QED
    BY <2>1, <2>5
<1> QED
  BY <1>5, <1>6

(* handle_append_entries() once the log check has passed. *)
LEMMA AcceptUpright ==
    ASSUME NEW W \in World, Lawful(W), NEW h \in Node,
           NEW m \in AppendEntriesRequest, Accepts(W, h, m),
           OfRequestTerm(m, Len(m.entries)), NEW f \in Server, NEW limit \in Nat
    PROVE  LET n == Merge(h, m, Len(m.entries))
               c == [n EXCEPT !.commit = IF m.commit > @
                                         THEN MinOf(m.commit, LastIndex(n)) ELSE @]
               r == ApplyCommitted(c, limit)
           IN  \E U \in World :
                 /\ Grows(W, U, h.id)
                 /\ Upright(U, Send(r, f, AppendReply(r, m, TRUE, Matched(r, m), 0)))
<1> DEFINE T == h.term
           K == m.prevIndex + Len(m.entries)
           n == Merge(h, m, Len(m.entries))
           c == [n EXCEPT !.commit = IF m.commit > @
                                     THEN MinOf(m.commit, LastIndex(n)) ELSE @]
           r == ApplyCommitted(c, limit)
           reply == AppendReply(r, m, TRUE, Matched(r, m), 0)
<1>1. /\ Consistent(h, m) /\ VouchedEntries(W, m) /\ m.term = T
      /\ h.role = "Follower"
  BY DEF Accepts
<1>2. /\ m.prevIndex \in Nat /\ Len(m.entries) \in Nat /\ K \in Nat
      /\ Len(m.entries) \in 0 .. Len(m.entries) /\ m.type = "AppendEntries"
  BY DEF AppendEntriesRequest
<1>3. PICK U \in World : /\ Grows(W, U, h.id) /\ Upright(U, n)
                         /\ Verified(U, n, T, K)
  BY <1>2, MergeUpright
<1>4. n \in Node /\ n.role = "Follower" /\ n.term = T
  BY <1>1, <1>2, MergeType DEF SameVote
<1>5. Lawful(U) /\ Extends(W, U, h.id)
  BY <1>3 DEF Grows
<1>6. VouchedEntries(U, m)
  <2>1. m \in Message /\ Vouched(W, h.id, m)
    BY <1>1, <1>2 DEF Message, Vouched
  <2>2. Vouched(U, h.id, m)
    BY <1>5, <2>1, VouchedGrows
  <2> QED
    BY <1>2, <2>2 DEF Vouched
<1> HIDE DEF n
<1>7. c \in Node /\ Upright(U, c) /\ SameLog(n, c)
  BY <1>1, <1>3, <1>4, <1>5, <1>6, FollowCommitUpright
<1> HIDE DEF c
<1>8. r \in Node /\ Upright(U, r) /\ SameCore(c, r)
  BY <1>7, ApplyCommittedType, ApplyCommittedUpright
<1>9. r.term = T /\ r.log = n.log /\ r.snapIndex = n.snapIndex
  BY <1>4, <1>7, <1>8 DEF SameLog, SameCore
<1>10. Verified(U, r, T, K)
  BY <1>3, <1>9 DEF Verified, LastIndex
<1> HIDE DEF r
<1>11. Replicated(U, r.id, K, T)
  BY <1>2, <1>8, <1>9, <1>10, VerifiedReplicated DEF Upright
<1>12. reply \in Message
  <2>1. reply \in Plain
    BY <1>2, <1>8, AppendReplyType DEF Matched
  <2> QED
    BY <2>1 DEF Plain
<1>13. Vouched(U, r.id, reply) /\ Solicits(r, reply)
  BY <1>9, <1>11 DEF AppendReply, Vouched, Solicits, Matched
<1>14. Upright(U, Send(r, f, reply))
  BY <1>8, <1>12, <1>13, SendUpright DEF Node
<1> QED
  BY <1>3, <1>14 DEF r, c, n
=============================================================================
