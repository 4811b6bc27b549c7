--------------------------- MODULE FederationProofs ---------------------------
(***************************************************************************)
(* Theorems about federated bases: what counters, registers, sets and maps *)
(* show after any number of lost, repeated and reordered syncs and         *)
(* restarts (MetaSync), and what a discovery and a verified fetch return   *)
(* (Discovery), for any gateways, peers, actors and bounds.                *)
(*                                                                         *)
(* Of MetaSync: an actor's updates of one name are numbered in the order   *)
(* of the history (Rank), and the number an actor's counter has reached    *)
(* says exactly which of them a state was built from (Counts).  The dots   *)
(* of a set are such numbers.  Every state in a store or in a message is   *)
(* what its operations make it (Good), and a store knows all operations of *)
(* its own actor, so a new number is fresh everywhere.                     *)
(*                                                                         *)
(* Of CrdtLog: what survives the crashes of a logged field (the second     *)
(* half of the module).                                                    *)
(***************************************************************************)
EXTENDS MetaSync, Discovery, CrdtLog, FoldLemmas

Names == {"inc", "dec", "update", "add", "remove", "clear", "put", "set",
          "set_bits", "clear_bits"}
Times == {h \in Nat : h < PhysRange * LogicRange}

OpType == [id : Nat, name : Names, actor : Actor,
           elem : Elem \cup {CHOOSE e \in Elem : TRUE}, hlc : Times, seen : SUBSET Nat]

(* How many of the first n operations of H are the actor's, of that name.  *)
Place(H, a, nm, n) == Cardinality({j \in 1..n : H[j].actor = a /\ H[j].name = nm})
Count(H, a, nm) == Place(H, a, nm, Len(H))
Rank(H, i) == Place(H, H[i].actor, H[i].name, i)

(* Every number an actor's operations of one name have reached is the rank *)
(* of one of them.                                                         *)
Ranked(H) ==
    \A a \in Actor, nm \in Names : \A n \in 1..Count(H, a, nm) :
        \E i \in 1..Len(H) : H[i].actor = a /\ H[i].name = nm /\ Rank(H, i) = n

-----------------------------------------------------------------------------
(* Ranks.                                                                  *)

(* A place is a number: only finitely many operations come before it.      *)
LEMMA PlaceNat ==
  ASSUME NEW H, NEW a, NEW nm, NEW n \in Nat
  PROVE  Place(H, a, nm, n) \in Nat
<1> DEFINE S == {j \in 1..n : H[j].actor = a /\ H[j].name = nm}
<1>1. IsFiniteSet(1..n)
  BY FS_Interval
<1>2. IsFiniteSet(S)
  BY <1>1, FS_Subset
<1>3. Cardinality(S) \in Nat
  BY <1>2, FS_CardinalityType
<1> QED
  BY <1>3 DEF Place

(* Places grow with the position.                                          *)
LEMMA PlaceMono ==
  ASSUME NEW H, NEW a, NEW nm, NEW m \in Nat, NEW n \in Nat, m <= n
  PROVE  Place(H, a, nm, m) <= Place(H, a, nm, n)
<1> DEFINE S == {j \in 1..m : H[j].actor = a /\ H[j].name = nm}
<1> DEFINE T == {j \in 1..n : H[j].actor = a /\ H[j].name = nm}
<1>1. S \subseteq T
  OBVIOUS
<1>2. IsFiniteSet(T)
  <2>1. IsFiniteSet(1..n)
    BY FS_Interval
  <2> QED
    BY <2>1, FS_Subset
<1>3. Cardinality(S) <= Cardinality(T)
  BY <1>1, <1>2, FS_Subset
<1> QED
  BY <1>3 DEF Place

(* One position further, one more exactly if the operation there counts.   *)
LEMMA PlaceStep ==
  ASSUME NEW H, NEW a, NEW nm, NEW n \in Nat
  PROVE  /\ (H[n + 1].actor = a /\ H[n + 1].name = nm)
              => Place(H, a, nm, n + 1) = Place(H, a, nm, n) + 1
         /\ ~(H[n + 1].actor = a /\ H[n + 1].name = nm)
              => Place(H, a, nm, n + 1) = Place(H, a, nm, n)
<1> DEFINE S == {j \in 1..n : H[j].actor = a /\ H[j].name = nm}
<1> DEFINE T == {j \in 1..(n + 1) : H[j].actor = a /\ H[j].name = nm}
<1>0. \A j : j \in 1..(n + 1) <=> j \in 1..n \/ j = n + 1
  OBVIOUS
<1>1. CASE H[n + 1].actor = a /\ H[n + 1].name = nm
  <2>1. T = S \cup {n + 1}
    BY <1>0, <1>1
  <2>2. n + 1 \notin S
    OBVIOUS
  <2>3. IsFiniteSet(S)
    <3>1. IsFiniteSet(1..n)
      BY FS_Interval
    <3> QED
      BY <3>1, FS_Subset
  <2>4. Cardinality(T) = Cardinality(S) + 1
    BY <2>1, <2>2, <2>3, FS_AddElement
  <2> QED
    BY <1>1, <2>4 DEF Place
<1>2. CASE ~(H[n + 1].actor = a /\ H[n + 1].name = nm)
  <2>1. T = S
    BY <1>0, <1>2
  <2> QED
    BY <1>2, <2>1 DEF Place
<1> QED
  BY <1>1, <1>2

(* Between two operations of one actor and name the place grows.           *)
LEMMA PlaceStrict ==
  ASSUME NEW H, NEW m \in Nat, NEW n \in Nat, m < n
  PROVE  Place(H, H[n].actor, H[n].name, m) < Rank(H, n)
<1> DEFINE a == H[n].actor
<1> DEFINE nm == H[n].name
<1>1. PICK k \in Nat : k + 1 = n
  BY n - 1 \in Nat
<1>2. Place(H, a, nm, k + 1) = Place(H, a, nm, k) + 1
  <2>1. H[k + 1].actor = a /\ H[k + 1].name = nm
    BY <1>1
  <2> QED
    BY <2>1, PlaceStep
<1>3. Place(H, a, nm, m) <= Place(H, a, nm, k)
  BY <1>1, PlaceMono
<1>4. Place(H, a, nm, m) \in Nat /\ Place(H, a, nm, k) \in Nat
  BY PlaceNat
<1>5. Place(H, a, nm, m) < Place(H, a, nm, n)
  BY <1>1, <1>2, <1>3, <1>4
<1> QED
  BY <1>5 DEF Rank

(* A rank lies between one and the count, and tells the operations of one  *)
(* actor and name apart.                                                   *)
LEMMA RankBound ==
  ASSUME NEW H, Len(H) \in Nat, NEW i \in 1..Len(H)
  PROVE  Rank(H, i) \in Nat /\ 1 <= Rank(H, i) /\ Rank(H, i) <= Count(H, H[i].actor, H[i].name)
<1>0. i \in Nat
  OBVIOUS
<1>1. Rank(H, i) \in Nat
  BY <1>0, PlaceNat DEF Rank
<1>2. Place(H, H[i].actor, H[i].name, 0) < Rank(H, i)
  BY PlaceStrict
<1>3. Place(H, H[i].actor, H[i].name, 0) \in Nat
  BY PlaceNat
<1>4. Rank(H, i) <= Count(H, H[i].actor, H[i].name)
  BY PlaceMono DEF Rank, Count
<1> QED
  BY <1>1, <1>2, <1>3, <1>4

LEMMA RankInjective ==
  ASSUME NEW H, Len(H) \in Nat, NEW i \in 1..Len(H), NEW j \in 1..Len(H),
         H[i].actor = H[j].actor, H[i].name = H[j].name, Rank(H, i) = Rank(H, j)
  PROVE  i = j
<1>1. Rank(H, i) \in Nat /\ Rank(H, j) \in Nat
  BY RankBound
<1>2. CASE i < j
  <2>1. Place(H, H[j].actor, H[j].name, i) < Rank(H, j)
    BY <1>2, PlaceStrict
  <2>2. Rank(H, i) < Rank(H, j)
    BY <2>1 DEF Rank
  <2> QED
    BY <1>1, <2>2
<1>3. CASE j < i
  <2>1. Place(H, H[i].actor, H[i].name, j) < Rank(H, i)
    BY <1>3, PlaceStrict
  <2>2. Rank(H, j) < Rank(H, i)
    BY <2>1 DEF Rank
  <2> QED
    BY <1>1, <2>2
<1> QED
  BY <1>2, <1>3

-----------------------------------------------------------------------------
(* An operation appended to the history.                                   *)

LEMMA AppendPlace ==
  ASSUME NEW H \in Seq(OpType), NEW op \in OpType
  PROVE  LET G == Append(H, op) IN
         /\ G \in Seq(OpType) /\ Len(G) = Len(H) + 1 /\ Len(H) \in Nat
         /\ \A i \in 1..Len(H) : G[i] = H[i]
         /\ G[Len(H) + 1] = op
         /\ \A a, nm : \A n \in 0..Len(H) : Place(G, a, nm, n) = Place(H, a, nm, n)
         /\ \A i \in 1..Len(H) : Rank(G, i) = Rank(H, i)
<1> DEFINE G == Append(H, op)
<1>1. G \in Seq(OpType) /\ Len(G) = Len(H) + 1 /\ Len(H) \in Nat
  OBVIOUS
<1>2. \A i \in 1..Len(H) : G[i] = H[i]
  OBVIOUS
<1>3. G[Len(H) + 1] = op
  OBVIOUS
<1> HIDE DEF G
<1>4. ASSUME NEW a, NEW nm, NEW n \in 0..Len(H)
      PROVE  Place(G, a, nm, n) = Place(H, a, nm, n)
  <2>1. \A j \in 1..n : j \in 1..Len(H)
    BY <1>1
  <2>2. \A j \in 1..n : G[j] = H[j]
    BY <1>2, <2>1
  <2>3. {j \in 1..n : G[j].actor = a /\ G[j].name = nm}
          = {j \in 1..n : H[j].actor = a /\ H[j].name = nm}
    BY <2>2
  <2> QED
    BY <2>3 DEF Place
<1>5. ASSUME NEW i \in 1..Len(H)
      PROVE  Rank(G, i) = Rank(H, i)
  <2>1. i \in 0..Len(H) /\ G[i] = H[i]
    BY <1>1, <1>2
  <2> QED
    BY <1>4, <2>1 DEF Rank
<1> QED
  BY <1>1, <1>2, <1>3, <1>4, <1>5 DEF G

LEMMA AppendCount ==
  ASSUME NEW H \in Seq(OpType), NEW op \in OpType, NEW a, NEW nm
  PROVE  LET G == Append(H, op) IN
         /\ Count(H, a, nm) \in Nat
         /\ (op.actor = a /\ op.name = nm) => Count(G, a, nm) = Count(H, a, nm) + 1
         /\ ~(op.actor = a /\ op.name = nm) => Count(G, a, nm) = Count(H, a, nm)
         /\ (op.actor = a /\ op.name = nm) => Rank(G, Len(H) + 1) = Count(H, a, nm) + 1
<1> DEFINE G == Append(H, op)
<1>0. Len(H) \in Nat /\ Len(G) = Len(H) + 1 /\ G[Len(H) + 1] = op
  BY AppendPlace
<1>1. Place(G, a, nm, Len(H)) = Place(H, a, nm, Len(H))
  <2>1. Len(H) \in 0..Len(H)
    BY <1>0
  <2> QED
    BY <2>1, AppendPlace
<1> HIDE DEF G
<1>2. /\ (op.actor = a /\ op.name = nm)
           => Place(G, a, nm, Len(H) + 1) = Place(G, a, nm, Len(H)) + 1
      /\ ~(op.actor = a /\ op.name = nm)
           => Place(G, a, nm, Len(H) + 1) = Place(G, a, nm, Len(H))
  BY <1>0, PlaceStep
<1>3. Count(H, a, nm) \in Nat
  BY <1>0, PlaceNat DEF Count
<1>4. (op.actor = a /\ op.name = nm) => Rank(G, Len(H) + 1) = Count(H, a, nm) + 1
  BY <1>0, <1>1, <1>2 DEF Count, Rank
<1>5. /\ (op.actor = a /\ op.name = nm) => Count(G, a, nm) = Count(H, a, nm) + 1
      /\ ~(op.actor = a /\ op.name = nm) => Count(G, a, nm) = Count(H, a, nm)
  BY <1>0, <1>1, <1>2 DEF Count
<1> QED
  BY <1>3, <1>4, <1>5 DEF G

LEMMA AppendRanked ==
  ASSUME NEW H \in Seq(OpType), NEW op \in OpType, Ranked(H)
  PROVE  Ranked(Append(H, op))
<1> DEFINE G == Append(H, op)
<1>0. /\ Len(H) \in Nat /\ Len(G) = Len(H) + 1 /\ G[Len(H) + 1] = op
      /\ \A i \in 1..Len(H) : G[i] = H[i] /\ Rank(G, i) = Rank(H, i)
  BY AppendPlace
<1> SUFFICES ASSUME NEW a \in Actor, NEW nm \in Names, NEW n \in 1..Count(G, a, nm)
             PROVE  \E i \in 1..Len(G) : G[i].actor = a /\ G[i].name = nm /\ Rank(G, i) = n
  BY DEF Ranked
<1>1. /\ Count(H, a, nm) \in Nat
      /\ (op.actor = a /\ op.name = nm) => Count(G, a, nm) = Count(H, a, nm) + 1
      /\ ~(op.actor = a /\ op.name = nm) => Count(G, a, nm) = Count(H, a, nm)
      /\ (op.actor = a /\ op.name = nm) => Rank(G, Len(H) + 1) = Count(H, a, nm) + 1
  BY AppendCount
<1> HIDE DEF G
<1>2. CASE n <= Count(H, a, nm)
  <2>1. n \in 1..Count(H, a, nm)
    BY <1>1, <1>2
  <2>2. PICK i \in 1..Len(H) : H[i].actor = a /\ H[i].name = nm /\ Rank(H, i) = n
    BY <2>1 DEF Ranked
  <2>3. i \in 1..Len(G)
    BY <1>0
  <2> QED
    BY <1>0, <2>2, <2>3
<1>3. CASE ~(n <= Count(H, a, nm))
  <2>1. op.actor = a /\ op.name = nm
    BY <1>1, <1>3
  <2>2. n = Count(H, a, nm) + 1
    BY <1>1, <1>3, <2>1
  <2>3. Len(H) + 1 \in 1..Len(G)
    BY <1>0
  <2> QED
    BY <1>0, <1>1, <2>1, <2>2, <2>3
<1> QED
  BY <1>2, <1>3
-----------------------------------------------------------------------------
(* Counters.                                                               *)

(* The operations of name nm among ops are, of each actor, the first ones, *)
(* as many as its count says.                                              *)
Counts(H, c, ops, nm) ==
    /\ c \in [Actor -> Nat]
    /\ \A a \in Actor : c[a] <= Count(H, a, nm)
    /\ \A i \in 1..Len(H) : H[i].name = nm => (i \in ops <=> Rank(H, i) <= c[H[i].actor])

(* ops holds every operation of actor a.                                   *)
Owns(H, a, ops) == \A i \in 1..Len(H) : H[i].actor = a => i \in ops

LEMMA MaxOfTwo ==
  ASSUME NEW x \in Int, NEW y \in Int
  PROVE  Max({x, y}) = IF x >= y THEN x ELSE y
BY DEF Max

LEMMA MergeAt ==
  ASSUME NEW c \in [Actor -> Nat], NEW d \in [Actor -> Nat]
  PROVE  /\ GMerge(c, d) \in [Actor -> Nat]
         /\ \A a \in Actor : GMerge(c, d)[a] = IF c[a] >= d[a] THEN c[a] ELSE d[a]
<1>1. \A a \in Actor : Max({c[a], d[a]}) = IF c[a] >= d[a] THEN c[a] ELSE d[a]
  BY MaxOfTwo
<1> QED
  BY <1>1 DEF GMerge

LEMMA CodecKeepsCounts ==
  ASSUME NEW c \in [Actor -> Nat]
  PROVE  GParse(GBytes(c)) = c
<1> DEFINE P == GBytes(c)
<1>1. ASSUME NEW a \in Actor
      PROVE  (\E p \in P : p[1] = a) <=> c[a] > 0
  <2>1. ASSUME NEW p \in P, p[1] = a
        PROVE  c[a] > 0
    BY <2>1 DEF GBytes
  <2>2. ASSUME c[a] > 0
        PROVE  \E p \in P : p[1] = a
    <3>1. <<a, c[a]>> \in P
      BY <2>2 DEF GBytes
    <3> QED
      BY <3>1
  <2> QED
    BY <2>1, <2>2
<1>2. \A p \in P : p[2] = c[p[1]]
  BY DEF GBytes
<1> HIDE DEF P
<1>3. ASSUME NEW a \in Actor
      PROVE  GParse(P)[a] = c[a]
  <2>1. CASE c[a] > 0
    <3>1. \E p \in P : p[1] = a
      BY <1>1, <2>1
    <3>2. PICK q : q = CHOOSE p \in P : p[1] = a
      OBVIOUS
    <3>3. q \in P /\ q[1] = a
      BY <3>1, <3>2
    <3>4. q[2] = c[a]
      BY <1>2, <3>3
    <3> QED
      BY <3>1, <3>2, <3>4 DEF GParse
  <2>2. CASE ~(c[a] > 0)
    <3>1. ~(\E p \in P : p[1] = a)
      BY <1>1, <2>2
    <3>2. c[a] = 0
      BY <2>2
    <3> QED
      BY <3>1, <3>2 DEF GParse
  <2> QED
    BY <2>1, <2>2
<1>4. GParse(P) = [a \in Actor |-> GParse(P)[a]]
  BY DEF GParse
<1>5. GParse(P) = c
  BY <1>3, <1>4
<1> QED
  BY <1>5 DEF P

LEMMA ZeroCounts ==
  ASSUME NEW H \in Seq(OpType), NEW nm
  PROVE  Counts(H, Zero, {}, nm)
<1>1. Zero \in [Actor -> Nat] /\ \A a \in Actor : Zero[a] = 0
  BY DEF Zero
<1>2. Len(H) \in Nat
  OBVIOUS
<1>3. \A a : Count(H, a, nm) \in Nat
  BY <1>2, PlaceNat DEF Count
<1>4. \A i \in 1..Len(H) : Rank(H, i) \in Nat /\ 1 <= Rank(H, i) /\ H[i].actor \in Actor
  <2> TAKE i \in 1..Len(H)
  <2>1. Rank(H, i) \in Nat /\ 1 <= Rank(H, i)
    BY <1>2, RankBound
  <2>2. H[i] \in OpType
    BY <1>2
  <2> QED
    BY <2>1, <2>2 DEF OpType
<1> QED
  BY <1>1, <1>3, <1>4 DEF Counts

LEMMA MergeCounts ==
  ASSUME NEW H \in Seq(OpType), NEW nm, NEW c, NEW d, NEW A, NEW B,
         Counts(H, c, A, nm), Counts(H, d, B, nm)
  PROVE  Counts(H, GMerge(c, d), A \cup B, nm)
<1>0. c \in [Actor -> Nat] /\ d \in [Actor -> Nat]
  BY DEF Counts
<1>1. /\ GMerge(c, d) \in [Actor -> Nat]
      /\ \A a \in Actor : GMerge(c, d)[a] = IF c[a] >= d[a] THEN c[a] ELSE d[a]
  BY <1>0, MergeAt
<1>2. \A a \in Actor : GMerge(c, d)[a] <= Count(H, a, nm)
  BY <1>1 DEF Counts
<1>3. ASSUME NEW i \in 1..Len(H), H[i].name = nm
      PROVE  i \in A \cup B <=> Rank(H, i) <= GMerge(c, d)[H[i].actor]
  <2>1. H[i] \in OpType
    OBVIOUS
  <2>2. PICK a \in Actor : a = H[i].actor
    BY <2>1 DEF OpType
  <2>3. PICK r \in Nat : r = Rank(H, i)
    BY RankBound, Len(H) \in Nat
  <2>4. (i \in A <=> r <= c[a]) /\ (i \in B <=> r <= d[a])
    BY <1>3, <2>2, <2>3 DEF Counts
  <2>5. r <= GMerge(c, d)[a] <=> (r <= c[a] \/ r <= d[a])
    BY <1>0, <1>1
  <2> QED
    BY <2>2, <2>3, <2>4, <2>5
<1> QED
  BY <1>1, <1>2, <1>3 DEF Counts

(* An actor that owns all its operations has counted all of them.          *)
LEMMA OwnCountIsFull ==
  ASSUME NEW H \in Seq(OpType), Ranked(H), NEW nm \in Names, NEW c, NEW ops, NEW a \in Actor,
         Counts(H, c, ops, nm), Owns(H, a, ops)
  PROVE  c[a] = Count(H, a, nm)
<1>0. Len(H) \in Nat /\ c[a] \in Nat /\ c[a] <= Count(H, a, nm)
  BY DEF Counts
<1>1. PICK n \in Nat : n = Count(H, a, nm)
  BY <1>0, PlaceNat DEF Count
<1>2. CASE n = 0
  BY <1>0, <1>1, <1>2
<1>3. CASE n > 0
  <2>1. n \in 1..Count(H, a, nm)
    BY <1>1, <1>3
  <2>2. PICK i \in 1..Len(H) : H[i].actor = a /\ H[i].name = nm /\ Rank(H, i) = n
    BY <2>1 DEF Ranked
  <2>3. n <= c[a]
    BY <2>2 DEF Counts, Owns
  <2> QED
    BY <1>0, <1>1, <2>3
<1> QED
  BY <1>1, <1>2, <1>3

(* A new operation leaves the states that do not know it as they were.     *)
LEMMA CountsStay ==
  ASSUME NEW H \in Seq(OpType), NEW op \in OpType, NEW nm, NEW c, NEW ops, NEW more,
         Counts(H, c, ops, nm), ops \subseteq 1..Len(H),
         more \subseteq {Len(H) + 1}, op.name = nm => more = {}
  PROVE  Counts(Append(H, op), c, ops \cup more, nm)
<1> DEFINE G == Append(H, op)
<1>0. /\ Len(H) \in Nat /\ Len(G) = Len(H) + 1 /\ G[Len(H) + 1] = op
      /\ \A i \in 1..Len(H) : G[i] = H[i] /\ Rank(G, i) = Rank(H, i)
  BY AppendPlace
<1>1. \A a : Count(H, a, nm) \in Nat /\ Count(H, a, nm) <= Count(G, a, nm)
  <2> TAKE a
  <2>1. /\ Count(H, a, nm) \in Nat
        /\ (op.actor = a /\ op.name = nm) => Count(G, a, nm) = Count(H, a, nm) + 1
        /\ ~(op.actor = a /\ op.name = nm) => Count(G, a, nm) = Count(H, a, nm)
    BY AppendCount
  <2> HIDE DEF G
  <2> QED
    BY <2>1
<1>2. op.name = nm => Rank(G, Len(H) + 1) = Count(H, op.actor, nm) + 1
  BY AppendCount
<1>3. op.actor \in Actor
  BY DEF OpType
<1> HIDE DEF G
<1>4. c \in [Actor -> Nat] /\ \A a \in Actor : c[a] <= Count(H, a, nm)
  BY DEF Counts
<1>5. \A a \in Actor : c[a] <= Count(G, a, nm)
  <2> TAKE a \in Actor
  <2>1. PICK x \in Nat : x = Count(H, a, nm)
    BY <1>1
  <2>2. x <= Count(G, a, nm) /\ c[a] <= x /\ c[a] \in Nat
    BY <1>1, <1>4, <2>1
  <2>3. Count(G, a, nm) \in Nat
    BY <1>0, PlaceNat DEF Count
  <2> QED
    BY <2>2, <2>3
<1>6. ASSUME NEW i \in 1..Len(G), G[i].name = nm
      PROVE  i \in ops \cup more <=> Rank(G, i) <= c[G[i].actor]
  <2>1. CASE i \in 1..Len(H)
    <3>1. i \notin more
      BY <1>0, <2>1
    <3>2. H[i].name = nm /\ (i \in ops <=> Rank(H, i) <= c[H[i].actor])
      BY <1>0, <1>6, <2>1 DEF Counts
    <3> QED
      BY <1>0, <2>1, <3>1, <3>2
  <2>2. CASE i = Len(H) + 1
    <3>1. op.name = nm /\ G[i].actor = op.actor
      BY <1>0, <1>6, <2>2
    <3>2. i \notin ops \cup more
      BY <1>0, <2>2, <3>1
    <3>3. Rank(G, i) = Count(H, op.actor, nm) + 1
      BY <1>2, <2>2, <3>1
    <3>4. ~(Rank(G, i) <= c[op.actor])
      BY <1>1, <1>3, <1>4, <3>3
    <3> QED
      BY <3>1, <3>2, <3>4
  <2> QED
    BY <1>0, <2>1, <2>2
<1> QED
  BY <1>4, <1>5, <1>6 DEF Counts, G

(* The state of the writer counts its new operation.                       *)
LEMMA CountsGrow ==
  ASSUME NEW H \in Seq(OpType), Ranked(H), NEW op \in OpType, NEW c, NEW ops,
         Counts(H, c, ops, op.name), Owns(H, op.actor, ops), ops \subseteq 1..Len(H)
  PROVE  Counts(Append(H, op), GInc(c, op.actor, 1), ops \cup {Len(H) + 1}, op.name)
<1> DEFINE G == Append(H, op)
<1>0. /\ Len(H) \in Nat /\ Len(G) = Len(H) + 1 /\ G[Len(H) + 1] = op
      /\ \A i \in 1..Len(H) : G[i] = H[i] /\ Rank(G, i) = Rank(H, i)
  BY AppendPlace
<1> DEFINE nm == op.name
<1>a. nm \in Names /\ op.actor \in Actor
  BY DEF OpType
<1>1. \A a : /\ Count(H, a, nm) \in Nat
             /\ a = op.actor => Count(G, a, nm) = Count(H, a, nm) + 1
             /\ a # op.actor => Count(G, a, nm) = Count(H, a, nm)
  BY AppendCount
<1>2. Rank(G, Len(H) + 1) = Count(H, op.actor, nm) + 1
  BY AppendCount
<1>3. c[op.actor] = Count(H, op.actor, nm)
  BY <1>a, OwnCountIsFull
<1>4. c \in [Actor -> Nat] /\ \A a \in Actor : c[a] <= Count(H, a, nm)
  BY DEF Counts
<1> DEFINE d == GInc(c, op.actor, 1)
<1>5. /\ d \in [Actor -> Nat] /\ d[op.actor] = c[op.actor] + 1
      /\ \A a \in Actor : a # op.actor => d[a] = c[a]
  BY <1>4, <1>a DEF GInc
<1> HIDE DEF G, d
<1>6. \A a \in Actor : d[a] <= Count(G, a, nm)
  <2> TAKE a \in Actor
  <2>1. PICK x \in Nat : x = Count(H, a, nm)
    BY <1>1
  <2>2. CASE a = op.actor
    <3>1. d[a] = x + 1 /\ Count(G, a, nm) = x + 1
      BY <1>1, <1>3, <1>5, <2>1, <2>2
    <3> QED
      BY <3>1
  <2>3. CASE a # op.actor
    BY <1>1, <1>4, <1>5, <2>3
  <2> QED
    BY <2>2, <2>3
<1>7. ASSUME NEW i \in 1..Len(G), G[i].name = nm
      PROVE  i \in ops \cup {Len(H) + 1} <=> Rank(G, i) <= d[G[i].actor]
  <2>1. CASE i \in 1..Len(H)
    <3>1. i # Len(H) + 1
      BY <1>0, <2>1
    <3>2. H[i].name = nm /\ (i \in ops <=> Rank(H, i) <= c[H[i].actor])
      BY <1>0, <1>7, <2>1 DEF Counts
    <3>3. H[i].actor \in Actor
      <4>1. H[i] \in OpType
        BY <2>1
      <4> QED
        BY <4>1 DEF OpType
    <3>4. CASE H[i].actor = op.actor
      <4>1. i \in ops
        BY <2>1, <3>4 DEF Owns
      <4>2. Rank(H, i) \in Nat /\ Rank(H, i) <= c[op.actor] /\ c[op.actor] \in Nat
        BY <1>0, <1>4, <1>a, <2>1, <3>2, <3>4, <4>1, RankBound
      <4>3. Rank(H, i) <= d[op.actor]
        BY <1>5, <4>2
      <4> QED
        BY <1>0, <2>1, <3>4, <4>1, <4>3
    <3>5. CASE H[i].actor # op.actor
      BY <1>0, <1>5, <2>1, <3>1, <3>2, <3>3, <3>5
    <3> QED
      BY <3>4, <3>5
  <2>2. CASE i = Len(H) + 1
    <3>1. G[i].actor = op.actor
      BY <1>0, <2>2
    <3>2. PICK x \in Nat : x = Count(H, op.actor, nm)
      BY <1>1
    <3>3. Rank(G, i) = x + 1 /\ d[op.actor] = x + 1
      BY <1>2, <1>3, <1>5, <2>2, <3>2
    <3> QED
      BY <2>2, <3>1, <3>3
  <2> QED
    BY <1>0, <2>1, <2>2
<1> QED
  BY <1>5, <1>6, <1>7 DEF Counts, G, d
(* What a counter shows is the number of operations it was built from.     *)
LEMMA ValueCountsOperations ==
  ASSUME NEW H \in Seq(OpType), Ranked(H), NEW nm \in Names, NEW c, NEW ops,
         Counts(H, c, ops, nm), ops \subseteq 1..Len(H), \A i \in 1..Len(H) : H[i].id = i
  PROVE  /\ GValue(c) \in Nat
         /\ GValue(c) = Cardinality(Named({H[i] : i \in ops}, nm))
<1> DEFINE I == {i \in ops : H[i].name = nm}
<1> DEFINE P == UNION {{a} \X (1..c[a]) : a \in Actor}
<1> DEFINE N == Named({H[i] : i \in ops}, nm)
<1>0. Len(H) \in Nat /\ c \in [Actor -> Nat]
  BY DEF Counts
<1>1. IsFiniteSet(I)
  <2>1. IsFiniteSet(1..Len(H))
    <3> HIDE DEF I, P, N
    <3>1. PICK l \in Nat : l = Len(H)
      BY <1>0
    <3>2. IsFiniteSet(1..l)
      BY FS_Interval
    <3> QED
      BY <3>1, <3>2
  <2>2. I \subseteq ops
    BY Zenon
  <2>3. I \in SUBSET (1..Len(H))
    <3> HIDE DEF I
    <3> QED
      BY <2>2
  <2> QED
    BY <2>1, <2>3, FS_Subset
<1>2. \A a, n : <<a, n>> \in P <=> a \in Actor /\ n \in 1..c[a]
  OBVIOUS
<1>3. \A p \in P : \E a \in Actor : \E n \in 1..c[a] : p = <<a, n>>
  OBVIOUS
<1>4. \A i \in I : /\ H[i].actor \in Actor /\ Rank(H, i) \in 1..c[H[i].actor]
                   /\ H[i].name = nm /\ i \in 1..Len(H)
  <2> TAKE i \in I
  <2>1. H[i].name = nm /\ i \in 1..Len(H) /\ H[i] \in OpType
    OBVIOUS
  <2>2. H[i].actor \in Actor
    BY <2>1 DEF OpType
  <2>3. Rank(H, i) <= c[H[i].actor]
    BY <2>1 DEF Counts
  <2>4. Rank(H, i) \in Nat /\ 1 <= Rank(H, i)
    BY <1>0, <2>1, RankBound
  <2>5. c[H[i].actor] \in Nat
    BY <1>0, <2>2
  <2> QED
    BY <2>1, <2>2, <2>3, <2>4, <2>5
<1>5. ASSUME NEW a \in Actor, NEW n \in 1..c[a]
      PROVE  \E i \in I : H[i].actor = a /\ Rank(H, i) = n
  <2>1. n \in 1..Count(H, a, nm)
    <3>1. c[a] \in Nat /\ c[a] <= Count(H, a, nm)
      BY DEF Counts
    <3>2. Count(H, a, nm) \in Nat
      BY <1>0, PlaceNat DEF Count
    <3> QED
      BY <3>1, <3>2
  <2>2. PICK i \in 1..Len(H) : H[i].actor = a /\ H[i].name = nm /\ Rank(H, i) = n
    BY <2>1 DEF Ranked
  <2>3. n <= c[a]
    BY <1>0
  <2>4. i \in ops
    BY <2>2, <2>3 DEF Counts
  <2> QED
    BY <2>2, <2>4
<1>6. \A i, j \in I : H[i].actor = H[j].actor /\ Rank(H, i) = Rank(H, j) => i = j
  BY <1>0, <1>4, RankInjective
<1> DEFINE f == [i \in I |-> <<H[i].actor, Rank(H, i)>>]
<1> HIDE DEF P, I
<1>7. f \in Bijection(I, P)
  <2>1. f \in [I -> P]
    BY <1>2, <1>4
  <2>2. \A i, j \in I : f[i] = f[j] => i = j
    BY <1>6
  <2>3. \A p \in P : \E i \in I : f[i] = p
    <3> TAKE p \in P
    <3>1. PICK a \in Actor : \E n \in 1..c[a] : p = <<a, n>>
      BY <1>3
    <3>2. PICK n \in 1..c[a] : p = <<a, n>>
      BY <3>1
    <3>3. PICK i \in I : H[i].actor = a /\ Rank(H, i) = n
      BY <1>5
    <3> QED
      BY <3>2, <3>3
  <2> HIDE DEF f
  <2> QED
    BY <2>1, <2>2, <2>3 DEF Bijection, Injection, IsInjective, Surjection
<1> DEFINE g == [i \in I |-> H[i]]
<1>8. g \in Bijection(I, N)
  <2>1. g \in [I -> N]
    BY DEF I, Named
  <2>2. \A i, j \in I : g[i] = g[j] => i = j
    BY <1>4
  <2>3. \A o \in N : \E i \in I : g[i] = o
    BY DEF I, Named
  <2> HIDE DEF g, N
  <2> QED
    BY <2>1, <2>2, <2>3 DEF Bijection, Injection, IsInjective, Surjection
<1>9. Cardinality(P) = Cardinality(I)
  BY <1>1, <1>7, FS_Bijection DEF ExistsBijection
<1>10. Cardinality(N) = Cardinality(I)
  BY <1>1, <1>8, FS_Bijection DEF ExistsBijection
<1>11. Cardinality(I) \in Nat
  BY <1>1, FS_CardinalityType
<1> QED
  BY <1>9, <1>10, <1>11 DEF GValue, P

-----------------------------------------------------------------------------
(* Registers.                                                              *)

(* A register holds the operation of the latest timestamp it was built     *)
(* from, and its default when it was built from none.                      *)
RegOf(H, s, ops) ==
    /\ ops = {} => s = DefaultReg
    /\ ops # {} => \E i \in ops :
         /\ s = [hlc |-> H[i].hlc, actor |-> H[i].actor, value |-> i]
         /\ \A j \in ops : H[j].hlc <= H[i].hlc

LEMMA ClockRange == PhysRange * LogicRange \in Nat /\ 0 < PhysRange * LogicRange
<1>1. PICK p \in Nat : p = PhysRange /\ p > 0
  BY CrdtAssumption
<1>2. PICK l \in Nat : l = LogicRange /\ l > 0
  BY CrdtAssumption
<1>3. p * l \in Nat /\ 0 < p * l
  BY <1>1, <1>2
<1> QED
  BY <1>1, <1>2, <1>3

(* Taken apart and put together again, a timestamp is itself.              *)
LEMMA CodecKeepsTime ==
  ASSUME NEW h \in Times
  PROVE  from_parts(physical_ns(h), logical(h)) = h
<1>1. PICK l \in Nat : l = LogicRange /\ l > 0
  BY CrdtAssumption
<1>2. PICK n \in Nat : n = PhysRange * LogicRange /\ n > 0
  BY ClockRange
<1>3. h \in Nat /\ h < n
  BY <1>2 DEF Times
<1>4. (h \div l) * l + (h % l) = h
  BY <1>1, <1>3
<1>5. h % n = h
  BY <1>2, <1>3
<1>6. from_parts(physical_ns(h), logical(h)) = ((h \div l) * l + (h % l)) % n
  BY <1>1, <1>2 DEF from_parts, physical_ns, logical
<1> QED
  BY <1>4, <1>5, <1>6

LEMMA ClockTypes ==
  ASSUME NEW w \in Nat
  PROVE  /\ now(w) \in Times
         /\ \A h \in Times : tick(h, w) \in Times
<1>1. PICK l \in Nat : l = LogicRange /\ l > 0
  BY CrdtAssumption
<1>2. PICK p \in Nat : p = PhysRange /\ p > 0
  BY CrdtAssumption
<1>3. PICK n \in Nat : n = PhysRange * LogicRange /\ n > 0
  BY ClockRange
<1>4. ASSUME NEW x \in Nat, NEW y \in Nat
      PROVE  from_parts(x, y) \in Times
  <2>1. PICK z \in Nat : z = x * l + y
    BY <1>1
  <2>2. z % n \in Nat /\ z % n < n
    BY <1>3
  <2> QED
    BY <1>1, <1>3, <2>1, <2>2 DEF from_parts, Times
<1>5. now(w) \in Times
  <2>1. w % p \in Nat
    BY <1>2
  <2> QED
    BY <1>2, <1>4, <2>1 DEF now
<1>6. ASSUME NEW h \in Times
      PROVE  tick(h, w) \in Times
  <2>1. h \in Nat
    BY DEF Times
  <2>2. h \div l \in Nat /\ h % l \in Nat
    BY <1>1, <2>1
  <2>3. ((h % l) + 1) % l \in Nat
    BY <1>1, <2>2
  <2>4. from_parts(physical_ns(h), (logical(h) + 1) % LogicRange) \in Times
    BY <1>1, <1>4, <2>2, <2>3 DEF physical_ns, logical
  <2> QED
    BY <1>5, <2>4 DEF tick
<1> QED
  BY <1>5, <1>6

LEMMA CodecKeepsRegister ==
  ASSUME NEW H \in Seq(OpType), NEW s, NEW ops, ops \subseteq 1..Len(H), RegOf(H, s, ops)
  PROVE  LwwParse(LwwBytes(s)) = s
<1>1. \E h \in Times : \E a, v : s = [hlc |-> h, actor |-> a, value |-> v]
  <2>1. CASE ops = {}
    <3>1. 0 \in Times
      BY ClockRange DEF Times
    <3> QED
      BY <2>1, <3>1 DEF RegOf, DefaultReg
  <2>2. CASE ops # {}
    <3>1. PICK i \in ops : s = [hlc |-> H[i].hlc, actor |-> H[i].actor, value |-> i]
      BY <2>2 DEF RegOf
    <3>2. H[i] \in OpType
      OBVIOUS
    <3>3. H[i].hlc \in Times
      BY <3>2 DEF OpType
    <3> QED
      BY <3>1, <3>3
  <2> QED
    BY <2>1, <2>2
<1>2. PICK h \in Times : \E a, v : s = [hlc |-> h, actor |-> a, value |-> v]
  BY <1>1
<1>a. PICK a, v : s = [hlc |-> h, actor |-> a, value |-> v]
  BY <1>2
<1>3. LwwParse(LwwBytes(s))
        = [hlc |-> from_parts(physical_ns(h), logical(h)), actor |-> a, value |-> v]
  BY <1>a DEF LwwParse, LwwBytes
<1> QED
  BY <1>a, <1>3, CodecKeepsTime

LEMMA MergeRegisters ==
  ASSUME NEW H \in Seq(OpType), NEW s, NEW t, NEW A, NEW B,
         A \subseteq 1..Len(H), B \subseteq 1..Len(H), RegOf(H, s, A), RegOf(H, t, B)
  PROVE  RegOf(H, LwwMerge(s, t), A \cup B)
<1>0. \A i \in A \cup B : /\ H[i].hlc \in Nat /\ H[i].actor \in Nat /\ H[i].actor > 0
  <2> TAKE i \in A \cup B
  <2>1. H[i] \in OpType
    OBVIOUS
  <2>2. H[i].hlc \in Times /\ H[i].actor \in Actor
    BY <2>1 DEF OpType
  <2>3. H[i].hlc \in Nat
    BY <2>2 DEF Times
  <2>4. PICK a \in Actor : a = H[i].actor
    BY <2>2
  <2>5. a \in Nat /\ a # 0
    BY CrdtAssumption
  <2>6. a \in Nat /\ a > 0
    BY <2>5
  <2> QED
    BY <2>3, <2>4, <2>6
<1>1. CASE A = {} /\ B = {}
  <2>1. s = DefaultReg /\ t = DefaultReg
    BY <1>1 DEF RegOf
  <2> QED
    BY <1>1, <2>1 DEF RegOf, LwwMerge
<1>2. CASE A = {} /\ B # {}
  <2>1. PICK i \in B : /\ t = [hlc |-> H[i].hlc, actor |-> H[i].actor, value |-> i]
                       /\ \A j \in B : H[j].hlc <= H[i].hlc
    BY <1>2 DEF RegOf
  <2>2. s = [hlc |-> 0, actor |-> 0, value |-> 0]
    BY <1>2 DEF RegOf, DefaultReg, NoActor, NoValue
  <2>3. Later(t.hlc, t.actor, s.hlc, s.actor)
    BY <1>0, <2>1, <2>2 DEF Later
  <2>4. LwwMerge(s, t) = t /\ A \cup B = B
    BY <1>2, <2>3 DEF LwwMerge
  <2> QED
    BY <1>2, <2>4
<1>3. CASE A # {} /\ B = {}
  <2>1. PICK i \in A : s = [hlc |-> H[i].hlc, actor |-> H[i].actor, value |-> i]
    BY <1>3 DEF RegOf
  <2>2. t = [hlc |-> 0, actor |-> 0, value |-> 0]
    BY <1>3 DEF RegOf, DefaultReg, NoActor, NoValue
  <2>3. ~Later(t.hlc, t.actor, s.hlc, s.actor)
    BY <1>0, <2>1, <2>2 DEF Later
  <2>4. LwwMerge(s, t) = s /\ A \cup B = A
    BY <1>3, <2>3 DEF LwwMerge
  <2> QED
    BY <1>3, <2>4
<1>4. CASE A # {} /\ B # {}
  <2>1. PICK i \in A : /\ s = [hlc |-> H[i].hlc, actor |-> H[i].actor, value |-> i]
                       /\ \A j \in A : H[j].hlc <= H[i].hlc
    BY <1>4 DEF RegOf
  <2>2. PICK k \in B : /\ t = [hlc |-> H[k].hlc, actor |-> H[k].actor, value |-> k]
                       /\ \A j \in B : H[j].hlc <= H[k].hlc
    BY <1>4 DEF RegOf
  <2>3. CASE Later(t.hlc, t.actor, s.hlc, s.actor)
    <3>1. LwwMerge(s, t) = t
      BY <2>3 DEF LwwMerge
    <3>2. H[i].hlc <= H[k].hlc
      BY <1>0, <2>1, <2>2, <2>3 DEF Later
    <3>3. \A j \in A \cup B : H[j].hlc <= H[k].hlc
      BY <1>0, <2>1, <2>2, <3>2
    <3> QED
      BY <2>2, <3>1, <3>3 DEF RegOf
  <2>4. CASE ~Later(t.hlc, t.actor, s.hlc, s.actor)
    <3>1. LwwMerge(s, t) = s
      BY <2>4 DEF LwwMerge
    <3>2. H[k].hlc <= H[i].hlc
      BY <1>0, <2>1, <2>2, <2>4 DEF Later
    <3>3. \A j \in A \cup B : H[j].hlc <= H[i].hlc
      BY <1>0, <2>1, <2>2, <3>2
    <3> QED
      BY <2>1, <3>1, <3>3 DEF RegOf
  <2> QED
    BY <2>3, <2>4
<1> QED
  BY <1>1, <1>2, <1>3, <1>4

LEMMA RegisterStays ==
  ASSUME NEW H \in Seq(OpType), NEW op \in OpType, NEW s, NEW ops,
         ops \subseteq 1..Len(H), RegOf(H, s, ops)
  PROVE  RegOf(Append(H, op), s, ops)
<1> DEFINE G == Append(H, op)
<1>1. \A i \in ops : G[i] = H[i]
  BY AppendPlace
<1> HIDE DEF G
<1>2. RegOf(G, s, ops)
  BY <1>1 DEF RegOf
<1> QED
  BY <1>2 DEF G

LEMMA RegisterTakes ==
  ASSUME NEW H \in Seq(OpType), NEW op \in OpType, NEW s, NEW ops,
         ops \subseteq 1..Len(H), RegOf(H, s, ops), op.id = Len(H) + 1
  PROVE  RegOf(Append(H, op), LwwUpdate(s, op.hlc, op.actor, op.id), ops \cup {Len(H) + 1})
<1> DEFINE G == Append(H, op)
<1>0. /\ \A i \in ops : G[i] = H[i]
      /\ G[Len(H) + 1] = op
  BY AppendPlace
<1>1. \A i \in ops : H[i].hlc \in Nat
  <2> TAKE i \in ops
  <2>1. H[i] \in OpType
    OBVIOUS
  <2> QED
    BY <2>1 DEF OpType, Times
<1>2. op.hlc \in Nat
  BY DEF OpType, Times
<1> DEFINE n == Len(H) + 1
<1> DEFINE r == [hlc |-> op.hlc, actor |-> op.actor, value |-> n]
<1> HIDE DEF G
<1>3. CASE ops = {}
  <2>1. s.hlc = 0
    BY <1>3 DEF RegOf, DefaultReg
  <2>2. LwwUpdate(s, op.hlc, op.actor, op.id) = r
    BY <1>2, <2>1 DEF LwwUpdate
  <2>3. ops \cup {n} = {n}
    BY <1>3
  <2>4. op.hlc <= op.hlc
    BY <1>2
  <2> HIDE DEF n
  <2> QED
    BY <1>0, <2>2, <2>3, <2>4 DEF RegOf, G, n
<1>4. CASE ops # {}
  <2>1. PICK i \in ops : /\ s = [hlc |-> H[i].hlc, actor |-> H[i].actor, value |-> i]
                         /\ \A j \in ops : H[j].hlc <= H[i].hlc
    BY <1>4 DEF RegOf
  <2>2. CASE op.hlc >= s.hlc
    <3>1. LwwUpdate(s, op.hlc, op.actor, op.id) = r
      BY <2>2 DEF LwwUpdate
    <3>2. \A j \in ops : H[j].hlc <= op.hlc
      BY <1>1, <1>2, <2>1, <2>2
    <3>3. \A j \in ops \cup {n} : G[j].hlc <= G[n].hlc
      <4> HIDE DEF r
      <4>1. PICK m : m = n
        OBVIOUS
      <4>2. G[m] = op /\ op.hlc <= op.hlc
        BY <1>0, <1>2, <4>1
      <4>3. \A j \in ops : G[j].hlc <= op.hlc
        BY <1>0, <3>2
      <4> HIDE DEF n
      <4>4. \A j \in ops \cup {m} : G[j].hlc <= G[m].hlc
        BY <4>2, <4>3
      <4> QED
        BY <4>1, <4>4
    <3>4. r = [hlc |-> G[n].hlc, actor |-> G[n].actor, value |-> n]
      BY <1>0
    <3> HIDE DEF n, r
    <3>5. RegOf(G, r, ops \cup {n})
      BY <3>3, <3>4 DEF RegOf
    <3> QED
      BY <3>1, <3>5 DEF G, n
  <2>3. CASE ~(op.hlc >= s.hlc)
    <3>1. LwwUpdate(s, op.hlc, op.actor, op.id) = s
      BY <2>3 DEF LwwUpdate
    <3>2. op.hlc <= H[i].hlc
      BY <1>1, <1>2, <2>1, <2>3
    <3>3. \A j \in ops \cup {n} : G[j].hlc <= G[i].hlc
      BY <1>0, <2>1, <3>2
    <3> QED
      BY <1>0, <2>1, <3>1, <3>3 DEF RegOf, G
  <2> QED
    BY <2>2, <2>3
<1> QED
  BY <1>3, <1>4
-----------------------------------------------------------------------------
(* Observed-remove sets.                                                   *)

NoClear(H) == \A i \in 1..Len(H) : H[i].name # "clear"
Dot(H, i) == <<H[i].actor, Rank(H, i) - 1>>
Adds(H, i, e) == H[i].name = "add" /\ H[i].elem = e
Covers(H, r, e, i) == H[r].name = "remove" /\ H[r].elem = e /\ i \in H[r].seen

SetType == [elements : [Elem -> SUBSET (Actor \X Nat)],
            tombstones : [Elem -> SUBSET (Actor \X Nat)], counters : [Actor -> Nat]]

(* The dots of a set are those of the adds it was built from, and its      *)
(* tombstones those of the adds a remove it was built from had seen.       *)
DotsOf(H, s, ops) ==
    /\ s \in SetType
    /\ \A a \in Actor : s.counters[a] <= Count(H, a, "add")
    /\ \A e \in Elem, d \in Actor \X Nat :
         /\ d \in s.elements[e] <=> \E i \in ops : Adds(H, i, e) /\ d = Dot(H, i)
         /\ d \in s.tombstones[e] <=>
              \E r \in ops : \E i \in 1..Len(H) :
                  Adds(H, i, e) /\ Covers(H, r, e, i) /\ d = Dot(H, i)

LEMMA DotType ==
  ASSUME NEW H \in Seq(OpType), NEW i \in 1..Len(H)
  PROVE  /\ Dot(H, i) \in Actor \X Nat /\ Dot(H, i)[1] = H[i].actor
         /\ Dot(H, i)[2] + 1 = Rank(H, i)
<1>1. Len(H) \in Nat /\ H[i] \in OpType
  OBVIOUS
<1>2. H[i].actor \in Actor
  BY <1>1 DEF OpType
<1>3. PICK r \in Nat : r = Rank(H, i) /\ 1 <= r
  BY <1>1, RankBound
<1>4. r - 1 \in Nat /\ (r - 1) + 1 = r
  BY <1>3
<1> QED
  BY <1>2, <1>3, <1>4 DEF Dot

LEMMA DotInjective ==
  ASSUME NEW H \in Seq(OpType), NEW i \in 1..Len(H), NEW j \in 1..Len(H),
         H[i].name = H[j].name, Dot(H, i) = Dot(H, j)
  PROVE  i = j
<1>1. H[i].actor = H[j].actor /\ Rank(H, i) = Rank(H, j)
  BY DotType
<1>2. Len(H) \in Nat
  OBVIOUS
<1> QED
  BY <1>1, <1>2, RankInjective

LEMMA EmptySetDots ==
  ASSUME NEW H \in Seq(OpType)
  PROVE  DotsOf(H, NewSet, {})
<1>1. NewSet \in SetType
  BY DEF NewSet, NoDots, Zero, SetType
<1>2. \A a \in Actor : Count(H, a, "add") \in Nat /\ NewSet.counters[a] = 0
  BY PlaceNat, Len(H) \in Nat DEF Count, NewSet, Zero
<1>3. \A e \in Elem : NewSet.elements[e] = {} /\ NewSet.tombstones[e] = {}
  BY DEF NewSet, NoDots
<1> QED
  BY <1>1, <1>2, <1>3 DEF DotsOf

LEMMA MergeDots ==
  ASSUME NEW H \in Seq(OpType), NEW s, NEW t, NEW A, NEW B, DotsOf(H, s, A), DotsOf(H, t, B)
  PROVE  DotsOf(H, OrMerge(s, t), A \cup B)
<1> DEFINE m == OrMerge(s, t)
<1>0. s \in SetType /\ t \in SetType
  BY DEF DotsOf
<1>1. s.counters \in [Actor -> Nat] /\ t.counters \in [Actor -> Nat]
  BY <1>0 DEF SetType
<1>2. /\ GMerge(s.counters, t.counters) \in [Actor -> Nat]
      /\ \A a \in Actor : GMerge(s.counters, t.counters)[a]
            = IF s.counters[a] >= t.counters[a] THEN s.counters[a] ELSE t.counters[a]
  BY <1>1, MergeAt
<1>3. /\ m.counters = GMerge(s.counters, t.counters)
      /\ \A e \in Elem : /\ m.elements[e] = s.elements[e] \cup t.elements[e]
                         /\ m.tombstones[e] = s.tombstones[e] \cup t.tombstones[e]
  BY DEF OrMerge
<1>4. m \in SetType
  BY <1>0, <1>2 DEF OrMerge, SetType
<1> HIDE DEF m
<1>5. \A a \in Actor : m.counters[a] <= Count(H, a, "add")
  BY <1>2, <1>3 DEF DotsOf
<1>6. ASSUME NEW e \in Elem, NEW d \in Actor \X Nat
      PROVE  /\ d \in m.elements[e] <=> \E i \in A \cup B : Adds(H, i, e) /\ d = Dot(H, i)
             /\ d \in m.tombstones[e] <=>
                  \E r \in A \cup B : \E i \in 1..Len(H) :
                      Adds(H, i, e) /\ Covers(H, r, e, i) /\ d = Dot(H, i)
  <2>1. d \in m.elements[e] <=> d \in s.elements[e] \/ d \in t.elements[e]
    BY <1>3
  <2>2. d \in m.tombstones[e] <=> d \in s.tombstones[e] \/ d \in t.tombstones[e]
    BY <1>3
  <2>3. /\ d \in s.elements[e] <=> \E i \in A : Adds(H, i, e) /\ d = Dot(H, i)
        /\ d \in t.elements[e] <=> \E i \in B : Adds(H, i, e) /\ d = Dot(H, i)
    BY DEF DotsOf
  <2>4. /\ d \in s.tombstones[e] <=> \E r \in A : \E i \in 1..Len(H) :
               Adds(H, i, e) /\ Covers(H, r, e, i) /\ d = Dot(H, i)
        /\ d \in t.tombstones[e] <=> \E r \in B : \E i \in 1..Len(H) :
               Adds(H, i, e) /\ Covers(H, r, e, i) /\ d = Dot(H, i)
    BY DEF DotsOf
  <2>5. d \in m.elements[e] <=> \E i \in A \cup B : Adds(H, i, e) /\ d = Dot(H, i)
    BY <2>1, <2>3
  <2>6. d \in m.tombstones[e] <=> \E r \in A \cup B : \E i \in 1..Len(H) :
               Adds(H, i, e) /\ Covers(H, r, e, i) /\ d = Dot(H, i)
    BY <2>2, <2>4
  <2> QED
    BY <2>5, <2>6
<1> QED
  BY <1>4, <1>5, <1>6 DEF DotsOf, m

(* The export keeps the dots and the tombstones, and the counters it       *)
(* rebuilds from them are not above the counts.                            *)
LEMMA CodecKeepsDots ==
  ASSUME NEW H \in Seq(OpType), NEW s, NEW ops, ops \subseteq 1..Len(H), DotsOf(H, s, ops)
  PROVE  DotsOf(H, OrParse(OrBytes(s)), ops)
<1> DEFINE t == OrParse(OrBytes(s))
<1> DEFINE All == UNION {b.add \cup b.rem : b \in OrBytes(s)}
<1> DEFINE Nums(a) == {0} \cup {d[2] + 1 : d \in {x \in All : x[1] = a}}
<1>0. s \in SetType
  BY DEF DotsOf
<1>1. \A e \in Elem : s.elements[e] \subseteq Actor \X Nat /\ s.tombstones[e] \subseteq Actor \X Nat
  BY <1>0 DEF SetType
<1>2. ASSUME NEW e \in Elem
      PROVE  /\ UNION {b.add : b \in {x \in OrBytes(s) : x.elem = e}} = s.elements[e]
             /\ UNION {b.rem : b \in {x \in OrBytes(s) : x.elem = e}} = s.tombstones[e]
  <2>1. CASE e \in OrKeys(s)
    <3> DEFINE b == [elem |-> e, add |-> s.elements[e], rem |-> s.tombstones[e]]
    <3>1. b \in OrBytes(s) /\ b.elem = e
      BY <2>1 DEF OrBytes
    <3>2. \A x \in OrBytes(s) : x.elem = e => x = b
      BY DEF OrBytes
    <3>3. b.add = s.elements[e] /\ b.rem = s.tombstones[e]
      OBVIOUS
    <3> HIDE DEF b
    <3>4. {x \in OrBytes(s) : x.elem = e} = {b}
      BY <3>1, <3>2
    <3> QED
      BY <3>3, <3>4
  <2>2. CASE e \notin OrKeys(s)
    <3>1. {x \in OrBytes(s) : x.elem = e} = {}
      BY <2>2 DEF OrBytes
    <3>2. s.elements[e] = {} /\ s.tombstones[e] = {}
      BY <2>2 DEF OrKeys
    <3> QED
      BY <3>1, <3>2
  <2> QED
    BY <2>1, <2>2
<1>3. /\ \A e \in Elem : t.elements[e] = s.elements[e] /\ t.tombstones[e] = s.tombstones[e]
      /\ \A a \in Actor : t.counters[a] = Max(Nums(a))
      /\ t.counters = [a \in Actor |-> Max(Nums(a))]
  BY <1>2 DEF OrParse
<1>4. \A d \in All : \E e \in Elem : d \in s.elements[e] \/ d \in s.tombstones[e]
  BY DEF OrBytes, OrKeys
<1>5. \A d \in All : d \in Actor \X Nat /\ \E i \in 1..Len(H) : H[i].name = "add" /\ d = Dot(H, i)
  <2> TAKE d \in All
  <2>1. PICK e \in Elem : d \in s.elements[e] \/ d \in s.tombstones[e]
    BY <1>4
  <2>2. d \in Actor \X Nat
    BY <1>1, <2>1
  <2>3. CASE d \in s.elements[e]
    BY <2>2, <2>3 DEF DotsOf, Adds
  <2>4. CASE d \in s.tombstones[e]
    BY <2>2, <2>4 DEF DotsOf, Adds
  <2> QED
    BY <2>1, <2>2, <2>3, <2>4
<1> HIDE DEF All
<1>6. ASSUME NEW a \in Actor
      PROVE  Max(Nums(a)) \in Nat /\ Max(Nums(a)) <= Count(H, a, "add")
  <2>0. PICK n \in Nat : n = Count(H, a, "add")
    BY PlaceNat, Len(H) \in Nat DEF Count
  <2>1. \A x \in Nums(a) : x \in Nat /\ x <= n
    <3> TAKE x \in Nums(a)
    <3>1. CASE x = 0
      BY <2>0, <3>1
    <3>2. CASE x # 0
      <4>1. PICK d \in All : d[1] = a /\ x = d[2] + 1
        BY <3>2
      <4>2. PICK i \in 1..Len(H) : H[i].name = "add" /\ d = Dot(H, i)
        BY <1>5
      <4>3. H[i].actor = a /\ x = Rank(H, i)
        BY <4>1, <4>2, DotType
      <4>4. x \in Nat /\ x <= n
        BY <2>0, <4>2, <4>3, RankBound, Len(H) \in Nat
      <4> QED
        BY <4>4
    <3> QED
      BY <3>1, <3>2
  <2>2. Nums(a) # {} /\ Nums(a) \subseteq Nat
    BY <2>1
  <2> HIDE DEF Nums
  <2>3. Max(Nums(a)) \in Nums(a) /\ Max(Nums(a)) \in Nat
    BY <2>1, <2>2, MaxOfBounded
  <2> QED
    BY <2>0, <2>1, <2>3
<1> HIDE DEF Nums
<1>7. t.counters \in [Actor -> Nat] /\ \A a \in Actor : t.counters[a] <= Count(H, a, "add")
  BY <1>3, <1>6
<1>8. t = [elements |-> t.elements, tombstones |-> t.tombstones, counters |-> t.counters]
  BY DEF OrParse
<1>9. t.elements = [e \in Elem |-> t.elements[e]] /\ t.tombstones = [e \in Elem |-> t.tombstones[e]]
  BY DEF OrParse
<1> HIDE DEF t
<1>10. /\ t.elements \in [Elem -> SUBSET (Actor \X Nat)]
       /\ t.tombstones \in [Elem -> SUBSET (Actor \X Nat)]
  BY <1>1, <1>3, <1>9
<1>11. t \in SetType
  BY <1>7, <1>8, <1>10 DEF SetType
<1>12. DotsOf(H, t, ops)
  BY <1>3, <1>7, <1>11 DEF DotsOf
<1> QED
  BY <1>12 DEF t
(* An operation saw only earlier ones.                                     *)
SeenEarlier(H) == \A i \in 1..Len(H) : H[i].seen \subseteq 1..(i - 1)

LEMMA AppendDots ==
  ASSUME NEW H \in Seq(OpType), NEW op \in OpType, SeenEarlier(H)
  PROVE  LET G == Append(H, op) IN
         /\ \A i \in 1..Len(H) :
              /\ Dot(G, i) = Dot(H, i)
              /\ \A e : Adds(G, i, e) <=> Adds(H, i, e)
              /\ \A e, j : Covers(G, i, e, j) <=> Covers(H, i, e, j)
              /\ \A e, j : Covers(G, i, e, j) => j \in 1..Len(H)
         /\ \A a : Count(H, a, "add") \in Nat /\ Count(H, a, "add") <= Count(G, a, "add")
<1> DEFINE G == Append(H, op)
<1>0. /\ Len(H) \in Nat
      /\ \A i \in 1..Len(H) : G[i] = H[i] /\ Rank(G, i) = Rank(H, i)
  BY AppendPlace
<1>1. ASSUME NEW a
      PROVE  Count(H, a, "add") \in Nat /\ Count(H, a, "add") <= Count(G, a, "add")
  <2>1. /\ Count(H, a, "add") \in Nat
        /\ (op.actor = a /\ op.name = "add") => Count(G, a, "add") = Count(H, a, "add") + 1
        /\ ~(op.actor = a /\ op.name = "add") => Count(G, a, "add") = Count(H, a, "add")
    BY AppendCount
  <2> HIDE DEF G
  <2> QED
    BY <2>1
<1> HIDE DEF G
<1>2. ASSUME NEW i \in 1..Len(H)
      PROVE  /\ Dot(G, i) = Dot(H, i)
             /\ \A e : Adds(G, i, e) <=> Adds(H, i, e)
             /\ \A e, j : Covers(G, i, e, j) <=> Covers(H, i, e, j)
             /\ \A e, j : Covers(G, i, e, j) => j \in 1..Len(H)
  <2>1. G[i] = H[i] /\ Rank(G, i) = Rank(H, i)
    BY <1>0
  <2>2. \A j \in H[i].seen : j \in 1..Len(H)
    BY <1>0 DEF SeenEarlier
  <2> QED
    BY <2>1, <2>2 DEF Dot, Adds, Covers
<1> QED
  BY <1>1, <1>2 DEF G

LEMMA DotsStay ==
  ASSUME NEW H \in Seq(OpType), NEW op \in OpType, SeenEarlier(H), NEW s, NEW ops,
         ops \subseteq 1..Len(H), DotsOf(H, s, ops)
  PROVE  DotsOf(Append(H, op), s, ops)
<1> DEFINE G == Append(H, op)
<1>0. Len(H) \in Nat /\ Len(G) = Len(H) + 1
  BY AppendPlace
<1>1. /\ \A i \in 1..Len(H) :
           /\ Dot(G, i) = Dot(H, i)
           /\ \A e : Adds(G, i, e) <=> Adds(H, i, e)
           /\ \A e, j : Covers(G, i, e, j) <=> Covers(H, i, e, j)
           /\ \A e, j : Covers(G, i, e, j) => j \in 1..Len(H)
      /\ \A a : Count(H, a, "add") \in Nat /\ Count(H, a, "add") <= Count(G, a, "add")
  BY AppendDots
<1>2. s \in SetType
  BY DEF DotsOf
<1>3. \A a \in Actor : s.counters[a] <= Count(G, a, "add")
  <2> TAKE a \in Actor
  <2>1. s.counters[a] \in Nat
    BY <1>2 DEF SetType
  <2>2. s.counters[a] <= Count(H, a, "add")
    BY DEF DotsOf
  <2>3. Count(G, a, "add") \in Nat
    BY <1>0, PlaceNat DEF Count
  <2> HIDE DEF G
  <2> QED
    BY <1>1, <2>1, <2>2, <2>3
<1> HIDE DEF G
<1>4. ASSUME NEW e \in Elem, NEW d \in Actor \X Nat
      PROVE  /\ d \in s.elements[e] <=> \E i \in ops : Adds(G, i, e) /\ d = Dot(G, i)
             /\ d \in s.tombstones[e] <=>
                  \E r \in ops : \E i \in 1..Len(G) :
                      Adds(G, i, e) /\ Covers(G, r, e, i) /\ d = Dot(G, i)
  <2>1. d \in s.elements[e] <=> \E i \in ops : Adds(H, i, e) /\ d = Dot(H, i)
    BY DEF DotsOf
  <2>2. d \in s.tombstones[e] <=> \E r \in ops : \E i \in 1..Len(H) :
               Adds(H, i, e) /\ Covers(H, r, e, i) /\ d = Dot(H, i)
    BY DEF DotsOf
  <2>3. \A i \in 1..Len(H) : i \in 1..Len(G)
    BY <1>0
  <2>4. d \in s.elements[e] <=> \E i \in ops : Adds(G, i, e) /\ d = Dot(G, i)
    BY <1>1, <2>1
  <2>5. d \in s.tombstones[e] <=> \E r \in ops : \E i \in 1..Len(G) :
               Adds(G, i, e) /\ Covers(G, r, e, i) /\ d = Dot(G, i)
    BY <1>1, <2>2, <2>3
  <2> QED
    BY <2>4, <2>5
<1> QED
  BY <1>2, <1>3, <1>4 DEF DotsOf, G

LEMMA DotsAdded ==
  ASSUME NEW H \in Seq(OpType), NEW op \in OpType, SeenEarlier(H), NEW s, NEW ops,
         ops \subseteq 1..Len(H), DotsOf(H, s, ops), op.name = "add", op.elem \in Elem,
         s.counters[op.actor] = Count(H, op.actor, "add")
  PROVE  LET t == OrAdd(s, op.actor, op.elem) IN
         /\ DotsOf(Append(H, op), t, ops \cup {Len(H) + 1})
         /\ t.counters[op.actor] = Count(Append(H, op), op.actor, "add")
<1> DEFINE G == Append(H, op)
<1> DEFINE n == Len(H) + 1
<1> DEFINE a0 == op.actor
<1> DEFINE t == OrAdd(s, a0, op.elem)
<1>a. a0 \in Actor
  BY DEF OpType
<1>0. Len(H) \in Nat /\ Len(G) = n /\ G[n] = op
  BY AppendPlace
<1>1. DotsOf(G, s, ops)
  BY DotsStay
<1>2. PICK c \in Nat : c = Count(H, a0, "add")
  BY <1>0, PlaceNat DEF Count
<1>3. Count(G, a0, "add") = c + 1 /\ Rank(G, n) = c + 1
  BY <1>2, AppendCount
<1>4. s \in SetType
  BY DEF DotsOf
<1>5. s.counters \in [Actor -> Nat] /\ s.elements \in [Elem -> SUBSET (Actor \X Nat)]
  BY <1>4 DEF SetType
<1> DEFINE E == WithDots(s.elements, op.elem, {<<a0, c>>})
<1> DEFINE C == GInc(s.counters, a0, 1)
<1>b. /\ E \in [Elem -> SUBSET (Actor \X Nat)]
      /\ E[op.elem] = s.elements[op.elem] \cup {<<a0, c>>}
      /\ \A e \in Elem : e # op.elem => E[e] = s.elements[e]
  BY <1>5, <1>a DEF WithDots
<1>c. C \in [Actor -> Nat] /\ C[a0] = c + 1 /\ \A a \in Actor : a # a0 => C[a] = s.counters[a]
  BY <1>2, <1>5, <1>a DEF GInc
<1>d. t = [s EXCEPT !.elements = E, !.counters = C]
  BY <1>2 DEF OrAdd
<1> HIDE DEF E, C, t
<1>6. t \in SetType /\ t.tombstones = s.tombstones /\ t.counters = C /\ t.elements = E
  BY <1>4, <1>b, <1>c, <1>d DEF SetType
<1>7. Dot(G, n) = <<a0, c>>
  <2>1. (c + 1) - 1 = c
    OBVIOUS
  <2> QED
    BY <1>0, <1>3, <2>1 DEF Dot
<1>8. \A e : Adds(G, n, e) <=> e = op.elem
  BY <1>0 DEF Adds
<1>9. \A e, j : ~Covers(G, n, e, j)
  BY <1>0 DEF Covers
<1> HIDE DEF G, n, a0
<1>10. \A a \in Actor : t.counters[a] <= Count(G, a, "add")
  <2> TAKE a \in Actor
  <2>1. CASE a = a0
    <3>1. t.counters[a] = c + 1 /\ Count(G, a, "add") = c + 1
      BY <1>3, <1>6, <1>c, <2>1
    <3> QED
      BY <3>1
  <2>2. CASE a # a0
    <3>1. t.counters[a] = s.counters[a]
      BY <1>6, <1>c, <2>2
    <3> QED
      BY <1>1, <3>1 DEF DotsOf
  <2> QED
    BY <2>1, <2>2
<1>11. t.counters[a0] = Count(G, a0, "add")
  BY <1>3, <1>6, <1>c
<1>12. ASSUME NEW e \in Elem, NEW d \in Actor \X Nat
       PROVE  /\ d \in t.elements[e] <=> \E i \in ops \cup {n} : Adds(G, i, e) /\ d = Dot(G, i)
              /\ d \in t.tombstones[e] <=>
                   \E r \in ops \cup {n} : \E i \in 1..Len(G) :
                       Adds(G, i, e) /\ Covers(G, r, e, i) /\ d = Dot(G, i)
  <2>1. d \in t.elements[e] <=> d \in s.elements[e] \/ (e = op.elem /\ d = <<a0, c>>)
    BY <1>6, <1>b
  <2>2. d \in s.elements[e] <=> \E i \in ops : Adds(G, i, e) /\ d = Dot(G, i)
    BY <1>1 DEF DotsOf
  <2>3. d \in s.tombstones[e] <=> \E r \in ops : \E i \in 1..Len(G) :
               Adds(G, i, e) /\ Covers(G, r, e, i) /\ d = Dot(G, i)
    BY <1>1 DEF DotsOf
  <2>4. d \in t.elements[e] <=> \E i \in ops \cup {n} : Adds(G, i, e) /\ d = Dot(G, i)
    BY <1>7, <1>8, <2>1, <2>2
  <2>5. d \in t.tombstones[e] <=> \E r \in ops \cup {n} : \E i \in 1..Len(G) :
               Adds(G, i, e) /\ Covers(G, r, e, i) /\ d = Dot(G, i)
    BY <1>6, <1>9, <2>3
  <2> QED
    BY <2>4, <2>5
<1>13. DotsOf(G, t, ops \cup {n})
  BY <1>6, <1>10, <1>12 DEF DotsOf
<1> QED
  BY <1>11, <1>13 DEF G, t, n, a0

LEMMA DotsRemoved ==
  ASSUME NEW H \in Seq(OpType), NEW op \in OpType, SeenEarlier(H), NEW s, NEW ops,
         ops \subseteq 1..Len(H), DotsOf(H, s, ops), op.name = "remove", op.elem \in Elem,
         op.seen = ops
  PROVE  LET t == OrRemove(s, op.elem) IN
         /\ DotsOf(Append(H, op), t, ops \cup {Len(H) + 1})
         /\ t.counters = s.counters
<1> DEFINE G == Append(H, op)
<1> DEFINE n == Len(H) + 1
<1> DEFINE t == OrRemove(s, op.elem)
<1>0. Len(H) \in Nat /\ Len(G) = n /\ G[n] = op
  BY AppendPlace
<1>1. DotsOf(G, s, ops)
  BY DotsStay
<1>2. s \in SetType
  BY DEF DotsOf
<1>3. s.tombstones \in [Elem -> SUBSET (Actor \X Nat)] /\ s.elements \in [Elem -> SUBSET (Actor \X Nat)]
  BY <1>2 DEF SetType
<1> DEFINE T == WithDots(s.tombstones, op.elem, s.elements[op.elem])
<1>a. /\ T \in [Elem -> SUBSET (Actor \X Nat)]
      /\ T[op.elem] = s.tombstones[op.elem] \cup s.elements[op.elem]
      /\ \A e \in Elem : e # op.elem => T[e] = s.tombstones[e]
  BY <1>3 DEF WithDots
<1>b. t = [s EXCEPT !.tombstones = T]
  BY DEF OrRemove
<1> HIDE DEF T, t
<1>4. t \in SetType /\ t.elements = s.elements /\ t.counters = s.counters /\ t.tombstones = T
  BY <1>2, <1>a, <1>b DEF SetType
<1>5. \A e : ~Adds(G, n, e)
  BY <1>0 DEF Adds
<1>6. \A e, j : Covers(G, n, e, j) <=> e = op.elem /\ j \in ops
  BY <1>0 DEF Covers
<1>7. ops \subseteq 1..Len(G)
  BY <1>0
<1> HIDE DEF G, n
<1>8. ASSUME NEW e \in Elem, NEW d \in Actor \X Nat
      PROVE  /\ d \in t.elements[e] <=> \E i \in ops \cup {n} : Adds(G, i, e) /\ d = Dot(G, i)
             /\ d \in t.tombstones[e] <=>
                  \E r \in ops \cup {n} : \E i \in 1..Len(G) :
                      Adds(G, i, e) /\ Covers(G, r, e, i) /\ d = Dot(G, i)
  <2>1. d \in t.tombstones[e] <=> d \in s.tombstones[e] \/ (e = op.elem /\ d \in s.elements[e])
    BY <1>4, <1>a
  <2>2. d \in s.elements[e] <=> \E i \in ops : Adds(G, i, e) /\ d = Dot(G, i)
    BY <1>1 DEF DotsOf
  <2>3. d \in s.tombstones[e] <=> \E r \in ops : \E i \in 1..Len(G) :
               Adds(G, i, e) /\ Covers(G, r, e, i) /\ d = Dot(G, i)
    BY <1>1 DEF DotsOf
  <2>4. d \in t.elements[e] <=> \E i \in ops \cup {n} : Adds(G, i, e) /\ d = Dot(G, i)
    BY <1>4, <1>5, <2>2
  <2>5. (e = op.elem /\ d \in s.elements[e]) <=> \E i \in 1..Len(G) :
               Adds(G, i, e) /\ Covers(G, n, e, i) /\ d = Dot(G, i)
    BY <1>6, <1>7, <2>2
  <2>6. d \in t.tombstones[e] <=> \E r \in ops \cup {n} : \E i \in 1..Len(G) :
               Adds(G, i, e) /\ Covers(G, r, e, i) /\ d = Dot(G, i)
    BY <2>1, <2>3, <2>5
  <2> QED
    BY <2>4, <2>6
<1>9. DotsOf(G, t, ops \cup {n})
  BY <1>1, <1>4, <1>8 DEF DotsOf
<1> QED
  BY <1>4, <1>9 DEF G, t, n

(* The elements some add of which no remove saw, among ops.                *)
Survivors(H, ops) ==
    {o.elem : o \in {a \in Named({H[i] : i \in ops}, "add") :
       \A r \in Named({H[i] : i \in ops}, "remove") : r.elem = a.elem => a.id \notin r.seen}}

(* What a set shows.                                                       *)
LEMMA SetShowsSurvivors ==
  ASSUME NEW H \in Seq(OpType), SeenEarlier(H), NEW s, NEW ops,
         ops \subseteq 1..Len(H), DotsOf(H, s, ops),
         \A i \in 1..Len(H) : H[i].id = i /\ H[i].elem \in Elem
  PROVE  OrElements(s) = Survivors(H, ops)
<1> DEFINE K == {H[i] : i \in ops}
<1> DEFINE W == {a \in Named(K, "add") : \A r \in Named(K, "remove") : r.elem = a.elem => a.id \notin r.seen}
<1> DEFINE Kept(i, e) == Adds(H, i, e) /\ \A r \in ops : ~Covers(H, r, e, i)
<1>0. s \in SetType
  BY DEF DotsOf
<1>1. ASSUME NEW e \in Elem
      PROVE  e \in OrElements(s) <=> \E i \in ops : Kept(i, e)
  <2>1. \A d \in s.elements[e] : d \in Actor \X Nat
    BY <1>0 DEF SetType
  <2>2. ASSUME NEW i \in ops, Adds(H, i, e)
        PROVE  Dot(H, i) \in s.tombstones[e] <=> \E r \in ops : Covers(H, r, e, i)
    <3>1. i \in 1..Len(H) /\ Dot(H, i) \in Actor \X Nat
      BY DotType
    <3>2. Dot(H, i) \in s.tombstones[e] <=>
            \E r \in ops : \E j \in 1..Len(H) :
               Adds(H, j, e) /\ Covers(H, r, e, j) /\ Dot(H, i) = Dot(H, j)
      BY <3>1 DEF DotsOf
    <3>3. \A j \in 1..Len(H) : Adds(H, j, e) /\ Dot(H, i) = Dot(H, j) => i = j
      BY <2>2, <3>1, DotInjective DEF Adds
    <3> QED
      BY <2>2, <3>1, <3>2, <3>3
  <2>3. \A d \in Actor \X Nat :
          d \in s.elements[e] <=> \E i \in ops : Adds(H, i, e) /\ d = Dot(H, i)
    BY DEF DotsOf
  <2>4. \A i \in ops : Dot(H, i) \in Actor \X Nat
    BY DotType
  <2>5. (\E d \in s.elements[e] : d \notin s.tombstones[e]) <=> \E i \in ops : Kept(i, e)
    BY <2>1, <2>2, <2>3, <2>4
  <2> QED
    BY <2>5 DEF OrElements, OrContains
<1>2. \A i \in ops : Kept(i, H[i].elem) <=> H[i] \in W
  <2> TAKE i \in ops
  <2>1. i \in 1..Len(H) /\ H[i].id = i
    OBVIOUS
  <2>2. H[i] \in W <=> /\ H[i].name = "add"
                       /\ \A r \in ops : H[r].name = "remove" /\ H[r].elem = H[i].elem
                                            => i \notin H[r].seen
    BY <2>1 DEF Named
  <2> QED
    BY <2>2 DEF Adds, Covers
<1>3. \A o \in W : \E i \in ops : o = H[i]
  BY DEF Named
<1>4. \A i, e : Kept(i, e) => e = H[i].elem
  BY DEF Adds
<1>5. OrElements(s) \subseteq Elem
  BY DEF OrElements
<1>6. \A i \in ops : H[i].elem \in Elem
  OBVIOUS
<1> HIDE DEF Kept, W
<1>7. \A e : e \in OrElements(s) <=> \E o \in W : e = o.elem
  BY <1>1, <1>2, <1>3, <1>4, <1>5, <1>6
<1>8. OrElements(s) = {o.elem : o \in W}
  BY <1>7
<1> QED
  BY <1>8 DEF W, Survivors
-----------------------------------------------------------------------------
(* Observed-remove maps: the store remembers its own removals.             *)

LastIsRemove(H, a, k) ==
    \E r \in 1..Len(H) :
        /\ H[r].actor = a /\ H[r].elem = k /\ H[r].name = "remove"
        /\ \A i \in 1..Len(H) : H[i].actor = a /\ H[i].elem = k => i <= r

MapOf(H, s, a) ==
    /\ s = [entries |-> s.entries, removed |-> s.removed]
    /\ \A k \in Elem : LastIsRemove(H, a, k) => k \in s.removed

-----------------------------------------------------------------------------
(* Multi-value registers.                                                  *)

(* A value of a register as a writer of numbers leaves it: its only dot is *)
(* its writer's own (MVReg::set).                                          *)
Item(a, n, v) == [dots |-> {<<a, n>>}, value |-> v]
Items == {Item(a, n, v) : a \in Actor, n \in Nat \ {0}, v \in Nat}
Below(x, y) == dots_causally_le(x.dots, y.dots)

(* The counter a single dot gives to each actor.                           *)
LEMMA CounterOfOne ==
  ASSUME NEW a, NEW b, NEW m \in Nat
  PROVE  Counter({<<b, m>>}, a) = IF a = b THEN m ELSE 0
<1> DEFINE D == {0} \cup {d[2] : d \in {x \in {<<b, m>>} : x[1] = a}}
<1>1. CASE a = b
  <2>1. D = {m, 0}
    <3>1. {x \in {<<b, m>>} : x[1] = a} = {<<b, m>>}
      BY <1>1
    <3>2. {d[2] : d \in {<<b, m>>}} = {m}
      OBVIOUS
    <3> QED
      BY <3>1, <3>2
  <2>2. Max({m, 0}) = m
    BY MaxOfTwo
  <2> QED
    BY <1>1, <2>1, <2>2 DEF Counter
<1>2. CASE a # b
  <2>1. D = {0, 0}
    BY <1>2
  <2>2. Max({0, 0}) = 0
    BY MaxOfTwo
  <2> QED
    BY <1>2, <2>1, <2>2 DEF Counter
<1> QED
  BY <1>1, <1>2

(* Of two single dots, one is below the other if it is an earlier one of   *)
(* the same actor.                                                         *)
LEMMA BelowIs ==
  ASSUME NEW a, NEW b, NEW n \in Nat \ {0}, NEW m \in Nat
  PROVE  dots_causally_le({<<a, n>>}, {<<b, m>>}) <=> (a = b /\ n < m)
<1> DEFINE d == {<<a, n>>}
           e == {<<b, m>>}
<1>1. /\ \A c : Counter(d, c) = IF c = a THEN n ELSE 0
      /\ \A c : Counter(e, c) = IF c = b THEN m ELSE 0
  BY CounterOfOne
<1>2. {x[1] : x \in d} = {a} /\ {x[1] : x \in d \cup e} = {a, b}
  <2>1. <<a, n>>[1] = a /\ <<b, m>>[1] = b
    OBVIOUS
  <2>2. \A x : x \in d <=> x = <<a, n>>
    OBVIOUS
  <2>3. \A x : x \in d \cup e <=> x = <<a, n>> \/ x = <<b, m>>
    OBVIOUS
  <2> HIDE DEF d, e
  <2>4. \A y : y \in {x[1] : x \in d} <=> y = a
    BY <2>1, <2>2
  <2>5. \A y : y \in {x[1] : x \in d \cup e} <=> y = a \/ y = b
    BY <2>1, <2>3
  <2> QED
    BY <2>4, <2>5
<1> HIDE DEF d, e
<1>3. dots_causally_le(d, e) <=>
        /\ Counter(d, a) <= Counter(e, a)
        /\ Counter(d, a) < Counter(e, a) \/ Counter(d, b) < Counter(e, b)
  BY <1>2 DEF dots_causally_le
<1>4. Counter(d, a) = n /\ Counter(e, b) = m
  BY <1>1
<1>5. CASE a = b
  <2>1. Counter(e, a) = m /\ Counter(d, b) = n
    BY <1>1, <1>5
  <2>2. dots_causally_le(d, e) <=> n <= m /\ n < m
    BY <1>3, <1>4, <2>1
  <2>3. dots_causally_le(d, e) <=> n < m
    BY <2>2
  <2> QED
    BY <1>5, <2>3 DEF d, e
<1>6. CASE a # b
  <2>1. Counter(e, a) = 0
    BY <1>1, <1>6
  <2>2. ~dots_causally_le(d, e)
    BY <1>3, <1>4, <2>1
  <2> QED
    BY <1>6, <2>2 DEF d, e
<1> QED
  BY <1>5, <1>6

(* So the values written by one actor are ordered as they were written.    *)
LEMMA ItemsOrder ==
  ASSUME NEW a, NEW n \in Nat \ {0}, NEW v, NEW b, NEW m \in Nat \ {0}, NEW u
  PROVE  Below(Item(a, n, v), Item(b, m, u)) <=> (a = b /\ n < m)
<1>1. Below(Item(a, n, v), Item(b, m, u)) <=> dots_causally_le({<<a, n>>}, {<<b, m>>})
  BY DEF Below, Item
<1> QED
  BY <1>1, BelowIs

(* The order of values is transitive and irreflexive.                      *)
LEMMA BelowTransitive ==
  ASSUME NEW x \in Items, NEW y \in Items, NEW z \in Items, Below(x, y), Below(y, z)
  PROVE  Below(x, z)
<1>1. PICK a \in Actor, n \in Nat \ {0}, v \in Nat : x = Item(a, n, v)
  BY DEF Items
<1>2. PICK b \in Actor, m \in Nat \ {0}, u \in Nat : y = Item(b, m, u)
  BY DEF Items
<1>3. PICK c \in Actor, k \in Nat \ {0}, t \in Nat : z = Item(c, k, t)
  BY DEF Items
<1>4. a = b /\ n < m
  BY <1>1, <1>2, ItemsOrder
<1>6. b = c /\ m < k
  BY <1>2, <1>3, ItemsOrder
<1>5. a = c /\ n < k
  BY <1>4, <1>6
<1> QED
  BY <1>1, <1>3, <1>5, ItemsOrder

LEMMA BelowIrreflexive ==
  ASSUME NEW x \in Items
  PROVE  ~Below(x, x)
<1>1. PICK a \in Actor, n \in Nat \ {0}, v \in Nat : x = Item(a, n, v)
  BY DEF Items
<1>2. ~(n < n)
  OBVIOUS
<1> QED
  BY <1>1, <1>2, ItemsOrder

(* MVReg::set and merge drop what a new value's dots dominate.             *)
LEMMA UndominatedElems ==
  ASSUME NEW q \in Seq(Items), NEW y
  PROVE  /\ Undominated(q, y.dots) \in Seq(Items)
         /\ \A x : x \in ToSet(Undominated(q, y.dots)) <=> x \in ToSet(q) /\ ~Below(x, y)
BY KeepElems DEF Undominated, Below

(* What a register holds after it is offered one more value.               *)
LEMMA TakeElems ==
  ASSUME NEW q \in Seq(Items), NEW x \in Items
  PROVE  /\ MVTake(q, x) \in Seq(Items)
         /\ (\E y \in ToSet(q) : Below(x, y)) => MVTake(q, x) = q
         /\ ~(\E y \in ToSet(q) : Below(x, y)) =>
              \A y : y \in ToSet(MVTake(q, x)) <=> y = x \/ (y \in ToSet(q) /\ ~Below(y, x))
<1> DEFINE r == Undominated(q, x.dots)
<1>1. r \in Seq(Items) /\ \A y : y \in ToSet(r) <=> y \in ToSet(q) /\ ~Below(y, x)
  BY UndominatedElems
<1> HIDE DEF r
<1>2. MVTake(q, x) = IF \E y \in ToSet(q) : Below(x, y) THEN q ELSE Append(r, x)
  BY DEF MVTake, Below, r
<1>3. /\ Append(r, x) \in Seq(Items)
      /\ \A y : y \in ToSet(Append(r, x)) <=> y \in ToSet(r) \/ y = x
  BY <1>1, ToSetAppend
<1> QED
  BY <1>1, <1>2, <1>3

(* A merge takes the other register's values one after the other.          *)
LEMMA TakeChain ==
  ASSUME NEW u \in Seq(Items), NEW w \in Seq(Items)
  PROVE  \E g : /\ g[0] = u /\ g[Len(w)] = FoldLeft(MVTake, u, w)
                /\ \A k \in 1..Len(w) : g[k] = MVTake(g[k - 1], w[k])
<1> DEFINE n == Len(w)
           G == [i \in 1..n |-> [q \in Seq(Items) |-> MVTake(q, w[i])]]
           Is(f) == f = [s \in SUBSET DOMAIN w |->
                           IF s = {} THEN u ELSE MVTake(f[s \ {Max(s)}], w[Max(s)])]
<1>1. n \in Nat /\ DOMAIN w = 1..n /\ \A i \in 1..n : w[i] \in Items
  OBVIOUS
<1>2. FoldLeft(MVTake, u, w) = (CHOOSE f : Is(f))[DOMAIN w]
  BY DEF FoldLeft, MapThenFoldSet
<1>3. \A i \in 1..n, q \in Seq(Items) : MVTake(q, w[i]) \in Seq(Items)
  BY <1>1, TakeElems
<1> HIDE DEF n
<1>4. G \in [1..n -> [Seq(Items) -> Seq(Items)]]
  BY <1>3
<1>5. \A i \in 1..n, q \in Seq(Items) : G[i][q] = MVTake(q, w[i])
  OBVIOUS
<1> HIDE DEF G
<1>6. PICK f \in [SUBSET (1..n) -> Seq(Items)] : Table(f, n, u, G)
  <2> DEFINE A == Seq(Items)
  <2>1. u \in A /\ n \in Nat /\ G \in [1..n -> [A -> A]]
    BY <1>1, <1>4
  <2> HIDE DEF A
  <2>2. \E f \in [SUBSET (1..n) -> A] : Table(f, n, u, G)
    BY <2>1, TableExists
  <2> QED
    BY <2>2 DEF A
<1>7. ASSUME NEW s \in SUBSET (1..n)
      PROVE  f[s] = IF s = {} THEN u ELSE MVTake(f[s \ {Max(s)}], w[Max(s)])
  <2>1. f[s] = IF s = {} THEN u ELSE G[Max(s)][f[s \ {Max(s)}]]
    BY <1>6 DEF Table
  <2>2. CASE s # {}
    <3>1. Max(s) \in s
      BY <1>1, <2>2, MaxOfSome
    <3>2. Max(s) \in 1..n /\ f[s \ {Max(s)}] \in Seq(Items)
      BY <1>6, <3>1
    <3> QED
      BY <1>5, <2>1, <2>2, <3>2
  <2> QED
    BY <2>1, <2>2
<1>8. Is(f)
  BY <1>1, <1>6, <1>7
<1> DEFINE c == CHOOSE g : Is(g)
<1>9. Is(c)
  BY <1>8
<1>10. FoldLeft(MVTake, u, w) = c[1..n]
  BY <1>1, <1>2
<1> HIDE DEF c
<1>11. c[{}] = u
  BY <1>9
<1>12. PICK g : Reads(g, c, n)
  BY <1>1, Initials, Zenon
<1>13. \A s \in SUBSET (1..n) : s # {} => c[s] = MVTake(c[s \ {Max(s)}], w[Max(s)])
  BY <1>1, <1>9
<1>14. ASSUME NEW k \in 1..n PROVE g[k] = MVTake(g[k - 1], w[k])
  <2>1. /\ g[k] = c[1..k] /\ g[k - 1] = c[(1..k) \ {k}]
        /\ 1..k \in SUBSET (1..n) /\ 1..k # {} /\ Max(1..k) = k
    BY <1>12, Zenon DEF Reads
  <2>2. c[1..k] = MVTake(c[(1..k) \ {Max(1..k)}], w[Max(1..k)])
    BY <1>13, <2>1, Zenon
  <2> QED
    BY <2>1, <2>2, Zenon
<1>15. g[0] = c[{}] /\ g[n] = c[1..n]
  BY <1>12, Zenon DEF Reads
<1> QED
  BY <1>10, <1>11, <1>14, <1>15 DEF n

(* V holds the values of W that no other of them dominates.                *)
Tops(V, W) ==
    /\ V \subseteq W
    /\ \A x, y \in V : ~Below(x, y)
    /\ \A x \in W : x \in V \/ \E y \in V : Below(x, y)

(* Taking a value keeps the undominated of those offered so far.           *)
LEMMA TakeTops ==
  ASSUME NEW q \in Seq(Items), NEW x \in Items, NEW W \in SUBSET Items, Tops(ToSet(q), W)
  PROVE  Tops(ToSet(MVTake(q, x)), W \cup {x})
<1> DEFINE V == ToSet(q)
           X == ToSet(MVTake(q, x))
<1>1. /\ V \subseteq W
      /\ \A y, z \in V : ~Below(y, z)
      /\ \A y \in W : y \in V \/ \E z \in V : Below(y, z)
  BY DEF Tops
<1>2. CASE \E y \in V : Below(x, y)
  <2>1. X = V
    BY <1>2, TakeElems
  <2> HIDE DEF V, X
  <2> QED
    BY <1>1, <1>2, <2>1 DEF Tops, V, X
<1>3. CASE ~\E y \in V : Below(x, y)
  <2>1. \A y : y \in X <=> y = x \/ (y \in V /\ ~Below(y, x))
    BY <1>3, TakeElems
  <2> HIDE DEF V, X
  <2>2. X \subseteq W \cup {x}
    BY <1>1, <2>1
  <2>3. \A y, z \in X : ~Below(y, z)
    <3>1. ~Below(x, x)
      BY BelowIrreflexive
    <3> QED
      BY <1>1, <1>3, <2>1, <3>1
  <2>4. ASSUME NEW y \in W \cup {x} PROVE y \in X \/ \E z \in X : Below(y, z)
    <3>1. x \in X
      BY <2>1
    <3>2. CASE y = x
      BY <3>1, <3>2
    <3>3. CASE y \in V
      BY <2>1, <3>1, <3>3
    <3>4. CASE y \in W /\ y \notin V
      <4>1. PICK z \in V : Below(y, z)
        BY <1>1, <3>4
      <4>2. CASE z \in X
        BY <4>1, <4>2
      <4>3. CASE z \notin X
        <5>1. Below(z, x)
          BY <2>1, <4>3
        <5>2. y \in Items /\ z \in Items
          BY <1>1, <3>4
        <5>3. Below(y, x)
          BY <4>1, <5>1, <5>2, BelowTransitive
        <5> QED
          BY <3>1, <5>3
      <4> QED
        BY <4>2, <4>3
    <3> QED
      BY <3>2, <3>3, <3>4
  <2> QED
    BY <2>2, <2>3, <2>4 DEF Tops, V, X
<1> QED
  BY <1>2, <1>3

(* The values of a merge are those of both sides that none dominates.      *)
LEMMA MergeValues ==
  ASSUME NEW u \in Seq(Items), NEW w \in Seq(Items), \A x, y \in ToSet(u) : ~Below(x, y)
  PROVE  /\ FoldLeft(MVTake, u, w) \in Seq(Items)
         /\ Tops(ToSet(FoldLeft(MVTake, u, w)), ToSet(u) \cup ToSet(w))
<1>1. PICK n \in Nat : n = Len(w) /\ DOMAIN w = 1..n /\ \A i \in 1..n : w[i] \in Items
  OBVIOUS
<1>a. PICK g : /\ g[0] = u /\ g[Len(w)] = FoldLeft(MVTake, u, w)
               /\ \A k \in 1..Len(w) : g[k] = MVTake(g[k - 1], w[k])
  BY TakeChain, Zenon
<1>2. /\ g[0] = u /\ g[n] = FoldLeft(MVTake, u, w)
      /\ \A k \in 1..n : g[k] = MVTake(g[k - 1], w[k])
  BY <1>1, <1>a, Zenon
<1> DEFINE Heard(k) == ToSet(u) \cup {w[i] : i \in 1..k}
           Of(k) == g[k] \in Seq(Items) /\ Tops(ToSet(g[k]), Heard(k))
           C == {k \in 0..n : Of(k)}
<1>0. ToSet(u) \in SUBSET Items
  BY DEF ToSet
<1>3. Of(0)
  <2>1. Heard(0) = ToSet(u)
    OBVIOUS
  <2>2. Tops(ToSet(u), ToSet(u))
    BY DEF Tops
  <2> QED
    BY <1>2, <2>1, <2>2
<1>4. ASSUME NEW k \in 1..n, Of(k - 1) PROVE Of(k)
  <2>1. \A i : i \in 1..k <=> i \in 1..(k - 1) \/ i = k
    OBVIOUS
  <2>2. w[k] \in Items /\ g[k] = MVTake(g[k - 1], w[k])
    BY <1>1, <1>2
  <2>3. Heard(k) = Heard(k - 1) \cup {w[k]}
    BY <2>1
  <2>4. \A i \in 1..(k - 1) : i \in 1..n
    OBVIOUS
  <2>5. Heard(k - 1) \in SUBSET Items
    BY <1>0, <1>1, <2>4
  <2> HIDE DEF Heard
  <2>6. Tops(ToSet(g[k]), Heard(k))
    BY <1>4, <2>2, <2>3, <2>5, TakeTops
  <2> QED
    BY <1>4, <2>2, <2>6, TakeElems
<1> HIDE DEF Of
<1>5. \A k \in 0..n : k \in C
  <2>1. 0 \in C
    BY <1>3
  <2>2. \A k \in 1..n : k - 1 \in C => k \in C
    BY <1>4
  <2> HIDE DEF C
  <2> QED
    BY <2>1, <2>2, Climb
<1>6. Of(n)
  BY <1>5
<1>7. Heard(n) = ToSet(u) \cup ToSet(w)
  BY <1>1 DEF ToSet
<1> QED
  BY <1>2, <1>6, <1>7 DEF Of

(* What the operation i of the history left in a register.                 *)
MVItem(H, i) == Item(H[i].actor, Rank(H, i), i)
Sets(H) == {i \in 1..Len(H) : H[i].name = "set"}

(* A register holds, of every actor, the value of the last of its writes the *)
(* register counts.                                                        *)
MVOf(H, s, ops) ==
    /\ s = [values |-> s.values, clock |-> s.clock]
    /\ s.values \in Seq(Items)
    /\ Counts(H, s.clock, ops, "set")
    /\ \A x \in ToSet(s.values) : \E i \in Sets(H) : x = MVItem(H, i)
    /\ \A i \in Sets(H) : MVItem(H, i) \in ToSet(s.values) <=> Rank(H, i) = s.clock[H[i].actor]

(* An item tells its value.                                                *)
LEMMA ItemParts ==
  ASSUME NEW a, NEW n, NEW v, NEW b, NEW m, NEW u
  PROVE  Item(a, n, v) = Item(b, m, u) => v = u
<1>1. Item(a, n, v).value = v /\ Item(b, m, u).value = u
  BY DEF Item
<1> QED
  BY <1>1

(* What an operation leaves in a register is an item with its rank.        *)
LEMMA MVItemType ==
  ASSUME NEW H \in Seq(OpType), NEW i \in 1..Len(H)
  PROVE  /\ MVItem(H, i) \in Items /\ MVItem(H, i).value = i
         /\ H[i].actor \in Actor /\ Rank(H, i) \in Nat \ {0}
         /\ Rank(H, i) <= Count(H, H[i].actor, H[i].name)
<1>1. Len(H) \in Nat /\ H[i] \in OpType /\ i \in Nat
  OBVIOUS
<1>2. H[i].actor \in Actor
  BY <1>1 DEF OpType
<1>3. Rank(H, i) \in Nat /\ 1 <= Rank(H, i) /\ Rank(H, i) <= Count(H, H[i].actor, H[i].name)
  BY <1>1, RankBound
<1>4. Rank(H, i) \in Nat \ {0}
  BY <1>3
<1>5. MVItem(H, i) \in Items
  BY <1>1, <1>2, <1>4 DEF Items, MVItem
<1>6. MVItem(H, i).value = i
  BY DEF MVItem, Item
<1> QED
  BY <1>2, <1>3, <1>4, <1>5, <1>6

(* Of the writes of one actor a later one dominates an earlier one.        *)
LEMMA MVBelow ==
  ASSUME NEW H \in Seq(OpType), NEW i \in 1..Len(H), NEW j \in 1..Len(H)
  PROVE  Below(MVItem(H, i), MVItem(H, j)) <=>
           (H[i].actor = H[j].actor /\ Rank(H, i) < Rank(H, j))
<1>1. Rank(H, i) \in Nat \ {0} /\ Rank(H, j) \in Nat \ {0}
  BY MVItemType
<1> QED
  BY <1>1, ItemsOrder DEF MVItem

(* An empty register holds what no operations leave.                       *)
LEMMA NewRegister ==
  ASSUME NEW H \in Seq(OpType)
  PROVE  MVOf(H, NewMV, {})
<1>1. NewMV.values = << >> /\ NewMV.clock = Zero
      /\ NewMV = [values |-> NewMV.values, clock |-> NewMV.clock]
  BY DEF NewMV
<1>2. << >> \in Seq(Items) /\ ToSet(<< >>) = {}
  BY DEF ToSet
<1>3. Counts(H, Zero, {}, "set")
  BY ZeroCounts
<1>4. ASSUME NEW i \in Sets(H) PROVE Rank(H, i) # Zero[H[i].actor]
  <2>1. i \in 1..Len(H)
    BY DEF Sets
  <2>2. H[i].actor \in Actor /\ Rank(H, i) \in Nat \ {0}
    BY <2>1, MVItemType
  <2>3. Zero[H[i].actor] = 0
    BY <2>2 DEF Zero
  <2> QED
    BY <2>2, <2>3
<1> QED
  BY <1>1, <1>2, <1>3, <1>4 DEF MVOf

(* Of the values a register holds none dominates another.                  *)
LEMMA MVUnrivalled ==
  ASSUME NEW H \in Seq(OpType), NEW s, NEW ops, MVOf(H, s, ops),
         NEW x \in ToSet(s.values), NEW y \in ToSet(s.values)
  PROVE  ~Below(x, y)
<1>1. PICK i \in Sets(H) : x = MVItem(H, i)
  BY DEF MVOf
<1>2. PICK j \in Sets(H) : y = MVItem(H, j)
  BY DEF MVOf
<1>3. Rank(H, i) = s.clock[H[i].actor] /\ Rank(H, j) = s.clock[H[j].actor]
  BY <1>1, <1>2 DEF MVOf
<1>4. i \in 1..Len(H) /\ j \in 1..Len(H)
  BY DEF Sets
<1>5. Rank(H, i) \in Nat
  BY <1>4, MVItemType
<1>6. ~(H[i].actor = H[j].actor /\ Rank(H, i) < Rank(H, j))
  BY <1>3, <1>5
<1> QED
  BY <1>1, <1>2, <1>4, <1>6, MVBelow

(* A merge holds of every actor the last value that either side counts.    *)
LEMMA MergedValues ==
  ASSUME NEW H \in Seq(OpType), Ranked(H), NEW s, NEW t, NEW A, NEW B,
         MVOf(H, s, A), MVOf(H, t, B)
  PROVE  MVOf(H, MVMerge(s, t), A \cup B)
<1> DEFINE u == FoldLeft(MVTake, s.values, t.values)
           m == GMerge(s.clock, t.clock)
           V == ToSet(u)
           W == ToSet(s.values) \cup ToSet(t.values)
<1>1. MVMerge(s, t) = [values |-> u, clock |-> m]
  BY DEF MVMerge
<1>2. s.values \in Seq(Items) /\ t.values \in Seq(Items)
      /\ Counts(H, s.clock, A, "set") /\ Counts(H, t.clock, B, "set")
  BY DEF MVOf
<1>3. u \in Seq(Items) /\ Tops(V, W)
  <2>1. \A x, y \in ToSet(s.values) : ~Below(x, y)
    BY MVUnrivalled
  <2> QED
    BY <1>2, <2>1, MergeValues
<1>4. Counts(H, m, A \cup B, "set")
  BY <1>2, MergeCounts
<1>5. m \in [Actor -> Nat] /\ \A a \in Actor : m[a] <= Count(H, a, "set")
  BY <1>4 DEF Counts
<1>6. \A a \in Actor : m[a] = IF s.clock[a] >= t.clock[a] THEN s.clock[a] ELSE t.clock[a]
  BY <1>2, MergeAt DEF Counts
<1>7. s.clock \in [Actor -> Nat] /\ t.clock \in [Actor -> Nat]
  BY <1>2 DEF Counts
<1> HIDE DEF u, m, V, W
<1>8. \A x \in W : \E i \in Sets(H) : x = MVItem(H, i)
  BY DEF W, MVOf
<1>9. \A i \in Sets(H) : /\ i \in 1..Len(H) /\ H[i].name = "set" /\ H[i].actor \in Actor
                         /\ Rank(H, i) \in Nat \ {0} /\ MVItem(H, i) \in Items
  <2> TAKE i \in Sets(H)
  <2>1. i \in 1..Len(H) /\ H[i].name = "set"
    BY DEF Sets
  <2> QED
    BY <2>1, MVItemType
<1>10. \A i \in Sets(H) : MVItem(H, i) \in W <=> (Rank(H, i) = s.clock[H[i].actor] \/ Rank(H, i) = t.clock[H[i].actor])
  BY DEF W, MVOf
<1>11. \A i \in Sets(H) : MVItem(H, i) \in W => Rank(H, i) <= m[H[i].actor]
  <2> TAKE i \in Sets(H)
  <2>1. PICK a \in Actor : a = H[i].actor
    BY <1>9
  <2>2. s.clock[a] <= m[a] /\ t.clock[a] <= m[a]
    BY <1>6, <1>7
  <2> QED
    BY <1>10, <2>1, <2>2
<1>12. \A i \in Sets(H) : Rank(H, i) = m[H[i].actor] => MVItem(H, i) \in W
  <2> TAKE i \in Sets(H)
  <2>1. PICK a \in Actor : a = H[i].actor
    BY <1>9
  <2>2. m[a] = s.clock[a] \/ m[a] = t.clock[a]
    BY <1>6
  <2> QED
    BY <1>10, <2>1, <2>2
<1>13. /\ V \subseteq W
       /\ \A x, y \in V : ~Below(x, y)
       /\ \A x \in W : x \in V \/ \E y \in V : Below(x, y)
  BY <1>3 DEF Tops
<1>14. \A x \in V : \E i \in Sets(H) : x = MVItem(H, i)
  BY <1>8, <1>13
<1>15. ASSUME NEW i \in Sets(H), MVItem(H, i) \in V
       PROVE  Rank(H, i) = m[H[i].actor]
  <2>1. PICK a \in Actor : a = H[i].actor
    BY <1>9
  <2>2. Rank(H, i) \in Nat \ {0} /\ Rank(H, i) <= m[a] /\ m[a] \in Nat
    BY <1>5, <1>9, <1>11, <1>13, <1>15, <2>1
  <2>3. m[a] \in 1..Count(H, a, "set")
    <3>1. m[a] <= Count(H, a, "set") /\ Len(H) \in Nat
      BY <1>5
    <3>2. Count(H, a, "set") \in Nat
      BY <3>1, PlaceNat DEF Count
    <3> QED
      BY <2>2, <3>1, <3>2
  <2>4. PICK j \in 1..Len(H) : H[j].actor = a /\ H[j].name = "set" /\ Rank(H, j) = m[a]
    BY <2>3 DEF Ranked, Names
  <2>5. j \in Sets(H)
    BY <2>4 DEF Sets
  <2>6. MVItem(H, j) \in W
    BY <1>12, <2>4, <2>5
  <2>7. CASE Rank(H, i) # m[a]
    <3>1. Below(MVItem(H, i), MVItem(H, j))
      <4>1. Rank(H, i) < Rank(H, j) /\ H[i].actor = H[j].actor
        BY <2>1, <2>2, <2>4, <2>7
      <4>2. i \in 1..Len(H)
        BY <1>9
      <4> QED
        BY <4>1, <4>2, MVBelow
    <3>2. MVItem(H, j) \notin V
      BY <1>13, <1>15, <3>1
    <3>3. PICK z \in V : Below(MVItem(H, j), z)
      BY <1>13, <2>6, <3>2
    <3>4. z \in Items
      BY <1>9, <1>14
    <3>5. Below(MVItem(H, i), z)
      BY <1>9, <2>5, <3>1, <3>3, <3>4, BelowTransitive
    <3> QED
      BY <1>13, <1>15, <3>5
  <2> QED
    BY <2>1, <2>7
<1>16. ASSUME NEW i \in Sets(H), Rank(H, i) = m[H[i].actor], MVItem(H, i) \notin V
       PROVE  FALSE
  <2>1. MVItem(H, i) \in W
    BY <1>12, <1>16
  <2>2. PICK z \in V : Below(MVItem(H, i), z)
    BY <1>13, <1>16, <2>1
  <2>3. PICK l \in Sets(H) : z = MVItem(H, l)
    BY <1>14
  <2>4. H[i].actor = H[l].actor /\ Rank(H, i) < Rank(H, l)
    <3>1. i \in 1..Len(H) /\ l \in 1..Len(H)
      BY <1>9
    <3> QED
      BY <2>2, <2>3, <3>1, MVBelow
  <2>5. Rank(H, l) = m[H[l].actor]
    BY <1>15, <2>3
  <2>6. Rank(H, i) \in Nat
    BY <1>9
  <2> QED
    BY <1>16, <2>4, <2>5, <2>6
<1>17. PICK r : r = [values |-> u, clock |-> m]
  OBVIOUS
<1>18. r.values = u /\ r.clock = m /\ r = [values |-> r.values, clock |-> r.clock]
  BY <1>17
<1>19. MVOf(H, r, A \cup B)
  BY <1>3, <1>4, <1>14, <1>15, <1>16, <1>18 DEF MVOf, V
<1> QED
  BY <1>1, <1>17, <1>19

(* A write this register has not heard of is not among its values.         *)
LEMMA MVStays ==
  ASSUME NEW H \in Seq(OpType), NEW op \in OpType, NEW s, NEW ops, ops \subseteq 1..Len(H),
         MVOf(H, s, ops)
  PROVE  MVOf(Append(H, op), s, ops)
<1> DEFINE G == Append(H, op)
<1>0. /\ G \in Seq(OpType) /\ Len(H) \in Nat /\ Len(G) = Len(H) + 1 /\ G[Len(H) + 1] = op
      /\ \A i \in 1..Len(H) : G[i] = H[i] /\ Rank(G, i) = Rank(H, i)
  BY AppendPlace
<1>1. Counts(G, s.clock, ops, "set")
  <2>1. Counts(H, s.clock, ops, "set")
    BY DEF MVOf
  <2>2. Counts(G, s.clock, ops \cup {}, "set")
    BY <2>1, CountsStay
  <2>3. ops \cup {} = ops
    OBVIOUS
  <2> HIDE DEF G
  <2> QED
    BY <2>2, <2>3
<1>2. op.name = "set" => Rank(G, Len(H) + 1) = Count(H, op.actor, "set") + 1
  BY AppendCount
<1> HIDE DEF G
<1>3. \A i \in 1..Len(H) : MVItem(G, i) = MVItem(H, i)
  BY <1>0 DEF MVItem
<1>4. \A i : i \in Sets(G) <=> i \in Sets(H) \/ (i = Len(H) + 1 /\ op.name = "set")
  BY <1>0 DEF Sets
<1>5. \A i \in Sets(H) : i \in 1..Len(H)
  BY DEF Sets
<1>6. \A x \in ToSet(s.values) : \E i \in Sets(H) : x = MVItem(H, i)
  BY DEF MVOf
<1>7. \A x \in ToSet(s.values) : \E i \in Sets(G) : x = MVItem(G, i)
  BY <1>3, <1>4, <1>5, <1>6
<1>8. ASSUME NEW i \in Sets(G)
      PROVE  MVItem(G, i) \in ToSet(s.values) <=> Rank(G, i) = s.clock[G[i].actor]
  <2>1. CASE i \in Sets(H)
    <3>1. MVItem(H, i) \in ToSet(s.values) <=> Rank(H, i) = s.clock[H[i].actor]
      BY <2>1 DEF MVOf
    <3> QED
      BY <1>0, <1>3, <1>5, <2>1, <3>1
  <2>2. CASE i = Len(H) + 1 /\ op.name = "set"
    <3>1. MVItem(G, i) \notin ToSet(s.values)
      <4> SUFFICES ASSUME NEW j \in Sets(H), MVItem(G, i) = MVItem(H, j) PROVE FALSE
        BY <1>6
      <4>1. i = j
        BY ItemParts DEF MVItem
      <4> QED
        BY <1>0, <1>5, <2>2, <4>1
    <3>2. PICK a \in Actor : a = op.actor
      BY DEF OpType
    <3>3. PICK n \in Nat : n = Count(H, a, "set")
      BY <1>0, PlaceNat DEF Count
    <3>4. s.clock[a] \in Nat /\ s.clock[a] <= n
      BY <3>3 DEF MVOf, Counts
    <3>5. Rank(G, i) = n + 1 /\ G[i].actor = a
      BY <1>0, <1>2, <2>2, <3>2, <3>3
    <3>6. Rank(G, i) # s.clock[G[i].actor]
      BY <3>4, <3>5
    <3> QED
      BY <3>1, <3>6
  <2> QED
    BY <1>4, <2>1, <2>2
<1>9. s = [values |-> s.values, clock |-> s.clock] /\ s.values \in Seq(Items)
  BY DEF MVOf
<1>10. MVOf(G, s, ops)
  BY <1>1, <1>7, <1>8, <1>9 DEF MVOf
<1> QED
  BY <1>10 DEF G

(* A write replaces its actor's value and leaves the others beside it.     *)
LEMMA MVWrites ==
  ASSUME NEW H \in Seq(OpType), Ranked(H), NEW op \in OpType, op.name = "set",
         op.id = Len(H) + 1, NEW s, NEW ops, ops \subseteq 1..Len(H), Owns(H, op.actor, ops),
         MVOf(H, s, ops)
  PROVE  MVOf(Append(H, op), MVSet(s, op.actor, op.id), ops \cup {Len(H) + 1})
<1> DEFINE G == Append(H, op)
           n == Len(H) + 1
           d == GInc(s.clock, op.actor, 1)
<1>0. /\ G \in Seq(OpType) /\ Len(H) \in Nat /\ Len(G) = n /\ G[n] = op
      /\ \A i \in 1..Len(H) : G[i] = H[i] /\ Rank(G, i) = Rank(H, i)
  BY AppendPlace
<1>1. Counts(H, s.clock, ops, "set")
  BY DEF MVOf
<1>2. Counts(G, d, ops \cup {n}, "set")
  BY <1>1, CountsGrow
<1>3. Rank(G, n) = Count(H, op.actor, "set") + 1
  BY AppendCount
<1>4. PICK a \in Actor : a = op.actor
  BY DEF OpType
<1>5. "set" \in Names
  BY DEF Names
<1>6. s.clock[a] = Count(H, a, "set")
  <2>1. Owns(H, a, ops)
    BY <1>4
  <2> HIDE DEF G, n, d
  <2> QED
    BY <1>1, <1>5, <2>1, OwnCountIsFull
<1>7. s.clock \in [Actor -> Nat]
  BY <1>1 DEF Counts
<1>8. PICK c \in Nat : c = s.clock[a]
  BY <1>7
<1>9. d \in [Actor -> Nat] /\ d[a] = c + 1 /\ \A b \in Actor : b # a => d[b] = s.clock[b]
  BY <1>4, <1>7, <1>8 DEF GInc
<1> DEFINE x == Item(a, c + 1, n)
           v == Undominated(s.values, x.dots)
<1>10. MVSet(s, op.actor, op.id) = [values |-> Append(v, x), clock |-> d]
  <2>1. s = [values |-> s.values, clock |-> s.clock]
    BY DEF MVOf
  <2>2. x.dots = {<<a, c + 1>>} /\ x = [dots |-> {<<a, c + 1>>}, value |-> n]
    BY DEF Item
  <2>3. [s.clock EXCEPT ![a] = @ + 1] = d
    BY <1>4 DEF GInc
  <2> HIDE DEF x, d
  <2> QED
    BY <1>4, <1>8, <2>2, <2>3 DEF MVSet
<1> HIDE DEF G, d
<1>11. x = MVItem(G, n)
  BY <1>0, <1>3, <1>4, <1>6, <1>8 DEF MVItem
<1>12. n \in 1..Len(G)
  BY <1>0
<1>13. x \in Items
  BY <1>0, <1>11, <1>12, MVItemType
<1> HIDE DEF n, v
<1>14. v \in Seq(Items) /\ \A y : y \in ToSet(v) <=> y \in ToSet(s.values) /\ ~Below(y, x)
  <2>1. s.values \in Seq(Items)
    BY DEF MVOf
  <2> HIDE DEF x
  <2> QED
    BY <2>1, UndominatedElems DEF v
<1> HIDE DEF x
<1> DEFINE w == Append(v, x)
<1>15. w \in Seq(Items) /\ \A y : y \in ToSet(w) <=> y = x \/ (y \in ToSet(s.values) /\ ~Below(y, x))
  <2>1. w \in Seq(Items)
    BY <1>13, <1>14
  <2>2. \A y : y \in ToSet(w) <=> y \in ToSet(v) \/ y = x
    BY <1>13, <1>14, ToSetAppend
  <2> HIDE DEF w
  <2> QED
    BY <1>14, <2>1, <2>2
<1> HIDE DEF w
<1>16. \A i \in 1..Len(H) : MVItem(G, i) = MVItem(H, i) /\ i \in 1..Len(G) /\ i # n
  BY <1>0 DEF MVItem, n
<1>17. \A i : i \in Sets(G) <=> i \in Sets(H) \/ i = n
  BY <1>0 DEF Sets, n
<1>18. \A i \in Sets(H) : i \in 1..Len(H)
  BY DEF Sets
<1>19. \A y \in ToSet(w) : \E i \in Sets(G) : y = MVItem(G, i)
  <2>1. \A y \in ToSet(s.values) : \E i \in Sets(H) : y = MVItem(H, i)
    BY DEF MVOf
  <2> QED
    BY <1>11, <1>15, <1>16, <1>17, <1>18, <2>1
<1>20. ASSUME NEW i \in Sets(G)
       PROVE  MVItem(G, i) \in ToSet(w) <=> Rank(G, i) = d[G[i].actor]
  <2>1. CASE i \in Sets(H)
    <3>1. PICK j \in 1..Len(H) : j = i
      BY <1>18, <2>1
    <3>2. MVItem(H, j) \in ToSet(s.values) <=> Rank(H, j) = s.clock[H[j].actor]
      BY <2>1, <3>1 DEF MVOf
    <3>3. MVItem(G, j) # x
      <4>1. j # n
        BY <1>16
      <4> QED
        BY <1>11, <4>1, ItemParts DEF MVItem
    <3>4. Below(MVItem(G, j), x) <=> (G[j].actor = G[n].actor /\ Rank(G, j) < Rank(G, n))
      BY <1>0, <1>11, <1>12, <1>16, MVBelow
    <3>5. PICK b \in Actor, r \in Nat : b = H[j].actor /\ r = Rank(H, j)
      BY MVItemType
    <3>6. Rank(G, n) = c + 1 /\ G[n].actor = a /\ Rank(G, j) = r /\ G[j].actor = b
      BY <1>0, <1>3, <1>4, <1>6, <1>8, <3>5
    <3>7. MVItem(G, j) \in ToSet(w) <=> (r = s.clock[b] /\ ~(b = a /\ r < c + 1))
      BY <1>15, <1>16, <3>2, <3>3, <3>4, <3>5, <3>6
    <3>8. CASE b = a
      <4>1. r <= c
        <5>1. H[j].name = "set"
          BY <2>1, <3>1 DEF Sets
        <5>2. Rank(H, j) <= Count(H, H[j].actor, H[j].name)
          BY MVItemType
        <5>3. Rank(H, j) <= Count(H, a, "set")
          BY <3>5, <3>8, <5>1, <5>2
        <5> QED
          BY <1>6, <1>8, <3>5, <5>3
      <4>2. r < c + 1 /\ r # d[b]
        BY <1>9, <3>8, <4>1
      <4> QED
        BY <3>1, <3>6, <3>7, <3>8, <4>2
    <3>9. CASE b # a
      <4>1. d[b] = s.clock[b]
        BY <1>9, <3>9
      <4> QED
        BY <3>1, <3>6, <3>7, <3>9, <4>1
    <3> QED
      BY <3>8, <3>9
  <2>2. CASE i = n
    <3>1. MVItem(G, i) \in ToSet(w)
      BY <1>11, <1>15, <2>2
    <3>2. Rank(G, i) = d[G[i].actor]
      BY <1>0, <1>3, <1>4, <1>6, <1>8, <1>9, <2>2
    <3> QED
      BY <3>1, <3>2
  <2> QED
    BY <1>17, <2>1, <2>2
<1>21. PICK t : t = [values |-> w, clock |-> d]
  OBVIOUS
<1>22. t.values = w /\ t.clock = d /\ t = [values |-> t.values, clock |-> t.clock]
  BY <1>21
<1>23. MVOf(G, t, ops \cup {n})
  BY <1>2, <1>15, <1>19, <1>20, <1>22 DEF MVOf
<1>24. MVSet(s, op.actor, op.id) = t
  BY <1>10, <1>21 DEF w
<1> QED
  BY <1>23, <1>24 DEF G, n

(* The export codec carries a register unchanged.                          *)
LEMMA CodecKeepsValues ==
  ASSUME NEW H, NEW s, NEW ops, MVOf(H, s, ops)
  PROVE  MVParse(MVBytes(s)) = s
<1>1. s = [values |-> s.values, clock |-> s.clock] /\ s.clock \in [Actor -> Nat]
  BY DEF MVOf, Counts
<1>2. GParse(GBytes(s.clock)) = s.clock
  BY <1>1, CodecKeepsCounts
<1>3. MVParse(MVBytes(s)) = [values |-> s.values, clock |-> GParse(GBytes(s.clock))]
  BY DEF MVParse, MVBytes
<1> QED
  BY <1>1, <1>2, <1>3

(* The values of a register are the last of every actor it counts.         *)
LEMMA ValuesShowLatest ==
  ASSUME NEW H \in Seq(OpType), Ranked(H), NEW s, NEW ops, ops \subseteq 1..Len(H),
         MVOf(H, s, ops), \A i \in 1..Len(H) : H[i].name = "set"
  PROVE  MVValues(s) = {i \in ops : \A j \in ops : H[j].actor = H[i].actor => j <= i}
<1>0. Len(H) \in Nat /\ \A i : i \in Sets(H) <=> i \in 1..Len(H)
  BY DEF Sets
<1>1. Counts(H, s.clock, ops, "set")
  BY DEF MVOf
<1>2. s.clock \in [Actor -> Nat] /\ \A a \in Actor : s.clock[a] <= Count(H, a, "set")
  BY <1>1 DEF Counts
<1>3. \A i \in 1..Len(H) : i \in ops <=> Rank(H, i) <= s.clock[H[i].actor]
  BY <1>1 DEF Counts
<1>4. \A i \in 1..Len(H) : H[i].actor \in Actor /\ Rank(H, i) \in Nat \ {0}
                           /\ MVItem(H, i).value = i
  BY MVItemType
<1>5. \A i \in 1..Len(H) : MVItem(H, i) \in ToSet(s.values) <=> Rank(H, i) = s.clock[H[i].actor]
  BY <1>0 DEF MVOf
<1>6. \A x \in ToSet(s.values) : \E i \in 1..Len(H) : x = MVItem(H, i)
  BY <1>0 DEF MVOf
<1>7. \A y : y \in MVValues(s) <=> \E i \in 1..Len(H) : y = i /\ Rank(H, i) = s.clock[H[i].actor]
  <2>1. \A y : y \in MVValues(s) <=> \E x \in ToSet(s.values) : y = x.value
    BY DEF MVValues
  <2> QED
    BY <1>4, <1>5, <1>6, <2>1
<1>8. ASSUME NEW i \in 1..Len(H), Rank(H, i) = s.clock[H[i].actor]
      PROVE  i \in ops /\ \A j \in ops : H[j].actor = H[i].actor => j <= i
  <2>1. Rank(H, i) \in Nat
    BY <1>4
  <2>2. i \in ops
    BY <1>3, <1>8, <2>1
  <2>3. ASSUME NEW j \in ops, H[j].actor = H[i].actor, ~(j <= i) PROVE FALSE
    <3>1. j \in 1..Len(H) /\ j \in Nat /\ i \in Nat /\ i < j
      BY <2>3
    <3>2. Rank(H, j) <= Rank(H, i)
      BY <1>3, <1>8, <2>3, <3>1
    <3>3. Place(H, H[j].actor, H[j].name, i) < Rank(H, j)
      BY <3>1, PlaceStrict
    <3>4. Rank(H, i) < Rank(H, j)
      BY <2>3, <3>1, <3>3 DEF Rank
    <3>5. Rank(H, j) \in Nat
      BY <1>4, <3>1
    <3> QED
      BY <2>1, <3>2, <3>4, <3>5
  <2> QED
    BY <2>2, <2>3
<1>9. ASSUME NEW i \in ops, \A j \in ops : H[j].actor = H[i].actor => j <= i
      PROVE  i \in 1..Len(H) /\ Rank(H, i) = s.clock[H[i].actor]
  <2>1. i \in 1..Len(H) /\ i \in Nat
    OBVIOUS
  <2>2. PICK a \in Actor, r \in Nat \ {0} : a = H[i].actor /\ r = Rank(H, i)
    BY <1>4, <2>1
  <2>3. r <= s.clock[a] /\ s.clock[a] \in Nat
    BY <1>2, <1>3, <2>1, <2>2
  <2>4. s.clock[a] \in 1..Count(H, a, "set")
    <3>1. Count(H, a, "set") \in Nat
      BY <1>0, PlaceNat DEF Count
    <3>2. s.clock[a] <= Count(H, a, "set")
      BY <1>2
    <3> QED
      BY <2>3, <3>1, <3>2
  <2>5. PICK j \in 1..Len(H) : H[j].actor = a /\ H[j].name = "set" /\ Rank(H, j) = s.clock[a]
    BY <2>4 DEF Ranked, Names
  <2>6. j \in ops /\ j \in Nat
    BY <1>3, <2>3, <2>5
  <2>7. j <= i
    BY <1>9, <2>2, <2>5, <2>6
  <2>8. Rank(H, j) <= Rank(H, i)
    <3>1. Place(H, a, "set", j) <= Place(H, a, "set", i)
      BY <2>1, <2>6, <2>7, PlaceMono
    <3>2. H[i].name = "set"
      BY <2>1
    <3> QED
      BY <2>2, <2>5, <3>1, <3>2 DEF Rank
  <2> QED
    BY <2>1, <2>2, <2>3, <2>5, <2>8
<1> DEFINE L == {i \in ops : \A j \in ops : H[j].actor = H[i].actor => j <= i}
<1>10. \A y : y \in L <=> y \in 1..Len(H) /\ Rank(H, y) = s.clock[H[y].actor]
  <2>1. ASSUME NEW y, y \in L PROVE y \in 1..Len(H) /\ Rank(H, y) = s.clock[H[y].actor]
    BY <1>9, <2>1
  <2>2. ASSUME NEW y, y \in 1..Len(H), Rank(H, y) = s.clock[H[y].actor] PROVE y \in L
    BY <1>8, <2>2
  <2> QED
    BY <2>1, <2>2
<1> HIDE DEF L
<1>11. MVValues(s) = L
  BY <1>7, <1>10
<1> QED
  BY <1>11 DEF L

-----------------------------------------------------------------------------
(* The inductive invariant.                                                *)

(* The state is what the operations make it.                               *)
Good(H, k, s, ops) ==
    /\ k = "GCOUNTER" => Counts(H, s, ops, "inc")
    /\ k = "PNCOUNTER" => /\ s = [p |-> s.p, n |-> s.n]
                          /\ Counts(H, s.p, ops, "inc") /\ Counts(H, s.n, ops, "dec")
    /\ k = "LWW_REG" => RegOf(H, s, ops)
    /\ k = "ORSET" /\ NoClear(H) => DotsOf(H, s, ops)
    /\ k = "MVREG" => MVOf(H, s, ops)

(* What only the store of actor a can say of its state.                    *)
OwnState(H, k, s, a) ==
    /\ k = "ORSET" /\ NoClear(H) => s.counters[a] = Count(H, a, "add")
    /\ k = "ORMAP" => MapOf(H, s, a)

HistoryOK(H, k) ==
    /\ H \in Seq(OpType) /\ Ranked(H) /\ SeenEarlier(H)
    /\ \A i \in 1..Len(H) : /\ H[i].id = i /\ H[i].name \in Operations(k)
                            /\ k = "ORSET" => H[i].elem \in Elem

FieldAt(k, c) == IF Present(c) THEN c[1] ELSE New(k)

StoreOK(H, k, c, ops, a) ==
    /\ ops \subseteq 1..Len(H)
    /\ Present(c) \/ ops = {}
    /\ Owns(H, a, ops)
    /\ Good(H, k, FieldAt(k, c), ops)
    /\ OwnState(H, k, FieldAt(k, c), a)

MessageOK(H, k, fields, ops) ==
    /\ ops \subseteq 1..Len(H)
    /\ ~Present(fields) => ops = {}
    /\ Present(fields) => Good(H, k, deserialize_payload(k, fields[1]), ops)

SyncInv ==
    /\ kind \in Kinds
    /\ actor \in [Gateway -> Actor]
    /\ \A g, h \in Gateway : actor[g] = actor[h] => g = h
    /\ wall \in [Gateway -> Nat]
    /\ hlc \in [Gateway -> Times]
    /\ cell = [g \in Gateway |-> cell[g]]
    /\ known = [g \in Gateway |-> known[g]]
    /\ HistoryOK(history, kind)
    /\ \A g \in Gateway : StoreOK(history, kind, cell[g], known[g], actor[g])
    /\ \A m \in net : /\ m.to \in Gateway /\ m.from \in Gateway
                      /\ MessageOK(history, kind, m.fields, m.ops)

-----------------------------------------------------------------------------
(* What the operations of the types keep of it.                            *)

LEMMA GoodNew ==
  ASSUME NEW H \in Seq(OpType), NEW k \in Kinds
  PROVE  Good(H, k, New(k), {})
<1>1. CASE k = "GCOUNTER"
  BY <1>1, ZeroCounts DEF Good, New
<1>2. CASE k = "PNCOUNTER"
  <2>1. New(k) = [p |-> Zero, n |-> Zero]
    BY <1>2 DEF New
  <2> QED
    BY <1>2, <2>1, ZeroCounts DEF Good
<1>3. CASE k = "LWW_REG"
  BY <1>3 DEF Good, New, RegOf
<1>4. CASE k = "ORSET"
  BY <1>4, EmptySetDots DEF Good, New
<1>5. CASE k = "MVREG"
  BY <1>5, NewRegister DEF Good, New
<1>6. CASE k \in {"ORMAP", "FLAGSET"}
  BY <1>6 DEF Good
<1> QED
  BY <1>1, <1>2, <1>3, <1>4, <1>5, <1>6 DEF Kinds

LEMMA GoodCodec ==
  ASSUME NEW H \in Seq(OpType), NEW k \in Kinds, NEW s, NEW ops, ops \subseteq 1..Len(H),
         Good(H, k, s, ops)
  PROVE  Good(H, k, deserialize_payload(k, ToBytes(k, s)), ops)
<1> DEFINE t == deserialize_payload(k, ToBytes(k, s))
<1> SUFFICES Good(H, k, t, ops)
  OBVIOUS
<1>1. CASE k = "GCOUNTER"
  <2>1. Counts(H, s, ops, "inc") /\ t = GParse(GBytes(s))
    BY <1>1 DEF Good, deserialize_payload, ToBytes
  <2>2. t = s
    BY <2>1, CodecKeepsCounts DEF Counts
  <2> QED
    BY <2>2
<1>2. CASE k = "PNCOUNTER"
  <2>1. /\ s = [p |-> s.p, n |-> s.n]
        /\ Counts(H, s.p, ops, "inc") /\ Counts(H, s.n, ops, "dec")
    BY <1>2 DEF Good
  <2>2. t = [p |-> GParse(GBytes(s.p)), n |-> GParse(GBytes(s.n))]
    BY <1>2 DEF deserialize_payload, ToBytes
  <2>3. GParse(GBytes(s.p)) = s.p /\ GParse(GBytes(s.n)) = s.n
    BY <2>1, CodecKeepsCounts DEF Counts
  <2>4. t = s
    BY <2>1, <2>2, <2>3
  <2> QED
    BY <2>4
<1>3. CASE k = "LWW_REG"
  <2>1. RegOf(H, s, ops) /\ t = LwwParse(LwwBytes(s))
    BY <1>3 DEF Good, deserialize_payload, ToBytes
  <2>2. t = s
    BY <2>1, CodecKeepsRegister
  <2> QED
    BY <2>2
<1>4. CASE k = "ORSET"
  <2>1. t = OrParse(OrBytes(s))
    BY <1>4 DEF deserialize_payload, ToBytes
  <2>2. NoClear(H) => DotsOf(H, s, ops)
    BY <1>4 DEF Good
  <2>3. NoClear(H) => DotsOf(H, t, ops)
    BY <2>1, <2>2, CodecKeepsDots
  <2> HIDE DEF t
  <2> QED
    BY <1>4, <2>3 DEF Good
<1>5. CASE k = "MVREG"
  <2>1. MVOf(H, s, ops) /\ t = MVParse(MVBytes(s))
    BY <1>5 DEF Good, deserialize_payload, ToBytes
  <2>2. t = s
    BY <2>1, CodecKeepsValues
  <2> QED
    BY <2>2
<1>6. CASE k \in {"ORMAP", "FLAGSET"}
  BY <1>6 DEF Good
<1> QED
  BY <1>1, <1>2, <1>3, <1>4, <1>5, <1>6 DEF Kinds

LEMMA GoodJoin ==
  ASSUME NEW H \in Seq(OpType), Ranked(H), NEW k \in Kinds, NEW s, NEW t, NEW A, NEW B,
         A \subseteq 1..Len(H), B \subseteq 1..Len(H), Good(H, k, s, A), Good(H, k, t, B)
  PROVE  Good(H, k, Join(k, s, t), A \cup B)
<1> DEFINE u == Join(k, s, t)
<1> SUFFICES Good(H, k, u, A \cup B)
  OBVIOUS
<1>1. CASE k = "GCOUNTER"
  <2>1. u = GMerge(s, t) /\ Counts(H, s, A, "inc") /\ Counts(H, t, B, "inc")
    BY <1>1 DEF Good, Join
  <2>2. Counts(H, u, A \cup B, "inc")
    BY <2>1, MergeCounts
  <2> HIDE DEF u
  <2> QED
    BY <1>1, <2>2 DEF Good
<1>2. CASE k = "PNCOUNTER"
  <2>1. /\ s = [p |-> s.p, n |-> s.n] /\ u = PNMerge(s, t)
        /\ Counts(H, s.p, A, "inc") /\ Counts(H, s.n, A, "dec")
        /\ Counts(H, t.p, B, "inc") /\ Counts(H, t.n, B, "dec")
    BY <1>2 DEF Good, Join
  <2>2. u = [p |-> GMerge(s.p, t.p), n |-> GMerge(s.n, t.n)]
    BY <2>1 DEF PNMerge
  <2>3. /\ Counts(H, GMerge(s.p, t.p), A \cup B, "inc")
        /\ Counts(H, GMerge(s.n, t.n), A \cup B, "dec")
    BY <2>1, MergeCounts
  <2> HIDE DEF u
  <2>4. u = [p |-> u.p, n |-> u.n] /\ u.p = GMerge(s.p, t.p) /\ u.n = GMerge(s.n, t.n)
    BY <2>2
  <2> QED
    BY <1>2, <2>3, <2>4 DEF Good
<1>3. CASE k = "LWW_REG"
  <2>1. u = LwwMerge(s, t) /\ RegOf(H, s, A) /\ RegOf(H, t, B)
    BY <1>3 DEF Good, Join
  <2>2. RegOf(H, LwwMerge(s, t), A \cup B)
    BY <2>1, MergeRegisters
  <2> HIDE DEF u
  <2> QED
    BY <1>3, <2>1, <2>2 DEF Good
<1>4. CASE k = "ORSET"
  <2>1. u = OrMerge(s, t)
    BY <1>4 DEF Join
  <2>2. NoClear(H) => DotsOf(H, s, A) /\ DotsOf(H, t, B)
    BY <1>4 DEF Good
  <2>3. NoClear(H) => DotsOf(H, u, A \cup B)
    BY <2>1, <2>2, MergeDots
  <2> HIDE DEF u
  <2> QED
    BY <1>4, <2>3 DEF Good
<1>5. CASE k = "MVREG"
  <2>1. u = MVMerge(s, t) /\ MVOf(H, s, A) /\ MVOf(H, t, B)
    BY <1>5 DEF Good, Join
  <2>2. MVOf(H, MVMerge(s, t), A \cup B)
    BY <2>1, MergedValues
  <2> HIDE DEF u
  <2> QED
    BY <1>5, <2>1, <2>2 DEF Good
<1>6. CASE k \in {"ORMAP", "FLAGSET"}
  BY <1>6 DEF Good
<1> QED
  BY <1>1, <1>2, <1>3, <1>4, <1>5, <1>6 DEF Kinds

LEMMA AppendNoClear ==
  ASSUME NEW H \in Seq(OpType), NEW op \in OpType, NoClear(Append(H, op))
  PROVE  NoClear(H) /\ op.name # "clear"
<1> DEFINE G == Append(H, op)
<1>1. /\ Len(H) \in Nat /\ Len(G) = Len(H) + 1 /\ G[Len(H) + 1] = op
      /\ \A i \in 1..Len(H) : G[i] = H[i]
  BY AppendPlace
<1>2. NoClear(G)
  OBVIOUS
<1> HIDE DEF G
<1> QED
  BY <1>1, <1>2 DEF NoClear

LEMMA GoodStays ==
  ASSUME NEW H \in Seq(OpType), NEW op \in OpType, SeenEarlier(H), NEW k \in Kinds, NEW s,
         NEW ops, ops \subseteq 1..Len(H), Good(H, k, s, ops)
  PROVE  Good(Append(H, op), k, s, ops)
<1> DEFINE G == Append(H, op)
<1>0. \A c, nm : Counts(H, c, ops, nm) => Counts(G, c, ops, nm)
  <2> SUFFICES ASSUME NEW c, NEW nm, Counts(H, c, ops, nm)
               PROVE  Counts(G, c, ops \cup {}, nm)
    BY ops \cup {} = ops
  <2> QED
    BY CountsStay
<1>1. RegOf(H, s, ops) => RegOf(G, s, ops)
  BY RegisterStays
<1>2. DotsOf(H, s, ops) => DotsOf(G, s, ops)
  BY DotsStay
<1>3. NoClear(G) => NoClear(H)
  BY AppendNoClear
<1>4. MVOf(H, s, ops) => MVOf(G, s, ops)
  BY MVStays
<1> HIDE DEF G
<1>5. Good(G, k, s, ops)
  BY <1>0, <1>1, <1>2, <1>3, <1>4 DEF Good
<1> QED
  BY <1>5 DEF G

LEMMA OwnJoin ==
  ASSUME NEW H \in Seq(OpType), NEW k \in Kinds, NEW s, NEW t, NEW A, NEW B, NEW a \in Actor,
         Good(H, k, s, A), Good(H, k, t, B), OwnState(H, k, s, a)
  PROVE  OwnState(H, k, Join(k, s, t), a)
<1> DEFINE u == Join(k, s, t)
<1>1. ASSUME k = "ORSET", NoClear(H)
      PROVE  u.counters[a] = Count(H, a, "add")
  <2>1. u.counters = GMerge(s.counters, t.counters)
    BY <1>1 DEF Join, OrMerge
  <2>2. DotsOf(H, s, A) /\ DotsOf(H, t, B)
    BY <1>1 DEF Good
  <2>3. s.counters \in [Actor -> Nat] /\ t.counters \in [Actor -> Nat]
    BY <2>2 DEF DotsOf, SetType
  <2>4. t.counters[a] <= Count(H, a, "add")
    BY <2>2 DEF DotsOf
  <2>5. s.counters[a] = Count(H, a, "add")
    BY <1>1 DEF OwnState
  <2>6. GMerge(s.counters, t.counters)[a]
          = IF s.counters[a] >= t.counters[a] THEN s.counters[a] ELSE t.counters[a]
    BY <2>3, MergeAt
  <2> HIDE DEF u
  <2>7. s.counters[a] \in Nat /\ t.counters[a] \in Nat /\ t.counters[a] <= s.counters[a]
    BY <2>3, <2>4, <2>5
  <2>8. s.counters[a] >= t.counters[a]
    BY <2>7
  <2> QED
    BY <2>1, <2>5, <2>6, <2>8
<1>2. ASSUME k = "ORMAP"
      PROVE  MapOf(H, u, a)
  <2>1. MapOf(H, s, a)
    BY <1>2 DEF OwnState
  <2>2. u = MapMerge(s, t)
    BY <1>2 DEF Join
  <2>3. u = [entries |-> u.entries, removed |-> u.removed] /\ s.removed \subseteq u.removed
    BY <2>2 DEF MapMerge
  <2> HIDE DEF u
  <2> QED
    BY <2>1, <2>3 DEF MapOf
<1> HIDE DEF u
<1>3. OwnState(H, k, u, a)
  BY <1>1, <1>2 DEF OwnState
<1> QED
  BY <1>3 DEF u

LEMMA OwnFresh ==
  ASSUME NEW H \in Seq(OpType), NEW k \in Kinds, NEW a \in Actor,
         \A i \in 1..Len(H) : H[i].actor # a
  PROVE  OwnState(H, k, New(k), a)
<1>1. ASSUME k = "ORSET"
      PROVE  New(k).counters[a] = Count(H, a, "add")
  <2>1. New(k).counters[a] = 0
    BY <1>1 DEF New, NewSet, Zero
  <2>2. {j \in 1..Len(H) : H[j].actor = a /\ H[j].name = "add"} = {}
    OBVIOUS
  <2>3. Count(H, a, "add") = 0
    BY <2>2, FS_EmptySet DEF Count, Place
  <2> QED
    BY <2>1, <2>3
<1>2. ASSUME k = "ORMAP"
      PROVE  MapOf(H, New(k), a)
  <2>1. \A x : ~LastIsRemove(H, a, x)
    BY DEF LastIsRemove
  <2>2. New(k) = NewMap
    BY <1>2 DEF New
  <2> QED
    BY <2>1, <2>2 DEF MapOf, NewMap
<1> QED
  BY <1>1, <1>2 DEF OwnState

LEMMA AppendLastIsRemove ==
  ASSUME NEW H \in Seq(OpType), NEW op \in OpType, NEW a, NEW x,
         op.actor # a \/ op.elem # x, LastIsRemove(Append(H, op), a, x)
  PROVE  LastIsRemove(H, a, x)
<1> DEFINE G == Append(H, op)
<1>1. /\ Len(H) \in Nat /\ Len(G) = Len(H) + 1 /\ G[Len(H) + 1] = op
      /\ \A i \in 1..Len(H) : G[i] = H[i]
  BY AppendPlace
<1>2. LastIsRemove(G, a, x)
  OBVIOUS
<1> HIDE DEF G
<1>3. PICK r \in 1..Len(G) :
        /\ G[r].actor = a /\ G[r].elem = x /\ G[r].name = "remove"
        /\ \A i \in 1..Len(G) : G[i].actor = a /\ G[i].elem = x => i <= r
  BY <1>2 DEF LastIsRemove
<1>4. r # Len(H) + 1
  BY <1>1, <1>3
<1>5. r \in 1..Len(H) /\ \A i \in 1..Len(H) : i \in 1..Len(G)
  BY <1>1, <1>4
<1> QED
  BY <1>1, <1>3, <1>5 DEF LastIsRemove

LEMMA OwnStays ==
  ASSUME NEW H \in Seq(OpType), NEW op \in OpType, NEW k \in Kinds, NEW s, NEW a \in Actor,
         OwnState(H, k, s, a), op.actor # a
  PROVE  OwnState(Append(H, op), k, s, a)
<1> DEFINE G == Append(H, op)
<1>1. Count(G, a, "add") = Count(H, a, "add")
  BY AppendCount
<1>2. NoClear(G) => NoClear(H)
  BY AppendNoClear
<1>3. \A x : LastIsRemove(G, a, x) => LastIsRemove(H, a, x)
  BY AppendLastIsRemove
<1> HIDE DEF G
<1>4. OwnState(G, k, s, a)
  BY <1>1, <1>2, <1>3 DEF OwnState, MapOf
<1> QED
  BY <1>4 DEF G
(* An operation performed by the store of its actor.                       *)
LEMMA GoodPerform ==
  ASSUME NEW H, NEW k \in Kinds, HistoryOK(H, k), NEW op \in OpType,
         op.name \in Operations(k), op.id = Len(H) + 1,
         k \in {"ORSET", "ORMAP"} => op.elem \in Elem,
         NEW s, NEW ops, ops \subseteq 1..Len(H), op.seen = ops, Owns(H, op.actor, ops),
         Good(H, k, s, ops), OwnState(H, k, s, op.actor)
  PROVE  /\ Good(Append(H, op), k, Perform(k, s, op), ops \cup {Len(H) + 1})
         /\ OwnState(Append(H, op), k, Perform(k, s, op), op.actor)
<1> DEFINE G == Append(H, op)
<1> DEFINE n == Len(H) + 1
<1> DEFINE t == Perform(k, s, op)
<1>0. H \in Seq(OpType) /\ Ranked(H) /\ SeenEarlier(H) /\ op.actor \in Actor
  BY DEF HistoryOK, OpType
<1>1. CASE k = "GCOUNTER"
  <2>1. op.name = "inc" /\ t = GInc(s, op.actor, 1) /\ Counts(H, s, ops, op.name)
    BY <1>1 DEF Operations, Perform, Good
  <2>2. Counts(G, t, ops \cup {n}, "inc")
    BY <1>0, <2>1, CountsGrow
  <2> HIDE DEF G, t, n
  <2>3. Good(G, k, t, ops \cup {n}) /\ OwnState(G, k, t, op.actor)
    BY <1>1, <2>2 DEF Good, OwnState
  <2> QED
    BY <2>3 DEF G, t, n
<1>2. CASE k = "PNCOUNTER"
  <2>0. /\ s = [p |-> s.p, n |-> s.n]
        /\ Counts(H, s.p, ops, "inc") /\ Counts(H, s.n, ops, "dec")
    BY <1>2 DEF Good
  <2>1. op.name \in {"inc", "dec"}
    BY <1>2 DEF Operations
  <2>2. CASE op.name = "inc"
    <3>1. t = [s EXCEPT !.p = GInc(s.p, op.actor, 1)]
      BY <1>2, <2>2 DEF Perform
    <3>2. t = [p |-> GInc(s.p, op.actor, 1), n |-> s.n]
      BY <2>0, <3>1
    <3>3. Counts(G, GInc(s.p, op.actor, 1), ops \cup {n}, "inc")
      BY <1>0, <2>0, <2>2, CountsGrow
    <3>4. Counts(G, s.n, ops \cup {n}, "dec")
      BY <1>0, <2>0, <2>2, CountsStay
    <3> HIDE DEF G, t, n
    <3>5. Good(G, k, t, ops \cup {n}) /\ OwnState(G, k, t, op.actor)
      BY <1>2, <3>2, <3>3, <3>4 DEF Good, OwnState
    <3> QED
      BY <3>5 DEF G, t, n
  <2>3. CASE op.name = "dec"
    <3>1. t = [s EXCEPT !.n = GInc(s.n, op.actor, 1)]
      BY <1>2, <2>3 DEF Perform
    <3>2. t = [p |-> s.p, n |-> GInc(s.n, op.actor, 1)]
      BY <2>0, <3>1
    <3>3. Counts(G, GInc(s.n, op.actor, 1), ops \cup {n}, "dec")
      BY <1>0, <2>0, <2>3, CountsGrow
    <3>4. Counts(G, s.p, ops \cup {n}, "inc")
      BY <1>0, <2>0, <2>3, CountsStay
    <3> HIDE DEF G, t, n
    <3>5. Good(G, k, t, ops \cup {n}) /\ OwnState(G, k, t, op.actor)
      BY <1>2, <3>2, <3>3, <3>4 DEF Good, OwnState
    <3> QED
      BY <3>5 DEF G, t, n
  <2> QED
    BY <2>1, <2>2, <2>3
<1>3. CASE k = "LWW_REG"
  <2>1. t = LwwUpdate(s, op.hlc, op.actor, op.id) /\ RegOf(H, s, ops)
    BY <1>3 DEF Perform, Good
  <2>2. RegOf(G, LwwUpdate(s, op.hlc, op.actor, op.id), ops \cup {n})
    BY <1>0, <2>1, RegisterTakes
  <2> HIDE DEF G, t, n
  <2>3. Good(G, k, t, ops \cup {n}) /\ OwnState(G, k, t, op.actor)
    BY <1>3, <2>1, <2>2 DEF Good, OwnState
  <2> QED
    BY <2>3 DEF G, t, n
<1>4. CASE k = "ORSET"
  <2>0. NoClear(G) => NoClear(H) /\ op.name # "clear"
    BY <1>0, AppendNoClear
  <2>1. op.name \in {"add", "remove", "clear"} /\ op.elem \in Elem
    BY <1>4 DEF Operations
  <2>2. NoClear(H) => DotsOf(H, s, ops) /\ s.counters[op.actor] = Count(H, op.actor, "add")
    BY <1>4 DEF Good, OwnState
  <2>3. NoClear(G) => DotsOf(G, t, ops \cup {n}) /\ t.counters[op.actor] = Count(G, op.actor, "add")
    <3> SUFFICES ASSUME NoClear(G)
                 PROVE  DotsOf(G, t, ops \cup {n}) /\ t.counters[op.actor] = Count(G, op.actor, "add")
      OBVIOUS
    <3>1. DotsOf(H, s, ops) /\ s.counters[op.actor] = Count(H, op.actor, "add")
      BY <2>0, <2>2
    <3>2. CASE op.name = "add"
      <4>1. t = OrAdd(s, op.actor, op.elem)
        BY <1>4, <3>2 DEF Perform
      <4>2. /\ DotsOf(G, OrAdd(s, op.actor, op.elem), ops \cup {n})
            /\ OrAdd(s, op.actor, op.elem).counters[op.actor] = Count(G, op.actor, "add")
        BY <1>0, <2>1, <3>1, <3>2, DotsAdded
      <4> HIDE DEF G, t, n
      <4> QED
        BY <4>1, <4>2
    <3>3. CASE op.name = "remove"
      <4>1. t = OrRemove(s, op.elem)
        BY <1>4, <3>3 DEF Perform
      <4>2. /\ DotsOf(G, OrRemove(s, op.elem), ops \cup {n})
            /\ OrRemove(s, op.elem).counters = s.counters
        BY <1>0, <2>1, <3>1, <3>3, DotsRemoved
      <4>3. Count(G, op.actor, "add") = Count(H, op.actor, "add")
        BY <1>0, <3>3, AppendCount
      <4> HIDE DEF G, t, n
      <4> QED
        BY <3>1, <4>1, <4>2, <4>3
    <3> QED
      BY <2>0, <2>1, <3>2, <3>3
  <2> HIDE DEF G, t, n
  <2>4. Good(G, k, t, ops \cup {n}) /\ OwnState(G, k, t, op.actor)
    BY <1>4, <2>3 DEF Good, OwnState
  <2> QED
    BY <2>4 DEF G, t, n
<1>5. CASE k = "ORMAP"
  <2>0. op.name \in {"put", "remove"} /\ op.elem \in Elem
    BY <1>5 DEF Operations
  <2>1. /\ s = [entries |-> s.entries, removed |-> s.removed]
        /\ \A x \in Elem : LastIsRemove(H, op.actor, x) => x \in s.removed
    BY <1>5 DEF OwnState, MapOf
  <2>2. \A x : x # op.elem /\ LastIsRemove(G, op.actor, x) => LastIsRemove(H, op.actor, x)
    BY <1>0, AppendLastIsRemove
  <2>3. CASE op.name = "put"
    <3>1. t = MapPut(s, op.hlc, op.actor, op.elem, op.id)
      BY <1>5, <2>3 DEF Perform
    <3>2. t = [entries |-> t.entries, removed |-> s.removed \ {op.elem}]
      BY <2>1, <3>1 DEF MapPut, WithEntry
    <3>3. ~LastIsRemove(G, op.actor, op.elem)
      <4>1. Len(G) = n /\ G[n] = op /\ n \in 1..Len(G)
        BY <1>0, AppendPlace
      <4>2. \A r \in 1..Len(G) : n <= r => r = n
        BY <1>0, <4>1
      <4> HIDE DEF G, n
      <4> QED
        BY <2>3, <4>1, <4>2 DEF LastIsRemove
    <3> HIDE DEF G, t, n
    <3>4. t = [entries |-> t.entries, removed |-> t.removed] /\ t.removed = s.removed \ {op.elem}
      BY <3>2
    <3>5. MapOf(G, t, op.actor)
      BY <2>1, <2>2, <3>3, <3>4 DEF MapOf
    <3>6. Good(G, k, t, ops \cup {n}) /\ OwnState(G, k, t, op.actor)
      BY <1>5, <3>5 DEF Good, OwnState
    <3> QED
      BY <3>6 DEF G, t, n
  <2>4. CASE op.name = "remove"
    <3>1. t = MapRemove(s, op.elem)
      BY <1>5, <2>4 DEF Perform
    <3>2. t = [entries |-> s.entries, removed |-> s.removed \cup {op.elem}]
      BY <2>1, <3>1 DEF MapRemove
    <3> HIDE DEF G, t, n
    <3>3. t = [entries |-> t.entries, removed |-> t.removed] /\ t.removed = s.removed \cup {op.elem}
      BY <3>2
    <3>4. MapOf(G, t, op.actor)
      BY <2>1, <2>2, <3>3 DEF MapOf
    <3>5. Good(G, k, t, ops \cup {n}) /\ OwnState(G, k, t, op.actor)
      BY <1>5, <3>4 DEF Good, OwnState
    <3> QED
      BY <3>5 DEF G, t, n
  <2> QED
    BY <2>0, <2>3, <2>4
<1>6. CASE k = "MVREG"
  <2>1. op.name = "set" /\ t = MVSet(s, op.actor, op.id) /\ MVOf(H, s, ops)
    BY <1>6 DEF Operations, Perform, Good
  <2>2. MVOf(G, MVSet(s, op.actor, op.id), ops \cup {n})
    BY <1>0, <2>1, MVWrites
  <2> HIDE DEF G, t, n
  <2>3. Good(G, k, t, ops \cup {n}) /\ OwnState(G, k, t, op.actor)
    BY <1>6, <2>1, <2>2 DEF Good, OwnState
  <2> QED
    BY <2>3 DEF G, t, n
<1>7. CASE k = "FLAGSET"
  BY <1>7 DEF Good, OwnState
<1> QED
  BY <1>1, <1>2, <1>3, <1>4, <1>5, <1>6, <1>7 DEF Kinds

-----------------------------------------------------------------------------
(* Stores and messages.                                                    *)

LEMMA HistoryGrows ==
  ASSUME NEW H, NEW k \in Kinds, HistoryOK(H, k), NEW op \in OpType,
         op.name \in Operations(k), op.id = Len(H) + 1, k = "ORSET" => op.elem \in Elem,
         op.seen \subseteq 1..Len(H)
  PROVE  HistoryOK(Append(H, op), k)
<1> DEFINE G == Append(H, op)
<1>0. H \in Seq(OpType) /\ Ranked(H) /\ SeenEarlier(H)
  BY DEF HistoryOK
<1>1. /\ Len(H) \in Nat /\ Len(G) = Len(H) + 1 /\ G[Len(H) + 1] = op
      /\ G \in Seq(OpType) /\ \A i \in 1..Len(H) : G[i] = H[i]
  BY <1>0, AppendPlace
<1>2. Ranked(G)
  BY <1>0, AppendRanked
<1> HIDE DEF G
<1>3. ASSUME NEW i \in 1..Len(G)
      PROVE  /\ G[i].id = i /\ G[i].name \in Operations(k)
             /\ k = "ORSET" => G[i].elem \in Elem
             /\ G[i].seen \subseteq 1..(i - 1)
  <2>1. CASE i \in 1..Len(H)
    BY <1>1, <2>1 DEF HistoryOK, SeenEarlier
  <2>2. CASE i = Len(H) + 1
    <3>1. i - 1 = Len(H)
      BY <1>1, <2>2
    <3> QED
      BY <1>1, <2>2, <3>1
  <2> QED
    BY <1>1, <2>1, <2>2
<1>4. HistoryOK(G, k)
  BY <1>1, <1>2, <1>3 DEF HistoryOK, SeenEarlier
<1> QED
  BY <1>4 DEF G

LEMMA StoreUpdates ==
  ASSUME NEW H, NEW k \in Kinds, HistoryOK(H, k), NEW op \in OpType,
         op.name \in Operations(k), op.id = Len(H) + 1,
         k \in {"ORSET", "ORMAP"} => op.elem \in Elem,
         NEW c, NEW ops, op.seen = ops, StoreOK(H, k, c, ops, op.actor)
  PROVE  StoreOK(Append(H, op), k, <<Perform(k, FieldAt(k, c), op)>>, ops \cup {Len(H) + 1},
                 op.actor)
<1> DEFINE G == Append(H, op)
<1> DEFINE n == Len(H) + 1
<1> DEFINE t == Perform(k, FieldAt(k, c), op)
<1>0. H \in Seq(OpType)
  BY DEF HistoryOK
<1>1. /\ Len(H) \in Nat /\ Len(G) = n /\ G[n] = op
      /\ \A i \in 1..Len(H) : G[i] = H[i]
  BY <1>0, AppendPlace
<1>2. Good(G, k, t, ops \cup {n}) /\ OwnState(G, k, t, op.actor)
  BY GoodPerform DEF StoreOK
<1>3. ops \subseteq 1..Len(H) /\ Owns(H, op.actor, ops)
  BY DEF StoreOK
<1> HIDE DEF G, t
<1>4. ops \cup {n} \subseteq 1..Len(G)
  BY <1>1, <1>3
<1>5. Owns(G, op.actor, ops \cup {n})
  BY <1>1, <1>3 DEF Owns
<1>6. Present(<<t>>) /\ FieldAt(k, <<t>>) = t
  BY DEF Present, Absent, FieldAt
<1>7. StoreOK(G, k, <<t>>, ops \cup {n}, op.actor)
  BY <1>2, <1>4, <1>5, <1>6 DEF StoreOK
<1> QED
  BY <1>7 DEF G, t

LEMMA StoreStays ==
  ASSUME NEW H, NEW k \in Kinds, HistoryOK(H, k), NEW op \in OpType,
         NEW c, NEW ops, NEW a \in Actor, a # op.actor, StoreOK(H, k, c, ops, a)
  PROVE  StoreOK(Append(H, op), k, c, ops, a)
<1> DEFINE G == Append(H, op)
<1>0. H \in Seq(OpType) /\ SeenEarlier(H)
  BY DEF HistoryOK
<1>1. /\ Len(H) \in Nat /\ Len(G) = Len(H) + 1 /\ G[Len(H) + 1] = op
      /\ \A i \in 1..Len(H) : G[i] = H[i]
  BY <1>0, AppendPlace
<1>2. Good(G, k, FieldAt(k, c), ops)
  BY <1>0, GoodStays DEF StoreOK
<1>3. OwnState(G, k, FieldAt(k, c), a)
  BY <1>0, OwnStays DEF StoreOK
<1> HIDE DEF G
<1>4. ops \subseteq 1..Len(G) /\ Owns(G, a, ops)
  BY <1>1 DEF StoreOK, Owns
<1>5. StoreOK(G, k, c, ops, a)
  BY <1>2, <1>3, <1>4 DEF StoreOK
<1> QED
  BY <1>5 DEF G

LEMMA MessageStays ==
  ASSUME NEW H, NEW k \in Kinds, HistoryOK(H, k), NEW op \in OpType,
         NEW fields, NEW ops, MessageOK(H, k, fields, ops)
  PROVE  MessageOK(Append(H, op), k, fields, ops)
<1> DEFINE G == Append(H, op)
<1>0. H \in Seq(OpType) /\ SeenEarlier(H)
  BY DEF HistoryOK
<1>1. Len(H) \in Nat /\ Len(G) = Len(H) + 1
  BY <1>0, AppendPlace
<1>2. Present(fields) => Good(G, k, deserialize_payload(k, fields[1]), ops)
  BY <1>0, GoodStays DEF MessageOK
<1> HIDE DEF G
<1>3. ops \subseteq 1..Len(G)
  BY <1>1 DEF MessageOK
<1>4. MessageOK(G, k, fields, ops)
  BY <1>2, <1>3 DEF MessageOK
<1> QED
  BY <1>4 DEF G

LEMMA StoreMerges ==
  ASSUME NEW H, NEW k \in Kinds, HistoryOK(H, k), NEW c, NEW ops, NEW a \in Actor,
         StoreOK(H, k, c, ops, a), NEW fields, NEW more, MessageOK(H, k, fields, more)
  PROVE  /\ Present(fields) =>
              StoreOK(H, k, <<Join(k, FieldAt(k, c), deserialize_payload(k, fields[1]))>>,
                      ops \cup more, a)
         /\ ~Present(fields) => StoreOK(H, k, c, ops \cup more, a)
<1>0. H \in Seq(OpType) /\ Ranked(H)
  BY DEF HistoryOK
<1>1. CASE Present(fields)
  <2> DEFINE s == FieldAt(k, c)
  <2> DEFINE t == deserialize_payload(k, fields[1])
  <2>1. /\ ops \subseteq 1..Len(H) /\ more \subseteq 1..Len(H)
        /\ Good(H, k, s, ops) /\ Good(H, k, t, more) /\ OwnState(H, k, s, a)
    BY <1>1 DEF StoreOK, MessageOK
  <2> HIDE DEF s, t
  <2>2. Good(H, k, Join(k, s, t), ops \cup more)
    BY <1>0, <2>1, GoodJoin
  <2>3. OwnState(H, k, Join(k, s, t), a)
    BY <1>0, <2>1, OwnJoin
  <2>4. Owns(H, a, ops \cup more)
    BY DEF StoreOK, Owns
  <2>5. Present(<<Join(k, s, t)>>) /\ FieldAt(k, <<Join(k, s, t)>>) = Join(k, s, t)
    BY DEF Present, Absent, FieldAt
  <2>6. StoreOK(H, k, <<Join(k, s, t)>>, ops \cup more, a)
    BY <2>1, <2>2, <2>3, <2>4, <2>5 DEF StoreOK
  <2> QED
    BY <1>1, <2>6 DEF s, t
<1>2. CASE ~Present(fields)
  <2>1. ops \cup more = ops
    BY <1>2 DEF MessageOK
  <2> QED
    BY <1>2, <2>1
<1> QED
  BY <1>1, <1>2

LEMMA ExportIsSound ==
  ASSUME NEW H, NEW k \in Kinds, HistoryOK(H, k), NEW c, NEW ops, NEW a,
         StoreOK(H, k, c, ops, a)
  PROVE  MessageOK(H, k, IF Present(c) THEN <<ToBytes(k, c[1])>> ELSE Absent, ops)
<1>0. H \in Seq(OpType) /\ ops \subseteq 1..Len(H)
  BY DEF HistoryOK, StoreOK
<1>1. CASE Present(c)
  <2> DEFINE b == ToBytes(k, c[1])
  <2>1. Good(H, k, c[1], ops)
    BY <1>1 DEF StoreOK, FieldAt
  <2>2. Good(H, k, deserialize_payload(k, b), ops)
    BY <1>0, <2>1, GoodCodec
  <2> HIDE DEF b
  <2>3. Present(<<b>>) /\ <<b>>[1] = b
    BY DEF Present, Absent
  <2>4. MessageOK(H, k, <<b>>, ops)
    BY <1>0, <2>2, <2>3 DEF MessageOK
  <2> QED
    BY <1>1, <2>4 DEF b
<1>2. CASE ~Present(c)
  <2>1. ops = {} /\ ~Present(Absent)
    BY <1>2 DEF StoreOK, Present
  <2> QED
    BY <1>0, <1>2, <2>1 DEF MessageOK
<1> QED
  BY <1>1, <1>2

LEMMA FreshStore ==
  ASSUME NEW H, NEW k \in Kinds, HistoryOK(H, k), NEW a \in Actor,
         \A i \in 1..Len(H) : H[i].actor # a
  PROVE  StoreOK(H, k, Absent, {}, a)
<1>0. H \in Seq(OpType)
  BY DEF HistoryOK
<1>1. FieldAt(k, Absent) = New(k)
  BY DEF FieldAt, Present
<1>2. Good(H, k, New(k), {}) /\ OwnState(H, k, New(k), a)
  BY <1>0, GoodNew, OwnFresh
<1> QED
  BY <1>1, <1>2 DEF StoreOK, Owns
-----------------------------------------------------------------------------
(* The steps of the specification.                                         *)

LEMMA EmptyHistory ==
  ASSUME NEW k \in Kinds
  PROVE  HistoryOK(<<>>, k)
<1>1. <<>> \in Seq(OpType) /\ Len(<<>>) = 0 /\ 1..0 = {}
  OBVIOUS
<1>2. \A a, nm : Count(<<>>, a, nm) = 0
  <2> TAKE a, nm
  <2>1. {j \in 1..Len(<<>>) : <<>>[j].actor = a /\ <<>>[j].name = nm} = {}
    BY <1>1
  <2> QED
    BY <2>1, FS_EmptySet DEF Count, Place
<1> QED
  BY <1>1, <1>2 DEF HistoryOK, Ranked, SeenEarlier

LEMMA InitSync == MInit => SyncInv
<1> SUFFICES ASSUME MInit PROVE SyncInv
  OBVIOUS
<1>1. kind \in Kinds /\ history = <<>> /\ net = {}
  BY SyncAssumption DEF MInit
<1>2. actor = FirstActor
  BY DEF MInit
<1>3. actor \in [Gateway -> Actor] /\ \A g, h \in Gateway : actor[g] = actor[h] => g = h
  BY <1>2, SyncAssumption
<1>4. /\ wall \in [Gateway -> Nat]
      /\ cell = [g \in Gateway |-> Absent] /\ known = [g \in Gateway |-> {}]
  BY DEF MInit
<1>5. hlc \in [Gateway -> Times]
  BY ClockTypes DEF MInit
<1>6. HistoryOK(<<>>, kind)
  BY <1>1, EmptyHistory
<1>7. \A g \in Gateway : StoreOK(<<>>, kind, Absent, {}, actor[g])
  <2> TAKE g \in Gateway
  <2>1. actor[g] \in Actor /\ \A i \in 1..Len(<<>>) : <<>>[i].actor # actor[g]
    BY <1>3
  <2> QED
    BY <1>1, <1>6, <2>1, FreshStore
<1> QED
  BY <1>1, <1>3, <1>4, <1>5, <1>6, <1>7 DEF SyncInv

LEMMA OperationNames ==
  ASSUME NEW k \in Kinds
  PROVE  Operations(k) \subseteq Names
BY DEF Kinds, Operations, Names

LEMMA SyncUpdate ==
  ASSUME SyncInv, NEW g \in Gateway, Update(g)
  PROVE  SyncInv'
<1> DEFINE n == Len(history) + 1
<1>0. /\ kind \in Kinds /\ HistoryOK(history, kind)
      /\ actor \in [Gateway -> Actor] /\ wall \in [Gateway -> Nat] /\ hlc \in [Gateway -> Times]
      /\ StoreOK(history, kind, cell[g], known[g], actor[g])
  BY DEF SyncInv
<1>1. PICK name \in Operations(kind), e \in Operands(kind) :
        LET h == tick(hlc[g], wall[g])
            op == [id |-> n, name |-> name, actor |-> actor[g], elem |-> e,
                   hlc |-> h, seen |-> known[g]]
        IN /\ hlc' = [hlc EXCEPT ![g] = h]
           /\ cell' = [cell EXCEPT ![g] = <<Perform(kind, Field(g), op)>>]
           /\ history' = Append(history, op)
           /\ known' = [known EXCEPT ![g] = @ \cup {n}]
           /\ UNCHANGED <<kind, actor, wall, net, syncs>>
  BY DEF Update
<1>2. PICK h : h = tick(hlc[g], wall[g])
  OBVIOUS
<1>3. h \in Times
  BY <1>0, <1>2, ClockTypes
<1>4. PICK op : op = [id |-> n, name |-> name, actor |-> actor[g], elem |-> e,
                      hlc |-> h, seen |-> known[g]]
  OBVIOUS
<1>5. /\ hlc' = [hlc EXCEPT ![g] = h]
      /\ cell' = [cell EXCEPT ![g] = <<Perform(kind, FieldAt(kind, cell[g]), op)>>]
      /\ history' = Append(history, op)
      /\ known' = [known EXCEPT ![g] = known[g] \cup {n}]
      /\ kind' = kind /\ actor' = actor /\ wall' = wall /\ net' = net
  BY <1>1, <1>2, <1>4 DEF Field, FieldAt
<1>6. /\ op.id = n /\ op.name = name /\ op.actor = actor[g] /\ op.elem = e
      /\ op.seen = known[g]
  BY <1>4
<1>7. history \in Seq(OpType) /\ Len(history) \in Nat
  BY <1>0 DEF HistoryOK
<1>8. known[g] \subseteq 1..Len(history)
  BY <1>0 DEF StoreOK
<1>9. op \in OpType
  <2>1. name \in Names /\ actor[g] \in Actor /\ n \in Nat
    BY <1>0, <1>1, <1>7, OperationNames
  <2>2. e \in Elem \cup {CHOOSE x \in Elem : TRUE}
    BY <1>1 DEF Operands
  <2>3. known[g] \in SUBSET Nat
    BY <1>8
  <2> QED
    BY <1>3, <1>4, <2>1, <2>2, <2>3 DEF OpType
<1>10. kind \in {"ORSET", "ORMAP"} => op.elem \in Elem
  BY <1>1, <1>6 DEF Operands
<1>11. HistoryOK(history', kind')
  BY <1>0, <1>1, <1>5, <1>6, <1>8, <1>9, <1>10, HistoryGrows
<1>12. StoreOK(history', kind', cell'[g], known'[g], actor'[g])
  <2>1. StoreOK(Append(history, op), kind, <<Perform(kind, FieldAt(kind, cell[g]), op)>>,
                known[g] \cup {n}, op.actor)
    BY <1>0, <1>1, <1>6, <1>9, <1>10, StoreUpdates
  <2>2. cell'[g] = <<Perform(kind, FieldAt(kind, cell[g]), op)>> /\ known'[g] = known[g] \cup {n}
    BY <1>5 DEF SyncInv
  <2> QED
    BY <1>5, <1>6, <2>1, <2>2
<1>13. ASSUME NEW x \in Gateway, x # g
       PROVE  StoreOK(history', kind', cell'[x], known'[x], actor'[x])
  <2>1. cell'[x] = cell[x] /\ known'[x] = known[x]
    BY <1>5, <1>13 DEF SyncInv
  <2>2. actor[x] \in Actor /\ actor[x] # op.actor
    BY <1>6, <1>13 DEF SyncInv
  <2>3. StoreOK(history, kind, cell[x], known[x], actor[x])
    BY DEF SyncInv
  <2>4. StoreOK(Append(history, op), kind, cell[x], known[x], actor[x])
    BY <1>0, <1>9, <2>2, <2>3, StoreStays
  <2> QED
    BY <1>5, <2>1, <2>4
<1>14. ASSUME NEW m \in net'
       PROVE  /\ m.to \in Gateway /\ m.from \in Gateway
              /\ MessageOK(history', kind', m.fields, m.ops)
  <2>1. m.to \in Gateway /\ m.from \in Gateway /\ MessageOK(history, kind, m.fields, m.ops)
    BY <1>5 DEF SyncInv
  <2>2. MessageOK(Append(history, op), kind, m.fields, m.ops)
    BY <1>0, <1>9, <2>1, MessageStays
  <2> QED
    BY <1>5, <2>1, <2>2
<1>15. \A x \in Gateway : StoreOK(history', kind', cell'[x], known'[x], actor'[x])
  BY <1>12, <1>13
<1>16. /\ kind' \in Kinds /\ actor' \in [Gateway -> Actor] /\ wall' \in [Gateway -> Nat]
       /\ \A x, y \in Gateway : actor'[x] = actor'[y] => x = y
  BY <1>0, <1>5 DEF SyncInv
<1>17. hlc' \in [Gateway -> Times]
  BY <1>0, <1>3, <1>5
<1>18. cell' = [x \in Gateway |-> cell'[x]] /\ known' = [x \in Gateway |-> known'[x]]
  BY <1>5 DEF SyncInv
<1> QED
  BY <1>11, <1>14, <1>15, <1>16, <1>17, <1>18 DEF SyncInv

LEMMA SyncClock ==
  ASSUME SyncInv, NEW g \in Gateway, AdvanceClock(g)
  PROVE  SyncInv'
<1>1. wall' = [wall EXCEPT ![g] = wall[g] + 1] /\ UNCHANGED <<kind, actor, hlc, cell, net, history, known>>
  BY DEF AdvanceClock
<1>2. wall' \in [Gateway -> Nat]
  BY <1>1 DEF SyncInv
<1> QED
  BY <1>1, <1>2 DEF SyncInv

LEMMA SyncSend ==
  ASSUME SyncInv, NEW g \in Gateway, NEW p \in Gateway, SendSync(g, p)
  PROVE  SyncInv'
<1> DEFINE msg == [type |-> "request", from |-> g, to |-> p, n |-> syncs,
                   fields |-> Export(cell[g]), ops |-> known[g]]
<1>1. net' = net \cup {msg} /\ UNCHANGED <<kind, actor, wall, hlc, cell, history, known>>
  BY DEF SendSync
<1>2. MessageOK(history, kind, Export(cell[g]), known[g])
  BY ExportIsSound DEF SyncInv, Export
<1>3. /\ msg.to = p /\ msg.from = g
      /\ msg.fields = Export(cell[g]) /\ msg.ops = known[g]
  OBVIOUS
<1> HIDE DEF msg
<1>4. \A m \in net' : /\ m.to \in Gateway /\ m.from \in Gateway
                      /\ MessageOK(history, kind, m.fields, m.ops)
  BY <1>1, <1>2, <1>3 DEF SyncInv
<1> QED
  BY <1>1, <1>4 DEF SyncInv

(* Joining a message keeps every store what its operations make it.        *)
LEMMA SyncMerge ==
  ASSUME SyncInv, NEW m \in net, merge_into_store(m.to, m), UNCHANGED <<kind, actor, history>>
  PROVE  /\ cell' = [x \in Gateway |-> cell'[x]] /\ known' = [x \in Gateway |-> known'[x]]
         /\ \A x \in Gateway : StoreOK(history, kind, cell'[x], known'[x], actor[x])
<1> DEFINE g == m.to
<1>0. /\ g \in Gateway /\ MessageOK(history, kind, m.fields, m.ops)
      /\ kind \in Kinds /\ HistoryOK(history, kind) /\ actor[g] \in Actor
      /\ StoreOK(history, kind, cell[g], known[g], actor[g])
      /\ cell = [x \in Gateway |-> cell[x]] /\ known = [x \in Gateway |-> known[x]]
  BY DEF SyncInv
<1> HIDE DEF g
<1>1. known' = [known EXCEPT ![g] = known[g] \cup m.ops]
  BY DEF merge_into_store, g
<1>2. CASE Present(m.fields)
  <2> DEFINE t == Join(kind, FieldAt(kind, cell[g]), deserialize_payload(kind, m.fields[1]))
  <2>1. cell' = [cell EXCEPT ![g] = <<t>>]
    BY <1>2 DEF merge_into_store, g, Field, FieldAt
  <2>2. StoreOK(history, kind, <<t>>, known[g] \cup m.ops, actor[g])
    BY <1>0, <1>2, StoreMerges
  <2> HIDE DEF t
  <2>3. \A x \in Gateway : StoreOK(history, kind, cell'[x], known'[x], actor[x])
    BY <1>0, <1>1, <2>1, <2>2 DEF SyncInv
  <2> QED
    BY <1>0, <1>1, <2>1, <2>3
<1>3. CASE ~Present(m.fields)
  <2>1. cell' = cell
    BY <1>3 DEF merge_into_store
  <2>2. StoreOK(history, kind, cell[g], known[g] \cup m.ops, actor[g])
    BY <1>0, <1>3, StoreMerges
  <2>3. \A x \in Gateway : StoreOK(history, kind, cell'[x], known'[x], actor[x])
    BY <1>0, <1>1, <2>1, <2>2 DEF SyncInv
  <2> QED
    BY <1>0, <1>1, <2>1, <2>3
<1> QED
  BY <1>2, <1>3

LEMMA SyncHandle ==
  ASSUME SyncInv, NEW m \in net, HandleSync(m)
  PROVE  SyncInv'
<1>0. merge_into_store(m.to, m) /\ UNCHANGED <<kind, actor, wall, hlc, history>>
  BY DEF HandleSync
<1>1. /\ cell' = [x \in Gateway |-> cell'[x]] /\ known' = [x \in Gateway |-> known'[x]]
      /\ \A x \in Gateway : StoreOK(history, kind, cell'[x], known'[x], actor[x])
  BY <1>0, SyncMerge
<1>2. PICK answer : answer = [type |-> "answer", from |-> m.to, to |-> m.from, n |-> m.n,
                              fields |-> Export(cell'[m.to]), ops |-> known'[m.to]]
  OBVIOUS
<1>3. \A x \in net' : x \in net \/ x = answer
  BY <1>2 DEF HandleSync
<1>4. m.to \in Gateway /\ m.from \in Gateway
  BY DEF SyncInv
<1>5. MessageOK(history, kind, Export(cell'[m.to]), known'[m.to])
  BY <1>1, <1>4, ExportIsSound DEF SyncInv, Export
<1>6. /\ answer.to = m.from /\ answer.from = m.to
      /\ answer.fields = Export(cell'[m.to]) /\ answer.ops = known'[m.to]
  BY <1>2
<1>7. \A x \in net' : /\ x.to \in Gateway /\ x.from \in Gateway
                      /\ MessageOK(history, kind, x.fields, x.ops)
  BY <1>3, <1>4, <1>5, <1>6 DEF SyncInv
<1> QED
  BY <1>0, <1>1, <1>7 DEF SyncInv

LEMMA SyncReceive ==
  ASSUME SyncInv, NEW m \in net, ReceiveAnswer(m)
  PROVE  SyncInv'
<1>0. /\ merge_into_store(m.to, m) /\ UNCHANGED <<kind, actor, wall, hlc, history>>
      /\ net' \subseteq net
  BY DEF ReceiveAnswer
<1>1. /\ cell' = [x \in Gateway |-> cell'[x]] /\ known' = [x \in Gateway |-> known'[x]]
      /\ \A x \in Gateway : StoreOK(history, kind, cell'[x], known'[x], actor[x])
  BY <1>0, SyncMerge
<1>2. \A x \in net' : /\ x.to \in Gateway /\ x.from \in Gateway
                      /\ MessageOK(history, kind, x.fields, x.ops)
  BY <1>0 DEF SyncInv
<1> QED
  BY <1>0, <1>1, <1>2 DEF SyncInv

LEMMA SyncRestart ==
  ASSUME SyncInv, NEW g \in Gateway, Restart(g)
  PROVE  SyncInv'
<1>1. PICK a \in Actor \ ({actor[h] : h \in Gateway} \cup {history[i].actor : i \in DOMAIN history}) :
        actor' = [actor EXCEPT ![g] = a]
  BY DEF Restart
<1>2. /\ hlc' = [hlc EXCEPT ![g] = now(wall[g])]
      /\ cell' = [cell EXCEPT ![g] = Absent]
      /\ known' = [known EXCEPT ![g] = {}]
      /\ UNCHANGED <<kind, wall, net, history>>
  BY DEF Restart
<1>3. /\ kind \in Kinds /\ HistoryOK(history, kind) /\ wall \in [Gateway -> Nat]
      /\ hlc \in [Gateway -> Times] /\ actor \in [Gateway -> Actor]
      /\ cell = [x \in Gateway |-> cell[x]] /\ known = [x \in Gateway |-> known[x]]
      /\ \A x, y \in Gateway : actor[x] = actor[y] => x = y
  BY DEF SyncInv
<1>4. \A i \in 1..Len(history) : history[i].actor # a
  <2>1. history \in Seq(OpType)
    BY <1>3 DEF HistoryOK
  <2>2. DOMAIN history = 1..Len(history)
    BY <2>1
  <2> QED
    BY <1>1, <2>2
<1>5. a \in Actor /\ \A x \in Gateway : actor[x] # a
  BY <1>1
<1>6. StoreOK(history, kind, Absent, {}, a)
  BY <1>3, <1>4, <1>5, FreshStore
<1>7. \A x \in Gateway : StoreOK(history, kind, cell'[x], known'[x], actor'[x])
  <2> TAKE x \in Gateway
  <2>1. CASE x = g
    <3>1. cell'[x] = Absent /\ known'[x] = {} /\ actor'[x] = a
      BY <1>1, <1>2, <1>3, <2>1
    <3> QED
      BY <1>6, <3>1
  <2>2. CASE x # g
    <3>1. cell'[x] = cell[x] /\ known'[x] = known[x] /\ actor'[x] = actor[x]
      BY <1>1, <1>2, <1>3, <2>2
    <3> QED
      BY <3>1 DEF SyncInv
  <2> QED
    BY <2>1, <2>2
<1>8. actor' \in [Gateway -> Actor] /\ \A x, y \in Gateway : actor'[x] = actor'[y] => x = y
  BY <1>1, <1>3, <1>5
<1>9. hlc' \in [Gateway -> Times]
  <2>1. now(wall[g]) \in Times
    BY <1>3, ClockTypes
  <2> QED
    BY <1>2, <1>3, <2>1
<1>10. cell' = [x \in Gateway |-> cell'[x]] /\ known' = [x \in Gateway |-> known'[x]]
  BY <1>2, <1>3
<1>11. \A m \in net' : /\ m.to \in Gateway /\ m.from \in Gateway
                       /\ MessageOK(history, kind, m.fields, m.ops)
  BY <1>2 DEF SyncInv
<1> QED
  BY <1>2, <1>3, <1>7, <1>8, <1>9, <1>10, <1>11 DEF SyncInv

LEMMA SyncNext == SyncInv /\ [MNext]_mvars => SyncInv'
<1> SUFFICES ASSUME SyncInv, [MNext]_mvars PROVE SyncInv'
  OBVIOUS
<1>1. ASSUME NEW g \in Gateway, Update(g) PROVE SyncInv'
  BY <1>1, SyncUpdate
<1>2. ASSUME NEW g \in Gateway, AdvanceClock(g) PROVE SyncInv'
  BY <1>2, SyncClock
<1>3. ASSUME NEW g \in Gateway, Restart(g) PROVE SyncInv'
  BY <1>3, SyncRestart
<1>4. ASSUME NEW g \in Gateway, NEW p \in Gateway, SendSync(g, p) PROVE SyncInv'
  BY <1>4, SyncSend
<1>5. ASSUME NEW m \in net, HandleSync(m) PROVE SyncInv'
  BY <1>5, SyncHandle
<1>6. ASSUME NEW m \in net, ReceiveAnswer(m) PROVE SyncInv'
  BY <1>6, SyncReceive
<1>7. CASE UNCHANGED mvars
  BY <1>7 DEF SyncInv, mvars
<1> QED
  BY <1>1, <1>2, <1>3, <1>4, <1>5, <1>6, <1>7 DEF MNext

(* Every store and every message in flight is what the operations it was   *)
(* built from make it (MetaStore, sync_crdt, handle_sync).                 *)
THEOREM SyncInductive == MSpec => []SyncInv
<1>1. MInit => SyncInv
  BY InitSync
<1>2. SyncInv /\ [MNext]_mvars => SyncInv'
  BY SyncNext
<1> QED
  BY <1>1, <1>2, PTL DEF MSpec
-----------------------------------------------------------------------------
(* What it says of a read.                                                 *)

LEMMA CountersShow == SyncInv => CounterExact
<1> SUFFICES ASSUME SyncInv, NEW g \in Gateway, Present(cell[g])
             PROVE  /\ kind = "GCOUNTER" => GValue(cell[g][1]) = Cardinality(Known(g))
                    /\ kind = "PNCOUNTER" =>
                         PNValue(cell[g][1]) =
                           Cardinality(Named(Known(g), "inc")) - Cardinality(Named(Known(g), "dec"))
  BY DEF CounterExact
<1>0. /\ history \in Seq(OpType) /\ Ranked(history)
      /\ \A i \in 1..Len(history) : history[i].id = i /\ history[i].name \in Operations(kind)
      /\ known[g] \subseteq 1..Len(history) /\ Good(history, kind, cell[g][1], known[g])
  BY DEF SyncInv, HistoryOK, StoreOK, FieldAt
<1>1. "inc" \in Names /\ "dec" \in Names
  BY DEF Names
<1>2. ASSUME kind = "GCOUNTER"
      PROVE  GValue(cell[g][1]) = Cardinality(Known(g))
  <2>1. Counts(history, cell[g][1], known[g], "inc")
    BY <1>0, <1>2 DEF Good
  <2>2. GValue(cell[g][1]) = Cardinality(Named({history[i] : i \in known[g]}, "inc"))
    BY <1>0, <1>1, <2>1, ValueCountsOperations
  <2>3. Operations(kind) = {"inc"}
    BY <1>2 DEF Operations
  <2>4. \A i \in known[g] : history[i].name = "inc"
    BY <1>0, <2>3
  <2>5. Named({history[i] : i \in known[g]}, "inc") = {history[i] : i \in known[g]}
    BY <2>4 DEF Named
  <2> QED
    BY <2>2, <2>5 DEF Known
<1>3. ASSUME kind = "PNCOUNTER"
      PROVE  PNValue(cell[g][1]) =
               Cardinality(Named(Known(g), "inc")) - Cardinality(Named(Known(g), "dec"))
  <2>1. /\ Counts(history, cell[g][1].p, known[g], "inc")
        /\ Counts(history, cell[g][1].n, known[g], "dec")
    BY <1>0, <1>3 DEF Good
  <2>2. GValue(cell[g][1].p) = Cardinality(Named({history[i] : i \in known[g]}, "inc"))
    BY <1>0, <1>1, <2>1, ValueCountsOperations
  <2>3. GValue(cell[g][1].n) = Cardinality(Named({history[i] : i \in known[g]}, "dec"))
    BY <1>0, <1>1, <2>1, ValueCountsOperations
  <2> QED
    BY <2>2, <2>3 DEF PNValue, Known
<1> QED
  BY <1>2, <1>3

(* CounterExact for any gateways, actors and bounds: however often syncs   *)
(* are lost, repeated or overtaken and gateways restarted, a counter shows *)
(* every increment it has heard of exactly once (GCounter and PNCounter,   *)
(* merge and codec, crdt/mod.rs).                                          *)
THEOREM CountersStayExact == MSpec => []CounterExact
BY SyncInductive, CountersShow, PTL

LEMMA SetsShow == SyncInv => AddWins
<1> SUFFICES ASSUME SyncInv, kind = "ORSET", Named(ToSet(history), "clear") = {},
                    NEW g \in Gateway, Present(cell[g])
             PROVE  OrElements(cell[g][1]) =
                      {o.elem : o \in {a \in Named(Known(g), "add") :
                         \A r \in Named(Known(g), "remove") : r.elem = a.elem => a.id \notin r.seen}}
  BY DEF AddWins
<1>0. /\ history \in Seq(OpType) /\ SeenEarlier(history)
      /\ \A i \in 1..Len(history) : history[i].id = i /\ history[i].elem \in Elem
      /\ known[g] \subseteq 1..Len(history) /\ Good(history, kind, cell[g][1], known[g])
  BY DEF SyncInv, HistoryOK, StoreOK, FieldAt
<1>1. NoClear(history)
  <2>1. \A i \in 1..Len(history) : history[i] \in ToSet(history)
    BY <1>0 DEF ToSet
  <2> QED
    BY <2>1 DEF NoClear, Named
<1>2. DotsOf(history, cell[g][1], known[g])
  BY <1>0, <1>1 DEF Good
<1>3. OrElements(cell[g][1]) = Survivors(history, known[g])
  <2>1. PICK H : H = history
    OBVIOUS
  <2>2. PICK s : s = cell[g][1]
    OBVIOUS
  <2>3. PICK ops : ops = known[g]
    OBVIOUS
  <2>4. /\ H \in Seq(OpType) /\ SeenEarlier(H) /\ ops \subseteq 1..Len(H) /\ DotsOf(H, s, ops)
        /\ \A i \in 1..Len(H) : H[i].id = i /\ H[i].elem \in Elem
    BY <1>0, <1>2, <2>1, <2>2, <2>3
  <2>5. OrElements(s) = Survivors(H, ops)
    BY <2>4, SetShowsSurvivors
  <2> QED
    BY <2>1, <2>2, <2>3, <2>5
<1> QED
  BY <1>3 DEF Known, Survivors

(* AddWins for any gateways, actors, elements and bounds: an element is    *)
(* in a set exactly when some known add of it was seen by no known remove  *)
(* (ORSet::add, remove, merge, add_dot and remove_dot, crdt/mod.rs).       *)
THEOREM AddsAlwaysWin == MSpec => []AddWins
BY SyncInductive, SetsShow, PTL

LEMMA RegistersShow == SyncInv => LastWriterWins
<1> SUFFICES ASSUME SyncInv, kind = "LWW_REG", NEW g \in Gateway, Present(cell[g]), Known(g) # {}
             PROVE  \E o \in Latest(Known(g)) : /\ cell[g][1].value = o.id
                                                /\ cell[g][1].hlc = o.hlc
                                                /\ cell[g][1].actor = o.actor
  BY DEF LastWriterWins
<1>0. /\ history \in Seq(OpType)
      /\ \A i \in 1..Len(history) : history[i].id = i
      /\ known[g] \subseteq 1..Len(history) /\ Good(history, kind, cell[g][1], known[g])
  BY DEF SyncInv, HistoryOK, StoreOK, FieldAt
<1>1. known[g] # {} /\ RegOf(history, cell[g][1], known[g])
  BY <1>0 DEF Known, Good
<1>2. PICK i \in known[g] :
        /\ cell[g][1] = [hlc |-> history[i].hlc, actor |-> history[i].actor, value |-> i]
        /\ \A j \in known[g] : history[j].hlc <= history[i].hlc
  BY <1>1 DEF RegOf
<1>3. \A j \in known[g] : history[j].hlc \in Nat
  <2> TAKE j \in known[g]
  <2>1. history[j] \in OpType
    BY <1>0
  <2> QED
    BY <2>1 DEF OpType, Times
<1>4. history[i] \in Latest(Known(g))
  <2>1. history[i] \in Known(g)
    BY DEF Known
  <2>2. \A p \in Known(g) : history[i].hlc >= p.hlc
    BY <1>2, <1>3 DEF Known
  <2> QED
    BY <2>1, <2>2 DEF Latest
<1>5. history[i].id = i
  BY <1>0
<1> QED
  BY <1>2, <1>4, <1>5

(* LastWriterWins for any gateways, actors, clocks and bounds, the wrap of *)
(* the clock's two halves included (LWWReg::update and merge, the export   *)
(* codec, HLC::tick).                                                      *)
THEOREM LastWriteIsKept == MSpec => []LastWriterWins
BY SyncInductive, RegistersShow, PTL

(* With the invariant, what a store shows.                                 *)
LEMMA ValuesShow == SyncInv => LatestOfEachActor
<1> SUFFICES ASSUME SyncInv, kind = "MVREG", NEW g \in Gateway, Present(cell[g])
             PROVE  MVValues(cell[g][1]) =
                      {o.id : o \in {x \in Known(g) :
                                       \A y \in Known(g) : y.actor = x.actor => y.id <= x.id}}
  BY DEF LatestOfEachActor
<1> DEFINE K == known[g]
<1>0. /\ history \in Seq(OpType) /\ Ranked(history)
      /\ \A i \in 1..Len(history) : history[i].id = i /\ history[i].name \in Operations(kind)
      /\ K \subseteq 1..Len(history) /\ Good(history, kind, cell[g][1], K)
  BY DEF SyncInv, HistoryOK, StoreOK, FieldAt
<1>1. MVOf(history, cell[g][1], K) /\ Operations(kind) = {"set"}
  BY <1>0 DEF Good, Operations
<1>2. \A i \in 1..Len(history) : history[i].name = "set"
  BY <1>0, <1>1
<1> DEFINE L == {i \in K : \A j \in K : history[j].actor = history[i].actor => j <= i}
           R == {x \in Known(g) : \A y \in Known(g) : y.actor = x.actor => y.id <= x.id}
<1>3. MVValues(cell[g][1]) = L
  BY <1>0, <1>1, <1>2, ValuesShowLatest
<1> HIDE DEF K
<1>4. \A o : o \in Known(g) <=> \E i \in K : o = history[i]
  BY DEF Known, K
<1>5. \A i \in K : history[i].id = i /\ history[i] \in Known(g)
  BY <1>0, <1>4
<1>6. ASSUME NEW i \in L PROVE history[i] \in R /\ history[i].id = i
  <2>1. i \in K /\ \A j \in K : history[j].actor = history[i].actor => j <= i
    OBVIOUS
  <2>2. ASSUME NEW y \in Known(g), y.actor = history[i].actor PROVE y.id <= history[i].id
    BY <1>4, <1>5, <2>1, <2>2
  <2> QED
    BY <1>5, <2>1, <2>2
<1>7. ASSUME NEW o \in R PROVE o.id \in L
  <2>1. o \in Known(g) /\ \A y \in Known(g) : y.actor = o.actor => y.id <= o.id
    OBVIOUS
  <2>2. PICK i \in K : o = history[i]
    BY <1>4, <2>1
  <2>3. ASSUME NEW j \in K, history[j].actor = history[i].actor PROVE j <= i
    BY <1>5, <2>1, <2>2, <2>3
  <2> QED
    BY <1>5, <2>2, <2>3
<1> HIDE DEF L, R
<1>8. \A y : y \in {o.id : o \in R} <=> \E o \in R : y = o.id
  OBVIOUS
<1>9. L = {o.id : o \in R}
  <2> DEFINE M == {o.id : o \in R}
  <2>1. ASSUME NEW y \in L PROVE y \in M
    BY <1>6
  <2>2. ASSUME NEW y \in M PROVE y \in L
    BY <1>7
  <2> HIDE DEF M
  <2> QED
    BY <2>1, <2>2 DEF M
<1> QED
  BY <1>3, <1>9 DEF R

(* LatestOfEachActor for any gateways, actors and bounds: whatever order   *)
(* writes and merges come in, a multi-value register shows the last write  *)
(* of every actor it has heard of and no older one (MVReg::set, merge and  *)
(* the export codec, crdt/mod.rs).                                         *)
THEOREM LatestWritesShown == MSpec => []LatestOfEachActor
BY SyncInductive, ValuesShow, PTL

LEMMA MapsShow == SyncInv => LocalRemoveSticks
<1> SUFFICES ASSUME SyncInv, kind = "ORMAP", NEW g \in Gateway, NEW k \in Elem, Present(cell[g]),
                    NEW r \in {o \in ToSet(history) : o.actor = actor[g] /\ o.elem = k},
                    r.name = "remove",
                    \A o \in {x \in ToSet(history) : x.actor = actor[g] /\ x.elem = k} : o.id <= r.id
             PROVE  MapGet(cell[g][1], k) = NoValue
  BY DEF LocalRemoveSticks
<1>0. /\ history \in Seq(OpType)
      /\ \A i \in 1..Len(history) : history[i].id = i
      /\ OwnState(history, kind, cell[g][1], actor[g])
  BY DEF SyncInv, HistoryOK, StoreOK, FieldAt
<1>1. \A i \in 1..Len(history) : history[i] \in ToSet(history)
  BY <1>0 DEF ToSet
<1>2. PICK n \in 1..Len(history) : r = history[n]
  BY <1>0 DEF ToSet
<1>3. \A i \in 1..Len(history) : history[i].actor = actor[g] /\ history[i].elem = k => i <= n
  BY <1>0, <1>1, <1>2
<1>4. LastIsRemove(history, actor[g], k)
  BY <1>2, <1>3 DEF LastIsRemove
<1>5. k \in cell[g][1].removed
  BY <1>0, <1>4 DEF OwnState, MapOf
<1> QED
  BY <1>5 DEF MapGet

(* LocalRemoveSticks for any gateways, actors, keys and bounds (ORMap::put,*)
(* remove, merge and get).                                                 *)
THEOREM RemovesAlwaysStick == MSpec => []LocalRemoveSticks
BY SyncInductive, MapsShow, PTL
-----------------------------------------------------------------------------
(* Discovery: the calls under way.                                         *)

Depth == (IF MaxHops = 0 THEN 1 ELSE MaxHops) + 1

Frame(b, h, v, l, r, fw) ==
    [base |-> b, hops |-> h, visited |-> v, left |-> l, results |-> r, forwarded |-> fw]
IsFrame(f) == \E b, h, v, l, r, fw : f = Frame(b, h, v, l, r, fw)

(* A gateway that is waited for or has peers left to ask has entered       *)
(* itself among the visited, and has a hop left to give.                   *)
FrameOK(s, i) ==
    /\ IsFrame(s[i]) /\ s[i].hops \in Nat
    /\ s[i].left # <<>> => s[i].hops + i <= MaxHops + 1
    /\ i >= 2 /\ s[i].left # <<>> => s[i].hops >= 1 /\ s[i].base \in s[i].visited
    /\ \A j \in 2..(i - 1) : s[j].base \in s[i].visited
    /\ i < Len(s) => s[i].left # <<>>

WalkOK(s) ==
    /\ \E S : s \in Seq(S)
    /\ Len(s) <= Depth
    /\ \A i \in 1..Len(s) : FrameOK(s, i)
    /\ \A i, j \in 2..Len(s) : i < j => s[i].base # s[j].base

(* The top frame asks for less, or has one answer more.                    *)
LEMMA WalkAdvances ==
  ASSUME NEW s, WalkOK(s), NEW n \in Nat, n >= 1, n <= Len(s), s[n].left # <<>>, NEW f,
         IsFrame(f), f.base = s[n].base, f.hops = s[n].hops, f.visited = s[n].visited
  PROVE  WalkOK(Append(SubSeq(s, 1, n - 1), f))
<1>0. PICK S : s \in Seq(S)
  BY DEF WalkOK
<1> DEFINE t == Append(SubSeq(s, 1, n - 1), f)
<1>1. /\ t \in Seq(S \cup {f}) /\ Len(t) = n /\ t[n] = f
      /\ \A i \in 1..(n - 1) : t[i] = s[i]
  <2>1. Len(s) \in Nat /\ n - 1 \in 0..Len(s)
    BY <1>0
  <2>2. SubSeq(s, 1, n - 1) \in Seq(S) /\ Len(SubSeq(s, 1, n - 1)) = n - 1
    BY <1>0, <2>1
  <2>3. \A i \in 1..(n - 1) : SubSeq(s, 1, n - 1)[i] = s[i]
    BY <1>0, <2>1
  <2>4. SubSeq(s, 1, n - 1) \in Seq(S \cup {f})
    BY <2>2
  <2> HIDE DEF t
  <2> QED
    BY <2>2, <2>3, <2>4 DEF t
<1> HIDE DEF t
<1>2. \A i \in 1..n : t[i].base = s[i].base /\ t[i].hops = s[i].hops /\ t[i].visited = s[i].visited
  BY <1>1
<1>3. Len(s) \in Nat /\ \A i \in 1..n : i \in 1..Len(s)
  BY <1>0
<1>4. Len(t) <= Depth
  <2>1. Depth \in Nat /\ Len(s) <= Depth
    BY DiscoveryAssumption DEF WalkOK, Depth
  <2> QED
    BY <1>1, <1>3, <2>1
<1>5. \A i, j \in 2..Len(t) : i < j => t[i].base # t[j].base
  BY <1>1, <1>2, <1>3 DEF WalkOK
<1>6. ASSUME NEW i \in 1..Len(t)
      PROVE  FrameOK(t, i)
  <2>0. i \in 1..n /\ i \in 1..Len(s) /\ FrameOK(s, i)
    BY <1>1, <1>3 DEF WalkOK
  <2>1. \A j \in 2..(i - 1) : j \in 1..n
    BY <2>0
  <2>2. t[i].left # <<>> => s[i].left # <<>>
    BY <1>1, <2>0
  <2>3. i < Len(t) => t[i].left # <<>>
    <3> SUFFICES ASSUME i < Len(t) PROVE t[i].left # <<>>
      OBVIOUS
    <3>1. i \in 1..(n - 1) /\ i < Len(s)
      BY <1>1, <1>3, <2>0
    <3>2. s[i].left # <<>>
      BY <2>0, <3>1 DEF FrameOK
    <3> QED
      BY <1>1, <3>1, <3>2
  <2> QED
    <3>1. IsFrame(t[i])
      <4>1. CASE i = n
        BY <1>1, <4>1
      <4>2. CASE i # n
        <5>1. i \in 1..(n - 1)
          BY <2>0, <4>2
        <5> QED
          BY <1>1, <2>0, <5>1 DEF FrameOK
      <4> QED
        BY <4>1, <4>2
    <3> QED
      BY <1>2, <2>0, <2>1, <2>2, <2>3, <3>1 DEF FrameOK
<1>7. WalkOK(t)
  BY <1>1, <1>4, <1>5, <1>6 DEF WalkOK
<1> QED
  BY <1>7 DEF t

LEMMA WalkAsks ==
  ASSUME NEW s, WalkOK(s), Len(s) >= 1, NEW b, s[Len(s)].left # <<>>,
         b \notin s[Len(s)].visited
  PROVE  WalkOK(Append(s, HandleFrame(b, s[Len(s)].hops, s[Len(s)].visited)))
<1>0. PICK S : s \in Seq(S)
  BY DEF WalkOK
<1>1. PICK n \in Nat : n = Len(s)
  BY <1>0
<1> DEFINE h == s[n].hops
<1> DEFINE f == HandleFrame(b, h, s[n].visited)
<1> DEFINE t == Append(s, f)
<1>2. t \in Seq(S \cup {f}) /\ Len(t) = n + 1 /\ t[n + 1] = f /\ \A i \in 1..n : t[i] = s[i]
  <2>1. s \in Seq(S \cup {f})
    BY <1>0
  <2> HIDE DEF f
  <2> QED
    BY <1>1, <2>1
<1>3. /\ n >= 1 /\ h \in Nat /\ h + n <= MaxHops + 1
      /\ n >= 2 => h >= 1 /\ s[n].base \in s[n].visited
      /\ \A j \in 2..(n - 1) : s[j].base \in s[n].visited
  <2>1. n \in 1..Len(s) /\ FrameOK(s, n)
    BY <1>1 DEF WalkOK
  <2> QED
    BY <1>1, <2>1 DEF FrameOK
<1>4. f.base = b /\ s[n].visited \subseteq f.visited /\ IsFrame(f)
  BY DEF HandleFrame, IsFrame, Frame
<1>5. \/ f.left = <<>> /\ f.hops = 0
      \/ h # 0 /\ f.hops = h - 1 /\ b \in f.visited /\ (f.left # <<>> => h > 1)
  BY DEF HandleFrame
<1>6. MaxHops \in Nat
  BY DiscoveryAssumption
<1>7. \A j \in 2..n : s[j].base \in s[n].visited
  <2> TAKE j \in 2..n
  <2>1. CASE j = n
    BY <1>3, <2>1
  <2>2. CASE j # n
    <3>1. j \in 2..(n - 1)
      BY <2>2
    <3> QED
      BY <1>3, <3>1
  <2> QED
    BY <2>1, <2>2
<1> HIDE DEF t, f, h
<1>8. Len(t) <= Depth
  <2>1. CASE n = 1
    BY <1>2, <1>6, <2>1 DEF Depth
  <2>2. CASE n # 1
    <3>1. n >= 2 /\ h >= 1
      BY <1>3, <2>2
    <3>2. n <= MaxHops
      BY <1>3, <1>6, <3>1
    <3> QED
      BY <1>2, <1>6, <3>1, <3>2 DEF Depth
  <2> QED
    BY <2>1, <2>2
<1>9. \A i, j \in 2..Len(t) : i < j => t[i].base # t[j].base
  <2> SUFFICES ASSUME NEW i \in 2..Len(t), NEW j \in 2..Len(t), i < j
               PROVE  t[i].base # t[j].base
    OBVIOUS
  <2>1. CASE j = n + 1
    <3>1. i \in 2..n
      BY <1>2, <2>1
    <3>2. s[i].base \in s[n].visited /\ t[i] = s[i]
      BY <1>2, <1>7, <3>1
    <3>3. t[j].base = b
      BY <1>2, <1>4, <2>1
    <3> QED
      BY <1>1, <3>2, <3>3
  <2>2. CASE j # n + 1
    <3>1. i \in 2..Len(s) /\ j \in 2..Len(s) /\ i \in 1..n /\ j \in 1..n
      BY <1>1, <1>2, <2>2
    <3> QED
      BY <1>2, <3>1 DEF WalkOK
  <2> QED
    BY <2>1, <2>2
<1>10. ASSUME NEW i \in 1..Len(t)
       PROVE  FrameOK(t, i)
  <2>1. CASE i = n + 1
    <3>1. t[i] = f /\ ~(i < Len(t))
      BY <1>2, <2>1
    <3>2. f.hops \in Nat
      BY <1>3, <1>5
    <3>3. f.left # <<>> => f.hops + i <= MaxHops + 1 /\ f.hops >= 1 /\ f.base \in f.visited
      BY <1>3, <1>4, <1>5, <1>6, <2>1
    <3>4. \A j \in 2..(i - 1) : t[j].base \in f.visited
      <4> TAKE j \in 2..(i - 1)
      <4>1. j \in 2..n /\ j \in 1..n
        BY <2>1
      <4> QED
        BY <1>2, <1>4, <1>7, <4>1
    <3> QED
      BY <1>4, <3>1, <3>2, <3>3, <3>4 DEF FrameOK
  <2>2. CASE i # n + 1
    <3>1. i \in 1..n /\ i \in 1..Len(s) /\ FrameOK(s, i)
      BY <1>1, <1>2, <2>2 DEF WalkOK
    <3>2. t[i] = s[i] /\ \A j \in 2..(i - 1) : t[j] = s[j]
      BY <1>2, <3>1
    <3>3. t[i].left # <<>>
      <4>1. CASE i = n
        BY <1>1, <3>2, <4>1
      <4>2. CASE i # n
        BY <1>1, <3>1, <3>2, <4>2 DEF FrameOK
      <4> QED
        BY <4>1, <4>2
    <3> QED
      BY <3>1, <3>2, <3>3 DEF FrameOK
  <2> QED
    BY <2>1, <2>2
<1>11. WalkOK(t)
  BY <1>2, <1>8, <1>9, <1>10 DEF WalkOK
<1> QED
  BY <1>1, <1>11 DEF t, f, h

DNext == StartDiscover \/ DiscoverNext \/ FetchNext

LEMMA NextPeer ==
  ASSUME NEW f, IsFrame(f)
  PROVE  LET g == [f EXCEPT !.left = Tail(@)]
         IN IsFrame(g) /\ g.base = f.base /\ g.hops = f.hops /\ g.visited = f.visited
<1>1. PICK b, h, v, l, r, fw : f = Frame(b, h, v, l, r, fw)
  BY DEF IsFrame
<1>2. PICK g : g = [f EXCEPT !.left = Tail(@)]
  OBVIOUS
<1>3. g = Frame(b, h, v, Tail(l), r, fw)
  BY <1>1, <1>2 DEF Frame
<1>4. g.base = f.base /\ g.hops = f.hops /\ g.visited = f.visited
  BY <1>1, <1>3 DEF Frame
<1>5. IsFrame(g)
  BY <1>3 DEF IsFrame
<1> QED
  BY <1>2, <1>4, <1>5

LEMMA NextAnswer ==
  ASSUME NEW f, IsFrame(f), NEW e
  PROVE  LET g == [f EXCEPT !.left = Tail(@), !.forwarded = @ \o e]
         IN IsFrame(g) /\ g.base = f.base /\ g.hops = f.hops /\ g.visited = f.visited
<1>1. PICK b, h, v, l, r, fw : f = Frame(b, h, v, l, r, fw)
  BY DEF IsFrame
<1>2. PICK g : g = [f EXCEPT !.left = Tail(@), !.forwarded = @ \o e]
  OBVIOUS
<1>3. g = Frame(b, h, v, Tail(l), r, fw \o e)
  BY <1>1, <1>2 DEF Frame
<1>4. g.base = f.base /\ g.hops = f.hops /\ g.visited = f.visited
  BY <1>1, <1>3 DEF Frame
<1>5. IsFrame(g)
  BY <1>3 DEF IsFrame
<1> QED
  BY <1>2, <1>4, <1>5

LEMMA WalkStarts == WalkOK(<<>>) /\ WalkOK(<<ClientFrame>>)
<1>0. MaxHops \in Nat /\ Depth \in Nat /\ Depth >= 1
  BY DiscoveryAssumption DEF Depth
<1>1. WalkOK(<<>>)
  <2>1. <<>> \in Seq({}) /\ Len(<<>>) = 0
    OBVIOUS
  <2> QED
    BY <1>0, <2>1 DEF WalkOK
<1>2. PICK f : f = ClientFrame
  OBVIOUS
<1>3. IsFrame(f) /\ f.hops = MaxHops
  BY <1>2 DEF ClientFrame, IsFrame, Frame
<1>4. WalkOK(<<f>>)
  <2>1. <<f>> \in Seq({f}) /\ Len(<<f>>) = 1 /\ <<f>>[1] = f
    OBVIOUS
  <2>2. FrameOK(<<f>>, 1)
    BY <1>0, <1>3, <2>1 DEF FrameOK
  <2>3. \A i \in 1..Len(<<f>>) : FrameOK(<<f>>, i)
    BY <2>1, <2>2
  <2> QED
    <3>1. \A i, j \in 2..Len(<<f>>) : i < j => <<f>>[i].base # <<f>>[j].base
      BY <2>1
    <3>2. Len(<<f>>) <= Depth
      BY <1>0, <2>1
    <3>3. PICK s : s = <<f>>
      OBVIOUS
    <3>4. s \in Seq({f}) /\ Len(s) <= Depth /\ \A i \in 1..Len(s) : FrameOK(s, i)
      BY <2>1, <2>3, <3>2, <3>3
    <3>5. \A i, j \in 2..Len(s) : i < j => s[i].base # s[j].base
      BY <3>1, <3>3
    <3>6. WalkOK(s)
      BY <3>4, <3>5 DEF WalkOK
    <3> QED
      BY <3>3, <3>6
<1> QED
  BY <1>1, <1>2, <1>4

(* One step of discovery keeps the walk's invariant.                       *)
LEMMA WalkStep == ASSUME WalkOK(stack), [DNext]_dvars PROVE WalkOK(stack)'
<1>0. PICK S : stack \in Seq(S)
  BY DEF WalkOK
<1>1. PICK s : s = stack
  OBVIOUS
<1>2. PICK n \in Nat : n = Len(s)
  BY <1>0, <1>1
<1>3. s \in Seq(S) /\ WalkOK(s)
  BY <1>0, <1>1
<1>4. stack # <<>> => n >= 1 /\ Top = s[n]
  BY <1>0, <1>1, <1>2, <1>3 DEF Top, Last
<1>5. \A i \in 1..n : FrameOK(s, i) /\ IsFrame(s[i])
  BY <1>2, <1>3 DEF WalkOK, FrameOK
<1>6. stack' = s => WalkOK(stack)'
  BY <1>3 DEF WalkOK, FrameOK
<1>7. SUFFICES ASSUME NEW t, t = stack' PROVE WalkOK(t)
  BY DEF WalkOK, FrameOK
<1>8. ASSUME stack # <<>>, Top.left # <<>>, t = WithTop([Top EXCEPT !.left = Tail(@)])
      PROVE  WalkOK(t)
  <2>1. n >= 1 /\ Top = s[n] /\ n <= Len(s) /\ s[n].left # <<>> /\ IsFrame(s[n])
    BY <1>2, <1>4, <1>5, <1>8
  <2>2. PICK f : f = [s[n] EXCEPT !.left = Tail(@)]
    OBVIOUS
  <2>3. IsFrame(f) /\ f.base = s[n].base /\ f.hops = s[n].hops /\ f.visited = s[n].visited
    BY <2>1, <2>2, NextPeer
  <2>4. t = Append(SubSeq(s, 1, n - 1), f)
    BY <1>1, <1>2, <1>8, <2>1, <2>2 DEF WithTop, Front
  <2>5. WalkOK(Append(SubSeq(s, 1, n - 1), f))
    BY <1>3, <2>1, <2>3, WalkAdvances
  <2> QED
    BY <2>4, <2>5
<1>9. CASE StartDiscover
  BY <1>7, <1>9, WalkStarts DEF StartDiscover
<1>10. CASE SkipVisited
  BY <1>7, <1>8, <1>10 DEF SkipVisited
<1>11. CASE AskFails
  BY <1>7, <1>8, <1>11 DEF AskFails
<1>12. CASE Ask
  <2>1. n >= 1 /\ Top = s[n] /\ s[n].left # <<>>
    BY <1>4, <1>12 DEF Ask
  <2>2. PICK b : b = Head(s[n].left)
    OBVIOUS
  <2>3. b \notin s[n].visited /\ t = Append(s, HandleFrame(b, s[n].hops, s[n].visited))
    BY <1>1, <1>7, <1>12, <2>1, <2>2 DEF Ask
  <2>4. WalkOK(Append(s, HandleFrame(b, s[n].hops, s[n].visited)))
    BY <1>2, <1>3, <2>1, <2>3, WalkAsks
  <2> QED
    BY <2>3, <2>4
<1>13. CASE Answer
  <2>1. PICK e : stack' = Append(SubSeq(stack, 1, Len(stack) - 2),
                                 [stack[Len(stack) - 1] EXCEPT !.left = Tail(@), !.forwarded = @ \o e])
    BY <1>13 DEF Answer
  <2>2. Len(stack) > 1
    BY <1>13 DEF Answer
  <2>3. PICK m \in Nat : m = n - 1
    BY <1>1, <1>2, <2>2
  <2>4. m >= 1 /\ m <= Len(s) /\ m < Len(s) /\ m \in 1..n
    BY <1>1, <1>2, <2>2, <2>3
  <2>5. s[m].left # <<>> /\ IsFrame(s[m])
    BY <1>5, <2>4 DEF FrameOK
  <2>6. PICK f : f = [s[m] EXCEPT !.left = Tail(@), !.forwarded = @ \o e]
    OBVIOUS
  <2>7. IsFrame(f) /\ f.base = s[m].base /\ f.hops = s[m].hops /\ f.visited = s[m].visited
    BY <2>5, <2>6, NextAnswer
  <2>8. Len(stack) - 1 = m /\ Len(stack) - 2 = m - 1
    BY <1>1, <1>2, <2>3
  <2>9. t = Append(SubSeq(s, 1, m - 1), f)
    BY <1>1, <1>7, <2>1, <2>6, <2>8
  <2>10. WalkOK(Append(SubSeq(s, 1, m - 1), f))
    BY <1>3, <2>4, <2>5, <2>7, WalkAdvances
  <2> QED
    BY <2>9, <2>10
<1>14. CASE Finish
  BY <1>7, <1>14, WalkStarts DEF Finish
<1>15. CASE FetchNext \/ UNCHANGED dvars
  <2>1. t = s
    BY <1>1, <1>7, <1>15
       DEF FetchNext, StartFetch, FetchAnswer, FetchFails, TimePasses, Negotiate, dvars
  <2> QED
    BY <1>3, <2>1
<1> QED
  BY <1>9, <1>10, <1>11, <1>12, <1>13, <1>14, <1>15 DEF DNext, DiscoverNext

(* PathsSimple for any peer graph and hop limit (handle_discover,          *)
(* forward_discover): every gateway enters itself among the visited before *)
(* it forwards and gives one hop less than it was given.                   *)
THEOREM RequestsTravelSimplePaths == DSpec => []PathsSimple
<1>1. DInit => WalkOK(stack)
  BY WalkStarts DEF DInit
<1>2. WalkOK(stack) /\ [DNext]_dvars => WalkOK(stack)'
  BY WalkStep
<1>3. WalkOK(stack) => PathsSimple
  BY DEF WalkOK, PathsSimple, Depth
<1> QED
  BY <1>1, <1>2, <1>3, PTL DEF DSpec, DNext

-----------------------------------------------------------------------------
(* Discovery: the results carried back.                                    *)

(* Results with the path they took: base, hops and trust are in the answer.*)
Answers == [base : Base, hops : Nat, trust : Nat, path : Seq(Base)]

(* Of two sequences joined, the elements are those of both.                *)
LEMMA ToSetConcat ==
  ASSUME NEW S, NEW q \in Seq(S), NEW r \in Seq(S)
  PROVE  \A y : y \in ToSet(q \o r) <=> y \in ToSet(q) \/ y \in ToSet(r)
<1> DEFINE c == q \o r
<1>1. PICK m \in Nat : m = Len(q) /\ DOMAIN q = 1..m
  OBVIOUS
<1>2. PICK n \in Nat : n = Len(r) /\ DOMAIN r = 1..n
  OBVIOUS
<1>3. DOMAIN c = 1..(m + n) /\ \A i \in 1..m : c[i] = q[i]
  BY <1>1, <1>2
<1>4. \A i \in 1..n : c[m + i] = r[i]
  BY <1>1, <1>2
<1> HIDE DEF c
<1>5. \A y : y \in ToSet(c) <=> \E i \in 1..(m + n) : y = c[i]
  BY <1>3 DEF ToSet
<1>6. /\ \A y : y \in ToSet(q) <=> \E i \in 1..m : y = q[i]
      /\ \A y : y \in ToSet(r) <=> \E i \in 1..n : y = r[i]
  BY <1>1, <1>2 DEF ToSet
<1>7. ASSUME NEW y, y \in ToSet(c) PROVE y \in ToSet(q) \/ y \in ToSet(r)
  <2>1. PICK i \in 1..(m + n) : y = c[i]
    BY <1>5, <1>7
  <2>2. CASE i <= m
    <3>1. i \in 1..m
      BY <2>2
    <3> QED
      BY <1>3, <1>6, <2>1, <3>1
  <2>3. CASE ~(i <= m)
    <3>1. i - m \in 1..n /\ m + (i - m) = i
      BY <2>3
    <3>2. c[i] = r[i - m]
      BY <1>4, <3>1
    <3> QED
      BY <1>6, <2>1, <3>1, <3>2
  <2> QED
    BY <2>2, <2>3
<1>8. ASSUME NEW y, y \in ToSet(q) PROVE y \in ToSet(c)
  <2>1. PICK i \in 1..m : y = q[i]
    BY <1>6, <1>8
  <2>2. i \in 1..(m + n)
    OBVIOUS
  <2> QED
    BY <1>3, <1>5, <2>1, <2>2
<1>9. ASSUME NEW y, y \in ToSet(r) PROVE y \in ToSet(c)
  <2>1. PICK i \in 1..n : y = r[i]
    BY <1>6, <1>9
  <2>2. m + i \in 1..(m + n)
    OBVIOUS
  <2> QED
    BY <1>4, <1>5, <2>1, <2>2
<1>10. \A y : y \in ToSet(c) <=> y \in ToSet(q) \/ y \in ToSet(r)
  BY <1>7, <1>8, <1>9
<1> QED
  BY <1>10 DEF c

(* Insertion adds one result to those sorted so far.                       *)
LEMMA InsertElems ==
  ASSUME NEW q \in Seq(Answers), NEW r \in Answers
  PROVE  /\ Insert(q, r) \in Seq(Answers)
         /\ \A y : y \in ToSet(Insert(q, r)) => y \in ToSet(q) \/ y = r
<1> DEFINE a == Keep(q, {x \in ToSet(q) : x.trust >= r.trust})
           b == Keep(q, {x \in ToSet(q) : x.trust < r.trust})
<1>1. a \in Seq(Answers) /\ \A y : y \in ToSet(a) => y \in ToSet(q)
  <2> DEFINE T == {x \in ToSet(q) : x.trust >= r.trust}
  <2> HIDE DEF T
  <2>1. Keep(q, T) \in Seq(Answers) /\ \A y : y \in ToSet(Keep(q, T)) => y \in ToSet(q)
    BY KeepElems
  <2> QED
    BY <2>1 DEF T
<1>2. b \in Seq(Answers) /\ \A y : y \in ToSet(b) => y \in ToSet(q)
  <2> DEFINE T == {x \in ToSet(q) : x.trust < r.trust}
  <2> HIDE DEF T
  <2>1. Keep(q, T) \in Seq(Answers) /\ \A y : y \in ToSet(Keep(q, T)) => y \in ToSet(q)
    BY KeepElems
  <2> QED
    BY <2>1 DEF T
<1>3. Insert(q, r) = (a \o <<r>>) \o b
  BY DEF Insert
<1> HIDE DEF a, b
<1>4. <<r>> \in Seq(Answers) /\ \A y : y \in ToSet(<<r>>) => y = r
  <2>1. <<r>> \in Seq(Answers) /\ DOMAIN <<r>> = 1..1 /\ <<r>>[1] = r
    OBVIOUS
  <2>2. \A i \in 1..1 : i = 1
    OBVIOUS
  <2> QED
    BY <2>1, <2>2 DEF ToSet
<1>5. PICK e : e = <<r>>
  OBVIOUS
<1>6. e \in Seq(Answers) /\ \A y : y \in ToSet(e) => y = r
  BY <1>4, <1>5
<1>7. PICK d : d = a \o e
  OBVIOUS
<1>8. d \in Seq(Answers) /\ \A y : y \in ToSet(d) <=> y \in ToSet(a) \/ y \in ToSet(e)
  <2>1. a \o e \in Seq(Answers)
    BY <1>1, <1>6
  <2> QED
    BY <1>1, <1>6, <1>7, <2>1, ToSetConcat
<1>9. d \o b \in Seq(Answers) /\ \A y : y \in ToSet(d \o b) <=> y \in ToSet(d) \/ y \in ToSet(b)
  <2>1. d \o b \in Seq(Answers)
    BY <1>2, <1>8
  <2> QED
    BY <1>2, <1>8, <2>1, ToSetConcat
<1>10. Insert(q, r) = d \o b
  BY <1>3, <1>5, <1>7
<1> QED
  BY <1>1, <1>2, <1>6, <1>8, <1>9, <1>10

(* The sort takes the results one after the other.                         *)
LEMMA SortChain ==
  ASSUME NEW w \in Seq(Answers)
  PROVE  \E g : /\ g[0] = << >> /\ g[Len(w)] = FoldLeft(Insert, << >>, w)
                /\ \A k \in 1..Len(w) : g[k] = Insert(g[k - 1], w[k])
<1> DEFINE n == Len(w)
           A == Seq(Answers)
           u == << >>
           G == [i \in 1..n |-> [q \in A |-> Insert(q, w[i])]]
           Is(f) == f = [s \in SUBSET DOMAIN w |->
                           IF s = {} THEN u ELSE Insert(f[s \ {Max(s)}], w[Max(s)])]
<1>1. n \in Nat /\ DOMAIN w = 1..n /\ \A i \in 1..n : w[i] \in Answers
  OBVIOUS
<1>0. u \in A
  OBVIOUS
<1>2. FoldLeft(Insert, u, w) = (CHOOSE f : Is(f))[DOMAIN w]
  BY DEF FoldLeft, MapThenFoldSet
<1>3. \A i \in 1..n, q \in A : Insert(q, w[i]) \in A
  BY <1>1, InsertElems
<1> HIDE DEF n, A, u
<1>4. G \in [1..n -> [A -> A]]
  BY <1>3
<1>5. \A i \in 1..n, q \in A : G[i][q] = Insert(q, w[i])
  OBVIOUS
<1> HIDE DEF G
<1>6. PICK f \in [SUBSET (1..n) -> A] : Table(f, n, u, G)
  <2>1. \E f \in [SUBSET (1..n) -> A] : Table(f, n, u, G)
    BY <1>0, <1>1, <1>4, TableExists
  <2> QED
    BY <2>1
<1>7. ASSUME NEW s \in SUBSET (1..n)
      PROVE  f[s] = IF s = {} THEN u ELSE Insert(f[s \ {Max(s)}], w[Max(s)])
  <2>1. f[s] = IF s = {} THEN u ELSE G[Max(s)][f[s \ {Max(s)}]]
    BY <1>6 DEF Table
  <2>2. CASE s # {}
    <3>1. Max(s) \in s
      BY <1>1, <2>2, MaxOfSome
    <3>2. Max(s) \in 1..n /\ f[s \ {Max(s)}] \in A
      BY <1>6, <3>1
    <3> QED
      BY <1>5, <2>1, <2>2, <3>2
  <2> QED
    BY <2>1, <2>2
<1>8. Is(f)
  BY <1>1, <1>6, <1>7
<1> DEFINE c == CHOOSE g : Is(g)
<1>9. Is(c)
  BY <1>8
<1>10. FoldLeft(Insert, u, w) = c[1..n]
  BY <1>1, <1>2
<1> HIDE DEF c
<1>11. c[{}] = u
  BY <1>9
<1>12. PICK g : Reads(g, c, n)
  BY <1>1, Initials, Zenon
<1>13. \A s \in SUBSET (1..n) : s # {} => c[s] = Insert(c[s \ {Max(s)}], w[Max(s)])
  BY <1>1, <1>9
<1>14. ASSUME NEW k \in 1..n PROVE g[k] = Insert(g[k - 1], w[k])
  <2>1. /\ g[k] = c[1..k] /\ g[k - 1] = c[(1..k) \ {k}]
        /\ 1..k \in SUBSET (1..n) /\ 1..k # {} /\ Max(1..k) = k
    BY <1>12, Zenon DEF Reads
  <2>2. c[1..k] = Insert(c[(1..k) \ {Max(1..k)}], w[Max(1..k)])
    BY <1>13, <2>1, Zenon
  <2> QED
    BY <2>1, <2>2, Zenon
<1>15. g[0] = c[{}] /\ g[n] = c[1..n]
  BY <1>12, Zenon DEF Reads
<1> QED
  BY <1>10, <1>11, <1>14, <1>15 DEF n, u

(* Sorting brings nothing in.                                              *)
LEMMA SortElems ==
  ASSUME NEW w \in Seq(Answers)
  PROVE  /\ FoldLeft(Insert, << >>, w) \in Seq(Answers)
         /\ \A y : y \in ToSet(FoldLeft(Insert, << >>, w)) => y \in ToSet(w)
<1>1. PICK n \in Nat : n = Len(w) /\ DOMAIN w = 1..n /\ \A i \in 1..n : w[i] \in Answers
  OBVIOUS
<1>a. PICK g : /\ g[0] = << >> /\ g[Len(w)] = FoldLeft(Insert, << >>, w)
               /\ \A k \in 1..Len(w) : g[k] = Insert(g[k - 1], w[k])
  BY SortChain, Zenon
<1>2. /\ g[0] = << >> /\ g[n] = FoldLeft(Insert, << >>, w)
      /\ \A k \in 1..n : g[k] = Insert(g[k - 1], w[k])
  BY <1>1, <1>a, Zenon
<1>0. \A y : y \in ToSet(w) <=> \E i \in 1..n : y = w[i]
  BY <1>1 DEF ToSet
<1> DEFINE Of(k) == g[k] \in Seq(Answers) /\ \A y : y \in ToSet(g[k]) => y \in ToSet(w)
           C == {k \in 0..n : Of(k)}
<1>3. Of(0)
  BY <1>2 DEF ToSet
<1>4. ASSUME NEW k \in 1..n, Of(k - 1) PROVE Of(k)
  <2>1. w[k] \in Answers /\ w[k] \in ToSet(w) /\ g[k] = Insert(g[k - 1], w[k])
    BY <1>0, <1>1, <1>2
  <2>2. /\ Insert(g[k - 1], w[k]) \in Seq(Answers)
        /\ \A y : y \in ToSet(Insert(g[k - 1], w[k])) => y \in ToSet(g[k - 1]) \/ y = w[k]
    BY <1>4, <2>1, InsertElems
  <2> QED
    BY <1>4, <2>1, <2>2
<1> HIDE DEF Of
<1>5. \A k \in 0..n : k \in C
  <2>1. 0 \in C
    BY <1>3
  <2>2. \A k \in 1..n : k - 1 \in C => k \in C
    BY <1>4
  <2> HIDE DEF C
  <2> QED
    BY <2>1, <2>2, Climb
<1>6. Of(n)
  BY <1>5
<1> QED
  BY <1>2, <1>6 DEF Of

(* What is left after sorting and dropping duplicates was there before.    *)
LEMMA SortDedupElems ==
  ASSUME NEW w \in Seq(Answers)
  PROVE  /\ SortDedup(w) \in Seq(Answers)
         /\ \A y : y \in ToSet(SortDedup(w)) => y \in ToSet(w)
<1> DEFINE z == FoldLeft(Insert, << >>, w)
<1>1. z \in Seq(Answers) /\ \A y : y \in ToSet(z) => y \in ToSet(w)
  BY SortElems
<1>2. PICK S : S = {i \in DOMAIN z : i > 1 => ~SameResult(z[i - 1], z[i])}
  OBVIOUS
<1> DEFINE e == [i \in DOMAIN z |-> i]
           x == Keep(e, S)
<1>3. SortDedup(w) = [k \in DOMAIN x |-> z[x[k]]]
  BY <1>2 DEF SortDedup
<1> HIDE DEF z
<1>4. PICK n \in Nat : DOMAIN z = 1..n /\ \A i \in 1..n : z[i] \in Answers
  BY <1>1
<1>5. e \in Seq(1..n) /\ \A i : i \in ToSet(e) => i \in 1..n
  <2>1. e \in [1..n -> 1..n]
    BY <1>4
  <2>2. e \in Seq(1..n)
    BY <2>1, n \in Nat
  <2> QED
    BY <2>1, <2>2 DEF ToSet
<1> HIDE DEF e
<1>6. x \in Seq(1..n)
  BY <1>5, KeepElems
<1> HIDE DEF x
<1>7. PICK m \in Nat : DOMAIN x = 1..m /\ \A k \in 1..m : x[k] \in 1..n
  BY <1>6
<1> DEFINE d == [k \in 1..m |-> z[x[k]]]
<1>8. \A k \in 1..m : d[k] \in Answers /\ d[k] \in ToSet(z)
  BY <1>4, <1>7 DEF ToSet
<1>9. d \in Seq(Answers)
  <2>1. d \in [1..m -> Answers]
    BY <1>8
  <2> HIDE DEF d
  <2> QED
    BY <2>1
<1>10. \A y : y \in ToSet(d) => y \in ToSet(w)
  <2>1. DOMAIN d = 1..m
    OBVIOUS
  <2> HIDE DEF d
  <2> QED
    BY <1>1, <1>8, <2>1 DEF ToSet
<1>11. SortDedup(w) = d
  BY <1>3, <1>7
<1> QED
  BY <1>9, <1>10, <1>11

(* The trust of the links a path crosses.                                  *)
LinkTrusts(p) == {Trust[p[i]][p[i + 1]] : i \in 1..(Len(p) - 1)}
Least(m, S) == m \in S /\ \A x \in S : m <= x

(* A result that base b answers with, or passes on, says how it came there.*)
Exact(r, b) ==
    /\ r \in Answers
    /\ Len(r.path) >= 1 /\ r.path[1] = b
    /\ r.hops = Len(r.path) - 1
    /\ Least(r.trust, {LocalTrust[r.base]} \cup LinkTrusts(r.path))
    /\ r.trust >= MinTrust

(* A call under way holds only such results: a gateway those of itself,    *)
(* the client those of the peers it asked.                                 *)
TrustFrame(f, i) ==
    /\ f.base \in Base /\ f.left \in Seq(Base)
    /\ f.results \in Seq(Answers) /\ f.forwarded \in Seq(Answers)
    /\ i > 1 => \A r : r \in ToSet(f.results) \/ r \in ToSet(f.forwarded) => Exact(r, f.base)
    /\ \A r \in ToSet(f.forwarded) : \E b : Exact(r, b)

TrustOK(s) == \A i \in 1..Len(s) : TrustFrame(s[i], i)

(* Trust is a number, and the peers of a base are bases.                   *)
LEMMA TrustTypes ==
  /\ MinTrust \in Nat
  /\ \A b \in Base : LocalTrust[b] \in Nat /\ Peers[b] \in Seq(Base)
  /\ \A a, b \in Base : Trust[a][b] \in Nat
BY DiscoveryAssumption

(* No answers, and a single one.                                           *)
LEMMA NoElements == << >> \in Seq(Answers) /\ \A r : r \notin ToSet(<< >>)
BY DEF ToSet

LEMMA OneElement ==
  ASSUME NEW S, NEW x \in S
  PROVE  <<x>> \in Seq(S) /\ \A y : y \in ToSet(<<x>>) <=> y = x
<1>1. <<x>> \in Seq(S) /\ DOMAIN <<x>> = 1..1 /\ <<x>>[1] = x
  OBVIOUS
<1>2. \A i : i \in 1..1 <=> i = 1
  OBVIOUS
<1> QED
  BY <1>1, <1>2 DEF ToSet

(* A base's own match has come over no link.                               *)
LEMMA LocalExact ==
  ASSUME NEW b \in Base
  PROVE  /\ LocalResults(b) \in Seq(Answers)
         /\ \A r : r \in ToSet(LocalResults(b)) => Exact(r, b)
<1>1. CASE LocalTrust[b] >= MinTrust
  <2>1. PICK p : p = <<b>>
    OBVIOUS
  <2>2. p \in Seq(Base) /\ Len(p) = 1 /\ p[1] = b
    BY <2>1
  <2>3. PICK x : x = [base |-> b, hops |-> 0, trust |-> LocalTrust[b], path |-> p]
    OBVIOUS
  <2>4. LocalResults(b) = <<x>>
    BY <1>1, <2>1, <2>3 DEF LocalResults
  <2>5. x.base = b /\ x.hops = 0 /\ x.trust = LocalTrust[b] /\ x.path = p /\ x \in Answers
    BY <2>2, <2>3, TrustTypes DEF Answers
  <2>6. LinkTrusts(p) = {}
    <3>1. \A i : i \notin 1..(Len(p) - 1)
      BY <2>2
    <3> QED
      BY <3>1 DEF LinkTrusts
  <2>7. Least(x.trust, {LocalTrust[x.base]} \cup LinkTrusts(x.path))
    <3>1. \A y : y \in {LocalTrust[x.base]} \cup LinkTrusts(x.path) <=> y = LocalTrust[b]
      BY <2>5, <2>6
    <3>2. LocalTrust[b] \in Nat
      BY TrustTypes
    <3> QED
      BY <2>5, <3>1, <3>2 DEF Least
  <2>8. Exact(x, b)
    <3>0. Len(x.path) = 1 /\ x.path[1] = b
      BY <2>2, <2>5, Zenon
    <3>1. Len(x.path) >= 1 /\ x.path[1] = b /\ x.hops = Len(x.path) - 1
      BY <2>5, <3>0
    <3>2. x.trust >= MinTrust
      BY <1>1, <2>5
    <3> QED
      BY <2>5, <2>7, <3>1, <3>2, Zenon DEF Exact
  <2> QED
    BY <2>4, <2>5, <2>8, OneElement
<1>2. CASE ~(LocalTrust[b] >= MinTrust)
  <2>1. LocalResults(b) = << >>
    BY <1>2 DEF LocalResults
  <2> QED
    BY <2>1, NoElements
<1> QED
  BY <1>1, <1>2

(* One more link at the front of a path.                                   *)
LEMMA LinkOnTop ==
  ASSUME NEW a \in Base, NEW p \in Seq(Base), Len(p) >= 1
  PROVE  /\ <<a>> \o p \in Seq(Base) /\ Len(<<a>> \o p) = Len(p) + 1 /\ (<<a>> \o p)[1] = a
         /\ \A y : y \in LinkTrusts(<<a>> \o p) <=> y = Trust[a][p[1]] \/ y \in LinkTrusts(p)
<1>1. PICK n \in Nat : n = Len(p) /\ n >= 1
  OBVIOUS
<1> DEFINE q == <<a>> \o p
<1>2. q \in Seq(Base) /\ Len(q) = n + 1 /\ q[1] = a
  BY <1>1
<1>3. \A i \in 1..n : q[i + 1] = p[i]
  BY <1>1
<1> HIDE DEF q
<1>4. \A y : y \in LinkTrusts(q) <=> \E i \in 1..n : y = Trust[q[i]][q[i + 1]]
  <2>1. Len(q) - 1 = n
    BY <1>1, <1>2
  <2> QED
    BY <2>1 DEF LinkTrusts
<1>5. \A y : y \in LinkTrusts(p) <=> \E i \in 1..(n - 1) : y = Trust[p[i]][p[i + 1]]
  BY <1>1 DEF LinkTrusts
<1>6. q[1] = a /\ q[1 + 1] = p[1] /\ 1 \in 1..n
  BY <1>1, <1>2, <1>3
<1>7. ASSUME NEW y, y \in LinkTrusts(q) PROVE y = Trust[a][p[1]] \/ y \in LinkTrusts(p)
  <2>1. PICK i \in 1..n : y = Trust[q[i]][q[i + 1]]
    BY <1>4, <1>7
  <2>2. CASE i = 1
    BY <1>6, <2>1, <2>2
  <2>3. CASE i # 1
    <3>1. PICK j \in 1..(n - 1) : j + 1 = i
      <4>1. i - 1 \in 1..(n - 1) /\ (i - 1) + 1 = i
        BY <2>3
      <4> QED
        BY <4>1
    <3>2. j \in 1..n /\ j + 1 \in 1..n
      BY <1>1
    <3>3. q[i] = p[j] /\ q[i + 1] = p[j + 1]
      BY <1>3, <3>1, <3>2
    <3> QED
      BY <1>5, <2>1, <3>3
  <2> QED
    BY <2>2, <2>3
<1>8. ASSUME NEW y, y \in LinkTrusts(p) PROVE y \in LinkTrusts(q)
  <2>1. PICK j \in 1..(n - 1) : y = Trust[p[j]][p[j + 1]]
    BY <1>5, <1>8
  <2>2. j \in 1..n /\ j + 1 \in 1..n
    BY <1>1
  <2>3. q[j + 1] = p[j] /\ q[(j + 1) + 1] = p[j + 1]
    BY <1>3, <2>2
  <2> QED
    BY <1>4, <2>1, <2>2, <2>3
<1>9. Trust[a][p[1]] \in LinkTrusts(q)
  BY <1>4, <1>6
<1>10. /\ q \in Seq(Base) /\ Len(q) = Len(p) + 1 /\ q[1] = a
       /\ \A y : y \in LinkTrusts(q) <=> y = Trust[a][p[1]] \/ y \in LinkTrusts(p)
  BY <1>1, <1>2, <1>7, <1>8, <1>9
<1> QED
  BY <1>10 DEF q

(* The links of a path carry numbers.                                      *)
LEMMA LinkTrustTypes ==
  ASSUME NEW p \in Seq(Base)
  PROVE  \A y \in LinkTrusts(p) : y \in Nat
<1>1. PICK n \in Nat : n = Len(p) /\ \A i \in 1..n : p[i] \in Base
  OBVIOUS
<1>2. ASSUME NEW i \in 1..(n - 1) PROVE Trust[p[i]][p[i + 1]] \in Nat
  <2>1. i \in 1..n /\ i + 1 \in 1..n
    OBVIOUS
  <2> QED
    BY <1>1, <2>1, TrustTypes
<1> QED
  BY <1>1, <1>2 DEF LinkTrusts

(* Crossing one more link keeps a result exact, or drops it.               *)
LEMMA ThroughExact ==
  ASSUME NEW a \in Base, NEW b \in Base, NEW r, Exact(r, b)
  PROVE  /\ Through(a, b, r) \in Answers
         /\ Through(a, b, r).trust >= MinTrust => Exact(Through(a, b, r), a)
<1>1. PICK c \in Base, h \in Nat, t \in Nat, p \in Seq(Base) :
        r = [base |-> c, hops |-> h, trust |-> t, path |-> p]
  <2>1. r \in Answers
    BY DEF Exact
  <2> QED
    BY <2>1 DEF Answers
<1>2. r.base = c /\ r.hops = h /\ r.trust = t /\ r.path = p
  BY <1>1
<1>3. /\ Len(p) \in Nat /\ Len(p) >= 1 /\ p[1] = b /\ h = Len(p) - 1
      /\ Least(t, {LocalTrust[c]} \cup LinkTrusts(p))
  BY <1>2 DEF Exact
<1>4. PICK u \in Nat : u = Trust[a][b]
  BY TrustTypes
<1>5. PICK m \in Nat : m = (IF t <= u THEN t ELSE u)
  OBVIOUS
<1>6. Min({t, u}) = m
  <2>1. m \in {t, u} /\ \A y \in {t, u} : m <= y
    BY <1>5
  <2>2. \A x \in {t, u} : (\A y \in {t, u} : x <= y) => x = m
    BY <1>5
  <2> QED
    BY <2>1, <2>2 DEF Min
<1>7. PICK q : q = <<a>> \o p
  OBVIOUS
<1>8. /\ q \in Seq(Base) /\ Len(q) = Len(p) + 1 /\ q[1] = a
      /\ \A y : y \in LinkTrusts(q) <=> y = u \/ y \in LinkTrusts(p)
  BY <1>3, <1>4, <1>7, LinkOnTop
<1>9. Through(a, b, r) = [base |-> c, hops |-> h + 1, trust |-> m, path |-> q]
  <2>1. Through(a, b, r) = [r EXCEPT !.hops = r.hops + 1, !.trust = Min({r.trust, Trust[a][b]}),
                                     !.path = <<a>> \o r.path]
    BY DEF Through
  <2>2. Through(a, b, r) = [r EXCEPT !.hops = h + 1, !.trust = m, !.path = q]
    BY <1>2, <1>4, <1>6, <1>7, <2>1, Zenon
  <2> QED
    BY <1>1, <2>2
<1>10. PICK x : x = [base |-> c, hops |-> h + 1, trust |-> m, path |-> q]
  OBVIOUS
<1>11. x.base = c /\ x.hops = h + 1 /\ x.trust = m /\ x.path = q /\ x \in Answers
  BY <1>8, <1>10 DEF Answers
<1>12. Least(m, {LocalTrust[c]} \cup LinkTrusts(q))
  <2> DEFINE S == {LocalTrust[c]} \cup LinkTrusts(p)
             T == {LocalTrust[c]} \cup LinkTrusts(q)
  <2>1. t \in S /\ \A y \in S : t <= y
    BY <1>3 DEF Least
  <2>2. \A y : y \in T <=> y = u \/ y \in S
    BY <1>8
  <2>3. \A y \in S : y \in Nat
    BY LinkTrustTypes, TrustTypes
  <2> HIDE DEF S, T
  <2>4. m \in T
    BY <1>5, <2>1, <2>2
  <2>5. \A y \in T : m <= y
    <3> TAKE y \in T
    <3>1. m <= t /\ m <= u
      BY <1>5
    <3>2. CASE y = u
      BY <3>1, <3>2
    <3>3. CASE y \in S
      <4>1. t <= y /\ y \in Nat
        BY <2>1, <2>3, <3>3
      <4> QED
        BY <3>1, <4>1
    <3> QED
      BY <2>2, <3>2, <3>3
  <2> QED
    BY <2>4, <2>5 DEF Least, T
<1>13. Len(x.path) >= 1 /\ x.path[1] = a /\ x.hops = Len(x.path) - 1
  BY <1>3, <1>8, <1>11
<1>14. x.trust >= MinTrust => Exact(x, a)
  BY <1>11, <1>12, <1>13 DEF Exact
<1> QED
  BY <1>9, <1>10, <1>11, <1>14

(* The walk goes on with a new frame n in the place of those from n on.    *)
LEMMA TrustAdvances ==
  ASSUME NEW s, WalkOK(s), TrustOK(s), NEW n \in Nat, n >= 1, n <= Len(s),
         NEW f, TrustFrame(f, n)
  PROVE  TrustOK(Append(SubSeq(s, 1, n - 1), f))
<1>0. PICK S : s \in Seq(S)
  BY DEF WalkOK
<1> DEFINE t == Append(SubSeq(s, 1, n - 1), f)
<1>1. /\ Len(t) = n /\ t[n] = f
      /\ \A i \in 1..(n - 1) : t[i] = s[i]
  <2>1. Len(s) \in Nat /\ n - 1 \in 0..Len(s)
    BY <1>0
  <2>2. SubSeq(s, 1, n - 1) \in Seq(S) /\ Len(SubSeq(s, 1, n - 1)) = n - 1
    BY <1>0, <2>1
  <2>3. \A i \in 1..(n - 1) : SubSeq(s, 1, n - 1)[i] = s[i]
    BY <1>0, <2>1
  <2> HIDE DEF t
  <2> QED
    BY <2>2, <2>3 DEF t
<1> HIDE DEF t
<1>2. ASSUME NEW i \in 1..Len(t) PROVE TrustFrame(t[i], i)
  <2>1. CASE i = n
    BY <1>1, <2>1
  <2>2. CASE i # n
    <3>1. i \in 1..(n - 1) /\ i \in 1..Len(s)
      BY <1>0, <1>1, <2>2
    <3> QED
      BY <1>1, <3>1 DEF TrustOK
  <2> QED
    BY <2>1, <2>2
<1>3. TrustOK(t)
  BY <1>2 DEF TrustOK
<1> QED
  BY <1>3 DEF t

(* One peer is asked, the others are left.                                 *)
LEMMA TailIsShorter ==
  ASSUME NEW l \in Seq(Base), l # << >>
  PROVE  Tail(l) \in Seq(Base) /\ Head(l) \in Base
OBVIOUS

(* A peer passed over, or one that fails, changes no result.               *)
LEMMA TrustNextPeer ==
  ASSUME NEW f, IsFrame(f), NEW i, TrustFrame(f, i), f.left # << >>
  PROVE  TrustFrame([f EXCEPT !.left = Tail(@)], i)
<1>1. PICK b, h, v, l, r, fw : f = Frame(b, h, v, l, r, fw)
  BY DEF IsFrame
<1>2. f.base = b /\ f.left = l /\ f.results = r /\ f.forwarded = fw
  BY <1>1 DEF Frame
<1>3. PICK g : g = [f EXCEPT !.left = Tail(@)]
  OBVIOUS
<1>4. g.base = b /\ g.left = Tail(l) /\ g.results = r /\ g.forwarded = fw
  BY <1>1, <1>3 DEF Frame
<1>5. Tail(l) \in Seq(Base)
  BY <1>2, TailIsShorter DEF TrustFrame
<1>6. TrustFrame(g, i)
  BY <1>2, <1>4, <1>5, Zenon DEF TrustFrame
<1> QED
  BY <1>3, <1>6

(* What a gateway answers with.                                            *)
LEMMA AnswerExact ==
  ASSUME NEW f, NEW i, TrustFrame(f, i)
  PROVE  LET a == f.results \o SortDedup(f.forwarded)
         IN /\ a \in Seq(Answers)
            /\ i > 1 => \A r : r \in ToSet(a) => Exact(r, f.base)
<1>1. f.results \in Seq(Answers) /\ f.forwarded \in Seq(Answers)
  BY DEF TrustFrame
<1>2. PICK d : d = SortDedup(f.forwarded)
  OBVIOUS
<1>3. d \in Seq(Answers) /\ \A y : y \in ToSet(d) => y \in ToSet(f.forwarded)
  BY <1>1, <1>2, SortDedupElems
<1>4. PICK a : a = f.results \o d
  OBVIOUS
<1>5. a \in Seq(Answers) /\ \A y : y \in ToSet(a) <=> y \in ToSet(f.results) \/ y \in ToSet(d)
  BY <1>1, <1>3, <1>4, ToSetConcat
<1>6. i > 1 => \A r : r \in ToSet(a) => Exact(r, f.base)
  BY <1>3, <1>5 DEF TrustFrame
<1> QED
  BY <1>2, <1>4, <1>5, <1>6

(* What its caller, a gateway too, takes of it.                            *)
LEMMA PassedExact ==
  ASSUME NEW a \in Base, NEW b \in Base, NEW w \in Seq(Answers),
         \A r : r \in ToSet(w) => Exact(r, b)
  PROVE  LET carried == [i \in DOMAIN w |-> Through(a, b, w[i])]
             passed == Keep(carried, {r \in ToSet(carried) : r.trust >= MinTrust})
         IN /\ passed \in Seq(Answers)
            /\ \A r : r \in ToSet(passed) => Exact(r, a)
<1>1. PICK n \in Nat : n = Len(w) /\ DOMAIN w = 1..n
  OBVIOUS
<1>2. PICK c : c = [i \in DOMAIN w |-> Through(a, b, w[i])]
  OBVIOUS
<1>3. \A i \in 1..n : w[i] \in ToSet(w)
  BY <1>1 DEF ToSet
<1>4. ASSUME NEW i \in 1..n
      PROVE  /\ c[i] \in Answers
             /\ c[i].trust >= MinTrust => Exact(c[i], a)
  <2>1. Exact(w[i], b)
    BY <1>3
  <2>2. c[i] = Through(a, b, w[i])
    BY <1>1, <1>2
  <2> QED
    BY <2>1, <2>2, ThroughExact
<1>5. c \in Seq(Answers) /\ \A y : y \in ToSet(c) <=> \E i \in 1..n : y = c[i]
  <2>1. DOMAIN c = 1..n /\ c = [i \in 1..n |-> c[i]]
    BY <1>1, <1>2
  <2>2. c \in [1..n -> Answers]
    BY <1>4, <2>1
  <2>3. c \in Seq(Answers)
    BY <2>2
  <2> QED
    BY <2>1, <2>3 DEF ToSet
<1>6. PICK T : T = {r \in ToSet(c) : r.trust >= MinTrust}
  OBVIOUS
<1>7. PICK d : d = Keep(c, T)
  OBVIOUS
<1>8. d \in Seq(Answers) /\ \A y : y \in ToSet(d) <=> y \in T /\ y \in ToSet(c)
  BY <1>5, <1>7, KeepElems
<1>9. \A r : r \in ToSet(d) => Exact(r, a)
  BY <1>4, <1>5, <1>6, <1>8
<1> QED
  BY <1>2, <1>6, <1>7, <1>8, <1>9

(* A caller takes exact results for the peer it asked.                     *)
LEMMA TrustNextAnswer ==
  ASSUME NEW f, IsFrame(f), NEW i, TrustFrame(f, i), f.left # << >>,
         NEW e \in Seq(Answers), i > 1 => \A r : r \in ToSet(e) => Exact(r, f.base),
         \A r \in ToSet(e) : \E b : Exact(r, b)
  PROVE  TrustFrame([f EXCEPT !.left = Tail(@), !.forwarded = @ \o e], i)
<1>1. PICK b, h, v, l, r, fw : f = Frame(b, h, v, l, r, fw)
  BY DEF IsFrame
<1>2. f.base = b /\ f.left = l /\ f.results = r /\ f.forwarded = fw
  BY <1>1 DEF Frame
<1>3. PICK g : g = [f EXCEPT !.left = Tail(@), !.forwarded = @ \o e]
  OBVIOUS
<1>4. g.base = b /\ g.left = Tail(l) /\ g.results = r /\ g.forwarded = fw \o e
  BY <1>1, <1>3 DEF Frame
<1>5. Tail(l) \in Seq(Base)
  BY <1>2, TailIsShorter DEF TrustFrame
<1>6. fw \in Seq(Answers) /\ r \in Seq(Answers)
  BY <1>2 DEF TrustFrame
<1>7. fw \o e \in Seq(Answers) /\ \A y : y \in ToSet(fw \o e) <=> y \in ToSet(fw) \/ y \in ToSet(e)
  <2>1. fw \o e \in Seq(Answers)
    BY <1>6
  <2> QED
    BY <1>6, <2>1, ToSetConcat
<1>8. PICK d : d = fw \o e
  OBVIOUS
<1>9. i > 1 => \A x : x \in ToSet(r) \/ x \in ToSet(d) => Exact(x, b)
  BY <1>2, <1>7, <1>8 DEF TrustFrame
<1>10. \A x \in ToSet(d) : \E y : Exact(x, y)
  BY <1>2, <1>7, <1>8 DEF TrustFrame
<1>11. TrustFrame(g, i)
  BY <1>2, <1>4, <1>5, <1>6, <1>7, <1>8, <1>9, <1>10 DEF TrustFrame
<1> QED
  BY <1>3, <1>11

(* A call begins with the results of its own base.                         *)
LEMMA TrustAsks ==
  ASSUME NEW b \in Base, NEW h, NEW v, NEW i
  PROVE  TrustFrame(HandleFrame(b, h, v), i)
<1>1. PICK f : f = HandleFrame(b, h, v)
  OBVIOUS
<1>2. << >> \in Seq(Base) /\ Peers[b] \in Seq(Base)
  BY TrustTypes
<1>3. /\ f.base = b /\ (f.left = << >> \/ f.left = Peers[b])
      /\ (f.results = << >> \/ f.results = LocalResults(b)) /\ f.forwarded = << >>
  BY <1>1 DEF HandleFrame
<1>4. f.results \in Seq(Answers) /\ \A r : r \in ToSet(f.results) => Exact(r, b)
  BY <1>3, LocalExact, NoElements
<1>5. f.forwarded \in Seq(Answers) /\ \A r : r \notin ToSet(f.forwarded)
  BY <1>3, NoElements
<1>6. f.left \in Seq(Base)
  BY <1>2, <1>3
<1>7. TrustFrame(f, i)
  BY <1>3, <1>4, <1>5, <1>6 DEF TrustFrame
<1> QED
  BY <1>1, <1>7

(* Before and at the start of a discovery.                                 *)
LEMMA TrustStarts == TrustOK(<< >>) /\ TrustOK(<<ClientFrame>>)
<1>1. TrustOK(<< >>)
  <2>1. \A i : i \notin 1..Len(<< >>)
    OBVIOUS
  <2> QED
    BY <2>1 DEF TrustOK
<1>2. PICK f : f = ClientFrame
  OBVIOUS
<1>3. PICK T : T = {p \in Base : Trust[Client][p] >= SkipTrust}
  OBVIOUS
<1>4. f.base = Client /\ f.left = Keep(Peers[Client], T) /\ f.results = << >> /\ f.forwarded = << >>
  BY <1>2, <1>3 DEF ClientFrame
<1>5. Client \in Base /\ Peers[Client] \in Seq(Base)
  BY DiscoveryAssumption
<1>6. f.left \in Seq(Base)
  BY <1>4, <1>5, KeepElems
<1>7. TrustFrame(f, 1)
  BY <1>4, <1>5, <1>6, NoElements DEF TrustFrame
<1>8. Len(<<f>>) = 1 /\ <<f>>[1] = f /\ \A i \in 1..1 : i = 1
  OBVIOUS
<1>9. PICK s : s = <<f>>
  OBVIOUS
<1>10. TrustOK(s)
  BY <1>7, <1>8, <1>9 DEF TrustOK
<1> QED
  BY <1>1, <1>2, <1>9, <1>10

(* One step of discovery keeps all results exact.                          *)
LEMMA TrustStep ==
  ASSUME WalkOK(stack), TrustOK(stack), [DNext]_dvars
  PROVE  TrustOK(stack)'
<1>0. PICK S : stack \in Seq(S)
  BY DEF WalkOK
<1>1. PICK s : s = stack
  OBVIOUS
<1>2. PICK n \in Nat : n = Len(s)
  BY <1>0, <1>1
<1>3. s \in Seq(S) /\ WalkOK(s) /\ TrustOK(s)
  BY <1>0, <1>1
<1>4. stack # << >> => n >= 1 /\ Top = s[n]
  BY <1>0, <1>1, <1>2, <1>3 DEF Top, Last
<1>5. \A i \in 1..n : FrameOK(s, i) /\ IsFrame(s[i]) /\ TrustFrame(s[i], i)
  BY <1>2, <1>3 DEF WalkOK, FrameOK, TrustOK
<1>6. SUFFICES ASSUME NEW t, t = stack' PROVE TrustOK(t)
  BY DEF TrustOK, TrustFrame
<1>7. ASSUME stack # << >>, Top.left # << >>, t = WithTop([Top EXCEPT !.left = Tail(@)])
      PROVE  TrustOK(t)
  <2>1. n >= 1 /\ Top = s[n] /\ n <= Len(s) /\ s[n].left # << >> /\ n \in 1..n
    BY <1>2, <1>4, <1>7
  <2>2. PICK f : f = [s[n] EXCEPT !.left = Tail(@)]
    OBVIOUS
  <2>3. TrustFrame(f, n)
    BY <1>5, <2>1, <2>2, TrustNextPeer
  <2>4. t = Append(SubSeq(s, 1, n - 1), f)
    BY <1>1, <1>2, <1>7, <2>1, <2>2 DEF WithTop, Front
  <2>5. TrustOK(Append(SubSeq(s, 1, n - 1), f))
    BY <1>3, <2>1, <2>3, TrustAdvances
  <2> QED
    BY <2>4, <2>5
<1>8. CASE StartDiscover
  BY <1>6, <1>8, TrustStarts DEF StartDiscover
<1>9. CASE SkipVisited
  BY <1>6, <1>7, <1>9 DEF SkipVisited
<1>10. CASE AskFails
  BY <1>6, <1>7, <1>10 DEF AskFails
<1>11. CASE Ask
  <2>1. n >= 1 /\ Top = s[n] /\ s[n].left # << >> /\ n \in 1..n
    BY <1>4, <1>11 DEF Ask
  <2>2. PICK b : b = Head(s[n].left)
    OBVIOUS
  <2>3. PICK f : f = HandleFrame(b, s[n].hops, s[n].visited)
    OBVIOUS
  <2>4. t = Append(s, f)
    BY <1>1, <1>6, <1>11, <2>1, <2>2, <2>3 DEF Ask
  <2>5. b \in Base
    <3>1. s[n].left \in Seq(Base)
      BY <1>5, <2>1 DEF TrustFrame
    <3> QED
      BY <2>1, <2>2, <3>1, TailIsShorter
  <2>6. TrustFrame(f, n + 1)
    BY <2>3, <2>5, TrustAsks
  <2>7. Len(t) = n + 1 /\ t[n + 1] = f /\ \A i \in 1..n : t[i] = s[i]
    BY <1>2, <1>3, <2>4
  <2>8. ASSUME NEW i \in 1..Len(t) PROVE TrustFrame(t[i], i)
    <3>1. CASE i = n + 1
      BY <2>6, <2>7, <3>1
    <3>2. CASE i # n + 1
      <4>1. i \in 1..n
        BY <2>7, <3>2
      <4> QED
        BY <1>5, <2>7, <4>1
    <3> QED
      BY <3>1, <3>2
  <2> QED
    BY <2>8 DEF TrustOK
<1>12. CASE Answer
  <2>0. Len(stack) > 1
    BY <1>12 DEF Answer
  <2>1. n \in 1..n /\ n > 1 /\ Top = s[n]
    <3>1. stack # << >>
      BY <1>1, <1>2, <2>0
    <3> QED
      BY <1>1, <1>2, <1>4, <2>0, <3>1
  <2>2. PICK m \in Nat : m = n - 1
    BY <2>1
  <2>3. m >= 1 /\ m <= Len(s) /\ m < Len(s) /\ m \in 1..n
    BY <1>2, <2>1, <2>2
  <2>4. Len(stack) - 1 = m /\ Len(stack) - 2 = m - 1 /\ (Len(stack) = 2 <=> m = 1)
    BY <1>1, <1>2, <2>2
  <2>5. IsFrame(s[m]) /\ TrustFrame(s[m], m) /\ TrustFrame(s[n], n) /\ s[m].left # << >>
    BY <1>5, <2>1, <2>3 DEF FrameOK
  <2>6. PICK a : a = s[n].results \o SortDedup(s[n].forwarded)
    OBVIOUS
  <2>7. a \in Seq(Answers) /\ \A r : r \in ToSet(a) => Exact(r, s[n].base)
    BY <2>1, <2>5, <2>6, AnswerExact
  <2>8. PICK c : c = [i \in DOMAIN a |-> Through(s[m].base, s[n].base, a[i])]
    OBVIOUS
  <2>9. PICK d : d = Keep(c, {r \in ToSet(c) : r.trust >= MinTrust})
    OBVIOUS
  <2>10. s[m].base \in Base /\ s[n].base \in Base
    BY <2>5 DEF TrustFrame
  <2>11. d \in Seq(Answers) /\ \A r : r \in ToSet(d) => Exact(r, s[m].base)
    BY <2>7, <2>8, <2>9, <2>10, PassedExact
  <2>12. PICK e : e = IF m = 1 THEN a ELSE d
    OBVIOUS
  <2>13. /\ e \in Seq(Answers) /\ (m > 1 => \A r : r \in ToSet(e) => Exact(r, s[m].base))
         /\ \A r \in ToSet(e) : \E b : Exact(r, b)
    BY <2>3, <2>7, <2>11, <2>12
  <2>14. PICK f : f = [s[m] EXCEPT !.left = Tail(@), !.forwarded = @ \o e]
    OBVIOUS
  <2>15. TrustFrame(f, m)
    BY <2>5, <2>13, <2>14, TrustNextAnswer
  <2>16. t = Append(SubSeq(s, 1, m - 1), f)
    <3>1. t = Append(SubSeq(s, 1, m - 1), [s[m] EXCEPT !.left = Tail(@), !.forwarded = @ \o
                (IF m = 1 THEN a ELSE d)])
      BY <1>1, <1>6, <1>12, <2>1, <2>4, <2>6, <2>8, <2>9 DEF Answer
    <3> QED
      BY <2>12, <2>14, <3>1
  <2>17. TrustOK(Append(SubSeq(s, 1, m - 1), f))
    BY <1>3, <2>3, <2>15, TrustAdvances
  <2> QED
    BY <2>16, <2>17
<1>13. CASE Finish
  BY <1>6, <1>13, TrustStarts DEF Finish
<1>14. CASE FetchNext \/ UNCHANGED dvars
  <2>1. t = s
    BY <1>1, <1>6, <1>14
       DEF FetchNext, StartFetch, FetchAnswer, FetchFails, TimePasses, Negotiate, dvars
  <2> QED
    BY <1>3, <2>1
<1> QED
  BY <1>8, <1>9, <1>10, <1>11, <1>12, <1>13, <1>14 DEF DNext, DiscoverNext

(* With the invariant, the property.                                       *)
LEMMA TrustShown == WalkOK(stack) /\ TrustOK(stack) => PathTrustExact
<1> SUFFICES ASSUME WalkOK(stack), TrustOK(stack) PROVE PathTrustExact
  OBVIOUS
<1>1. PathsSimple
  BY DEF WalkOK, PathsSimple, Depth
<1>2. ASSUME NEW f \in ToSet(stack), NEW r \in ToSet(f.forwarded)
      PROVE  LET links == {<<r.path[i], r.path[i + 1]>> : i \in 1..(Len(r.path) - 1)}
             IN /\ r.hops = Len(r.path) - 1
                /\ r.trust = Min({LocalTrust[r.base]} \cup {Trust[l[1]][l[2]] : l \in links})
                /\ r.trust >= MinTrust
  <2>1. PICK i \in 1..Len(stack) : f = stack[i]
    BY DEF ToSet, WalkOK
  <2>2. PICK b : Exact(r, b)
    BY <2>1 DEF TrustOK, TrustFrame
  <2>3. PICK p : p = r.path
    OBVIOUS
  <2>4. PICK k : k = {<<p[j], p[j + 1]>> : j \in 1..(Len(p) - 1)}
    OBVIOUS
  <2>5. \A y : y \in {Trust[l[1]][l[2]] : l \in k} <=> y \in LinkTrusts(p)
    <3>1. \A l : l \in k <=> \E j \in 1..(Len(p) - 1) : l = <<p[j], p[j + 1]>>
      BY <2>4
    <3>2. \A y : y \in {Trust[l[1]][l[2]] : l \in k} <=> \E l \in k : y = Trust[l[1]][l[2]]
      OBVIOUS
    <3>3. \A y : y \in LinkTrusts(p) <=> \E j \in 1..(Len(p) - 1) : y = Trust[p[j]][p[j + 1]]
      BY DEF LinkTrusts
    <3>4. ASSUME NEW l \in k PROVE Trust[l[1]][l[2]] \in LinkTrusts(p)
      <4>1. PICK j \in 1..(Len(p) - 1) : l = <<p[j], p[j + 1]>>
        BY <3>1
      <4>2. l[1] = p[j] /\ l[2] = p[j + 1]
        BY <4>1
      <4> QED
        BY <3>3, <4>2
    <3>5. ASSUME NEW j \in 1..(Len(p) - 1) PROVE \E l \in k : Trust[p[j]][p[j + 1]] = Trust[l[1]][l[2]]
      <4>1. PICK l : l = <<p[j], p[j + 1]>>
        OBVIOUS
      <4>2. l \in k /\ l[1] = p[j] /\ l[2] = p[j + 1]
        BY <3>1, <4>1
      <4> QED
        BY <4>2
    <3> QED
      BY <3>2, <3>3, <3>4, <3>5
  <2>6. {Trust[l[1]][l[2]] : l \in k} = LinkTrusts(p)
    BY <2>5
  <2>7. PICK D : D = {LocalTrust[r.base]} \cup LinkTrusts(p)
    OBVIOUS
  <2>8. Least(r.trust, D) /\ r \in Answers
    BY <2>2, <2>3, <2>7 DEF Exact
  <2>9. \A y \in D : y \in Nat
    <3>1. p \in Seq(Base) /\ r.base \in Base
      BY <2>3, <2>8 DEF Answers
    <3> QED
      BY <2>7, <3>1, LinkTrustTypes, TrustTypes
  <2>10. Min(D) = r.trust
    <3>1. PICK m : m = r.trust
      OBVIOUS
    <3>2. m \in D /\ \A y \in D : m <= y
      BY <2>8, <3>1 DEF Least
    <3>3. \A x \in D : (\A y \in D : x <= y) => x = m
      <4> TAKE x \in D
      <4>1. ASSUME \A y \in D : x <= y PROVE x = m
        <5>1. x <= m /\ m <= x /\ x \in Nat /\ m \in Nat
          BY <2>9, <3>2, <4>1
        <5> QED
          BY <5>1
      <4> QED
        BY <4>1
    <3> QED
      BY <3>1, <3>2, <3>3 DEF Min
  <2>11. r.hops = Len(r.path) - 1 /\ r.trust >= MinTrust
    BY <2>2 DEF Exact
  <2>12. r.trust = Min({LocalTrust[r.base]} \cup {Trust[l[1]][l[2]] : l \in k})
    BY <2>6, <2>7, <2>10, Zenon
  <2>13. k = {<<r.path[j], r.path[j + 1]>> : j \in 1..(Len(r.path) - 1)}
    BY <2>3, <2>4, Zenon
  <2> QED
    BY <2>11, <2>12, <2>13, Zenon
<1> QED
  BY <1>1, <1>2 DEF PathTrustExact

(* PathTrustExact for any peer graph, trust levels and hop limit           *)
(* (handle_discover, forward_discover): whatever calls fail, a result's    *)
(* hops and trust are those of the links its answer crossed, and a gateway *)
(* passes on none that is trusted too little.                              *)
THEOREM ForwardedTrustExact == DSpec => []PathTrustExact
<1>1. DInit => WalkOK(stack) /\ TrustOK(stack)
  BY WalkStarts, TrustStarts DEF DInit
<1>2. WalkOK(stack) /\ TrustOK(stack) /\ [DNext]_dvars => WalkOK(stack)' /\ TrustOK(stack)'
  BY WalkStep, TrustStep
<1> QED
  BY <1>1, <1>2, TrustShown, PTL DEF DSpec, DNext

-----------------------------------------------------------------------------
(* Discovery: the verified fetch.                                          *)

Fetch(ph, b, a, m, p, n, x) ==
    [phase |-> ph, base |-> b, atom |-> a, mapping |-> m, policy |-> p, now_ns |-> n, got |-> x]
IsFetch(f) == \E ph, b, a, m, p, n, x : f = Fetch(ph, b, a, m, p, n, x)

(* A fetch that is under way has its arguments fixed, and one that is      *)
(* accepted was verified against them.                                     *)
FetchOK ==
    \/ fetch.phase = "idle"
    \/ IsFetch(fetch) /\ (fetch.phase = "accepted" => verified(fetch, fetch.got))

(* The verdict does not look at the phase or at an earlier answer.         *)
LEMMA Judged ==
  ASSUME NEW b, NEW a, NEW m, NEW p, NEW n, NEW ph, NEW oph, NEW x, NEW ox
  PROVE  verified(Fetch(ph, b, a, m, p, n, x), x) <=> verified(Fetch(oph, b, a, m, p, n, ox), x)
BY DEF verified, Fetch

LEMMA FetchStep == ASSUME FetchOK, [DNext]_dvars PROVE FetchOK'
<1>1. CASE StartFetch
  <2>1. PICK b, a, p, m : fetch' = [phase |-> "asked", base |-> b, atom |-> a, mapping |-> m,
                                    policy |-> p, now_ns |-> time, got |-> a]
    BY <1>1 DEF StartFetch
  <2>2. IsFetch(fetch') /\ fetch'.phase = "asked"
    BY <2>1 DEF IsFetch, Fetch
  <2> QED
    BY <2>2 DEF FetchOK, IsFetch
<1>2. CASE FetchAnswer
  <2>1. IsFetch(fetch)
    BY <1>2 DEF FetchAnswer, FetchOK
  <2>2. PICK oph, b, a, m, p, n, ox : fetch = Fetch(oph, b, a, m, p, n, ox)
    BY <2>1 DEF IsFetch
  <2>3. PICK x : fetch' = [fetch EXCEPT !.phase = IF verified(fetch, x) THEN "accepted" ELSE "refused",
                                        !.got = x]
    BY <1>2 DEF FetchAnswer
  <2>4. PICK ph : ph = IF verified(fetch, x) THEN "accepted" ELSE "refused"
    OBVIOUS
  <2>5. fetch' = Fetch(ph, b, a, m, p, n, x)
    BY <2>2, <2>3, <2>4 DEF Fetch
  <2>6. PICK g : g = Fetch(ph, b, a, m, p, n, x)
    OBVIOUS
  <2>7. IsFetch(g) /\ g.phase = ph /\ g.got = x
    <3>1. IsFetch(g)
      BY <2>6 DEF IsFetch
    <3> QED
      BY <2>6, <3>1 DEF Fetch
  <2>8. verified(g, x) <=> verified(fetch, x)
    BY <2>2, <2>6, Judged
  <2>9. g.phase = "accepted" => verified(g, g.got)
    BY <2>4, <2>7, <2>8
  <2> QED
    BY <2>5, <2>6, <2>7, <2>9 DEF FetchOK, IsFetch, verified
<1>3. CASE FetchFails
  <2>1. IsFetch(fetch)
    BY <1>3 DEF FetchFails, FetchOK
  <2>2. PICK ph, b, a, m, p, n, x : fetch = Fetch(ph, b, a, m, p, n, x)
    BY <2>1 DEF IsFetch
  <2>3. fetch' = Fetch("refused", b, a, m, p, n, x)
    BY <1>3, <2>2 DEF FetchFails, Fetch
  <2>4. IsFetch(fetch')
    BY <2>3 DEF IsFetch
  <2>5. fetch'.phase = "refused"
    BY <2>3 DEF Fetch
  <2> QED
    BY <2>4, <2>5 DEF FetchOK, IsFetch
<1>4. CASE fetch' = fetch
  BY <1>4 DEF FetchOK, IsFetch, verified
<1>5. StartFetch \/ FetchAnswer \/ FetchFails \/ fetch' = fetch
  BY DEF DNext, DiscoverNext, FetchNext, StartDiscover, SkipVisited, Ask, AskFails, Answer, Finish,
         TimePasses, Negotiate, dvars
<1> QED
  BY <1>1, <1>2, <1>3, <1>4, <1>5

(* MappedContentVerified for any peers, mappings, policies and clock       *)
(* (fetch_with_trust_verification): whatever passes during the await, what *)
(* is accepted was judged against the arguments the call began with.       *)
THEOREM AcceptedContentVerified == DSpec => []MappedContentVerified
<1>1. DInit => FetchOK
  BY DEF DInit, FetchOK
<1>2. FetchOK /\ [DNext]_dvars => FetchOK'
  BY FetchStep
<1>3. FetchOK => MappedContentVerified
  BY DEF FetchOK, MappedContentVerified, verified, is_acceptable_under
<1> QED
  BY <1>1, <1>2, <1>3, PTL DEF DSpec, DNext

-----------------------------------------------------------------------------
(* The write-ahead log.  One process writes it, so the state of a field is *)
(* a function of the updates it was built from (Shown): the number of      *)
(* updates, the last one, or the dots of the adds, numbered in the order   *)
(* of the log.  What a record, a snapshot or the store in memory holds is  *)
(* always what its updates show, and of the updates of two such states one *)
(* set is the beginning of the other.                                      *)

LogOp == [id : Nat, name : Names, actor : {Writer}, elem : Elem, hlc : Nat,
          seen : SUBSET Nat, node : Node]

NamedAt(H, X, n, nm) == {i \in X : H[i].node = n /\ H[i].name = nm}
Number(H, X, n, nm) == Cardinality(NamedAt(H, X, n, nm))
Before(H, X, n, i) == {j \in NamedAt(H, X, n, "add") : j < i}
LogDot(H, X, n, i) == <<Writer, Cardinality(Before(H, X, n, i))>>
AddsAt(H, X, n, e) == {i \in NamedAt(H, X, n, "add") : H[i].elem = e}
Gone(H, X, n, e) == {i \in AddsAt(H, X, n, e) : \E r \in NamedAt(H, X, n, "remove") :
                                                   H[r].elem = e /\ i \in H[r].seen}
Solo(c) == [a \in Actor |-> IF a = Writer THEN c ELSE 0]
Stamped(i) == [hlc |-> from_parts(1, i), actor |-> Writer, value |-> i]

ShownSet(H, X, n) ==
    [elements   |-> [e \in Elem |-> {LogDot(H, X, n, i) : i \in AddsAt(H, X, n, e)}],
     tombstones |-> [e \in Elem |-> {LogDot(H, X, n, i) : i \in Gone(H, X, n, e)}],
     counters   |-> Solo(Number(H, X, n, "add"))]
ShownReg(H, X, n) ==
    IF NamedAt(H, X, n, "update") = {} THEN DefaultReg
    ELSE Stamped(Max(NamedAt(H, X, n, "update")))
Shown(H, k, X, n) ==
    CASE k = "GCOUNTER"  -> Solo(Number(H, X, n, "inc"))
      [] k = "PNCOUNTER" -> [p |-> Solo(Number(H, X, n, "inc")), n |-> Solo(Number(H, X, n, "dec"))]
      [] k = "LWW_REG"   -> ShownReg(H, X, n)
      [] k = "ORSET"     -> ShownSet(H, X, n)

(* A is the beginning of B.                                                *)
Begins(A, B) == A \subseteq B /\ \A i \in A, j \in B : j < i => j \in A

InLog(X) == X \subseteq 1..MaxUpdates

LogHistory(H) == H \in Seq(LogOp) /\ Len(H) <= MaxUpdates

LEMMA HistoryTypes ==
  ASSUME NEW H, LogHistory(H)
  PROVE  /\ Len(H) \in Nat /\ Len(H) <= MaxUpdates
         /\ \A i \in 1..Len(H) : /\ H[i] \in LogOp /\ H[i].node \in Node /\ H[i].elem \in Elem
                                 /\ H[i].name \in Names /\ H[i].seen \subseteq Nat
<1>1. H \in Seq(LogOp) /\ Len(H) \in Nat /\ Len(H) <= MaxUpdates
  BY DEF LogHistory
<1>2. \A i \in 1..Len(H) : H[i] \in LogOp
  BY <1>1
<1> QED
  BY <1>1, <1>2 DEF LogOp

(* The stamps grow with the updates.                                       *)
LEMMA StampGrows ==
  /\ \A i \in 1..MaxUpdates : from_parts(1, i) = LogicRange + i /\ from_parts(1, i) \in Times
  /\ LogicRange \in Nat /\ LogicRange > 0 /\ MaxUpdates \in Nat
<1>1. PICK l \in Nat : l = LogicRange /\ l > 0
  BY CrdtAssumption
<1>2. PICK n \in Nat : n = PhysRange * LogicRange /\ n > 0
  BY ClockRange
<1>3. PICK m \in Nat : m = MaxUpdates
  BY LogAssumption
<1>4. l + m < n
  BY <1>1, <1>2, <1>3, LogAssumption
<1>5. ASSUME NEW i \in 1..m
      PROVE  from_parts(1, i) = l + i /\ from_parts(1, i) \in Times
  <2>1. from_parts(1, i) = (1 * l + i) % n
    BY <1>1, <1>2 DEF from_parts
  <2>2. 1 * l + i = l + i /\ l + i \in Nat /\ l + i < n
    BY <1>4
  <2>3. (l + i) % n = l + i
    BY <1>2, <2>2
  <2> QED
    BY <1>2, <2>1, <2>2, <2>3 DEF Times
<1> QED
  BY <1>1, <1>3, <1>5

LEMMA NamedTypes ==
  ASSUME NEW n \in Nat, NEW X, X \subseteq 1..n, NEW H, NEW m
  PROVE  \A nm : /\ NamedAt(H, X, m, nm) \subseteq 1..n /\ NamedAt(H, X, m, nm) \subseteq X
                 /\ IsFiniteSet(NamedAt(H, X, m, nm)) /\ Number(H, X, m, nm) \in Nat
<1> SUFFICES ASSUME NEW nm
             PROVE  /\ NamedAt(H, X, m, nm) \subseteq 1..n /\ NamedAt(H, X, m, nm) \subseteq X
                    /\ IsFiniteSet(NamedAt(H, X, m, nm)) /\ Number(H, X, m, nm) \in Nat
  OBVIOUS
<1>1. NamedAt(H, X, m, nm) \subseteq 1..n /\ NamedAt(H, X, m, nm) \subseteq X
  BY DEF NamedAt
<1>2. IsFiniteSet(1..n)
  BY FS_Interval
<1>3. IsFiniteSet(NamedAt(H, X, m, nm))
  BY <1>1, <1>2, FS_Subset
<1> QED
  BY <1>1, <1>3, FS_CardinalityType DEF Number

LEMMA SoloType == ASSUME NEW c \in Nat PROVE Solo(c) \in [Actor -> Nat]
BY DEF Solo

(* A counter of one writer counts its updates.                             *)
LEMMA SoloValue == ASSUME NEW c \in Nat PROVE GValue(Solo(c)) = c
<1> DEFINE P == UNION {{a} \X (1..Solo(c)[a]) : a \in Actor}
<1>1. Writer \in Actor
  BY LogAssumption
<1>2. \A a \in Actor : Solo(c)[a] = IF a = Writer THEN c ELSE 0
  BY DEF Solo
<1>3. \A q : q \in P <=> q \in {Writer} \X (1..c)
  <2> TAKE q
  <2>1. ASSUME q \in P PROVE q \in {Writer} \X (1..c)
    <3>1. PICK a \in Actor : q \in {a} \X (1..Solo(c)[a])
      BY <2>1
    <3>2. CASE a = Writer
      BY <1>2, <3>1, <3>2
    <3>3. CASE a # Writer
      <4>1. 1..Solo(c)[a] = {}
        BY <1>2, <3>3
      <4> QED
        BY <3>1, <4>1
    <3> QED
      BY <3>2, <3>3
  <2>2. ASSUME q \in {Writer} \X (1..c) PROVE q \in P
    <3>1. q \in {Writer} \X (1..Solo(c)[Writer])
      BY <1>1, <1>2, <2>2
    <3> QED
      BY <1>1, <3>1
  <2> QED
    BY <2>1, <2>2
<1>4. P = {Writer} \X (1..c)
  BY <1>3
<1> DEFINE f == [i \in 1..c |-> <<Writer, i>>]
<1>5. f \in Bijection(1..c, {Writer} \X (1..c))
  <2>1. f \in [1..c -> {Writer} \X (1..c)]
    OBVIOUS
  <2>2. \A i, j \in 1..c : f[i] = f[j] => i = j
    OBVIOUS
  <2>3. \A q \in {Writer} \X (1..c) : \E i \in 1..c : f[i] = q
    OBVIOUS
  <2> HIDE DEF f
  <2> QED
    BY <2>1, <2>2, <2>3 DEF Bijection, Injection, IsInjective, Surjection
<1>6. IsFiniteSet(1..c) /\ Cardinality(1..c) = c
  BY FS_Interval
<1>7. Cardinality({Writer} \X (1..c)) = c
  BY <1>5, <1>6, FS_Bijection DEF ExistsBijection
<1> QED
  BY <1>4, <1>7 DEF GValue

(* The dots of adds are numbered from 0, in the order of the updates.      *)
LEMMA DotNumbers ==
  ASSUME NEW N \in Nat, NEW X, X \subseteq 1..N, NEW H, NEW n
  PROVE  /\ \A i \in NamedAt(H, X, n, "add") :
              /\ LogDot(H, X, n, i) \in {Writer} \X Nat /\ LogDot(H, X, n, i)[1] = Writer
              /\ LogDot(H, X, n, i)[2] \in Nat /\ LogDot(H, X, n, i)[2] + 1 <= Number(H, X, n, "add")
         /\ \A i, j \in NamedAt(H, X, n, "add") : LogDot(H, X, n, i) = LogDot(H, X, n, j) => i = j
         /\ Number(H, X, n, "add") > 0 =>
              \E i \in NamedAt(H, X, n, "add") : LogDot(H, X, n, i)[2] + 1 = Number(H, X, n, "add")
<1> DEFINE A == NamedAt(H, X, n, "add")
           B(i) == Before(H, X, n, i)
<1>1. A \subseteq 1..N /\ IsFiniteSet(A) /\ Cardinality(A) \in Nat /\ Number(H, X, n, "add") = Cardinality(A)
  BY NamedTypes DEF Number
<1>2. \A i : B(i) = {j \in A : j < i}
  BY DEF Before
<1>3. \A i : LogDot(H, X, n, i) = <<Writer, Cardinality(B(i))>>
  BY DEF LogDot
<1> HIDE DEF A, B
<1>4. \A i : B(i) \subseteq A /\ IsFiniteSet(B(i)) /\ Cardinality(B(i)) \in Nat
  <2> TAKE i
  <2>1. B(i) \subseteq A
    BY <1>2
  <2>2. IsFiniteSet(B(i))
    BY <1>1, <2>1, FS_Subset
  <2> QED
    BY <2>1, <2>2, FS_CardinalityType
<1>5. ASSUME NEW i \in A, NEW T, B(i) \cup {i} \subseteq T, IsFiniteSet(T)
      PROVE  Cardinality(B(i)) + 1 <= Cardinality(T)
  <2>1. i \notin B(i)
    BY <1>1, <1>2
  <2>2. IsFiniteSet(B(i) \cup {i}) /\ Cardinality(B(i) \cup {i}) = Cardinality(B(i)) + 1
    BY <1>4, <2>1, FS_AddElement
  <2>3. Cardinality(B(i) \cup {i}) <= Cardinality(T)
    BY <1>5, FS_Subset
  <2> QED
    BY <2>2, <2>3
<1>6. ASSUME NEW i \in A
      PROVE  Cardinality(B(i)) + 1 <= Cardinality(A)
  BY <1>1, <1>4, <1>5
<1>7. ASSUME NEW i \in A, NEW j \in A, Cardinality(B(i)) = Cardinality(B(j))
      PROVE  i = j
  <2>1. ASSUME NEW a \in A, NEW b \in A, a < b
        PROVE  Cardinality(B(a)) + 1 <= Cardinality(B(b))
    <3>1. B(a) \cup {a} \subseteq B(b)
      <4>1. ASSUME NEW x \in B(a) PROVE x \in B(b)
        <5>1. x \in A /\ x < a
          BY <1>2
        <5>2. x \in Nat /\ a \in Nat /\ b \in Nat
          BY <1>1, <5>1
        <5>3. x < b
          BY <2>1, <5>1, <5>2
        <5> QED
          BY <1>2, <5>1, <5>3
      <4>2. a \in B(b)
        BY <1>2, <2>1
      <4> QED
        BY <4>1, <4>2
    <3> QED
      BY <1>4, <1>5, <3>1
  <2>2. i \in Nat /\ j \in Nat
    BY <1>1
  <2>3. Cardinality(B(i)) \in Nat /\ Cardinality(B(j)) \in Nat
    BY <1>4
  <2>4. ~(i < j) /\ ~(j < i)
    BY <1>7, <2>1, <2>3
  <2> QED
    BY <2>2, <2>4
<1>8. ASSUME Cardinality(A) > 0
      PROVE  \E i \in A : Cardinality(B(i)) + 1 = Cardinality(A)
  <2>1. A # {}
    BY <1>1, <1>8, FS_EmptySet
  <2>2. PICK m \in A : \A x \in A : x <= m
    <3>1. A \subseteq Nat /\ \A x \in A : x <= N
      BY <1>1
    <3>2. Max(A) \in A /\ \A y \in A : y <= Max(A)
      BY <2>1, <3>1, MaxOfBounded
    <3> QED
      BY <3>2
  <2>3. B(m) \cup {m} = A
    <3>1. \A x \in A : x \in B(m) \/ x = m
      <4> TAKE x \in A
      <4>1. x \in Nat /\ m \in Nat /\ x <= m
        BY <1>1, <2>2
      <4> QED
        BY <1>2, <4>1
    <3> QED
      BY <1>4, <3>1
  <2>4. m \notin B(m)
    BY <1>1, <1>2
  <2>5. Cardinality(B(m) \cup {m}) = Cardinality(B(m)) + 1
    BY <1>4, <2>4, FS_AddElement
  <2> QED
    BY <2>3, <2>5
<1>9. \A i : /\ LogDot(H, X, n, i) \in {Writer} \X Nat /\ LogDot(H, X, n, i)[1] = Writer
             /\ LogDot(H, X, n, i)[2] = Cardinality(B(i))
  BY <1>3, <1>4
<1>10. \A i, j \in A : LogDot(H, X, n, i) = LogDot(H, X, n, j) => i = j
  BY <1>7, <1>9
<1> QED
  BY <1>1, <1>4, <1>6, <1>8, <1>9, <1>10 DEF A

(* A beginning numbers its adds as the whole does.                         *)
LEMMA BeginningDots ==
  ASSUME NEW X, NEW Y, Begins(X, Y), NEW H, NEW n
  PROVE  /\ \A nm : NamedAt(H, X, n, nm) \subseteq NamedAt(H, Y, n, nm)
         /\ \A e : AddsAt(H, X, n, e) \subseteq AddsAt(H, Y, n, e)
         /\ \A e : Gone(H, X, n, e) \subseteq Gone(H, Y, n, e)
         /\ \A i \in NamedAt(H, X, n, "add") : LogDot(H, X, n, i) = LogDot(H, Y, n, i)
         /\ \A e : AddsAt(H, X, n, e) \subseteq NamedAt(H, X, n, "add")
         /\ \A e : Gone(H, X, n, e) \subseteq AddsAt(H, X, n, e)
<1>1. X \subseteq Y /\ \A i \in X, j \in Y : j < i => j \in X
  BY DEF Begins
<1>2. \A nm : NamedAt(H, X, n, nm) \subseteq NamedAt(H, Y, n, nm)
  BY <1>1 DEF NamedAt
<1>3. \A e : AddsAt(H, X, n, e) \subseteq AddsAt(H, Y, n, e)
  BY <1>2 DEF AddsAt
<1>4. \A e : Gone(H, X, n, e) \subseteq Gone(H, Y, n, e)
  BY <1>2, <1>3 DEF Gone
<1>5. \A e : AddsAt(H, X, n, e) \subseteq NamedAt(H, X, n, "add")
  BY DEF AddsAt
<1>6. \A e : Gone(H, X, n, e) \subseteq AddsAt(H, X, n, e)
  BY DEF Gone
<1>7. ASSUME NEW i \in NamedAt(H, X, n, "add")
      PROVE  LogDot(H, X, n, i) = LogDot(H, Y, n, i)
  <2>1. i \in X
    BY DEF NamedAt
  <2>2. ASSUME NEW j \in NamedAt(H, Y, n, "add"), j < i
        PROVE  j \in NamedAt(H, X, n, "add")
    <3>1. j \in X
      BY <1>1, <2>1, <2>2 DEF NamedAt
    <3> QED
      BY <3>1 DEF NamedAt
  <2>3. Before(H, X, n, i) = Before(H, Y, n, i)
    BY <1>2, <2>2 DEF Before
  <2> QED
    BY <2>3 DEF LogDot
<1> QED
  BY <1>2, <1>3, <1>4, <1>5, <1>6, <1>7

LEMMA SoloMerge ==
  ASSUME NEW a \in Nat, NEW b \in Nat, a <= b
  PROVE  GMerge(Solo(a), Solo(b)) = Solo(b) /\ GMerge(Solo(b), Solo(a)) = Solo(b)
<1>1. Solo(a) \in [Actor -> Nat] /\ Solo(b) \in [Actor -> Nat]
  BY SoloType
<1>2. \A x \in Actor : Solo(a)[x] <= Solo(b)[x]
  BY DEF Solo
<1> DEFINE f == Solo(a)
           g == Solo(b)
<1> HIDE DEF f, g
<1>3. ASSUME NEW u \in [Actor -> Nat], u \in {GMerge(f, g), GMerge(g, f)},
             \A x \in Actor : u[x] = g[x]
      PROVE  u = g
  BY <1>1, <1>3 DEF g
<1>4. /\ GMerge(f, g) \in [Actor -> Nat] /\ \A x \in Actor : GMerge(f, g)[x] = g[x]
      /\ GMerge(g, f) \in [Actor -> Nat] /\ \A x \in Actor : GMerge(g, f)[x] = g[x]
  <2>1. f \in [Actor -> Nat] /\ g \in [Actor -> Nat] /\ \A x \in Actor : f[x] <= g[x]
    BY <1>1, <1>2 DEF f, g
  <2>2. /\ GMerge(f, g) \in [Actor -> Nat]
        /\ \A x \in Actor : GMerge(f, g)[x] = IF f[x] >= g[x] THEN f[x] ELSE g[x]
    BY <2>1, MergeAt
  <2>3. /\ GMerge(g, f) \in [Actor -> Nat]
        /\ \A x \in Actor : GMerge(g, f)[x] = IF g[x] >= f[x] THEN g[x] ELSE f[x]
    BY <2>1, MergeAt
  <2> QED
    BY <2>1, <2>2, <2>3
<1>5. GMerge(f, g) = g /\ GMerge(g, f) = g
  BY <1>3, <1>4
<1> QED
  BY <1>5 DEF f, g

LEMMA NumberGrows ==
  ASSUME NEW N \in Nat, NEW X, NEW Y, Y \subseteq 1..N, X \subseteq Y, NEW H, NEW n, NEW nm
  PROVE  /\ Number(H, X, n, nm) \in Nat /\ Number(H, Y, n, nm) \in Nat
         /\ Number(H, X, n, nm) <= Number(H, Y, n, nm)
<1>1. NamedAt(H, X, n, nm) \subseteq NamedAt(H, Y, n, nm)
  BY DEF NamedAt
<1>2. IsFiniteSet(NamedAt(H, Y, n, nm)) /\ Number(H, X, n, nm) \in Nat /\ Number(H, Y, n, nm) \in Nat
  BY NamedTypes
<1> QED
  BY <1>1, <1>2, FS_Subset DEF Number

(* The register of more updates has the later stamp.                       *)
LEMMA RegGrows ==
  ASSUME NEW X, NEW Y, InLog(Y), Begins(X, Y), NEW H, NEW n
  PROVE  /\ LwwMerge(ShownReg(H, X, n), ShownReg(H, Y, n)) = ShownReg(H, Y, n)
         /\ LwwMerge(ShownReg(H, Y, n), ShownReg(H, X, n)) = ShownReg(H, Y, n)
<1> DEFINE U == NamedAt(H, X, n, "update")
           V == NamedAt(H, Y, n, "update")
           s == ShownReg(H, X, n)
           t == ShownReg(H, Y, n)
<1>0. PICK m \in Nat : m = MaxUpdates
  BY StampGrows
<1>1. U \subseteq V /\ V \subseteq 1..m
  BY <1>0 DEF NamedAt, Begins, InLog
<1>2. s = IF U = {} THEN DefaultReg ELSE Stamped(Max(U))
  BY DEF ShownReg
<1>3. t = IF V = {} THEN DefaultReg ELSE Stamped(Max(V))
  BY DEF ShownReg
<1> HIDE DEF U, V, s, t
<1>4. PICK l \in Nat : l = LogicRange /\ l > 0
  BY StampGrows
<1>5. \A i \in 1..m : from_parts(1, i) = l + i
  BY <1>0, <1>4, StampGrows
<1>6. \A i \in 1..m : Stamped(i) = [hlc |-> l + i, actor |-> Writer, value |-> i]
  BY <1>5 DEF Stamped
<1>7. Writer \in Nat /\ Writer > 0
  BY LogAssumption, CrdtAssumption
<1>8. CASE V = {}
  <2>1. s = DefaultReg /\ t = DefaultReg
    BY <1>1, <1>2, <1>3, <1>8
  <2>2. LwwMerge(s, t) = t /\ LwwMerge(t, s) = t
    BY <2>1 DEF LwwMerge
  <2> QED
    BY <2>2 DEF s, t
<1>9. CASE V # {}
  <2>1. Max(V) \in V /\ \A y \in V : y <= Max(V)
    <3>1. V \subseteq Nat /\ \A x \in V : x <= m
      BY <1>1
    <3> QED
      BY <1>9, <3>1, MaxOfBounded
  <2>2. PICK v \in 1..m : v = Max(V)
    BY <1>1, <2>1
  <2>3. t = [hlc |-> l + v, actor |-> Writer, value |-> v]
    BY <1>3, <1>6, <1>9, <2>2
  <2>4. CASE U = {}
    <3>1. s = [hlc |-> 0, actor |-> 0, value |-> 0]
      BY <1>2, <2>4 DEF DefaultReg, NoActor, NoValue
    <3>2. t.hlc = l + v /\ s.hlc = 0 /\ l + v > 0
      BY <1>4, <2>3, <3>1
    <3>3. LwwMerge(s, t) = t /\ LwwMerge(t, s) = t
      BY <1>4, <2>2, <3>2 DEF LwwMerge, Later
    <3> QED
      BY <3>3 DEF s, t
  <2>5. CASE U # {}
    <3>1. Max(U) \in U
      <4>1. U \subseteq Nat /\ \A x \in U : x <= m
        BY <1>1
      <4> QED
        BY <2>5, <4>1, MaxOfBounded
    <3>2. PICK u \in 1..m : u = Max(U)
      BY <1>1, <3>1
    <3>3. u <= v
      BY <1>1, <2>1, <2>2, <3>1, <3>2
    <3>4. s = [hlc |-> l + u, actor |-> Writer, value |-> u]
      BY <1>2, <1>6, <2>5, <3>2
    <3>5. CASE u = v
      <4>1. s = t
        BY <2>3, <3>4, <3>5
      <4>2. LwwMerge(s, t) = t /\ LwwMerge(t, s) = t
        BY <4>1 DEF LwwMerge
      <4> QED
        BY <4>2 DEF s, t
    <3>6. CASE u < v
      <4>1. t.hlc = l + v /\ s.hlc = l + u
        BY <2>3, <3>4
      <4>2. LwwMerge(s, t) = t /\ LwwMerge(t, s) = t
        BY <1>4, <2>2, <3>2, <3>6, <4>1 DEF LwwMerge, Later
      <4> QED
        BY <4>2 DEF s, t
    <3> QED
      BY <3>3, <3>5, <3>6
  <2> QED
    BY <2>4, <2>5
<1> QED
  BY <1>8, <1>9

LEMMA PNMergeOf ==
  ASSUME NEW s, NEW t, s = [p |-> s.p, n |-> s.n]
  PROVE  PNMerge(s, t) = [p |-> GMerge(s.p, t.p), n |-> GMerge(s.n, t.n)]
<1>1. PICK u : s = [p |-> s.p, n |-> s.n] /\ u = PNMerge(s, t)
  OBVIOUS
<1>2. u = [p |-> GMerge(s.p, t.p), n |-> GMerge(s.n, t.n)]
  BY <1>1 DEF PNMerge
<1> QED
  BY <1>1, <1>2

(* Joining what a beginning shows adds nothing.                            *)
LEMMA JoinBeginning ==
  ASSUME NEW k \in {"GCOUNTER", "PNCOUNTER", "LWW_REG", "ORSET"}, NEW X, NEW Y,
         InLog(Y), Begins(X, Y), NEW H, NEW n
  PROVE  /\ Join(k, Shown(H, k, X, n), Shown(H, k, Y, n)) = Shown(H, k, Y, n)
         /\ Join(k, Shown(H, k, Y, n), Shown(H, k, X, n)) = Shown(H, k, Y, n)
<1>0. PICK N \in Nat : N = MaxUpdates
  BY StampGrows
<1>a. X \subseteq Y /\ Y \subseteq 1..N
  BY <1>0 DEF Begins, InLog
<1>b. \A nm : /\ GMerge(Solo(Number(H, X, n, nm)), Solo(Number(H, Y, n, nm))) = Solo(Number(H, Y, n, nm))
              /\ GMerge(Solo(Number(H, Y, n, nm)), Solo(Number(H, X, n, nm))) = Solo(Number(H, Y, n, nm))
  <2> TAKE nm
  <2>1. /\ Number(H, X, n, nm) \in Nat /\ Number(H, Y, n, nm) \in Nat
        /\ Number(H, X, n, nm) <= Number(H, Y, n, nm)
    BY <1>a, NumberGrows
  <2> QED
    BY <2>1, SoloMerge
<1>1. CASE k = "GCOUNTER"
  BY <1>1, <1>b DEF Join, Shown
<1>2. CASE k = "PNCOUNTER"
  <2>1. PICK s : s = Shown(H, k, X, n)
    OBVIOUS
  <2>2. PICK t : t = Shown(H, k, Y, n)
    OBVIOUS
  <2>3. /\ s = [p |-> Solo(Number(H, X, n, "inc")), n |-> Solo(Number(H, X, n, "dec"))]
        /\ t = [p |-> Solo(Number(H, Y, n, "inc")), n |-> Solo(Number(H, Y, n, "dec"))]
    BY <1>2, <2>1, <2>2 DEF Shown
  <2>8. s = [p |-> s.p, n |-> s.n] /\ t = [p |-> t.p, n |-> t.n]
    BY <2>3
  <2>4. /\ GMerge(s.p, t.p) = t.p /\ GMerge(s.n, t.n) = t.n
        /\ GMerge(t.p, s.p) = t.p /\ GMerge(t.n, s.n) = t.n
    BY <1>b, <2>3
  <2>5. /\ PNMerge(s, t) = [p |-> GMerge(s.p, t.p), n |-> GMerge(s.n, t.n)]
        /\ PNMerge(t, s) = [p |-> GMerge(t.p, s.p), n |-> GMerge(t.n, s.n)]
    <3>1. PNMerge(s, t) = [p |-> GMerge(s.p, t.p), n |-> GMerge(s.n, t.n)]
      BY <2>8, PNMergeOf
    <3>2. PNMerge(t, s) = [p |-> GMerge(t.p, s.p), n |-> GMerge(t.n, s.n)]
      BY <2>8, PNMergeOf
    <3> QED
      BY <3>1, <3>2
  <2>6. PNMerge(s, t) = t /\ PNMerge(t, s) = t
    BY <2>8, <2>4, <2>5
  <2>7. Join(k, s, t) = t /\ Join(k, t, s) = t
    BY <1>2, <2>6 DEF Join
  <2> QED
    BY <2>1, <2>2, <2>7
<1>3. CASE k = "LWW_REG"
  <2>1. /\ LwwMerge(ShownReg(H, X, n), ShownReg(H, Y, n)) = ShownReg(H, Y, n)
        /\ LwwMerge(ShownReg(H, Y, n), ShownReg(H, X, n)) = ShownReg(H, Y, n)
    BY RegGrows
  <2> QED
    BY <1>3, <2>1 DEF Join, Shown
<1>4. CASE k = "ORSET"
  <2> DEFINE s == ShownSet(H, X, n)
             t == ShownSet(H, Y, n)
  <2>1. \A e \in Elem : s.elements[e] \subseteq t.elements[e] /\ s.tombstones[e] \subseteq t.tombstones[e]
    <3> TAKE e \in Elem
    <3>1. /\ s.elements[e] = {LogDot(H, X, n, i) : i \in AddsAt(H, X, n, e)}
          /\ t.elements[e] = {LogDot(H, Y, n, i) : i \in AddsAt(H, Y, n, e)}
          /\ s.tombstones[e] = {LogDot(H, X, n, i) : i \in Gone(H, X, n, e)}
          /\ t.tombstones[e] = {LogDot(H, Y, n, i) : i \in Gone(H, Y, n, e)}
      BY DEF ShownSet
    <3>2. /\ AddsAt(H, X, n, e) \subseteq AddsAt(H, Y, n, e)
          /\ Gone(H, X, n, e) \subseteq Gone(H, Y, n, e)
          /\ \A i \in AddsAt(H, X, n, e) : LogDot(H, X, n, i) = LogDot(H, Y, n, i)
          /\ \A i \in Gone(H, X, n, e) : LogDot(H, X, n, i) = LogDot(H, Y, n, i)
      <4>1. \A x \in AddsAt(H, X, n, e) : x \in NamedAt(H, X, n, "add")
        BY DEF AddsAt
      <4>2. \A x \in Gone(H, X, n, e) : x \in NamedAt(H, X, n, "add")
        BY DEF Gone, AddsAt
      <4>3. \A i \in NamedAt(H, X, n, "add") : LogDot(H, X, n, i) = LogDot(H, Y, n, i)
        BY BeginningDots
      <4>4. AddsAt(H, X, n, e) \subseteq AddsAt(H, Y, n, e) /\ Gone(H, X, n, e) \subseteq Gone(H, Y, n, e)
        BY BeginningDots
      <4> QED
        BY <4>1, <4>2, <4>3, <4>4, Zenon
    <3> QED
      BY <3>1, <3>2
  <2>2. t = [elements |-> [e \in Elem |-> t.elements[e]], tombstones |-> [e \in Elem |-> t.tombstones[e]],
             counters |-> t.counters]
    BY DEF ShownSet
  <2>3. GMerge(s.counters, t.counters) = t.counters /\ GMerge(t.counters, s.counters) = t.counters
    BY <1>b DEF ShownSet
  <2>4. OrMerge(s, t) = t /\ OrMerge(t, s) = t
    <3> HIDE DEF s, t
    <3>1. \A e \in Elem : /\ s.elements[e] \cup t.elements[e] = t.elements[e]
                          /\ t.elements[e] \cup s.elements[e] = t.elements[e]
                          /\ s.tombstones[e] \cup t.tombstones[e] = t.tombstones[e]
                          /\ t.tombstones[e] \cup s.tombstones[e] = t.tombstones[e]
      BY <2>1
    <3>2. /\ [e \in Elem |-> s.elements[e] \cup t.elements[e]] = [e \in Elem |-> t.elements[e]]
          /\ [e \in Elem |-> t.elements[e] \cup s.elements[e]] = [e \in Elem |-> t.elements[e]]
          /\ [e \in Elem |-> s.tombstones[e] \cup t.tombstones[e]] = [e \in Elem |-> t.tombstones[e]]
          /\ [e \in Elem |-> t.tombstones[e] \cup s.tombstones[e]] = [e \in Elem |-> t.tombstones[e]]
      BY <3>1
    <3> QED
      BY <2>2, <2>3, <3>2 DEF OrMerge
  <2> QED
    BY <1>4, <2>4 DEF Join, Shown
<1> QED
  BY <1>1, <1>2, <1>3, <1>4

LEMMA InHistory ==
  ASSUME NEW H, LogHistory(H), NEW X, X \subseteq 1..Len(H)
  PROVE  /\ InLog(X) /\ MaxUpdates \in Nat
         /\ \A i \in X : H[i].elem \in Elem /\ H[i].seen \subseteq Nat /\ i \in 1..MaxUpdates
<1>1. /\ Len(H) \in Nat /\ Len(H) <= MaxUpdates
      /\ \A i \in 1..Len(H) : H[i].elem \in Elem /\ H[i].seen \subseteq Nat
  BY HistoryTypes
<1>2. MaxUpdates \in Nat
  BY StampGrows
<1>3. 1..Len(H) \subseteq 1..MaxUpdates
  BY <1>1, <1>2
<1> QED
  BY <1>1, <1>2, <1>3 DEF InLog

(* The parts of an observed-remove set of the log.                         *)
SetState(s) ==
    /\ s = [elements |-> s.elements, tombstones |-> s.tombstones, counters |-> s.counters]
    /\ s.elements = [e \in Elem |-> s.elements[e]]
    /\ s.tombstones = [e \in Elem |-> s.tombstones[e]]
    /\ s.counters = [a \in Actor |-> s.counters[a]]
    /\ \A e \in Elem : s.tombstones[e] \subseteq s.elements[e] /\ s.elements[e] \subseteq {Writer} \X Nat

LEMMA SetParts ==
  ASSUME NEW H, LogHistory(H), NEW X, X \subseteq 1..Len(H), NEW n
  PROVE  SetState(ShownSet(H, X, n))
<1>0. PICK s : s = ShownSet(H, X, n)
  OBVIOUS
<1>1. s = [elements   |-> [e \in Elem |-> {LogDot(H, X, n, i) : i \in AddsAt(H, X, n, e)}],
           tombstones |-> [e \in Elem |-> {LogDot(H, X, n, i) : i \in Gone(H, X, n, e)}],
           counters   |-> Solo(Number(H, X, n, "add"))]
  BY <1>0 DEF ShownSet
<1>2. \A e \in Elem : /\ s.elements[e] = {LogDot(H, X, n, i) : i \in AddsAt(H, X, n, e)}
                      /\ s.tombstones[e] = {LogDot(H, X, n, i) : i \in Gone(H, X, n, e)}
  BY <1>1
<1>3. /\ s = [elements |-> s.elements, tombstones |-> s.tombstones, counters |-> s.counters]
      /\ s.elements = [e \in Elem |-> s.elements[e]]
      /\ s.tombstones = [e \in Elem |-> s.tombstones[e]]
      /\ s.counters = Solo(Number(H, X, n, "add"))
  BY <1>1
<1>4. s.counters = [a \in Actor |-> s.counters[a]]
  BY <1>3 DEF Solo
<1>5. ASSUME NEW e \in Elem
      PROVE  s.tombstones[e] \subseteq s.elements[e] /\ s.elements[e] \subseteq {Writer} \X Nat
  <2>1. Gone(H, X, n, e) \subseteq AddsAt(H, X, n, e) /\ AddsAt(H, X, n, e) \subseteq NamedAt(H, X, n, "add")
    BY DEF Gone, AddsAt
  <2>2. \A i \in NamedAt(H, X, n, "add") : LogDot(H, X, n, i) \in {Writer} \X Nat
    <3>1. Len(H) \in Nat
      BY HistoryTypes
    <3> QED
      BY <3>1, DotNumbers
  <2> QED
    BY <1>2, <2>1, <2>2
<1> QED
  BY <1>0, <1>3, <1>4, <1>5 DEF SetState

SetDots(s) == UNION {s.elements[e] : e \in Elem}
NextNumbers(dots, a) == {0} \cup {d[2] + 1 : d \in {x \in dots : x[1] = a}}

(* The counter a codec rebuilds from the dots it finds.                    *)
LEMMA DotsCounted ==
  ASSUME NEW H, LogHistory(H), NEW X, X \subseteq 1..Len(H), NEW n, NEW a \in Actor
  PROVE  Max(NextNumbers(SetDots(ShownSet(H, X, n)), a)) = ShownSet(H, X, n).counters[a]
<1>0. PICK s : s = ShownSet(H, X, n)
  OBVIOUS
<1> DEFINE All == SetDots(s)
           M == NextNumbers(All, a)
           A == NamedAt(H, X, n, "add")
           D(i) == LogDot(H, X, n, i)
           N == Number(H, X, n, "add")
<1> SUFFICES Max(M) = s.counters[a]
  BY <1>0
<1>1. Len(H) \in Nat
  BY HistoryTypes
<1>2. /\ \A i \in A : D(i)[1] = Writer /\ D(i)[2] \in Nat /\ D(i)[2] + 1 <= N
      /\ N > 0 => \E i \in A : D(i)[2] + 1 = N
      /\ N \in Nat
  <2>1. N \in Nat
    BY <1>1, NamedTypes
  <2>2. \A i \in A : D(i)[1] = Writer /\ D(i)[2] \in Nat /\ D(i)[2] + 1 <= N
    BY <1>1, DotNumbers
  <2>3. N > 0 => \E i \in A : D(i)[2] + 1 = N
    BY <1>1, DotNumbers
  <2> QED
    BY <2>1, <2>2, <2>3
<1>3. \A i \in A : \E e \in Elem : i \in AddsAt(H, X, n, e)
  <2>1. \A i \in A : i \in X /\ H[i].elem \in Elem
    BY InHistory DEF NamedAt
  <2> QED
    BY <2>1 DEF AddsAt
<1>4. \A e \in Elem : \A i \in AddsAt(H, X, n, e) : i \in A
  BY DEF AddsAt
<1>5. \A d : d \in All <=> \E i \in A : d = D(i)
  <2>0. \A d : d \in All <=> \E e \in Elem : d \in s.elements[e]
    BY DEF SetDots
  <2> HIDE DEF All
  <2>1. \A e \in Elem : s.elements[e] = {D(i) : i \in AddsAt(H, X, n, e)}
    BY <1>0 DEF ShownSet
  <2> HIDE DEF A, D
  <2> TAKE d
  <2>2. ASSUME d \in All
        PROVE  \E i \in A : d = D(i)
    <3>1. PICK e \in Elem : d \in s.elements[e]
      BY <2>0, <2>2
    <3>2. PICK i \in AddsAt(H, X, n, e) : d = D(i)
      BY <2>1, <3>1
    <3> QED
      BY <1>4, <3>2
  <2>3. ASSUME NEW i \in A, d = D(i)
        PROVE  d \in All
    <3>1. PICK e \in Elem : i \in AddsAt(H, X, n, e)
      BY <1>3
    <3>2. d \in s.elements[e]
      BY <2>1, <2>3, <3>1
    <3> QED
      BY <2>0, <3>2
  <2> QED
    BY <2>2, <2>3
<1>6. s.counters[a] = IF a = Writer THEN N ELSE 0
  <2>1. s.counters = Solo(N)
    BY <1>0 DEF ShownSet
  <2> QED
    BY <2>1 DEF Solo
<1> HIDE DEF A, D, N
<1> HIDE DEF All
<1>7. \A x : x \in M <=> x = 0 \/ \E i \in A : D(i)[1] = a /\ x = D(i)[2] + 1
  BY <1>5 DEF NextNumbers
<1> HIDE DEF M
<1>8. CASE a = Writer
  <2>1. \A x \in M : x \in Nat /\ x <= N
    <3> TAKE x \in M
    <3>1. CASE x = 0
      BY <1>2, <3>1
    <3>2. CASE \E i \in A : D(i)[1] = a /\ x = D(i)[2] + 1
      BY <1>2, <3>2
    <3> QED
      BY <1>7, <3>1, <3>2
  <2>2. N \in M
    <3>1. CASE N = 0
      BY <1>7, <3>1
    <3>2. CASE N > 0
      BY <1>2, <1>7, <1>8, <3>2
    <3> QED
      BY <1>2, <3>1, <3>2
  <2>3. M \subseteq Nat /\ M # {} /\ \A x \in M : x <= N
    BY <2>1, <2>2
  <2>4. Max(M) \in M /\ Max(M) \in Nat /\ \A y \in M : y <= Max(M)
    BY <1>2, <2>3, MaxOfBounded
  <2>5. Max(M) <= N /\ N <= Max(M)
    BY <2>1, <2>2, <2>4
  <2> QED
    BY <1>2, <1>6, <1>8, <2>4, <2>5
<1>9. CASE a # Writer
  <2>1. \A x : x \in M <=> x = 0
    BY <1>2, <1>7, <1>9
  <2>2. M = {0}
    BY <2>1
  <2>3. Max({0}) = 0
    BY DEF Max
  <2> QED
    BY <1>6, <1>9, <2>2, <2>3
<1> QED
  BY <1>8, <1>9

(* The log's payload says all that an observed-remove set shows.           *)
LEMMA SetCodec ==
  ASSUME NEW H, LogHistory(H), NEW X, X \subseteq 1..Len(H), NEW n, NEW s, s = ShownSet(H, X, n)
  PROVE  OrParse(OrBytes(s)) = s
<1> DEFINE t == OrParse(OrBytes(s))
           All == UNION {b.add \cup b.rem : b \in OrBytes(s)}
<1>0. /\ s = [elements |-> s.elements, tombstones |-> s.tombstones, counters |-> s.counters]
      /\ s.elements = [e \in Elem |-> s.elements[e]]
      /\ s.tombstones = [e \in Elem |-> s.tombstones[e]]
      /\ s.counters = [a \in Actor |-> s.counters[a]]
  <2>1. SetState(s)
    BY SetParts
  <2> QED
    BY <2>1 DEF SetState
<1>1. \A e \in Elem : s.tombstones[e] \subseteq s.elements[e]
  <2>1. SetState(s)
    BY SetParts
  <2> QED
    BY <2>1 DEF SetState
<1>2. ASSUME NEW e \in Elem
      PROVE  /\ UNION {b.add : b \in {x \in OrBytes(s) : x.elem = e}} = s.elements[e]
             /\ UNION {b.rem : b \in {x \in OrBytes(s) : x.elem = e}} = s.tombstones[e]
  <2>1. CASE e \in OrKeys(s)
    <3> DEFINE b == [elem |-> e, add |-> s.elements[e], rem |-> s.tombstones[e]]
    <3>1. b \in OrBytes(s) /\ b.elem = e
      BY <2>1 DEF OrBytes
    <3>2. \A x \in OrBytes(s) : x.elem = e => x = b
      BY DEF OrBytes
    <3>3. b.add = s.elements[e] /\ b.rem = s.tombstones[e]
      OBVIOUS
    <3> HIDE DEF b
    <3>4. {x \in OrBytes(s) : x.elem = e} = {b}
      BY <3>1, <3>2
    <3> QED
      BY <3>3, <3>4
  <2>2. CASE e \notin OrKeys(s)
    <3>1. {x \in OrBytes(s) : x.elem = e} = {}
      BY <2>2 DEF OrBytes
    <3>2. s.elements[e] = {} /\ s.tombstones[e] = {}
      BY <2>2 DEF OrKeys
    <3> QED
      BY <3>1, <3>2
  <2> QED
    BY <2>1, <2>2
<1>3. \A d : d \in All <=> \E e \in Elem : d \in s.elements[e]
  <2> TAKE d
  <2>1. ASSUME d \in All PROVE \E e \in Elem : d \in s.elements[e]
    <3>1. PICK e \in Elem : d \in s.elements[e] \/ d \in s.tombstones[e]
      BY <2>1 DEF OrBytes, OrKeys
    <3> QED
      BY <1>1, <3>1
  <2>2. ASSUME NEW e \in Elem, d \in s.elements[e] PROVE d \in All
    <3> DEFINE b == [elem |-> e, add |-> s.elements[e], rem |-> s.tombstones[e]]
    <3>1. e \in OrKeys(s)
      BY <2>2 DEF OrKeys
    <3>2. b \in OrBytes(s) /\ b.add = s.elements[e]
      BY <3>1 DEF OrBytes
    <3> HIDE DEF b
    <3> QED
      BY <2>2, <3>2
  <2> QED
    BY <2>1, <2>2
<1>4. t = [elements   |-> [e \in Elem |-> UNION {b.add : b \in {x \in OrBytes(s) : x.elem = e}}],
           tombstones |-> [e \in Elem |-> UNION {b.rem : b \in {x \in OrBytes(s) : x.elem = e}}],
           counters   |-> [a \in Actor |-> Max(NextNumbers(All, a))]]
  BY DEF OrParse, NextNumbers
<1>5. \A a \in Actor : Max(NextNumbers(All, a)) = s.counters[a]
  <2>1. All = SetDots(s)
    BY <1>3 DEF SetDots
  <2> HIDE DEF All
  <2>2. \A a \in Actor : Max(NextNumbers(SetDots(s), a)) = s.counters[a]
    BY DotsCounted
  <2> QED
    BY <2>1, <2>2
<1> HIDE DEF All
<1>6. PICK f : f = [e \in Elem |-> UNION {b.add : b \in {x \in OrBytes(s) : x.elem = e}}]
  OBVIOUS
<1>7. PICK g : g = [e \in Elem |-> UNION {b.rem : b \in {x \in OrBytes(s) : x.elem = e}}]
  OBVIOUS
<1>8. PICK h : h = [a \in Actor |-> Max(NextNumbers(All, a))]
  OBVIOUS
<1>9. f = s.elements
  BY <1>0, <1>2, <1>6
<1>10. g = s.tombstones
  BY <1>0, <1>2, <1>7
<1>11. h = s.counters
  BY <1>0, <1>5, <1>8
<1>12. t = [elements |-> f, tombstones |-> g, counters |-> h]
  BY <1>4, <1>6, <1>7, <1>8
<1> HIDE DEF t
<1>13. t = s
  BY <1>0, <1>9, <1>10, <1>11, <1>12
<1> QED
  BY <1>13 DEF t

(* A register's stamp is one a codec keeps.                                *)
LEMMA RegCodec ==
  ASSUME NEW H, LogHistory(H), NEW X, X \subseteq 1..Len(H), NEW n, NEW s, s = ShownReg(H, X, n)
  PROVE  /\ s = [hlc |-> s.hlc, actor |-> s.actor, value |-> s.value]
         /\ from_parts(physical_ns(s.hlc), logical(s.hlc)) = s.hlc
<1> DEFINE U == NamedAt(H, X, n, "update")
<1>1. s = IF U = {} THEN DefaultReg ELSE Stamped(Max(U))
  BY DEF ShownReg
<1>2. \A i \in U : i \in Nat /\ i <= MaxUpdates /\ i \in 1..MaxUpdates
  BY InHistory, StampGrows DEF NamedAt
<1> HIDE DEF U
<1>3. CASE U = {}
  <2>1. s = DefaultReg
    BY <1>1, <1>3
  <2>2. 0 \in Times
    BY ClockRange DEF Times
  <2>3. s = [hlc |-> 0, actor |-> NoActor, value |-> NoValue]
    BY <2>1 DEF DefaultReg
  <2>4. s.hlc = 0 /\ s = [hlc |-> s.hlc, actor |-> s.actor, value |-> s.value]
    BY <2>3
  <2>5. from_parts(physical_ns(0), logical(0)) = 0
    BY <2>2, CodecKeepsTime
  <2> QED
    BY <2>4, <2>5
<1>4. CASE U # {}
  <2>1. Max(U) \in U
    <3>1. U \subseteq Nat /\ \A i \in U : i <= MaxUpdates
      BY <1>2
    <3> QED
      BY <1>4, <3>1, StampGrows, MaxOfBounded
  <2>2. PICK u : u = Max(U)
    OBVIOUS
  <2>3. u \in 1..MaxUpdates
    BY <1>2, <2>1, <2>2
  <2>4. s = [hlc |-> from_parts(1, u), actor |-> Writer, value |-> u]
    BY <1>1, <1>4, <2>2 DEF Stamped
  <2>5. PICK h \in Times : h = from_parts(1, u)
    BY <2>3, StampGrows
  <2>6. s.hlc = h /\ s = [hlc |-> s.hlc, actor |-> s.actor, value |-> s.value]
    BY <2>4, <2>5
  <2>7. from_parts(physical_ns(h), logical(h)) = h
    BY CodecKeepsTime
  <2> QED
    BY <2>6, <2>7
<1> QED
  BY <1>3, <1>4

(* A record's payload says all that its updates show.                      *)
LEMMA PayloadSays ==
  ASSUME NEW H, LogHistory(H), NEW k \in {"GCOUNTER", "PNCOUNTER", "LWW_REG", "ORSET"},
         NEW X, X \subseteq 1..Len(H), NEW n
  PROVE  deserialize_payload(k, ToBytes(k, Shown(H, k, X, n))) = Shown(H, k, X, n)
<1>1. \A nm : GParse(GBytes(Solo(Number(H, X, n, nm)))) = Solo(Number(H, X, n, nm))
  <2> TAKE nm
  <2>1. Len(H) \in Nat
    BY HistoryTypes
  <2>2. Number(H, X, n, nm) \in Nat
    BY <2>1, NamedTypes
  <2> QED
    BY <2>2, SoloType, CodecKeepsCounts
<1>2. PICK s : s = Shown(H, k, X, n)
  OBVIOUS
<1>3. CASE k = "GCOUNTER"
  <2>1. s = Solo(Number(H, X, n, "inc"))
    BY <1>2, <1>3 DEF Shown
  <2>2. deserialize_payload(k, ToBytes(k, s)) = GParse(GBytes(s))
    BY <1>3 DEF deserialize_payload, ToBytes
  <2> QED
    BY <1>1, <1>2, <2>1, <2>2
<1>4. CASE k = "PNCOUNTER"
  <2>1. s = [p |-> Solo(Number(H, X, n, "inc")), n |-> Solo(Number(H, X, n, "dec"))]
    BY <1>2, <1>4 DEF Shown
  <2>2. deserialize_payload(k, ToBytes(k, s)) = [p |-> GParse(GBytes(s.p)), n |-> GParse(GBytes(s.n))]
    BY <1>4 DEF deserialize_payload, ToBytes
  <2>3. GParse(GBytes(s.p)) = s.p /\ GParse(GBytes(s.n)) = s.n
    BY <1>1, <2>1
  <2>4. s = [p |-> s.p, n |-> s.n]
    BY <2>1
  <2> QED
    BY <1>2, <2>2, <2>3, <2>4
<1>5. CASE k = "LWW_REG"
  <2>1. s = ShownReg(H, X, n)
    BY <1>2, <1>5 DEF Shown
  <2>2. deserialize_payload(k, ToBytes(k, s)) = LwwParse(LwwBytes(s))
    BY <1>5 DEF deserialize_payload, ToBytes
  <2>3. /\ s = [hlc |-> s.hlc, actor |-> s.actor, value |-> s.value]
        /\ from_parts(physical_ns(s.hlc), logical(s.hlc)) = s.hlc
    BY <2>1, RegCodec
  <2>4. LwwParse(LwwBytes(s)) = s
    BY <2>3 DEF LwwParse, LwwBytes
  <2> QED
    BY <1>2, <2>2, <2>4
<1>6. CASE k = "ORSET"
  <2>1. s = ShownSet(H, X, n)
    BY <1>2, <1>6 DEF Shown
  <2>2. deserialize_payload(k, ToBytes(k, s)) = OrParse(OrBytes(s))
    BY <1>6 DEF deserialize_payload, ToBytes
  <2>3. OrParse(OrBytes(s)) = s
    BY <2>1, SetCodec
  <2> QED
    BY <1>2, <2>2, <2>3
<1> QED
  BY <1>3, <1>4, <1>5, <1>6

-----------------------------------------------------------------------------
(* A loop over a set, in any order.                                        *)

(* Two ways to consume a finite set that agree on one element more agree.  *)
LEMMA SameFold ==
  ASSUME NEW S, IsFiniteSet(S), NEW f, NEW g, f[{}] = g[{}],
         \A s \in SUBSET S : s # {} => \E x \in s : f[s \ {x}] = g[s \ {x}] => f[s] = g[s]
  PROVE  f[S] = g[S]
<1> DEFINE T == {k \in 0..Cardinality(S) : \A s \in SUBSET S : Cardinality(s) = k => f[s] = g[s]}
<1>0. PICK n \in Nat : n = Cardinality(S)
  BY FS_CardinalityType
<1>1. \A s \in SUBSET S : IsFiniteSet(s) /\ Cardinality(s) \in Nat
  BY FS_Subset, FS_CardinalityType
<1>2. 0 \in T
  <2>1. ASSUME NEW s \in SUBSET S, Cardinality(s) = 0
        PROVE  f[s] = g[s]
    <3>1. s = {}
      BY <1>1, <2>1, FS_EmptySet
    <3> QED
      BY <3>1
  <2> QED
    BY <1>0, <2>1
<1>3. ASSUME NEW k \in 1..n, k - 1 \in T
      PROVE  k \in T
  <2>1. ASSUME NEW s \in SUBSET S, Cardinality(s) = k
        PROVE  f[s] = g[s]
    <3>1. s # {}
      BY <2>1, FS_EmptySet
    <3>2. PICK x \in s : f[s \ {x}] = g[s \ {x}] => f[s] = g[s]
      BY <3>1
    <3>3. s \ {x} \in SUBSET S /\ Cardinality(s \ {x}) = k - 1
      BY <1>1, <2>1, FS_RemoveElement
    <3>4. f[s \ {x}] = g[s \ {x}]
      BY <1>3, <3>3
    <3> QED
      BY <3>2, <3>4
  <2>2. k \in 0..Cardinality(S)
    BY <1>0
  <2> QED
    BY <2>1, <2>2
<1> HIDE DEF T
<1>4. \A k \in 0..n : k \in T
  BY <1>2, <1>3, Climb
<1>5. n \in T
  BY <1>4
<1> QED
  BY <1>0, <1>5 DEF T

(* A snapshot's counter comes back.                                        *)
LEMMA CounterSnapshot ==
  ASSUME NEW c \in Nat
  PROVE  deserialize_gcounter(serialize_gcounter(Solo(c))) = Solo(c)
<1> DEFINE S == serialize_gcounter(Solo(c))
           q == <<Writer, c>>
           Is(f) == f = [s \in SUBSET S |-> IF s = {} THEN Zero
                                            ELSE GInc(f[s \ {CHOOSE x \in s : TRUE}],
                                                      (CHOOSE x \in s : TRUE)[1], (CHOOSE x \in s : TRUE)[2])]
<1>0. deserialize_gcounter(S) = (CHOOSE f : Is(f))[S]
  BY DEF deserialize_gcounter, FoldSet, MapThenFoldSet
<1>1. Writer \in Actor /\ \A a \in Actor : Solo(c)[a] = IF a = Writer THEN c ELSE 0
  BY LogAssumption DEF Solo
<1>2. S = IF c > 0 THEN {q} ELSE {}
  <2>1. S = {<<a, Solo(c)[a]>> : a \in {b \in Actor : Solo(c)[b] > 0}}
    BY DEF serialize_gcounter
  <2>2. {b \in Actor : Solo(c)[b] > 0} = IF c > 0 THEN {Writer} ELSE {}
    BY <1>1
  <2>3. CASE c > 0
    BY <1>1, <2>1, <2>2, <2>3
  <2>4. CASE ~(c > 0)
    BY <2>1, <2>2, <2>4
  <2> QED
    BY <2>3, <2>4
<1>3. GInc(Zero, Writer, c) = Solo(c)
  <2>1. GInc(Zero, Writer, c) = [Zero EXCEPT ![Writer] = Zero[Writer] + c]
    BY DEF GInc
  <2>2. Zero = [a \in Actor |-> 0]
    BY DEF Zero
  <2>3. [Zero EXCEPT ![Writer] = Zero[Writer] + c] = [a \in Actor |-> IF a = Writer THEN c ELSE 0]
    BY <1>1, <2>2
  <2> QED
    BY <2>1, <2>3 DEF Solo
<1> HIDE DEF S
<1>4. \E f : Is(f)
  <2> DEFINE h == [s \in SUBSET S |-> IF s = {} THEN Zero ELSE Solo(c)]
  <2>1. ASSUME NEW s \in SUBSET S, s # {}
        PROVE  h[s] = GInc(h[s \ {CHOOSE x \in s : TRUE}], (CHOOSE x \in s : TRUE)[1], (CHOOSE x \in s : TRUE)[2])
    <3>1. s = {q} /\ S = {q}
      BY <1>2, <2>1
    <3>2. (CHOOSE x \in s : TRUE) = q
      BY <3>1
    <3>3. q[1] = Writer /\ q[2] = c /\ s \ {q} = {} /\ {} \in SUBSET S
      BY <3>1
    <3>4. h[{}] = Zero /\ h[s] = Solo(c)
      BY <2>1
    <3> HIDE DEF h, q
    <3> QED
      BY <1>3, <3>2, <3>3, <3>4
  <2>2. h[{}] = Zero /\ h = [s \in SUBSET S |-> h[s]]
    OBVIOUS
  <2> HIDE DEF h
  <2>3. Is(h)
    BY <2>1, <2>2
  <2> QED
    BY <2>3
<1>5. PICK g : g = CHOOSE f : Is(f)
  OBVIOUS
<1>6. Is(g)
  BY <1>4, <1>5
<1>7. g[{}] = Zero
  BY <1>6
<1>8. CASE c > 0
  <2>1. S = {q} /\ S \in SUBSET S /\ S # {}
    BY <1>2, <1>8
  <2>2. (CHOOSE x \in S : TRUE) = q
    BY <2>1
  <2>3. q[1] = Writer /\ q[2] = c /\ S \ {q} = {}
    BY <2>1
  <2>4. g[S] = GInc(g[S \ {CHOOSE x \in S : TRUE}], (CHOOSE x \in S : TRUE)[1], (CHOOSE x \in S : TRUE)[2])
    BY <1>6, <2>1
  <2> HIDE DEF q
  <2>5. g[S] = GInc(g[{}], Writer, c)
    <3>1. PICK y : y = CHOOSE x \in S : TRUE
      OBVIOUS
    <3>2. y[1] = Writer /\ y[2] = c /\ S \ {y} = {}
      BY <2>2, <2>3, <3>1
    <3>3. g[S] = GInc(g[S \ {y}], y[1], y[2])
      BY <2>4, <3>1
    <3> QED
      BY <3>2, <3>3
  <2>6. deserialize_gcounter(S) = g[S]
    BY <1>0, <1>5
  <2> QED
    BY <1>3, <1>7, <2>5, <2>6 DEF S
<1>9. CASE c = 0
  <2>1. S = {}
    BY <1>2, <1>9
  <2>2. Solo(c) = Zero
    BY <1>9 DEF Solo, Zero
  <2>3. deserialize_gcounter(S) = g[{}]
    BY <1>0, <1>5, <2>1
  <2> QED
    BY <1>7, <2>2, <2>3 DEF S
<1> QED
  BY <1>8, <1>9

-----------------------------------------------------------------------------
(* The snapshot of an observed-remove set.                                 *)

DotRec(B) == [elem : Elem, dot : {Writer} \X (0..B)]
DotSet(B, D) == D \subseteq DotRec(B)
DotsFor(D, e) == {d.dot : d \in {x \in D : x.elem = e}}
DotsIn(D) == {d.dot : d \in D}

(* The number of an actor's next dot after those of D, and after one more.   *)
NextDot(D, a) == Max(NextNumbers(DotsIn(D), a))
DotCounts(D, d, a) ==
    NextDot(D \cup {d}, a) = IF a = Writer THEN Max({NextDot(D, a), d.dot[2] + 1}) ELSE NextDot(D, a)

(* What the loader has built from the adds D and the removes R it took.    *)
Loaded(D, R) ==
    [elements   |-> [e \in Elem |-> DotsFor(D, e)],
     tombstones |-> [e \in Elem |-> DotsFor(R, e)],
     counters   |-> [a \in Actor |-> NextDot(D \cup R, a)]]

LEMMA MaxTakes ==
  ASSUME NEW B \in Nat, NEW S, S \subseteq 0..B, S # {}, NEW v \in 0..B
  PROVE  Max({Max(S), v}) = Max(S \cup {v})
<1>1. S \subseteq Nat /\ \A x \in S : x <= B
  OBVIOUS
<1>2. Max(S) \in S /\ \A y \in S : y <= Max(S)
  BY <1>1, MaxOfBounded
<1>3. PICK m \in 0..B : m = Max(S)
  BY <1>2
<1>4. PICK T : T = S \cup {v}
  OBVIOUS
<1>5. T \subseteq Nat /\ T # {} /\ \A x \in T : x <= B
  BY <1>4
<1>6. Max(T) \in T /\ \A y \in T : y <= Max(T)
  BY <1>5, MaxOfBounded
<1>7. PICK t \in Nat : t = Max(T)
  BY <1>5, <1>6
<1>8. m <= t /\ v <= t /\ (t = v \/ t <= m)
  BY <1>2, <1>3, <1>4, <1>6, <1>7
<1>9. Max({m, v}) = IF m >= v THEN m ELSE v
  BY MaxOfTwo
<1> QED
  BY <1>3, <1>4, <1>7, <1>8, <1>9

LEMMA DotTakes ==
  ASSUME NEW B \in Nat, NEW D, DotSet(B, D), NEW d \in DotRec(B), NEW a \in Actor
  PROVE  DotCounts(D, d, a)
<1>1. Writer \in Actor /\ D \subseteq DotRec(B)
  BY LogAssumption DEF DotSet
<1>2. d.elem \in Elem /\ d.dot \in {Writer} \X (0..B)
  BY DEF DotRec
<1>3. d.dot[1] = Writer /\ d.dot[2] \in 0..B
  BY <1>2
<1>4. \A x \in D : x.dot[1] = Writer /\ x.dot[2] \in 0..B
  <2> TAKE x \in D
  <2>1. x.dot \in {Writer} \X (0..B)
    BY <1>1 DEF DotRec
  <2> QED
    BY <2>1
<1>5. PICK M : M = NextNumbers(DotsIn(D), a)
  OBVIOUS
<1>6. PICK T : T = NextNumbers(DotsIn(D \cup {d}), a)
  OBVIOUS
<1>7. \A x : x \in M <=> x = 0 \/ \E y \in D : y.dot[1] = a /\ x = y.dot[2] + 1
  BY <1>5 DEF NextNumbers, DotsIn
<1>8. \A x : x \in T <=> x = 0 \/ \E y \in D \cup {d} : y.dot[1] = a /\ x = y.dot[2] + 1
  BY <1>6 DEF NextNumbers, DotsIn
<1>9. M \subseteq 0..(B + 1) /\ M # {}
  BY <1>4, <1>7
<1>10. ASSUME a = Writer
       PROVE  Max(NextNumbers(DotsIn(D \cup {d}), a)) = Max({Max(NextNumbers(DotsIn(D), a)), d.dot[2] + 1})
  <2>1. PICK v \in 0..(B + 1) : v = d.dot[2] + 1
    BY <1>3
  <2>a. \A x : x \in T <=> x \in M \/ x = v
    <3> TAKE x
    <3>1. ASSUME x \in T PROVE x \in M \/ x = v
      <4>1. CASE x = 0
        BY <1>7, <4>1
      <4>2. ASSUME NEW y \in D \cup {d}, y.dot[1] = a, x = y.dot[2] + 1
            PROVE  x \in M \/ x = v
        BY <1>7, <2>1, <4>2
      <4> QED
        BY <1>8, <3>1, <4>1, <4>2
    <3>2. ASSUME x \in M PROVE x \in T
      BY <1>7, <1>8, <3>2
    <3>3. ASSUME x = v PROVE x \in T
      <4>1. d \in D \cup {d} /\ d.dot[1] = a /\ x = d.dot[2] + 1
        BY <1>3, <1>10, <2>1, <3>3
      <4> QED
        BY <1>8, <4>1
    <3> QED
      BY <3>1, <3>2, <3>3
  <2>2. T = M \cup {v}
    BY <2>a
  <2>3. Max({Max(M), v}) = Max(M \cup {v})
    BY <1>9, MaxTakes, B + 1 \in Nat
  <2> QED
    BY <1>5, <1>6, <1>10, <2>1, <2>2, <2>3
<1>11. ASSUME a # Writer
       PROVE  Max(NextNumbers(DotsIn(D \cup {d}), a)) = Max(NextNumbers(DotsIn(D), a))
  <2>a. \A x : x \in T <=> x \in M
    <3> TAKE x
    <3>1. ASSUME x \in T PROVE x \in M
      <4>1. CASE x = 0
        BY <1>7, <4>1
      <4>2. ASSUME NEW y \in D \cup {d}, y.dot[1] = a, x = y.dot[2] + 1
            PROVE  x \in M
        <5>1. y \in D
          BY <1>3, <1>11, <4>2
        <5> QED
          BY <1>7, <4>2, <5>1
      <4> QED
        BY <1>8, <3>1, <4>1, <4>2
    <3>2. ASSUME x \in M PROVE x \in T
      BY <1>7, <1>8, <3>2
    <3> QED
      BY <3>1, <3>2
  <2>1. T = M
    BY <2>a
  <2> QED
    BY <1>5, <1>6, <1>11, <2>1
<1>12. NextDot(D \cup {d}, a) = Max(NextNumbers(DotsIn(D \cup {d}), a))
       /\ NextDot(D, a) = Max(NextNumbers(DotsIn(D), a))
  BY DEF NextDot
<1> QED
  BY <1>10, <1>11, <1>12 DEF DotCounts

LEMMA DotPlaced ==
  ASSUME NEW D, NEW d, NEW e
  PROVE  DotsFor(D \cup {d}, e) = IF e = d.elem THEN DotsFor(D, e) \cup {d.dot} ELSE DotsFor(D, e)
<1>1. \A x : x \in DotsFor(D, e) <=> \E y \in D : y.elem = e /\ x = y.dot
  BY DEF DotsFor
<1>2. \A x : x \in DotsFor(D \cup {d}, e) <=> \E y \in D \cup {d} : y.elem = e /\ x = y.dot
  BY DEF DotsFor
<1>3. CASE e = d.elem
  <2>1. \A x : x \in DotsFor(D \cup {d}, e) <=> x \in DotsFor(D, e) \cup {d.dot}
    BY <1>1, <1>2, <1>3
  <2> QED
    BY <1>3, <2>1
<1>4. CASE e # d.elem
  <2>1. \A x : x \in DotsFor(D \cup {d}, e) <=> x \in DotsFor(D, e)
    BY <1>1, <1>2, <1>4
  <2> QED
    BY <1>4, <2>1
<1> QED
  BY <1>3, <1>4

(* One dot more.                                                           *)
TakesDot(D, R, d) == /\ AddDot(Loaded(D, R), d) = Loaded(D \cup {d}, R)
                     /\ RemoveDot(Loaded(D, R), d) = Loaded(D, R \cup {d})
LEMMA LoadedTakes ==
  ASSUME NEW B \in Nat, NEW D, DotSet(B, D), NEW R, DotSet(B, R), NEW d \in DotRec(B)
  PROVE  TakesDot(D, R, d)
<1>1. PICK L : L = Loaded(D, R)
  OBVIOUS
<1>2. PICK w : w = d.dot[2] + 1
  OBVIOUS
<1>3. PICK e1 \in Elem : e1 = d.elem
  BY DEF DotRec
<1>a. d.dot[1] = Writer /\ Writer \in Actor
  <2>1. d.dot \in {Writer} \X (0..B)
    BY DEF DotRec
  <2> QED
    BY <2>1, LogAssumption
<1>4. PICK f : f = [e \in Elem |-> DotsFor(D, e)]
  OBVIOUS
<1>5. PICK g : g = [e \in Elem |-> DotsFor(R, e)]
  OBVIOUS
<1>6. PICK h : h = [a \in Actor |-> NextDot(D \cup R, a)]
  OBVIOUS
<1>7. PICK x : x = d.dot
  OBVIOUS
<1>8. L = [elements |-> f, tombstones |-> g, counters |-> h]
  BY <1>1, <1>4, <1>5, <1>6 DEF Loaded
<1>9. (D \cup {d}) \cup R = (D \cup R) \cup {d}
      /\ D \cup (R \cup {d}) = (D \cup R) \cup {d}
  OBVIOUS
<1>10. PICK h2 : h2 = [a \in Actor |-> IF a = Writer THEN Max({h[a], w}) ELSE h[a]]
  OBVIOUS
<1>11. h2 = [a \in Actor |-> NextDot((D \cup R) \cup {d}, a)]
  <2>1. \A a \in Actor : NextDot((D \cup R) \cup {d}, a) = IF a = Writer THEN Max({h[a], w}) ELSE h[a]
    <3> TAKE a \in Actor
    <3>1. PICK E : E = D \cup R /\ DotSet(B, E)
      BY DEF DotSet
    <3>2. DotCounts(E, d, a)
      BY <3>1, DotTakes
    <3>3. h[a] = NextDot(D \cup R, a)
      BY <1>6
    <3> QED
      BY <1>2, <3>1, <3>2, <3>3 DEF DotCounts
  <2> QED
    BY <1>10, <2>1
<1>12. PICK f2 : f2 = [e \in Elem |-> IF e = e1 THEN f[e] \cup {x} ELSE f[e]]
  OBVIOUS
<1>13. PICK g2 : g2 = [e \in Elem |-> IF e = e1 THEN g[e] \cup {x} ELSE g[e]]
  OBVIOUS
<1>14. f2 = [e \in Elem |-> DotsFor(D \cup {d}, e)]
  <2>1. \A e \in Elem : DotsFor(D \cup {d}, e) = IF e = d.elem THEN DotsFor(D, e) \cup {d.dot} ELSE DotsFor(D, e)
    BY DotPlaced
  <2> QED
    BY <1>3, <1>4, <1>7, <1>12, <2>1
<1>15. g2 = [e \in Elem |-> DotsFor(R \cup {d}, e)]
  <2>1. \A e \in Elem : DotsFor(R \cup {d}, e) = IF e = d.elem THEN DotsFor(R, e) \cup {d.dot} ELSE DotsFor(R, e)
    BY DotPlaced
  <2> QED
    BY <1>3, <1>5, <1>7, <1>13, <2>1
<1>16. [f EXCEPT ![e1] = f[e1] \cup {x}] = f2 /\ [g EXCEPT ![e1] = g[e1] \cup {x}] = g2
  BY <1>4, <1>5, <1>12, <1>13
<1>17. [h EXCEPT ![Writer] = Max({h[Writer], w})] = h2
  BY <1>6, <1>10
<1>18. AddDot(L, d) = [elements |-> f2, tombstones |-> g, counters |-> h2]
  <2>1. PICK u : u = AddDot(L, d)
    OBVIOUS
  <2>2. u = [[L EXCEPT !.elements = [f EXCEPT ![e1] = f[e1] \cup {x}]]
               EXCEPT !.counters = [h EXCEPT ![Writer] = Max({h[Writer], w})]]
    BY <1>2, <1>3, <1>a, <1>7, <1>8, <2>1 DEF AddDot
  <2>3. u = [[L EXCEPT !.elements = f2] EXCEPT !.counters = h2]
    BY <1>16, <1>17, <2>2
  <2>4. u = [elements |-> f2, tombstones |-> g, counters |-> h2]
    BY <1>8, <2>3
  <2> QED
    BY <2>1, <2>4
<1>19. RemoveDot(L, d) = [elements |-> f, tombstones |-> g2, counters |-> h2]
  <2>1. PICK u : u = RemoveDot(L, d)
    OBVIOUS
  <2>2. u = [[L EXCEPT !.tombstones = [g EXCEPT ![e1] = g[e1] \cup {x}]]
               EXCEPT !.counters = [h EXCEPT ![Writer] = Max({h[Writer], w})]]
    BY <1>2, <1>3, <1>a, <1>7, <1>8, <2>1 DEF RemoveDot
  <2>3. u = [[L EXCEPT !.tombstones = g2] EXCEPT !.counters = h2]
    BY <1>16, <1>17, <2>2
  <2>4. u = [elements |-> f, tombstones |-> g2, counters |-> h2]
    BY <1>8, <2>3
  <2> QED
    BY <2>1, <2>4
<1>20. Loaded(D \cup {d}, R) = [elements |-> f2, tombstones |-> g, counters |-> h2]
  BY <1>5, <1>9, <1>11, <1>14 DEF Loaded
<1>21. Loaded(D, R \cup {d}) = [elements |-> f, tombstones |-> g2, counters |-> h2]
  BY <1>4, <1>9, <1>11, <1>15 DEF Loaded
<1> QED
  BY <1>1, <1>18, <1>19, <1>20, <1>21 DEF TakesDot


(* The two loops of the loader.                                            *)
LoadAdds(D) == FoldSet(LAMBDA d, s : AddDot(s, d), NewSet, D)
LoadRems(s0, R) == FoldSet(LAMBDA d, s : RemoveDot(s, d), s0, R)

LEMMA NothingLoaded == Loaded({}, {}) = NewSet
<1>1. ASSUME NEW a \in Actor PROVE NextDot({} \cup {}, a) = 0
  <2>1. NextNumbers(DotsIn({} \cup {}), a) = {0}
    BY DEF NextNumbers, DotsIn
  <2>2. Max({0}) = 0
    BY MaxOfTwo
  <2> QED
    BY <2>1, <2>2 DEF NextDot
<1>2. \A e \in Elem : DotsFor({}, e) = {}
  BY DEF DotsFor
<1>3. [a \in Actor |-> NextDot({} \cup {}, a)] = Zero
  BY <1>1 DEF Zero
<1>4. [e \in Elem |-> DotsFor({}, e)] = NoDots
  BY <1>2 DEF NoDots
<1> QED
  BY <1>3, <1>4 DEF Loaded, NewSet

LEMMA AddsLoaded ==
  ASSUME NEW B \in Nat, NEW S, DotSet(B, S), IsFiniteSet(S)
  PROVE  LoadAdds(S) = Loaded(S, {})
<1> DEFINE Pick(s) == CHOOSE x \in s : TRUE
           Is(f) == f = [s \in SUBSET S |-> IF s = {} THEN NewSet ELSE AddDot(f[s \ {Pick(s)}], Pick(s))]
           h == [s \in SUBSET S |-> Loaded(s, {})]
<1>1. LoadAdds(S) = (CHOOSE f : Is(f))[S]
  BY DEF LoadAdds, FoldSet, MapThenFoldSet
<1>2. \A s : s # {} => Pick(s) \in s
  OBVIOUS
<1> HIDE DEF Pick
<1>3. ASSUME NEW s \in SUBSET S, s # {}
      PROVE  h[s] = AddDot(h[s \ {Pick(s)}], Pick(s))
  <2>1. PICK d : d = Pick(s) /\ d \in s
    BY <1>2, <1>3
  <2>2. PICK t : t = s \ {d} /\ t \in SUBSET S /\ s = t \cup {d}
    <3>1. PICK t : t = s \ {d}
      OBVIOUS
    <3>2. \A x : x \in s <=> x \in t \cup {d}
      BY <2>1, <3>1
    <3>3. s = t \cup {d}
      BY <3>2
    <3> QED
      BY <3>1, <3>3
  <2>3. d \in DotRec(B) /\ DotSet(B, t) /\ DotSet(B, {})
    BY <2>1, <2>2 DEF DotSet
  <2>4. AddDot(Loaded(t, {}), d) = Loaded(t \cup {d}, {})
    <3>1. TakesDot(t, {}, d)
      BY <2>3, LoadedTakes
    <3> QED
      BY <3>1 DEF TakesDot
  <2>5. h[s] = Loaded(s, {}) /\ h[t] = Loaded(t, {})
    BY <2>2
  <2> HIDE DEF h
  <2> QED
    BY <2>1, <2>2, <2>4, <2>5
<1>4. h[{}] = NewSet
  BY NothingLoaded
<1>5. h = [s \in SUBSET S |-> h[s]] /\ h[S] = Loaded(S, {})
  OBVIOUS
<1> HIDE DEF h
<1>6. Is(h)
  BY <1>3, <1>4, <1>5
<1>7. PICK g : g = CHOOSE f : Is(f)
  OBVIOUS
<1>8. Is(g)
  BY <1>6, <1>7
<1>9. g[{}] = h[{}]
  BY <1>4, <1>8
<1>10. ASSUME NEW s \in SUBSET S, s # {}
       PROVE  \E x \in s : g[s \ {x}] = h[s \ {x}] => g[s] = h[s]
  <2>1. g[s] = AddDot(g[s \ {Pick(s)}], Pick(s))
    BY <1>8, <1>10
  <2>2. h[s] = AddDot(h[s \ {Pick(s)}], Pick(s))
    BY <1>3, <1>10
  <2>3. Pick(s) \in s
    BY <1>2, <1>10
  <2> HIDE DEF Is
  <2> QED
    BY <2>1, <2>2, <2>3
<1> HIDE DEF Is
<1>11. g[S] = h[S]
  BY <1>9, <1>10, SameFold
<1> QED
  BY <1>1, <1>5, <1>7, <1>11

LEMMA RemsLoaded ==
  ASSUME NEW B \in Nat, NEW D, DotSet(B, D), NEW S, DotSet(B, S), IsFiniteSet(S)
  PROVE  LoadRems(Loaded(D, {}), S) = Loaded(D, S)
<1> DEFINE Pick(s) == CHOOSE x \in s : TRUE
           Is(f) == f = [s \in SUBSET S |-> IF s = {} THEN Loaded(D, {}) ELSE RemoveDot(f[s \ {Pick(s)}], Pick(s))]
           h == [s \in SUBSET S |-> Loaded(D, s)]
<1>1. LoadRems(Loaded(D, {}), S) = (CHOOSE f : Is(f))[S]
  BY DEF LoadRems, FoldSet, MapThenFoldSet
<1>2. \A s : s # {} => Pick(s) \in s
  OBVIOUS
<1> HIDE DEF Pick
<1>3. ASSUME NEW s \in SUBSET S, s # {}
      PROVE  h[s] = RemoveDot(h[s \ {Pick(s)}], Pick(s))
  <2>1. PICK d : d = Pick(s) /\ d \in s
    BY <1>2, <1>3
  <2>2. PICK t : t = s \ {d} /\ t \in SUBSET S /\ s = t \cup {d}
    <3>1. PICK t : t = s \ {d}
      OBVIOUS
    <3>2. \A x : x \in s <=> x \in t \cup {d}
      BY <2>1, <3>1
    <3>3. s = t \cup {d}
      BY <3>2
    <3> QED
      BY <3>1, <3>3
  <2>3. d \in DotRec(B) /\ DotSet(B, t) /\ DotSet(B, {})
    BY <2>1, <2>2 DEF DotSet
  <2>4. RemoveDot(Loaded(D, t), d) = Loaded(D, t \cup {d})
    <3>1. TakesDot(D, t, d)
      BY <2>3, LoadedTakes
    <3> QED
      BY <3>1 DEF TakesDot
  <2>5. h[s] = Loaded(D, s) /\ h[t] = Loaded(D, t)
    BY <2>2
  <2> HIDE DEF h
  <2> QED
    BY <2>1, <2>2, <2>4, <2>5
<1>4. h[{}] = Loaded(D, {})
  BY \A s \in SUBSET S : h[s] = Loaded(D, s)
<1>5. h = [s \in SUBSET S |-> h[s]] /\ h[S] = Loaded(D, S)
  OBVIOUS
<1> HIDE DEF h
<1>6. Is(h)
  BY <1>3, <1>4, <1>5
<1>7. PICK g : g = CHOOSE f : Is(f)
  OBVIOUS
<1>8. Is(g)
  BY <1>6, <1>7
<1>9. g[{}] = h[{}]
  BY <1>4, <1>8
<1>10. ASSUME NEW s \in SUBSET S, s # {}
       PROVE  \E x \in s : g[s \ {x}] = h[s \ {x}] => g[s] = h[s]
  <2>1. g[s] = RemoveDot(g[s \ {Pick(s)}], Pick(s))
    BY <1>8, <1>10
  <2>2. h[s] = RemoveDot(h[s \ {Pick(s)}], Pick(s))
    BY <1>3, <1>10
  <2>3. Pick(s) \in s
    BY <1>2, <1>10
  <2> HIDE DEF Is
  <2> QED
    BY <2>1, <2>2, <2>3
<1> HIDE DEF Is
<1>11. g[S] = h[S]
  BY <1>9, <1>10, SameFold
<1> QED
  BY <1>1, <1>5, <1>7, <1>11

(* An observed-remove set comes back from its snapshot.                    *)
AddRecs(b) == {[elem |-> b.elem, dot |-> d] : d \in b.add}
RemRecs(b) == {[elem |-> b.elem, dot |-> d] : d \in b.rem}
AddsIn(bytes) == UNION {AddRecs(b) : b \in bytes}
RemsIn(bytes) == UNION {RemRecs(b) : b \in bytes}

LEMMA LoaderLoops ==
  ASSUME NEW bytes
  PROVE  deserialize_orset(bytes) = LoadRems(LoadAdds(AddsIn(bytes)), RemsIn(bytes))
BY DEF deserialize_orset, LoadRems, LoadAdds, AddsIn, RemsIn, AddRecs, RemRecs

LEMMA RecordsIn ==
  ASSUME NEW s, SetState(s), NEW bytes, bytes = serialize_orset(s)
  PROVE  /\ \A r : r \in AddsIn(bytes) <=> \E e \in Elem : \E d \in s.elements[e] : r = [elem |-> e, dot |-> d]
         /\ \A r : r \in RemsIn(bytes) <=> \E e \in Elem : \E d \in s.tombstones[e] : r = [elem |-> e, dot |-> d]
<1> DEFINE B(e) == [elem |-> e, add |-> s.elements[e], rem |-> s.tombstones[e]]
<1>1. \A b : b \in bytes <=> \E e \in Elem : s.elements[e] # {} /\ b = B(e)
  BY DEF serialize_orset
<1>2. \A e : B(e).elem = e /\ B(e).add = s.elements[e] /\ B(e).rem = s.tombstones[e]
  OBVIOUS
<1> HIDE DEF B
<1>3. \A e, r : r \in AddRecs(B(e)) <=> \E d \in s.elements[e] : r = [elem |-> e, dot |-> d]
  <2> TAKE e, r
  <2>1. r \in AddRecs(B(e)) <=> \E d \in B(e).add : r = [elem |-> B(e).elem, dot |-> d]
    BY DEF AddRecs
  <2> QED
    BY <1>2, <2>1
<1>4. \A e, r : r \in RemRecs(B(e)) <=> \E d \in s.tombstones[e] : r = [elem |-> e, dot |-> d]
  <2> TAKE e, r
  <2>1. r \in RemRecs(B(e)) <=> \E d \in B(e).rem : r = [elem |-> B(e).elem, dot |-> d]
    BY DEF RemRecs
  <2> QED
    BY <1>2, <2>1
<1>5. \A e \in Elem : s.tombstones[e] # {} => s.elements[e] # {}
  BY DEF SetState
<1>6. \A r : r \in AddsIn(bytes) <=> \E e \in Elem : \E d \in s.elements[e] : r = [elem |-> e, dot |-> d]
  <2> TAKE r
  <2>1. r \in AddsIn(bytes) <=> \E b \in bytes : r \in AddRecs(b)
    BY DEF AddsIn
  <2>2. ASSUME r \in AddsIn(bytes) PROVE \E e \in Elem : \E d \in s.elements[e] : r = [elem |-> e, dot |-> d]
    <3>1. PICK e \in Elem : r \in AddRecs(B(e))
      BY <1>1, <2>1, <2>2
    <3> QED
      BY <1>3, <3>1
  <2>3. ASSUME NEW e \in Elem, NEW d \in s.elements[e], r = [elem |-> e, dot |-> d] PROVE r \in AddsIn(bytes)
    <3>1. B(e) \in bytes
      BY <1>1, <2>3
    <3>2. r \in AddRecs(B(e))
      BY <1>3, <2>3
    <3> QED
      BY <2>1, <3>1, <3>2
  <2> QED
    BY <2>2, <2>3
<1>7. \A r : r \in RemsIn(bytes) <=> \E e \in Elem : \E d \in s.tombstones[e] : r = [elem |-> e, dot |-> d]
  <2> TAKE r
  <2>1. r \in RemsIn(bytes) <=> \E b \in bytes : r \in RemRecs(b)
    BY DEF RemsIn
  <2>2. ASSUME r \in RemsIn(bytes) PROVE \E e \in Elem : \E d \in s.tombstones[e] : r = [elem |-> e, dot |-> d]
    <3>1. PICK e \in Elem : r \in RemRecs(B(e))
      BY <1>1, <2>1, <2>2
    <3> QED
      BY <1>4, <3>1
  <2>3. ASSUME NEW e \in Elem, NEW d \in s.tombstones[e], r = [elem |-> e, dot |-> d] PROVE r \in RemsIn(bytes)
    <3>1. B(e) \in bytes
      BY <1>1, <1>5, <2>3
    <3>2. r \in RemRecs(B(e))
      BY <1>4, <2>3
    <3> QED
      BY <2>1, <3>1, <3>2
  <2> QED
    BY <2>2, <2>3
<1> QED
  BY <1>6, <1>7

(* Records of dots, grouped by element, are the dots again.                *)
LEMMA RecordsApart ==
  ASSUME NEW f, NEW D, \A r : r \in D <=> \E e \in Elem : \E d \in f[e] : r = [elem |-> e, dot |-> d]
  PROVE  /\ \A e \in Elem : DotsFor(D, e) = f[e]
         /\ DotsIn(D) = UNION {f[e] : e \in Elem}
<1>1. \A r \in D : r.elem \in Elem /\ r.dot \in f[r.elem]
  OBVIOUS
<1>2. \A e \in Elem : \A d \in f[e] : \E r \in D : r.elem = e /\ r.dot = d
  <2> TAKE e \in Elem
  <2> TAKE d \in f[e]
  <2>1. PICK r : r = [elem |-> e, dot |-> d]
    OBVIOUS
  <2>2. r \in D
    BY <2>1
  <2> QED
    BY <2>1, <2>2
<1>3. ASSUME NEW e \in Elem PROVE DotsFor(D, e) = f[e]
  <2>1. \A x : x \in DotsFor(D, e) <=> \E y \in D : y.elem = e /\ x = y.dot
    BY DEF DotsFor
  <2>2. \A x : x \in DotsFor(D, e) <=> x \in f[e]
    BY <1>1, <1>2, <2>1
  <2> QED
    BY <2>2
<1>4. DotsIn(D) = UNION {f[e] : e \in Elem}
  <2>1. \A x : x \in DotsIn(D) <=> \E y \in D : x = y.dot
    BY DEF DotsIn
  <2>2. \A x : x \in UNION {f[e] : e \in Elem} <=> \E e \in Elem : x \in f[e]
    OBVIOUS
  <2>3. \A x : x \in DotsIn(D) <=> x \in UNION {f[e] : e \in Elem}
    BY <1>1, <1>2, <2>1, <2>2
  <2> QED
    BY <2>3
<1> QED
  BY <1>3, <1>4

LEMMA SetSnapshot ==
  ASSUME NEW H, LogHistory(H), NEW X, X \subseteq 1..Len(H), NEW n
  PROVE  deserialize_orset(serialize_orset(ShownSet(H, X, n))) = ShownSet(H, X, n)
<1>1. PICK s : s = ShownSet(H, X, n)
  OBVIOUS
<1>2. PICK bytes : bytes = serialize_orset(s)
  OBVIOUS
<1>3. PICK D : D = AddsIn(bytes)
  OBVIOUS
<1>4. PICK R : R = RemsIn(bytes)
  OBVIOUS
<1>5. SetState(s)
  BY <1>1, SetParts
<1>6. \A r : r \in D <=> \E e \in Elem : \E d \in s.elements[e] : r = [elem |-> e, dot |-> d]
  BY <1>2, <1>3, <1>5, RecordsIn
<1>7. \A r : r \in R <=> \E e \in Elem : \E d \in s.tombstones[e] : r = [elem |-> e, dot |-> d]
  BY <1>2, <1>4, <1>5, RecordsIn
<1>8. \A e \in Elem : DotsFor(D, e) = s.elements[e]
  BY <1>6, RecordsApart
<1>9. \A e \in Elem : DotsFor(R, e) = s.tombstones[e]
  BY <1>7, RecordsApart
<1>10. R \subseteq D
  <2>1. \A e \in Elem : s.tombstones[e] \subseteq s.elements[e]
    BY <1>5 DEF SetState
  <2> QED
    BY <1>6, <1>7, <2>1
<1>11. D \cup R = D
  BY <1>10
<1>12. DotsIn(D) = SetDots(s)
  BY <1>6, RecordsApart DEF SetDots
<1> DEFINE A == NamedAt(H, X, n, "add")
           Of(i) == [elem |-> H[i].elem, dot |-> LogDot(H, X, n, i)]
           F == [i \in A |-> Of(i)]
<1>13. Len(H) \in Nat /\ Len(H) <= MaxUpdates /\ MaxUpdates \in Nat
  BY HistoryTypes, LogAssumption
<1>14. A \subseteq X /\ IsFiniteSet(A) /\ Number(H, X, n, "add") <= MaxUpdates /\ Number(H, X, n, "add") \in Nat
  <2>1. A \subseteq 1..Len(H) /\ A \subseteq X /\ IsFiniteSet(A) /\ Number(H, X, n, "add") \in Nat
    <3>1. PICK l \in Nat : l = Len(H) /\ X \subseteq 1..l
      BY <1>13
    <3>2. NamedAt(H, X, n, "add") \subseteq 1..l /\ NamedAt(H, X, n, "add") \subseteq X
      BY <3>1, NamedTypes
    <3>3. IsFiniteSet(NamedAt(H, X, n, "add")) /\ Number(H, X, n, "add") \in Nat
      BY <3>1, NamedTypes
    <3> QED
      BY <3>1, <3>2, <3>3
  <2>2. IsFiniteSet(1..Len(H)) /\ Cardinality(1..Len(H)) = Len(H)
    <3>1. PICK l \in Nat : l = Len(H)
      BY <1>13
    <3>2. IsFiniteSet(1..l) /\ Cardinality(1..l) = l
      BY FS_Interval
    <3> QED
      BY <3>1, <3>2
  <2>3. Cardinality(A) <= Len(H)
    BY <2>1, <2>2, FS_Subset
  <2>4. Number(H, X, n, "add") = Cardinality(A)
    BY DEF Number
  <2> HIDE DEF A
  <2> QED
    BY <1>13, <2>1, <2>3, <2>4
<1>15. \A i \in A : H[i].elem \in Elem /\ LogDot(H, X, n, i) \in {Writer} \X (0..MaxUpdates)
  <2> TAKE i \in A
  <2>1. H[i].elem \in Elem
    BY <1>14, HistoryTypes
  <2>2. PICK p : p = LogDot(H, X, n, i)
    OBVIOUS
  <2>3. p \in {Writer} \X Nat /\ p[2] \in Nat /\ p[2] + 1 <= Number(H, X, n, "add")
    BY <1>13, <2>2, DotNumbers
  <2>4. p[2] \in 0..MaxUpdates
    <3>1. PICK c \in Nat : c = Number(H, X, n, "add") /\ c <= MaxUpdates
      BY <1>14
    <3>2. PICK q \in Nat : q = p[2] /\ q + 1 <= c
      BY <2>3, <3>1
    <3>3. PICK m \in Nat : m = MaxUpdates /\ c <= m
      BY <1>13, <3>1
    <3> QED
      BY <3>2, <3>3
  <2>5. p \in {Writer} \X (0..MaxUpdates)
    BY <2>3, <2>4
  <2> QED
    BY <2>1, <2>2, <2>5
<1>16. \A e \in Elem : \A d : d \in s.elements[e] <=> \E i \in A : H[i].elem = e /\ d = LogDot(H, X, n, i)
  BY <1>1 DEF ShownSet, AddsAt
<1>17. \A r : r \in D <=> \E i \in A : r = Of(i)
  <2> TAKE r
  <2>1. ASSUME r \in D PROVE \E i \in A : r = Of(i)
    <3>1. PICK e \in Elem : \E d \in s.elements[e] : r = [elem |-> e, dot |-> d]
      BY <1>6, <2>1
    <3>2. PICK d \in s.elements[e] : r = [elem |-> e, dot |-> d]
      BY <3>1
    <3>3. PICK i \in A : H[i].elem = e /\ d = LogDot(H, X, n, i)
      BY <1>16, <3>2
    <3> QED
      BY <3>2, <3>3
  <2>2. ASSUME NEW i \in A, r = Of(i) PROVE r \in D
    <3>1. PICK e \in Elem : e = H[i].elem
      BY <1>15
    <3>2. LogDot(H, X, n, i) \in s.elements[e]
      BY <1>16, <3>1
    <3> QED
      BY <1>6, <2>2, <3>1, <3>2
  <2> QED
    BY <2>1, <2>2
<1>18. DotSet(MaxUpdates, D) /\ DotSet(MaxUpdates, R)
  <2>1. ASSUME NEW r \in D PROVE r \in DotRec(MaxUpdates)
    <3>1. PICK i \in A : r = Of(i)
      BY <1>17
    <3>2. H[i].elem \in Elem /\ LogDot(H, X, n, i) \in {Writer} \X (0..MaxUpdates)
      BY <1>15
    <3> QED
      BY <3>1, <3>2 DEF DotRec
  <2> QED
    BY <1>10, <2>1 DEF DotSet
<1>19. IsFiniteSet(D) /\ IsFiniteSet(R)
  <2>1. F \in [A -> D] /\ \A r \in D : \E i \in A : F[i] = r
    BY <1>17
  <2> HIDE DEF F, A
  <2>2. F \in Surjection(A, D)
    BY <2>1 DEF Surjection
  <2>3. IsFiniteSet(D)
    BY <1>14, <2>2, FS_Surjection
  <2> QED
    BY <1>10, <2>3, FS_Subset
<1> HIDE DEF A, F, Of
<1>20. LoadAdds(D) = Loaded(D, {})
  BY <1>13, <1>18, <1>19, AddsLoaded
<1>21. LoadRems(Loaded(D, {}), R) = Loaded(D, R)
  BY <1>13, <1>18, <1>19, RemsLoaded
<1>22. deserialize_orset(bytes) = Loaded(D, R)
  BY <1>3, <1>4, <1>20, <1>21, LoaderLoops
<1>23. Loaded(D, R) = s
  <2>1. \A a \in Actor : NextDot(D \cup R, a) = s.counters[a]
    <3> TAKE a \in Actor
    <3>1. NextDot(D \cup R, a) = Max(NextNumbers(SetDots(s), a))
      BY <1>11, <1>12 DEF NextDot
    <3> QED
      BY <1>1, <3>1, DotsCounted
  <2>2. [a \in Actor |-> NextDot(D \cup R, a)] = s.counters
    <3>1. s.counters = [a \in Actor |-> s.counters[a]]
      BY <1>5 DEF SetState
    <3> QED
      BY <2>1, <3>1
  <2>3. [e \in Elem |-> DotsFor(D, e)] = s.elements
    <3>1. s.elements = [e \in Elem |-> s.elements[e]]
      BY <1>5 DEF SetState
    <3> QED
      BY <1>8, <3>1
  <2>4. [e \in Elem |-> DotsFor(R, e)] = s.tombstones
    <3>1. s.tombstones = [e \in Elem |-> s.tombstones[e]]
      BY <1>5 DEF SetState
    <3> QED
      BY <1>9, <3>1
  <2>5. s = [elements |-> s.elements, tombstones |-> s.tombstones, counters |-> s.counters]
    BY <1>5 DEF SetState
  <2> QED
    BY <2>2, <2>3, <2>4, <2>5 DEF Loaded
<1> QED
  BY <1>1, <1>2, <1>22, <1>23

(* What a snapshot's block says of a field is what was written.            *)
LEMMA SnapshotSays ==
  ASSUME NEW H, LogHistory(H), lkind \in {"GCOUNTER", "PNCOUNTER", "LWW_REG", "ORSET"},
         NEW X, X \subseteq 1..Len(H), NEW n
  PROVE  FieldValue(FieldState(Shown(H, lkind, X, n))) = Shown(H, lkind, X, n)
<1>0. PICK s : s = Shown(H, lkind, X, n)
  OBVIOUS
<1>1. PICK f : f = FieldState(s)
  OBVIOUS
<1>2. f.crdt_kind = lkind
  BY <1>1 DEF FieldState
<1>3. Len(H) \in Nat
  BY HistoryTypes
<1>4. CASE lkind = "GCOUNTER"
  <2>1. s = Solo(Number(H, X, n, "inc"))
    BY <1>0, <1>4 DEF Shown
  <2>2. f.state = serialize_gcounter(s)
    BY <1>1, <1>4 DEF FieldState
  <2>3. FieldValue(f) = deserialize_gcounter(f.state)
    BY <1>2, <1>4 DEF FieldValue
  <2>4. Number(H, X, n, "inc") \in Nat
    BY <1>3, NamedTypes
  <2>5. deserialize_gcounter(serialize_gcounter(s)) = s
    BY <2>1, <2>4, CounterSnapshot
  <2> QED
    BY <1>0, <1>1, <2>2, <2>3, <2>5
<1>5. CASE lkind = "PNCOUNTER"
  <2>1. s = [p |-> Solo(Number(H, X, n, "inc")), n |-> Solo(Number(H, X, n, "dec"))]
    BY <1>0, <1>5 DEF Shown
  <2>2. f.state = serialize_pncounter(s)
    BY <1>1, <1>5 DEF FieldState
  <2>3. FieldValue(f) = deserialize_pncounter(f.state)
    BY <1>2, <1>5 DEF FieldValue
  <2>4. Number(H, X, n, "inc") \in Nat /\ Number(H, X, n, "dec") \in Nat
    BY <1>3, NamedTypes
  <2>5. deserialize_gcounter(serialize_gcounter(s.p)) = s.p
    BY <2>1, <2>4, CounterSnapshot
  <2>6. deserialize_gcounter(serialize_gcounter(s.n)) = s.n
    BY <2>1, <2>4, CounterSnapshot
  <2>7. serialize_pncounter(s) = [p |-> serialize_gcounter(s.p), n |-> serialize_gcounter(s.n)]
    BY DEF serialize_pncounter, GBytes, serialize_gcounter
  <2>8. deserialize_pncounter(serialize_pncounter(s)) = [p |-> s.p, n |-> s.n]
    BY <2>5, <2>6, <2>7 DEF deserialize_pncounter
  <2> QED
    BY <1>0, <1>1, <2>1, <2>2, <2>3, <2>8
<1>6. CASE lkind = "LWW_REG"
  <2>1. s = ShownReg(H, X, n)
    BY <1>0, <1>6 DEF Shown
  <2>2. f.state = serialize_lwwreg(s)
    BY <1>1, <1>6 DEF FieldState
  <2>3. FieldValue(f) = deserialize_lwwreg(f.state)
    BY <1>2, <1>6 DEF FieldValue
  <2>4. s = [hlc |-> s.hlc, actor |-> s.actor, value |-> s.value]
    BY <2>1, RegCodec
  <2>5. from_parts(physical_ns(s.hlc), logical(s.hlc)) = s.hlc
    BY <2>1, RegCodec
  <2>6. deserialize_lwwreg(serialize_lwwreg(s)) = s
    BY <2>4, <2>5 DEF deserialize_lwwreg, serialize_lwwreg
  <2> QED
    BY <1>0, <1>1, <2>2, <2>3, <2>6
<1>7. CASE lkind = "ORSET"
  <2>1. s = ShownSet(H, X, n)
    BY <1>0, <1>7 DEF Shown
  <2>2. f.state = serialize_orset(s)
    BY <1>1, <1>7 DEF FieldState
  <2>3. FieldValue(f) = deserialize_orset(f.state)
    BY <1>2, <1>7 DEF FieldValue
  <2>4. deserialize_orset(serialize_orset(s)) = s
    BY <2>1, SetSnapshot
  <2> QED
    BY <1>0, <1>1, <2>2, <2>3, <2>4
<1> QED
  BY <1>4, <1>5, <1>6, <1>7

-----------------------------------------------------------------------------
(* One update more.                                                        *)

(* What a set of updates shows rests on these updates alone.               *)
Agree(H, G, Y) == \A i \in Y : H[i] = G[i]

LEMMA AgreeParts ==
  ASSUME NEW H, NEW G, NEW Y, Agree(H, G, Y), NEW m
  PROVE  /\ \A nm : NamedAt(H, Y, m, nm) = NamedAt(G, Y, m, nm)
         /\ \A e : AddsAt(H, Y, m, e) = AddsAt(G, Y, m, e)
         /\ \A e : Gone(H, Y, m, e) = Gone(G, Y, m, e)
         /\ \A i : LogDot(H, Y, m, i) = LogDot(G, Y, m, i)
<1>1. \A i \in Y : H[i] = G[i]
  BY DEF Agree
<1>2. \A nm : NamedAt(H, Y, m, nm) = NamedAt(G, Y, m, nm)
  BY <1>1 DEF NamedAt
<1>3. \A nm : NamedAt(G, Y, m, nm) \subseteq Y
  BY DEF NamedAt
<1>4. \A e : AddsAt(H, Y, m, e) = AddsAt(G, Y, m, e)
  BY <1>1, <1>2, <1>3 DEF AddsAt
<1>5. \A e : AddsAt(G, Y, m, e) \subseteq Y
  BY <1>3 DEF AddsAt
<1>6. \A e : Gone(H, Y, m, e) = Gone(G, Y, m, e)
  <2> TAKE e
  <2>1. \A i : i \in Gone(H, Y, m, e) <=>
             i \in AddsAt(H, Y, m, e) /\ \E r \in NamedAt(H, Y, m, "remove") : H[r].elem = e /\ i \in H[r].seen
    BY DEF Gone
  <2>2. \A i : i \in Gone(G, Y, m, e) <=>
             i \in AddsAt(G, Y, m, e) /\ \E r \in NamedAt(G, Y, m, "remove") : G[r].elem = e /\ i \in G[r].seen
    BY DEF Gone
  <2>3. \A r \in NamedAt(G, Y, m, "remove") : H[r] = G[r]
    BY <1>1, <1>3
  <2>4. NamedAt(H, Y, m, "remove") = NamedAt(G, Y, m, "remove") /\ AddsAt(H, Y, m, e) = AddsAt(G, Y, m, e)
    BY <1>2, <1>4
  <2>5. \A i : i \in Gone(H, Y, m, e) <=> i \in Gone(G, Y, m, e)
    BY <2>1, <2>2, <2>3, <2>4
  <2> QED
    BY <2>5
<1>7. \A i : LogDot(H, Y, m, i) = LogDot(G, Y, m, i)
  <2> TAKE i
  <2>1. Before(H, Y, m, i) = Before(G, Y, m, i)
    BY <1>2 DEF Before
  <2> QED
    BY <2>1 DEF LogDot
<1> QED
  BY <1>2, <1>4, <1>6, <1>7

LEMMA ShownRestsOn ==
  ASSUME NEW H, NEW G, NEW Y, Agree(H, G, Y), NEW m
  PROVE  \A k : Shown(H, k, Y, m) = Shown(G, k, Y, m)
<1>1. \A nm : NamedAt(H, Y, m, nm) = NamedAt(G, Y, m, nm)
  BY AgreeParts
<1>2. \A nm : Number(H, Y, m, nm) = Number(G, Y, m, nm)
  BY <1>1 DEF Number
<1>3. ShownReg(H, Y, m) = ShownReg(G, Y, m)
  BY <1>1 DEF ShownReg
<1>4. ShownSet(H, Y, m) = ShownSet(G, Y, m)
  <2>1. \A i : LogDot(H, Y, m, i) = LogDot(G, Y, m, i)
    BY AgreeParts
  <2>2. [e \in Elem |-> {LogDot(H, Y, m, i) : i \in AddsAt(H, Y, m, e)}]
        = [e \in Elem |-> {LogDot(G, Y, m, i) : i \in AddsAt(G, Y, m, e)}]
    <3>1. \A e : AddsAt(H, Y, m, e) = AddsAt(G, Y, m, e)
      BY AgreeParts
    <3> QED
      BY <2>1, <3>1
  <2>3. [e \in Elem |-> {LogDot(H, Y, m, i) : i \in Gone(H, Y, m, e)}]
        = [e \in Elem |-> {LogDot(G, Y, m, i) : i \in Gone(G, Y, m, e)}]
    <3>1. \A e : Gone(H, Y, m, e) = Gone(G, Y, m, e)
      BY AgreeParts
    <3> QED
      BY <2>1, <3>1
  <2> QED
    BY <1>2, <2>2, <2>3 DEF ShownSet
<1>5. Number(H, Y, m, "inc") = Number(G, Y, m, "inc") /\ Number(H, Y, m, "dec") = Number(G, Y, m, "dec")
  BY <1>2
<1>6. PICK a, b : a = Number(H, Y, m, "inc") /\ b = Number(H, Y, m, "dec")
  OBVIOUS
<1> SUFFICES ASSUME NEW k PROVE Shown(H, k, Y, m) = Shown(G, k, Y, m)
  OBVIOUS
<1>7. Shown(H, k, Y, m) = CASE k = "GCOUNTER"  -> Solo(a)
                            [] k = "PNCOUNTER" -> [p |-> Solo(a), n |-> Solo(b)]
                            [] k = "LWW_REG"   -> ShownReg(H, Y, m)
                            [] k = "ORSET"     -> ShownSet(H, Y, m)
  BY <1>6 DEF Shown
<1>8. Shown(G, k, Y, m) = CASE k = "GCOUNTER"  -> Solo(a)
                            [] k = "PNCOUNTER" -> [p |-> Solo(a), n |-> Solo(b)]
                            [] k = "LWW_REG"   -> ShownReg(G, Y, m)
                            [] k = "ORSET"     -> ShownSet(G, Y, m)
  BY <1>5, <1>6 DEF Shown
<1> QED
  BY <1>3, <1>4, <1>7, <1>8

(* The next update: number id, on a store built from the updates X.        *)
NextUpdate(H, G, op, X, id) ==
    /\ id \in Nat /\ id > 0 /\ id <= MaxUpdates
    /\ X \subseteq 1..(id - 1)
    /\ Agree(H, G, 1..(id - 1)) /\ G[id] = op
    /\ op.seen = X /\ op.id = id /\ op.hlc = from_parts(1, id) /\ op.actor = Writer
    /\ op.elem \in Elem
    /\ \A i \in 1..(id - 1) : H[i].seen \subseteq 1..(id - 1)

OneNamed(H, G, op, X, id, m, nm) ==
    NamedAt(G, X \cup {id}, m, nm) =
      IF m = op.node /\ nm = op.name THEN NamedAt(H, X, m, nm) \cup {id} ELSE NamedAt(H, X, m, nm)

LEMMA NextNamed ==
  ASSUME NEW H, NEW G, NEW op, NEW X, NEW id, NextUpdate(H, G, op, X, id), NEW m, NEW nm
  PROVE  OneNamed(H, G, op, X, id, m, nm)
<1>1. \A i \in X : H[i] = G[i]
  BY DEF NextUpdate, Agree
<1>2. G[id] = op
  BY DEF NextUpdate
<1>3. \A i : i \in NamedAt(G, X \cup {id}, m, nm) <=> i \in X \cup {id} /\ G[i].node = m /\ G[i].name = nm
  BY DEF NamedAt
<1>4. \A i : i \in NamedAt(H, X, m, nm) <=> i \in X /\ H[i].node = m /\ H[i].name = nm
  BY DEF NamedAt
<1>5. CASE m = op.node /\ nm = op.name
  <2>1. \A i : i \in NamedAt(G, X \cup {id}, m, nm) <=> i \in NamedAt(H, X, m, nm) \cup {id}
    BY <1>1, <1>2, <1>3, <1>4, <1>5
  <2>2. NamedAt(G, X \cup {id}, m, nm) = NamedAt(H, X, m, nm) \cup {id}
    BY <2>1
  <2> QED
    BY <1>5, <2>2 DEF OneNamed
<1>6. CASE ~(m = op.node /\ nm = op.name)
  <2>1. \A i : i \in NamedAt(G, X \cup {id}, m, nm) <=> i \in NamedAt(H, X, m, nm)
    BY <1>1, <1>2, <1>3, <1>4, <1>6
  <2>2. NamedAt(G, X \cup {id}, m, nm) = NamedAt(H, X, m, nm)
    BY <2>1
  <2> QED
    BY <1>6, <2>2 DEF OneNamed
<1> QED
  BY <1>5, <1>6

OneNumber(H, G, op, X, id, m, nm) ==
    /\ Number(H, X, m, nm) \in Nat
    /\ Number(G, X \cup {id}, m, nm) =
         IF m = op.node /\ nm = op.name THEN Number(H, X, m, nm) + 1 ELSE Number(H, X, m, nm)

LEMMA NextNumber ==
  ASSUME NEW H, NEW G, NEW op, NEW X, NEW id, NextUpdate(H, G, op, X, id), NEW m, NEW nm
  PROVE  OneNumber(H, G, op, X, id, m, nm)
<1>1. PICK l \in Nat : l = id - 1 /\ X \subseteq 1..l /\ id \notin 1..l
  BY DEF NextUpdate
<1>2. NamedAt(H, X, m, nm) \subseteq X
  BY DEF NamedAt
<1>3. IsFiniteSet(NamedAt(H, X, m, nm))
  BY <1>1, NamedTypes
<1>4. Number(H, X, m, nm) \in Nat
  BY <1>1, NamedTypes
<1>5. id \notin NamedAt(H, X, m, nm)
  BY <1>1, <1>2
<1>6. Cardinality(NamedAt(H, X, m, nm) \cup {id}) = Cardinality(NamedAt(H, X, m, nm)) + 1
  BY <1>3, <1>5, FS_AddElement
<1>7. PICK A : A = NamedAt(H, X, m, nm)
  OBVIOUS
<1>8. OneNamed(H, G, op, X, id, m, nm)
  BY NextNamed
<1>9. NamedAt(G, X \cup {id}, m, nm) = IF m = op.node /\ nm = op.name THEN A \cup {id} ELSE A
  BY <1>7, <1>8 DEF OneNamed
<1>10. Number(H, X, m, nm) = Cardinality(A)
       /\ Number(G, X \cup {id}, m, nm) = Cardinality(NamedAt(G, X \cup {id}, m, nm))
  BY <1>7 DEF Number
<1> QED
  BY <1>4, <1>6, <1>7, <1>9, <1>10 DEF OneNumber

OneAdd(H, G, op, X, id, m, e) ==
    /\ AddsAt(G, X \cup {id}, m, e) =
         IF m = op.node /\ op.name = "add" /\ e = op.elem
         THEN AddsAt(H, X, m, e) \cup {id} ELSE AddsAt(H, X, m, e)
    /\ Gone(G, X \cup {id}, m, e) =
         IF m = op.node /\ op.name = "remove" /\ e = op.elem
         THEN AddsAt(H, X, m, e) ELSE Gone(H, X, m, e)

LEMMA NextAdds ==
  ASSUME NEW H, NEW G, NEW op, NEW X, NEW id, NextUpdate(H, G, op, X, id), NEW m, NEW e
  PROVE  OneAdd(H, G, op, X, id, m, e)
<1>1. PICK l \in Nat : l = id - 1 /\ X \subseteq 1..l /\ id \notin 1..l
  BY DEF NextUpdate
<1>2. \A i \in X : H[i] = G[i] /\ H[i].seen \subseteq 1..l
  BY <1>1 DEF NextUpdate, Agree
<1>3. G[id] = op /\ op.seen = X /\ id \notin X
  BY <1>1 DEF NextUpdate
<1>4. \A nm : \A i : i \in NamedAt(G, X \cup {id}, m, nm) <=>
                 (i \in NamedAt(H, X, m, nm) \/ (i = id /\ m = op.node /\ nm = op.name))
  <2> TAKE nm
  <2>1. NamedAt(G, X \cup {id}, m, nm) =
           IF m = op.node /\ nm = op.name THEN NamedAt(H, X, m, nm) \cup {id} ELSE NamedAt(H, X, m, nm)
    <3>1. OneNamed(H, G, op, X, id, m, nm)
      BY NextNamed
    <3> QED
      BY <3>1 DEF OneNamed
  <2> QED
    BY <2>1
<1>5. \A nm : NamedAt(H, X, m, nm) \subseteq X
  BY DEF NamedAt
<1>6. \A i : i \in AddsAt(H, X, m, e) <=> i \in NamedAt(H, X, m, "add") /\ H[i].elem = e
  BY DEF AddsAt
<1>7. \A i : i \in AddsAt(G, X \cup {id}, m, e) <=> i \in NamedAt(G, X \cup {id}, m, "add") /\ G[i].elem = e
  BY DEF AddsAt
<1>8. \A i : i \in AddsAt(G, X \cup {id}, m, e) <=>
               (i \in AddsAt(H, X, m, e) \/ (i = id /\ m = op.node /\ op.name = "add" /\ e = op.elem))
  <2> TAKE i
  <2>1. CASE i = id
    BY <1>3, <1>4, <1>5, <1>6, <1>7, <2>1
  <2>2. CASE i # id
    <3>1. i \in NamedAt(G, X \cup {id}, m, "add") <=> i \in NamedAt(H, X, m, "add")
      BY <1>4, <2>2
    <3>2. i \in NamedAt(H, X, m, "add") => G[i].elem = H[i].elem
      BY <1>2, <1>5
    <3> QED
      BY <1>6, <1>7, <2>2, <3>1, <3>2
  <2> QED
    BY <2>1, <2>2
<1>9. \A i : i \in Gone(H, X, m, e) <=>
         i \in AddsAt(H, X, m, e) /\ \E r \in NamedAt(H, X, m, "remove") : H[r].elem = e /\ i \in H[r].seen
  BY DEF Gone
<1>10. \A i : i \in Gone(G, X \cup {id}, m, e) <=>
         i \in AddsAt(G, X \cup {id}, m, e)
         /\ \E r \in NamedAt(G, X \cup {id}, m, "remove") : G[r].elem = e /\ i \in G[r].seen
  BY DEF Gone
<1>11. AddsAt(H, X, m, e) \subseteq X
  BY <1>5, <1>6
<1>12. \A i : i \in Gone(G, X \cup {id}, m, e) <=>
               (i \in Gone(H, X, m, e)
                  \/ (i \in AddsAt(H, X, m, e) /\ m = op.node /\ op.name = "remove" /\ e = op.elem))
  <2> TAKE i
  <2>1. ASSUME i \in Gone(G, X \cup {id}, m, e)
        PROVE  i \in Gone(H, X, m, e)
                  \/ (i \in AddsAt(H, X, m, e) /\ m = op.node /\ op.name = "remove" /\ e = op.elem)
    <3>1. PICK r \in NamedAt(G, X \cup {id}, m, "remove") : G[r].elem = e /\ i \in G[r].seen
      BY <1>10, <2>1
    <3>2. i \in AddsAt(H, X, m, e) \/ (i = id /\ op.name = "add")
      BY <1>8, <1>10, <2>1
    <3>3. CASE r = id
      BY <1>3, <1>4, <1>5, <3>1, <3>2, <3>3
    <3>4. CASE r # id
      <4>1. r \in NamedAt(H, X, m, "remove")
        BY <1>4, <3>1, <3>4
      <4>2. H[r] = G[r] /\ H[r].seen \subseteq 1..l
        BY <1>2, <1>5, <4>1
      <4>3. i # id
        BY <1>1, <3>1, <4>2
      <4> QED
        BY <1>9, <3>1, <3>2, <4>1, <4>2, <4>3
    <3> QED
      BY <3>3, <3>4
  <2>2. ASSUME i \in Gone(H, X, m, e) PROVE i \in Gone(G, X \cup {id}, m, e)
    <3>1. PICK r \in NamedAt(H, X, m, "remove") : H[r].elem = e /\ i \in H[r].seen
      BY <1>9, <2>2
    <3>2. i \in AddsAt(G, X \cup {id}, m, e)
      BY <1>8, <1>9, <2>2
    <3>3. r \in NamedAt(G, X \cup {id}, m, "remove") /\ G[r] = H[r]
      BY <1>2, <1>4, <1>5, <3>1
    <3> QED
      BY <1>10, <3>1, <3>2, <3>3
  <2>3. ASSUME i \in AddsAt(H, X, m, e), m = op.node, op.name = "remove", e = op.elem
        PROVE  i \in Gone(G, X \cup {id}, m, e)
    <3>1. id \in NamedAt(G, X \cup {id}, m, "remove")
      BY <1>4, <2>3
    <3>2. G[id].elem = e /\ i \in G[id].seen
      BY <1>3, <1>11, <2>3
    <3>3. i \in AddsAt(G, X \cup {id}, m, e)
      BY <1>8, <2>3
    <3> QED
      BY <1>10, <3>1, <3>2, <3>3
  <2> QED
    BY <2>1, <2>2, <2>3
<1>13. Gone(H, X, m, e) \subseteq AddsAt(H, X, m, e)
  BY <1>9
<1>14. AddsAt(G, X \cup {id}, m, e) =
              IF m = op.node /\ op.name = "add" /\ e = op.elem
              THEN AddsAt(H, X, m, e) \cup {id} ELSE AddsAt(H, X, m, e)
  <2>1. CASE m = op.node /\ op.name = "add" /\ e = op.elem
    <3>1. AddsAt(G, X \cup {id}, m, e) = AddsAt(H, X, m, e) \cup {id}
      BY <1>8, <2>1
    <3> QED
      BY <2>1, <3>1
  <2>2. CASE ~(m = op.node /\ op.name = "add" /\ e = op.elem)
    <3>1. AddsAt(G, X \cup {id}, m, e) = AddsAt(H, X, m, e)
      BY <1>8, <2>2
    <3> QED
      BY <2>2, <3>1
  <2> QED
    BY <2>1, <2>2
<1>15. Gone(G, X \cup {id}, m, e) =
              IF m = op.node /\ op.name = "remove" /\ e = op.elem
              THEN AddsAt(H, X, m, e) ELSE Gone(H, X, m, e)
  <2>1. CASE m = op.node /\ op.name = "remove" /\ e = op.elem
    <3>1. Gone(G, X \cup {id}, m, e) = AddsAt(H, X, m, e)
      BY <1>12, <1>13, <2>1
    <3> QED
      BY <2>1, <3>1
  <2>2. CASE ~(m = op.node /\ op.name = "remove" /\ e = op.elem)
    <3>1. Gone(G, X \cup {id}, m, e) = Gone(H, X, m, e)
      BY <1>12, <2>2
    <3> QED
      BY <2>2, <3>1
  <2> QED
    BY <2>1, <2>2
<1> QED
  BY <1>14, <1>15 DEF OneAdd

LEMMA NextDots ==
  ASSUME NEW H, NEW G, NEW op, NEW X, NEW id, NextUpdate(H, G, op, X, id), NEW m
  PROVE  /\ \A i \in X : LogDot(G, X \cup {id}, m, i) = LogDot(H, X, m, i)
         /\ LogDot(G, X \cup {id}, m, id) = <<Writer, Number(H, X, m, "add")>>
<1>1. PICK l \in Nat : l = id - 1 /\ X \subseteq 1..l /\ id = l + 1
  BY DEF NextUpdate
<1>2. PICK A : A = NamedAt(H, X, m, "add")
  OBVIOUS
<1>3. PICK A2 : A2 = NamedAt(G, X \cup {id}, m, "add")
  OBVIOUS
<1>4. A2 = A \/ A2 = A \cup {id}
  <2>1. OneNamed(H, G, op, X, id, m, "add")
    BY NextNamed
  <2> QED
    BY <1>2, <1>3, <2>1 DEF OneNamed
<1>5. A \subseteq X
  BY <1>2 DEF NamedAt
<1>6. \A i : Before(G, X \cup {id}, m, i) = {j \in A2 : j < i} /\ Before(H, X, m, i) = {j \in A : j < i}
  BY <1>2, <1>3 DEF Before
<1>7. ASSUME NEW i \in X PROVE {j \in A2 : j < i} = {j \in A : j < i}
  <2>1. i \in 1..l /\ ~(id < i)
    BY <1>1
  <2> QED
    BY <1>4, <2>1
<1>8. {j \in A2 : j < id} = A
  <2>1. \A j \in A : j \in 1..l
    BY <1>1, <1>5
  <2>2. \A j \in A : j < id
    BY <1>1, <2>1
  <2>3. ~(id < id)
    BY <1>1
  <2> QED
    BY <1>4, <2>2, <2>3
<1>9. \A i \in X : LogDot(G, X \cup {id}, m, i) = LogDot(H, X, m, i)
  BY <1>6, <1>7 DEF LogDot
<1>10. LogDot(G, X \cup {id}, m, id) = <<Writer, Number(H, X, m, "add")>>
  BY <1>2, <1>6, <1>8 DEF LogDot, Number
<1> QED
  BY <1>9, <1>10

LEMMA SoloInc == ASSUME NEW c \in Nat PROVE GInc(Solo(c), Writer, 1) = Solo(c + 1)
<1>1. Writer \in Actor
  BY LogAssumption
<1>2. GInc(Solo(c), Writer, 1) = [Solo(c) EXCEPT ![Writer] = Solo(c)[Writer] + 1]
  BY DEF GInc
<1>3. Solo(c) = [a \in Actor |-> IF a = Writer THEN c ELSE 0]
  BY DEF Solo
<1>4. [Solo(c) EXCEPT ![Writer] = Solo(c)[Writer] + 1] = [a \in Actor |-> IF a = Writer THEN c + 1 ELSE 0]
  BY <1>1, <1>3
<1> QED
  BY <1>2, <1>4 DEF Solo

LEMMA NextReg ==
  ASSUME NEW H, NEW G, NEW op, NEW X, NEW id, NextUpdate(H, G, op, X, id), NEW m
  PROVE  /\ m = op.node /\ op.name = "update" =>
              ShownReg(G, X \cup {id}, m) = LwwUpdate(ShownReg(H, X, m), op.hlc, op.actor, op.id)
         /\ ~(m = op.node /\ op.name = "update") => ShownReg(G, X \cup {id}, m) = ShownReg(H, X, m)
<1>1. PICK l \in Nat : l = id - 1 /\ X \subseteq 1..l /\ id = l + 1 /\ id <= MaxUpdates
  BY DEF NextUpdate
<1>2. PICK U : U = NamedAt(H, X, m, "update")
  OBVIOUS
<1>3. U \subseteq 1..l
  <2>1. U \subseteq X
    BY <1>2 DEF NamedAt
  <2> QED
    BY <1>1, <2>1
<1>4. PICK r : r = ShownReg(H, X, m)
  OBVIOUS
<1>5. r = IF U = {} THEN DefaultReg ELSE Stamped(Max(U))
  BY <1>2, <1>4 DEF ShownReg
<1>6. PICK U2 : U2 = NamedAt(G, X \cup {id}, m, "update")
  OBVIOUS
<1>7. ShownReg(G, X \cup {id}, m) = IF U2 = {} THEN DefaultReg ELSE Stamped(Max(U2))
  BY <1>6 DEF ShownReg
<1>8. U2 = IF m = op.node /\ op.name = "update" THEN U \cup {id} ELSE U
  <2>1. OneNamed(H, G, op, X, id, m, "update")
    BY NextNamed
  <2> QED
    BY <1>2, <1>6, <2>1 DEF OneNamed
<1>9. ASSUME m = op.node, op.name = "update"
      PROVE  ShownReg(G, X \cup {id}, m) = LwwUpdate(r, op.hlc, op.actor, op.id)
  <2>1. U2 = U \cup {id}
    BY <1>8, <1>9
  <2>2. id \in Nat /\ U2 \subseteq Nat /\ U2 # {} /\ \A x \in U2 : x <= id
    BY <1>1, <1>3, <2>1
  <2>3. Max(U2) \in U2 /\ \A x \in U2 : x <= Max(U2)
    BY <2>2, MaxOfBounded
  <2>4. Max(U2) = id
    <3>1. PICK t \in Nat : t = Max(U2) /\ t \in U2
      BY <2>2, <2>3
    <3>2. id \in U2
      BY <2>1
    <3>3. t <= id /\ id <= t
      BY <2>2, <2>3, <3>1, <3>2
    <3> QED
      BY <1>1, <3>1, <3>3
  <2>5. ShownReg(G, X \cup {id}, m) = Stamped(id)
    BY <1>7, <2>2, <2>4
  <2>6. op.hlc = from_parts(1, id) /\ op.actor = Writer /\ op.id = id
    BY DEF NextUpdate
  <2>7. from_parts(1, id) >= r.hlc
    <3>1. PICK b \in Nat : b = LogicRange
      BY StampGrows
    <3>2. \A i \in 1..MaxUpdates : from_parts(1, i) = b + i
      BY <3>1, StampGrows
    <3>3. MaxUpdates \in Nat
      BY StampGrows
    <3>4. from_parts(1, id) = b + id
      BY <1>1, <3>2, <3>3
    <3>5. CASE U = {}
      BY <1>1, <1>5, <3>4, <3>5 DEF DefaultReg
    <3>6. CASE U # {}
      <4>1. U \subseteq Nat /\ \A x \in U : x <= l
        BY <1>3
      <4>2. PICK t \in 1..l : t = Max(U)
        BY <1>3, <3>6, <4>1, MaxOfBounded
      <4>3. r.hlc = from_parts(1, t)
        BY <1>5, <3>6, <4>2 DEF Stamped
      <4>4. t \in 1..MaxUpdates
        BY <1>1, <3>3
      <4>5. from_parts(1, t) = b + t
        BY <3>2, <4>4
      <4> QED
        BY <1>1, <3>4, <4>2, <4>3, <4>5
    <3> QED
      BY <3>5, <3>6
  <2>8. LwwUpdate(r, op.hlc, op.actor, op.id) = Stamped(id)
    BY <2>6, <2>7 DEF LwwUpdate, Stamped
  <2> QED
    BY <2>5, <2>8
<1>10. ASSUME ~(m = op.node /\ op.name = "update")
       PROVE  ShownReg(G, X \cup {id}, m) = r
  BY <1>5, <1>7, <1>8, <1>10
<1> QED
  BY <1>4, <1>9, <1>10

(* The parts of the set of one update more.                                *)
OneSet(s, t, op, m, c) ==
    /\ \A e \in Elem : t.elements[e] =
         IF m = op.node /\ op.name = "add" /\ e = op.elem
         THEN s.elements[e] \cup {<<Writer, c>>} ELSE s.elements[e]
    /\ \A e \in Elem : t.tombstones[e] =
         IF m = op.node /\ op.name = "remove" /\ e = op.elem
         THEN s.tombstones[e] \cup s.elements[e] ELSE s.tombstones[e]
    /\ t.counters = Solo(IF m = op.node /\ op.name = "add" THEN c + 1 ELSE c)
    /\ s.counters = Solo(c)

LEMMA NextSet ==
  ASSUME NEW H, NEW G, NEW op, NEW X, NEW id, NextUpdate(H, G, op, X, id), NEW m,
         NEW s, s = ShownSet(H, X, m), NEW t, t = ShownSet(G, X \cup {id}, m)
  PROVE  OneSet(s, t, op, m, Number(H, X, m, "add"))
<1>1. \A e \in Elem : s.elements[e] = {LogDot(H, X, m, i) : i \in AddsAt(H, X, m, e)}
  <2>1. s.elements = [e \in Elem |-> {LogDot(H, X, m, i) : i \in AddsAt(H, X, m, e)}]
    BY DEF ShownSet
  <2> QED
    BY <2>1
<1>2. \A e \in Elem : s.tombstones[e] = {LogDot(H, X, m, i) : i \in Gone(H, X, m, e)}
  <2>1. s.tombstones = [e \in Elem |-> {LogDot(H, X, m, i) : i \in Gone(H, X, m, e)}]
    BY DEF ShownSet
  <2> QED
    BY <2>1
<1>3. \A e \in Elem : t.elements[e] = {LogDot(G, X \cup {id}, m, i) : i \in AddsAt(G, X \cup {id}, m, e)}
  <2>1. t.elements = [e \in Elem |-> {LogDot(G, X \cup {id}, m, i) : i \in AddsAt(G, X \cup {id}, m, e)}]
    BY DEF ShownSet
  <2> QED
    BY <2>1
<1>4. \A e \in Elem : t.tombstones[e] = {LogDot(G, X \cup {id}, m, i) : i \in Gone(G, X \cup {id}, m, e)}
  <2>1. t.tombstones = [e \in Elem |-> {LogDot(G, X \cup {id}, m, i) : i \in Gone(G, X \cup {id}, m, e)}]
    BY DEF ShownSet
  <2> QED
    BY <2>1
<1>5. \A i \in X : LogDot(G, X \cup {id}, m, i) = LogDot(H, X, m, i)
  BY NextDots
<1>6. LogDot(G, X \cup {id}, m, id) = <<Writer, Number(H, X, m, "add")>>
  BY NextDots
<1>7. \A e : AddsAt(H, X, m, e) \subseteq X /\ Gone(H, X, m, e) \subseteq AddsAt(H, X, m, e)
  BY DEF AddsAt, NamedAt, Gone
<1>8. ASSUME NEW e \in Elem
      PROVE  t.elements[e] =
              IF m = op.node /\ op.name = "add" /\ e = op.elem
              THEN s.elements[e] \cup {<<Writer, Number(H, X, m, "add")>>} ELSE s.elements[e]
  <2>1. PICK A : A = AddsAt(H, X, m, e)
    OBVIOUS
  <2>2. PICK d : d = <<Writer, Number(H, X, m, "add")>>
    OBVIOUS
  <2>3. {LogDot(G, X \cup {id}, m, i) : i \in A} = {LogDot(H, X, m, i) : i \in A}
    BY <1>5, <1>7, <2>1
  <2>4. OneAdd(H, G, op, X, id, m, e)
    BY NextAdds
  <2>5. AddsAt(G, X \cup {id}, m, e) = IF m = op.node /\ op.name = "add" /\ e = op.elem THEN A \cup {id} ELSE A
    BY <2>1, <2>4 DEF OneAdd
  <2>6. {LogDot(G, X \cup {id}, m, i) : i \in A \cup {id}} = {LogDot(H, X, m, i) : i \in A} \cup {d}
    BY <1>6, <2>2, <2>3
  <2>7. s.elements[e] = {LogDot(H, X, m, i) : i \in A}
    BY <1>1, <2>1
  <2>8. CASE m = op.node /\ op.name = "add" /\ e = op.elem
    BY <1>3, <2>2, <2>5, <2>6, <2>7, <2>8
  <2>9. CASE ~(m = op.node /\ op.name = "add" /\ e = op.elem)
    BY <1>3, <2>3, <2>5, <2>7, <2>9
  <2> QED
    BY <2>8, <2>9
<1>9. ASSUME NEW e \in Elem
      PROVE  t.tombstones[e] =
              IF m = op.node /\ op.name = "remove" /\ e = op.elem
              THEN s.tombstones[e] \cup s.elements[e] ELSE s.tombstones[e]
  <2>1. PICK A : A = AddsAt(H, X, m, e)
    OBVIOUS
  <2>2. PICK B : B = Gone(H, X, m, e)
    OBVIOUS
  <2>3. {LogDot(G, X \cup {id}, m, i) : i \in A} = {LogDot(H, X, m, i) : i \in A}
    BY <1>5, <1>7, <2>1
  <2>4. {LogDot(G, X \cup {id}, m, i) : i \in B} = {LogDot(H, X, m, i) : i \in B}
    BY <1>5, <1>7, <2>2
  <2>5. OneAdd(H, G, op, X, id, m, e)
    BY NextAdds
  <2>6. Gone(G, X \cup {id}, m, e) = IF m = op.node /\ op.name = "remove" /\ e = op.elem THEN A ELSE B
    BY <2>1, <2>2, <2>5 DEF OneAdd
  <2>7. s.elements[e] = {LogDot(H, X, m, i) : i \in A}
    BY <1>1, <2>1
  <2>8. s.tombstones[e] = {LogDot(H, X, m, i) : i \in B}
    BY <1>2, <2>2
  <2>9. s.tombstones[e] \subseteq s.elements[e]
    BY <1>7, <2>1, <2>2, <2>7, <2>8
  <2>10. CASE m = op.node /\ op.name = "remove" /\ e = op.elem
    <3>1. t.tombstones[e] = s.elements[e]
      BY <1>4, <2>3, <2>6, <2>7, <2>10
    <3>2. s.tombstones[e] \cup s.elements[e] = s.elements[e]
      BY <2>9
    <3> QED
      BY <2>10, <3>1, <3>2
  <2>11. CASE ~(m = op.node /\ op.name = "remove" /\ e = op.elem)
    BY <1>4, <2>4, <2>6, <2>8, <2>11
  <2> QED
    BY <2>10, <2>11
<1>10. t.counters = Solo(Number(G, X \cup {id}, m, "add")) /\ s.counters = Solo(Number(H, X, m, "add"))
  BY DEF ShownSet
<1>11. OneNumber(H, G, op, X, id, m, "add")
  BY NextNumber
<1>12. t.counters = Solo(IF m = op.node /\ op.name = "add"
                              THEN Number(H, X, m, "add") + 1 ELSE Number(H, X, m, "add"))
  BY <1>10, <1>11 DEF OneNumber
<1> QED
  BY <1>8, <1>9, <1>10, <1>12 DEF OneSet

(* A set with its parts.                                                   *)
MadeOfParts(s) ==
    /\ s = [elements |-> s.elements, tombstones |-> s.tombstones, counters |-> s.counters]
    /\ s.elements = [e \in Elem |-> s.elements[e]]
    /\ s.tombstones = [e \in Elem |-> s.tombstones[e]]

LEMMA SetOfParts ==
  ASSUME NEW H, NEW X, NEW m
  PROVE  MadeOfParts(ShownSet(H, X, m))
BY DEF ShownSet, MadeOfParts

(* The updated node.                                                       *)
LEMMA PerformSet ==
  ASSUME NEW H, NEW G, NEW op, NEW X, NEW id, NextUpdate(H, G, op, X, id),
         op.name \in {"add", "remove"}
  PROVE  Perform("ORSET", ShownSet(H, X, op.node), op) = ShownSet(G, X \cup {id}, op.node)
<1>1. PICK s : s = ShownSet(H, X, op.node)
  OBVIOUS
<1>2. PICK t : t = ShownSet(G, X \cup {id}, op.node)
  OBVIOUS
<1>3. PICK n : n = Number(H, X, op.node, "add")
  OBVIOUS
<1>4. PICK e0 \in Elem : e0 = op.elem
  BY DEF NextUpdate
<1>5. /\ s = [elements |-> s.elements, tombstones |-> s.tombstones, counters |-> s.counters]
      /\ s.elements = [e \in Elem |-> s.elements[e]]
      /\ s.tombstones = [e \in Elem |-> s.tombstones[e]]
  <2>1. MadeOfParts(s)
    BY <1>1, SetOfParts
  <2> QED
    BY <2>1 DEF MadeOfParts
<1>6. /\ t = [elements |-> t.elements, tombstones |-> t.tombstones, counters |-> t.counters]
      /\ t.elements = [e \in Elem |-> t.elements[e]]
      /\ t.tombstones = [e \in Elem |-> t.tombstones[e]]
  <2>1. MadeOfParts(t)
    BY <1>2, SetOfParts
  <2> QED
    BY <2>1 DEF MadeOfParts
<1>a. OneSet(s, t, op, op.node, n)
  BY <1>1, <1>2, <1>3, NextSet
<1>7. \A e \in Elem : t.elements[e] =
              IF op.name = "add" /\ e = e0 THEN s.elements[e] \cup {<<Writer, n>>} ELSE s.elements[e]
  BY <1>4, <1>a DEF OneSet
<1>8. \A e \in Elem : t.tombstones[e] =
              IF op.name = "remove" /\ e = e0 THEN s.tombstones[e] \cup s.elements[e] ELSE s.tombstones[e]
  BY <1>4, <1>a DEF OneSet
<1>9. t.counters = Solo(IF op.name = "add" THEN n + 1 ELSE n) /\ s.counters = Solo(n)
  BY <1>a DEF OneSet
<1>10. n \in Nat
  <2>1. OneNumber(H, G, op, X, id, op.node, "add")
    BY NextNumber
  <2> QED
    BY <1>3, <2>1 DEF OneNumber
<1>11. op.actor = Writer
  BY DEF NextUpdate
<1>12. s.counters[Writer] = n
  BY <1>9, LogAssumption DEF Solo
<1>13. CASE op.name = "add"
  <2>1. Perform("ORSET", s, op) = OrAdd(s, Writer, e0)
    BY <1>4, <1>11, <1>13 DEF Perform
  <2>2. PICK f : f = [s.elements EXCEPT ![e0] = s.elements[e0] \cup {<<Writer, n>>}]
    OBVIOUS
  <2>3. f = [e \in Elem |-> IF e = e0 THEN s.elements[e] \cup {<<Writer, n>>} ELSE s.elements[e]]
    BY <1>4, <1>5, <2>2
  <2>4. f = t.elements
    BY <1>6, <1>7, <1>13, <2>3
  <2>5. GInc(s.counters, Writer, 1) = t.counters
    BY <1>9, <1>10, <1>13, SoloInc
  <2>6. t.tombstones = s.tombstones
    BY <1>5, <1>6, <1>8, <1>13
  <2>7. PICK u : u = OrAdd(s, Writer, e0)
    OBVIOUS
  <2>8. u = [[s EXCEPT !.elements = f] EXCEPT !.counters = GInc(s.counters, Writer, 1)]
    BY <1>5, <1>12, <2>2, <2>7 DEF OrAdd, WithDots
  <2>9. u = [elements |-> f, tombstones |-> s.tombstones, counters |-> GInc(s.counters, Writer, 1)]
    BY <1>5, <2>8
  <2> QED
    BY <1>1, <1>2, <1>6, <2>1, <2>4, <2>5, <2>6, <2>7, <2>9
<1>14. CASE op.name = "remove"
  <2>1. Perform("ORSET", s, op) = OrRemove(s, e0)
    BY <1>4, <1>14 DEF Perform
  <2>2. PICK f : f = [s.tombstones EXCEPT ![e0] = s.tombstones[e0] \cup s.elements[e0]]
    OBVIOUS
  <2>3. f = [e \in Elem |-> IF e = e0 THEN s.tombstones[e] \cup s.elements[e] ELSE s.tombstones[e]]
    BY <1>4, <1>5, <2>2
  <2>4. f = t.tombstones
    BY <1>6, <1>8, <1>14, <2>3
  <2>5. s.counters = t.counters
    BY <1>9, <1>14
  <2>6. t.elements = s.elements
    BY <1>5, <1>6, <1>7, <1>14
  <2>7. PICK u : u = OrRemove(s, e0)
    OBVIOUS
  <2>8. u = [s EXCEPT !.tombstones = f]
    BY <1>5, <2>2, <2>7 DEF OrRemove, WithDots
  <2>9. u = [elements |-> s.elements, tombstones |-> f, counters |-> s.counters]
    BY <1>5, <2>8
  <2> QED
    BY <1>1, <1>2, <1>6, <2>1, <2>4, <2>5, <2>6, <2>7, <2>9
<1> QED
  BY <1>13, <1>14

(* Performing the next update on what the updates so far show gives what   *)
(* they show with it, and nothing changes at another node.                 *)
LEMMA PerformShown ==
  ASSUME NEW H, NEW G, NEW op, NEW X, NEW id, NextUpdate(H, G, op, X, id),
         NEW k \in {"GCOUNTER", "PNCOUNTER", "LWW_REG", "ORSET"}, op.name \in Operations(k),
         op.name # "clear"
  PROVE  Perform(k, Shown(H, k, X, op.node), op) = Shown(G, k, X \cup {id}, op.node)
<1>1. PICK s : s = Shown(H, k, X, op.node)
  OBVIOUS
<1>2. PICK t : t = Shown(G, k, X \cup {id}, op.node)
  OBVIOUS
<1>3. op.actor = Writer
  BY DEF NextUpdate
<1>4. CASE k = "GCOUNTER"
  <2>1. op.name = "inc"
    BY <1>4 DEF Operations
  <2>2. OneNumber(H, G, op, X, id, op.node, "inc")
    BY NextNumber
  <2>3. PICK n \in Nat : n = Number(H, X, op.node, "inc") /\ Number(G, X \cup {id}, op.node, "inc") = n + 1
    BY <2>1, <2>2 DEF OneNumber
  <2>4. s = Solo(n) /\ t = Solo(n + 1)
    BY <1>1, <1>2, <1>4, <2>3 DEF Shown
  <2>5. Perform(k, s, op) = GInc(s, Writer, 1)
    BY <1>3, <1>4 DEF Perform
  <2> QED
    BY <1>1, <1>2, <2>4, <2>5, SoloInc
<1>5. CASE k = "PNCOUNTER"
  <2>1. op.name \in {"inc", "dec"}
    BY <1>5 DEF Operations
  <2>2. OneNumber(H, G, op, X, id, op.node, "inc")
    BY NextNumber
  <2>3. OneNumber(H, G, op, X, id, op.node, "dec")
    BY NextNumber
  <2>4. PICK a \in Nat : a = Number(H, X, op.node, "inc")
    BY <2>2 DEF OneNumber
  <2>5. PICK b \in Nat : b = Number(H, X, op.node, "dec")
    BY <2>3 DEF OneNumber
  <2>6. s = [p |-> Solo(a), n |-> Solo(b)]
    BY <1>1, <1>5, <2>4, <2>5 DEF Shown
  <2>7. t = [p |-> Solo(Number(G, X \cup {id}, op.node, "inc")), n |-> Solo(Number(G, X \cup {id}, op.node, "dec"))]
    BY <1>2, <1>5 DEF Shown
  <2>8. CASE op.name = "inc"
    <3>1. t = [p |-> Solo(a + 1), n |-> Solo(b)]
      BY <2>2, <2>3, <2>4, <2>5, <2>7, <2>8 DEF OneNumber
    <3>2. Perform(k, s, op) = [s EXCEPT !.p = GInc(s.p, Writer, 1)]
      BY <1>3, <1>5, <2>8 DEF Perform
    <3>3. GInc(Solo(a), Writer, 1) = Solo(a + 1)
      BY SoloInc
    <3>4. Perform(k, s, op) = [p |-> Solo(a + 1), n |-> Solo(b)]
      BY <2>6, <3>2, <3>3
    <3> QED
      BY <1>1, <1>2, <3>1, <3>4
  <2>9. CASE op.name = "dec"
    <3>1. t = [p |-> Solo(a), n |-> Solo(b + 1)]
      BY <2>2, <2>3, <2>4, <2>5, <2>7, <2>9 DEF OneNumber
    <3>2. Perform(k, s, op) = [s EXCEPT !.n = GInc(s.n, Writer, 1)]
      BY <1>3, <1>5, <2>9 DEF Perform
    <3>3. GInc(Solo(b), Writer, 1) = Solo(b + 1)
      BY SoloInc
    <3>4. Perform(k, s, op) = [p |-> Solo(a), n |-> Solo(b + 1)]
      BY <2>6, <3>2, <3>3
    <3> QED
      BY <1>1, <1>2, <3>1, <3>4
  <2> QED
    BY <2>1, <2>8, <2>9
<1>6. CASE k = "LWW_REG"
  <2>1. op.name = "update"
    BY <1>6 DEF Operations
  <2>2. Perform(k, s, op) = LwwUpdate(s, op.hlc, op.actor, op.id)
    BY <1>6 DEF Perform
  <2>3. s = ShownReg(H, X, op.node) /\ t = ShownReg(G, X \cup {id}, op.node)
    BY <1>1, <1>2, <1>6 DEF Shown
  <2>4. t = LwwUpdate(s, op.hlc, op.actor, op.id)
    BY <2>1, <2>3, NextReg
  <2> QED
    BY <1>1, <1>2, <2>2, <2>4
<1>7. CASE k = "ORSET"
  <2>1. op.name \in {"add", "remove"}
    BY <1>7 DEF Operations
  <2>2. s = ShownSet(H, X, op.node) /\ t = ShownSet(G, X \cup {id}, op.node)
    BY <1>1, <1>2, <1>7 DEF Shown
  <2>3. Perform("ORSET", s, op) = t
    BY <2>1, <2>2, PerformSet
  <2> QED
    BY <1>1, <1>2, <1>7, <2>3
<1> QED
  BY <1>4, <1>5, <1>6, <1>7

LEMMA OthersShown ==
  ASSUME NEW H, NEW G, NEW op, NEW X, NEW id, NextUpdate(H, G, op, X, id), NEW m, m # op.node,
         NEW k \in {"GCOUNTER", "PNCOUNTER", "LWW_REG", "ORSET"}
  PROVE  Shown(G, k, X \cup {id}, m) = Shown(H, k, X, m)
<1>1. Number(G, X \cup {id}, m, "inc") = Number(H, X, m, "inc")
  <2>1. OneNumber(H, G, op, X, id, m, "inc")
    BY NextNumber
  <2> QED
    BY <2>1 DEF OneNumber
<1>2. Number(G, X \cup {id}, m, "dec") = Number(H, X, m, "dec")
  <2>1. OneNumber(H, G, op, X, id, m, "dec")
    BY NextNumber
  <2> QED
    BY <2>1 DEF OneNumber
<1>3. ShownReg(G, X \cup {id}, m) = ShownReg(H, X, m)
  BY NextReg
<1>4. ShownSet(G, X \cup {id}, m) = ShownSet(H, X, m)
  <2>1. PICK s : s = ShownSet(H, X, m)
    OBVIOUS
  <2>2. PICK t : t = ShownSet(G, X \cup {id}, m)
    OBVIOUS
  <2>a. OneSet(s, t, op, m, Number(H, X, m, "add"))
    BY <2>1, <2>2, NextSet
  <2>3. \A e \in Elem : t.elements[e] = s.elements[e]
    BY <2>a DEF OneSet
  <2>4. \A e \in Elem : t.tombstones[e] = s.tombstones[e]
    BY <2>a DEF OneSet
  <2>5. t.counters = s.counters
    BY <2>a DEF OneSet
  <2>6. /\ s = [elements |-> s.elements, tombstones |-> s.tombstones, counters |-> s.counters]
        /\ s.elements = [e \in Elem |-> s.elements[e]] /\ s.tombstones = [e \in Elem |-> s.tombstones[e]]
    <3>1. MadeOfParts(s)
      BY <2>1, SetOfParts
    <3> QED
      BY <3>1 DEF MadeOfParts
  <2>7. /\ t = [elements |-> t.elements, tombstones |-> t.tombstones, counters |-> t.counters]
        /\ t.elements = [e \in Elem |-> t.elements[e]] /\ t.tombstones = [e \in Elem |-> t.tombstones[e]]
    <3>1. MadeOfParts(t)
      BY <2>2, SetOfParts
    <3> QED
      BY <3>1 DEF MadeOfParts
  <2>8. t.elements = s.elements /\ t.tombstones = s.tombstones
    BY <2>3, <2>4, <2>6, <2>7
  <2> QED
    BY <2>1, <2>2, <2>5, <2>6, <2>7, <2>8
<1>5. CASE k = "GCOUNTER"
  BY <1>1, <1>5 DEF Shown
<1>6. CASE k = "PNCOUNTER"
  BY <1>1, <1>2, <1>6 DEF Shown
<1>7. CASE k = "LWW_REG"
  BY <1>3, <1>7 DEF Shown
<1>8. CASE k = "ORSET"
  BY <1>4, <1>8 DEF Shown
<1> QED
  BY <1>5, <1>6, <1>7, <1>8

-----------------------------------------------------------------------------
(* Reading, joining and numbering.                                         *)

(* Reading what the updates show.                                          *)
LEMMA ReadShown ==
  ASSUME LogHistory(done), held \subseteq 1..Len(done), NEW n,
         lkind \in {"GCOUNTER", "PNCOUNTER", "LWW_REG", "ORSET"},
         mem[1][n] = Shown(done, lkind, held, n)
  PROVE  ReadsBack(n)
<1>1. PICK l \in Nat : l = Len(done) /\ held \subseteq 1..l
  BY HistoryTypes
<1>2. \A nm : HeldAt(n, nm) = NamedAt(done, held, n, nm)
  BY DEF HeldAt, NamedAt
<1>3. \A nm : Number(done, held, n, nm) = Cardinality(HeldAt(n, nm))
  BY <1>2 DEF Number
<1>4. \A nm : Number(done, held, n, nm) \in Nat
  BY <1>1, NamedTypes
<1>5. PICK s : s = mem[1][n]
  OBVIOUS
<1>6. CASE lkind = "GCOUNTER"
  <2>1. s = Solo(Number(done, held, n, "inc"))
    BY <1>5, <1>6 DEF Shown
  <2>2. GValue(s) = Number(done, held, n, "inc")
    BY <1>4, <2>1, SoloValue
  <2> QED
    BY <1>3, <1>5, <1>6, <2>2 DEF ReadsBack
<1>7. CASE lkind = "PNCOUNTER"
  <2>1. s = [p |-> Solo(Number(done, held, n, "inc")), n |-> Solo(Number(done, held, n, "dec"))]
    BY <1>5, <1>7 DEF Shown
  <2>2. GValue(s.p) = Number(done, held, n, "inc")
    BY <1>4, <2>1, SoloValue
  <2>3. GValue(s.n) = Number(done, held, n, "dec")
    BY <1>4, <2>1, SoloValue
  <2>4. PNValue(s) = Number(done, held, n, "inc") - Number(done, held, n, "dec")
    BY <2>2, <2>3 DEF PNValue
  <2> QED
    BY <1>3, <1>5, <1>7, <2>4 DEF ReadsBack
<1>8. CASE lkind = "LWW_REG"
  <2>1. PICK U : U = HeldAt(n, "update")
    OBVIOUS
  <2>2. s = IF U = {} THEN DefaultReg ELSE Stamped(Max(U))
    BY <1>2, <1>5, <1>8, <2>1 DEF Shown, ShownReg
  <2>3. s.value = Max({NoValue} \cup U)
    <3>1. CASE U = {}
      <4>1. Max({0}) = 0
        BY MaxOfTwo
      <4> QED
        BY <2>2, <3>1, <4>1 DEF DefaultReg, NoValue
    <3>2. CASE U # {}
      <4>1. U \subseteq 1..l
        BY <1>1, <2>1 DEF HeldAt
      <4>2. U \subseteq Nat /\ \A x \in U : x <= l
        BY <4>1
      <4>3. Max(U) \in U /\ \A y \in U : y <= Max(U)
        BY <3>2, <4>2, MaxOfBounded
      <4>4. PICK W : W = {NoValue} \cup U
        OBVIOUS
      <4>5. W \subseteq Nat /\ W # {} /\ \A x \in W : x <= l
        BY <4>2, <4>4 DEF NoValue
      <4>6. Max(W) \in W /\ \A y \in W : y <= Max(W)
        BY <4>5, MaxOfBounded
      <4>7. PICK a \in 1..l : a = Max(U)
        BY <4>1, <4>3
      <4>8. PICK b \in Nat : b = Max(W)
        BY <4>5, <4>6
      <4>9. a <= b
        BY <4>3, <4>4, <4>6, <4>7, <4>8
      <4>10. b \in U \/ b = 0
        BY <4>4, <4>6, <4>8 DEF NoValue
      <4>11. a = b
        BY <4>3, <4>7, <4>9, <4>10
      <4>12. s.value = a
        BY <2>2, <3>2, <4>7 DEF Stamped
      <4> QED
        BY <4>4, <4>8, <4>11, <4>12
    <3> QED
      BY <3>1, <3>2
  <2> QED
    BY <1>5, <1>8, <2>1, <2>3 DEF ReadsBack
<1>9. CASE lkind = "ORSET"
  <2> DEFINE A == HeldAt(n, "add")
             Live == {b \in A : \A r \in HeldAt(n, "remove") : done[r].elem = done[b].elem => b \notin done[r].seen}
  <2>1. s = ShownSet(done, held, n)
    BY <1>5, <1>9 DEF Shown
  <2>2. \A e \in Elem : \A d : d \in s.elements[e] <=>
                             \E i \in AddsAt(done, held, n, e) : d = LogDot(done, held, n, i)
    BY <2>1 DEF ShownSet
  <2>3. \A e \in Elem : \A d : d \in s.tombstones[e] <=>
                             \E i \in Gone(done, held, n, e) : d = LogDot(done, held, n, i)
    BY <2>1 DEF ShownSet
  <2>4. \A e : AddsAt(done, held, n, e) = {i \in A : done[i].elem = e}
    BY <1>2 DEF AddsAt
  <2>5. \A e : Gone(done, held, n, e) = {i \in AddsAt(done, held, n, e) :
                  \E r \in HeldAt(n, "remove") : done[r].elem = e /\ i \in done[r].seen}
    BY <1>2 DEF Gone
  <2>6. \A i, j \in A : LogDot(done, held, n, i) = LogDot(done, held, n, j) => i = j
    <3>1. \A i, j \in NamedAt(done, held, n, "add") :
            LogDot(done, held, n, i) = LogDot(done, held, n, j) => i = j
      BY <1>1, DotNumbers
    <3> QED
      BY <1>2, <3>1
  <2>7. \A i \in A : done[i].elem \in Elem
    <3>1. A \subseteq 1..Len(done)
      BY <1>1 DEF HeldAt
    <3> QED
      BY <3>1, HistoryTypes
  <2> HIDE DEF A
  <2>8. ASSUME NEW e \in Elem
        PROVE  OrContains(s, e) <=> \E i \in A : done[i].elem = e /\ i \in Live
    <3>1. ASSUME NEW d \in s.elements[e], d \notin s.tombstones[e]
          PROVE  \E i \in A : done[i].elem = e /\ i \in Live
      <4>1. PICK i \in AddsAt(done, held, n, e) : d = LogDot(done, held, n, i)
        BY <2>2
      <4>2. i \notin Gone(done, held, n, e)
        BY <2>3, <3>1, <4>1
      <4>3. i \in A /\ done[i].elem = e
        BY <2>4, <4>1
      <4>4. i \in Live
        BY <2>5, <4>1, <4>2, <4>3
      <4> QED
        BY <4>3, <4>4
    <3>2. ASSUME NEW i \in A, done[i].elem = e, i \in Live
          PROVE  \E d \in s.elements[e] : d \notin s.tombstones[e]
      <4>1. i \in AddsAt(done, held, n, e)
        BY <2>4, <3>2
      <4>2. i \notin Gone(done, held, n, e)
        BY <2>5, <3>2
      <4>3. LogDot(done, held, n, i) \in s.elements[e]
        BY <2>2, <4>1
      <4>4. ASSUME LogDot(done, held, n, i) \in s.tombstones[e] PROVE FALSE
        <5>1. PICK j \in Gone(done, held, n, e) : LogDot(done, held, n, i) = LogDot(done, held, n, j)
          BY <2>3, <4>4
        <5>2. j \in A
          BY <2>4, <2>5
        <5>3. i = j
          BY <2>6, <5>1, <5>2
        <5> QED
          BY <4>2, <5>3
      <4> QED
        BY <4>3, <4>4
    <3>3. OrContains(s, e) <=> \E d \in s.elements[e] : d \notin s.tombstones[e]
      BY DEF OrContains
    <3> QED
      BY <3>1, <3>2, <3>3
  <2>9. Live \subseteq A
    OBVIOUS
  <2>10. \A x : x \in OrElements(s) <=> x \in Elem /\ OrContains(s, x)
    BY DEF OrElements
  <2> HIDE DEF Live
  <2>11. \A x : x \in OrElements(s) <=> \E i \in Live : x = done[i].elem
    BY <2>7, <2>8, <2>9, <2>10
  <2>12. OrElements(s) = {done[a].elem : a \in Live}
    BY <2>11
  <2> QED
    BY <1>5, <1>9, <2>12 DEF ReadsBack, Live, A
<1> QED
  BY <1>6, <1>7, <1>8, <1>9

(* Two beginnings of one set.                                              *)
LEMMA BeginsEither ==
  ASSUME NEW T, InLog(T), NEW A, Begins(A, T), NEW B, Begins(B, T)
  PROVE  Begins(A, B) \/ Begins(B, A)
<1>1. PICK m \in Nat : m = MaxUpdates
  BY LogAssumption
<1>2. A \subseteq 1..m /\ B \subseteq 1..m /\ A \subseteq T /\ B \subseteq T
  BY <1>1 DEF Begins, InLog
<1>3. \A i \in A, j \in T : j < i => j \in A
  BY DEF Begins
<1>4. \A i \in B, j \in T : j < i => j \in B
  BY DEF Begins
<1>5. ASSUME NEW a \in A, a \notin B PROVE B \subseteq A
  <2>1. ASSUME NEW b \in B PROVE b \in A
    <3>1. a \in 1..m /\ b \in 1..m /\ a \in T /\ b \in T
      BY <1>2
    <3>2. ~(a < b)
      BY <1>4, <1>5, <3>1
    <3>3. b < a \/ b = a
      BY <3>1, <3>2
    <3> QED
      BY <1>3, <3>1, <3>3
  <2> QED
    BY <2>1
<1>6. A \subseteq B \/ B \subseteq A
  BY <1>5
<1>7. ASSUME A \subseteq B PROVE Begins(A, B)
  BY <1>2, <1>3, <1>7 DEF Begins
<1>8. ASSUME B \subseteq A PROVE Begins(B, A)
  BY <1>2, <1>4, <1>8 DEF Begins
<1> QED
  BY <1>6, <1>7, <1>8

LEMMA BeginsUnion ==
  ASSUME NEW T, NEW F, \A A \in F : Begins(A, T)
  PROVE  Begins(UNION F, T)
BY DEF Begins

LEMMA JoinEither ==
  ASSUME NEW k \in {"GCOUNTER", "PNCOUNTER", "LWW_REG", "ORSET"},
         NEW T, InLog(T), NEW A, Begins(A, T), NEW B, Begins(B, T), NEW H, NEW n
  PROVE  Join(k, Shown(H, k, A, n), Shown(H, k, B, n)) = Shown(H, k, A \cup B, n)
<1>1. A \subseteq T /\ B \subseteq T
  BY DEF Begins
<1>2. InLog(A) /\ InLog(B)
  BY <1>1 DEF InLog
<1>3. CASE Begins(A, B)
  <2>1. A \cup B = B
    BY <1>3 DEF Begins
  <2> QED
    BY <1>2, <1>3, <2>1, JoinBeginning
<1>4. CASE Begins(B, A)
  <2>1. A \cup B = A
    BY <1>4 DEF Begins
  <2> QED
    BY <1>2, <1>4, <2>1, JoinBeginning
<1> QED
  BY <1>3, <1>4, BeginsEither

(* A node shows only its own updates.                                      *)
LEMMA LocalShown ==
  ASSUME NEW A, NEW B, A \subseteq B, NEW H, NEW n, \A u \in B : H[u].node = n => u \in A
  PROVE  \A k : Shown(H, k, A, n) = Shown(H, k, B, n)
<1>1. \A nm : NamedAt(H, A, n, nm) = NamedAt(H, B, n, nm)
  BY DEF NamedAt
<1>2. \A nm : Number(H, A, n, nm) = Number(H, B, n, nm)
  BY <1>1 DEF Number
<1>3. \A e : AddsAt(H, A, n, e) = AddsAt(H, B, n, e)
  BY <1>1 DEF AddsAt
<1>4. \A e : Gone(H, A, n, e) = Gone(H, B, n, e)
  BY <1>1, <1>3 DEF Gone
<1>5. \A i : LogDot(H, A, n, i) = LogDot(H, B, n, i)
  <2> TAKE i
  <2>1. Before(H, A, n, i) = Before(H, B, n, i)
    BY <1>1 DEF Before
  <2> QED
    BY <2>1 DEF LogDot
<1>6. ShownReg(H, A, n) = ShownReg(H, B, n)
  BY <1>1 DEF ShownReg
<1>7. ShownSet(H, A, n) = ShownSet(H, B, n)
  <2>1. [e \in Elem |-> {LogDot(H, A, n, i) : i \in AddsAt(H, A, n, e)}]
        = [e \in Elem |-> {LogDot(H, B, n, i) : i \in AddsAt(H, B, n, e)}]
    BY <1>3, <1>5
  <2>2. [e \in Elem |-> {LogDot(H, A, n, i) : i \in Gone(H, A, n, e)}]
        = [e \in Elem |-> {LogDot(H, B, n, i) : i \in Gone(H, B, n, e)}]
    BY <1>4, <1>5
  <2> QED
    BY <1>2, <2>1, <2>2 DEF ShownSet
<1>8. Number(H, A, n, "inc") = Number(H, B, n, "inc") /\ Number(H, A, n, "dec") = Number(H, B, n, "dec")
  BY <1>2
<1>9. PICK a, b : a = Number(H, A, n, "inc") /\ b = Number(H, A, n, "dec")
  OBVIOUS
<1> SUFFICES ASSUME NEW k PROVE Shown(H, k, A, n) = Shown(H, k, B, n)
  OBVIOUS
<1>10. Shown(H, k, A, n) = CASE k = "GCOUNTER"  -> Solo(a)
                             [] k = "PNCOUNTER" -> [p |-> Solo(a), n |-> Solo(b)]
                             [] k = "LWW_REG"   -> ShownReg(H, A, n)
                             [] k = "ORSET"     -> ShownSet(H, A, n)
  BY <1>9 DEF Shown
<1>11. Shown(H, k, B, n) = CASE k = "GCOUNTER"  -> Solo(a)
                             [] k = "PNCOUNTER" -> [p |-> Solo(a), n |-> Solo(b)]
                             [] k = "LWW_REG"   -> ShownReg(H, B, n)
                             [] k = "ORSET"     -> ShownSet(H, B, n)
  BY <1>8, <1>9 DEF Shown
<1> QED
  BY <1>6, <1>7, <1>10, <1>11

(* The scan of a log whose records are whole, the last perhaps torn.       *)
LEMMA ScanStops ==
  ASSUME NEW n \in Nat, n = Len(file) \/ (Len(file) = n + 1 /\ file[n + 1].part \in Parts),
         \A i \in 1..n : file[i].part = "whole"
  PROVE  /\ recover_wal_tail = n
         /\ n = Len(file) => validate_wal = <<n>>
<1>1. PICK l \in Nat : l = Len(file) /\ (n = l \/ l = n + 1)
  OBVIOUS
<1>2. \A i \in 1..n : next_record(i) = "record"
  <2> TAKE i \in 1..n
  <2>1. file[i].part = "whole" /\ ~(i > l)
    BY <1>1
  <2> QED
    BY <1>1, <2>1 DEF next_record, HeaderReads, BodyReads, validate_crc
<1>3. next_record(n + 1) # "record" /\ (n = l => next_record(n + 1) = "none")
  <2>1. CASE n = l
    <3>1. n + 1 > l
      BY <1>1, <2>1
    <3>2. next_record(n + 1) = "none"
      BY <1>1, <3>1 DEF next_record
    <3> QED
      BY <3>2
  <2>2. CASE n # l
    <3>1. file[n + 1].part \in Parts
      BY <1>1, <2>2
    <3>2. ~validate_crc(n + 1)
      BY <3>1 DEF validate_crc, Parts
    <3> QED
      BY <2>2, <3>2 DEF next_record
  <2> QED
    BY <2>1, <2>2
<1> DEFINE S == {i \in 1..(Len(file) + 1) : next_record(i) # "record"}
<1>4. ScanEnd = Min(S)
  BY DEF ScanEnd
<1>5. n + 1 \in S
  BY <1>1, <1>3
<1>6. \A i \in S : n + 1 <= i
  BY <1>1, <1>2
<1>7. \A i \in S : i \in Nat
  OBVIOUS
<1> HIDE DEF S
<1>8. Min(S) = n + 1
  <2>1. \E x \in S : \A y \in S : x <= y
    BY <1>5, <1>6
  <2>2. Min(S) \in S /\ \A y \in S : Min(S) <= y
    BY <2>1 DEF Min
  <2>3. PICK m \in Nat : m = Min(S) /\ m \in S
    BY <1>7, <2>2
  <2> QED
    BY <1>5, <1>6, <2>2, <2>3
<1>9. ScanEnd = n + 1
  BY <1>4, <1>8
<1>10. recover_wal_tail = n
  BY <1>9 DEF recover_wal_tail
<1>11. n = Len(file) => ~ScanFails
  BY <1>1, <1>3, <1>9 DEF ScanFails
<1> QED
  BY <1>10, <1>11 DEF validate_wal

(* The records of a log are in the order of their stamps already.          *)
LEMMA SortedStays ==
  ASSUME NEW S, NEW w \in Seq(S), \A i \in 1..Len(w) : w[i].hlc \in Nat,
         \A i, j \in 1..Len(w) : i < j => w[i].hlc < w[j].hlc
  PROVE  ByHlc(w) = w
<1>1. PICK n \in Nat : n = Len(w)
  OBVIOUS
<1> DEFINE Before2(i, j) == w[i].hlc < w[j].hlc \/ (w[i].hlc = w[j].hlc /\ i < j)
           Ordered(p) == \A i, j \in 1..n : i < j => Before2(p[i], p[j])
           order == CHOOSE p \in [1..n -> 1..n] : Ordered(p)
<1>2. ByHlc(w) = [i \in 1..n |-> w[order[i]]]
  BY <1>1 DEF ByHlc
<1>3. \A i, j \in 1..n : Before2(i, j) => i < j
  <2> TAKE i, j \in 1..n
  <2>1. w[i].hlc \in Nat /\ w[j].hlc \in Nat
    BY <1>1
  <2>2. j < i => w[j].hlc < w[i].hlc
    BY <1>1
  <2>3. j = i => ~Before2(i, j)
    BY <2>1
  <2> QED
    BY <2>1, <2>2, <2>3
<1>4. \A i, j \in 1..n : i < j => Before2(i, j)
  BY <1>1
<1> HIDE DEF Before2
<1>5. \E p \in [1..n -> 1..n] : Ordered(p)
  <2>1. [i \in 1..n |-> i] \in [1..n -> 1..n]
    OBVIOUS
  <2>2. Ordered([i \in 1..n |-> i])
    BY <1>4
  <2> QED
    BY <2>1, <2>2
<1>6. order \in [1..n -> 1..n] /\ Ordered(order)
  BY <1>5
<1> HIDE DEF order
<1>7. PICK p \in [1..n -> 1..n] : p = order
  BY <1>6
<1>8. \A i, j \in 1..n : i < j => p[i] < p[j]
  <2>1. \A i, j \in 1..n : i < j => Before2(p[i], p[j])
    BY <1>6, <1>7
  <2>2. \A i \in 1..n : p[i] \in 1..n
    OBVIOUS
  <2> QED
    BY <1>3, <2>1, <2>2
<1> DEFINE Up == {k \in 0..n : k > 0 => p[k] >= k}
           Dn == {k \in 0..n : k < n => p[n - k] <= n - k}
<1>9. \A k \in 0..n : k \in Up
  <2>1. 0 \in Up
    OBVIOUS
  <2>2. ASSUME NEW k \in 1..n, k - 1 \in Up PROVE k \in Up
    <3>1. p[k] \in 1..n
      OBVIOUS
    <3>2. CASE k = 1
      BY <3>1, <3>2
    <3>3. CASE k # 1
      <4>1. k - 1 \in 1..n /\ k - 1 < k
        BY <3>3
      <4>2. p[k - 1] < p[k] /\ p[k - 1] >= k - 1 /\ p[k - 1] \in 1..n
        BY <1>8, <2>2, <4>1
      <4> QED
        BY <3>1, <4>2
    <3> QED
      BY <3>2, <3>3
  <2> HIDE DEF Up
  <2> QED
    BY <2>1, <2>2, Climb
<1>10. \A k \in 0..n : k \in Dn
  <2>1. 0 \in Dn
    <3>1. 0 < n => p[n - 0] \in 1..n
      OBVIOUS
    <3> QED
      BY <3>1
  <2>2. ASSUME NEW k \in 1..n, k - 1 \in Dn PROVE k \in Dn
    <3>1. CASE k < n
      <4>1. PICK a \in 1..n : a = n - k /\ a + 1 \in 1..n /\ a + 1 = n - (k - 1)
        BY <3>1
      <4>2. p[a] < p[a + 1] /\ p[a + 1] <= a + 1 /\ p[a] \in 1..n /\ p[a + 1] \in 1..n
        BY <1>8, <2>2, <3>1, <4>1
      <4> QED
        BY <4>1, <4>2
    <3>2. CASE ~(k < n)
      BY <3>2
    <3> QED
      BY <3>1, <3>2
  <2> HIDE DEF Dn
  <2> QED
    BY <2>1, <2>2, Climb
<1>11. ASSUME NEW i \in 1..n PROVE p[i] = i
  <2>1. p[i] >= i /\ p[i] \in 1..n
    <3>1. i \in Up
      BY <1>9
    <3> QED
      BY <3>1
  <2>2. p[i] <= i
    <3>1. PICK k \in 0..n : k = n - i /\ k < n /\ n - k = i
      OBVIOUS
    <3>2. k \in Dn
      BY <1>10
    <3> QED
      BY <3>1, <3>2
  <2> QED
    BY <2>1, <2>2
<1>12. ByHlc(w) = [i \in 1..n |-> w[i]]
  BY <1>2, <1>7, <1>11
<1>13. w = [i \in 1..n |-> w[i]]
  BY <1>1
<1> QED
  BY <1>12, <1>13

(* A snapshot's index numbers every node, in order.                        *)
NodeRank(n) == Cardinality({m \in Node : m < n})

LEMMA NodesRanked ==
  /\ IsFiniteSet(Node) /\ Cardinality(Node) \in Nat
  /\ \A n \in Node : n \in Nat /\ NodeRank(n) \in 0..(Cardinality(Node) - 1)
  /\ \A m, n \in Node : m < n => NodeRank(m) < NodeRank(n)
<1>1. Node \subseteq Nat /\ IsFiniteSet(Node)
  BY LogAssumption
<1>2. PICK c \in Nat : c = Cardinality(Node)
  BY <1>1, FS_CardinalityType
<1> DEFINE Less(n) == {m \in Node : m < n}
<1>3. \A n : Less(n) \in SUBSET Node /\ IsFiniteSet(Less(n)) /\ Cardinality(Less(n)) \in Nat
  <2> TAKE n
  <2>1. Less(n) \in SUBSET Node
    OBVIOUS
  <2>2. IsFiniteSet(Less(n))
    BY <1>1, <2>1, FS_Subset
  <2> QED
    BY <2>1, <2>2, FS_CardinalityType
<1>4. ASSUME NEW m \in Nat, NEW n \in Nat, m \in Node, m < n
      PROVE  Cardinality(Less(m)) < Cardinality(Less(n))
  <2>1. Less(m) \subseteq Less(n) /\ m \in Less(n) /\ m \notin Less(m)
    <3>1. \A x \in Less(m) : x \in Less(n)
      <4> TAKE x \in Less(m)
      <4>1. x \in Node /\ x < m /\ x \in Nat
        BY <1>1
      <4> QED
        BY <1>4, <4>1
    <3>2. m \in Less(n) /\ m \notin Less(m)
      BY <1>4
    <3> HIDE DEF Less
    <3> QED
      BY <3>1, <3>2
  <2> HIDE DEF Less
  <2>2. Less(m) # Less(n)
    BY <2>1
  <2>3. PICK a \in Nat : a = Cardinality(Less(m))
    BY <1>3
  <2>4. PICK b \in Nat : b = Cardinality(Less(n))
    BY <1>3
  <2>5. a <= b /\ a # b
    BY <1>3, <2>1, <2>2, <2>3, <2>4, FS_Subset
  <2> QED
    BY <2>3, <2>4, <2>5
<1>5. ASSUME NEW n \in Node PROVE Cardinality(Less(n)) \in 0..(c - 1)
  <2>1. n \notin Less(n) /\ n \in Nat
    BY <1>1
  <2> HIDE DEF Less
  <2>2. Less(n) # Node
    BY <2>1
  <2>3. PICK a \in Nat : a = Cardinality(Less(n))
    BY <1>3
  <2>4. a <= c /\ a # c
    BY <1>1, <1>2, <1>3, <2>2, <2>3, FS_Subset
  <2> QED
    BY <2>3, <2>4
<1>6. \A n : NodeRank(n) = Cardinality(Less(n))
  BY DEF NodeRank
<1> HIDE DEF Less
<1> QED
  BY <1>1, <1>2, <1>4, <1>5, <1>6

LEMMA NodeNumbers ==
  /\ \A i \in 1..Cardinality(Node) : NodeAt(i) \in Node /\ NodeRank(NodeAt(i)) = i - 1
  /\ \A n \in Node : \E i \in 1..Cardinality(Node) : NodeAt(i) = n
  /\ \A i \in 2..Cardinality(Node) : NodeAt(i - 1) <= NodeAt(i)
<1>1. PICK c \in Nat : c = Cardinality(Node)
  BY NodesRanked
<1>2. IsFiniteSet(Node) /\ \A n \in Node : n \in Nat /\ NodeRank(n) \in 0..(c - 1)
  BY <1>1, NodesRanked
<1>3. \A m, n \in Node : m < n => NodeRank(m) < NodeRank(n)
  BY NodesRanked
<1>4. \A m, n \in Node : NodeRank(m) = NodeRank(n) => m = n
  <2> TAKE m, n \in Node
  <2>1. m \in Nat /\ n \in Nat /\ NodeRank(m) \in Nat /\ NodeRank(n) \in Nat
    BY <1>2
  <2>2. (m < n => NodeRank(m) < NodeRank(n)) /\ (n < m => NodeRank(n) < NodeRank(m))
    BY <1>3
  <2> QED
    BY <2>1, <2>2
<1> DEFINE f == [n \in Node |-> NodeRank(n) + 1]
<1>5. f \in Injection(Node, 1..c)
  <2>1. f \in [Node -> 1..c]
    BY <1>1, <1>2
  <2>2. \A m, n \in Node : f[m] = f[n] => m = n
    BY <1>2, <1>4
  <2> HIDE DEF f
  <2> QED
    BY <2>1, <2>2 DEF Injection, IsInjective
<1>6. IsFiniteSet(1..c) /\ Cardinality(1..c) = c
  BY FS_Interval
<1>7. f \in Surjection(Node, 1..c)
  BY <1>1, <1>2, <1>5, <1>6, FS_Injection
<1>8. \A i \in 1..c : \E n \in Node : NodeRank(n) = i - 1
  <2> TAKE i \in 1..c
  <2>1. PICK n \in Node : f[n] = i
    BY <1>7 DEF Surjection
  <2>2. NodeRank(n) + 1 = i /\ NodeRank(n) \in 0..(c - 1)
    BY <1>2, <2>1
  <2> QED
    BY <2>2
<1>9. \A i : NodeAt(i) = CHOOSE n \in Node : NodeRank(n) = i - 1
  BY DEF NodeAt, NodeRank
<1>10. \A i \in 1..c : NodeAt(i) \in Node /\ NodeRank(NodeAt(i)) = i - 1
  BY <1>8, <1>9
<1>11. ASSUME NEW n \in Node PROVE \E i \in 1..c : NodeAt(i) = n
  <2>1. PICK i \in 1..c : i = NodeRank(n) + 1 /\ NodeRank(n) = i - 1
    BY <1>1, <1>2
  <2>2. NodeAt(i) \in Node /\ NodeRank(NodeAt(i)) = NodeRank(n)
    BY <1>10, <2>1
  <2> QED
    BY <1>4, <2>2
<1>12. ASSUME NEW i \in 2..c PROVE NodeAt(i - 1) <= NodeAt(i)
  <2>1. i \in 1..c /\ i - 1 \in 1..c
    BY <1>1
  <2>2. PICK a \in Node : a = NodeAt(i - 1) /\ NodeRank(a) = (i - 1) - 1
    BY <1>10, <2>1
  <2>3. PICK b \in Node : b = NodeAt(i) /\ NodeRank(b) = i - 1
    BY <1>10, <2>1
  <2>4. a \in Nat /\ b \in Nat /\ ~(b < a)
    <3>1. a \in Nat /\ b \in Nat
      BY <1>2
    <3>2. b < a => i - 1 < (i - 1) - 1
      BY <1>3, <2>2, <2>3
    <3> QED
      BY <2>1, <3>1, <3>2
  <2> QED
    BY <2>2, <2>3, <2>4
<1> QED
  BY <1>1, <1>10, <1>11, <1>12

-----------------------------------------------------------------------------
(* Compaction.                                                             *)

(* The updates that node m of the store shows once the records with the    *)
(* indexes s have been joined into what the updates X show.                *)
Own(w, X, s, m) == X \cup UNION {w[i].ops : i \in {j \in s : w[j].node = m}}
StoreOf(H, k, w, X, s) == [m \in Node |-> Shown(H, k, Own(w, X, s, m), m)]
Take(k, store, r) == [store EXCEPT ![r.node] = Join(k, @, deserialize_payload(k, r.payload))]

Says(H, k, r) == deserialize_payload(k, r.payload) = Shown(H, k, r.ops, r.node)
Joinable(H, k, w, n, X, T) ==
    /\ InLog(T) /\ Begins(X, T)
    /\ \A i \in 1..n : Begins(w[i].ops, T) /\ w[i].node \in Node /\ Says(H, k, w[i])

LEMMA TakeRecord ==
  ASSUME NEW k \in {"GCOUNTER", "PNCOUNTER", "LWW_REG", "ORSET"}, NEW n \in Nat, NEW H, NEW w, NEW X, NEW T,
         Joinable(H, k, w, n, X, T), NEW s \in SUBSET (1..n), NEW q \in s
  PROVE  Take(k, StoreOf(H, k, w, X, s \ {q}), w[q]) = StoreOf(H, k, w, X, s)
<1>1. PICK t : t = s \ {q} /\ t \subseteq 1..n
  OBVIOUS
<1>2. PICK r : r = w[q]
  OBVIOUS
<1>3. Begins(r.ops, T) /\ r.node \in Node /\ Says(H, k, r) /\ InLog(T)
  BY <1>2 DEF Joinable
<1>4. PICK p \in Node : p = r.node
  BY <1>3
<1>5. PICK c : c = StoreOf(H, k, w, X, t)
  OBVIOUS
<1>6. c = [m \in Node |-> Shown(H, k, Own(w, X, t, m), m)]
  BY <1>5 DEF StoreOf
<1>7. deserialize_payload(k, r.payload) = Shown(H, k, r.ops, p)
  BY <1>3, <1>4 DEF Says
<1>8. Take(k, c, r) = [c EXCEPT ![p] = Join(k, c[p], Shown(H, k, r.ops, p))]
  BY <1>4, <1>7 DEF Take
<1>9. ASSUME NEW m \in Node, m # p PROVE Own(w, X, s, m) = Own(w, X, t, m)
  <2>1. {j \in s : w[j].node = m} = {j \in t : w[j].node = m}
    BY <1>1, <1>2, <1>4, <1>9
  <2> QED
    BY <2>1 DEF Own
<1>10. Own(w, X, s, p) = Own(w, X, t, p) \cup r.ops
  <2>1. {j \in s : w[j].node = p} = {j \in t : w[j].node = p} \cup {q}
    BY <1>1, <1>2, <1>4
  <2>2. PICK J : J = {j \in t : w[j].node = p}
    OBVIOUS
  <2>3. UNION {w[i].ops : i \in J \cup {q}} = (UNION {w[i].ops : i \in J}) \cup r.ops
    <3>1. {w[i].ops : i \in J \cup {q}} = {w[i].ops : i \in J} \cup {r.ops}
      BY <1>2
    <3> QED
      BY <3>1
  <2> QED
    BY <2>1, <2>2, <2>3 DEF Own
<1>11. Begins(Own(w, X, t, p), T)
  <2>1. PICK F : F = {X} \cup {w[i].ops : i \in {j \in t : w[j].node = p}}
    OBVIOUS
  <2>2. \A A \in F : Begins(A, T)
    BY <1>1, <2>1 DEF Joinable
  <2>3. UNION F = Own(w, X, t, p)
    BY <2>1 DEF Own
  <2>4. Begins(UNION F, T)
    BY <2>2, BeginsUnion
  <2> QED
    BY <2>3, <2>4
<1>12. c[p] = Shown(H, k, Own(w, X, t, p), p)
  BY <1>6
<1>13. Join(k, c[p], Shown(H, k, r.ops, p)) = Shown(H, k, Own(w, X, s, p), p)
  <2>1. PICK A : A = Own(w, X, t, p) /\ Begins(A, T)
    BY <1>11
  <2>2. Join(k, Shown(H, k, A, p), Shown(H, k, r.ops, p)) = Shown(H, k, A \cup r.ops, p)
    BY <1>3, <2>1, JoinEither
  <2> QED
    BY <1>10, <1>12, <2>1, <2>2
<1>14. StoreOf(H, k, w, X, s) = [m \in Node |-> Shown(H, k, Own(w, X, s, m), m)]
  BY DEF StoreOf
<1>15. PICK d : d = Take(k, c, r)
  OBVIOUS
<1>16. PICK v : v = Shown(H, k, Own(w, X, s, p), p)
  OBVIOUS
<1>17. d = [m \in Node |-> IF m = p THEN v ELSE c[m]]
  BY <1>6, <1>8, <1>13, <1>15, <1>16
<1>18. \A m \in Node : (IF m = p THEN v ELSE c[m]) = Shown(H, k, Own(w, X, s, m), m)
  BY <1>6, <1>9, <1>16
<1>19. d = StoreOf(H, k, w, X, s)
  BY <1>14, <1>17, <1>18
<1> QED
  BY <1>1, <1>2, <1>5, <1>15, <1>19

TakeAll(k, b, w) == FoldLeft(LAMBDA store, r : Take(k, store, r), b, w)

LEMMA JoinAll ==
  ASSUME NEW k \in {"GCOUNTER", "PNCOUNTER", "LWW_REG", "ORSET"}, NEW S, NEW w \in Seq(S),
         NEW H, NEW X, NEW T, Joinable(H, k, w, Len(w), X, T), NEW b, b = StoreOf(H, k, w, X, {})
  PROVE  TakeAll(k, b, w) = StoreOf(H, k, w, X, 1..Len(w))
<1>1. PICK n \in Nat : n = Len(w) /\ DOMAIN w = 1..n
  OBVIOUS
<1> DEFINE Is(f) == f = [s \in SUBSET DOMAIN w |-> IF s = {} THEN b ELSE Take(k, f[s \ {Max(s)}], w[Max(s)])]
           h == [s \in SUBSET (1..n) |-> StoreOf(H, k, w, X, s)]
<1>2. TakeAll(k, b, w) = (CHOOSE f : Is(f))[DOMAIN w]
  BY DEF TakeAll, FoldLeft, MapThenFoldSet
<1>3. ASSUME NEW s \in SUBSET (1..n), s # {}
      PROVE  Max(s) \in s /\ h[s] = Take(k, h[s \ {Max(s)}], w[Max(s)])
  <2>1. Max(s) \in s
    BY <1>3, MaxOfSome
  <2>2. PICK q \in s : q = Max(s)
    BY <2>1
  <2>3. Take(k, StoreOf(H, k, w, X, s \ {q}), w[q]) = StoreOf(H, k, w, X, s)
    BY <1>1, TakeRecord
  <2>4. s \ {q} \in SUBSET (1..n)
    OBVIOUS
  <2>5. h[s \ {q}] = StoreOf(H, k, w, X, s \ {q}) /\ h[s] = StoreOf(H, k, w, X, s)
    BY <2>4
  <2> HIDE DEF h
  <2> QED
    BY <2>1, <2>2, <2>3, <2>5
<1>4. h[{}] = b /\ h = [s \in SUBSET (1..n) |-> h[s]] /\ h[1..n] = StoreOf(H, k, w, X, 1..n)
  OBVIOUS
<1> HIDE DEF h
<1>5. Is(h)
  BY <1>1, <1>3, <1>4
<1>6. PICK g : g = CHOOSE f : Is(f)
  OBVIOUS
<1>7. Is(g)
  BY <1>5, <1>6
<1>8. g[{}] = h[{}]
  BY <1>1, <1>4, <1>7
<1>9. ASSUME NEW s \in SUBSET (1..n), s # {}
      PROVE  \E x \in s : g[s \ {x}] = h[s \ {x}] => g[s] = h[s]
  <2>1. g[s] = Take(k, g[s \ {Max(s)}], w[Max(s)])
    BY <1>1, <1>7, <1>9
  <2>2. h[s] = Take(k, h[s \ {Max(s)}], w[Max(s)]) /\ Max(s) \in s
    BY <1>3, <1>9
  <2> HIDE DEF Is
  <2> QED
    BY <2>1, <2>2
<1> HIDE DEF Is
<1>10. IsFiniteSet(1..n)
  BY FS_Interval
<1>11. g[1..n] = h[1..n]
  BY <1>8, <1>9, <1>10, SameFold
<1> QED
  BY <1>1, <1>2, <1>4, <1>6, <1>11

-----------------------------------------------------------------------------
(* The invariant of the log.                                               *)

(* The records before a torn one, and the updates that the snapshot and    *)
(* they hold: what is left after a crash, or what the store in memory was  *)
(* built from.                                                             *)
IntactOf(f) == IF f = <<>> THEN 0
               ELSE IF f[Len(f)].part = "whole" THEN Len(f) ELSE Len(f) - 1
OpsIn(f, n) == UNION {f[i].ops : i \in 1..n}
Surviving(sn, f) == sn.ops \cup OpsIn(f, IntactOf(f))

(* A clear forgets dots, and with them the counters that a codec rebuilds; *)
(* without one, a store is what its updates show.                          *)
Unclear(H) == \A i \in 1..Len(H) : H[i].name # "clear"

HistoryOk(k, H) == /\ k \in LogKinds /\ LogHistory(H)
                   /\ \A i \in 1..Len(H) : H[i].seen \subseteq 1..(i - 1)
RecordOk(k, H, r) ==
    /\ r.part = "whole" /\ r.node \in Node /\ r.ops \subseteq 1..Len(H)
    /\ r.hlc \in Nat /\ r.hlc <= LogicRange + Len(H)
    /\ Unclear(H) => r.payload = ToBytes(k, Shown(H, k, r.ops, r.node))
FileOk(k, H, f, up) ==
    /\ \E S : f \in Seq(S)
    /\ \A i \in 1..IntactOf(f) : RecordOk(k, H, f[i])
    /\ \A i, j \in 1..IntactOf(f) : i < j => f[i].hlc < f[j].hlc
    /\ IntactOf(f) < Len(f) => ~up /\ f[Len(f)].part \in Parts
SetsNested(H, f, sn) ==
    /\ sn.ops \subseteq 1..Len(H) /\ Begins(sn.ops, Surviving(sn, f))
    /\ \A i \in 1..IntactOf(f) : Begins(f[i].ops, Surviving(sn, f))
(* Each update of a record is in the snapshot, or a record of its own node *)
(* has it.                                                                 *)
OwnRecords(H, f, sn) ==
    \A i \in 1..IntactOf(f) : \A u \in f[i].ops :
      u \in sn.ops \/ \E j \in 1..i : u \in f[j].ops /\ f[j].node = H[u].node
DurableKept(f, y, sn, d) ==
    /\ y \in 0..Len(f)
    /\ d \subseteq sn.ops \cup UNION {f[i].ops : i \in {j \in 1..IntactOf(f) : j <= y}}
MemOk(k, H, f, sn, p, m, h) ==
    /\ m = Down => h = {} /\ ~p
    /\ m # Down => h = Surviving(sn, f) /\ m = <<m[1]>>
    /\ m # Down /\ Unclear(H) => m[1] = [n \in Node |-> Shown(H, k, h, n)]
NodeOf(k, x, n) == IF \E i \in DOMAIN x : x[i].node_num = n
                   THEN FieldValue(x[CHOOSE i \in DOMAIN x : x[i].node_num = n].block)
                   ELSE New(k)
SnapOk(k, H, f, sn, p) ==
    /\ p \in BOOLEAN /\ (p => sn.ops = Surviving(sn, f))
    /\ Unclear(H) => \A n \in Node : NodeOf(k, sn.index, n) = Shown(H, k, sn.ops, n)
    /\ IndexSorted(sn.index)

LogInv == /\ HistoryOk(lkind, done) /\ FileOk(lkind, done, file, mem # Down)
          /\ SetsNested(done, file, snap) /\ OwnRecords(done, file, snap)
          /\ DurableKept(file, synced, snap, durable)
          /\ MemOk(lkind, done, file, snap, pending, mem, held)
          /\ SnapOk(lkind, done, file, snap, pending)

LEMMA KindsLogged ==
  ASSUME HistoryOk(lkind, done)
  PROVE  /\ lkind \in {"GCOUNTER", "PNCOUNTER", "LWW_REG", "ORSET"} /\ LogHistory(done)
         /\ Len(done) \in Nat /\ Len(done) <= MaxUpdates
         /\ \A X : X \subseteq 1..Len(done) => InLog(X)
<1>1. lkind \in {"GCOUNTER", "PNCOUNTER", "LWW_REG", "ORSET"} /\ LogHistory(done)
  BY LogAssumption DEF HistoryOk
<1>2. Len(done) \in Nat /\ Len(done) <= MaxUpdates
  BY <1>1, HistoryTypes
<1>3. \A X : X \subseteq 1..Len(done) => InLog(X)
  <2>1. MaxUpdates \in Nat
    BY LogAssumption
  <2>2. 1..Len(done) \subseteq 1..MaxUpdates
    BY <1>2, <2>1
  <2> QED
    BY <2>2 DEF InLog
<1> QED
  BY <1>1, <1>2, <1>3

(* What compaction reads: records whose updates, with the snapshot's, are  *)
(* T, each the beginning of T, and each update in a record of its node.    *)
Compactible(w, T) ==
    /\ T \subseteq 1..Len(done) /\ Begins(snap.ops, T)
    /\ T = snap.ops \cup UNION {w[i].ops : i \in 1..Len(w)}
    /\ \A i \in 1..Len(w) : RecordOk(lkind, done, w[i]) /\ Begins(w[i].ops, T)
    /\ \A i, j \in 1..Len(w) : i < j => w[i].hlc < w[j].hlc
    /\ \A i \in 1..Len(w) : \A u \in w[i].ops :
         u \in snap.ops \/ \E j \in 1..Len(w) : u \in w[j].ops /\ w[j].node = done[u].node

LEMMA CompactShown ==
  ASSUME HistoryOk(lkind, done), Unclear(done),
         \A n \in Node : NodeOf(lkind, snap.index, n) = Shown(done, lkind, snap.ops, n), NEW S, NEW w \in Seq(S), NEW T, Compactible(w, T)
  PROVE  compact(w) = [n \in Node |-> Shown(done, lkind, T, n)]
<1>1. lkind \in {"GCOUNTER", "PNCOUNTER", "LWW_REG", "ORSET"} /\ LogHistory(done) /\ InLog(T)
  BY KindsLogged DEF Compactible
<1>2. PICK n \in Nat : n = Len(w)
  OBVIOUS
<1>3. PICK X : X = snap.ops
  OBVIOUS
<1>4. ByHlc(w) = w
  <2>1. \A i \in 1..Len(w) : w[i].hlc \in Nat
    BY DEF Compactible, RecordOk
  <2>2. \A i, j \in 1..Len(w) : i < j => w[i].hlc < w[j].hlc
    BY DEF Compactible
  <2> QED
    BY <2>1, <2>2, SortedStays
<1>5. Joinable(done, lkind, w, Len(w), X, T)
  <2>1. ASSUME NEW i \in 1..Len(w)
        PROVE  Begins(w[i].ops, T) /\ w[i].node \in Node /\ Says(done, lkind, w[i])
    <3>1. PICK r : r = w[i]
      OBVIOUS
    <3>2. RecordOk(lkind, done, r) /\ Begins(r.ops, T)
      BY <3>1 DEF Compactible
    <3>3. r.payload = ToBytes(lkind, Shown(done, lkind, r.ops, r.node))
      BY <3>2 DEF RecordOk
    <3>4. r.ops \subseteq 1..Len(done) /\ r.node \in Node
      BY <3>2 DEF RecordOk
    <3>5. deserialize_payload(lkind, ToBytes(lkind, Shown(done, lkind, r.ops, r.node)))
            = Shown(done, lkind, r.ops, r.node)
      BY <1>1, <3>4, PayloadSays
    <3>6. Says(done, lkind, r)
      BY <3>3, <3>5 DEF Says
    <3> QED
      BY <3>1, <3>2, <3>4, <3>6
  <2>2. Begins(X, T)
    BY <1>3 DEF Compactible
  <2> QED
    BY <1>1, <2>1, <2>2 DEF Joinable
<1>6. PICK b : b = [m \in Node |-> get_node(snap.index, m)]
  OBVIOUS
<1>7. b = StoreOf(done, lkind, w, X, {})
  <2>1. \A m \in Node : get_node(snap.index, m) = Shown(done, lkind, X, m)
    <3> TAKE m \in Node
    <3>1. NodeOf(lkind, snap.index, m) = Shown(done, lkind, X, m)
      BY <1>3
    <3>2. get_node(snap.index, m) = NodeOf(lkind, snap.index, m)
      BY DEF get_node, NodeOf
    <3> QED
      BY <3>1, <3>2
  <2>2. \A m : Own(w, X, {}, m) = X
    <3> TAKE m
    <3>1. UNION {w[i].ops : i \in {j \in {} : w[j].node = m}} = {}
      OBVIOUS
    <3> QED
      BY <3>1 DEF Own
  <2> QED
    BY <1>6, <2>1, <2>2 DEF StoreOf
<1>8. compact(w) = TakeAll(lkind, b, w)
  <2>1. compact(w) = TakeAll(lkind, [m \in Node |-> get_node(snap.index, m)], ByHlc(w))
    BY DEF compact, TakeAll, Take
  <2> QED
    BY <1>4, <1>6, <2>1
<1>9. compact(w) = StoreOf(done, lkind, w, X, 1..Len(w))
  BY <1>1, <1>5, <1>7, <1>8, JoinAll
<1>10. ASSUME NEW m \in Node
       PROVE  Shown(done, lkind, Own(w, X, 1..Len(w), m), m) = Shown(done, lkind, T, m)
  <2>1. PICK A : A = Own(w, X, 1..Len(w), m)
    OBVIOUS
  <2>2. \A u : u \in A <=> u \in X \/ \E i \in 1..Len(w) : w[i].node = m /\ u \in w[i].ops
    BY <2>1 DEF Own
  <2>3. \A u : u \in T <=> u \in X \/ \E i \in 1..Len(w) : u \in w[i].ops
    BY <1>3 DEF Compactible
  <2>4. A \subseteq T
    BY <2>2, <2>3
  <2>5. ASSUME NEW u \in T, done[u].node = m PROVE u \in A
    <3>1. CASE u \in X
      BY <2>2, <3>1
    <3>2. CASE u \notin X
      <4>1. PICK i \in 1..Len(w) : u \in w[i].ops
        BY <2>3, <3>2
      <4>2. \E j \in 1..Len(w) : u \in w[j].ops /\ w[j].node = done[u].node
        BY <1>3, <3>2, <4>1 DEF Compactible
      <4> QED
        BY <2>2, <2>5, <4>2
    <3> QED
      BY <3>1, <3>2
  <2>6. \A k : Shown(done, k, A, m) = Shown(done, k, T, m)
    BY <2>4, <2>5, LocalShown
  <2> QED
    BY <2>1, <2>6
<1> QED
  BY <1>9, <1>10 DEF StoreOf

(* What a snapshot built from a store says of each node.                   *)
LEMMA SnapshotBuilt ==
  ASSUME HistoryOk(lkind, done), NEW T, T \subseteq 1..Len(done), NEW c, c = [n \in Node |-> Shown(done, lkind, T, n)],
         NEW n \in Node
  PROVE  get_node(Build(c), n) = Shown(done, lkind, T, n)
<1>1. lkind \in {"GCOUNTER", "PNCOUNTER", "LWW_REG", "ORSET"} /\ LogHistory(done)
  BY KindsLogged
<1>2. PICK l \in Nat : l = Cardinality(Node)
  BY NodesRanked
<1>3. PICK x : x = Build(c)
  OBVIOUS
<1>4. x = [i \in 1..l |-> [node_num |-> NodeAt(i), block |-> FieldState(c[NodeAt(i)])]]
  BY <1>2, <1>3 DEF Build
<1>5. DOMAIN x = 1..l /\ \A i \in 1..l : x[i].node_num = NodeAt(i) /\ x[i].block = FieldState(c[NodeAt(i)])
  BY <1>4
<1>6. \E i \in DOMAIN x : x[i].node_num = n
  <2>1. \A m \in Node : \E i \in 1..Cardinality(Node) : NodeAt(i) = m
    BY NodeNumbers
  <2>2. PICK i \in 1..l : NodeAt(i) = n
    BY <1>2, <2>1
  <2> QED
    BY <1>5, <2>2
<1>7. PICK i \in DOMAIN x : i = (CHOOSE j \in DOMAIN x : x[j].node_num = n) /\ x[i].node_num = n
  BY <1>6
<1>8. get_node(x, n) = FieldValue(x[i].block)
  BY <1>6, <1>7 DEF get_node
<1>9. x[i].block = FieldState(c[n])
  BY <1>5, <1>7
<1>10. c[n] = Shown(done, lkind, T, n)
  OBVIOUS
<1>11. FieldValue(FieldState(Shown(done, lkind, T, n))) = Shown(done, lkind, T, n)
  BY <1>1, SnapshotSays
<1> QED
  BY <1>3, <1>8, <1>9, <1>10, <1>11

LEMMA BuiltSorted ==
  ASSUME NEW c
  PROVE  IndexSorted(Build(c))
<1>1. PICK l \in Nat : l = Cardinality(Node)
  BY NodesRanked
<1>2. PICK x : x = Build(c)
  OBVIOUS
<1>3. x = [i \in 1..l |-> [node_num |-> NodeAt(i), block |-> FieldState(c[NodeAt(i)])]]
  BY <1>1, <1>2 DEF Build
<1>4. Len(x) = l /\ \A i \in 1..l : x[i].node_num = NodeAt(i)
  BY <1>1, <1>3
<1>5. \A i \in 2..l : NodeAt(i - 1) <= NodeAt(i)
  BY <1>1, NodeNumbers
<1>6. ASSUME NEW i \in 2..Len(x) PROVE x[i - 1].node_num <= x[i].node_num
  <2>1. i \in 1..l /\ i - 1 \in 1..l /\ i \in 2..l
    BY <1>4
  <2> QED
    BY <1>4, <1>5, <2>1
<1> QED
  BY <1>2, <1>6 DEF IndexSorted

-----------------------------------------------------------------------------
(* The steps of the log.                                                   *)

LEMMA IntactIs ==
  ASSUME NEW S, NEW f \in Seq(S)
  PROVE  /\ IntactOf(f) \in Nat /\ Len(f) \in Nat
         /\ IntactOf(f) = Len(f) \/ (Len(f) = IntactOf(f) + 1 /\ f[Len(f)].part # "whole")
         /\ f # <<>> /\ f[Len(f)].part = "whole" => IntactOf(f) = Len(f)
<1>1. PICK l \in Nat : l = Len(f)
  OBVIOUS
<1>2. CASE f = <<>>
  BY <1>2 DEF IntactOf
<1>3. CASE f # <<>>
  <2>1. l > 0
    BY <1>1, <1>3
  <2>2. IntactOf(f) = IF f[l].part = "whole" THEN l ELSE l - 1
    BY <1>1, <1>3 DEF IntactOf
  <2> QED
    BY <1>1, <2>1, <2>2
<1> QED
  BY <1>2, <1>3

LEMMA OpsMember ==
  ASSUME NEW f, NEW n, NEW sn
  PROVE  /\ \A u : u \in OpsIn(f, n) <=> \E i \in 1..n : u \in f[i].ops
         /\ \A u : u \in Surviving(sn, f) <=> u \in sn.ops \/ \E i \in 1..IntactOf(f) : u \in f[i].ops
BY DEF OpsIn, Surviving

(* The sets are sets of updates.                                           *)
LEMMA SetsInLog ==
  ASSUME NEW k, NEW H, HistoryOk(k, H), NEW f, NEW up, FileOk(k, H, f, up), NEW sn, SetsNested(H, f, sn)
  PROVE  Surviving(sn, f) \subseteq 1..Len(H)
<1>1. sn.ops \subseteq 1..Len(H)
  BY DEF SetsNested
<1>2. \A i \in 1..IntactOf(f) : f[i].ops \subseteq 1..Len(H)
  BY DEF FileOk, RecordOk
<1> QED
  BY <1>1, <1>2, OpsMember

LEMMA NothingShown ==
  ASSUME NEW k \in {"GCOUNTER", "PNCOUNTER", "LWW_REG", "ORSET"}, NEW H, NEW n
  PROVE  Shown(H, k, {}, n) = New(k)
<1>1. \A nm : NamedAt(H, {}, n, nm) = {}
  BY DEF NamedAt
<1>2. \A nm : Number(H, {}, n, nm) = 0
  BY <1>1, FS_EmptySet DEF Number
<1>3. Solo(0) = Zero
  BY DEF Solo, Zero
<1>4. ShownReg(H, {}, n) = DefaultReg
  BY <1>1 DEF ShownReg
<1>5. ShownSet(H, {}, n) = NewSet
  <2>1. \A e : AddsAt(H, {}, n, e) = {} /\ Gone(H, {}, n, e) = {}
    BY <1>1 DEF AddsAt, Gone
  <2>2. [e \in Elem |-> {LogDot(H, {}, n, i) : i \in AddsAt(H, {}, n, e)}] = NoDots
    BY <2>1 DEF NoDots
  <2>3. [e \in Elem |-> {LogDot(H, {}, n, i) : i \in Gone(H, {}, n, e)}] = NoDots
    BY <2>1 DEF NoDots
  <2> QED
    BY <1>2, <1>3, <2>2, <2>3 DEF ShownSet, NewSet
<1>6. CASE k = "GCOUNTER"
  BY <1>2, <1>3, <1>6 DEF Shown, New
<1>7. CASE k = "PNCOUNTER"
  BY <1>2, <1>3, <1>7 DEF Shown, New
<1>8. CASE k = "LWW_REG"
  BY <1>4, <1>8 DEF Shown, New
<1>9. CASE k = "ORSET"
  BY <1>5, <1>9 DEF Shown, New
<1> QED
  BY <1>6, <1>7, <1>8, <1>9

LEMMA LogStart == LInit => LogInv
<1> SUFFICES ASSUME LInit PROVE LogInv
  OBVIOUS
<1>1. /\ lkind \in LogKinds /\ file = <<>> /\ synced = 0 /\ snap = [index |-> <<>>, ops |-> {}]
      /\ pending = FALSE /\ mem = <<Fresh>> /\ held = {} /\ done = <<>> /\ durable = {}
  BY DEF LInit
<1>2. lkind \in {"GCOUNTER", "PNCOUNTER", "LWW_REG", "ORSET"}
  BY <1>1, LogAssumption
<1>3. IntactOf(file) = 0 /\ Len(file) = 0 /\ Len(done) = 0
  BY <1>1 DEF IntactOf
<1>4. Surviving(snap, file) = {}
  <2>1. snap.ops = {}
    BY <1>1
  <2>2. OpsIn(file, 0) = {}
    <3>1. \A u : ~(\E i \in 1..0 : u \in file[i].ops)
      OBVIOUS
    <3> QED
      BY <3>1, OpsMember
  <2> QED
    BY <1>3, <2>1, <2>2 DEF Surviving
<1>5. HistoryOk(lkind, done)
  <2>1. done \in Seq(LogOp) /\ 0 <= MaxUpdates
    BY <1>1, LogAssumption
  <2> QED
    BY <1>1, <1>3, <2>1 DEF HistoryOk, LogHistory
<1>6. FileOk(lkind, done, file, mem # Down)
  <2>1. file \in Seq({})
    BY <1>1
  <2> QED
    BY <1>3, <2>1 DEF FileOk
<1>7. SetsNested(done, file, snap) /\ OwnRecords(done, file, snap)
  BY <1>1, <1>3, <1>4 DEF SetsNested, OwnRecords, Begins
<1>8. DurableKept(file, synced, snap, durable)
  BY <1>1, <1>3 DEF DurableKept
<1>9. \A n : Shown(done, lkind, {}, n) = New(lkind)
  BY <1>2, NothingShown
<1>10. MemOk(lkind, done, file, snap, pending, mem, held)
  <2>1. mem # Down /\ mem[1] = [n \in Node |-> New(lkind)] /\ mem = <<mem[1]>>
    BY <1>1 DEF Fresh, Down
  <2> QED
    BY <1>1, <1>4, <1>9, <2>1 DEF MemOk
<1>11. SnapOk(lkind, done, file, snap, pending)
  <2>1. \A n : NodeOf(lkind, snap.index, n) = New(lkind)
    BY <1>1 DEF NodeOf
  <2>2. IndexSorted(snap.index)
    BY <1>1 DEF IndexSorted
  <2> QED
    BY <1>1, <1>9, <2>1, <2>2 DEF SnapOk
<1> QED
  BY <1>5, <1>6, <1>7, <1>8, <1>10, <1>11 DEF LogInv

LEMMA LogSafe == LogInv => DurableUpdatesSurvive
<1> SUFFICES ASSUME LogInv, mem # Down
             PROVE  /\ durable \subseteq held
                    /\ (\A i \in DOMAIN done : done[i].name # "clear") => \A n \in Node : ReadsBack(n)
                    /\ validate_wal = <<Len(file)>>
                    /\ IndexSorted(snap.index)
  BY DEF DurableUpdatesSurvive
<1>1. HistoryOk(lkind, done) /\ FileOk(lkind, done, file, mem # Down) /\ SetsNested(done, file, snap)
  BY DEF LogInv
<1>2. lkind \in {"GCOUNTER", "PNCOUNTER", "LWW_REG", "ORSET"} /\ LogHistory(done)
  BY <1>1, KindsLogged
<1>3. held = Surviving(snap, file) /\ (Unclear(done) => mem[1] = [n \in Node |-> Shown(done, lkind, held, n)])
  BY DEF LogInv, MemOk
<1>4. durable \subseteq held
  <2>1. durable \subseteq snap.ops \cup UNION {file[i].ops : i \in {j \in 1..IntactOf(file) : j <= synced}}
    BY DEF LogInv, DurableKept
  <2> QED
    BY <1>3, <2>1, OpsMember
<1>5. held \subseteq 1..Len(done)
  BY <1>1, <1>3, SetsInLog
<1>6. ASSUME \A i \in DOMAIN done : done[i].name # "clear", NEW n \in Node PROVE ReadsBack(n)
  <2>1. DOMAIN done = 1..Len(done)
    BY <1>2 DEF LogHistory
  <2>2. Unclear(done)
    BY <1>6, <2>1 DEF Unclear
  <2>3. mem[1][n] = Shown(done, lkind, held, n)
    BY <1>3, <2>2
  <2> QED
    BY <1>2, <1>5, <2>3, ReadShown
<1>7. validate_wal = <<Len(file)>>
  <2>1. PICK S : file \in Seq(S)
    BY <1>1 DEF FileOk
  <2>2. PICK i \in Nat : i = IntactOf(file) /\ (i = Len(file) \/ Len(file) = i + 1) /\ Len(file) \in Nat
    BY <2>1, IntactIs
  <2>3. i = Len(file)
    BY <1>1, <2>2 DEF FileOk
  <2>4. \A j \in 1..i : file[j].part = "whole"
    BY <1>1, <2>2 DEF FileOk, RecordOk
  <2> QED
    BY <2>3, <2>4, ScanStops
<1>8. IndexSorted(snap.index)
  BY DEF LogInv, SnapOk
<1> QED
  BY <1>4, <1>6, <1>7, <1>8

(* A process that is up has no torn record.                                *)
LEMMA UpIsWhole ==
  ASSUME NEW k, NEW H, NEW f, FileOk(k, H, f, TRUE)
  PROVE  /\ IntactOf(f) = Len(f) /\ Len(f) \in Nat
         /\ \A i \in 1..Len(f) : f[i].part = "whole"
<1>1. PICK S : f \in Seq(S)
  BY DEF FileOk
<1>2. IntactOf(f) \in Nat /\ Len(f) \in Nat /\ (IntactOf(f) = Len(f) \/ Len(f) = IntactOf(f) + 1)
  BY <1>1, IntactIs
<1>3. IntactOf(f) = Len(f)
  BY <1>2 DEF FileOk
<1>4. \A i \in 1..Len(f) : f[i].part = "whole"
  BY <1>3 DEF FileOk, RecordOk
<1> QED
  BY <1>2, <1>3, <1>4

LEMMA SyncKeeps == LogInv /\ SyncLog => LogInv'
<1> SUFFICES ASSUME LogInv, SyncLog PROVE LogInv'
  OBVIOUS
<1>1. /\ mem # Down /\ synced' = Len(file)
      /\ durable' = durable \cup UNION {file[i].ops : i \in 1..Len(file)}
      /\ lkind' = lkind /\ file' = file /\ snap' = snap /\ pending' = pending
      /\ mem' = mem /\ held' = held /\ done' = done
  BY DEF SyncLog
<1>2. FileOk(lkind, done, file, TRUE)
  BY <1>1 DEF LogInv
<1>3. PICK l \in Nat : l = Len(file) /\ IntactOf(file) = l
  BY <1>2, UpIsWhole
<1>4. DurableKept(file, l, snap, durable')
  <2>1. PICK d : d = durable /\ synced \in 0..l
                 /\ d \subseteq snap.ops \cup UNION {file[i].ops : i \in {j \in 1..l : j <= synced}}
    BY <1>3 DEF LogInv, DurableKept
  <2>2. d \cup UNION {file[i].ops : i \in 1..l}
          \subseteq snap.ops \cup UNION {file[i].ops : i \in {j \in 1..l : j <= l}}
    BY <2>1
  <2>3. l \in 0..l
    OBVIOUS
  <2> QED
    BY <1>1, <1>3, <2>1, <2>2, <2>3 DEF DurableKept
<1>5. HistoryOk(lkind', done') /\ FileOk(lkind', done', file', mem' # Down)
  BY <1>1 DEF LogInv
<1>6. SetsNested(done', file', snap') /\ OwnRecords(done', file', snap')
  BY <1>1 DEF LogInv
<1>7. DurableKept(file', synced', snap', durable')
  BY <1>1, <1>3, <1>4
<1>8. MemOk(lkind', done', file', snap', pending', mem', held')
  BY <1>1 DEF LogInv
<1>9. SnapOk(lkind', done', file', snap', pending')
  BY <1>1 DEF LogInv
<1> QED
  BY <1>5, <1>6, <1>7, <1>8, <1>9 DEF LogInv, Down

LEMMA StutterKeeps == LogInv /\ UNCHANGED lvars => LogInv'
<1> SUFFICES ASSUME LogInv, UNCHANGED lvars PROVE LogInv'
  OBVIOUS
<1>1. /\ lkind' = lkind /\ file' = file /\ snap' = snap /\ pending' = pending /\ synced' = synced
      /\ mem' = mem /\ held' = held /\ done' = done /\ durable' = durable
  BY DEF lvars
<1> QED
  BY <1>1 DEF LogInv, Down

LEMMA CutKeeps == LogInv /\ CutLog => LogInv'
<1> SUFFICES ASSUME LogInv, CutLog PROVE LogInv'
  OBVIOUS
<1>1. /\ mem # Down /\ pending /\ file' = <<>> /\ synced' = 0 /\ pending' = FALSE
      /\ lkind' = lkind /\ snap' = snap /\ mem' = mem /\ held' = held /\ done' = done
      /\ durable' = durable
  BY DEF CutLog
<1>2. PICK g : g = file' /\ g = <<>>
  BY <1>1
<1>3. IntactOf(g) = 0 /\ Len(g) = 0
  BY <1>2 DEF IntactOf
<1>4. snap.ops = Surviving(snap, file)
  BY <1>1 DEF LogInv, SnapOk
<1>5. Surviving(snap, g) = snap.ops
  <2>1. OpsIn(g, 0) = {}
    <3>1. \A u : ~(\E i \in 1..0 : u \in g[i].ops)
      OBVIOUS
    <3> QED
      BY <3>1, OpsMember
  <2> QED
    BY <1>3, <2>1 DEF Surviving
<1>6. FileOk(lkind, done, g, TRUE)
  <2>1. g \in Seq({})
    BY <1>2
  <2> QED
    BY <1>3, <2>1 DEF FileOk
<1>7. SetsNested(done, g, snap) /\ OwnRecords(done, g, snap)
  <2>1. SetsNested(done, file, snap)
    BY DEF LogInv
  <2>2. snap.ops \subseteq 1..Len(done)
    BY <2>1 DEF SetsNested
  <2>3. Begins(snap.ops, snap.ops)
    BY DEF Begins
  <2> QED
    BY <1>3, <1>5, <2>2, <2>3 DEF SetsNested, OwnRecords
<1>8. DurableKept(g, 0, snap, durable)
  <2>1. durable \subseteq snap.ops \cup UNION {file[i].ops : i \in {j \in 1..IntactOf(file) : j <= synced}}
    BY DEF LogInv, DurableKept
  <2>2. durable \subseteq Surviving(snap, file)
    BY <2>1, OpsMember
  <2> QED
    BY <1>3, <1>4, <2>2 DEF DurableKept
<1>9. MemOk(lkind, done, g, snap, FALSE, mem, held)
  BY <1>1, <1>4, <1>5 DEF LogInv, MemOk
<1>10. SnapOk(lkind, done, g, snap, FALSE)
  BY DEF LogInv, SnapOk
<1>11. HistoryOk(lkind, done)
  BY DEF LogInv
<1> QED
  BY <1>1, <1>2, <1>6, <1>7, <1>8, <1>9, <1>10, <1>11 DEF LogInv, Down

(* What a crash, or a recovery, leaves of the file: its first n records,   *)
(* and perhaps a torn one.                                                 *)
Remains(f, g, n) ==
    /\ \E S : g \in Seq(S)
    /\ n \in 0..IntactOf(f) /\ IntactOf(g) = n /\ n <= Len(g)
    /\ \A i \in 1..n : g[i] = f[i]
    /\ n < Len(g) => g[Len(g)].part \in Parts

LEMMA RemainsKeeps ==
  ASSUME NEW k, NEW H, NEW f, NEW g, NEW n, NEW sn, NEW up, FileOk(k, H, f, up), SetsNested(H, f, sn),
         OwnRecords(H, f, sn), Remains(f, g, n)
  PROVE  /\ FileOk(k, H, g, FALSE) /\ SetsNested(H, g, sn) /\ OwnRecords(H, g, sn)
         /\ n = Len(g) => FileOk(k, H, g, TRUE)
<1>1. PICK S : f \in Seq(S)
  BY DEF FileOk
<1>2. PICK l \in Nat : l = IntactOf(f)
  BY <1>1, IntactIs
<1>3. n \in Nat /\ n \in 0..l /\ IntactOf(g) = n /\ n <= Len(g)
  BY <1>2 DEF Remains
<1>4. \A i \in 1..n : g[i] = f[i] /\ i \in 1..l
  BY <1>2, <1>3 DEF Remains
<1>5. FileOk(k, H, g, FALSE)
  <2>1. \A i \in 1..n : RecordOk(k, H, g[i])
    BY <1>2, <1>4 DEF FileOk
  <2>2. ASSUME NEW i \in 1..n, NEW j \in 1..n, i < j PROVE g[i].hlc < g[j].hlc
    <3>1. f[i].hlc < f[j].hlc
      BY <1>2, <1>4, <2>2 DEF FileOk
    <3> QED
      BY <1>4, <3>1
  <2>3. n < Len(g) => g[Len(g)].part \in Parts
    BY DEF Remains
  <2>4. \E R : g \in Seq(R)
    BY DEF Remains
  <2> QED
    BY <1>3, <2>1, <2>2, <2>3, <2>4 DEF FileOk
<1>6. n = Len(g) => FileOk(k, H, g, TRUE)
  <2> SUFFICES ASSUME n = Len(g) PROVE FileOk(k, H, g, TRUE)
    OBVIOUS
  <2>1. ~(IntactOf(g) < Len(g))
    BY <1>3
  <2> QED
    BY <1>5, <2>1 DEF FileOk
<1>7. \A u : u \in Surviving(sn, g) <=> u \in sn.ops \/ \E i \in 1..n : u \in g[i].ops
  BY <1>3, OpsMember
<1>8. \A u : u \in Surviving(sn, f) <=> u \in sn.ops \/ \E i \in 1..l : u \in f[i].ops
  BY <1>2, OpsMember
<1>9. Surviving(sn, g) \subseteq Surviving(sn, f)
  BY <1>4, <1>7, <1>8
<1>10. SetsNested(H, g, sn)
  <2>1. sn.ops \subseteq 1..Len(H)
    BY DEF SetsNested
  <2>2. Begins(sn.ops, Surviving(sn, g))
    <3>1. Begins(sn.ops, Surviving(sn, f))
      BY DEF SetsNested
    <3>2. sn.ops \subseteq Surviving(sn, g)
      BY <1>7
    <3> QED
      BY <1>9, <3>1, <3>2 DEF Begins
  <2>3. ASSUME NEW i \in 1..n PROVE Begins(g[i].ops, Surviving(sn, g))
    <3>1. Begins(f[i].ops, Surviving(sn, f))
      BY <1>2, <1>4 DEF SetsNested
    <3>2. g[i].ops \subseteq Surviving(sn, g)
      BY <1>7
    <3> QED
      BY <1>4, <1>9, <3>1, <3>2 DEF Begins
  <2> QED
    BY <1>3, <2>1, <2>2, <2>3 DEF SetsNested
<1>11. OwnRecords(H, g, sn)
  <2>1. ASSUME NEW i \in 1..n, NEW u \in g[i].ops, u \notin sn.ops
        PROVE  \E j \in 1..i : u \in g[j].ops /\ g[j].node = H[u].node
    <3>1. u \in f[i].ops /\ i \in 1..l
      BY <1>4
    <3>2. PICK j \in 1..i : u \in f[j].ops /\ f[j].node = H[u].node
      BY <1>2, <2>1, <3>1 DEF OwnRecords
    <3>3. j \in 1..n
      BY <1>3
    <3> QED
      BY <1>4, <3>2, <3>3
  <2> QED
    BY <1>3, <2>1 DEF OwnRecords
<1> QED
  BY <1>5, <1>6, <1>10, <1>11

LEMMA RemainsAfterCrash ==
  ASSUME NEW S, NEW f \in Seq(S), IntactOf(f) = Len(f), \A i \in 1..Len(f) : f[i].part = "whole",
         NEW n \in 0..Len(f), NEW g,
         \/ g = SubSeq(f, 1, n)
         \/ n < Len(f) /\ \E part \in Parts : g = Append(SubSeq(f, 1, n), [f[n + 1] EXCEPT !.part = part])
  PROVE  Remains(f, g, n)
<1>1. PICK l \in Nat : l = Len(f)
  OBVIOUS
<1>2. n \in Nat /\ n <= l
  BY <1>1
<1>3. PICK b : b = SubSeq(f, 1, n)
  OBVIOUS
<1>4. b \in Seq(S) /\ Len(b) = n /\ \A i \in 1..n : b[i] = f[i]
  BY <1>1, <1>2, <1>3
<1>5. CASE g = b
  <2>1. IntactOf(b) = n
    <3>1. CASE n = 0
      BY <1>4, <3>1 DEF IntactOf
    <3>2. CASE n # 0
      <4>1. n \in 1..n /\ n \in 1..l
        BY <1>2, <3>2
      <4>2. b[n].part = "whole" /\ b # <<>>
        BY <1>1, <1>4, <4>1
      <4> QED
        BY <1>4, <4>2 DEF IntactOf
    <3> QED
      BY <3>1, <3>2
  <2> QED
    BY <1>1, <1>2, <1>4, <1>5, <2>1 DEF Remains
<1>6. CASE \E part \in Parts : n < l /\ g = Append(b, [f[n + 1] EXCEPT !.part = part])
  <2>1. PICK part \in Parts : n < l /\ g = Append(b, [f[n + 1] EXCEPT !.part = part])
    BY <1>6
  <2>2. f[n + 1] \in S /\ f[n + 1].part = "whole"
    BY <1>1, <1>2, <2>1
  <2>3. PICK r : r = [f[n + 1] EXCEPT !.part = part]
    OBVIOUS
  <2>4. PICK R : R = S \cup {r}
    OBVIOUS
  <2>5. b \in Seq(R) /\ r \in R
    BY <1>4, <2>4
  <2>6. g = Append(b, r)
    BY <2>1, <2>3
  <2>7. g \in Seq(R) /\ Len(g) = n + 1 /\ g[n + 1] = r /\ \A i \in 1..n : g[i] = b[i]
    BY <1>2, <1>4, <2>5, <2>6
  <2>8. DOMAIN f[n + 1] = DOMAIN r
    BY <2>3
  <2>9. r.part = part \/ r.part = "whole"
    BY <2>2, <2>3
  <2> QED
    BY <1>1, <1>2, <1>4, <2>1, <2>7, <2>9 DEF Remains, IntactOf, Parts
<1> QED
  BY <1>1, <1>3, <1>5, <1>6

LEMMA CrashKeeps == LogInv /\ CrashLog => LogInv'
<1> SUFFICES ASSUME LogInv, CrashLog PROVE LogInv'
  OBVIOUS
<1>1. /\ mem # Down /\ synced' = Len(file') /\ mem' = Down /\ held' = {} /\ pending' = FALSE
      /\ lkind' = lkind /\ snap' = snap /\ done' = done /\ durable' = durable
  BY DEF CrashLog
<1>2. PICK n \in synced..Len(file) :
        \/ file' = SubSeq(file, 1, n)
        \/ n < Len(file) /\ \E part \in Parts :
             file' = Append(SubSeq(file, 1, n), [file[n + 1] EXCEPT !.part = part])
  BY DEF CrashLog
<1>3. FileOk(lkind, done, file, TRUE) /\ SetsNested(done, file, snap) /\ OwnRecords(done, file, snap)
  BY <1>1 DEF LogInv
<1>4. IntactOf(file) = Len(file) /\ Len(file) \in Nat /\ \A i \in 1..Len(file) : file[i].part = "whole"
  BY <1>3, UpIsWhole
<1>5. PICK S : file \in Seq(S)
  BY <1>3 DEF FileOk
<1>6. synced \in 0..Len(file) /\ durable \subseteq snap.ops \cup UNION {file[i].ops : i \in {j \in 1..Len(file) : j <= synced}}
  BY <1>4 DEF LogInv, DurableKept
<1>7. PICK g : g = file'
  OBVIOUS
<1>8. Remains(file, g, n)
  <2>1. n \in 0..Len(file)
    BY <1>2, <1>4, <1>6
  <2> QED
    BY <1>2, <1>4, <1>5, <1>7, <2>1, RemainsAfterCrash
<1>9. FileOk(lkind, done, g, FALSE) /\ SetsNested(done, g, snap) /\ OwnRecords(done, g, snap)
  BY <1>3, <1>8, RemainsKeeps
<1>10. DurableKept(g, Len(g), snap, durable)
  <2>1. PICK y \in Nat : y = synced /\ y <= n /\ n \in Nat
    BY <1>2, <1>4, <1>6
  <2>2. IntactOf(g) = n /\ n <= Len(g) /\ \A i \in 1..n : g[i] = file[i]
    BY <1>8 DEF Remains
  <2>3. Len(g) \in Nat
    BY <1>9 DEF FileOk
  <2>4. ASSUME NEW u \in durable, u \notin snap.ops
        PROVE  \E i \in {j \in 1..n : j <= Len(g)} : u \in g[i].ops
    <3>1. PICK i \in {j \in 1..Len(file) : j <= y} : u \in file[i].ops
      BY <1>6, <2>1, <2>4
    <3>2. i \in 1..n /\ i <= Len(g)
      BY <1>4, <2>1, <2>2, <2>3
    <3> QED
      BY <2>2, <3>1, <3>2
  <2>5. durable \subseteq snap.ops \cup UNION {g[i].ops : i \in {j \in 1..n : j <= Len(g)}}
    BY <2>4
  <2>6. Len(g) \in 0..Len(g)
    BY <2>3
  <2> QED
    BY <2>2, <2>5, <2>6 DEF DurableKept
<1>11. MemOk(lkind, done, g, snap, FALSE, Down, {})
  BY DEF MemOk
<1>12. SnapOk(lkind, done, g, snap, FALSE)
  BY DEF LogInv, SnapOk
<1>13. HistoryOk(lkind, done)
  BY DEF LogInv
<1> QED
  BY <1>1, <1>7, <1>9, <1>10, <1>11, <1>12, <1>13 DEF LogInv, Down

(* The records of a file that the invariant holds of can be compacted.     *)
LEMMA FileCompacts ==
  ASSUME HistoryOk(lkind, done), NEW w, FileOk(lkind, done, w, TRUE), SetsNested(done, w, snap),
         OwnRecords(done, w, snap)
  PROVE  Compactible(w, Surviving(snap, w))
<1>1. PICK l \in Nat : l = Len(w) /\ IntactOf(w) = l
  BY UpIsWhole
<1>2. PICK T : T = Surviving(snap, w)
  OBVIOUS
<1>3. T \subseteq 1..Len(done)
  BY <1>2, SetsInLog
<1>4. Begins(snap.ops, T) /\ \A i \in 1..l : Begins(w[i].ops, T)
  BY <1>1, <1>2 DEF SetsNested
<1>5. T = snap.ops \cup UNION {w[i].ops : i \in 1..l}
  BY <1>1, <1>2 DEF Surviving, OpsIn
<1>6. \A i \in 1..l : RecordOk(lkind, done, w[i])
  BY <1>1 DEF FileOk
<1>7. \A i, j \in 1..l : i < j => w[i].hlc < w[j].hlc
  BY <1>1 DEF FileOk
<1>8. ASSUME NEW i \in 1..l, NEW u \in w[i].ops, u \notin snap.ops
      PROVE  \E j \in 1..l : u \in w[j].ops /\ w[j].node = done[u].node
  <2>1. PICK j \in 1..i : u \in w[j].ops /\ w[j].node = done[u].node
    BY <1>1, <1>8 DEF OwnRecords
  <2>2. j \in 1..l
    OBVIOUS
  <2> QED
    BY <2>1, <2>2
<1> QED
  BY <1>1, <1>2, <1>3, <1>4, <1>5, <1>6, <1>7, <1>8 DEF Compactible

(* Compaction then yields what the snapshot's and the file's updates show. *)
LEMMA FileShown ==
  ASSUME HistoryOk(lkind, done), Unclear(done),
         \A n \in Node : NodeOf(lkind, snap.index, n) = Shown(done, lkind, snap.ops, n),
         NEW w, FileOk(lkind, done, w, TRUE), SetsNested(done, w, snap), OwnRecords(done, w, snap)
  PROVE  compact(w) = [n \in Node |-> Shown(done, lkind, Surviving(snap, w), n)]
<1>1. PICK S : w \in Seq(S)
  BY DEF FileOk
<1> QED
  BY <1>1, FileCompacts, CompactShown

LEMMA RecoverKeeps == LogInv /\ Recover => LogInv'
<1> SUFFICES ASSUME LogInv, Recover PROVE LogInv'
  OBVIOUS
<1>1. /\ mem = Down /\ file' = SubSeq(file, 1, recover_wal_tail) /\ synced' = recover_wal_tail
      /\ mem' = <<compact(file')>>
      /\ held' = snap.ops \cup UNION {file'[i].ops : i \in 1..Len(file')}
      /\ lkind' = lkind /\ snap' = snap /\ pending' = pending /\ done' = done /\ durable' = durable
  BY DEF Recover
<1>2. HistoryOk(lkind, done) /\ FileOk(lkind, done, file, FALSE) /\ SetsNested(done, file, snap) /\ OwnRecords(done, file, snap)
  BY <1>1 DEF LogInv
<1>3. PICK S : file \in Seq(S)
  BY <1>2 DEF FileOk
<1>4. PICK n \in Nat : n = IntactOf(file) /\ n <= Len(file) /\ (n = Len(file) \/ Len(file) = n + 1)
  BY <1>3, IntactIs
<1>5. \A i \in 1..n : file[i].part = "whole"
  BY <1>2, <1>4 DEF FileOk, RecordOk
<1>6. recover_wal_tail = n
  <2>1. n < Len(file) => file[Len(file)].part \in Parts
    BY <1>2, <1>4 DEF FileOk
  <2> QED
    BY <1>4, <1>5, <2>1, ScanStops
<1>7. PICK g : g = file'
  OBVIOUS
<1>8. g \in Seq(S) /\ Len(g) = n /\ \A i \in 1..n : g[i] = file[i]
  BY <1>1, <1>3, <1>4, <1>6, <1>7
<1>9. IntactOf(g) = n
  <2>1. CASE n = 0
    BY <1>8, <2>1 DEF IntactOf
  <2>2. CASE n # 0
    <3>1. n \in 1..n
      BY <2>2
    <3>2. g # <<>> /\ g[n].part = "whole"
      BY <1>5, <1>8, <3>1
    <3> QED
      BY <1>8, <3>2 DEF IntactOf
  <2> QED
    BY <2>1, <2>2
<1>10. Remains(file, g, n)
  BY <1>4, <1>8, <1>9 DEF Remains
<1>11. FileOk(lkind, done, g, TRUE) /\ SetsNested(done, g, snap) /\ OwnRecords(done, g, snap)
  BY <1>2, <1>8, <1>10, RemainsKeeps
<1>12. DurableKept(g, n, snap, durable)
  <2>1. durable \subseteq snap.ops \cup UNION {file[i].ops : i \in {j \in 1..n : j <= synced}}
    BY <1>4 DEF LogInv, DurableKept
  <2>2. ASSUME NEW u \in durable, u \notin snap.ops
        PROVE  \E i \in {j \in 1..n : j <= n} : u \in g[i].ops
    <3>1. PICK i \in 1..n : u \in file[i].ops
      BY <2>1, <2>2
    <3> QED
      BY <1>8, <3>1
  <2>3. n \in 0..Len(g)
    BY <1>8
  <2> QED
    BY <1>9, <2>2, <2>3 DEF DurableKept
<1>13. held' = Surviving(snap, g)
  BY <1>1, <1>7, <1>8, <1>9 DEF Surviving, OpsIn
<1>14. ASSUME Unclear(done)
       PROVE  mem'[1] = [m \in Node |-> Shown(done, lkind, held', m)]
  <2>1. \A m \in Node : NodeOf(lkind, snap.index, m) = Shown(done, lkind, snap.ops, m)
    BY <1>14 DEF LogInv, SnapOk
  <2>2. compact(g) = [m \in Node |-> Shown(done, lkind, Surviving(snap, g), m)]
    BY <1>2, <1>11, <1>14, <2>1, FileShown
  <2>3. mem'[1] = compact(g)
    BY <1>1, <1>7
  <2> QED
    BY <1>13, <2>2, <2>3
<1>15. MemOk(lkind, done, g, snap, pending, mem', held')
  <2>1. mem' # Down /\ mem' = <<mem'[1]>>
    BY <1>1 DEF Down
  <2> QED
    BY <1>13, <1>14, <2>1 DEF MemOk
<1>16. ~pending
  BY <1>1 DEF LogInv, MemOk
<1>17. SnapOk(lkind, done, g, snap, pending)
  BY <1>16 DEF LogInv, SnapOk
<1>18. mem' # Down
  BY <1>1 DEF Down
<1> QED
  BY <1>1, <1>2, <1>6, <1>7, <1>11, <1>12, <1>15, <1>17, <1>18 DEF LogInv, Down

LEMMA SnapshotKeeps == LogInv /\ WriteSnapshot => LogInv'
<1> SUFFICES ASSUME LogInv, WriteSnapshot PROVE LogInv'
  OBVIOUS
<1>1. /\ mem # Down /\ ~pending /\ pending' = TRUE /\ durable' = durable \cup snap'.ops
      /\ snap' = [index |-> Build(compact(file)), ops |-> snap.ops \cup UNION {file[i].ops : i \in 1..Len(file)}]
      /\ lkind' = lkind /\ file' = file /\ synced' = synced /\ mem' = mem /\ held' = held /\ done' = done
  BY DEF WriteSnapshot
<1>2. /\ HistoryOk(lkind, done) /\ FileOk(lkind, done, file, TRUE) /\ SetsNested(done, file, snap)
      /\ OwnRecords(done, file, snap)
  BY <1>1 DEF LogInv
<1>3. PICK l \in Nat : l = Len(file) /\ IntactOf(file) = l
  BY <1>2, UpIsWhole
<1>4. PICK T : T = Surviving(snap, file)
  OBVIOUS
<1>5. PICK s : s = snap'
  OBVIOUS
<1>6. s.ops = T /\ s.index = Build(compact(file))
  <2>1. T = snap.ops \cup UNION {file[i].ops : i \in 1..l}
    BY <1>3, <1>4 DEF Surviving, OpsIn
  <2> QED
    BY <1>1, <1>3, <1>5, <2>1
<1>7. Surviving(s, file) = T
  <2>1. OpsIn(file, l) \subseteq T
    BY <1>3, <1>4 DEF Surviving
  <2> QED
    BY <1>3, <1>6, <2>1 DEF Surviving
<1>8. T \subseteq 1..Len(done)
  BY <1>2, <1>4, SetsInLog
<1>9. SetsNested(done, file, s)
  <2>1. Begins(T, T)
    BY DEF Begins
  <2>2. \A i \in 1..IntactOf(file) : Begins(file[i].ops, T)
    BY <1>2, <1>4 DEF SetsNested
  <2> QED
    BY <1>6, <1>7, <1>8, <2>1, <2>2 DEF SetsNested
<1>10. OwnRecords(done, file, s)
  <2>1. \A i \in 1..IntactOf(file) : file[i].ops \subseteq T
    BY <1>2, <1>4 DEF SetsNested, Begins
  <2> QED
    BY <1>6, <2>1 DEF OwnRecords
<1>11. DurableKept(file, synced, s, durable')
  <2>1. synced \in 0..Len(file) /\ durable \subseteq snap.ops \cup UNION {file[i].ops : i \in {j \in 1..IntactOf(file) : j <= synced}}
    BY DEF LogInv, DurableKept
  <2>2. durable \subseteq T
    <3>1. ASSUME NEW u \in durable PROVE u \in snap.ops \/ \E i \in 1..IntactOf(file) : u \in file[i].ops
      BY <2>1
    <3>2. \A u : u \in T <=> u \in snap.ops \/ \E i \in 1..IntactOf(file) : u \in file[i].ops
      BY <1>4, OpsMember
    <3> QED
      BY <3>1, <3>2
  <2>3. durable' \subseteq s.ops
    BY <1>1, <1>5, <1>6, <2>2
  <2> QED
    BY <2>1, <2>3 DEF DurableKept
<1>12. MemOk(lkind, done, file, s, TRUE, mem, held)
  <2>1. mem # Down
    BY <1>1
  <2>2. held = Surviving(s, file) /\ mem = <<mem[1]>>
    BY <1>4, <1>7, <2>1 DEF LogInv, MemOk
  <2>3. Unclear(done) => mem[1] = [n \in Node |-> Shown(done, lkind, held, n)]
    BY <2>1 DEF LogInv, MemOk
  <2> QED
    BY <2>1, <2>2, <2>3 DEF MemOk
<1>13. ASSUME Unclear(done), NEW n \in Node
       PROVE  NodeOf(lkind, s.index, n) = Shown(done, lkind, s.ops, n)
  <2>1. \A m \in Node : NodeOf(lkind, snap.index, m) = Shown(done, lkind, snap.ops, m)
    BY <1>13 DEF LogInv, SnapOk
  <2>2. PICK c : c = compact(file)
    OBVIOUS
  <2>3. c = [m \in Node |-> Shown(done, lkind, T, m)]
    BY <1>2, <1>4, <1>13, <2>1, <2>2, FileShown
  <2>4. get_node(Build(c), n) = Shown(done, lkind, T, n)
    BY <1>2, <1>8, <2>3, SnapshotBuilt
  <2>5. PICK x : x = Build(c)
    OBVIOUS
  <2>6. NodeOf(lkind, x, n) = get_node(x, n)
    BY DEF NodeOf, get_node
  <2> QED
    BY <1>6, <2>2, <2>4, <2>5, <2>6
<1>14. IndexSorted(s.index)
  BY <1>6, BuiltSorted
<1>15. SnapOk(lkind, done, file, s, TRUE)
  BY <1>6, <1>7, <1>13, <1>14 DEF SnapOk
<1> QED
  BY <1>1, <1>2, <1>5, <1>9, <1>10, <1>11, <1>12, <1>15 DEF LogInv, Down

(* G is the history H and one more update.                                 *)
Longer(H, G) == Len(H) \in Nat /\ Len(G) = Len(H) + 1 /\ Agree(H, G, 1..Len(H))

(* There is room for the update id, of a process that holds X.             *)
Room(H, X, id) == Len(H) < MaxUpdates /\ id = Len(H) + 1 /\ X \subseteq 1..Len(H)
UpdateOf(id, name, e, X, n) ==
    [id |-> id, name |-> name, actor |-> Writer, elem |-> e, hlc |-> from_parts(1, id), seen |-> X, node |-> n]
Continues(k, H, G, op, X, id) ==
    /\ HistoryOk(k, G) /\ Longer(H, G) /\ NextUpdate(H, G, op, X, id)
    /\ Len(G) = id /\ id \in Nat /\ G[id] = op /\ op.hlc = LogicRange + id

LEMMA LongerHistory ==
  ASSUME NEW k, NEW H, HistoryOk(k, H), NEW X, NEW id, Room(H, X, id),
         NEW name \in Operations(k), NEW e \in Elem, NEW n \in Node,
         NEW op, op = UpdateOf(id, name, e, X, n), NEW G, G = Append(H, op)
  PROVE  Continues(k, H, G, op, X, id)
<1>a. Len(H) < MaxUpdates /\ id = Len(H) + 1 /\ X \subseteq 1..Len(H)
  BY DEF Room
<1>b. op = [id |-> id, name |-> name, actor |-> Writer, elem |-> e, hlc |-> from_parts(1, id),
            seen |-> X, node |-> n]
  BY DEF UpdateOf
<1>1. LogHistory(H) /\ k \in {"GCOUNTER", "PNCOUNTER", "LWW_REG", "ORSET"} /\ k \in LogKinds
  BY LogAssumption DEF HistoryOk
<1>2. H \in Seq(LogOp) /\ Len(H) \in Nat
  BY <1>1, HistoryTypes DEF LogHistory
<1>3. PICK u \in Nat : u = MaxUpdates
  BY LogAssumption
<1>4. id \in Nat /\ id > 0 /\ id <= u /\ id \in 1..u
  BY <1>a, <1>2, <1>3
<1>5. op.hlc = LogicRange + id /\ op.hlc \in Nat
  <2>1. op.hlc = from_parts(1, id)
    BY <1>b
  <2>2. PICK l \in Nat : l = LogicRange
    BY StampGrows
  <2> QED
    BY <1>3, <1>4, <2>1, <2>2, StampGrows
<1>6. op \in LogOp
  <2>1. k \in Kinds
    BY <1>1 DEF Kinds
  <2>2. name \in Names
    BY <2>1, OperationNames
  <2>3. X \in SUBSET Nat
    BY <1>a, <1>2
  <2>4. from_parts(1, id) \in Nat
    BY <1>b, <1>5
  <2> QED
    BY <1>b, <1>4, <2>2, <2>3, <2>4 DEF LogOp
<1>7. G \in Seq(LogOp) /\ Len(G) = id /\ G[id] = op /\ \A i \in 1..Len(H) : G[i] = H[i]
  BY <1>a, <1>2, <1>6
<1>8. op.seen = X /\ op.id = id /\ op.hlc = from_parts(1, id) /\ op.actor = Writer /\ op.elem = e
  BY <1>b
<1>9. Longer(H, G)
  BY <1>a, <1>2, <1>7 DEF Longer, Agree
<1>10. \A i \in 1..Len(H) : H[i].seen \subseteq 1..(i - 1)
  BY DEF HistoryOk
<1>11. HistoryOk(k, G)
  <2>1. ASSUME NEW i \in 1..id PROVE G[i].seen \subseteq 1..(i - 1)
    <3>1. CASE i = id
      <4>1. id - 1 = Len(H)
        BY <1>a, <1>2
      <4> QED
        BY <1>a, <1>7, <1>8, <3>1, <4>1
    <3>2. CASE i # id
      <4>1. i \in 1..Len(H)
        BY <1>a, <1>2, <3>2
      <4> QED
        BY <1>7, <1>10, <4>1
    <3> QED
      BY <3>1, <3>2
  <2> QED
    BY <1>1, <1>3, <1>4, <1>7, <2>1 DEF HistoryOk, LogHistory
<1>12. NextUpdate(H, G, op, X, id)
  <2>1. id - 1 = Len(H)
    BY <1>a, <1>2
  <2>2. Agree(H, G, 1..(id - 1))
    BY <1>7, <2>1 DEF Agree
  <2>3. \A i \in 1..(id - 1) : H[i].seen \subseteq 1..(id - 1)
    <3> TAKE i \in 1..(id - 1)
    <3>1. H[i].seen \subseteq 1..(i - 1)
      BY <1>10, <2>1
    <3>2. 1..(i - 1) \subseteq 1..(id - 1)
      BY <1>4
    <3> QED
      BY <3>1, <3>2
  <2> QED
    BY <1>a, <1>3, <1>4, <1>7, <1>8, <2>1, <2>2, <2>3 DEF NextUpdate
<1> QED
  BY <1>4, <1>5, <1>7, <1>9, <1>11, <1>12 DEF Continues

LEMMA LongerClear ==
  ASSUME NEW H, NEW G, Longer(H, G), Unclear(G)
  PROVE  Unclear(H)
<1>1. \A i \in 1..Len(H) : i \in 1..Len(G) /\ G[i] = H[i]
  BY DEF Longer, Agree
<1> QED
  BY <1>1 DEF Unclear

LEMMA LongerShown ==
  ASSUME NEW H, NEW G, Longer(H, G), NEW A, A \subseteq 1..Len(H), NEW n
  PROVE  \A k : Shown(H, k, A, n) = Shown(G, k, A, n)
<1>1. Agree(H, G, A)
  BY DEF Longer, Agree
<1> QED
  BY <1>1, ShownRestsOn

LEMMA LongerRecord ==
  ASSUME NEW H, NEW G, Longer(H, G), NEW k, NEW r, RecordOk(k, H, r)
  PROVE  RecordOk(k, G, r) /\ r.hlc \in Nat /\ r.hlc < LogicRange + Len(G)
<1>1. PICK l \in Nat : l = Len(H) /\ Len(G) = l + 1
  BY DEF Longer
<1>2. PICK c \in Nat : c = LogicRange
  BY StampGrows
<1>3. /\ r.part = "whole" /\ r.node \in Node /\ r.ops \subseteq 1..l /\ r.hlc \in Nat /\ r.hlc <= c + l
      /\ Unclear(H) => r.payload = ToBytes(k, Shown(H, k, r.ops, r.node))
  BY <1>1, <1>2 DEF RecordOk
<1>4. r.ops \subseteq 1..Len(G) /\ r.hlc <= c + Len(G) /\ r.hlc < c + Len(G)
  <2>1. 1..l \subseteq 1..(l + 1)
    OBVIOUS
  <2> QED
    BY <1>1, <1>3, <2>1
<1>5. ASSUME Unclear(G) PROVE r.payload = ToBytes(k, Shown(G, k, r.ops, r.node))
  <2>1. Unclear(H)
    BY <1>5, LongerClear
  <2>2. Shown(H, k, r.ops, r.node) = Shown(G, k, r.ops, r.node)
    BY <1>1, <1>3, LongerShown
  <2> QED
    BY <1>3, <2>1, <2>2
<1> QED
  BY <1>2, <1>3, <1>4, <1>5 DEF RecordOk

(* g is the file f and the record r, both readable to the end.             *)
Appended(f, r, g) ==
    /\ Len(f) \in Nat /\ Len(g) = Len(f) + 1 /\ IntactOf(g) = Len(f) + 1 /\ IntactOf(f) = Len(f)
    /\ g[Len(f) + 1] = r /\ \A i \in 1..Len(f) : g[i] = f[i]

LEMMA LongerFile ==
  ASSUME NEW H, NEW G, Longer(H, G), NEW k, NEW f, FileOk(k, H, f, TRUE), NEW r, RecordOk(k, G, r),
         r.hlc = LogicRange + Len(G), NEW g, g = Append(f, r)
  PROVE  FileOk(k, G, g, TRUE) /\ Appended(f, r, g)
<1>1. PICK S : f \in Seq(S)
  BY DEF FileOk
<1>2. PICK l \in Nat : l = Len(f) /\ IntactOf(f) = l
  BY UpIsWhole
<1>3. PICK R : R = S \cup {r}
  OBVIOUS
<1>4. f \in Seq(R) /\ r \in R
  BY <1>1, <1>3
<1>5. g \in Seq(R) /\ Len(g) = l + 1 /\ g[l + 1] = r /\ \A i \in 1..l : g[i] = f[i]
  BY <1>2, <1>4
<1>6. IntactOf(g) = l + 1
  <2>1. r.part = "whole"
    BY DEF RecordOk
  <2>2. g # <<>>
    BY <1>5
  <2> QED
    BY <1>5, <2>1, <2>2 DEF IntactOf
<1>7. \A i \in 1..l : RecordOk(k, H, f[i])
  BY <1>2 DEF FileOk
<1>8. \A i \in 1..l : RecordOk(k, G, f[i]) /\ f[i].hlc < r.hlc
  <2> TAKE i \in 1..l
  <2>1. PICK q : q = f[i]
    OBVIOUS
  <2>2. RecordOk(k, H, q)
    BY <1>7, <2>1
  <2>3. RecordOk(k, G, q) /\ q.hlc < LogicRange + Len(G)
    BY <2>2, LongerRecord
  <2> QED
    BY <2>1, <2>3
<1>9. ASSUME NEW i \in 1..(l + 1) PROVE RecordOk(k, G, g[i])
  <2>1. i = l + 1 \/ i \in 1..l
    OBVIOUS
  <2> QED
    BY <1>5, <1>8, <2>1
<1>10. ASSUME NEW i \in 1..(l + 1), NEW j \in 1..(l + 1), i < j PROVE g[i].hlc < g[j].hlc
  <2>1. i \in 1..l
    BY <1>10
  <2>2. CASE j = l + 1
    BY <1>5, <1>8, <2>1, <2>2
  <2>3. CASE j # l + 1
    <3>1. j \in 1..l
      BY <2>3
    <3>2. f[i].hlc < f[j].hlc
      BY <1>2, <1>10, <2>1, <3>1 DEF FileOk
    <3> QED
      BY <1>5, <2>1, <3>1, <3>2
  <2> QED
    BY <2>2, <2>3
<1>11. FileOk(k, G, g, TRUE)
  BY <1>5, <1>6, <1>9, <1>10 DEF FileOk
<1> QED
  BY <1>2, <1>5, <1>6, <1>11 DEF Appended

(* The record of the update id of its node holds all that survives.        *)
AllHeld(G, r, f, sn, id) == r.ops = Surviving(sn, f) \cup {id} /\ r.node = G[id].node
OneMore(f, g, sn, id) == Surviving(sn, g) = Surviving(sn, f) \cup {id}

LEMMA LongerSets ==
  ASSUME NEW H, NEW G, Longer(H, G), NEW k, NEW f, HistoryOk(k, H), FileOk(k, H, f, TRUE), NEW sn, SetsNested(H, f, sn),
         OwnRecords(H, f, sn), NEW r, NEW g, NEW id, id = Len(G), AllHeld(G, r, f, sn, id), Appended(f, r, g)
  PROVE  OneMore(f, g, sn, id) /\ SetsNested(G, g, sn) /\ OwnRecords(G, g, sn)
<1>1. PICK l \in Nat : l = Len(f) /\ IntactOf(f) = l
  BY UpIsWhole
<1>2. PICK h \in Nat : h = Len(H) /\ id = h + 1 /\ Len(G) = h + 1
  BY DEF Longer
<1>3. PICK X : X = Surviving(sn, f)
  OBVIOUS
<1>4. X \subseteq 1..h
  BY <1>2, <1>3, SetsInLog
<1>5. \A u : u \in X <=> u \in sn.ops \/ \E i \in 1..l : u \in f[i].ops
  BY <1>1, <1>3, OpsMember
<1>6. IntactOf(g) = l + 1 /\ g[l + 1].ops = X \cup {id} /\ g[l + 1].node = G[id].node /\ \A i \in 1..l : g[i] = f[i]
  BY <1>1, <1>3 DEF AllHeld, Appended
<1>7. \A u : u \in Surviving(sn, g) <=> u \in sn.ops \/ \E i \in 1..(l + 1) : u \in g[i].ops
  BY <1>6, OpsMember
<1>8. \A i : i \in 1..(l + 1) <=> i \in 1..l \/ i = l + 1
  OBVIOUS
<1>9. Surviving(sn, g) = X \cup {id}
  <2>1. \A u : u \in Surviving(sn, g) <=> u \in X \cup {id}
    BY <1>5, <1>6, <1>7, <1>8
  <2> QED
    BY <2>1
<1>10. ASSUME NEW A, Begins(A, X) PROVE Begins(A, X \cup {id})
  <2>1. A \subseteq X /\ \A i \in A, j \in X : j < i => j \in A
    BY <1>10 DEF Begins
  <2>2. \A i \in A : ~(id < i)
    BY <1>2, <1>4, <2>1
  <2> QED
    BY <2>1, <2>2 DEF Begins
<1>11. SetsNested(G, g, sn)
  <2>1. sn.ops \subseteq 1..Len(G) /\ Begins(sn.ops, X \cup {id})
    <3>1. sn.ops \subseteq 1..h
      BY <1>2 DEF SetsNested
    <3>2. 1..h \subseteq 1..(h + 1)
      OBVIOUS
    <3>3. Begins(sn.ops, X)
      BY <1>3 DEF SetsNested
    <3> QED
      BY <1>2, <1>10, <3>1, <3>2, <3>3
  <2>2. ASSUME NEW i \in 1..(l + 1) PROVE Begins(g[i].ops, X \cup {id})
    <3>1. CASE i = l + 1
      BY <1>6, <3>1 DEF Begins
    <3>2. CASE i \in 1..l
      <4>1. Begins(f[i].ops, X)
        BY <1>1, <1>3, <3>2 DEF SetsNested
      <4> QED
        BY <1>6, <1>10, <3>2, <4>1
    <3> QED
      BY <1>8, <3>1, <3>2
  <2> QED
    BY <1>6, <1>9, <2>1, <2>2 DEF SetsNested
<1>12. \A i \in 1..h : G[i].node = H[i].node
  BY <1>2 DEF Longer, Agree
<1>13. ASSUME NEW i \in 1..l, NEW u \in f[i].ops, u \notin sn.ops
       PROVE  \E j \in 1..i : u \in g[j].ops /\ g[j].node = G[u].node
  <2>1. PICK j \in 1..i : u \in f[j].ops /\ f[j].node = H[u].node
    BY <1>1, <1>13 DEF OwnRecords
  <2>2. u \in 1..h
    BY <1>4, <1>5, <1>13
  <2>3. j \in 1..l
    OBVIOUS
  <2> QED
    BY <1>6, <1>12, <2>1, <2>2, <2>3
<1>14. ASSUME NEW i \in 1..(l + 1), NEW u \in g[i].ops, u \notin sn.ops
       PROVE  \E j \in 1..i : u \in g[j].ops /\ g[j].node = G[u].node
  <2>1. CASE i \in 1..l
    BY <1>6, <1>13, <1>14, <2>1
  <2>2. CASE i = l + 1 /\ u = id
    BY <1>6, <2>2
  <2>3. CASE i = l + 1 /\ u # id
    <3>1. u \in X
      BY <1>6, <1>14, <2>3
    <3>2. PICK m \in 1..l : u \in f[m].ops
      BY <1>5, <1>14, <3>1
    <3>3. PICK j \in 1..m : u \in g[j].ops /\ g[j].node = G[u].node
      BY <1>13, <1>14, <3>2
    <3>4. j \in 1..(l + 1)
      OBVIOUS
    <3> QED
      BY <2>3, <3>3, <3>4
  <2> QED
    BY <1>8, <2>1, <2>2, <2>3
<1> QED
  BY <1>3, <1>6, <1>9, <1>11, <1>14 DEF OwnRecords, OneMore

LEMMA AppendKeeps == LogInv /\ AppendRecord => LogInv'
<1> SUFFICES ASSUME LogInv, AppendRecord PROVE LogInv'
  OBVIOUS
<1>1. /\ mem # Down /\ ~pending /\ Len(done) < MaxUpdates
      /\ lkind' = lkind /\ synced' = synced /\ snap' = snap /\ pending' = pending /\ durable' = durable
  BY DEF AppendRecord
<1>2. PICK name \in Operations(lkind), e \in Elem, n \in Node :
        LET id == Len(done) + 1
            op == [id |-> id, name |-> name, actor |-> Writer, elem |-> e,
                   hlc |-> from_parts(1, id), seen |-> held, node |-> n]
            next == Perform(lkind, mem[1][n], op)
        IN /\ mem' = <<[mem[1] EXCEPT ![n] = next]>>
           /\ held' = held \cup {id}
           /\ done' = Append(done, op)
           /\ file' = Append(file, Record(op, next, held'))
  BY DEF AppendRecord
<1>3. PICK id : id = Len(done) + 1
  OBVIOUS
<1>4. PICK op : op = [id |-> id, name |-> name, actor |-> Writer, elem |-> e,
                      hlc |-> from_parts(1, id), seen |-> held, node |-> n]
  OBVIOUS
<1>5. PICK next : next = Perform(lkind, mem[1][n], op)
  OBVIOUS
<1>6. PICK r : r = Record(op, next, held')
  OBVIOUS
<1>7. /\ mem' = <<[mem[1] EXCEPT ![n] = next]>> /\ held' = held \cup {id}
      /\ done' = Append(done, op) /\ file' = Append(file, r)
  BY <1>2, <1>3, <1>4, <1>5, <1>6
<1>8. /\ r.part = "whole" /\ r.node = n /\ r.hlc = op.hlc /\ r.ops = held' /\ r.payload = ToBytes(lkind, next)
      /\ op.name = name /\ op.node = n
  BY <1>4, <1>6 DEF Record
<1>9. /\ HistoryOk(lkind, done) /\ FileOk(lkind, done, file, TRUE) /\ SetsNested(done, file, snap)
      /\ OwnRecords(done, file, snap) /\ held = Surviving(snap, file)
  BY <1>1 DEF LogInv, MemOk
<1>10. held \subseteq 1..Len(done)
  BY <1>9, SetsInLog
<1>11. PICK H : H = done
  OBVIOUS
<1>12. PICK G : G = done'
  OBVIOUS
<1>13. /\ HistoryOk(lkind, G) /\ Longer(H, G) /\ NextUpdate(H, G, op, held, id)
       /\ Len(G) = id /\ id \in Nat /\ G[id] = op /\ op.hlc = LogicRange + id
  <2>1. PICK k : k = lkind
    OBVIOUS
  <2>2. PICK X : X = held
    OBVIOUS
  <2>3. HistoryOk(k, H) /\ Room(H, X, id)
    BY <1>1, <1>3, <1>9, <1>10, <1>11, <2>1, <2>2 DEF Room
  <2>4. op = UpdateOf(id, name, e, X, n)
    BY <1>4, <2>2 DEF UpdateOf
  <2>5. G = Append(H, op) /\ name \in Operations(k)
    BY <1>7, <1>11, <1>12, <2>1
  <2>6. Continues(k, H, G, op, X, id)
    BY <2>3, <2>4, <2>5, LongerHistory
  <2> QED
    BY <2>1, <2>2, <2>6 DEF Continues
<1>14. lkind \in {"GCOUNTER", "PNCOUNTER", "LWW_REG", "ORSET"}
  BY <1>9, KindsLogged
<1>15. ASSUME Unclear(G)
       PROVE  /\ Unclear(H) /\ op.name # "clear"
              /\ mem[1] = [m \in Node |-> Shown(H, lkind, held, m)]
              /\ next = Shown(G, lkind, held', n)
  <2>1. Unclear(H)
    BY <1>13, <1>15, LongerClear
  <2>2. id \in 1..Len(G)
    BY <1>13 DEF NextUpdate
  <2>3. op.name # "clear"
    BY <1>13, <1>15, <2>2 DEF Unclear
  <2>4. mem[1] = [m \in Node |-> Shown(H, lkind, held, m)]
    BY <1>1, <1>11, <2>1 DEF LogInv, MemOk
  <2>5. mem[1][n] = Shown(H, lkind, held, op.node)
    BY <1>8, <2>4
  <2>6. Perform(lkind, Shown(H, lkind, held, op.node), op) = Shown(G, lkind, held \cup {id}, op.node)
    <3>1. PICK k \in {"GCOUNTER", "PNCOUNTER", "LWW_REG", "ORSET"} : k = lkind
      BY <1>14
    <3>2. PICK X : X = held
      OBVIOUS
    <3>3. NextUpdate(H, G, op, X, id) /\ op.name \in Operations(k)
      BY <1>2, <1>8, <1>13, <3>1, <3>2
    <3>4. Perform(k, Shown(H, k, X, op.node), op) = Shown(G, k, X \cup {id}, op.node)
      BY <2>3, <3>3, PerformShown
    <3> QED
      BY <3>1, <3>2, <3>4
  <2> QED
    BY <1>5, <1>7, <1>8, <2>1, <2>3, <2>4, <2>5, <2>6
<1>16. RecordOk(lkind, G, r)
  <2>1. r.ops \subseteq 1..Len(G)
    <3>1. PICK l \in Nat : l = Len(done) /\ id = l + 1
      BY <1>3, <1>9, KindsLogged
    <3>a. 1..l \subseteq 1..(l + 1) /\ l + 1 \in 1..(l + 1)
      OBVIOUS
    <3>2. PICK X : X = held /\ X \subseteq 1..l
      BY <1>10, <3>1
    <3>3. r.ops = X \cup {id}
      BY <1>7, <1>8, <3>2
    <3>4. X \cup {id} \subseteq 1..id
      BY <3>a, <3>1, <3>2
    <3> QED
      BY <1>13, <3>3, <3>4
  <2>2. r.hlc \in Nat /\ r.hlc <= LogicRange + Len(G)
    BY <1>8, <1>13, StampGrows
  <2>3. Unclear(G) => r.payload = ToBytes(lkind, Shown(G, lkind, r.ops, r.node))
    BY <1>8, <1>15
  <2> QED
    BY <1>8, <2>1, <2>2, <2>3 DEF RecordOk
<1>17. PICK g : g = file'
  OBVIOUS
<1>18. PICK l \in Nat : l = Len(file)
  BY <1>9, UpIsWhole
<1>19. /\ FileOk(lkind, G, g, TRUE) /\ Len(g) = l + 1 /\ IntactOf(g) = l + 1
       /\ IntactOf(file) = l /\ g[l + 1] = r /\ \A i \in 1..l : g[i] = file[i]
  <2>1. r.hlc = LogicRange + Len(G)
    BY <1>8, <1>13
  <2> QED
    <3>1. PICK k : k = lkind
      OBVIOUS
    <3>2. PICK f : f = file
      OBVIOUS
    <3>3. Longer(H, G) /\ FileOk(k, H, f, TRUE) /\ RecordOk(k, G, r) /\ g = Append(f, r)
      BY <1>7, <1>9, <1>11, <1>13, <1>16, <1>17, <3>1, <3>2
    <3>4. FileOk(k, G, g, TRUE) /\ Appended(f, r, g)
      BY <2>1, <3>3, LongerFile
    <3> QED
      BY <1>18, <3>1, <3>2, <3>4 DEF Appended
<1>20. Surviving(snap, g) = held \cup {id} /\ SetsNested(G, g, snap) /\ OwnRecords(G, g, snap)
  <2>1. r.ops = Surviving(snap, file) \cup {id} /\ r.node = G[id].node /\ id = Len(G)
    BY <1>7, <1>8, <1>9, <1>13
  <2> QED
    <3>1. PICK k : k = lkind
      OBVIOUS
    <3>2. PICK f : f = file
      OBVIOUS
    <3>3. PICK s : s = snap
      OBVIOUS
    <3>4. /\ Longer(H, G) /\ HistoryOk(k, H) /\ FileOk(k, H, f, TRUE) /\ SetsNested(H, f, s)
          /\ OwnRecords(H, f, s)
      BY <1>9, <1>11, <1>13, <3>1, <3>2, <3>3
    <3>5. Appended(f, r, g)
      BY <1>18, <1>19, <3>2 DEF Appended
    <3>6. AllHeld(G, r, f, s, id)
      BY <2>1, <3>2, <3>3 DEF AllHeld
    <3>7. OneMore(f, g, s, id) /\ SetsNested(G, g, s) /\ OwnRecords(G, g, s)
      BY <2>1, <3>4, <3>5, <3>6, LongerSets
    <3> QED
      BY <1>9, <3>2, <3>3, <3>7 DEF OneMore
<1>21. DurableKept(g, synced, snap, durable)
  <2>1. synced \in 0..l /\ durable \subseteq snap.ops \cup UNION {file[i].ops : i \in {j \in 1..l : j <= synced}}
    BY <1>18, <1>19 DEF LogInv, DurableKept
  <2>2. synced \in 0..(l + 1)
    BY <2>1
  <2>3. ASSUME NEW u \in durable, u \notin snap.ops
        PROVE  \E i \in {j \in 1..(l + 1) : j <= synced} : u \in g[i].ops
    <3>1. PICK i \in 1..l : i <= synced /\ u \in file[i].ops
      BY <2>1, <2>3
    <3>2. i \in 1..(l + 1)
      OBVIOUS
    <3> QED
      BY <1>19, <3>1, <3>2
  <2> QED
    BY <1>19, <2>2, <2>3 DEF DurableKept
<1>22. ASSUME Unclear(G) PROVE mem'[1] = [m \in Node |-> Shown(G, lkind, held', m)]
  <2>1. PICK b : b = mem[1] /\ b = [m \in Node |-> Shown(H, lkind, held, m)]
    BY <1>15, <1>22
  <2>2. mem'[1] = [b EXCEPT ![n] = next]
    BY <1>7, <2>1
  <2>3. next = Shown(G, lkind, held', n)
    BY <1>15, <1>22
  <2>4. ASSUME NEW m \in Node, m # n PROVE Shown(H, lkind, held, m) = Shown(G, lkind, held', m)
    <3>1. Shown(G, lkind, held \cup {id}, m) = Shown(H, lkind, held, m)
      <4>1. PICK k \in {"GCOUNTER", "PNCOUNTER", "LWW_REG", "ORSET"} : k = lkind
        BY <1>14
      <4>2. PICK X : X = held
        OBVIOUS
      <4>3. NextUpdate(H, G, op, X, id) /\ m # op.node
        BY <1>8, <1>13, <2>4, <4>2
      <4>4. Shown(G, k, X \cup {id}, m) = Shown(H, k, X, m)
        BY <4>3, OthersShown
      <4> QED
        BY <4>1, <4>2, <4>4
    <3> QED
      BY <1>7, <3>1
  <2>5. PICK c : c = [b EXCEPT ![n] = next]
    OBVIOUS
  <2>6. c = [m \in Node |-> IF m = n THEN next ELSE Shown(H, lkind, held, m)]
    BY <2>1, <2>5
  <2>7. \A m \in Node : (IF m = n THEN next ELSE Shown(H, lkind, held, m)) = Shown(G, lkind, held', m)
    BY <2>3, <2>4
  <2>8. c = [m \in Node |-> Shown(G, lkind, held', m)]
    BY <2>6, <2>7
  <2> QED
    BY <2>2, <2>5, <2>8
<1>23. mem' # Down /\ mem' = <<mem'[1]>>
  BY <1>7 DEF Down
<1>24. MemOk(lkind, G, g, snap, pending, mem', held')
  BY <1>7, <1>20, <1>22, <1>23 DEF MemOk
<1>25. SnapOk(lkind, G, g, snap, pending)
  <2>1. ASSUME Unclear(G), NEW m \in Node
        PROVE  NodeOf(lkind, snap.index, m) = Shown(G, lkind, snap.ops, m)
    <3>1. Unclear(H)
      BY <1>15, <2>1
    <3>2. NodeOf(lkind, snap.index, m) = Shown(H, lkind, snap.ops, m)
      BY <1>11, <3>1 DEF LogInv, SnapOk
    <3>3. snap.ops \subseteq 1..Len(H)
      BY <1>9, <1>11 DEF SetsNested
    <3> QED
      BY <1>13, <3>2, <3>3, LongerShown
  <2> QED
    BY <1>1, <2>1 DEF LogInv, SnapOk
<1> QED
  BY <1>1, <1>12, <1>13, <1>17, <1>19, <1>20, <1>21, <1>23, <1>24, <1>25 DEF LogInv, Down

(* A process that is up holds every update that a sync or a snapshot made  *)
(* durable, its reads agree with the updates it was built from, and its    *)
(* log is readable to the end (recover_wal_tail, CompactionScheduler and   *)
(* the snapshot's codecs).                                                 *)
THEOREM DurableSurvives == LSpec => []DurableUpdatesSurvive
<1>1. LInit => LogInv
  BY LogStart
<1>2. LogInv /\ [LNext]_lvars => LogInv'
  BY AppendKeeps, SyncKeeps, SnapshotKeeps, CutKeeps, CrashKeeps, RecoverKeeps, StutterKeeps DEF LNext
<1>3. LogInv => DurableUpdatesSurvive
  BY LogSafe
<1> QED
  BY <1>1, <1>2, <1>3, PTL DEF LSpec
=============================================================================
