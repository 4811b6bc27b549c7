----------------------- MODULE ProductionTxnRecovery ------------------------
(***************************************************************************)
(* Recovery of ProductionTxn is exact, for every value of its constants:   *)
(* first what a history of committed generations determines (the state,    *)
(* the segment and the provenance file it commits, the files that a        *)
(* generation planned on it must carry, and why replaying and installing   *)
(* such a generation succeeds), then the inductive invariant that relates  *)
(* the committed generations, the pending tree, the CAS bytes and the live *)
(* files in every phase, and the safety properties that follow from it.    *)
(***************************************************************************)
EXTENDS ProductionTxnProofs

-----------------------------------------------------------------------------
(* What the first k generations commit *)

\* A step function per position has a sequence of its results; stated for sets
\* of values so that no induction principle with an operator argument is needed.
LEMMA FoldExists ==
  ASSUME NEW S, NEW e \in S, NEW n \in Nat, NEW F \in [1..n -> [S -> S]]
  PROVE  \E f \in [0..n -> S] : f[0] = e /\ \A i \in 1..n : f[i] = F[i][f[i - 1]]
<1> DEFINE Q(f, k) == f[0] = e /\ \A i \in 1..k : f[i] = F[i][f[i - 1]]
           P(k) == \E f \in [0..k -> S] : Q(f, k)
           T == {k \in 0..n : ~P(k)}
<1>1. P(0)
  <2>1. [i \in 0..0 |-> e] \in [0..0 -> S] /\ Q([i \in 0..0 |-> e], 0)
    OBVIOUS
  <2>2. QED
    BY <2>1
<1>2. ASSUME NEW k \in 1..n, P(k - 1) PROVE P(k)
  <2>1. PICK f \in [0..(k - 1) -> S] : Q(f, k - 1)
    BY <1>2
  <2> DEFINE v == F[k][f[k - 1]]
             h == [i \in 0..k |-> IF i = k THEN v ELSE f[i]]
  <2>2. v \in S
    OBVIOUS
  <2> HIDE DEF v
  <2>3. h \in [0..k -> S] /\ h[k] = v /\ \A i \in 0..(k - 1) : h[i] = f[i]
    BY <2>2
  <2> HIDE DEF h
  <2>4. ASSUME NEW i \in 1..k PROVE h[i] = F[i][h[i - 1]]
    <3>1. CASE i = k
      BY <2>3, <3>1 DEF v
    <3>2. CASE i # k
      <4>1. i \in 1..(k - 1) /\ i \in 0..(k - 1) /\ i - 1 \in 0..(k - 1)
        BY <3>2
      <4>2. QED
        BY <2>1, <2>3, <4>1
    <3>3. QED
      BY <3>1, <3>2
  <2>5. h[0] = e
    BY <2>1, <2>3
  <2>6. Q(h, k)
    BY <2>4, <2>5
  <2>7. QED
    BY <2>3, <2>6
<1>3. n \in 0..n /\ T \in SUBSET Nat /\ \A k \in 0..n : k \notin T => P(k)
  OBVIOUS
<1>4. ASSUME T # {} PROVE FALSE
  <2>1. PICK k \in T : \A j \in T : k <= j
    BY <1>3, <1>4, LeastNat
  <2>2. k \in 0..n /\ ~P(k)
    OBVIOUS
  <2> HIDE DEF P, T
  <2>3. k # 0
    BY <1>1, <2>2
  <2>4. k - 1 \in 0..n /\ ~(k <= k - 1)
    BY <2>2, <2>3
  <2>5. P(k - 1)
    BY <1>3, <2>1, <2>4
  <2>6. QED
    BY <1>2, <2>2, <2>3, <2>5
<1>5. P(n)
  BY <1>3, <1>4
<1>6. QED
  BY <1>5

\* Two such sequences are equal.  The hypothesis and the conclusion have names,
\* so that a use of the lemma is one instance of it.
Follow(n, f, h) == f[0] = h[0] /\ \A i \in 1..n : f[i - 1] = h[i - 1] => f[i] = h[i]
SameUpTo(n, f, h) == \A k \in 0..n : f[k] = h[k]

LEMMA FoldUnique ==
  ASSUME NEW n, n \in Nat, NEW f, NEW h, Follow(n, f, h)
  PROVE  SameUpTo(n, f, h)
<1> DEFINE T == {k \in 0..n : f[k] # h[k]}
<1>0. f[0] = h[0] /\ \A i \in 1..n : f[i - 1] = h[i - 1] => f[i] = h[i]
  BY DEF Follow
<1>1. ASSUME T # {} PROVE FALSE
  <2>1. T \in SUBSET Nat
    OBVIOUS
  <2>2. PICK k \in T : \A j \in T : k <= j
    BY <1>1, <2>1, LeastNat
  <2>3. k \in 0..n /\ f[k] # h[k]
    OBVIOUS
  <2>4. k # 0
    BY <1>0, <2>3
  <2>5. k \in 1..n /\ k - 1 \in 0..n /\ ~(k <= k - 1)
    BY <2>3, <2>4
  <2>6. k - 1 \notin T
    BY <2>2, <2>5
  <2>7. f[k - 1] = h[k - 1]
    BY <2>5, <2>6
  <2>8. QED
    BY <1>0, <2>3, <2>5, <2>7
<1>2. QED
  BY <1>1 DEF SameUpTo

\* Sequences of well-made generations, and what the first k of one commit.  These
\* are the definitions behind CommittedState, CommittedSeg and CommittedLinks,
\* with the generations as an argument.
Histories == {G \in Seq(Generations) : \A i \in 1..Len(G) : WellMade(G[i])}

StateOf(G, k) ==
    LET s[i \in 0..Len(G)] == IF i = 0 THEN EmptyState ELSE Apply(s[i - 1], G[i])
    IN s[k]

\* The state grows by one Apply per generation.
LEMMA StateOfStep ==
  ASSUME NEW G \in Histories
  PROVE  /\ StateOf(G, 0) = EmptyState
         /\ \A k \in 1..Len(G) : StateOf(G, k) = Apply(StateOf(G, k - 1), G[k])
         /\ \A k \in 0..Len(G) : StateOf(G, k) \in States
<1> DEFINE n == Len(G)
           F == [i \in 1..n |-> [s \in States |-> Apply(s, G[i])]]
           Is(f) == f = [i \in 0..n |-> IF i = 0 THEN EmptyState ELSE Apply(f[i - 1], G[i])]
<1>1. n \in Nat /\ \A i \in 1..n : G[i] \in Generations /\ WellMade(G[i])
  BY DEF Histories
<1>2. F \in [1..n -> [States -> States]]
  <2>1. \A i \in 1..n, s \in States : Apply(s, G[i]) \in States
    BY <1>1, ApplyType
  <2>2. QED
    BY <2>1
<1>0. EmptyState \in States
  BY EmptyType
<1> HIDE DEF F, n
<1>3. PICK f \in [0..n -> States] : f[0] = EmptyState /\ \A i \in 1..n : f[i] = F[i][f[i - 1]]
  BY <1>0, <1>1, <1>2, FoldExists
<1>4. \A i \in 1..n : f[i - 1] \in States /\ f[i] = Apply(f[i - 1], G[i])
  <2>1. ASSUME NEW i \in 1..n PROVE f[i - 1] \in States /\ f[i] = Apply(f[i - 1], G[i])
    <3>1. f[i - 1] \in States
      BY <1>1
    <3>2. F[i][f[i - 1]] = Apply(f[i - 1], G[i])
      BY <3>1 DEF F
    <3>3. QED
      BY <1>3, <3>1, <3>2
  <2>2. QED
    BY <2>1
<1>5. Is(f)
  BY <1>1, <1>3, <1>4
<1> DEFINE c == CHOOSE g : Is(g)
<1>6. Is(c)
  BY <1>5
<1>7. \A k : StateOf(G, k) = c[k]
  BY DEF StateOf, n
<1> HIDE DEF c
<1>8. c[0] = EmptyState /\ \A i \in 1..n : c[i] = Apply(c[i - 1], G[i])
  BY <1>1, <1>6
<1>9. \A k \in 0..n : c[k] = f[k]
  <2>1. c[0] = f[0] /\ \A i \in 1..n : c[i - 1] = f[i - 1] => c[i] = f[i]
    BY <1>3, <1>4, <1>8
  <2>2. Follow(n, c, f)
    BY <2>1 DEF Follow
  <2>3. SameUpTo(n, c, f)
    BY <1>1, <2>2, FoldUnique, Zenon
  <2>4. QED
    BY <2>3, Zenon DEF SameUpTo
<1>10. QED
  BY <1>1, <1>3, <1>4, <1>7, <1>8, <1>9 DEF n

SegOf(G, k) ==
    LET s[i \in 0..Len(G)] ==
          IF i = 0 THEN << >>
          ELSE IF G[i].req.kind = "update" THEN s[i - 1]
          ELSE s[i - 1] \o Chunks(G[i].new)
    IN s[k]

\* The segment grows by the records of every ingest.
LEMMA SegOfStep ==
  ASSUME NEW G \in Histories
  PROVE  /\ SegOf(G, 0) = << >>
         /\ \A k \in 1..Len(G) :
               SegOf(G, k) = IF G[k].req.kind = "update" THEN SegOf(G, k - 1)
                             ELSE SegOf(G, k - 1) \o Chunks(G[k].new)
         /\ \A k \in 0..Len(G) : SegOf(G, k) \in Seq(Halves)
<1> DEFINE n == Len(G)
           Step(x, g) == IF g.req.kind = "update" THEN x ELSE x \o Chunks(g.new)
           F == [i \in 1..n |-> [x \in Seq(Halves) |-> Step(x, G[i])]]
           Is(f) == f = [i \in 0..n |-> IF i = 0 THEN << >> ELSE Step(f[i - 1], G[i])]
<1>1. n \in Nat /\ \A i \in 1..n : G[i] \in Generations
  BY DEF Histories
<1>2. ASSUME NEW i \in 1..n, NEW x \in Seq(Halves) PROVE Step(x, G[i]) \in Seq(Halves)
  <2>1. G[i].new \in Seq(AtomRecs)
    BY <1>1 DEF Generations
  <2>2. Chunks(G[i].new) \in Seq(Halves)
    BY <2>1, ChunksType
  <2>3. QED
    BY <2>2
<1>0. << >> \in Seq(Halves)
  OBVIOUS
<1>3. \A k : SegOf(G, k) = (CHOOSE g : Is(g))[k]
  BY DEF SegOf
<1> HIDE DEF Step, n
<1>4. F \in [1..n -> [Seq(Halves) -> Seq(Halves)]]
  BY <1>2
<1> HIDE DEF F
<1>5. PICK f \in [0..n -> Seq(Halves)] : f[0] = << >> /\ \A i \in 1..n : f[i] = F[i][f[i - 1]]
  <2> DEFINE A == Seq(Halves)
             z == << >>
             m == n
             K == F
  <2>1. z \in A /\ m \in Nat /\ K \in [1..m -> [A -> A]]
    BY <1>0, <1>1, <1>4
  <2> HIDE DEF A, z, m, K
  <2>2. \E f \in [0..m -> A] : f[0] = z /\ \A i \in 1..m : f[i] = K[i][f[i - 1]]
    BY <2>1, FoldExists
  <2>3. QED
    BY <2>2 DEF A, z, m, K
<1>6. ASSUME NEW i \in 1..n PROVE f[i] = Step(f[i - 1], G[i])
  <2>1. f[i - 1] \in Seq(Halves)
    BY <1>1
  <2>2. F[i][f[i - 1]] = Step(f[i - 1], G[i])
    BY <2>1 DEF F
  <2>3. QED
    BY <1>5, <2>2
<1>7. Is(f)
  BY <1>1, <1>5, <1>6
<1> DEFINE c == CHOOSE g : Is(g)
<1>8. Is(c)
  BY <1>7
<1>9. \A k : SegOf(G, k) = c[k]
  BY <1>3
<1> HIDE DEF c
<1>10. c[0] = << >> /\ \A i \in 1..n : c[i] = Step(c[i - 1], G[i])
  BY <1>1, <1>8
<1>11. \A k \in 0..n : c[k] = f[k]
  <2>1. c[0] = f[0] /\ \A i \in 1..n : c[i - 1] = f[i - 1] => c[i] = f[i]
    BY <1>5, <1>6, <1>10
  <2>2. Follow(n, c, f)
    BY <2>1 DEF Follow
  <2>3. SameUpTo(n, c, f)
    BY <1>1, <2>2, FoldUnique, Zenon
  <2>4. QED
    BY <2>3, Zenon DEF SameUpTo
<1>12. \A k \in 1..n : SegOf(G, k) = Step(SegOf(G, k - 1), G[k])
  BY <1>9, <1>10
<1>13. \A k \in 0..n : c[k] \in Seq(Halves)
  BY <1>5, <1>11
<1>14. QED
  BY <1>9, <1>10, <1>12, <1>13 DEF n, Step

LinksOf(G, k) ==
    LET s[i \in 0..Len(G)] ==
          IF i = 0 THEN << >>
          ELSE IF G[i].req.kind = "update" THEN s[i - 1] \o G[i].comp.sources
          ELSE s[i - 1]
    IN s[k]

\* The provenance file grows by the component of every update.
LEMMA LinksOfStep ==
  ASSUME NEW G \in Histories
  PROVE  /\ LinksOf(G, 0) = << >>
         /\ \A k \in 1..Len(G) :
               LinksOf(G, k) = IF G[k].req.kind = "update"
                               THEN LinksOf(G, k - 1) \o G[k].comp.sources
                               ELSE LinksOf(G, k - 1)
         /\ \A k \in 0..Len(G) : LinksOf(G, k) \in Seq(Links)
<1> DEFINE n == Len(G)
           Step(x, g) == IF g.req.kind = "update" THEN x \o g.comp.sources ELSE x
           F == [i \in 1..n |-> [x \in Seq(Links) |-> Step(x, G[i])]]
           Is(f) == f = [i \in 0..n |-> IF i = 0 THEN << >> ELSE Step(f[i - 1], G[i])]
<1>1. n \in Nat /\ \A i \in 1..n : G[i] \in Generations
  BY DEF Histories
<1>2. ASSUME NEW i \in 1..n, NEW x \in Seq(Links) PROVE Step(x, G[i]) \in Seq(Links)
  <2>1. G[i].comp.sources \in Seq(Links)
    BY <1>1 DEF Generations, Components
  <2>2. QED
    BY <2>1
<1>0. << >> \in Seq(Links)
  OBVIOUS
<1>3. \A k : LinksOf(G, k) = (CHOOSE g : Is(g))[k]
  BY DEF LinksOf
<1> HIDE DEF Step, n
<1>4. F \in [1..n -> [Seq(Links) -> Seq(Links)]]
  BY <1>2
<1> HIDE DEF F
<1>5. PICK f \in [0..n -> Seq(Links)] : f[0] = << >> /\ \A i \in 1..n : f[i] = F[i][f[i - 1]]
  <2> DEFINE A == Seq(Links)
             z == << >>
             m == n
             K == F
  <2>1. z \in A /\ m \in Nat /\ K \in [1..m -> [A -> A]]
    BY <1>0, <1>1, <1>4
  <2> HIDE DEF A, z, m, K
  <2>2. \E f \in [0..m -> A] : f[0] = z /\ \A i \in 1..m : f[i] = K[i][f[i - 1]]
    BY <2>1, FoldExists
  <2>3. QED
    BY <2>2 DEF A, z, m, K
<1>6. ASSUME NEW i \in 1..n PROVE f[i] = Step(f[i - 1], G[i])
  <2>1. f[i - 1] \in Seq(Links)
    BY <1>1
  <2>2. F[i][f[i - 1]] = Step(f[i - 1], G[i])
    BY <2>1 DEF F
  <2>3. QED
    BY <1>5, <2>2
<1>7. Is(f)
  BY <1>1, <1>5, <1>6
<1> DEFINE c == CHOOSE g : Is(g)
<1>8. Is(c)
  BY <1>7
<1>9. \A k : LinksOf(G, k) = c[k]
  BY <1>3
<1> HIDE DEF c
<1>10. c[0] = << >> /\ \A i \in 1..n : c[i] = Step(c[i - 1], G[i])
  BY <1>1, <1>8
<1>11. \A k \in 0..n : c[k] = f[k]
  <2>1. c[0] = f[0] /\ \A i \in 1..n : c[i - 1] = f[i - 1] => c[i] = f[i]
    BY <1>5, <1>6, <1>10
  <2>2. Follow(n, c, f)
    BY <2>1 DEF Follow
  <2>3. SameUpTo(n, c, f)
    BY <1>1, <2>2, FoldUnique, Zenon
  <2>4. QED
    BY <2>3, Zenon DEF SameUpTo
<1>12. \A k \in 1..n : LinksOf(G, k) = Step(LinksOf(G, k - 1), G[k])
  BY <1>9, <1>10
<1>13. \A k \in 0..n : c[k] \in Seq(Links)
  BY <1>5, <1>11
<1>14. QED
  BY <1>9, <1>10, <1>12, <1>13 DEF n, Step

\* A well-made generation may follow any history.
LEMMA Grown ==
  ASSUME NEW G \in Histories, NEW g \in Generations, WellMade(g)
  PROVE  /\ Append(G, g) \in Histories
         /\ Len(G) \in Nat /\ Len(Append(G, g)) = Len(G) + 1 /\ Append(G, g)[Len(G) + 1] = g
         /\ \A i \in 1..Len(G) : Append(G, g)[i] = G[i]
<1>1. G \in Seq(Generations) /\ \A i \in 1..Len(G) : WellMade(G[i])
  BY DEF Histories
<1>2. /\ Append(G, g) \in Seq(Generations) /\ Len(G) \in Nat
      /\ Len(Append(G, g)) = Len(G) + 1 /\ Append(G, g)[Len(G) + 1] = g
      /\ \A i \in 1..Len(G) : Append(G, g)[i] = G[i]
  BY <1>1
<1>3. \A i \in 1..(Len(G) + 1) : WellMade(Append(G, g)[i])
  BY <1>1, <1>2
<1>4. QED
  BY <1>1, <1>2, <1>3 DEF Histories

\* A further generation changes nothing of what the earlier ones commit.
LEMMA Agree ==
  ASSUME NEW G \in Histories, NEW g \in Generations, WellMade(g), NEW k \in 0..Len(G)
  PROVE  /\ StateOf(Append(G, g), k) = StateOf(G, k)
         /\ SegOf(Append(G, g), k) = SegOf(G, k)
         /\ LinksOf(Append(G, g), k) = LinksOf(G, k)
<1> DEFINE H == Append(G, g)
           n == Len(G)
<1>1. H \in Histories /\ n \in Nat /\ Len(H) = n + 1 /\ \A i \in 1..n : H[i] = G[i]
  BY Grown
<1> HIDE DEF H, n
<1>2. \A i \in 1..n : i \in 1..Len(H) /\ i \in 1..Len(G) /\ i - 1 \in 0..n
  BY <1>1 DEF n
<1>3. StateOf(H, k) = StateOf(G, k)
  <2>1. StateOf(H, 0) = StateOf(G, 0)
    BY <1>1, StateOfStep
  <2>2. ASSUME NEW i \in 1..n, StateOf(H, i - 1) = StateOf(G, i - 1)
        PROVE  StateOf(H, i) = StateOf(G, i)
    BY <1>1, <1>2, <2>2, StateOfStep
  <2>3. PICK f : f = [i \in 0..n |-> StateOf(H, i)]
    OBVIOUS
  <2>4. PICK h : h = [i \in 0..n |-> StateOf(G, i)]
    OBVIOUS
  <2>5. /\ n \in Nat /\ f[0] = h[0]
        /\ \A i \in 1..n : f[i - 1] = h[i - 1] => f[i] = h[i]
    BY <1>1, <1>2, <2>1, <2>2, <2>3, <2>4
  <2>8. n \in Nat /\ Follow(n, f, h)
    BY <2>5, Zenon DEF Follow
  <2>9. SameUpTo(n, f, h)
    BY <2>8, FoldUnique, Zenon
  <2>6. \A i \in 0..n : f[i] = h[i]
    BY <2>9, Zenon DEF SameUpTo
  <2>7. QED
    BY <2>3, <2>4, <2>6 DEF n
<1>4. SegOf(H, k) = SegOf(G, k)
  <2>1. SegOf(H, 0) = SegOf(G, 0)
    BY <1>1, SegOfStep
  <2>2. ASSUME NEW i \in 1..n, SegOf(H, i - 1) = SegOf(G, i - 1)
        PROVE  SegOf(H, i) = SegOf(G, i)
    BY <1>1, <1>2, <2>2, SegOfStep
  <2>3. PICK f : f = [i \in 0..n |-> SegOf(H, i)]
    OBVIOUS
  <2>4. PICK h : h = [i \in 0..n |-> SegOf(G, i)]
    OBVIOUS
  <2>5. /\ n \in Nat /\ f[0] = h[0]
        /\ \A i \in 1..n : f[i - 1] = h[i - 1] => f[i] = h[i]
    BY <1>1, <1>2, <2>1, <2>2, <2>3, <2>4
  <2>8. n \in Nat /\ Follow(n, f, h)
    BY <2>5, Zenon DEF Follow
  <2>9. SameUpTo(n, f, h)
    BY <2>8, FoldUnique, Zenon
  <2>6. \A i \in 0..n : f[i] = h[i]
    BY <2>9, Zenon DEF SameUpTo
  <2>7. QED
    BY <2>3, <2>4, <2>6 DEF n
<1>5. LinksOf(H, k) = LinksOf(G, k)
  <2>1. LinksOf(H, 0) = LinksOf(G, 0)
    BY <1>1, LinksOfStep
  <2>2. ASSUME NEW i \in 1..n, LinksOf(H, i - 1) = LinksOf(G, i - 1)
        PROVE  LinksOf(H, i) = LinksOf(G, i)
    BY <1>1, <1>2, <2>2, LinksOfStep
  <2>3. PICK f : f = [i \in 0..n |-> LinksOf(H, i)]
    OBVIOUS
  <2>4. PICK h : h = [i \in 0..n |-> LinksOf(G, i)]
    OBVIOUS
  <2>5. /\ n \in Nat /\ f[0] = h[0]
        /\ \A i \in 1..n : f[i - 1] = h[i - 1] => f[i] = h[i]
    BY <1>1, <1>2, <2>1, <2>2, <2>3, <2>4
  <2>8. n \in Nat /\ Follow(n, f, h)
    BY <2>5, Zenon DEF Follow
  <2>9. SameUpTo(n, f, h)
    BY <2>8, FoldUnique, Zenon
  <2>6. \A i \in 0..n : f[i] = h[i]
    BY <2>9, Zenon DEF SameUpTo
  <2>7. QED
    BY <2>3, <2>4, <2>6 DEF n
<1>6. QED
  BY <1>3, <1>4, <1>5 DEF H

\* The operators of the properties are these, at the generations on disk.
LEMMA CommittedIs ==
  /\ \A k : /\ CommittedState(k) = StateOf(gens, k)
           /\ CommittedSeg(k) = SegOf(gens, k)
           /\ CommittedLinks(k) = LinksOf(gens, k)
  BY DEF CommittedState, CommittedSeg, CommittedLinks, StateOf, SegOf, LinksOf

-----------------------------------------------------------------------------
(* The supersession chains *)

\* Induction up to a bound, over a set.
LEMMA Upto ==
  ASSUME NEW n \in Nat, NEW T, 0 \in T, \A k \in 1..n : k - 1 \in T => k \in T
  PROVE  \A k \in 0..n : k \in T
<1> DEFINE U == {k \in 0..n : k \notin T}
<1>1. ASSUME U # {} PROVE FALSE
  <2>1. U \in SUBSET Nat
    OBVIOUS
  <2>2. PICK k \in U : \A j \in U : k <= j
    BY <1>1, <2>1, LeastNat
  <2>3. k \in 1..n /\ k - 1 \in 0..n /\ ~(k <= k - 1) /\ k \notin T
    OBVIOUS
  <2>4. k - 1 \in T
    BY <2>2, <2>3
  <2>5. QED
    BY <2>3, <2>4
<1>2. QED
  BY <1>1

\* The elements of a concatenation.
LEMMA ConcatAt ==
  ASSUME NEW T, NEW a \in Seq(T), NEW b \in Seq(T)
  PROVE  /\ a \o b \in Seq(T) /\ Len(a) \in Nat /\ Len(b) \in Nat
         /\ Len(a \o b) = Len(a) + Len(b)
         /\ \A i \in 1..Len(a) : (a \o b)[i] = a[i]
         /\ \A i \in 1..Len(b) : (a \o b)[Len(a) + i] = b[i]
         /\ \A i \in 1..Len(a \o b) : i \notin 1..Len(a) =>
               i - Len(a) \in 1..Len(b) /\ (a \o b)[i] = b[i - Len(a)]
<1>1. /\ a \o b \in Seq(T) /\ Len(a) \in Nat /\ Len(b) \in Nat
      /\ Len(a \o b) = Len(a) + Len(b)
      /\ \A i \in 1..Len(a) : (a \o b)[i] = a[i]
      /\ \A i \in 1..Len(b) : (a \o b)[Len(a) + i] = b[i]
  OBVIOUS
<1> DEFINE c == a \o b
<1> HIDE DEF c
<1>2. ASSUME NEW i \in 1..Len(c), i \notin 1..Len(a)
      PROVE  i - Len(a) \in 1..Len(b) /\ c[i] = b[i - Len(a)]
  <2>1. i - Len(a) \in 1..Len(b) /\ i = Len(a) + (i - Len(a))
    BY <1>1, <1>2 DEF c
  <2>2. QED
    BY <1>1, <2>1 DEF c
<1>3. QED
  BY <1>1, <1>2 DEF c

\* No AtomId and no NodeNum twice.
Distinct(atoms) ==
    \A i, j \in 1..Len(atoms) :
        atoms[i].atom = atoms[j].atom \/ atoms[i].node = atoms[j].node => i = j

\* Versions form chains: what LineageSound says of the committed state.
LineageOf(atoms, edges) ==
    /\ Distinct(atoms)
    /\ \A i \in 1..Len(edges) :
          /\ \E p, q \in 1..Len(atoms) :
                p < q /\ atoms[p].atom = edges[i].old /\ atoms[q].atom = edges[i].new
          /\ \A j \in 1..Len(edges) : edges[i].old = edges[j].old => i = j

\* What a generation must bring so that the chains stay sound.
Extending(s, g) ==
    /\ \A i \in 1..Len(g.new) : /\ g.new[i].atom \notin AtomIds(s.atoms)
                                /\ g.new[i].node >= NextNode(s.atoms)
    /\ Distinct(g.new)
    /\ g.req.kind = "update" => /\ g.req.old \in AtomIds(s.atoms)
                                /\ g.req.old \notin Superseded(s.edges)

\* NextNode lies above every NodeNum in use.
LEMMA NextNodeAbove ==
  ASSUME NEW atoms \in Seq(AtomRecs), NEW i \in 1..Len(atoms)
  PROVE  atoms[i].node \in Nat /\ atoms[i].node < NextNode(atoms)
<1> DEFINE f == [j \in 1..Len(atoms) |-> atoms[j].node]
<1>1. ASSUME NEW j \in 1..Len(atoms) PROVE atoms[j].node \in Nat
  <2>1. atoms[j] \in AtomRecs
    OBVIOUS
  <2>2. QED
    BY <2>1 DEF AtomRecs
<1>2. Len(atoms) \in Nat /\ f \in [1..Len(atoms) -> Nat] /\ \A j \in 1..Len(atoms) : f[j] = atoms[j].node
  BY <1>1
<1> HIDE DEF f
<1>3. PICK b \in Nat : \A j \in 1..Len(atoms) : f[j] <= b
  BY <1>2, Bounded
<1>4. Nodes(atoms) \in SUBSET Int /\ Nodes(atoms) # {} /\ \A k \in Nodes(atoms) : k <= b
  BY <1>1, <1>2, <1>3 DEF Nodes
<1>5. \E m \in Nodes(atoms) : \A k \in Nodes(atoms) : k <= m
  <2>1. b \in Int
    OBVIOUS
  <2>2. QED
    BY <1>4, <2>1, LargestBelow
<1> DEFINE m == CHOOSE m \in Nodes(atoms) : \A k \in Nodes(atoms) : k <= m
<1>6. m \in Nodes(atoms) /\ \A k \in Nodes(atoms) : k <= m
  BY <1>5
<1>7. NextNode(atoms) = 1 + m
  <2>1. atoms # << >>
    OBVIOUS
  <2>2. QED
    BY <2>1 DEF NextNode
<1> HIDE DEF m
<1>8. atoms[i].node \in Nodes(atoms)
  BY DEF Nodes
<1>9. QED
  BY <1>1, <1>4, <1>6, <1>7, <1>8

\* The atoms an ingest plans are new and distinct.
LEMMA NewAtomsFresh ==
  ASSUME NEW atoms \in Seq(AtomRecs), NEW items \in Seq(Bodies)
  PROVE  LET new == NewAtoms(atoms, items) IN
         /\ \A k \in 1..Len(new) : /\ new[k].atom \notin AtomIds(atoms)
                                   /\ new[k].node = NextNode(atoms) + k - 1
         /\ Distinct(new)
<1> DEFINE new == NewAtoms(atoms, items)
           C == CreatedIn(atoms, items)
           N == Cardinality(C)
           Item(k) == CHOOSE j \in C : Rank(atoms, items, j) = k - 1
<1>1. N \in Nat /\ C \in SUBSET (1..Len(items)) /\ NextNode(atoms) \in Nat
  BY CreatedType, NextNodeType
<1>2. Len(new) = N
  BY NewAtomsType
<1>3. ASSUME NEW k \in 1..N PROVE Item(k) \in C /\ Rank(atoms, items, Item(k)) = k - 1
  <2>1. k - 1 \in Nat /\ k - 1 < N /\ Len(items) \in Nat
    BY <1>1
  <2> HIDE DEF C
  <2>2. \E j \in C : Cardinality({i \in C : i < j}) = k - 1
    <3>1. PICK l \in Nat, r \in Nat : l = Len(items) /\ r = k - 1
      BY <2>1
    <3>2. PICK D \in SUBSET (1..l) : D = C
      BY <1>1, <3>1
    <3>3. r < Cardinality(D)
      BY <2>1, <3>1, <3>2
    <3>4. \E j \in D : Cardinality({i \in D : i < j}) = r
      BY <3>3, RankExists
    <3>5. QED
      BY <3>1, <3>2, <3>4
  <2>3. \E j \in C : Rank(atoms, items, j) = k - 1
    BY <2>2 DEF Rank, C
  <2>4. QED
    BY <2>3
<1>4. ASSUME NEW k \in 1..N
      PROVE  new[k].atom = AtomOf[items[Item(k)]] /\ new[k].node = NextNode(atoms) + k - 1
  BY DEF NewAtoms
<1>5. ASSUME NEW j \in C
      PROVE  /\ j \in 1..Len(items) /\ AtomOf[items[j]] \notin AtomIds(atoms)
             /\ ValidItem(items[j]) /\ ~Duplicate(items, j)
  BY DEF CreatedIn, ItemResult
<1>6. ASSUME NEW i \in C, NEW j \in C, i < j PROVE AtomOf[items[i]] # AtomOf[items[j]]
  <2>1. i \in 1..(j - 1)
    BY <1>5, <1>6
  <2>2. QED
    BY <1>5, <2>1 DEF Duplicate
<1> HIDE DEF new, C, N, Item
<1>7. ASSUME NEW k \in 1..N, NEW l \in 1..N, new[k].atom = new[l].atom PROVE k = l
  <2>1. PICK i \in C : i = Item(k) /\ Rank(atoms, items, i) = k - 1
    BY <1>3
  <2>2. PICK j \in C : j = Item(l) /\ Rank(atoms, items, j) = l - 1
    BY <1>3
  <2>3. AtomOf[items[i]] = AtomOf[items[j]]
    BY <1>4, <1>7, <2>1, <2>2
  <2>4. i \in Int /\ j \in Int
    BY <1>1
  <2>5. i = j
    BY <1>6, <2>3, <2>4
  <2>6. QED
    BY <1>1, <2>1, <2>2, <2>5
<1>8. ASSUME NEW k \in 1..N, NEW l \in 1..N, new[k].node = new[l].node PROVE k = l
  <2>1. PICK nn \in Nat : nn = NextNode(atoms)
    BY <1>1
  <2>2. nn + k - 1 = nn + l - 1
    BY <1>4, <1>8, <2>1
  <2>3. QED
    BY <1>1, <2>2
<1>9. ASSUME NEW k \in 1..N PROVE new[k].atom \notin AtomIds(atoms)
  BY <1>3, <1>4, <1>5
<1>10. QED
  BY <1>2, <1>4, <1>7, <1>8, <1>9 DEF new, Distinct

\* A generation that extends a sound state leaves it sound.
LEMMA LineageGrows ==
  ASSUME NEW s \in States, NEW g \in Generations, WellMade(g), Extending(s, g),
         LineageOf(s.atoms, s.edges)
  PROVE  LineageOf(Apply(s, g).atoms, Apply(s, g).edges)
<1> DEFINE A == s.atoms
           B == g.new
           AB == A \o B
           E == s.edges
           e == [old |-> g.req.old, new |-> g.new[1].atom]
           E2 == IF g.req.kind = "update" THEN Append(E, e) ELSE E
<1>1. A \in Seq(AtomRecs) /\ B \in Seq(AtomRecs) /\ E \in Seq(Edges)
  BY DEF States, Generations
<1>2. Apply(s, g).atoms = AB /\ Apply(s, g).edges = E2
  BY DEF Apply
<1>3. /\ Len(A) \in Nat /\ Len(B) \in Nat /\ Len(AB) = Len(A) + Len(B) /\ Len(B) >= 1
      /\ \A i \in 1..Len(A) : AB[i] = A[i]
      /\ \A i \in 1..Len(AB) : i \notin 1..Len(A) => i - Len(A) \in 1..Len(B) /\ AB[i] = B[i - Len(A)]
  <2>1. Len(B) >= 1
    BY DEF WellMade
  <2> HIDE DEF A, B
  <2>2. QED
    BY <1>1, <2>1, ConcatAt
<1>4. /\ \A i \in 1..Len(A) : A[i].node < NextNode(A) /\ A[i].node \in Nat /\ A[i].atom \in AtomIds(A)
      /\ \A i \in 1..Len(B) : B[i].node >= NextNode(A) /\ B[i].atom \notin AtomIds(A)
      /\ NextNode(A) \in Nat
  BY <1>1, NextNodeAbove, NextNodeType DEF Extending, AtomIds
<1>5. \A i \in 1..Len(B) : B[i].node \in Nat
  <2>1. \A x \in AtomRecs : x.node \in Nat
    BY DEF AtomRecs
  <2> HIDE DEF B
  <2>2. QED
    BY <1>1, <2>1
<1>6. Distinct(A) /\ Distinct(B)
  BY DEF LineageOf, Extending
<1>e. g.req.kind = "update" => Len(B) = 1
  BY DEF WellMade
<1>u. g.req.kind = "update" => /\ \E p \in 1..Len(A) : A[p].atom = g.req.old
                               /\ \A i \in 1..Len(E) : E[i].old # g.req.old
  BY DEF Extending, AtomIds, Superseded
<1>l. \A i \in 1..Len(E) :
          /\ \E p, q \in 1..Len(A) :
                p < q /\ A[p].atom = E[i].old /\ A[q].atom = E[i].new
          /\ \A j \in 1..Len(E) : E[i].old = E[j].old => i = j
  BY DEF LineageOf
<1>b. /\ E2 \in Seq(Edges) \cup {E2}
      /\ g.req.kind = "update" => /\ Len(E2) = Len(E) + 1 /\ E2[Len(E) + 1] = e
                                  /\ \A i \in 1..Len(E) : E2[i] = E[i]
      /\ g.req.kind # "update" => E2 = E
      /\ e.old = g.req.old /\ e.new = B[1].atom /\ Len(E) \in Nat
  BY <1>1
<1> HIDE DEF A, B, AB, E, e, E2
<1>7. Distinct(AB)
  <2> SUFFICES ASSUME NEW i \in 1..Len(AB), NEW j \in 1..Len(AB),
                      AB[i].atom = AB[j].atom \/ AB[i].node = AB[j].node
               PROVE  i = j
    BY DEF Distinct
  <2>1. CASE i \in 1..Len(A) /\ j \in 1..Len(A)
    BY <1>3, <1>6, <2>1 DEF Distinct
  <2>2. CASE i \in 1..Len(A) /\ j \notin 1..Len(A)
    <3>1. PICK k \in 1..Len(B) : k = j - Len(A)
      BY <1>3, <2>2
    <3>2. AB[i] = A[i] /\ AB[j] = B[k]
      BY <1>3, <2>2, <3>1
    <3>3. A[i].atom # B[k].atom
      BY <1>4, <2>2
    <3>4. A[i].node # B[k].node
      BY <1>4, <1>5, <2>2
    <3>5. QED
      BY <3>2, <3>3, <3>4
  <2>3. CASE i \notin 1..Len(A) /\ j \in 1..Len(A)
    <3>1. PICK k \in 1..Len(B) : k = i - Len(A)
      BY <1>3, <2>3
    <3>2. AB[j] = A[j] /\ AB[i] = B[k]
      BY <1>3, <2>3, <3>1
    <3>3. A[j].atom # B[k].atom
      BY <1>4, <2>3
    <3>4. A[j].node # B[k].node
      BY <1>4, <1>5, <2>3
    <3>5. QED
      BY <3>2, <3>3, <3>4
  <2>4. CASE i \notin 1..Len(A) /\ j \notin 1..Len(A)
    <3>1. PICK k \in 1..Len(B) : k = i - Len(A) /\ AB[i] = B[k]
      BY <1>3, <2>4
    <3>2. PICK l \in 1..Len(B) : l = j - Len(A) /\ AB[j] = B[l]
      BY <1>3, <2>4
    <3>3. k = l
      BY <1>6, <3>1, <3>2 DEF Distinct
    <3>4. QED
      BY <1>3, <3>1, <3>2, <3>3
  <2>5. QED
    BY <2>1, <2>2, <2>3, <2>4
<1>8. ASSUME NEW i \in 1..Len(E2)
      PROVE  \E p, q \in 1..Len(AB) :
                p < q /\ AB[p].atom = E2[i].old /\ AB[q].atom = E2[i].new
  <2>1. CASE i \in 1..Len(E) /\ E2[i] = E[i]
    <3>1. PICK p \in 1..Len(A), q \in 1..Len(A) :
                p < q /\ A[p].atom = E[i].old /\ A[q].atom = E[i].new
      BY <1>l, <2>1
    <3>2. p \in 1..Len(AB) /\ q \in 1..Len(AB) /\ AB[p] = A[p] /\ AB[q] = A[q]
      BY <1>3
    <3>3. QED
      BY <2>1, <3>1, <3>2
  <2>2. CASE g.req.kind = "update" /\ i = Len(E) + 1
    <3>1. PICK p \in 1..Len(A) : A[p].atom = e.old
      BY <1>u, <1>b, <2>2
    <3>2. p \in 1..Len(AB) /\ AB[p] = A[p] /\ Len(AB) \in 1..Len(AB) /\ p < Len(AB)
      BY <1>3
    <3>3. AB[Len(AB)] = B[1]
      <4>1. Len(AB) = Len(A) + 1 /\ Len(AB) \notin 1..Len(A) /\ Len(AB) - Len(A) = 1
        <5>1. PICK a \in Nat : a = Len(A)
          BY <1>3
        <5>2. Len(B) = 1 /\ Len(AB) = a + Len(B)
          BY <1>3, <1>e, <2>2, <5>1
        <5>3. QED
          BY <5>1, <5>2
      <4>2. QED
        BY <1>3, <3>2, <4>1
    <3>4. E2[i] = e /\ e.new = B[1].atom
      BY <1>b, <2>2
    <3>5. QED
      BY <3>1, <3>2, <3>3, <3>4
  <2>3. QED
    BY <1>b, <2>1, <2>2
<1>9. ASSUME NEW i \in 1..Len(E2), NEW j \in 1..Len(E2), E2[i].old = E2[j].old PROVE i = j
  <2>1. CASE i \in 1..Len(E) /\ j \in 1..Len(E)
    BY <1>b, <1>l, <1>9, <2>1
  <2>2. CASE ~(i \in 1..Len(E) /\ j \in 1..Len(E))
    <3>1. g.req.kind = "update"
      BY <1>b, <2>2
    <3>2. i = Len(E) + 1 \/ j = Len(E) + 1
      BY <1>b, <2>2, <3>1
    <3>3. ASSUME NEW k \in 1..Len(E) PROVE E2[k].old # e.old
      BY <1>u, <1>b, <3>1
    <3>4. \A k \in 1..Len(E2) : k \in 1..Len(E) \/ k = Len(E) + 1
      BY <1>b, <3>1
    <3>5. E2[Len(E) + 1] = e
      BY <1>b, <3>1
    <3>6. QED
      BY <1>9, <3>2, <3>3, <3>4, <3>5
  <2>3. QED
    BY <2>1, <2>2
<1>10. LineageOf(AB, E2)
  BY <1>7, <1>8, <1>9 DEF LineageOf
<1>11. QED
  BY <1>2, <1>10

-----------------------------------------------------------------------------
(* Generations planned on what is committed *)

\* What the first k generations commit to each live file.
FileOf(G, t, k) ==
    CASE t = "index"   -> StateOf(G, k).atoms
      [] t = "history" -> StateOf(G, k).history
      [] t = "sources" -> LinksOf(G, k)
      [] t \in {"current", "graph"} -> StateOf(G, k).edges

\* What the plan of an update says of its components.
PlannedUpdate(s, k, g) ==
    /\ g.comp.history = <<Event(g.tx, k)>>
    /\ Len(g.comp.sources) = 1 /\ g.comp.sources[1].atom = g.new[1].atom
    /\ g.comp.current = Apply(s, g).edges /\ g.comp.graph = Apply(s, g).edges
    /\ g.old = Lookup(s.atoms, g.req.old)
    /\ g.new[1].node = NextNode(s.atoms)

\* What the plan of an ingest says of its components; an ingest is only planned
\* while no update has written provenance.
PlannedIngest(s, links, k, g) ==
    /\ g.comp.history = Apply(s, g).history
    /\ g.comp.sources = << >> /\ links = << >>
    /\ g.req.kind = "direct" => k = 1

\* A generation is what its operation plans in the state s with the segment pre
\* and the provenance file links.
PlannedFrom(s, pre, links, k, g) ==
    /\ Extending(s, g)
    /\ g.pre = pre
    /\ g.comp.index = Apply(s, g).atoms
    /\ g.digest = Digest(Apply(s, g).n, Apply(s, g).atoms, Apply(s, g).edges,
                         Apply(s, g).history, links \o g.comp.sources)
    /\ g.req.kind = "update" => PlannedUpdate(s, k, g)
    /\ g.req.kind # "update" => PlannedIngest(s, links, k, g)

Planned(G, k, g) ==
    PlannedFrom(StateOf(G, k - 1), SegOf(G, k - 1), LinksOf(G, k - 1), k, g)

\* Every generation was planned on exactly what the earlier ones commit.
PlannedAll(G) == \A k \in 1..Len(G) : Planned(G, k, G[k])

\* The parts of a generation.
LEMMA GenParts ==
  ASSUME NEW g \in Generations
  PROVE  /\ g.tx \in TxIds /\ g.req \in Requests /\ g.new \in Seq(AtomRecs)
         /\ g.comp.index \in Seq(AtomRecs) /\ g.comp.history \in Seq(Events)
         /\ g.comp.sources \in Seq(Links) /\ g.comp.current \in Seq(Edges)
         /\ g.comp.graph \in Seq(Edges) /\ g.pre \in Seq(Halves)
<1>1. /\ g.tx \in TxIds /\ g.req \in Requests /\ g.new \in Seq(AtomRecs)
      /\ g.comp \in Components /\ g.pre \in Seq(Halves)
  BY DEF Generations
<1>2. \A c \in Components :
         /\ c.index \in Seq(AtomRecs) /\ c.history \in Seq(Events) /\ c.sources \in Seq(Links)
         /\ c.current \in Seq(Edges) /\ c.graph \in Seq(Edges)
  BY DEF Components
<1>3. QED
  BY <1>1, <1>2

\* The members of a history.
LEMMA HistoryParts ==
  ASSUME NEW G \in Histories
  PROVE  /\ Len(G) \in Nat
         /\ \A i \in 1..Len(G) : G[i] \in Generations /\ WellMade(G[i])
  BY DEF Histories

\* A planned generation may join.
LEMMA PlannedGrows ==
  ASSUME NEW G \in Histories, PlannedAll(G), NEW g \in Generations, WellMade(g),
         Planned(G, Len(G) + 1, g)
  PROVE  PlannedAll(Append(G, g))
<1> DEFINE H == Append(G, g)
<1>1. /\ H \in Histories /\ Len(G) \in Nat /\ Len(H) = Len(G) + 1 /\ H[Len(G) + 1] = g
      /\ \A i \in 1..Len(G) : H[i] = G[i]
  BY Grown
<1>2. \A k \in 0..Len(G) : /\ StateOf(H, k) = StateOf(G, k) /\ SegOf(H, k) = SegOf(G, k)
                           /\ LinksOf(H, k) = LinksOf(G, k)
  BY Agree
<1> HIDE DEF H
<1>3. ASSUME NEW k \in 1..(Len(G) + 1), NEW x, Planned(G, k, x) PROVE Planned(H, k, x)
  <2>1. k - 1 \in 0..Len(G)
    BY <1>1
  <2>2. QED
    BY <1>2, <1>3, <2>1 DEF Planned
<1>4. ASSUME NEW k \in 1..Len(H) PROVE Planned(H, k, H[k])
  <2>1. k \in 1..(Len(G) + 1) /\ (k = Len(G) + 1 \/ k \in 1..Len(G))
    BY <1>1
  <2>2. Planned(G, k, H[k])
    BY <1>1, <2>1 DEF PlannedAll
  <2>3. QED
    BY <1>3, <2>1, <2>2
<1>5. QED
  BY <1>4 DEF PlannedAll, H

\* Sequences are equal when their elements are.
LEMMA SameSeq ==
  ASSUME NEW T, NEW a \in Seq(T), NEW b \in Seq(T), Len(a) = Len(b),
         \A i \in 1..Len(a) : a[i] = b[i]
  PROVE  a = b
  OBVIOUS

\* The event file lists one event per generation, in order.
LEMMA HistoryOf ==
  ASSUME NEW G \in Histories, NEW k \in 0..Len(G)
  PROVE  /\ StateOf(G, k).n = k
         /\ StateOf(G, k).history = [i \in 1..k |-> Event(G[i].tx, i)]
<1> DEFINE Ev(i) == Event(G[i].tx, i)
           Good(j) == StateOf(G, j).n = j /\ StateOf(G, j).history = [i \in 1..j |-> Ev(i)]
           T == {j \in 0..Len(G) : Good(j)}
<1>1. Len(G) \in Nat /\ \A i \in 1..Len(G) : G[i].tx \in TxIds
  BY HistoryParts, GenParts
<1>2. \A i \in 1..Len(G) : Ev(i) \in Events
  BY <1>1 DEF Event, Events
<1>3. Good(0)
  <2>1. StateOf(G, 0) = EmptyState
    BY StateOfStep
  <2>2. EmptyState.n = 0 /\ EmptyState.history = << >>
    BY DEF EmptyState
  <2> HIDE DEF Ev
  <2>3. [i \in 1..0 |-> Ev(i)] = << >>
    OBVIOUS
  <2>4. QED
    BY <2>1, <2>2, <2>3
<1>4. ASSUME NEW j \in 1..Len(G), Good(j - 1) PROVE Good(j)
  <2> DEFINE p == StateOf(G, j - 1)
  <2>1. /\ StateOf(G, j) = Apply(p, G[j]) /\ p.n = j - 1
        /\ p.history = [i \in 1..(j - 1) |-> Ev(i)]
    BY <1>4, StateOfStep
  <2>2. /\ StateOf(G, j).n = p.n + 1
        /\ StateOf(G, j).history = Append(p.history, Event(G[j].tx, p.n + 1))
    BY <2>1 DEF Apply
  <2>3. p.n + 1 = j
    BY <2>1
  <2> HIDE DEF p
  <2>4. Event(G[j].tx, p.n + 1) = Ev(j)
    BY <2>3
  <2> HIDE DEF Ev
  <2>5. Append([i \in 1..(j - 1) |-> Ev(i)], Ev(j)) = [i \in 1..j |-> Ev(i)]
    <3> DEFINE a == [i \in 1..(j - 1) |-> Ev(i)]
               b == [i \in 1..j |-> Ev(i)]
    <3>1. j - 1 \in Nat /\ j \in Nat /\ \A i \in 1..j : Ev(i) \in Events
      BY <1>1, <1>2
    <3>2. a \in Seq(Events) /\ Len(a) = j - 1 /\ b \in Seq(Events) /\ Len(b) = j
      <4>1. a \in [1..(j - 1) -> Events] /\ b \in [1..j -> Events]
        BY <3>1
      <4>2. a \in Seq(Events) /\ b \in Seq(Events)
        BY <3>1, <4>1, FunctionIsSeq
      <4>3. QED
        BY <3>1, <4>2
    <3>3. (\A i \in 1..(j - 1) : a[i] = Ev(i)) /\ \A i \in 1..j : b[i] = Ev(i)
      OBVIOUS
    <3> HIDE DEF a, b
    <3>4. /\ Append(a, Ev(j)) \in Seq(Events) /\ Len(Append(a, Ev(j))) = j
          /\ \A i \in 1..j : Append(a, Ev(j))[i] = Ev(i)
      BY <3>1, <3>2, <3>3
    <3>5. Append(a, Ev(j)) = b
      BY <3>2, <3>3, <3>4, SameSeq
    <3>6. QED
      BY <3>5 DEF a, b
  <2>6. QED
    BY <2>1, <2>2, <2>3, <2>4, <2>5
<1> HIDE DEF Good
<1>5. 0 \in T /\ \A j \in 1..Len(G) : j - 1 \in T => j \in T
  BY <1>1, <1>3, <1>4
<1>6. k \in T
  <2> HIDE DEF T
  <2>1. QED
    BY <1>1, <1>5, Upto
<1>7. QED
  BY <1>6 DEF Good

\* Planned generations commit sound chains.
LEMMA LineageOfAll ==
  ASSUME NEW G \in Histories, PlannedAll(G), NEW k \in 0..Len(G)
  PROVE  LineageOf(StateOf(G, k).atoms, StateOf(G, k).edges)
<1> DEFINE Good(j) == LineageOf(StateOf(G, j).atoms, StateOf(G, j).edges)
           T == {j \in 0..Len(G) : Good(j)}
<1>1. Len(G) \in Nat
  BY DEF Histories
<1>2. Good(0)
  <2>1. StateOf(G, 0).atoms = << >> /\ StateOf(G, 0).edges = << >>
    BY StateOfStep DEF EmptyState
  <2>2. LineageOf(<< >>, << >>)
    BY DEF LineageOf, Distinct
  <2>3. QED
    BY <2>1, <2>2
<1>3. ASSUME NEW j \in 1..Len(G), Good(j - 1) PROVE Good(j)
  <2>1. /\ StateOf(G, j) = Apply(StateOf(G, j - 1), G[j]) /\ StateOf(G, j - 1) \in States
        /\ G[j] \in Generations /\ WellMade(G[j])
    BY StateOfStep DEF Histories
  <2>2. Extending(StateOf(G, j - 1), G[j])
    BY DEF PlannedAll, Planned, PlannedFrom
  <2>3. QED
    BY <1>3, <2>1, <2>2, LineageGrows
<1> HIDE DEF Good
<1>4. 0 \in T /\ \A j \in 1..Len(G) : j - 1 \in T => j \in T
  BY <1>1, <1>2, <1>3
<1>5. k \in T
  <2> HIDE DEF T
  <2>1. QED
    BY <1>1, <1>4, Upto
<1>6. QED
  BY <1>5 DEF Good

\* The provenance file names committed atoms only.
LEMMA LinksCommitted ==
  ASSUME NEW G \in Histories, PlannedAll(G), NEW k \in 0..Len(G)
  PROVE  \A i \in 1..Len(LinksOf(G, k)) : LinksOf(G, k)[i].atom \in AtomIds(StateOf(G, k).atoms)
<1> DEFINE Good(j) ==
       \A i \in 1..Len(LinksOf(G, j)) : LinksOf(G, j)[i].atom \in AtomIds(StateOf(G, j).atoms)
           T == {j \in 0..Len(G) : Good(j)}
<1>1. Len(G) \in Nat
  BY DEF Histories
<1>2. Good(0)
  <2>1. LinksOf(G, 0) = << >>
    BY LinksOfStep
  <2>2. QED
    BY <2>1
<1>3. ASSUME NEW j \in 1..Len(G), Good(j - 1) PROVE Good(j)
  <2> DEFINE L == LinksOf(G, j - 1)
             A == StateOf(G, j - 1).atoms
             g == G[j]
  <2>1. /\ g \in Generations /\ WellMade(g) /\ StateOf(G, j - 1) \in States
        /\ StateOf(G, j).atoms = A \o g.new
    <3>1. g \in Generations /\ WellMade(g) /\ j - 1 \in 0..Len(G)
      BY HistoryParts
    <3>2. StateOf(G, j) = Apply(StateOf(G, j - 1), g) /\ StateOf(G, j - 1) \in States
      BY <3>1, StateOfStep
    <3>3. \A p, x : Apply(p, x).atoms = p.atoms \o x.new
      BY DEF Apply
    <3>4. QED
      BY <3>1, <3>2, <3>3
  <2>2. A \in Seq(AtomRecs) /\ g.new \in Seq(AtomRecs) /\ Len(g.new) >= 1 /\ g.comp.sources \in Seq(Links)
    BY <2>1, GenParts DEF States, WellMade
  <2>3. L \in Seq(Links)
    <3>1. j - 1 \in 0..Len(G)
      BY <1>1
    <3>2. QED
      BY <3>1, LinksOfStep
  <2>4. LinksOf(G, j) = IF g.req.kind = "update" THEN L \o g.comp.sources ELSE L
    BY LinksOfStep
  <2>5. g.req.kind = "update" => Len(g.comp.sources) = 1 /\ g.comp.sources[1].atom = g.new[1].atom
    BY DEF PlannedAll, Planned, PlannedFrom, PlannedUpdate
  <2>6. \A i \in 1..Len(L) : L[i].atom \in AtomIds(A)
    BY <1>3
  <2> DEFINE B == g.new
             S == g.comp.sources
  <2> HIDE DEF L, A, B, S
  <2>7. AtomIds(A) \subseteq AtomIds(A \o B) /\ B[1].atom \in AtomIds(A \o B)
    <3>1. /\ Len(A) \in Nat /\ Len(B) \in Nat /\ Len(A \o B) = Len(A) + Len(B) /\ Len(B) >= 1
          /\ \A i \in 1..Len(A) : (A \o B)[i] = A[i]
          /\ \A i \in 1..Len(B) : (A \o B)[Len(A) + i] = B[i]
      BY <2>2, ConcatAt DEF B
    <3>2. /\ \A i \in 1..Len(A) : i \in 1..Len(A \o B)
          /\ 1 \in 1..Len(B) /\ Len(A) + 1 \in 1..Len(A \o B)
      BY <3>1
    <3>3. (A \o B)[Len(A) + 1] = B[1]
      BY <3>1, <3>2
    <3>4. B[1].atom \in AtomIds(A \o B)
      BY <3>2, <3>3 DEF AtomIds
    <3>5. AtomIds(A) \subseteq AtomIds(A \o B)
      BY <3>1, <3>2 DEF AtomIds
    <3>6. QED
      BY <3>4, <3>5
  <2>8. ASSUME NEW i \in 1..Len(LinksOf(G, j))
        PROVE  LinksOf(G, j)[i].atom \in AtomIds(A \o B)
    <3>1. CASE g.req.kind # "update"
      BY <2>4, <2>6, <2>7, <2>8, <3>1
    <3>2. CASE g.req.kind = "update"
      <4>1. LinksOf(G, j) = L \o S /\ S \in Seq(Links) /\ Len(S) = 1 /\ S[1].atom = B[1].atom
        BY <2>2, <2>4, <2>5, <3>2 DEF S, B
      <4>2. /\ \A l \in 1..Len(L) : (L \o S)[l] = L[l]
            /\ \A l \in 1..Len(L \o S) : l \notin 1..Len(L) =>
                 l - Len(L) \in 1..Len(S) /\ (L \o S)[l] = S[l - Len(L)]
        <5>1. L \in Seq(Links) /\ S \in Seq(Links)
          BY <2>3, <4>1
        <5>2. QED
          BY <5>1, ConcatAt
      <4>3. CASE i \in 1..Len(L)
        BY <2>6, <2>7, <4>1, <4>2, <4>3
      <4>4. CASE i \notin 1..Len(L)
        <5>1. i - Len(L) = 1
          BY <4>1, <4>2, <4>4, SMTT(60)
        <5>2. (L \o S)[i] = S[1]
          BY <4>1, <4>2, <4>4, <5>1
        <5>3. QED
          BY <2>7, <4>1, <5>2
      <4>5. QED
        BY <4>3, <4>4
    <3>3. QED
      BY <3>1, <3>2
  <2>9. QED
    BY <2>1, <2>8 DEF A, B
<1> HIDE DEF Good
<1>4. 0 \in T /\ \A j \in 1..Len(G) : j - 1 \in T => j \in T
  BY <1>1, <1>2, <1>3
<1>5. k \in T
  <2> HIDE DEF T
  <2>1. QED
    BY <1>1, <1>4, Upto
<1>6. QED
  BY <1>5 DEF Good

\* Provenance comes from updates.
LEMMA LinksOfUpdates ==
  ASSUME NEW G \in Histories, NEW k \in 0..Len(G), LinksOf(G, k) # << >>
  PROVE  \E i \in 1..k : G[i].req.kind = "update"
<1> DEFINE T == {j \in 0..Len(G) : LinksOf(G, j) # << >> => \E i \in 1..j : G[i].req.kind = "update"}
<1>1. Len(G) \in Nat
  BY DEF Histories
<1>2. 0 \in T
  <2>1. LinksOf(G, 0) = << >>
    BY LinksOfStep
  <2>2. 0 \in 0..Len(G)
    BY <1>1
  <2>3. QED
    BY <2>1, <2>2
<1>3. ASSUME NEW j \in 1..Len(G), j - 1 \in T PROVE j \in T
  <2>1. j \in 0..Len(G) /\ \A i \in 1..(j - 1) : i \in 1..j
    BY <1>1
  <2>2. CASE G[j].req.kind = "update"
    <3>1. j \in 1..j
      BY <1>1
    <3>2. QED
      BY <2>1, <2>2, <3>1
  <2>3. CASE G[j].req.kind # "update"
    <3>1. LinksOf(G, j) = LinksOf(G, j - 1)
      BY <2>3, LinksOfStep
    <3>2. QED
      BY <1>3, <2>1, <3>1
  <2>4. QED
    BY <2>2, <2>3
<1>4. k \in T
  <2> HIDE DEF T
  <2>1. QED
    BY <1>1, <1>2, <1>3, Upto
<1>5. QED
  BY <1>4

\* The segment of an earlier generation is a prefix of the later one.
LEMMA SegPrefix ==
  ASSUME NEW G \in Histories, NEW k \in 0..Len(G)
  PROVE  /\ Len(SegOf(G, k)) <= Len(SegOf(G, Len(G)))
         /\ \A i \in 1..Len(SegOf(G, k)) : SegOf(G, Len(G))[i] = SegOf(G, k)[i]
<1> DEFINE P(a, b) == Len(a) <= Len(b) /\ \A i \in 1..Len(a) : b[i] = a[i]
           N == Len(G)
           T == {j \in 0..N : k <= j => P(SegOf(G, k), SegOf(G, j))}
<1>1. N \in Nat /\ k \in 0..N
  BY DEF Histories
<1>2. \A j \in 0..N : SegOf(G, j) \in Seq(Halves)
  BY SegOfStep
<1>3. \A a \in Seq(Halves) : P(a, a)
  OBVIOUS
<1>4. ASSUME NEW a \in Seq(Halves), NEW b \in Seq(Halves), NEW c \in Seq(Halves), P(a, b), P(b, c)
      PROVE  P(a, c)
  BY <1>4
<1>5. ASSUME NEW j \in 1..N PROVE P(SegOf(G, j - 1), SegOf(G, j))
  <2> DEFINE a == SegOf(G, j - 1)
             b == Chunks(G[j].new)
  <2>1. SegOf(G, j) = IF G[j].req.kind = "update" THEN a ELSE a \o b
    BY SegOfStep
  <2>2. a \in Seq(Halves) /\ b \in Seq(Halves)
    <3>1. G[j].new \in Seq(AtomRecs) /\ j - 1 \in 0..N
      BY <1>1, HistoryParts, GenParts
    <3>2. QED
      BY <1>2, <3>1, ChunksType
  <2> HIDE DEF a, b, P
  <2>3. P(a, a) /\ P(a, a \o b)
    <3>1. Len(a) \in Nat /\ Len(b) \in Nat /\ Len(a \o b) = Len(a) + Len(b)
          /\ \A i \in 1..Len(a) : (a \o b)[i] = a[i]
      BY <2>2, ConcatAt
    <3>2. QED
      BY <1>3, <2>2, <3>1 DEF P
  <2>4. QED
    BY <2>1, <2>3 DEF a
<1> HIDE DEF P
<1>6. 0 \in T
  <2>1. k <= 0 => k = 0
    BY <1>1
  <2>2. QED
    BY <1>1, <1>2, <1>3, <2>1
<1>7. ASSUME NEW j \in 1..N, j - 1 \in T PROVE j \in T
  <2>1. j \in 0..N /\ j - 1 \in 0..N
    BY <1>1
  <2>2. CASE k <= j - 1
    BY <1>1, <1>2, <1>4, <1>5, <1>7, <2>1, <2>2
  <2>3. CASE ~(k <= j - 1)
    <3>1. k <= j => k = j
      BY <1>1, <2>3
    <3>2. QED
      BY <1>1, <1>2, <1>3, <2>1, <3>1
  <2>4. QED
    BY <2>2, <2>3
<1>8. N \in T
  <2> HIDE DEF T
  <2>1. N \in 0..N
    BY <1>1
  <2>2. QED
    BY <1>1, <1>6, <1>7, <2>1, Upto
<1>9. QED
  BY <1>1, <1>8 DEF P

-----------------------------------------------------------------------------
(* Planning and replay *)

\* Every live file is at its version after generation k.
AllLive(k) == \A t \in Targets : LiveRecords(t) = FileOf(gens, t, k)

\* The records of the live files.
LEMMA LiveParts ==
  ASSUME live \in LiveFiles
  PROVE  /\ live.index \in Seq(AtomRecs) /\ LiveRecords("index") = live.index
         /\ live.history \in Seq(Events) /\ LiveRecords("history") = live.history
         /\ live.current \in Seq(Edges) /\ LiveRecords("current") = live.current
         /\ live.graph \in Seq(Edges) /\ LiveRecords("graph") = live.graph
         /\ LiveRecords("sources") \in Seq(Links) /\ LiveRecords("sources") = Sources
         /\ live.sources # NoFile => LiveRecords("sources") = live.sources
<1>1. /\ live.index \in Seq(AtomRecs) /\ live.history \in Seq(Events)
      /\ live.current \in Seq(Edges) /\ live.graph \in Seq(Edges)
      /\ live.sources \in Seq(Links) \cup {NoFile}
  BY DEF LiveFiles
<1>2. /\ live.index # NoFile /\ live.history # NoFile
      /\ live.current # NoFile /\ live.graph # NoFile
  BY <1>1, FileAssumption
<1>3. QED
  BY <1>1, <1>2 DEF LiveRecords, Sources

\* Appending is concatenating a singleton.
LEMMA AppendIsConcat ==
  ASSUME NEW T, NEW a \in Seq(T), NEW x \in T
  PROVE  a \o <<x>> = Append(a, x)
  OBVIOUS

\* production_plan_update plans on the committed state: the live provenance file
\* it hashes is the committed one.
LEMMA UpdatePlanned ==
  ASSUME TypeInv, LedgerInv, pc = "stage", step = 1, op.req.kind = "update",
         rt = StateOf(gens, Len(gens)), seg = SegOf(gens, Len(gens)), AllLive(Len(gens))
  PROVE  Planned(gens, Len(gens) + 1, UpdatePlan(op.tx, op.req))
<1> DEFINE g == UpdatePlan(op.tx, op.req)
           s == rt
           succ == [atom |-> AtomOf[op.req.items[1]], body |-> op.req.items[1],
                    node |-> NextNode(s.atoms), prov |-> op.req.prov]
           spv == [atom |-> succ.atom, prov |-> succ.prov]
           event == Event(op.tx, s.n + 1)
           edge == [old |-> op.req.old, new |-> succ.atom]
<1>1. /\ Stages /\ ~Malformed /\ rt \in States /\ live \in LiveFiles /\ rt.n = Len(gens)
      /\ gens \in Seq(Generations)
  BY DEF TypeInv, StageTypes, DiskTypes, OwnerTypes, LedgerInv, PhaseInv
<1>2. op.tx \in TxIds /\ op.req \in Requests /\ op.req.items \in Seq(Bodies) /\ op.req.items # << >>
      /\ op.req.prov \in Provs \cup {ZeroProv} /\ op.req.old \in Atoms
  BY OpType, RequestParts
<1>3. /\ op.req.old \in AtomIds(s.atoms) /\ op.req.old \notin Superseded(s.edges)
      /\ succ.atom \notin AtomIds(s.atoms)
  BY <1>1 DEF Stages
<1>4. /\ s.atoms \in Seq(AtomRecs) /\ s.edges \in Seq(Edges) /\ s.history \in Seq(Events)
      /\ s.n \in Nat /\ NextNode(s.atoms) \in Nat
  BY <1>1, NextNodeType DEF States
<1>5. op.req.items[1] \in Bodies /\ AtomOf[op.req.items[1]] \in Atoms
  <2>1. op.req.items[1] \in Bodies
    BY <1>2
  <2>2. QED
    BY <1>1, <2>1, AtomOfAssumption DEF Malformed, ValidItem
<1>6. succ \in AtomRecs /\ spv \in Links
  BY <1>2, <1>4, <1>5 DEF AtomRecs, Links
<1>7. /\ g.tx = op.tx /\ g.req = op.req /\ g.new = <<succ>> /\ g.old = Lookup(s.atoms, op.req.old)
      /\ g.pre = seg
      /\ g.comp.index = Append(s.atoms, succ) /\ g.comp.history = <<event>>
      /\ g.comp.sources = <<spv>>
      /\ g.comp.current = Append(s.edges, edge) /\ g.comp.graph = Append(s.edges, edge)
      /\ g.digest = Digest(s.n + 1, Append(s.atoms, succ), Append(s.edges, edge),
                           Append(s.history, event), Append(Sources, spv))
  BY DEF UpdatePlan
<1>8. succ.node = NextNode(s.atoms) /\ spv.atom = succ.atom
  OBVIOUS
<1> HIDE DEF g, s, succ, spv
<1>9. s.atoms \o <<succ>> = Append(s.atoms, succ)
  BY <1>4, <1>6, AppendIsConcat
<1>10. g.new[1] = succ /\ Len(g.new) = 1
  BY <1>7
<1>11. /\ Apply(s, g).n = s.n + 1 /\ Apply(s, g).atoms = Append(s.atoms, succ)
       /\ Apply(s, g).edges = Append(s.edges, edge)
       /\ Apply(s, g).history = Append(s.history, event)
  <2>1. /\ Apply(s, g).n = s.n + 1 /\ Apply(s, g).atoms = s.atoms \o g.new
        /\ Apply(s, g).edges = IF g.req.kind = "update"
               THEN Append(s.edges, [old |-> g.req.old, new |-> g.new[1].atom])
               ELSE s.edges
        /\ Apply(s, g).history = Append(s.history, Event(g.tx, s.n + 1))
    BY DEF Apply
  <2>2. QED
    BY <1>7, <1>9, <1>10, <2>1
<1>12. Extending(s, g)
  <2>1. Distinct(g.new)
    BY <1>10 DEF Distinct
  <2>2. \A i \in 1..Len(g.new) : g.new[i] = succ
    BY <1>10
  <2>3. QED
    BY <1>3, <1>4, <1>7, <1>8, <2>1, <2>2, SMTT(60) DEF Extending
<1>13. LinksOf(gens, Len(gens)) = Sources /\ Sources \in Seq(Links)
  <2>1. FileOf(gens, "sources", Len(gens)) = LinksOf(gens, Len(gens))
    BY DEF FileOf
  <2>2. "sources" \in Targets
    BY DEF Targets
  <2>3. QED
    BY <1>1, <2>1, <2>2, LiveParts DEF AllLive
<1>14. Sources \o g.comp.sources = Append(Sources, spv)
  BY <1>6, <1>7, <1>13, AppendIsConcat
<1>15. PlannedUpdate(s, Len(gens) + 1, g)
  <2>1. event = Event(g.tx, Len(gens) + 1)
    BY <1>1, <1>7 DEF s
  <2>2. Len(g.comp.sources) = 1 /\ g.comp.sources[1].atom = g.new[1].atom
    BY <1>7, <1>8, <1>10
  <2>3. QED
    BY <1>7, <1>8, <1>10, <1>11, <2>1, <2>2 DEF PlannedUpdate
<1>16. PlannedFrom(s, seg, Sources, Len(gens) + 1, g)
  BY <1>7, <1>11, <1>12, <1>14, <1>15 DEF PlannedFrom
<1>17. Len(gens) \in Nat /\ (Len(gens) + 1) - 1 = Len(gens)
  BY <1>1
<1>18. QED
  BY <1>13, <1>16, <1>17 DEF Planned, s, g

\* So do the ingests, which are admitted only while there is no provenance file.
LEMMA IngestPlanned ==
  ASSUME TypeInv, LedgerInv, pc = "stage", step = 1, op.req.kind # "update",
         rt = StateOf(gens, Len(gens)), seg = SegOf(gens, Len(gens)), AllLive(Len(gens)),
         gens \in Histories
  PROVE  Planned(gens, Len(gens) + 1, IngestPlan(op.tx, op.req))
<1> DEFINE g == IngestPlan(op.tx, op.req)
           s == rt
           new == NewAtoms(s.atoms, op.req.items)
           event == Event(op.tx, s.n + 1)
<1>1. /\ Stages /\ rt \in States /\ live \in LiveFiles /\ rt.n = Len(gens)
      /\ gens \in Seq(Generations)
  BY DEF TypeInv, StageTypes, DiskTypes, OwnerTypes, LedgerInv, PhaseInv
<1>2. op.req.items \in Seq(Bodies) /\ op.req.kind \in {"direct", "batch"}
  BY OpType, RequestParts DEF Kinds
<1>4. s.atoms \in Seq(AtomRecs) /\ s.n \in Nat /\ NextNode(s.atoms) \in Nat
  BY <1>1, NextNodeType DEF States
<1>5. /\ g.tx = op.tx /\ g.req = op.req /\ g.new = new
      /\ g.pre = seg
      /\ g.comp.index = s.atoms \o new /\ g.comp.history = Append(live.history, event)
      /\ g.comp.sources = << >>
      /\ g.digest = Digest(s.n + 1, s.atoms \o new, s.edges, Append(s.history, event), << >>)
  BY DEF IngestPlan
<1>6. /\ \A k \in 1..Len(new) : /\ new[k].atom \notin AtomIds(s.atoms)
                                /\ new[k].node = NextNode(s.atoms) + k - 1
      /\ Distinct(new)
  BY <1>2, <1>4, NewAtomsFresh
<1>7. new \in Seq(AtomRecs)
  BY <1>2, <1>4, NewAtomsType
<1> HIDE DEF g, s, new
<1>8. /\ Apply(s, g).n = s.n + 1 /\ Apply(s, g).atoms = s.atoms \o new
      /\ Apply(s, g).edges = s.edges
      /\ Apply(s, g).history = Append(s.history, event)
  <2>1. /\ Apply(s, g).n = s.n + 1 /\ Apply(s, g).atoms = s.atoms \o g.new
        /\ Apply(s, g).edges = IF g.req.kind = "update"
               THEN Append(s.edges, [old |-> g.req.old, new |-> g.new[1].atom])
               ELSE s.edges
        /\ Apply(s, g).history = Append(s.history, Event(g.tx, s.n + 1))
    BY DEF Apply
  <2>2. QED
    BY <1>5, <2>1
<1>9. Extending(s, g)
  <2>1. \A k \in 1..Len(new) : new[k].node >= NextNode(s.atoms)
    <3>1. \A k \in 1..Len(new) : k \in Nat /\ k >= 1
      BY <1>7
    <3>2. QED
      BY <1>4, <1>6, <3>1
  <2>2. QED
    BY <1>5, <1>6, <2>1 DEF Extending
<1>10. live.history = s.history
  <2>1. FileOf(gens, "history", Len(gens)) = s.history /\ "history" \in Targets
    BY DEF FileOf, s, Targets
  <2>2. QED
    BY <1>1, <2>1, LiveParts DEF AllLive
<1>11. LinksOf(gens, Len(gens)) = << >>
  <2>1. CASE op.req.kind = "batch"
    <3>1. live.sources = NoFile
      BY <1>1, <2>1 DEF Stages, BatchAdmitted, AnchorsAbsent
    <3>2. LiveRecords("sources") = << >>
      BY <3>1 DEF LiveRecords
    <3>3. FileOf(gens, "sources", Len(gens)) = LinksOf(gens, Len(gens)) /\ "sources" \in Targets
      BY DEF FileOf, Targets
    <3>4. QED
      BY <3>2, <3>3 DEF AllLive
  <2>2. CASE op.req.kind = "direct"
    <3>1. Len(gens) = 0
      BY <1>1, <2>2 DEF Stages
    <3>2. QED
      BY <3>1, LinksOfStep
  <2>3. QED
    BY <1>2, <2>1, <2>2
<1>12. op.req.kind = "direct" => Len(gens) + 1 = 1
  BY <1>1 DEF Stages
<1>13. PlannedIngest(s, << >>, Len(gens) + 1, g)
  BY <1>5, <1>8, <1>10, <1>12 DEF PlannedIngest
<1>14. << >> \o g.comp.sources = << >>
  BY <1>5
<1>15. PlannedFrom(s, seg, << >>, Len(gens) + 1, g)
  BY <1>5, <1>8, <1>9, <1>13, <1>14 DEF PlannedFrom
<1>16. Len(gens) \in Nat /\ (Len(gens) + 1) - 1 = Len(gens)
  BY <1>1
<1>17. QED
  BY <1>11, <1>15, <1>16 DEF Planned, s, g

\* Everything a replay checks of a planned generation holds.
LEMMA Replays ==
  ASSUME gens \in Histories, PlannedAll(gens), OneGenerationPerTx, seg = SegOf(gens, Len(gens)),
         NEW k \in 1..Len(gens)
  PROVE  Lineage(StateOf(gens, k - 1), gens[k])
<1> DEFINE s == StateOf(gens, k - 1)
           g == gens[k]
<1>1. /\ Len(gens) \in Nat /\ g \in Generations /\ WellMade(g) /\ k - 1 \in 0..Len(gens)
  BY HistoryParts
<1>2. PlannedFrom(s, SegOf(gens, k - 1), LinksOf(gens, k - 1), k, g)
  BY DEF PlannedAll, Planned
<1>3. s \in States /\ s.n = k - 1
  BY <1>1, StateOfStep, HistoryOf
<1>4. g.req.kind \in Kinds
  BY <1>1, GenParts, RequestParts
<1>5. CASE g.req.kind = "direct"
  <2>1. k = 1
    BY <1>2, <1>5 DEF PlannedFrom, PlannedIngest
  <2>2. k - 1 = 0
    BY <2>1
  <2>3. s.atoms = << >>
    BY <2>2, StateOfStep, EmptyType
  <2>4. QED
    BY <1>5, <2>3 DEF Lineage
<1>6. CASE g.req.kind = "batch"
  <2> DEFINE p == SegOf(gens, k - 1)
  <2>1. g.pre = p
    BY <1>2 DEF PlannedFrom
  <2>2. p \in Seq(Halves) /\ seg \in Seq(Halves)
    <3>1. Len(gens) \in 0..Len(gens)
      BY <1>1
    <3>2. QED
      BY <1>1, <3>1, SegOfStep
  <2>3. Len(p) <= Len(seg) /\ \A i \in 1..Len(p) : seg[i] = p[i]
    BY <1>1, SegPrefix
  <2> HIDE DEF p
  <2>4. SubSeq(seg, 1, Len(p)) = p
    <3>1. SubSeq(seg, 1, Len(p)) \in Seq(Halves) /\ Len(SubSeq(seg, 1, Len(p))) = Len(p)
          /\ \A i \in 1..Len(p) : SubSeq(seg, 1, Len(p))[i] = seg[i]
      BY <2>2, <2>3
    <3>2. QED
      BY <2>2, <2>3, <3>1, SameSeq
  <2>5. QED
    BY <1>6, <2>1, <2>2, <2>3, <2>4 DEF Lineage
<1>7. CASE g.req.kind = "update"
  <2>1. Extending(s, g) /\ PlannedUpdate(s, k, g) /\ g.comp.index = Apply(s, g).atoms
    BY <1>2, <1>7 DEF PlannedFrom
  <2>2. \A i \in 1..s.n : gens[i].tx # g.tx
    <3>1. \A i \in 1..s.n : i \in 1..Len(gens) /\ i # k
      BY <1>1, <1>3
    <3>2. QED
      BY <3>1 DEF OneGenerationPerTx
  <2>3. g.new[1].atom \notin AtomIds(s.atoms)
    BY <1>1, <2>1 DEF Extending, WellMade
  <2> HIDE DEF s, g
  <2>4. g.req.old \in AtomIds(s.atoms) /\ g.req.old \notin Superseded(s.edges)
    BY <1>7, <2>1 DEF Extending
  <2>5. /\ Lookup(s.atoms, g.req.old) = g.old /\ g.new[1].node = NextNode(s.atoms)
        /\ g.comp.current = Apply(s, g).edges
    BY <2>1 DEF PlannedUpdate
  <2>6. Lineage(s, g)
    BY <1>7, <2>1, <2>2, <2>3, <2>4, <2>5 DEF Lineage
  <2>7. QED
    BY <2>6 DEF s, g
<1>8. QED
  BY <1>4, <1>5, <1>6, <1>7 DEF Kinds

\* Two updates are committed.
TwoUpdates == \E i, j \in 1..Len(gens) :
                 i # j /\ gens[i].req.kind = "update" /\ gens[j].req.kind = "update"

\* A digest that does not match takes a second update: the plan hashes the
\* provenance of all updates, the replay that of one.
LEMMA DigestFails ==
  ASSUME gens \in Histories, PlannedAll(gens), NEW k \in 1..Len(gens),
         ~DigestMatches(StateOf(gens, k - 1), gens[k])
  PROVE  TwoUpdates
<1> DEFINE s == StateOf(gens, k - 1)
           g == gens[k]
           links == LinksOf(gens, k - 1)
<1>1. /\ Len(gens) \in Nat /\ g \in Generations /\ k - 1 \in 0..Len(gens)
  BY HistoryParts
<1>2. PlannedFrom(s, SegOf(gens, k - 1), links, k, g)
  BY DEF PlannedAll, Planned
<1>3. g.comp.sources \in Seq(Links)
  BY <1>1, GenParts
<1>4. links # << >> /\ g.req.kind = "update"
  <2> DEFINE src == IF g.req.kind = "update" THEN g.comp.sources ELSE << >>
  <2>1. SUFFICES ASSUME ~(links # << >> /\ g.req.kind = "update") PROVE FALSE
    OBVIOUS
  <2>2. links = << >> /\ src = g.comp.sources
    BY <1>2, <2>1 DEF PlannedFrom, PlannedIngest
  <2>3. links \o g.comp.sources = src
    <3>1. \A x \in Seq(Links) : << >> \o x = x
      OBVIOUS
    <3>2. QED
      BY <1>3, <2>2, <3>1
  <2>4. g.digest = Digest(Apply(s, g).n, Apply(s, g).atoms, Apply(s, g).edges,
                         Apply(s, g).history, src)
    BY <1>2, <2>3 DEF PlannedFrom
  <2>5. DigestMatches(s, g)
    BY <2>4 DEF DigestMatches
  <2>6. QED
    BY <2>5
<1>5. PICK i \in 1..(k - 1) : gens[i].req.kind = "update"
  BY <1>1, <1>4, LinksOfUpdates
<1>6. i \in 1..Len(gens) /\ i # k
  BY <1>1
<1>7. QED
  BY <1>4, <1>5, <1>6 DEF TwoUpdates

-----------------------------------------------------------------------------
(* Installation of the head *)

\* The targets the head generation installs.
InList(t) == HeadGen.req.kind = "update" \/ t \in {"index", "history"}

\* What is known of an append-only file that holds the record or is about to.
LEMMA AppendsOnce ==
  ASSUME NEW T, NEW a \in Seq(T), NEW x \in T, x \notin Elems(a)
  PROVE  EndsWith(a \o <<x>>, x) /\ ~EndsWith(a, x) /\ a \o <<x>> # a
<1>1. a \o <<x>> = Append(a, x) /\ Append(a, x) \in Seq(T) /\ Len(Append(a, x)) = Len(a) + 1
      /\ Append(a, x)[Len(a) + 1] = x /\ Len(a) \in Nat
  OBVIOUS
<1>2. EndsWith(a \o <<x>>, x) /\ a \o <<x>> # a
  BY <1>1 DEF EndsWith
<1>3. ~EndsWith(a, x)
  <2>1. a # << >> => Len(a) \in 1..Len(a)
    OBVIOUS
  <2>2. QED
    BY <2>1 DEF EndsWith, Elems
<1>4. QED
  BY <1>2, <1>3

\* Whether a target is installed is decided correctly, and what is written to one
\* that is not is its committed version.
LEMMA HeadInstall ==
  ASSUME gens \in Histories, gens # << >>, PlannedAll(gens), live \in LiveFiles,
         NEW t \in Targets, InList(t),
         \/ LiveRecords(t) = FileOf(gens, t, Len(gens))
         \/ LiveRecords(t) = FileOf(gens, t, Len(gens) - 1)
  PROVE  /\ Installed(t) <=> LiveRecords(t) = FileOf(gens, t, Len(gens))
         /\ ~Installed(t) => ~OutOfOrder(t) /\ InstallBytes(t) = FileOf(gens, t, Len(gens))
<1> DEFINE n == Len(gens)
           s == StateOf(gens, n - 1)
           g == gens[n]
           links == LinksOf(gens, n - 1)
<1>1. n \in Nat /\ n \in 1..n /\ n - 1 \in 0..n /\ g \in Generations /\ WellMade(g) /\ HeadGen = g
  BY HistoryParts DEF HeadGen
<1>2. /\ s \in States /\ StateOf(gens, n) = Apply(s, g) /\ s.n = n - 1
      /\ s.history = [i \in 1..(n - 1) |-> Event(gens[i].tx, i)]
  BY <1>1, StateOfStep, HistoryOf
<1>3. PlannedFrom(s, SegOf(gens, n - 1), links, n, g)
  BY <1>1 DEF PlannedAll, Planned
<1>4. /\ links \in Seq(Links)
      /\ LinksOf(gens, n) = IF g.req.kind = "update" THEN links \o g.comp.sources ELSE links
      /\ \A i \in 1..Len(links) : links[i].atom \in AtomIds(s.atoms)
  BY <1>1, LinksOfStep, LinksCommitted
<1>5. CASE ~Appended(t)
  <2>1. g.comp[t] = FileOf(gens, t, n) /\ LiveRecords(t) = live[t]
    <3>1. CASE t = "index"
      <4>1. FileOf(gens, t, n) = Apply(s, g).atoms
        BY <1>2, <3>1 DEF FileOf
      <4>2. QED
        BY <1>3, <3>1, <4>1, LiveParts DEF PlannedFrom
    <3>2. CASE t = "history"
      <4>1. FileOf(gens, t, n) = Apply(s, g).history
        BY <1>2, <3>2 DEF FileOf
      <4>2. g.req.kind # "update"
        BY <1>1, <1>5, <3>2 DEF Appended
      <4>3. g.comp.history = Apply(s, g).history
        BY <1>3, <4>2 DEF PlannedFrom, PlannedIngest
      <4>4. QED
        BY <3>2, <4>1, <4>3, LiveParts
    <3>3. CASE t \in {"current", "graph"}
      <4>1. FileOf(gens, t, n) = Apply(s, g).edges
        BY <1>2, <3>3 DEF FileOf
      <4>2. g.req.kind = "update"
        BY <1>1, <3>3 DEF InList
      <4>3. g.comp.current = Apply(s, g).edges /\ g.comp.graph = Apply(s, g).edges
        BY <1>3, <4>2 DEF PlannedFrom, PlannedUpdate
      <4>4. CASE t = "current"
        BY <4>1, <4>3, <4>4, LiveParts
      <4>5. CASE t = "graph"
        BY <4>1, <4>3, <4>5, LiveParts
      <4>6. QED
        BY <3>3, <4>4, <4>5
    <3>4. t # "sources"
      BY <1>1, <1>5 DEF InList, Appended
    <3>5. QED
      BY <3>1, <3>2, <3>3, <3>4 DEF Targets
  <2>2. Installed(t) <=> live[t] = g.comp[t]
    BY <1>1, <1>5 DEF Installed
  <2>3. InstallBytes(t) = g.comp[t] /\ ~OutOfOrder(t)
    BY <1>1, <1>5 DEF InstallBytes, OutOfOrder
  <2>4. QED
    BY <2>1, <2>2, <2>3
<1>6. CASE Appended(t)
  <2>1. g.req.kind = "update" /\ t \in {"sources", "history"} /\ PlannedUpdate(s, n, g)
    BY <1>1, <1>3, <1>6 DEF Appended, PlannedFrom
  <2>2. \E T : \E a \in Seq(T), x \in T :
           /\ FileOf(gens, t, n - 1) = a /\ FileOf(gens, t, n) = a \o <<x>>
           /\ x \notin Elems(a) /\ g.comp[t] = <<x>>
    <3>1. CASE t = "history"
      <4> DEFINE x == Event(g.tx, n)
                 a == s.history
      <4>1. a \in Seq(Events) /\ g.tx \in TxIds
        BY <1>1, <1>2, GenParts DEF States
      <4>2. x \in Events
        BY <1>1, <4>1 DEF Event, Events
      <4>3. FileOf(gens, t, n - 1) = a /\ FileOf(gens, t, n) = Apply(s, g).history
        BY <1>2, <3>1 DEF FileOf
      <4>4. Apply(s, g).history = Append(a, Event(g.tx, s.n + 1))
        BY DEF Apply
      <4>5. s.n + 1 = n
        BY <1>1, <1>2
      <4>6. g.comp[t] = <<x>>
        BY <2>1, <3>1 DEF PlannedUpdate
      <4>7. x \notin Elems(a)
        <5>1. Len(a) = n - 1 /\ \A i \in 1..(n - 1) : a[i] = Event(gens[i].tx, i)
          <6> DEFINE f == [i \in 1..(n - 1) |-> Event(gens[i].tx, i)]
          <6>1. n - 1 \in Nat /\ a = f
            BY <1>1, <1>2
          <6>2. Len(f) = n - 1
            BY <6>1
          <6>3. QED
            BY <6>1, <6>2
        <5>2. \A i \in 1..(n - 1) : a[i].n = i /\ i # n
          <6>1. \A i : Event(gens[i].tx, i).n = i
            BY DEF Event
          <6>2. \A i \in 1..(n - 1) : i # n
            BY <1>1
          <6>3. QED
            BY <5>1, <6>1, <6>2
        <5>3. x.n = n
          BY DEF Event
        <5>4. QED
          BY <5>1, <5>2, <5>3 DEF Elems
      <4>8. FileOf(gens, t, n) = a \o <<x>>
        BY <4>1, <4>2, <4>3, <4>4, <4>5, AppendIsConcat
      <4>9. QED
        BY <4>1, <4>2, <4>3, <4>6, <4>7, <4>8
    <3>2. CASE t = "sources"
      <4> DEFINE src == g.comp.sources
                 x == src[1]
                 b == g.new[1].atom
      <4>1. src \in Seq(Links) /\ Len(src) = 1 /\ x.atom = b
        BY <1>1, <2>1, GenParts DEF PlannedUpdate
      <4>2. FileOf(gens, t, n - 1) = links /\ FileOf(gens, t, n) = links \o src /\ g.comp[t] = src
        BY <1>4, <2>1, <3>2 DEF FileOf
      <4>3. b \notin AtomIds(s.atoms)
        <5>1. Extending(s, g) /\ 1 \in 1..Len(g.new)
          BY <1>1, <1>3 DEF PlannedFrom, WellMade
        <5>2. QED
          BY <5>1 DEF Extending
      <4> HIDE DEF src, b
      <4>4. src = <<x>> /\ x \in Links
        <5>1. \A q \in Seq(Links) : Len(q) = 1 => q = <<q[1]>> /\ q[1] \in Links
          <6> SUFFICES ASSUME NEW q \in Seq(Links), Len(q) = 1
                       PROVE  q = <<q[1]>> /\ q[1] \in Links
            OBVIOUS
          <6>1. q[1] \in Links
            OBVIOUS
          <6>2. <<q[1]>> \in Seq(Links) /\ Len(<<q[1]>>) = 1 /\ <<q[1]>>[1] = q[1]
            BY <6>1
          <6>3. \A i \in 1..Len(q) : q[i] = <<q[1]>>[i]
            BY <6>2
          <6>4. QED
            BY <6>1, <6>2, <6>3, SameSeq
        <5>2. QED
          BY <4>1, <5>1
      <4>5. x \notin Elems(links)
        BY <1>4, <4>1, <4>3 DEF Elems
      <4> HIDE DEF x
      <4>6. QED
        BY <1>4, <4>2, <4>4, <4>5
    <3>3. QED
      BY <2>1, <3>1, <3>2
  <2>3. PICK T : \E a \in Seq(T), x \in T :
           /\ FileOf(gens, t, n - 1) = a /\ FileOf(gens, t, n) = a \o <<x>>
           /\ x \notin Elems(a) /\ g.comp[t] = <<x>>
    BY <2>2
  <2>4. PICK a \in Seq(T), x \in T :
           /\ FileOf(gens, t, n - 1) = a /\ FileOf(gens, t, n) = a \o <<x>>
           /\ x \notin Elems(a) /\ g.comp[t] = <<x>>
    BY <2>3
  <2>5. EndsWith(a \o <<x>>, x) /\ ~EndsWith(a, x) /\ a \o <<x>> # a
    BY <2>4, AppendsOnce
  <2>6. Installed(t) <=> EndsWith(LiveRecords(t), x)
    BY <1>1, <1>6, <2>4 DEF Installed
  <2>7. OutOfOrder(t) => x \in Elems(LiveRecords(t))
    BY <1>1, <1>6, <2>4 DEF OutOfOrder
  <2>8. InstallBytes(t) = LiveRecords(t) \o <<x>>
    BY <1>1, <1>6, <2>4 DEF InstallBytes
  <2>9. LiveRecords(t) = a \o <<x>> \/ LiveRecords(t) = a
    BY <2>4
  <2>10. QED
    BY <2>4, <2>5, <2>6, <2>7, <2>8, <2>9
<1>7. QED
  BY <1>5, <1>6

\* The other targets are not changed by the generation.
LEMMA NotInstalled ==
  ASSUME gens \in Histories, gens # << >>, NEW t \in Targets, ~InList(t)
  PROVE  FileOf(gens, t, Len(gens)) = FileOf(gens, t, Len(gens) - 1)
<1> DEFINE n == Len(gens)
           s == StateOf(gens, n - 1)
           g == gens[n]
<1>1. n \in Nat /\ n \in 1..n /\ HeadGen = g
  BY HistoryParts DEF HeadGen
<1>2. StateOf(gens, n) = Apply(s, g)
  BY <1>1, StateOfStep
<1>3. g.req.kind # "update" /\ t \in {"sources", "current", "graph"}
  BY <1>1 DEF InList, Targets
<1>4. LinksOf(gens, n) = LinksOf(gens, n - 1)
  BY <1>1, <1>3, LinksOfStep
<1>5. StateOf(gens, n).edges = s.edges
  BY <1>2, <1>3 DEF Apply
<1>6. QED
  BY <1>3, <1>4, <1>5 DEF FileOf


-----------------------------------------------------------------------------
(* The invariant *)

\* The generations are planned ones and both states of the owner are replays.
ReplayInv ==
    /\ PlannedAll(gens)
    /\ fold = StateOf(gens, fold.n)
    /\ rt = StateOf(gens, rt.n)

\* The files of an update's generation.
Filed(i) == IF i <= Len(gens) /\ gens[i].req.kind = "update" THEN gens[i].new[1] ELSE NoFile

Kind == pend.gen.req.kind

\* The staged operation, and how many atoms it creates.
Created == Len(pend.gen.new)

\* s is the parent segment of g followed by a prefix of the records of g.
StagedOn(g, s) ==
    /\ Len(g.pre) <= Len(s) /\ Len(s) <= Len(g.pre) + 2 * Len(g.new)
    /\ \A i \in 1..Len(s) : s[i] = IF i <= Len(g.pre) THEN g.pre[i]
                                   ELSE Chunks(g.new)[i - Len(g.pre)]

\* The descriptors that undo the staged records are all there and whole.
Described(p) ==
    \A k \in 0..(Len(p.gen.new) - 1) :
        /\ <<"record", k>> \in p.files \ p.torn
        /\ p.gen.req.kind # "update" => <<"orphan", k>> \in p.files \ p.torn

\* The staged transaction has left bytes in the CAS.
Residue == IF Kind = "update" THEN segs[Len(gens) + 1] # NoFile ELSE seg # pend.gen.pre

\* When there is a pending tree.
PendPhases ==
    /\ pc \in {"replay", "install", "opened", "decide", "reply"} => pend = NoFile
    /\ pc = "stage" => (pend = NoFile <=> step = 1)

\* A pending tree holds a planned generation, the bytes in the CAS beyond the
\* committed ones are its own, and it describes them until they are undone.
PendInv ==
    pend # NoFile =>
        /\ Len(gens) < MaxGenerations
        /\ WellMade(pend.gen)
        /\ Planned(gens, Len(gens) + 1, pend.gen)
        /\ StagedOn(pend.gen, seg)
        /\ Kind = "update" => seg = pend.gen.pre
        /\ Residue => Described(pend) /\ pc # "remove"

\* Without a pending tree the segment holds the committed records and no more.
SegInv == pend = NoFile => seg = SegOf(gens, Len(gens))

\* The segment files of updates are those of the committed updates, but for the
\* one that is being staged.
SegsInv ==
    \A i \in 1..MaxGenerations :
        segs[i] = Filed(i) \/ (i = Len(gens) + 1 /\ pend # NoFile /\ Kind = "update")

\* How far the staged files have got.
StageFiles ==
    pc = "stage" /\ step # 1 =>
        /\ pend.torn = {}
        /\ \A k \in 0..(Created - 1) :
              /\ step > RecordAt(Kind, k) => <<"record", k>> \in pend.files
              /\ Kind # "update" /\ step > OrphanAt(Kind, k) => <<"orphan", k>> \in pend.files
        /\ Kind = "update" =>
              segs[Len(gens) + 1] = IF step > 5 THEN pend.gen.new[1] ELSE NoFile

CasInv == PendPhases /\ PendInv /\ SegInv /\ SegsInv /\ StageFiles

\* Where the head's target is installed.
TargetAt(j) == InstallList(HeadGen.req.kind)[j]

\* Every live file has its version before or after the last generation; a
\* temporary exists only where the new one is missing; staging starts only when
\* all files have the new one; the installation goes down its list.
LiveInv ==
    /\ \A t \in Targets :
          \/ LiveRecords(t) = FileOf(gens, t, Len(gens))
          \/ gens # << >> /\ LiveRecords(t) = FileOf(gens, t, Len(gens) - 1)
    /\ \A t \in Targets : temp[t] = NoFile \/ LiveRecords(t) # FileOf(gens, t, Len(gens))
    /\ pend # NoFile \/ pc \in {"opened", "decide", "stage", "reply"} => AllLive(Len(gens))
    /\ pc = "install" =>
          \A j \in 1..Len(InstallList(HeadGen.req.kind)) :
              j < step /\ TargetAt(j) # "cas" =>
                  LiveRecords(TargetAt(j)) = FileOf(gens, TargetAt(j), Len(gens))
    /\ live.sources # << >>

EngineInv == ReplayInv /\ CasInv /\ LiveInv

\* The generations on disk are a history.
LEMMA GensHistory == TypeInv => gens \in Histories
  BY DEF TypeInv, DiskTypes, Histories

\* What a step may do to the committed generations and to the two states.
LEMMA OwnerMoves ==
  ASSUME TypeInv, LedgerInv, [Next]_vars, ~StagePublish
  PROVE  /\ gens' = gens
         /\ \/ fold' = fold \/ fold' = EmptyState
            \/ fold.n + 1 \in 1..Len(gens) /\ fold' = Apply(fold, gens[fold.n + 1])
         /\ rt' = rt \/ rt' = EmptyState \/ rt' = fold
<1>0. Len(gens) \in Nat /\ fold.n \in Nat
  BY DEF TypeInv, DiskTypes, LedgerInv
<1>1. CASE \E tx \in TxIds, req \in Requests : Begin(tx, req)
  BY <1>1 DEF Begin, disk
<1>2. CASE Open
  <2>1. CASE Start \/ CheckNoPending \/ RollbackCas \/ RemovePending \/ Opened \/ RemoveComponents
    BY <2>1 DEF Start, CheckNoPending, RollbackCas, RemovePending, Opened, RemoveComponents,
       disk, owner
  <2>2. CASE CheckRefuses
    BY <2>2 DEF CheckRefuses, Refuse, Return, disk
  <2>3. CASE \E f \in (IF pc = "remove" THEN pend.files ELSE {}) :
               RemoveComponentFile(f) \/ RemoveControlFile(f)
    BY <2>3 DEF RemoveComponentFile, RemoveControlFile, owner
  <2>4. CASE ReplayEmpty
    BY <2>4 DEF ReplayEmpty, Refuse, Return, disk
  <2>5. CASE ReplayGeneration
    BY <1>0, <2>5 DEF ReplayGeneration, Refuse, Return, disk, Next1
  <2>6. CASE ReplayHead
    BY <2>6 DEF ReplayHead, Refuse, Return, disk
  <2>7. QED
    BY <1>2, <2>1, <2>2, <2>3, <2>4, <2>5, <2>6 DEF Open
<1>3. CASE Install
  <2>1. CASE InstallSkip \/ InstallTemp \/ InstallRename
    BY <2>1 DEF InstallSkip, InstallTemp, InstallRename, disk, owner
  <2>2. CASE InstallCas \/ InstallRefuses
    BY <2>2 DEF InstallCas, InstallRefuses, Refuse, Return, disk
  <2>3. CASE InstallDone
    <3>1. cont # "commit" => fold.n + 1 = Len(gens)
      BY <2>3 DEF InstallDone, LedgerInv, PhaseInv
    <3>2. QED
      BY <1>0, <2>3, <3>1 DEF InstallDone, Refuse, Return, disk, HeadGen
  <2>4. QED
    BY <1>3, <2>1, <2>2, <2>3 DEF Install
<1>4. CASE Decide
  <2>1. gens' = gens /\ rt' = rt /\ (fold' = fold \/ fold' = EmptyState)
    BY <1>4 DEF Decide, DecideOtherKind, DecideMalformed, DecideRemembered, DecideRetry,
       DecideUnchanged, DecideStage, DecideReject, Fail, Succeed, ReturnReceipt, Return, disk
  <2>2. QED
    BY <2>1
<1>5. CASE Stage
  BY <1>5 DEF Stage, StageMkdir, StageComponents, StageWrite, StageAppend, StageCreate, StageRest
<1>6. CASE Finish
  BY <1>6 DEF Finish, Succeed, ReturnReceipt, Return, disk
<1>7. CASE Fault
  BY <1>7 DEF Fault, Crash, CrashInStageWrite, CrashInStageCreate, CrashInInstallTemp, IoError,
     Die, Return, disk
<1>8. CASE UNCHANGED vars
  BY <1>8 DEF vars
<1>9. QED
  BY <1>1, <1>2, <1>3, <1>4, <1>5, <1>6, <1>7, <1>8 DEF Next, Progress

LEMMA ReplayInit == Init => ReplayInv
<1> SUFFICES ASSUME Init PROVE ReplayInv
  OBVIOUS
<1>1. gens = << >> /\ fold = EmptyState /\ rt = EmptyState /\ EmptyState.n = 0
  BY EmptyType DEF Init
<1>2. gens \in Histories /\ Len(gens) = 0
  BY <1>1 DEF Histories
<1>3. StateOf(gens, 0) = EmptyState
  BY <1>2, StateOfStep
<1>4. PlannedAll(gens)
  BY <1>2 DEF PlannedAll
<1>5. QED
  BY <1>1, <1>3, <1>4 DEF ReplayInv

\* Only Apply, a fresh start or the commit of the staged plan change them.
LEMMA ReplayStep ==
  ASSUME TypeInv, LedgerInv, EngineInv, [Next]_vars
  PROVE  ReplayInv'
<1>0. gens \in Histories /\ PlannedAll(gens) /\ fold = StateOf(gens, fold.n) /\ rt = StateOf(gens, rt.n)
      /\ fold.n \in 0..Len(gens) /\ rt.n \in 0..Len(gens) /\ Len(gens) \in Nat
  BY GensHistory, HistoryParts DEF EngineInv, ReplayInv, LedgerInv
<1>1. StateOf(gens, 0) = EmptyState /\ EmptyState.n = 0
      /\ \A k \in 1..Len(gens) : StateOf(gens, k) = Apply(StateOf(gens, k - 1), gens[k])
  BY <1>0, StateOfStep, EmptyType
<1>2. CASE StagePublish
  <2>1. gens' = Append(gens, pend.gen) /\ fold' = fold /\ rt' = rt
    BY <1>2 DEF StagePublish
  <2>2. pc = "stage" /\ step # 1
    BY <1>2, NotFirst DEF StagePublish, Staging
  <2>3. pend # NoFile /\ pend \in Pendings /\ WellMade(pend.gen) /\ Planned(gens, Len(gens) + 1, pend.gen)
    BY <2>2 DEF EngineInv, CasInv, PendPhases, PendInv, TypeInv, StageTypes
  <2>4. pend.gen \in Generations
    BY <2>3 DEF Pendings
  <2>5. PlannedAll(gens')
    BY <1>0, <2>1, <2>3, <2>4, PlannedGrows
  <2>6. StateOf(gens', fold.n) = StateOf(gens, fold.n) /\ StateOf(gens', rt.n) = StateOf(gens, rt.n)
    BY <1>0, <2>1, <2>3, <2>4, Agree
  <2>7. QED
    BY <1>0, <2>1, <2>5, <2>6 DEF ReplayInv
<1>3. CASE ~StagePublish
  <2>1. /\ gens' = gens
        /\ \/ fold' = fold \/ fold' = EmptyState
           \/ fold.n + 1 \in 1..Len(gens) /\ fold' = Apply(fold, gens[fold.n + 1])
        /\ rt' = rt \/ rt' = EmptyState \/ rt' = fold
    BY <1>3, OwnerMoves
  <2>2. fold' = StateOf(gens, fold'.n)
    <3>1. CASE fold.n + 1 \in 1..Len(gens) /\ fold' = Apply(fold, gens[fold.n + 1])
      <4>1. fold'.n = fold.n + 1 /\ fold.n + 1 - 1 = fold.n
        BY <1>0, <3>1, ApplyCounts
      <4>2. StateOf(gens, fold.n + 1) = Apply(StateOf(gens, fold.n), gens[fold.n + 1])
        <5>1. PICK j \in 1..Len(gens) : j = fold.n + 1
          BY <3>1
        <5>2. StateOf(gens, j) = Apply(StateOf(gens, j - 1), gens[j])
          BY <1>1
        <5>3. j - 1 = fold.n
          BY <1>0, <5>1
        <5>4. QED
          BY <5>1, <5>2, <5>3
      <4>3. QED
        BY <1>0, <3>1, <4>1, <4>2
    <3>2. QED
      BY <1>0, <1>1, <2>1, <3>1
  <2>3. rt' = StateOf(gens, rt'.n)
    BY <1>0, <1>1, <2>1
  <2>4. QED
    BY <1>0, <2>1, <2>2, <2>3 DEF ReplayInv
<1>4. QED
  BY <1>2, <1>3

-----------------------------------------------------------------------------
(* Steps that leave the CAS alone, and the rollback *)

\* A step that leaves the generations, the pending tree and the CAS alone and
\* enters no phase whose claims it would have to establish.
Calm ==
    /\ UNCHANGED <<gens, pend, seg, segs>>
    /\ \/ pc' \in {"down", "idle", "check"}
       \/ pend = NoFile /\ pc' \in {"replay", "install", "opened", "decide", "reply"}
       \/ pend = NoFile /\ pc' = "stage" /\ step' = 1
       \/ pc' = pc /\ step' = step

\* A calm step keeps the claims about the CAS.
LEMMA CalmStep ==
  ASSUME CasInv, Calm
  PROVE  CasInv'
<1>1. PendPhases'
  BY DEF CasInv, PendPhases, Calm
<1>2. PendInv'
  <2>1. Residue' = Residue /\ (pc' = "remove" => pc = "remove")
    BY DEF Calm, Residue, Kind
  <2>2. QED
    BY <2>1 DEF CasInv, PendInv, Calm, Kind, Residue
<1>3. SegInv' /\ SegsInv'
  BY DEF CasInv, SegInv, SegsInv, Calm, Filed, Kind
<1>4. StageFiles'
  BY DEF CasInv, StageFiles, Calm, Kind, Created
<1>5. QED
  BY <1>1, <1>2, <1>3, <1>4 DEF CasInv

\* Every way to return is calm.
LEMMA RefuseCalm == \A c : Refuse(c) => Calm
  BY DEF Refuse, Return, Calm, disk

LEMMA FailCalm == \A c : Fail(c) => Calm
  BY DEF Fail, Return, Calm, disk

LEMMA SucceedCalm == \A r : Succeed(r) => Calm
  BY DEF Succeed, ReturnReceipt, Return, Calm, disk

\* Most steps are calm.
LEMMA CalmSteps ==
  ASSUME TypeInv, LedgerInv, CasInv, [Next]_vars
  PROVE  \/ Calm
         \/ RollbackCas \/ RemovePending \/ RemoveComponents
         \/ (\E f : RemoveComponentFile(f) \/ RemoveControlFile(f))
         \/ InstallCas \/ Stage \/ CrashInStageWrite \/ CrashInStageCreate
<1>0. PendPhases
  BY DEF CasInv
<1>1. CASE \E tx \in TxIds, req \in Requests : Begin(tx, req)
  BY <1>1 DEF Begin, disk, Calm
<1>2. CASE Open
  <2>1. CASE Start \/ CheckNoPending \/ Opened
    <3>1. CASE Start
      BY <3>1 DEF Start, disk, Calm
    <3>2. CASE CheckNoPending
      BY <3>2 DEF CheckNoPending, disk, Calm
    <3>3. CASE Opened
      <4>1. cont \in {"startup", "begin", "finish"} /\ pend = NoFile
        BY <1>0, <3>3 DEF Opened, LedgerInv, PhaseInv, PendPhases
      <4>2. pc' \in {"idle", "decide", "reply"}
        BY <3>3, <4>1 DEF Opened
      <4>3. QED
        BY <3>3, <4>1, <4>2 DEF Opened, disk, Calm
    <3>4. QED
      BY <2>1, <3>1, <3>2, <3>3
  <2>2. CASE CheckRefuses
    BY <2>2, RefuseCalm DEF CheckRefuses
  <2>4. CASE ReplayEmpty
    BY <1>0, <2>4, RefuseCalm DEF ReplayEmpty, Calm, disk, PendPhases
  <2>5. CASE ReplayGeneration
    BY <1>0, <2>5, RefuseCalm DEF ReplayGeneration, Calm, disk, PendPhases
  <2>6. CASE ReplayHead
    BY <1>0, <2>6, RefuseCalm DEF ReplayHead, Calm, disk, PendPhases
  <2>7. QED
    BY <1>2, <2>1, <2>2, <2>4, <2>5, <2>6 DEF Open
<1>3. CASE Install
  <2>1. pc = "install" /\ pend = NoFile
    BY <1>0, <1>3 DEF Install, InstallCas, InstallSkip, InstallTemp, InstallRename,
       InstallRefuses, InstallDone, Installing, PendPhases
  <2>2. CASE InstallSkip \/ InstallTemp \/ InstallRename
    BY <2>1, <2>2 DEF InstallSkip, InstallTemp, InstallRename, disk, owner, Calm
  <2>3. CASE InstallRefuses
    BY <2>3, RefuseCalm DEF InstallRefuses
  <2>4. CASE InstallDone
    BY <2>1, <2>4, RefuseCalm DEF InstallDone, disk, Calm
  <2>5. QED
    BY <1>3, <2>2, <2>3, <2>4 DEF Install
<1>4. CASE Decide
  <2>1. CASE \/ DecideOtherKind \/ DecideMalformed \/ DecideReject
             \/ DecideRemembered \/ DecideRetry \/ DecideUnchanged
    BY <2>1, FailCalm, SucceedCalm DEF DecideOtherKind, DecideMalformed, DecideReject,
       DecideRemembered, DecideRetry, DecideUnchanged
  <2>2. CASE DecideStage
    BY <1>0, <2>2 DEF DecideStage, Calm, disk, Fresh, Looking, Deciding, PendPhases
  <2>3. QED
    BY <1>4, <2>1, <2>2 DEF Decide
<1>6. CASE Finish
  BY <1>6, SucceedCalm DEF Finish
<1>7. CASE Crash \/ CrashInInstallTemp \/ IoError
  BY <1>7 DEF Crash, CrashInInstallTemp, IoError, Die, Return, disk, Calm
<1>8. CASE UNCHANGED vars
  BY <1>8 DEF vars, Calm
<1>9. QED
  BY <1>1, <1>2, <1>3, <1>4, <1>6, <1>7, <1>8 DEF Next, Progress, Fault

\* The parts of a pending tree.
LEMMA PendParts ==
  ASSUME TypeInv, CasInv, pend # NoFile
  PROVE  /\ pend \in Pendings /\ pend.gen \in Generations /\ WellMade(pend.gen)
         /\ Len(gens) \in Nat /\ Len(gens) + 1 \in 1..MaxGenerations
         /\ Kind \in Kinds /\ Created \in Nat \ {0} /\ (Kind # "batch" => Created = 1)
         /\ pend.gen.new \in Seq(AtomRecs) /\ pend.gen.new[1] \in AtomRecs
         /\ pend.gen.pre \in Seq(Halves) /\ seg \in Seq(Halves)
         /\ Len(pend.gen.pre) \in Nat /\ Len(seg) \in Nat
         /\ Chunks(pend.gen.new) \in Seq(Halves) /\ Len(Chunks(pend.gen.new)) = 2 * Created
         /\ pend.gen.pre = SegOf(gens, Len(gens))
         /\ pend.files \in SUBSET FileNames /\ pend.torn \in SUBSET FileNames
         /\ pend = [gen |-> pend.gen, components |-> pend.components,
                    files |-> pend.files, torn |-> pend.torn]
<1>1. pend \in Pendings /\ seg \in Seq(Halves) /\ Len(gens) \in Nat
  BY DEF TypeInv, DiskTypes
<1>2. pend.gen \in Generations /\ pend.files \in SUBSET FileNames /\ pend.torn \in SUBSET FileNames
      /\ pend = [gen |-> pend.gen, components |-> pend.components,
                 files |-> pend.files, torn |-> pend.torn]
  BY <1>1 DEF Pendings
<1>3. WellMade(pend.gen) /\ Len(gens) < MaxGenerations /\ Planned(gens, Len(gens) + 1, pend.gen)
  BY DEF CasInv, PendInv
<1>4. Len(gens) + 1 \in 1..MaxGenerations /\ Len(gens) + 1 - 1 = Len(gens)
  BY <1>1, <1>3, BoundsAssumption
<1>5. pend.gen.pre = SegOf(gens, Len(gens))
  BY <1>3, <1>4 DEF Planned, PlannedFrom
<1>6. pend.gen.req \in Requests /\ pend.gen.new \in Seq(AtomRecs) /\ pend.gen.pre \in Seq(Halves)
  BY <1>2, GenParts
<1>7. Kind \in Kinds
  BY <1>6, RequestParts DEF Kind
<1>8. Created \in Nat /\ Created >= 1 /\ (Kind # "batch" => Created = 1)
  BY <1>3, <1>6 DEF Created, Kind, WellMade
<1>9. pend.gen.new[1] \in AtomRecs
  BY <1>6, <1>8 DEF Created
<1>10. Chunks(pend.gen.new) \in Seq(Halves) /\ Len(Chunks(pend.gen.new)) = 2 * Created
  BY <1>6, ChunksType DEF Created
<1>11. QED
  BY <1>1, <1>2, <1>3, <1>4, <1>5, <1>6, <1>7, <1>8, <1>9, <1>10

\* Nothing has been appended yet.
LEMMA StagedNone ==
  ASSUME NEW g \in Generations, NEW s, s = g.pre
  PROVE  StagedOn(g, s)
<1>1. g.pre \in Seq(Halves) /\ Len(g.new) \in Nat
  BY GenParts
<1>2. Len(g.pre) \in Nat
  BY <1>1
<1>3. \A m \in Nat, p \in Nat : p <= p /\ p <= p + 2 * m
  OBVIOUS
<1>4. \A i \in 1..Len(g.pre) : i <= Len(g.pre)
  BY <1>2
<1>5. QED
  BY <1>1, <1>2, <1>3, <1>4 DEF StagedOn

\* A sequence that agrees with a concatenation is a prefix of it.
LEMMA PrefixOfConcat ==
  ASSUME NEW T, NEW a \in Seq(T), NEW b \in Seq(T), NEW s \in Seq(T),
         Len(a) <= Len(s), Len(s) <= Len(a) + Len(b),
         \A i \in 1..Len(s) : s[i] = IF i <= Len(a) THEN a[i] ELSE b[i - Len(a)]
  PROVE  /\ s = SubSeq(a \o b, 1, Len(s))
         /\ Len(s) = Len(a) + Len(b) => s = a \o b
<1> DEFINE c == a \o b
<1>1. /\ c \in Seq(T) /\ Len(a) \in Nat /\ Len(b) \in Nat /\ Len(s) \in Nat
      /\ Len(c) = Len(a) + Len(b)
      /\ \A i \in 1..Len(a) : c[i] = a[i]
      /\ \A i \in 1..Len(c) : i \notin 1..Len(a) => c[i] = b[i - Len(a)]
  BY ConcatAt
<1> HIDE DEF c
<1>2. ASSUME NEW i \in 1..Len(s) PROVE s[i] = c[i]
  <2>1. i \in 1..Len(c) /\ (i <= Len(a) <=> i \in 1..Len(a))
    BY <1>1
  <2>2. QED
    BY <1>1, <2>1
<1>3. Len(s) <= Len(c)
  BY <1>1
<1>4. /\ SubSeq(c, 1, Len(s)) \in Seq(T) /\ Len(SubSeq(c, 1, Len(s))) = Len(s)
      /\ \A i \in 1..Len(s) : SubSeq(c, 1, Len(s))[i] = c[i]
  <2>1. PICK n \in Nat : n = Len(s)
    BY <1>1
  <2>2. n <= Len(c)
    BY <1>3, <2>1
  <2>3. SubSeq(c, 1, n) = [i \in 1..n |-> c[i]]
    BY <1>1, <2>2
  <2>4. \A i \in 1..n : c[i] \in T
    BY <1>1, <2>2
  <2>5. SubSeq(c, 1, n) \in [1..n -> T] /\ \A i \in 1..n : SubSeq(c, 1, n)[i] = c[i]
    BY <2>3, <2>4
  <2>6. \A f \in [1..n -> T] : f \in Seq(T) /\ Len(f) = n
    OBVIOUS
  <2>7. SubSeq(c, 1, n) \in Seq(T) /\ Len(SubSeq(c, 1, n)) = n
    BY <2>5, <2>6
  <2>8. QED
    BY <2>1, <2>5, <2>7
<1>5. s = SubSeq(c, 1, Len(s))
  BY <1>2, <1>4, SameSeq
<1>6. Len(s) = Len(a) + Len(b) => s = c
  BY <1>1, <1>2, SameSeq
<1>7. QED
  BY <1>5, <1>6 DEF c

\* The staged bytes, seen as the code sees them.
LEMMA StagedSuffix ==
  ASSUME NEW g \in Generations, NEW s \in Seq(Halves), StagedOn(g, s)
  PROVE  /\ s = SubSeq(g.pre \o Chunks(g.new), 1, Len(s))
         /\ Len(s) = Len(g.pre) + 2 * Len(g.new) => s = g.pre \o Chunks(g.new)
<1>1. g.pre \in Seq(Halves) /\ g.new \in Seq(AtomRecs)
  BY GenParts
<1>2. Chunks(g.new) \in Seq(Halves) /\ Len(Chunks(g.new)) = 2 * Len(g.new)
  BY <1>1, ChunksType
<1>3. /\ Len(g.pre) <= Len(s) /\ Len(s) <= Len(g.pre) + Len(Chunks(g.new))
      /\ \A i \in 1..Len(s) : s[i] = IF i <= Len(g.pre) THEN g.pre[i]
                                     ELSE Chunks(g.new)[i - Len(g.pre)]
  BY <1>2 DEF StagedOn
<1>4. PICK x \in Seq(Halves), y \in Seq(Halves) : x = g.pre /\ y = Chunks(g.new)
  BY <1>1, <1>2
<1>5. /\ Len(x) <= Len(s) /\ Len(s) <= Len(x) + Len(y)
      /\ \A i \in 1..Len(s) : s[i] = IF i <= Len(x) THEN x[i] ELSE y[i - Len(x)]
  BY <1>3, <1>4
<1>6. /\ s = SubSeq(x \o y, 1, Len(s))
      /\ Len(s) = Len(x) + Len(y) => s = x \o y
  BY <1>5, PrefixOfConcat
<1>7. QED
  BY <1>2, <1>4, <1>6

\* The rollback never meets bytes it cannot account for, and where it finds
\* nothing to undo there is nothing.
LEMMA RollbackKnown ==
  ASSUME TypeInv, CasInv, pend # NoFile
  PROVE  /\ Rollback \in {"none", "truncate", "remove", "half-descriptor", "torn-descriptor",
                          "target-conflict"}
         /\ Rollback = "none" => ~Residue
         /\ Rollback = "truncate" => Kind # "update"
         /\ Rollback = "remove" => Kind = "update"
<1>0. /\ Kind \in Kinds /\ Created \in Nat \ {0} /\ (Kind # "batch" => Created = 1)
      /\ pend.gen \in Generations
      /\ pend.gen.pre \in Seq(Halves) /\ seg \in Seq(Halves)
      /\ Len(pend.gen.pre) \in Nat /\ Len(seg) \in Nat
      /\ Chunks(pend.gen.new) \in Seq(Halves) /\ Len(Chunks(pend.gen.new)) = 2 * Created
  BY PendParts
<1>1. StagedOn(pend.gen, seg) /\ (Residue => Described(pend))
  BY DEF CasInv, PendInv
<1>2. Residue => \A k \in 0..(Created - 1) :
                    Whole(<<"record", k>>) /\ (Kind # "update" => Whole(<<"orphan", k>>))
  BY <1>1 DEF Described, Created, Kind, Whole
<1>3. Residue => Whole(<<"record", 0>>) /\ (Kind # "update" => Whole(<<"orphan", 0>>))
  <2>1. 0 \in 0..(Created - 1)
    BY <1>0
  <2>2. QED
    BY <1>2, <2>1
<1>4. \A f : Whole(f) => f \in pend.files
  BY DEF Whole
<1>5. Kind # "update" => (Residue <=> seg # pend.gen.pre)
  BY DEF Residue
<1>6. seg = << >> => seg = pend.gen.pre
  <2>1. Len(pend.gen.pre) <= Len(seg)
    BY <1>1 DEF StagedOn
  <2>2. seg = << >> => Len(pend.gen.pre) = 0
    BY <1>0, <2>1
  <2>3. QED
    BY <1>0, <2>2
\* The bytes that are there are the staged ones.
<1>7. ASSUME NEW m \in Nat, m >= Created \/ seg = pend.gen.pre PROVE SuffixIsStaged(m)
  <2>1. Len(pend.gen.pre) <= Len(seg) /\ Len(seg) <= Len(pend.gen.pre) + 2 * Created
    BY <1>1 DEF StagedOn, Created
  <2>2. Len(seg) <= Len(pend.gen.pre) + 2 * m
    <3>1. PICK a \in Nat, b \in Nat, c \in Nat : a = Len(seg) /\ b = Len(pend.gen.pre) /\ c = Created
      BY <1>0
    <3>2. a <= b + 2 * c /\ (m >= c \/ a = b)
      BY <1>7, <2>1, <3>1
    <3>3. a <= b + 2 * m
      BY <3>2
    <3>4. QED
      BY <3>1, <3>3
  <2>3. seg = SubSeq(pend.gen.pre \o Chunks(pend.gen.new), 1, Len(seg))
    BY <1>0, <1>1, StagedSuffix
  <2>4. QED
    BY <2>1, <2>2, <2>3 DEF SuffixIsStaged
<1>8. CASE Kind = "direct"
  <2>1. Rollback = DirectRollback
    BY <1>8 DEF Rollback, Kind
  <2>2. SuffixIsStaged(1)
    BY <1>0, <1>7, <1>8
  <2>3. DirectRollback \in {"none", "truncate", "half-descriptor", "torn-descriptor"}
    BY <2>2 DEF DirectRollback
  <2>4. DirectRollback = "none" => ~Residue
    BY <1>3, <1>4, <1>5, <1>6, <1>8 DEF DirectRollback
  <2>5. QED
    BY <1>8, <2>1, <2>3, <2>4
<1>9. CASE Kind = "batch"
  <2> DEFINE orphans == Ordinals("orphan")
             m == Cardinality(orphans)
  <2>1. Rollback = BatchRollback
    BY <1>9 DEF Rollback, Kind
  <2>2. orphans \in SUBSET (0..Created) /\ IsFiniteSet(orphans) /\ m \in Nat
    <3>1. orphans \subseteq 0..Created
      BY DEF Ordinals, Created
    <3>2. IsFiniteSet(0..Created)
      BY <1>0, FS_Interval
    <3>3. QED
      BY <3>1, <3>2, FS_Subset, FS_CardinalityType
  <2>3. Residue => m >= Created
    <3>1. SUFFICES ASSUME Residue PROVE m >= Created
      OBVIOUS
    <3>2. 0..(Created - 1) \subseteq orphans
      <4>0. \A k \in 0..(Created - 1) : k \in 0..Created
        BY <1>0
      <4>1. \A k \in 0..(Created - 1) : k \in 0..Created /\ <<"orphan", k>> \in pend.files
        BY <1>2, <1>4, <1>9, <3>1, <4>0
      <4>2. QED
        BY <4>1 DEF Ordinals, Created
    <3>3. IsFiniteSet(0..(Created - 1)) /\ Cardinality(0..(Created - 1)) = Created
      <4>1. PICK c \in Nat : c = Created /\ c >= 1
        BY <1>0
      <4>2. 0 \in Int /\ c - 1 \in Int /\ ~(0 > c - 1) /\ (c - 1) - 0 + 1 = c
        BY <4>1
      <4>3. IsFiniteSet(0..(c - 1)) /\ Cardinality(0..(c - 1)) = c
        BY <4>2, FS_Interval
      <4>4. QED
        BY <4>1, <4>3
    <3>4. QED
      BY <1>0, <2>2, <3>2, <3>3, FS_Subset
  <2>4. SuffixIsStaged(m)
    BY <1>5, <1>7, <1>9, <2>2, <2>3
  <2>5. Residue => 0 \in Ordinals("record")
    BY <1>0, <1>3, <1>4 DEF Ordinals, Created
  <2>6. BatchRollback \in {"none", "truncate", "half-descriptor", "torn-descriptor"}
    BY <2>4 DEF BatchRollback
  <2>7. BatchRollback = "none" => Ordinals("record") = {}
    BY DEF BatchRollback
  <2>8. QED
    BY <1>9, <2>1, <2>5, <2>6, <2>7
<1>10. CASE Kind = "update"
  <2>1. Rollback = UpdateRollback
    BY <1>10 DEF Rollback, Kind
  <2>2. UpdateRollback \in {"none", "remove", "half-descriptor", "target-conflict"}
    BY DEF UpdateRollback
  <2>3. UpdateRollback = "none" => ~Whole(<<"record", 0>>) \/ segs[Len(gens) + 1] = NoFile
    BY <1>4 DEF UpdateRollback
  <2>4. QED
    BY <1>3, <1>10, <2>1, <2>2, <2>3 DEF Residue
<1>11. QED
  BY <1>0, <1>8, <1>9, <1>10 DEF Kinds

\* Only the place after the head can hold a file no generation accounts for.
LEMMA NextFile ==
  ASSUME TypeInv, CasInv, pend # NoFile, NEW i \in 1..MaxGenerations
  PROVE  /\ i # Len(gens) + 1 => segs[i] = Filed(i)
         /\ Kind # "update" => segs[i] = Filed(i)
         /\ Filed(Len(gens) + 1) = NoFile
<1>1. Len(gens) \in Nat
  BY DEF TypeInv, DiskTypes
<1>2. ~(Len(gens) + 1 <= Len(gens))
  BY <1>1
<1>3. QED
  BY <1>2 DEF CasInv, SegsInv, Filed

\* The rollback leaves exactly the committed bytes.
LEMMA RollbackKeeps ==
  ASSUME TypeInv, LedgerInv, CasInv, RollbackCas
  PROVE  CasInv'
<1>0. /\ pc = "check" /\ pend # NoFile /\ Rollback \in {"none", "truncate", "remove"}
      /\ pc' = "remove" /\ UNCHANGED <<gens, pend, step>>
      /\ seg' = IF Rollback = "truncate" THEN pend.gen.pre ELSE seg
      /\ segs' = IF Rollback = "remove" THEN [segs EXCEPT ![Len(gens) + 1] = NoFile] ELSE segs
  BY DEF RollbackCas
<1>1. /\ Rollback = "none" => ~Residue
      /\ Rollback = "truncate" => Kind # "update"
      /\ Rollback = "remove" => Kind = "update"
  BY <1>0, RollbackKnown
<1>2. /\ pend.gen \in Generations /\ Len(gens) + 1 \in 1..MaxGenerations
  BY <1>0, PendParts
<1>3. segs \in [1..MaxGenerations -> AtomRecs \cup {NoFile, TornFile}]
  BY DEF TypeInv, DiskTypes
<1>4. Kind = "update" => seg = pend.gen.pre
  BY <1>0 DEF CasInv, PendInv
<1>5. seg' = pend.gen.pre
  BY <1>0, <1>1, <1>4 DEF Residue
<1>6. Kind = "update" => segs'[Len(gens) + 1] = NoFile
  BY <1>0, <1>1, <1>2, <1>3 DEF Residue
<1>7. \A i \in 1..MaxGenerations : i # Len(gens) + 1 => segs'[i] = segs[i]
  BY <1>0, <1>3
<1>8. Kind # "update" => segs' = segs
  BY <1>0, <1>1
<1>9. ~Residue'
  BY <1>0, <1>5, <1>6 DEF Residue, Kind
<1>10. StagedOn(pend.gen, seg')
  BY <1>2, <1>5, StagedNone
<1>11. PendInv'
  <2>1. /\ Len(gens) < MaxGenerations /\ WellMade(pend.gen)
        /\ Planned(gens, Len(gens) + 1, pend.gen)
    BY <1>0 DEF CasInv, PendInv
  <2>2. QED
    BY <1>0, <1>5, <1>9, <1>10, <2>1 DEF PendInv, Kind
<1>12. SegsInv'
  <2>1. ASSUME NEW i \in 1..MaxGenerations
        PROVE  segs'[i] = Filed(i) \/ (i = Len(gens) + 1 /\ pend # NoFile /\ Kind = "update")
    BY <1>0, <1>7, <1>8 DEF CasInv, SegsInv
  <2>2. \A i : Filed(i)' = Filed(i)
    BY <1>0 DEF Filed
  <2>3. QED
    BY <1>0, <2>1, <2>2 DEF SegsInv, Kind
<1>13. PendPhases' /\ SegInv' /\ StageFiles'
  BY <1>0 DEF PendPhases, SegInv, StageFiles
<1>14. QED
  BY <1>11, <1>12, <1>13 DEF CasInv

\* Removing the staged files touches no bytes of the CAS.
LEMMA RemoveKeeps ==
  ASSUME TypeInv, CasInv, pc = "remove", pend # NoFile, pend' # NoFile, pend'.gen = pend.gen,
         UNCHANGED <<gens, seg, segs, pc>>
  PROVE  CasInv'
<1>1. ~Residue
  BY DEF CasInv, PendInv
<1>2. ~Residue' /\ Kind' = Kind
  BY <1>1 DEF Residue, Kind
<1>3. PendInv'
  BY <1>2 DEF CasInv, PendInv, Kind
<1>4. SegsInv'
  BY <1>2 DEF CasInv, SegsInv, Filed
<1>5. PendPhases' /\ SegInv' /\ StageFiles'
  BY DEF PendPhases, SegInv, StageFiles
<1>6. QED
  BY <1>3, <1>4, <1>5 DEF CasInv

LEMMA RemoveFileKeeps ==
  ASSUME TypeInv, LedgerInv, CasInv, NEW f,
         RemoveComponentFile(f) \/ RemoveControlFile(f) \/ RemoveComponents
  PROVE  CasInv'
<1>1. pc = "remove" /\ UNCHANGED <<gens, seg, segs, pc>>
  BY DEF RemoveComponentFile, RemoveControlFile, RemoveComponents, owner
<1>2. pend \in Pendings /\ pend # NoFile
  BY <1>1, FileAssumption DEF TypeInv, OwnerTypes
<1>3. pend'.gen = pend.gen
  BY <1>2 DEF RemoveComponentFile, RemoveControlFile, RemoveComponents, Pendings
<1>4. TypeInv'
  BY RemoveFileTypes
<1>5. pend' \in Pendings
  BY <1>1, <1>4 DEF TypeInv, OwnerTypes
<1>6. pend' # NoFile
  BY <1>5, FileAssumption
<1>7. QED
  BY <1>1, <1>2, <1>3, <1>6, RemoveKeeps

\* When the tree is gone so are its bytes.
LEMMA RemovePendingKeeps ==
  ASSUME TypeInv, CasInv, RemovePending
  PROVE  CasInv'
<1>0. pc = "remove" /\ pend' = NoFile /\ pc' = "replay" /\ UNCHANGED <<gens, seg, segs>>
  BY DEF RemovePending
<1>1. pend \in Pendings /\ pend # NoFile
  BY <1>0, FileAssumption DEF TypeInv, OwnerTypes
<1>2. ~Residue /\ (Kind = "update" => seg = pend.gen.pre)
  BY <1>0, <1>1 DEF CasInv, PendInv
<1>3. seg = pend.gen.pre /\ pend.gen.pre = SegOf(gens, Len(gens))
  BY <1>1, <1>2, PendParts DEF Residue
<1>4. SegInv'
  BY <1>0, <1>3 DEF SegInv
<1>5. ASSUME NEW i \in 1..MaxGenerations PROVE segs[i] = Filed(i)
  <2>1. CASE Kind = "update" /\ i = Len(gens) + 1
    BY <1>1, <1>2, <2>1, NextFile DEF Residue
  <2>2. QED
    BY <1>1, <2>1, NextFile
<1>6. \A i : Filed(i)' = Filed(i)
  BY <1>0 DEF Filed
<1>7. SegsInv'
  BY <1>0, <1>5, <1>6 DEF SegsInv
<1>8. PendPhases' /\ PendInv' /\ StageFiles'
  BY <1>0 DEF PendPhases, PendInv, StageFiles
<1>9. QED
  BY <1>4, <1>7, <1>8 DEF CasInv

\* When the head is installed its bytes are already in place.
LEMMA HeadBytes ==
  ASSUME TypeInv, LedgerInv, ReplayInv, CasInv, pc = "install"
  PROVE  CasAdmits /\ (HeadGen.req.kind = "update" => segs[Len(gens)] = HeadGen.new[1])
<1>1. pend = NoFile /\ seg = SegOf(gens, Len(gens))
  BY DEF CasInv, PendPhases, SegInv
<1>2. Len(gens) \in 1..MaxGenerations
  BY HeadTypes
<1>3. HeadGen.req.kind = "update" => segs[Len(gens)] = HeadGen.new[1]
  <2>1. segs[Len(gens)] = Filed(Len(gens))
    BY <1>1, <1>2 DEF CasInv, SegsInv
  <2>2. Len(gens) <= Len(gens)
    BY <1>2
  <2>3. QED
    BY <2>1, <2>2 DEF Filed, HeadGen
<1>4. HeadGen.req.kind # "update" => seg = HeadGen.pre \o Chunks(HeadGen.new)
  <2>1. gens \in Histories /\ Len(gens) \in 1..Len(gens)
    BY <1>2, GensHistory
  <2>2. HeadGen.pre = SegOf(gens, Len(gens) - 1)
    BY <2>1 DEF ReplayInv, PlannedAll, Planned, PlannedFrom, HeadGen
  <2>3. HeadGen.req.kind # "update" =>
          SegOf(gens, Len(gens)) = SegOf(gens, Len(gens) - 1) \o Chunks(HeadGen.new)
    BY <2>1, SegOfStep DEF HeadGen
  <2>4. QED
    BY <1>1, <2>2, <2>3
<1>5. QED
  BY <1>3, <1>4 DEF CasAdmits

\* Hence the installation of the CAS changes nothing.
LEMMA InstallCasKeeps ==
  ASSUME TypeInv, LedgerInv, ReplayInv, CasInv, InstallCas
  PROVE  Calm
<1>1. pc = "install" /\ pend = NoFile
  BY DEF InstallCas, Installing, CasInv, PendPhases
<1>2. CasAdmits /\ (HeadGen.req.kind = "update" => segs[Len(gens)] = HeadGen.new[1])
  BY <1>1, HeadBytes
<1>3. segs \in [1..MaxGenerations -> AtomRecs \cup {NoFile, TornFile}]
  BY DEF TypeInv, DiskTypes
<1>4. HeadGen.req.kind = "update" => [segs EXCEPT ![Len(gens)] = HeadGen.new[1]] = segs
  BY <1>2, <1>3
<1>5. segs' = segs /\ UNCHANGED <<gens, pend, seg>> /\ pc' = pc
  BY <1>2, <1>4 DEF InstallCas
<1>6. QED
  BY <1>1, <1>5 DEF Calm

-----------------------------------------------------------------------------
(* Staging, the commit and crashes inside them *)

\* The descriptors come before anything they describe.
LEMMA PlaceBounds ==
  ASSUME NEW kind \in Kinds, NEW m \in Nat \ {0}, kind # "batch" => m = 1, NEW k \in 0..(m - 1)
  PROVE  /\ EffectFrom(kind, m) \in Nat
         /\ RecordAt(kind, k) \in Nat /\ 3 <= RecordAt(kind, k)
         /\ RecordAt(kind, k) < EffectFrom(kind, m)
         /\ kind # "update" => /\ OrphanAt(kind, k) \in Nat /\ 3 <= OrphanAt(kind, k)
                               /\ OrphanAt(kind, k) < EffectFrom(kind, m)
<1>1. k \in Nat /\ k < m
  OBVIOUS
<1>2. CASE kind = "direct"
  BY <1>2 DEF EffectFrom, RecordAt, OrphanAt, AppendFrom
<1>3. CASE kind = "batch"
  BY <1>1, <1>3 DEF EffectFrom, RecordAt, OrphanAt, AppendFrom
<1>4. CASE kind = "update"
  BY <1>4 DEF EffectFrom, RecordAt, OrphanAt, AppendFrom
<1>5. QED
  BY <1>2, <1>3, <1>4 DEF Kinds

\* What is known while a transaction is being staged.
LEMMA StageParts ==
  ASSUME TypeInv, LedgerInv, CasInv, pc = "stage", step # 1
  PROVE  /\ pend # NoFile /\ pend.gen.req = op.req /\ Kind = op.req.kind
         /\ step \in Nat /\ rt.n = Len(gens)
         /\ StepKnown(Kind, Created, step, StageNow)
         /\ StepWrites(Kind, Created, step, StageNow)
         /\ Kind # "update" =>
              Len(seg) = Len(pend.gen.pre) + AppendedBy(Kind, Created, step)
<1>1. pend # NoFile
  BY DEF CasInv, PendPhases
<1>2. pend.gen.req = op.req
  BY DEF LedgerInv, StageInv
<1>3. step \in Nat /\ rt.n = Len(gens)
  BY DEF TypeInv, OwnerTypes, LedgerInv, PhaseInv
<1>4. QED
  BY <1>1, <1>2, <1>3, StageNowKnown DEF Kind, Created, TypeInv, StageTypes

\* Once a staging step may touch the CAS, every descriptor is written.
LEMMA StageDescribed ==
  ASSUME TypeInv, LedgerInv, CasInv, pc = "stage", step # 1, EffectFrom(Kind, Created) <= step
  PROVE  Described(pend)
<1>1. pend # NoFile /\ step \in Nat
  BY StageParts
<1>2. Kind \in Kinds /\ Created \in Nat \ {0} /\ (Kind # "batch" => Created = 1)
  BY <1>1, PendParts
<1>3. ASSUME NEW k \in 0..(Created - 1)
      PROVE  step > RecordAt(Kind, k) /\ (Kind # "update" => step > OrphanAt(Kind, k))
  <2>1. PICK kd \in Kinds, m \in Nat \ {0} : kd = Kind /\ m = Created
    BY <1>2
  <2>2. /\ EffectFrom(kd, m) \in Nat
        /\ RecordAt(kd, k) \in Nat /\ RecordAt(kd, k) < EffectFrom(kd, m)
        /\ kd # "update" => OrphanAt(kd, k) \in Nat /\ OrphanAt(kd, k) < EffectFrom(kd, m)
    BY <1>2, <2>1, PlaceBounds
  <2>3. EffectFrom(kd, m) <= step
    BY <2>1
  <2>4. step > RecordAt(kd, k) /\ (kd # "update" => step > OrphanAt(kd, k))
    BY <1>1, <2>2, <2>3
  <2>5. QED
    BY <2>1, <2>4
<1>4. pend.torn = {} /\ \A k \in 0..(Created - 1) :
              /\ step > RecordAt(Kind, k) => <<"record", k>> \in pend.files
              /\ Kind # "update" /\ step > OrphanAt(Kind, k) => <<"orphan", k>> \in pend.files
  BY DEF CasInv, StageFiles
<1>5. QED
  BY <1>3, <1>4 DEF Described, Created, Kind

\* Bytes in the CAS mean that the staging has come that far.
LEMMA StageResidue ==
  ASSUME TypeInv, LedgerInv, CasInv, pc = "stage", step # 1, Residue
  PROVE  EffectFrom(Kind, Created) <= step
<1>1. pend # NoFile /\ step \in Nat
      /\ (Kind # "update" => Len(seg) = Len(pend.gen.pre) + AppendedBy(Kind, Created, step))
  BY StageParts
<1>2. /\ Kind \in Kinds /\ Created \in Nat \ {0} /\ seg \in Seq(Halves)
      /\ pend.gen.pre \in Seq(Halves) /\ Len(pend.gen.pre) \in Nat
  BY <1>1, PendParts
<1>3. CASE Kind = "update"
  <2>1. step > 5
    BY <1>3 DEF CasInv, StageFiles, Residue
  <2>2. QED
    BY <1>1, <1>3, <2>1 DEF EffectFrom
<1>4. CASE Kind # "update"
  <2>1. seg # pend.gen.pre
    BY <1>4 DEF Residue
  <2>2. StagedOn(pend.gen, seg)
    BY <1>1 DEF CasInv, PendInv
  <2>3. Len(seg) # Len(pend.gen.pre)
    <3>1. SUFFICES ASSUME Len(seg) = Len(pend.gen.pre) PROVE FALSE
      OBVIOUS
    <3>2. ASSUME NEW i \in 1..Len(seg) PROVE seg[i] = pend.gen.pre[i]
      <4>1. i <= Len(pend.gen.pre)
        BY <1>2, <3>1
      <4>2. QED
        BY <2>2, <4>1 DEF StagedOn
    <3>3. QED
      BY <1>2, <2>1, <3>1, <3>2, SameSeq
  <2>4. AppendFrom(Kind, Created) \in Nat
    BY <1>2 DEF AppendFrom
  <2>5. ~(step < AppendFrom(Kind, Created))
    <3>1. SUFFICES ASSUME step < AppendFrom(Kind, Created) PROVE FALSE
      OBVIOUS
    <3>2. AppendedBy(Kind, Created, step) = 0
      BY <3>1 DEF AppendedBy
    <3>3. QED
      BY <1>1, <1>2, <1>4, <2>3, <3>2
  <2>6. QED
    BY <1>1, <1>4, <2>4, <2>5 DEF EffectFrom
<1>5. QED
  BY <1>3, <1>4

\* A staging step other than the first and the last.
LEMMA StageAdvances ==
  ASSUME TypeInv, LedgerInv, CasInv, pc = "stage", step # 1,
         UNCHANGED <<gens, pc>>, step' = step + 1,
         pend' # NoFile, pend'.gen = pend.gen, pend'.torn = pend.torn,
         pend.files \subseteq pend'.files,
         StageNow.do = "write" => StageNow.file \in pend'.files,
         StagedOn(pend.gen, seg'), Kind = "update" => seg' = seg,
         seg' = seg \/ StageNow.do = "append",
         \A i \in 1..MaxGenerations : i # Len(gens) + 1 => segs'[i] = segs[i],
         StageNow.do = "create" => segs'[Len(gens) + 1] = pend.gen.new[1],
         StageNow.do # "create" => segs' = segs
  PROVE  CasInv'
<1>1. /\ pend # NoFile /\ step \in Nat
      /\ StepKnown(Kind, Created, step, StageNow)
      /\ StepWrites(Kind, Created, step, StageNow)
  BY StageParts
<1>2. /\ Kind \in Kinds /\ Created \in Nat \ {0} /\ (Kind # "batch" => Created = 1)
      /\ pend.gen.new[1] \in AtomRecs
  BY <1>1, PendParts
<1>0. step + 1 # 1
  BY DEF TypeInv, OwnerTypes
<1>3. Kind' = Kind /\ Created' = Created
  BY DEF Kind, Created
<1>4. StageFiles'
  <2>1. pend.torn = {} /\ \A k \in 0..(Created - 1) :
              /\ step > RecordAt(Kind, k) => <<"record", k>> \in pend.files
              /\ Kind # "update" /\ step > OrphanAt(Kind, k) => <<"orphan", k>> \in pend.files
    BY DEF CasInv, StageFiles
  <2>2. ASSUME NEW k \in 0..(Created - 1)
        PROVE  /\ step + 1 > RecordAt(Kind, k) => <<"record", k>> \in pend'.files
               /\ Kind # "update" /\ step + 1 > OrphanAt(Kind, k) => <<"orphan", k>> \in pend'.files
    <3>1. RecordAt(Kind, k) \in Nat /\ (Kind # "update" => OrphanAt(Kind, k) \in Nat)
      BY <1>2, PlaceBounds
    <3>2. step = RecordAt(Kind, k) => <<"record", k>> \in pend'.files
      BY <1>1 DEF StepWrites, Write
    <3>3. Kind # "update" /\ step = OrphanAt(Kind, k) => <<"orphan", k>> \in pend'.files
      BY <1>1 DEF StepWrites, Write
    <3>4. step + 1 > RecordAt(Kind, k) => step = RecordAt(Kind, k) \/ step > RecordAt(Kind, k)
      BY <1>1, <3>1
    <3>5. Kind # "update" /\ step + 1 > OrphanAt(Kind, k) =>
            step = OrphanAt(Kind, k) \/ step > OrphanAt(Kind, k)
      BY <1>1, <3>1
    <3>6. QED
      BY <2>1, <3>2, <3>3, <3>4, <3>5
  <2>3. Kind = "update" =>
              segs'[Len(gens) + 1] = IF step + 1 > 5 THEN pend.gen.new[1] ELSE NoFile
    <3>1. SUFFICES ASSUME Kind = "update"
                   PROVE  segs'[Len(gens) + 1] = IF step + 1 > 5 THEN pend.gen.new[1] ELSE NoFile
      OBVIOUS
    <3>2. segs[Len(gens) + 1] = IF step > 5 THEN pend.gen.new[1] ELSE NoFile
      BY <3>1 DEF CasInv, StageFiles
    <3>3. StageNow.do = "create" <=> step = 5
      BY <1>1, <3>1 DEF StepWrites
    <3>4. /\ step = 5 => step + 1 > 5
          /\ step # 5 => (step + 1 > 5 <=> step > 5)
      BY <1>1
    <3>5. QED
      BY <3>2, <3>3, <3>4
  <2>4. QED
    BY <1>3, <2>1, <2>2, <2>3 DEF StageFiles
<1>5. Residue' => EffectFrom(Kind, Created) <= step
  <2>1. SUFFICES ASSUME Residue' PROVE EffectFrom(Kind, Created) <= step
    OBVIOUS
  <2>2. CASE Kind = "update"
    <3>1. segs'[Len(gens) + 1] # NoFile
      BY <1>3, <2>1, <2>2 DEF Residue
    <3>2. step + 1 > 5
      BY <1>0, <1>3, <1>4, <2>2, <3>1 DEF StageFiles
    <3>3. QED
      BY <1>1, <2>2, <3>2 DEF EffectFrom
  <2>3. CASE Kind # "update"
    <3>1. seg' # pend.gen.pre
      BY <1>3, <2>1, <2>3 DEF Residue
    <3>2. CASE seg' = seg
      <4>1. Residue
        BY <2>3, <3>1, <3>2 DEF Residue
      <4>2. QED
        BY <4>1, StageResidue
    <3>3. CASE StageNow.do = "append"
      BY <1>1, <2>3, <3>3 DEF StepKnown, EffectFrom
    <3>4. QED
      BY <3>2, <3>3
  <2>4. QED
    BY <2>2, <2>3
<1>6. PendInv'
  <2>1. Residue' => Described(pend)
    BY <1>5, StageDescribed
  <2>2. Described(pend) => Described(pend')
    BY DEF Described
  <2>3. /\ Len(gens) < MaxGenerations /\ WellMade(pend.gen)
        /\ Planned(gens, Len(gens) + 1, pend.gen)
        /\ Kind = "update" => seg = pend.gen.pre
    BY <1>1 DEF CasInv, PendInv
  <2>4. QED
    BY <1>3, <2>1, <2>2, <2>3 DEF PendInv, Kind
<1>7. SegsInv'
  <2>1. \A i : Filed(i)' = Filed(i)
    BY DEF Filed
  <2>2. ASSUME NEW i \in 1..MaxGenerations
        PROVE  segs'[i] = Filed(i) \/ (i = Len(gens) + 1 /\ Kind = "update")
    <3>1. StageNow.do = "create" => Kind = "update"
      BY <1>1 DEF StepWrites
    <3>2. QED
      BY <1>1, <3>1 DEF CasInv, SegsInv
  <2>3. QED
    BY <1>3, <2>1, <2>2 DEF SegsInv
<1>8. PendPhases' /\ SegInv'
  BY <1>0 DEF PendPhases, SegInv
<1>9. QED
  BY <1>4, <1>6, <1>7, <1>8 DEF CasInv

\* One more half of the staged records.
LEMMA StagedMore ==
  ASSUME NEW g \in Generations, NEW s \in Seq(Halves), StagedOn(g, s),
         Len(s) < Len(g.pre) + 2 * Len(g.new)
  PROVE  /\ Chunks(g.new)[Len(s) - Len(g.pre) + 1] \in Halves
         /\ StagedOn(g, Append(s, Chunks(g.new)[Len(s) - Len(g.pre) + 1]))
<1>1. g.pre \in Seq(Halves) /\ g.new \in Seq(AtomRecs)
  BY GenParts
<1>2. Chunks(g.new) \in Seq(Halves) /\ Len(Chunks(g.new)) = 2 * Len(g.new)
  BY <1>1, ChunksType
<1>3. PICK p \in Nat, m \in Nat, l \in Nat : p = Len(g.pre) /\ m = Len(g.new) /\ l = Len(s)
  BY <1>1
<1>4. p <= l /\ l < p + 2 * m
  BY <1>3 DEF StagedOn
<1> DEFINE C == Chunks(g.new)
           x == C[l - p + 1]
           r == Append(s, x)
<1>5. l - p + 1 \in 1..Len(C)
  <2>1. Len(C) = 2 * m
    BY <1>2, <1>3
  <2>2. l - p + 1 \in 1..(2 * m)
    BY <1>4
  <2>3. QED
    BY <2>1, <2>2
<1>6. x \in Halves
  BY <1>2, <1>5
<1> HIDE DEF x
<1>7. Len(r) = l + 1 /\ r[l + 1] = x /\ \A i \in 1..l : r[i] = s[i]
  BY <1>3, <1>6
<1> HIDE DEF r
<1>8. ASSUME NEW i \in 1..(l + 1) PROVE r[i] = IF i <= p THEN g.pre[i] ELSE C[i - p]
  <2>1. CASE i \in 1..l
    <3>1. s[i] = IF i <= Len(g.pre) THEN g.pre[i] ELSE C[i - Len(g.pre)]
      BY <1>3, <2>1 DEF StagedOn
    <3>2. QED
      BY <1>3, <1>7, <2>1, <3>1
  <2>2. CASE i \notin 1..l
    <3>1. i = l + 1 /\ ~(i <= p) /\ i - p = l - p + 1
      BY <1>3, <1>4, <2>2
    <3>2. QED
      BY <1>7, <3>1 DEF x
  <2>3. QED
    BY <2>1, <2>2
<1>9. Len(g.pre) <= Len(r) /\ Len(r) <= Len(g.pre) + 2 * Len(g.new)
  <2>1. p <= l + 1 /\ l + 1 <= p + 2 * m
    BY <1>4
  <2>2. QED
    BY <1>3, <1>7, <2>1
<1>10. StagedOn(g, r)
  BY <1>3, <1>7, <1>8, <1>9 DEF StagedOn
<1>11. QED
  BY <1>3, <1>6, <1>10 DEF r, x

LEMMA StageRunKeeps ==
  ASSUME TypeInv, LedgerInv, CasInv,
         StageComponents \/ StageWrite \/ StageAppend \/ StageCreate
  PROVE  CasInv'
<1>0. pc = "stage" /\ UNCHANGED <<gens, pc>> /\ step' = step + 1
  BY DEF StageComponents, StageWrite, StageAppend, StageCreate, Staging, StageRest
<1>1. step # 1
  BY <1>0, NotFirst DEF StageComponents, StageWrite, StageAppend, StageCreate
<1>2. /\ pend # NoFile /\ step \in Nat /\ rt.n = Len(gens)
      /\ StepKnown(Kind, Created, step, StageNow)
      /\ StepWrites(Kind, Created, step, StageNow)
      /\ Kind # "update" => Len(seg) = Len(pend.gen.pre) + AppendedBy(Kind, Created, step)
  BY <1>0, <1>1, StageParts
<1>3. /\ pend \in Pendings /\ pend.gen \in Generations /\ Kind \in Kinds /\ Created \in Nat \ {0}
      /\ seg \in Seq(Halves) /\ Len(gens) + 1 \in 1..MaxGenerations /\ Len(pend.gen.pre) \in Nat
      /\ pend = [gen |-> pend.gen, components |-> pend.components,
                 files |-> pend.files, torn |-> pend.torn]
  BY <1>2, PendParts
<1>4. segs \in [1..MaxGenerations -> AtomRecs \cup {NoFile, TornFile}]
  BY DEF TypeInv, DiskTypes
<1>5. StagedOn(pend.gen, seg)
  BY <1>2 DEF CasInv, PendInv
<1>6. TypeInv'
  BY StageTypesStep
<1>7. pend' # NoFile
  <2>1. step + 1 # 1
    BY DEF TypeInv, OwnerTypes
  <2>2. pend' \in Pendings
    BY <1>0, <1>6, <2>1 DEF TypeInv, StageTypes
  <2>3. QED
    BY <2>2, FileAssumption
<1>8. CASE StageComponents \/ StageWrite
  <2>1. pend'.gen = pend.gen /\ pend'.torn = pend.torn /\ pend.files \subseteq pend'.files
    BY <1>3, <1>8 DEF StageComponents, StageWrite
  <2>2. StageNow.do = "write" => StageNow.file \in pend'.files
    BY <1>3, <1>8 DEF StageComponents, StageWrite, Staging
  <2>3. StageNow.do # "create" /\ seg' = seg /\ segs' = segs
    BY <1>8 DEF StageComponents, StageWrite, Staging
  <2>4. QED
    BY <1>0, <1>1, <1>5, <1>7, <2>1, <2>2, <2>3, StageAdvances
<1>9. CASE StageAppend
  <2>1. /\ StageNow.do = "append" /\ pend' = pend /\ segs' = segs
        /\ seg' = Append(seg, Chunks(pend.gen.new)[Len(seg) - Len(pend.gen.pre) + 1])
    BY <1>9 DEF StageAppend, Staging
  <2>2. /\ Kind # "update" /\ AppendFrom(Kind, Created) <= step
        /\ step < AppendFrom(Kind, Created) + 2 * Created
    BY <1>2, <2>1 DEF StepKnown
  <2>3. AppendFrom(Kind, Created) \in Nat
    BY <1>3 DEF AppendFrom
  <2>4. AppendedBy(Kind, Created, step) = step - AppendFrom(Kind, Created)
    BY <1>2, <1>3, <2>2, <2>3, AppendedNext
  <2>5. Len(seg) < Len(pend.gen.pre) + 2 * Created
    BY <1>2, <1>3, <2>2, <2>3, <2>4
  <2>6. StagedOn(pend.gen, seg')
    BY <1>3, <1>5, <2>1, <2>5, StagedMore DEF Created
  <2>7. QED
    BY <1>0, <1>1, <1>7, <2>1, <2>2, <2>6, StageAdvances
<1>10. CASE StageCreate
  <2>1. /\ StageNow.do = "create" /\ pend' = pend /\ seg' = seg
        /\ segs' = [segs EXCEPT ![Len(gens) + 1] = pend.gen.new[1]]
    BY <1>2, <1>10 DEF StageCreate, Staging
  <2>2. /\ segs'[Len(gens) + 1] = pend.gen.new[1]
        /\ \A i \in 1..MaxGenerations : i # Len(gens) + 1 => segs'[i] = segs[i]
    BY <1>3, <1>4, <2>1
  <2>3. QED
    BY <1>0, <1>1, <1>5, <1>7, <2>1, <2>2, StageAdvances
<1>11. QED
  BY <1>8, <1>9, <1>10

\* The plan is made on the committed state.
LEMMA PlanPlanned ==
  ASSUME TypeInv, LedgerInv, ReplayInv, SegInv, pend = NoFile, pc = "stage", step = 1,
         AllLive(Len(gens))
  PROVE  Planned(gens, Len(gens) + 1, Plan(op.tx, op.req))
<1>1. rt = StateOf(gens, Len(gens)) /\ seg = SegOf(gens, Len(gens)) /\ gens \in Histories
  BY GensHistory DEF ReplayInv, SegInv, LedgerInv, PhaseInv
<1>2. CASE op.req.kind = "update"
  BY <1>1, <1>2, UpdatePlanned DEF Plan
<1>3. CASE op.req.kind # "update"
  BY <1>1, <1>3, IngestPlanned DEF Plan
<1>4. QED
  BY <1>2, <1>3

LEMMA MkdirKeeps ==
  ASSUME TypeInv, LedgerInv, LedgerInv', ReplayInv, CasInv, AllLive(Len(gens)), StageMkdir
  PROVE  CasInv'
<1>0. /\ pc = "stage" /\ pend = NoFile /\ step' = step + 1 /\ UNCHANGED <<gens, seg, segs, pc>>
      /\ pend' = [gen |-> Plan(op.tx, op.req), components |-> FALSE, files |-> {}, torn |-> {}]
  BY DEF StageMkdir, Staging, StageRest
<1>1. step = 1 /\ step' = 2
  BY <1>0 DEF CasInv, PendPhases
<1> DEFINE P == Plan(op.tx, op.req)
<1>2. P \in Generations /\ WellMade(P) /\ P.pre = seg
  BY <1>0, <1>1, PlanTypes
<1>3. Planned(gens, Len(gens) + 1, P)
  BY <1>0, <1>1, PlanPlanned DEF CasInv
<1>4. Len(gens) < MaxGenerations
  BY <1>0 DEF TypeInv, StageTypes
<1> HIDE DEF P
<1>5. pend'.gen = P /\ pend'.torn = {} /\ pend' \in Pendings
  BY <1>0, <1>2 DEF P, Pendings
<1>6. pend' # NoFile
  BY <1>5, FileAssumption
<1>7. Kind' = P.req.kind /\ Created' = Len(P.new)
  BY <1>5 DEF Kind, Created
<1>8. \A i \in 1..MaxGenerations : segs[i] = Filed(i)
  BY <1>0 DEF CasInv, SegsInv
<1>9. segs[Len(gens) + 1] = NoFile
  <2>1. Len(gens) \in Nat
    BY DEF TypeInv, DiskTypes
  <2>2. Len(gens) + 1 \in 1..MaxGenerations /\ ~(Len(gens) + 1 <= Len(gens))
    BY <1>4, <2>1, BoundsAssumption
  <2>3. QED
    BY <1>8, <2>2 DEF Filed
<1>10. ~Residue'
  BY <1>0, <1>2, <1>5, <1>9 DEF Residue
<1>11. PendInv'
  <2>1. StagedOn(P, seg)
    BY <1>2, StagedNone
  <2>2. QED
    BY <1>0, <1>2, <1>3, <1>4, <1>5, <1>10, <2>1 DEF PendInv
<1>12. SegsInv'
  <2>1. \A i : Filed(i)' = Filed(i)
    BY <1>0 DEF Filed
  <2>2. QED
    BY <1>0, <1>8, <2>1 DEF SegsInv
<1>13. StageFiles'
  <2>1. P.req \in Requests /\ P.new \in Seq(AtomRecs)
    BY <1>2, GenParts
  <2>2. P.req.kind \in Kinds /\ Len(P.new) \in Nat \ {0} /\ (P.req.kind # "batch" => Len(P.new) = 1)
    BY <1>2, <2>1, RequestParts DEF WellMade
  <2>3. PICK kd \in Kinds, m \in Nat \ {0} :
          kd = P.req.kind /\ m = Len(P.new) /\ (kd # "batch" => m = 1)
    BY <2>2
  <2>4. ASSUME NEW k \in 0..(m - 1)
        PROVE  ~(2 > RecordAt(kd, k)) /\ (kd # "update" => ~(2 > OrphanAt(kd, k)))
    <3>1. /\ RecordAt(kd, k) \in Nat /\ 3 <= RecordAt(kd, k)
          /\ kd # "update" => OrphanAt(kd, k) \in Nat /\ 3 <= OrphanAt(kd, k)
      BY <2>3, PlaceBounds
    <3>2. QED
      BY <3>1
  <2>5. ~(2 > 5)
    OBVIOUS
  <2>6. QED
    BY <1>0, <1>1, <1>5, <1>7, <1>9, <2>3, <2>4, <2>5 DEF StageFiles
<1>14. PendPhases' /\ SegInv'
  BY <1>0, <1>1, <1>6 DEF PendPhases, SegInv
<1>15. QED
  BY <1>11, <1>12, <1>13, <1>14 DEF CasInv

\* At the commit point the bytes of the generation are all in place.
LEMMA PublishReady ==
  ASSUME TypeInv, LedgerInv, CasInv, StagePublish
  PROVE  /\ pc = "stage" /\ step # 1 /\ pend # NoFile
         /\ Kind = "update" => seg = pend.gen.pre /\ segs[Len(gens) + 1] = pend.gen.new[1]
         /\ Kind # "update" => seg = pend.gen.pre \o Chunks(pend.gen.new)
<1>0. pc = "stage" /\ StageNow.do = "publish"
  BY DEF StagePublish, Staging
<1>1. step # 1
  BY <1>0, NotFirst DEF StagePublish
<1>2. /\ pend # NoFile /\ step \in Nat
      /\ StepKnown(Kind, Created, step, StageNow)
      /\ Kind # "update" => Len(seg) = Len(pend.gen.pre) + AppendedBy(Kind, Created, step)
  BY <1>0, <1>1, StageParts
<1>3. /\ pend.gen \in Generations /\ Kind \in Kinds /\ Created \in Nat \ {0}
      /\ (Kind # "batch" => Created = 1) /\ seg \in Seq(Halves) /\ Len(pend.gen.pre) \in Nat
  BY <1>2, PendParts
<1>4. step = PlanLen(Kind, Created)
  BY <1>0, <1>2 DEF StepKnown
<1>5. CASE Kind = "update"
  <2>1. step > 5
    BY <1>4, <1>5 DEF PlanLen
  <2>2. QED
    BY <1>0, <1>1, <1>2, <1>5, <2>1 DEF CasInv, PendInv, StageFiles
<1>6. CASE Kind # "update"
  <2>1. PICK m \in Nat \ {0} : m = Created
    BY <1>3
  <2>2. AppendedBy(Kind, m, PlanLen(Kind, m)) = 2 * m
    <3>1. CASE Kind = "direct"
      BY <1>3, <2>1, <3>1 DEF AppendedBy, AppendFrom, PlanLen
    <3>2. CASE Kind = "batch"
      BY <2>1, <3>2 DEF AppendedBy, AppendFrom, PlanLen
    <3>3. QED
      BY <1>3, <1>6, <3>1, <3>2 DEF Kinds
  <2>3. Len(seg) = Len(pend.gen.pre) + 2 * Len(pend.gen.new)
    BY <1>2, <1>4, <1>6, <2>1, <2>2 DEF Created
  <2>4. StagedOn(pend.gen, seg)
    BY <1>2 DEF CasInv, PendInv
  <2>5. QED
    BY <1>0, <1>1, <1>2, <1>3, <1>6, <2>3, <2>4, StagedSuffix
<1>7. QED
  BY <1>5, <1>6

\* The commit moves the staged bytes to the committed ones.
LEMMA PublishKeeps ==
  ASSUME TypeInv, LedgerInv, CasInv, StagePublish
  PROVE  CasInv'
<1>0. gens' = Append(gens, pend.gen) /\ pend' = NoFile /\ pc' = "install" /\ UNCHANGED <<seg, segs>>
  BY DEF StagePublish
<1>1. /\ pend # NoFile
      /\ Kind = "update" => seg = pend.gen.pre /\ segs[Len(gens) + 1] = pend.gen.new[1]
      /\ Kind # "update" => seg = pend.gen.pre \o Chunks(pend.gen.new)
  BY PublishReady
<1>2. /\ pend.gen \in Generations /\ WellMade(pend.gen) /\ pend.gen.pre = SegOf(gens, Len(gens))
      /\ Len(gens) \in Nat /\ Len(gens) + 1 \in 1..MaxGenerations
  BY <1>1, PendParts
<1>3. gens \in Histories
  BY GensHistory
<1>4. /\ gens' \in Histories /\ Len(gens') = Len(gens) + 1 /\ gens'[Len(gens) + 1] = pend.gen
      /\ \A i \in 1..Len(gens) : gens'[i] = gens[i]
  BY <1>0, <1>2, <1>3, Grown
<1>5. SegOf(gens', Len(gens)) = SegOf(gens, Len(gens))
  <2>1. Len(gens) \in 0..Len(gens)
    BY <1>2
  <2>2. QED
    BY <1>0, <1>2, <1>3, <2>1, Agree
<1>6. SegOf(gens', Len(gens)+1) = IF pend.gen.req.kind = "update" THEN SegOf(gens', Len(gens))
                               ELSE SegOf(gens', Len(gens)) \o Chunks(pend.gen.new)
  <2>1. PICK n \in Nat : n = Len(gens)
    BY <1>2
  <2>2. n + 1 \in 1..Len(gens') /\ n + 1 - 1 = n
    BY <1>4, <2>1
  <2>3. SegOf(gens', n + 1) = IF gens'[n + 1].req.kind = "update" THEN SegOf(gens', n + 1 - 1)
                              ELSE SegOf(gens', n + 1 - 1) \o Chunks(gens'[n + 1].new)
    <3>1. PICK G \in Histories, j \in 1..Len(gens') : G = gens' /\ j = n + 1
      BY <1>4, <2>2
    <3>2. SegOf(G, j) = IF G[j].req.kind = "update" THEN SegOf(G, j - 1)
                        ELSE SegOf(G, j - 1) \o Chunks(G[j].new)
      BY <3>1, SegOfStep
    <3>3. QED
      BY <3>1, <3>2
  <2>4. QED
    BY <1>4, <2>1, <2>2, <2>3
<1>7. SegInv'
  BY <1>0, <1>1, <1>2, <1>4, <1>5, <1>6 DEF SegInv, Kind
<1>8. SegsInv'
  <2>1. ASSUME NEW i \in 1..MaxGenerations PROVE segs[i] = Filed(i)'
    <3>1. CASE i = Len(gens) + 1
      <4>1. i <= Len(gens')
        BY <1>2, <1>4, <3>1
      <4>2. Filed(i)' = IF Kind = "update" THEN pend.gen.new[1] ELSE NoFile
        BY <1>4, <3>1, <4>1 DEF Filed, Kind
      <4>3. Kind # "update" => segs[i] = NoFile
        BY <1>1, <3>1, NextFile
      <4>4. QED
        BY <1>1, <3>1, <4>2, <4>3
    <3>2. CASE i # Len(gens) + 1
      <4>1. i <= Len(gens') <=> i \in 1..Len(gens)
        BY <1>2, <1>4, <3>2
      <4>2. i <= Len(gens) <=> i \in 1..Len(gens)
        BY <1>2
      <4>3. Filed(i)' = Filed(i)
        BY <1>4, <4>1, <4>2 DEF Filed
      <4>4. QED
        BY <1>1, <3>2, <4>3, NextFile
    <3>3. QED
      BY <3>1, <3>2
  <2>2. QED
    BY <1>0, <2>1 DEF SegsInv
<1>9. PendPhases' /\ PendInv' /\ StageFiles'
  BY <1>0 DEF PendPhases, PendInv, StageFiles
<1>10. QED
  BY <1>7, <1>8, <1>9 DEF CasInv

\* A file cut short by a crash is not one that describes bytes already written.
LEMMA TornWriteKeeps ==
  ASSUME TypeInv, LedgerInv, CasInv, CrashInStageWrite
  PROVE  CasInv'
<1>0. /\ pc = "stage" /\ StageNow.do = "write" /\ pc' = "down" /\ UNCHANGED <<gens, seg, segs>>
      /\ pend' = [pend EXCEPT !.files = @ \cup {StageNow.file}, !.torn = @ \cup {StageNow.file}]
  BY DEF CrashInStageWrite, Staging, Die
<1>1. step # 1
  BY <1>0, NotFirst DEF Staging
<1>2. /\ pend # NoFile /\ StepKnown(Kind, Created, step, StageNow)
      /\ StepWrites(Kind, Created, step, StageNow)
  BY <1>0, <1>1, StageParts
<1>3. pend \in Pendings /\ pend = [gen |-> pend.gen, components |-> pend.components,
                    files |-> pend.files, torn |-> pend.torn]
  BY <1>2, PendParts
<1>4. /\ pend'.gen = pend.gen /\ pend'.files = pend.files \cup {StageNow.file}
      /\ pend'.torn = pend.torn \cup {StageNow.file}
  BY <1>0, <1>3
<1>5. pend' # NoFile
  <2>1. StageNow.file \in FileNames
    BY <1>0, <1>2 DEF StepKnown
  <2>2. pend' \in Pendings
    BY <1>0, <1>3, <2>1 DEF Pendings
  <2>3. QED
    BY <2>2, FileAssumption
<1>6. Kind' = Kind /\ Created' = Created /\ Residue' = Residue
  BY <1>0, <1>4 DEF Kind, Created, Residue
<1>7. Residue => Described(pend')
  <2>1. SUFFICES ASSUME Residue PROVE Described(pend')
    OBVIOUS
  <2>2. EffectFrom(Kind, Created) <= step
    BY <1>0, <1>1, <2>1, StageResidue
  <2>3. StageNow.file \in {<<"part", 0>>, <<"prepare", 0>>, <<"commit", 0>>}
    BY <1>0, <1>2, <2>2 DEF StepWrites
  <2>4. \A k : StageNow.file # <<"record", k>> /\ StageNow.file # <<"orphan", k>>
    BY <2>3
  <2>5. Described(pend)
    BY <1>0, <1>1, <2>2, StageDescribed
  <2>6. QED
    BY <1>4, <2>4, <2>5 DEF Described
<1>8. PendInv'
  <2>1. /\ Len(gens) < MaxGenerations /\ WellMade(pend.gen)
        /\ Planned(gens, Len(gens) + 1, pend.gen) /\ StagedOn(pend.gen, seg)
        /\ Kind = "update" => seg = pend.gen.pre
    BY <1>2 DEF CasInv, PendInv
  <2>2. QED
    BY <1>0, <1>4, <1>6, <1>7, <2>1 DEF PendInv
<1>9. SegsInv'
  <2>1. \A i : Filed(i)' = Filed(i)
    BY <1>0 DEF Filed
  <2>2. QED
    BY <1>0, <1>5, <1>6, <2>1 DEF CasInv, SegsInv
<1>10. PendPhases' /\ SegInv' /\ StageFiles'
  BY <1>0, <1>5 DEF PendPhases, SegInv, StageFiles
<1>11. QED
  BY <1>8, <1>9, <1>10 DEF CasInv

\* A segment file cut short by a crash is described by its record.
LEMMA TornCreateKeeps ==
  ASSUME TypeInv, LedgerInv, CasInv, CrashInStageCreate
  PROVE  CasInv'
<1>0. /\ pc = "stage" /\ StageNow.do = "create" /\ pc' = "down" /\ UNCHANGED <<gens, pend, seg>>
      /\ segs' = [segs EXCEPT ![rt.n + 1] = TornFile]
  BY DEF CrashInStageCreate, Staging, Die
<1>1. step # 1
  BY <1>0, NotFirst DEF Staging
<1>2. /\ pend # NoFile /\ StepWrites(Kind, Created, step, StageNow) /\ rt.n = Len(gens)
  BY <1>0, <1>1, StageParts
<1>3. Kind = "update" /\ step = 5
  BY <1>0, <1>2 DEF StepWrites
<1>4. Described(pend)
  <2>1. EffectFrom(Kind, Created) <= step
    BY <1>3 DEF EffectFrom
  <2>2. QED
    BY <1>0, <1>1, <2>1, StageDescribed
<1>5. segs \in [1..MaxGenerations -> AtomRecs \cup {NoFile, TornFile}]
  BY DEF TypeInv, DiskTypes
<1>6. \A i \in 1..MaxGenerations : i # Len(gens) + 1 => segs'[i] = segs[i]
  BY <1>0, <1>2, <1>5
<1>7. PendInv'
  <2>1. /\ Len(gens) < MaxGenerations /\ WellMade(pend.gen)
        /\ Planned(gens, Len(gens) + 1, pend.gen) /\ StagedOn(pend.gen, seg)
        /\ Kind = "update" => seg = pend.gen.pre
    BY <1>2 DEF CasInv, PendInv
  <2>2. QED
    BY <1>0, <1>4, <2>1 DEF PendInv, Kind
<1>8. SegsInv'
  <2>1. \A i : Filed(i)' = Filed(i)
    BY <1>0 DEF Filed
  <2>2. QED
    BY <1>0, <1>2, <1>3, <1>6, <2>1 DEF CasInv, SegsInv, Kind
<1>9. PendPhases' /\ SegInv' /\ StageFiles'
  BY <1>0, <1>2 DEF PendPhases, SegInv, StageFiles
<1>10. QED
  BY <1>7, <1>8, <1>9 DEF CasInv

LEMMA CasStep ==
  ASSUME TypeInv, LedgerInv, LedgerInv', EngineInv, [Next]_vars
  PROVE  CasInv'
<1>0. ReplayInv /\ CasInv
  BY DEF EngineInv
<1>1. CASE Calm
  BY <1>0, <1>1, CalmStep
<1>2. CASE RollbackCas
  BY <1>0, <1>2, RollbackKeeps
<1>3. CASE RemovePending
  BY <1>0, <1>3, RemovePendingKeeps
<1>4. CASE RemoveComponents \/ (\E f : RemoveComponentFile(f) \/ RemoveControlFile(f))
  BY <1>0, <1>4, RemoveFileKeeps
<1>5. CASE InstallCas
  BY <1>0, <1>5, InstallCasKeeps, CalmStep
<1>6. CASE Stage
  <2>1. CASE StageMkdir
    <3>1. AllLive(Len(gens))
      BY <2>1 DEF EngineInv, LiveInv, StageMkdir, Staging
    <3>2. QED
      BY <1>0, <2>1, <3>1, MkdirKeeps
  <2>2. CASE StagePublish
    BY <1>0, <2>2, PublishKeeps
  <2>3. QED
    BY <1>0, <1>6, <2>1, <2>2, StageRunKeeps DEF Stage
<1>7. CASE CrashInStageWrite
  BY <1>0, <1>7, TornWriteKeeps
<1>8. CASE CrashInStageCreate
  BY <1>0, <1>8, TornCreateKeeps
<1>9. QED
  BY <1>0, <1>1, <1>2, <1>3, <1>4, <1>5, <1>6, <1>7, <1>8, CalmSteps

LEMMA CasInit == Init => CasInv
<1> SUFFICES ASSUME Init PROVE CasInv
  OBVIOUS
<1>1. gens \in Histories /\ Len(gens) = 0
  BY DEF Init, Histories
<1>2. SegOf(gens, 0) = << >>
  BY <1>1, SegOfStep
<1>3. \A i \in 1..MaxGenerations : ~(i <= Len(gens))
  BY <1>1
<1>4. SegsInv
  BY <1>3 DEF Init, SegsInv, Filed
<1>5. PendPhases /\ PendInv /\ SegInv /\ StageFiles
  BY <1>1, <1>2 DEF Init, PendPhases, PendInv, SegInv, StageFiles
<1>6. QED
  BY <1>4, <1>5 DEF CasInv

-----------------------------------------------------------------------------
(* The live files *)

\* A committed version is the content of a file.
LEMMA FileExists ==
  ASSUME NEW G \in Histories, NEW k \in 0..Len(G), NEW t \in Targets
  PROVE  FileOf(G, t, k) # NoFile
<1>1. StateOf(G, k) \in States /\ LinksOf(G, k) \in Seq(Links)
  BY StateOfStep, LinksOfStep
<1>2. /\ StateOf(G, k).atoms \in Seq(AtomRecs) /\ StateOf(G, k).history \in Seq(Events)
      /\ StateOf(G, k).edges \in Seq(Edges)
  BY <1>1 DEF States
<1>3. /\ NoFile \notin Seq(AtomRecs) /\ NoFile \notin Seq(Events)
      /\ NoFile \notin Seq(Links) /\ NoFile \notin Seq(Edges)
  BY FileAssumption
<1>4. CASE t = "index"
  BY <1>2, <1>3, <1>4 DEF FileOf
<1>5. CASE t = "history"
  BY <1>2, <1>3, <1>5 DEF FileOf
<1>6. CASE t = "sources"
  BY <1>1, <1>3, <1>6 DEF FileOf
<1>7. CASE t \in {"current", "graph"}
  BY <1>2, <1>3, <1>7 DEF FileOf
<1>8. QED
  BY <1>4, <1>5, <1>6, <1>7 DEF Targets

\* Before the first generation every file is empty.
LEMMA FirstFiles ==
  ASSUME NEW G \in Histories, NEW t \in Targets
  PROVE  FileOf(G, t, 0) = << >>
<1>1. StateOf(G, 0) = EmptyState /\ LinksOf(G, 0) = << >>
  BY StateOfStep, LinksOfStep
<1>2. EmptyState.atoms = << >> /\ EmptyState.history = << >> /\ EmptyState.edges = << >>
  BY DEF EmptyState
<1>3. QED
  BY <1>1, <1>2 DEF FileOf, Targets

\* A further generation leaves the earlier versions of every file.
LEMMA FilesAgree ==
  ASSUME NEW G \in Histories, NEW g \in Generations, WellMade(g), NEW k \in 0..Len(G), NEW t
  PROVE  FileOf(Append(G, g), t, k) = FileOf(G, t, k)
  BY Agree DEF FileOf

\* The phases in which the runtime has been opened.
Served == {"opened", "decide", "stage", "reply"}

\* Most steps leave the live files, and what is claimed of them, alone.
LiveCalm ==
    /\ UNCHANGED <<gens, live, temp>>
    /\ pend' # NoFile => pend # NoFile \/ pc = "stage"
    /\ pc' \in Served => pc \in Served
    /\ pc' = "install" => step' = 1 \/ (pc = "install" /\ step' = step)

\* Every way to return leaves the live files alone.
LEMMA RefuseLiveCalm == \A c : Refuse(c) => LiveCalm
  BY DEF Refuse, Return, LiveCalm, disk, Served

LEMMA FailLiveCalm == \A c : Fail(c) => LiveCalm
  BY DEF Fail, Return, LiveCalm, disk, Served

LEMMA SucceedLiveCalm == \A r : Succeed(r) => LiveCalm
  BY DEF Succeed, ReturnReceipt, Return, LiveCalm, disk, Served

LEMMA LiveCalmSteps ==
  ASSUME TypeInv, LedgerInv, [Next]_vars
  PROVE  \/ LiveCalm
         \/ ReplayEmpty \/ InstallCas \/ InstallSkip \/ InstallTemp \/ InstallRename \/ InstallDone
         \/ StagePublish \/ CrashInInstallTemp
<1>1. CASE \E tx \in TxIds, req \in Requests : Begin(tx, req)
  BY <1>1 DEF Begin, disk, LiveCalm, Served
<1>2. CASE Open
  <2>1. CASE Start \/ CheckNoPending \/ RollbackCas \/ RemovePending
    BY <2>1 DEF Start, CheckNoPending, RollbackCas, RemovePending, disk, LiveCalm, Served
  <2>2. CASE Opened
    BY <2>2 DEF Opened, disk, LiveCalm, Served, LedgerInv, PhaseInv
  <2>3. CASE CheckRefuses
    BY <2>3, RefuseLiveCalm DEF CheckRefuses
  <2>4. CASE RemoveComponents \/ \E f \in (IF pc = "remove" THEN pend.files ELSE {}) :
               RemoveComponentFile(f) \/ RemoveControlFile(f)
    <3>1. pc = "remove" /\ UNCHANGED <<gens, live, temp, pc, step>>
      BY <2>4 DEF RemoveComponents, RemoveComponentFile, RemoveControlFile, owner
    <3>2. pend # NoFile
      BY <3>1, FileAssumption DEF TypeInv, OwnerTypes
    <3>3. QED
      BY <3>1, <3>2 DEF LiveCalm, Served
  <2>5. CASE ReplayGeneration
    BY <2>5, RefuseLiveCalm DEF ReplayGeneration, LiveCalm, disk, Served
  <2>6. CASE ReplayHead
    BY <2>6, RefuseLiveCalm DEF ReplayHead, LiveCalm, disk, Served
  <2>7. QED
    BY <1>2, <2>1, <2>2, <2>3, <2>4, <2>5, <2>6 DEF Open
<1>3. CASE InstallRefuses
  BY <1>3, RefuseLiveCalm DEF InstallRefuses
<1>4. CASE Decide
  <2>1. CASE \/ DecideOtherKind \/ DecideMalformed \/ DecideReject
             \/ DecideRemembered \/ DecideRetry \/ DecideUnchanged
    BY <2>1, FailLiveCalm, SucceedLiveCalm DEF DecideOtherKind, DecideMalformed, DecideReject,
       DecideRemembered, DecideRetry, DecideUnchanged
  <2>2. CASE DecideStage
    BY <2>2 DEF DecideStage, LiveCalm, disk, Fresh, Looking, Deciding, Served
  <2>3. QED
    BY <1>4, <2>1, <2>2 DEF Decide
<1>5. CASE StageMkdir \/ StageComponents \/ StageWrite \/ StageAppend \/ StageCreate
  BY <1>5 DEF StageMkdir, StageComponents, StageWrite, StageAppend, StageCreate, Staging,
     StageRest, LiveCalm, Served
<1>6. CASE Finish
  BY <1>6, SucceedLiveCalm DEF Finish
<1>7. CASE Crash \/ CrashInStageWrite \/ CrashInStageCreate \/ IoError
  BY <1>7 DEF Crash, CrashInStageWrite, CrashInStageCreate, IoError, Staging, Die, Return, disk,
     LiveCalm, Served
<1>8. CASE UNCHANGED vars
  BY <1>8 DEF vars, LiveCalm
<1>9. QED
  BY <1>1, <1>2, <1>3, <1>4, <1>5, <1>6, <1>7, <1>8 DEF Next, Progress, Fault, Install, Stage

\* What the next state needs when no live file changes.
LEMMA LiveStays ==
  ASSUME LiveInv, UNCHANGED <<gens, live, temp>>,
         pend' # NoFile \/ pc' \in Served => AllLive(Len(gens)),
         pc' = "install" =>
            \A j \in 1..Len(InstallList(HeadGen.req.kind)) :
              j < step' /\ TargetAt(j) # "cas" =>
                  LiveRecords(TargetAt(j)) = FileOf(gens, TargetAt(j), Len(gens))
  PROVE  LiveInv'
<1>1. \A t : LiveRecords(t)' = LiveRecords(t)
  BY DEF LiveRecords
<1>2. AllLive(Len(gens))' = AllLive(Len(gens))
  BY DEF AllLive, LiveRecords
<1>3. HeadGen' = HeadGen /\ \A j : TargetAt(j)' = TargetAt(j)
  BY DEF HeadGen, TargetAt
<1>4. QED
  BY <1>1, <1>2, <1>3 DEF LiveInv, Served

\* Such a step keeps the claims about the live files.
LEMMA LiveCalmKeeps ==
  ASSUME TypeInv, LiveInv, LiveCalm
  PROVE  LiveInv'
<1>1. pend' # NoFile \/ pc' \in Served => AllLive(Len(gens))
  BY DEF LiveCalm, LiveInv, Served
<1>2. ASSUME pc' = "install", NEW j \in 1..Len(InstallList(HeadGen.req.kind)),
             j < step', TargetAt(j) # "cas"
      PROVE  LiveRecords(TargetAt(j)) = FileOf(gens, TargetAt(j), Len(gens))
  <2>1. step' # 1
    BY <1>2
  <2>2. QED
    BY <1>2, <2>1 DEF LiveCalm, LiveInv
<1>3. QED
  BY <1>1, <1>2, LiveStays DEF LiveCalm

\* The installation lists.
LEMMA ListParts ==
  ASSUME NEW kind \in Kinds
  PROVE  /\ kind = "direct" => /\ Len(InstallList(kind)) = 3 /\ InstallList(kind)[1] = "cas"
                               /\ InstallList(kind)[2] = "index" /\ InstallList(kind)[3] = "history"
         /\ kind = "batch" => /\ Len(InstallList(kind)) = 3 /\ InstallList(kind)[1] = "index"
                               /\ InstallList(kind)[2] = "history" /\ InstallList(kind)[3] = "cas"
         /\ kind = "update" => /\ Len(InstallList(kind)) = 6 /\ InstallList(kind)[1] = "cas"
                               /\ InstallList(kind)[2] = "index" /\ InstallList(kind)[3] = "sources"
                               /\ InstallList(kind)[4] = "history" /\ InstallList(kind)[5] = "current"
                               /\ InstallList(kind)[6] = "graph"
  BY DEF InstallList

LEMMA HeadKind ==
  ASSUME TypeInv, LedgerInv, pc = "install"
  PROVE  HeadGen.req.kind \in Kinds
  BY HeadTypes, RequestParts

\* The list of an ingest has no target of an update.
LEMMA TargetListed ==
  ASSUME TypeInv, LedgerInv, Installing, Target # "cas"
  PROVE  Target \in Targets /\ InList(Target)
<1>1. Target \in Targets
  BY TargetType
<1>2. HeadGen.req.kind \in Kinds
  BY HeadKind DEF Installing
<1>3. CASE HeadGen.req.kind = "update"
  BY <1>1, <1>3 DEF InList
<1>4. CASE HeadGen.req.kind # "update"
  <2>1. Len(InstallList(HeadGen.req.kind)) = 3
    BY <1>2, <1>4, ListParts DEF Kinds
  <2>2. step \in {1, 2, 3}
    BY <2>1 DEF Installing, TypeInv, OwnerTypes
  <2>3. Target \in {"index", "history"}
    BY <1>2, <1>4, <2>2, ListParts DEF Target, Kinds
  <2>4. QED
    BY <1>1, <2>3 DEF InList
<1>5. QED
  BY <1>3, <1>4

\* Every target of the head is in its list.
LEMMA ListComplete ==
  ASSUME TypeInv, LedgerInv, pc = "install", NEW t \in Targets, InList(t)
  PROVE  \E j \in 1..Len(InstallList(HeadGen.req.kind)) : TargetAt(j) = t
<1>1. HeadGen.req.kind \in Kinds
  BY HeadKind
<1>2. CASE HeadGen.req.kind = "direct"
  <2>1. t \in {"index", "history"}
    BY <1>2 DEF InList
  <2>2. 2 \in 1..3 /\ 3 \in 1..3
    OBVIOUS
  <2>3. QED
    BY <1>1, <1>2, <2>1, <2>2, ListParts DEF TargetAt
<1>3. CASE HeadGen.req.kind = "batch"
  <2>1. t \in {"index", "history"}
    BY <1>3 DEF InList
  <2>2. 1 \in 1..3 /\ 2 \in 1..3
    OBVIOUS
  <2>3. QED
    BY <1>1, <1>3, <2>1, <2>2, ListParts DEF TargetAt
<1>4. CASE HeadGen.req.kind = "update"
  <2>2. 2 \in 1..6 /\ 3 \in 1..6 /\ 4 \in 1..6 /\ 5 \in 1..6 /\ 6 \in 1..6
    OBVIOUS
  <2>3. QED
    BY <1>1, <1>4, <2>2, ListParts DEF TargetAt, Targets
<1>5. QED
  BY <1>1, <1>2, <1>3, <1>4 DEF Kinds

\* What the installation finds at its current target.
LEMMA AtTarget ==
  ASSUME TypeInv, LedgerInv, ReplayInv, LiveInv, Installing, Target # "cas"
  PROVE  /\ Target \in Targets /\ gens # << >> /\ gens \in Histories
         /\ Installed(Target) <=> LiveRecords(Target) = FileOf(gens, Target, Len(gens))
         /\ ~Installed(Target) => /\ ~OutOfOrder(Target)
                                  /\ InstallBytes(Target) = FileOf(gens, Target, Len(gens))
<1>1. Target \in Targets /\ InList(Target)
  BY TargetListed
<1>2. gens # << >> /\ gens \in Histories /\ live \in LiveFiles /\ PlannedAll(gens)
  BY GensHistory DEF Installing, LedgerInv, PhaseInv, TypeInv, DiskTypes, ReplayInv
<1>3. \/ LiveRecords(Target) = FileOf(gens, Target, Len(gens))
      \/ LiveRecords(Target) = FileOf(gens, Target, Len(gens) - 1)
  BY <1>1 DEF LiveInv
<1>4. QED
  BY <1>1, <1>2, <1>3, HeadInstall

\* The list before the next position, once the current one is done.
LEMMA ListAdvances ==
  ASSUME TypeInv, LedgerInv, LiveInv, Installing,
         Target # "cas" => LiveRecords(Target) = FileOf(gens, Target, Len(gens)),
         NEW j \in 1..Len(InstallList(HeadGen.req.kind)), j < step + 1, TargetAt(j) # "cas"
  PROVE  LiveRecords(TargetAt(j)) = FileOf(gens, TargetAt(j), Len(gens))
<1>1. step \in Nat /\ j \in Nat
  BY DEF TypeInv, OwnerTypes
<1>2. CASE j = step
  BY <1>2 DEF Target, TargetAt
<1>3. CASE j < step
  BY <1>3 DEF LiveInv, Installing
<1>4. QED
  BY <1>1, <1>2, <1>3

LEMMA InstallStepKeeps ==
  ASSUME TypeInv, LedgerInv, ReplayInv, CasInv, LiveInv, InstallCas \/ InstallSkip
  PROVE  LiveInv'
<1>1. Installing /\ pc = "install" /\ pend = NoFile
  BY DEF InstallCas, InstallSkip, Installing, CasInv, PendPhases
<1>2. Target # "cas" => LiveRecords(Target) = FileOf(gens, Target, Len(gens))
  BY <1>1, AtTarget DEF InstallCas, InstallSkip
<1>3. UNCHANGED <<gens, live, temp, pend, pc>> /\ step' = step + 1
  <2>1. CASE InstallCas
    BY <1>1, <2>1, HeadBytes DEF InstallCas
  <2>2. CASE InstallSkip
    BY <2>2 DEF InstallSkip, disk
  <2>3. QED
    BY <2>1, <2>2
<1>4. pend' # NoFile \/ pc' \in Served => AllLive(Len(gens))
  BY <1>1, <1>3 DEF Served
<1>5. QED
  BY <1>1, <1>2, <1>3, <1>4, ListAdvances, LiveStays

\* At the end of the list every file has its new version.
LEMMA InstallDoneKeeps ==
  ASSUME TypeInv, LedgerInv, ReplayInv, CasInv, LiveInv, InstallDone
  PROVE  LiveInv'
<1>1. pc = "install" /\ ~Installing /\ pend = NoFile /\ gens # << >>
  BY DEF InstallDone, CasInv, PendPhases, LedgerInv, PhaseInv
<1>2. AllLive(Len(gens))
  <2>1. ASSUME NEW t \in Targets, InList(t)
        PROVE  LiveRecords(t) = FileOf(gens, t, Len(gens))
    <3>1. PICK j \in 1..Len(InstallList(HeadGen.req.kind)) : TargetAt(j) = t
      BY <1>1, <2>1, ListComplete
    <3>2. Len(InstallList(HeadGen.req.kind)) \in Nat /\ step \in Nat
      BY <1>1, HeadKind, ListParts DEF Kinds, TypeInv, OwnerTypes
    <3>3. j < step
      BY <1>1, <3>2 DEF Installing
    <3>4. t # "cas"
      BY DEF Targets
    <3>5. QED
      BY <1>1, <3>1, <3>3, <3>4 DEF LiveInv
  <2>2. ASSUME NEW t \in Targets, ~InList(t)
        PROVE  LiveRecords(t) = FileOf(gens, t, Len(gens))
    BY <1>1, <2>2, GensHistory, NotInstalled DEF LiveInv
  <2>3. QED
    BY <2>1, <2>2 DEF AllLive
<1>3. CASE LiveCalm
  BY <1>3, LiveCalmKeeps
<1>4. CASE ~LiveCalm
  <2>1. UNCHANGED <<gens, live, temp>> /\ pc' # "install"
    BY <1>4, RefuseLiveCalm DEF InstallDone, disk
  <2>2. QED
    BY <1>2, <2>1, LiveStays
<1>5. QED
  BY <1>3, <1>4

\* A base that equals its baseline has the first version of every file.
LEMMA ReplayEmptyKeeps ==
  ASSUME TypeInv, LedgerInv, CasInv, LiveInv, ReplayEmpty
  PROVE  LiveInv'
<1>1. CASE live = BaselineLive /\ seg = << >>
  <2>1. UNCHANGED <<gens, live, temp, pend>> /\ pc' = "opened" /\ gens = << >>
    BY <1>1 DEF ReplayEmpty, disk
  <2>2. AllLive(Len(gens))
    <3>1. gens \in Histories /\ Len(gens) = 0
      BY <2>1, GensHistory
    <3>2. ASSUME NEW t \in Targets PROVE LiveRecords(t) = << >>
      BY <1>1 DEF LiveRecords, BaselineLive, Targets
    <3>3. QED
      BY <3>1, <3>2, FirstFiles DEF AllLive
  <2>3. QED
    BY <2>1, <2>2, LiveStays
<1>2. CASE ~(live = BaselineLive /\ seg = << >>)
  BY <1>2, RefuseLiveCalm, LiveCalmKeeps DEF ReplayEmpty
<1>3. QED
  BY <1>1, <1>2

\* A temporary is only made for a target that still has its old version.
LEMMA InstallTempKeeps ==
  ASSUME TypeInv, LedgerInv, ReplayInv, LiveInv, CasInv, InstallTemp \/ CrashInInstallTemp
  PROVE  LiveInv'
<1>1. /\ Installing /\ Target # "cas" /\ ~Installed(Target) /\ UNCHANGED <<gens, live, pend>>
      /\ pc' = "down" \/ (pc' = "install" /\ step' = step)
  BY DEF InstallTemp, CrashInInstallTemp, owner, Die, Installing
<1>2. Target \in Targets /\ LiveRecords(Target) # FileOf(gens, Target, Len(gens))
  BY <1>1, AtTarget
<1>3. \A t \in Targets : t # Target => temp'[t] = temp[t]
  <2>1. DOMAIN temp = Targets
    BY DEF TypeInv, DiskTypes
  <2>2. \A x : \A t \in Targets : t # Target => [temp EXCEPT ![Target] = x][t] = temp[t]
    BY <2>1
  <2>3. QED
    BY <2>2 DEF InstallTemp, CrashInInstallTemp
<1>4. \A t : LiveRecords(t)' = LiveRecords(t)
  BY <1>1 DEF LiveRecords
<1>5. \A t \in Targets : temp'[t] = NoFile \/ LiveRecords(t) # FileOf(gens, t, Len(gens))
  BY <1>2, <1>3 DEF LiveInv
<1>6. pend' = NoFile /\ pc' \notin Served
  BY <1>1 DEF Served, Installing, CasInv, PendPhases
<1>7. HeadGen' = HeadGen /\ \A j : TargetAt(j)' = TargetAt(j)
  BY <1>1 DEF HeadGen, TargetAt
<1>8. pc' = "install" => pc = "install" /\ step' = step
  BY <1>1 DEF Installing
<1>9. QED
  BY <1>1, <1>4, <1>5, <1>6, <1>7, <1>8 DEF LiveInv, Served

\* The rename gives the target its new version.
LEMMA InstallRenameKeeps ==
  ASSUME TypeInv, LedgerInv, ReplayInv, LiveInv, CasInv, InstallRename
  PROVE  LiveInv'
<1>0. PICK x : x = Target
  OBVIOUS
<1>1. /\ Installing /\ x # "cas" /\ ~Installed(x)
      /\ UNCHANGED <<gens, pend, pc>> /\ pc = "install" /\ step' = step + 1
      /\ temp[x] = InstallBytes(x)
      /\ live' = [live EXCEPT ![x] = temp[x]]
      /\ temp' = [temp EXCEPT ![x] = NoFile]
  BY <1>0 DEF InstallRename, Installing
<1>2. /\ x \in Targets /\ gens # << >> /\ gens \in Histories
      /\ InstallBytes(x) = FileOf(gens, x, Len(gens))
  BY <1>0, <1>1, AtTarget
<1>3. FileOf(gens, x, Len(gens)) # NoFile
  <2>1. Len(gens) \in 0..Len(gens)
    BY <1>2, HistoryParts
  <2>2. QED
    BY <1>2, <2>1, FileExists
<1>4. DOMAIN live = Targets /\ DOMAIN temp = Targets
  BY DEF TypeInv, DiskTypes, LiveFiles, Targets
<1>5. /\ live'[x] = FileOf(gens, x, Len(gens)) /\ temp'[x] = NoFile
      /\ \A t \in Targets : t # x => live'[t] = live[t] /\ temp'[t] = temp[t]
  BY <1>1, <1>2, <1>4
<1>6. LiveRecords(x)' = FileOf(gens, x, Len(gens))
  BY <1>3, <1>5 DEF LiveRecords
<1>7. \A t \in Targets : t # x => LiveRecords(t)' = LiveRecords(t)
  BY <1>5 DEF LiveRecords
<1>8. \A t \in Targets :
          \/ LiveRecords(t)' = FileOf(gens, t, Len(gens))
          \/ gens # << >> /\ LiveRecords(t)' = FileOf(gens, t, Len(gens) - 1)
  BY <1>6, <1>7 DEF LiveInv
<1>9. \A t \in Targets : temp'[t] = NoFile \/ LiveRecords(t)' # FileOf(gens, t, Len(gens))
  BY <1>5, <1>7 DEF LiveInv
<1>10. HeadGen' = HeadGen /\ \A j : TargetAt(j)' = TargetAt(j)
  BY <1>1 DEF HeadGen, TargetAt
<1>11. ASSUME NEW j \in 1..Len(InstallList(HeadGen.req.kind)), j < step + 1, TargetAt(j) # "cas"
       PROVE  TargetAt(j) \in Targets
                /\ LiveRecords(TargetAt(j))' = FileOf(gens, TargetAt(j), Len(gens))
  <2>1. PICK y : y = TargetAt(j) /\ y' = y
    OBVIOUS
  <2>2. y \in Targets
    BY <1>1, <1>11, <2>1, HeadKind, ListParts, SMTT(60) DEF TargetAt, Targets, Kinds
  <2>3. y # x => LiveRecords(y) = FileOf(gens, y, Len(gens))
    <3>1. j = step => y = x
      BY <1>0, <2>1 DEF TargetAt, Target
    <3>2. step \in Nat /\ j \in Nat
      BY DEF TypeInv, OwnerTypes
    <3>3. y # x => j < step
      BY <1>11, <3>1, <3>2
    <3>4. QED
      BY <1>1, <1>11, <2>1, <3>3 DEF LiveInv
  <2>4. LiveRecords(y)' = FileOf(gens, y, Len(gens))
    BY <1>6, <1>7, <2>2, <2>3
  <2>5. QED
    BY <1>10, <2>1, <2>2, <2>4
<1>12. live'.sources # << >>
  <2>1. CASE x = "sources"
    <3>1. HeadGen.req.kind = "update"
      BY <1>0, <1>1, <2>1, TargetListed DEF InList
    <3>2. PICK n \in Nat : n = Len(gens) /\ n \in 1..Len(gens) /\ n - 1 \in 0..Len(gens)
      BY <1>2, HistoryParts
    <3>3. LinksOf(gens, n) = LinksOf(gens, n - 1) \o HeadGen.comp.sources
      BY <1>2, <3>1, <3>2, LinksOfStep DEF HeadGen
    <3>4. Len(HeadGen.comp.sources) = 1
      BY <3>1, <3>2 DEF HeadGen, ReplayInv, PlannedAll, Planned, PlannedFrom, PlannedUpdate
    <3>5. LinksOf(gens, n - 1) \in Seq(Links) /\ HeadGen.comp.sources \in Seq(Links)
      BY <1>1, <1>2, <3>2, LinksOfStep, HeadTypes, GenParts
    <3>6. \A a \in Seq(Links), b \in Seq(Links) : Len(b) = 1 => a \o b # << >>
      OBVIOUS
    <3>7. FileOf(gens, x, Len(gens)) = LinksOf(gens, n)
      BY <2>1, <3>2 DEF FileOf
    <3>8. live'[x] # << >>
      BY <1>5, <3>3, <3>4, <3>5, <3>6, <3>7
    <3>9. QED
      BY <2>1, <3>8
  <2>2. CASE x # "sources"
    <3>1. "sources" \in Targets
      BY DEF Targets
    <3>2. QED
      BY <1>5, <2>2, <3>1 DEF LiveInv
  <2>3. QED
    BY <2>1, <2>2
<1>13. pend' = NoFile /\ pc' \notin {"opened", "decide", "stage", "reply"}
  BY <1>1 DEF CasInv, PendPhases
<1>14. pc' = "install" =>
          \A j \in 1..Len(InstallList(HeadGen'.req.kind)) :
              j < step' /\ TargetAt(j)' # "cas" =>
                  LiveRecords(TargetAt(j))' = FileOf(gens', TargetAt(j)', Len(gens'))
  BY <1>1, <1>10, <1>11
<1>15. QED
  BY <1>1, <1>8, <1>9, <1>12, <1>13, <1>14 DEF LiveInv

\* A commit makes the new versions the old ones.
LEMMA PublishLive ==
  ASSUME TypeInv, LedgerInv, CasInv, LiveInv, StagePublish
  PROVE  LiveInv'
<1>0. gens' = Append(gens, pend.gen) /\ pend' = NoFile /\ pc' = "install" /\ step' = 1
      /\ UNCHANGED <<live, temp>>
  BY DEF StagePublish
<1>1. pc = "stage" /\ pend # NoFile
  BY PublishReady
<1>2. pend.gen \in Generations /\ WellMade(pend.gen) /\ Len(gens) \in Nat /\ gens \in Histories
  BY <1>1, PendParts, GensHistory
<1>3. Len(gens') = Len(gens) + 1 /\ Len(gens') - 1 = Len(gens) /\ gens' # << >>
  BY <1>0, <1>2, Grown
<1>4. AllLive(Len(gens)) /\ \A t \in Targets : temp[t] = NoFile
  BY <1>1 DEF LiveInv, AllLive
<1>5. ASSUME NEW t \in Targets PROVE LiveRecords(t)' = FileOf(gens', t, Len(gens') - 1)
  <2>1. LiveRecords(t)' = LiveRecords(t)
    BY <1>0 DEF LiveRecords
  <2>2. Len(gens) \in 0..Len(gens)
    BY <1>2
  <2>3. FileOf(gens', t, Len(gens)) = FileOf(gens, t, Len(gens))
    BY <1>0, <1>2, <2>2, FilesAgree
  <2>4. QED
    BY <1>3, <1>4, <2>1, <2>3 DEF AllLive
<1>6. \A j \in 1..Len(InstallList(HeadGen'.req.kind)) : ~(j < step')
  BY <1>0
<1>7. live'.sources # << >>
  BY <1>0 DEF LiveInv
<1>8. QED
  BY <1>0, <1>3, <1>4, <1>5, <1>6, <1>7 DEF LiveInv

LEMMA LiveStep ==
  ASSUME TypeInv, LedgerInv, EngineInv, [Next]_vars
  PROVE  LiveInv'
<1>0. ReplayInv /\ CasInv /\ LiveInv
  BY DEF EngineInv
<1>1. CASE LiveCalm
  BY <1>0, <1>1, LiveCalmKeeps
<1>2. CASE ReplayEmpty
  BY <1>0, <1>2, ReplayEmptyKeeps
<1>3. CASE InstallCas \/ InstallSkip
  BY <1>0, <1>3, InstallStepKeeps
<1>4. CASE InstallTemp \/ CrashInInstallTemp
  BY <1>0, <1>4, InstallTempKeeps
<1>5. CASE InstallRename
  BY <1>0, <1>5, InstallRenameKeeps
<1>6. CASE InstallDone
  BY <1>0, <1>6, InstallDoneKeeps
<1>7. CASE StagePublish
  BY <1>0, <1>7, PublishLive
<1>8. QED
  BY <1>1, <1>2, <1>3, <1>4, <1>5, <1>6, <1>7, LiveCalmSteps

LEMMA LiveInit == Init => LiveInv
<1> SUFFICES ASSUME Init PROVE LiveInv
  OBVIOUS
<1>1. gens = << >> /\ live = BaselineLive /\ temp = [t \in Targets |-> NoFile] /\ pend = NoFile /\ pc = "down"
  BY DEF Init
<1>2. gens \in Histories /\ Len(gens) = 0
  BY <1>1 DEF Histories
<1>3. ASSUME NEW t \in Targets PROVE LiveRecords(t) = FileOf(gens, t, Len(gens))
  <2>1. LiveRecords(t) = << >>
    BY <1>1 DEF LiveRecords, BaselineLive, Targets
  <2>2. QED
    BY <1>2, <2>1, FirstFiles
<1>4. live.sources # << >>
  <2>1. << >> \in Seq(Links) /\ NoFile \notin Seq(Links)
    BY FileAssumption
  <2>2. QED
    BY <1>1, <2>1 DEF BaselineLive
<1>5. QED
  BY <1>1, <1>3, <1>4 DEF LiveInv

-----------------------------------------------------------------------------
(* Refusals *)

\* The refusals a crash can lead to.
Anticipated == {"none", "io", "control-without-components", "half-descriptor",
                "torn-descriptor", "target-conflict", "temp-conflict"}

LEMMA RefuseAnticipated ==
  ASSUME NEW c \in Anticipated \cup {"digest"}, Refuse(c), c = "digest" => TwoUpdates
  PROVE  RefusesOnlyFor'
<1>1. refused' = c /\ gens' = gens
  BY DEF Refuse, disk
<1>2. CASE c \in Anticipated
  BY <1>1, <1>2 DEF Anticipated, RefusesOnlyFor
<1>3. CASE c = "digest"
  BY <1>1, <1>3 DEF RefusesOnlyFor, TwoUpdates
<1>4. QED
  BY <1>2, <1>3

LEMMA RefusedKept ==
  ASSUME RefusesOnlyFor, gens' = gens, refused' = refused \/ refused' \in Anticipated
  PROVE  RefusesOnlyFor'
  BY DEF RefusesOnlyFor, Anticipated

\* A base without generations is its baseline.
LEMMA BaselineHolds ==
  ASSUME TypeInv, CasInv, LiveInv, pc = "replay", gens = << >>
  PROVE  live = BaselineLive /\ seg = << >>
<1>1. gens \in Histories /\ Len(gens) = 0
  BY GensHistory
<1>2. seg = << >>
  BY <1>1, SegOfStep DEF CasInv, PendPhases, SegInv
<1>3. \A t \in Targets : LiveRecords(t) = << >>
  BY <1>1, FirstFiles DEF LiveInv
<1>4. live \in LiveFiles /\ live.sources # << >>
  BY DEF TypeInv, DiskTypes, LiveInv
<1>5. /\ live.index = << >> /\ live.history = << >> /\ live.current = << >> /\ live.graph = << >>
      /\ LiveRecords("sources") = << >>
  BY <1>3, <1>4, LiveParts DEF Targets
<1>6. live.sources = NoFile
  BY <1>4, <1>5, LiveParts
<1>7. live = BaselineLive
  BY <1>4, <1>5, <1>6 DEF LiveFiles, BaselineLive
<1>8. QED
  BY <1>2, <1>7

\* Every generation replays on what the earlier ones commit, and only a second
\* update can disagree with its digest.
LEMMA ReplayHolds ==
  ASSUME TypeInv, LedgerInv, ReplayInv, CasInv, pend = NoFile, fold.n + 1 \in 1..Len(gens)
  PROVE  /\ Lineage(fold, gens[fold.n + 1])
         /\ ~DigestMatches(fold, gens[fold.n + 1]) => TwoUpdates
<1>1. PICK k \in 1..Len(gens) : k = fold.n + 1
  OBVIOUS
<1>2. fold.n \in Nat /\ k - 1 = fold.n
  BY <1>1 DEF LedgerInv
<1>3. fold = StateOf(gens, k - 1) /\ gens \in Histories /\ PlannedAll(gens) /\ OneGenerationPerTx
      /\ seg = SegOf(gens, Len(gens))
  BY <1>2, GensHistory DEF ReplayInv, LedgerInv, CasInv, SegInv
<1>4. Lineage(StateOf(gens, k - 1), gens[k])
  BY <1>3, Replays
<1>5. ~DigestMatches(StateOf(gens, k - 1), gens[k]) => TwoUpdates
  BY <1>3, DigestFails
<1>6. QED
  BY <1>1, <1>3, <1>4, <1>5

\* No step refuses for another reason.
LEMMA RefuseStep ==
  ASSUME TypeInv, LedgerInv, EngineInv, RefusesOnlyFor, [Next]_vars
  PROVE  RefusesOnlyFor'
<1>0. ReplayInv /\ CasInv /\ LiveInv /\ Len(gens) \in Nat /\ fold.n \in Nat
  BY DEF EngineInv, TypeInv, DiskTypes, LedgerInv
<1>1. CASE \E tx \in TxIds, req \in Requests : Begin(tx, req)
  BY <1>1, RefusedKept DEF Begin, disk, Anticipated
<1>2. CASE Open
  <2>1. CASE Start \/ CheckNoPending \/ RollbackCas \/ RemovePending \/ Opened
    BY <2>1, RefusedKept DEF Start, CheckNoPending, RollbackCas, RemovePending, Opened, disk,
       history, Anticipated
  <2>2. CASE CheckRefuses
    <3>1. pend # NoFile
      BY <2>2 DEF CheckRefuses
    <3>2. Rollback \in {"none", "truncate", "remove"} \/ Rollback \in Anticipated
      BY <1>0, <3>1, RollbackKnown DEF Anticipated
    <3>3. PICK c \in Anticipated : Refuse(c)
      BY <2>2, <3>2 DEF CheckRefuses, Anticipated
    <3>4. c # "digest"
      BY DEF Anticipated
    <3>5. QED
      BY <3>3, <3>4, RefuseAnticipated
  <2>3. CASE RemoveComponents \/ \E f \in (IF pc = "remove" THEN pend.files ELSE {}) :
               RemoveComponentFile(f) \/ RemoveControlFile(f)
    BY <2>3, RefusedKept DEF RemoveComponents, RemoveComponentFile, RemoveControlFile, history
  <2>4. CASE ReplayEmpty
    <3>1. live = BaselineLive /\ seg = << >>
      BY <1>0, <2>4, BaselineHolds DEF ReplayEmpty
    <3>2. QED
      BY <2>4, <3>1, RefusedKept DEF ReplayEmpty, disk, history
  <2>5. CASE ReplayGeneration
    <3>1. pend = NoFile /\ fold.n + 1 \in 1..Len(gens)
      BY <1>0, <2>5 DEF ReplayGeneration, CasInv, PendPhases
    <3>2. Lineage(fold, Next1) /\ (~DigestMatches(fold, Next1) => TwoUpdates)
      BY <1>0, <3>1, ReplayHolds DEF Next1
    <3>3. CASE DigestMatches(fold, Next1)
      BY <2>5, <3>2, <3>3, RefusedKept DEF ReplayGeneration, disk, history
    <3>4. CASE ~DigestMatches(fold, Next1)
      BY <2>5, <3>2, <3>4, RefuseAnticipated DEF ReplayGeneration
    <3>5. QED
      BY <3>3, <3>4
  <2>6. CASE ReplayHead
    <3>1. pend = NoFile /\ fold.n + 1 \in 1..Len(gens)
      BY <1>0, <2>6 DEF ReplayHead, AtHead, CasInv, PendPhases
    <3>2. Lineage(fold, Next1) /\ (~DigestMatches(fold, Next1) => TwoUpdates)
      BY <1>0, <3>1, ReplayHolds DEF Next1
    <3>3. CASE ~(Next1.req.kind = "update" /\ ~DigestMatches(fold, Next1))
      BY <2>6, <3>2, <3>3, RefusedKept DEF ReplayHead, disk, history
    <3>4. CASE Next1.req.kind = "update" /\ ~DigestMatches(fold, Next1)
      BY <2>6, <3>2, <3>4, RefuseAnticipated DEF ReplayHead
    <3>5. QED
      BY <3>3, <3>4
  <2>7. QED
    BY <1>2, <2>1, <2>2, <2>3, <2>4, <2>5, <2>6 DEF Open
<1>3. CASE Install
  <2>1. CASE InstallSkip \/ InstallTemp \/ InstallRename
    BY <2>1, RefusedKept DEF InstallSkip, InstallTemp, InstallRename, disk, history
  <2>2. CASE InstallCas
    <3>1. CasAdmits
      BY <1>0, <2>2, HeadBytes DEF InstallCas, Installing
    <3>2. QED
      BY <2>2, <3>1, RefusedKept DEF InstallCas, history
  <2>3. CASE InstallRefuses
    <3>1. ~OutOfOrder(Target)
      BY <1>0, <2>3, AtTarget DEF InstallRefuses
    <3>2. Refuse("temp-conflict")
      BY <2>3, <3>1 DEF InstallRefuses
    <3>3. "temp-conflict" \in Anticipated /\ "temp-conflict" # "digest"
      BY DEF Anticipated
    <3>4. QED
      BY <3>2, <3>3, RefuseAnticipated
  <2>4. CASE InstallDone
    <3>0. pend = NoFile /\ gens # << >> /\ (cont # "commit" => fold.n + 1 = Len(gens))
      BY <1>0, <2>4 DEF InstallDone, CasInv, PendPhases, LedgerInv, PhaseInv
    <3>1. CASE cont = "commit"
      BY <2>4, <3>1, RefusedKept DEF InstallDone, disk, history
    <3>2. CASE cont # "commit" /\ DigestMatches(fold, HeadGen)
      BY <2>4, <3>2, RefusedKept DEF InstallDone, disk, history
    <3>3. CASE cont # "commit" /\ ~DigestMatches(fold, HeadGen)
      <4>1. fold.n + 1 \in 1..Len(gens) /\ HeadGen = gens[fold.n + 1]
        BY <1>0, <3>0, <3>3 DEF HeadGen
      <4>2. TwoUpdates
        BY <1>0, <3>0, <3>3, <4>1, ReplayHolds
      <4>3. QED
        BY <2>4, <3>3, <4>2, RefuseAnticipated DEF InstallDone
    <3>4. QED
      BY <3>1, <3>2, <3>3
  <2>5. QED
    BY <1>3, <2>1, <2>2, <2>3, <2>4 DEF Install
<1>4. CASE Decide
  <2>1. gens' = gens /\ refused' = refused
    BY <1>4 DEF Decide, DecideOtherKind, DecideMalformed, DecideRemembered, DecideRetry,
       DecideUnchanged, DecideStage, DecideReject, Fail, Succeed, disk, history
  <2>2. QED
    BY <2>1, RefusedKept
<1>5. CASE Stage
  <2>1. CASE StagePublish
    <3>1. gens' = Append(gens, pend.gen) /\ refused' = refused /\ gens \in Seq(Elems(gens))
      BY <2>1 DEF StagePublish, history, LedgerInv
    <3>2. Len(gens') = Len(gens) + 1 /\ \A i \in 1..Len(gens) : gens'[i] = gens[i]
      BY <1>0, <3>1
    <3>3. TwoUpdates => TwoUpdates'
      BY <1>0, <3>2 DEF TwoUpdates
    <3>4. QED
      BY <3>1, <3>3 DEF RefusesOnlyFor, TwoUpdates
  <2>2. CASE ~StagePublish
    BY <1>5, <2>2, RefusedKept DEF Stage, StageMkdir, StageComponents, StageWrite, StageAppend,
       StageCreate, StageRest, history
  <2>3. QED
    BY <2>1, <2>2
<1>6. CASE Finish
  BY <1>6, RefusedKept DEF Finish, Succeed, disk
<1>7. CASE Fault
  BY <1>7, RefusedKept DEF Fault, Crash, CrashInStageWrite, CrashInStageCreate,
     CrashInInstallTemp, IoError, Die, disk, Anticipated
<1>8. CASE UNCHANGED vars
  BY <1>8, RefusedKept DEF vars
<1>9. QED
  BY <1>1, <1>2, <1>3, <1>4, <1>5, <1>6, <1>7, <1>8 DEF Next, Progress

-----------------------------------------------------------------------------
(* The properties *)

\* What the properties expect of a file is what the generations commit to it.
LEMMA ExpectedIs ==
  ASSUME gens \in Histories, NEW k \in 0..Len(gens), NEW t \in Targets
  PROVE  Expected(t, k) = FileOf(gens, t, k)
<1>1. CASE t = "history"
  BY <1>1, HistoryOf DEF Expected, FileOf
<1>2. CASE t # "history"
  BY <1>2, CommittedIs DEF Expected, FileOf, Targets
<1>3. QED
  BY <1>1, <1>2

\* The invariant implies the properties.
LEMMA RecoveredHolds ==
  ASSUME TypeInv, EngineInv
  PROVE  RecoveredExact
<1> SUFFICES ASSUME pc \in {"opened", "decide", "reply"}
             PROVE  /\ pend = NoFile
                    /\ \A t \in Targets : temp[t] = NoFile
                    /\ \A t \in Targets : LiveRecords(t) = Expected(t, Len(gens))
                    /\ seg = CommittedSeg(Len(gens))
                    /\ \A i \in 1..MaxGenerations :
                          segs[i] = IF i <= Len(gens) /\ gens[i].req.kind = "update"
                                    THEN gens[i].new[1] ELSE NoFile
  BY DEF RecoveredExact
<1>0. gens \in Histories /\ Len(gens) \in 0..Len(gens)
  BY GensHistory, HistoryParts
<1>1. pend = NoFile
  BY DEF EngineInv, CasInv, PendPhases
<1>2. AllLive(Len(gens)) /\ \A t \in Targets : temp[t] = NoFile
  BY DEF EngineInv, LiveInv, AllLive
<1>3. \A t \in Targets : LiveRecords(t) = Expected(t, Len(gens))
  BY <1>0, <1>2, ExpectedIs DEF AllLive
<1>4. seg = CommittedSeg(Len(gens))
  BY <1>1, CommittedIs DEF EngineInv, CasInv, SegInv
<1>5. \A i \in 1..MaxGenerations : segs[i] = Filed(i)
  BY <1>1 DEF EngineInv, CasInv, SegsInv
<1>6. QED
  BY <1>1, <1>2, <1>3, <1>4, <1>5 DEF Filed

LEMMA OldOrNewHolds ==
  ASSUME TypeInv, EngineInv
  PROVE  LiveOldOrNew
<1>0. gens \in Histories /\ Len(gens) \in 0..Len(gens) /\ Len(gens) \in Nat
  BY GensHistory, HistoryParts
<1>1. ASSUME NEW t \in Targets
      PROVE  \E k \in {Len(gens), Len(gens) - 1} \cap Nat : LiveRecords(t) = Expected(t, k)
  <2>1. CASE LiveRecords(t) = FileOf(gens, t, Len(gens))
    BY <1>0, <2>1, ExpectedIs
  <2>2. CASE gens # << >> /\ LiveRecords(t) = FileOf(gens, t, Len(gens) - 1)
    <3>1. Len(gens) # 0
      BY <1>0, <2>2 DEF Histories
    <3>2. PICK n \in Nat : n = Len(gens) - 1 /\ n \in 0..Len(gens)
      BY <1>0, <3>1
    <3>3. Expected(t, n) = FileOf(gens, t, n)
      BY <1>0, <3>2, ExpectedIs
    <3>4. QED
      BY <2>2, <3>2, <3>3
  <2>3. QED
    BY <2>1, <2>2 DEF EngineInv, LiveInv
<1>2. QED
  BY <1>1 DEF LiveOldOrNew

LEMMA BytesHold ==
  ASSUME TypeInv, EngineInv
  PROVE  CommittedBytesKept
<1>0. gens \in Histories /\ Len(gens) \in 0..Len(gens) /\ Len(gens) \in Nat /\ CasInv
      /\ Len(gens) <= MaxGenerations /\ seg \in Seq(Halves)
  BY GensHistory, HistoryParts DEF EngineInv, TypeInv, DiskTypes
<1>1. PICK s \in Seq(Halves) : s = SegOf(gens, Len(gens))
  BY <1>0, SegOfStep
<1>2. Len(s) <= Len(seg) /\ \A i \in 1..Len(s) : seg[i] = s[i]
  <2>1. CASE pend = NoFile
    BY <1>0, <1>1, <2>1 DEF CasInv, SegInv
  <2>2. CASE pend # NoFile
    <3>1. s = pend.gen.pre /\ StagedOn(pend.gen, seg)
      BY <1>0, <1>1, <2>2, PendParts DEF CasInv, PendInv
    <3>2. Len(s) \in Nat /\ Len(seg) \in Nat /\ Len(s) <= Len(seg)
      BY <1>0, <3>1 DEF StagedOn
    <3>3. \A i \in 1..Len(s) : i \in 1..Len(seg) /\ i <= Len(s)
      BY <3>2
    <3>4. QED
      BY <3>1, <3>2, <3>3 DEF StagedOn
  <2>3. QED
    BY <2>1, <2>2
<1>3. SubSeq(seg, 1, Len(s)) = s
  <2>1. PICK n \in Nat : n = Len(s)
    BY <1>1
  <2>2. SubSeq(seg, 1, n) = [i \in 1..n |-> seg[i]]
    BY <1>0, <1>2, <2>1
  <2>3. s = [i \in 1..n |-> s[i]]
    BY <2>1
  <2>4. QED
    BY <1>2, <2>1, <2>2, <2>3
<1>4. ASSUME NEW i \in 1..Len(gens), gens[i].req.kind = "update" PROVE segs[i] = gens[i].new[1]
  <2>1. i \in 1..MaxGenerations /\ i # Len(gens) + 1 /\ i <= Len(gens)
    BY <1>0, BoundsAssumption
  <2>2. QED
    BY <1>0, <1>4, <2>1 DEF CasInv, SegsInv, Filed
<1>5. CommittedSeg(Len(gens)) = s /\ Len(seg) >= Len(s)
  <2>1. Len(s) \in Nat /\ Len(seg) \in Nat
    BY <1>0, <1>1
  <2>2. QED
    BY <1>1, <1>2, <2>1, CommittedIs
<1>6. QED
  BY <1>3, <1>4, <1>5 DEF CommittedBytesKept

LEMMA LineageHolds ==
  ASSUME TypeInv, EngineInv
  PROVE  LineageSound
<1> DEFINE atoms == CommittedState(Len(gens)).atoms
           edges == CommittedState(Len(gens)).edges
           At(a) == CHOOSE i \in 1..Len(atoms) : atoms[i].atom = a
<1>0. gens \in Histories /\ Len(gens) \in 0..Len(gens) /\ PlannedAll(gens)
  BY GensHistory, HistoryParts DEF EngineInv, ReplayInv
<1>1. LineageOf(atoms, edges)
  BY <1>0, CommittedIs, LineageOfAll
<1>2. LineageSound <=>
        /\ \A i, j \in 1..Len(atoms) :
             atoms[i].atom = atoms[j].atom \/ atoms[i].node = atoms[j].node => i = j
        /\ \A i \in 1..Len(edges) :
             /\ {edges[i].old, edges[i].new} \subseteq AtomIds(atoms)
             /\ At(edges[i].old) < At(edges[i].new)
             /\ \A j \in 1..Len(edges) : edges[i].old = edges[j].old => i = j
  BY DEF LineageSound
<1> HIDE DEF atoms, edges
<1>3. \A p \in 1..Len(atoms) : At(atoms[p].atom) = p
  BY <1>1 DEF LineageOf, Distinct
<1>4. ASSUME NEW i \in 1..Len(edges)
      PROVE  /\ {edges[i].old, edges[i].new} \subseteq AtomIds(atoms)
             /\ At(edges[i].old) < At(edges[i].new)
             /\ \A j \in 1..Len(edges) : edges[i].old = edges[j].old => i = j
  <2>1. PICK p \in 1..Len(atoms), q \in 1..Len(atoms) :
          p < q /\ atoms[p].atom = edges[i].old /\ atoms[q].atom = edges[i].new
    BY <1>1 DEF LineageOf
  <2>2. At(edges[i].old) = p /\ At(edges[i].new) = q
    BY <1>3, <2>1
  <2>3. {edges[i].old, edges[i].new} \subseteq AtomIds(atoms)
    BY <2>1 DEF AtomIds
  <2>4. QED
    BY <1>1, <2>1, <2>2, <2>3 DEF LineageOf
<1>5. QED
  BY <1>1, <1>2, <1>4 DEF LineageOf, Distinct

\* The inductive invariant: the ledger, the types, the engine and its refusals.
THEOREM EngineInductive == Spec => [](LedgerInv /\ TypeInv /\ EngineInv /\ RefusesOnlyFor)
<1>1. Init => LedgerInv /\ TypeInv /\ EngineInv /\ RefusesOnlyFor
  <2>1. Init => RefusesOnlyFor
    BY DEF Init, RefusesOnlyFor
  <2>2. QED
    BY <2>1, LedgerInit, TypeInit, ReplayInit, CasInit, LiveInit DEF EngineInv
<1>2. LedgerInv /\ TypeInv /\ EngineInv /\ RefusesOnlyFor /\ [Next]_vars
        => (LedgerInv /\ TypeInv /\ EngineInv /\ RefusesOnlyFor)'
  <2>1. SUFFICES ASSUME LedgerInv, TypeInv, EngineInv, RefusesOnlyFor, [Next]_vars
                 PROVE  (LedgerInv /\ TypeInv /\ EngineInv /\ RefusesOnlyFor)'
    OBVIOUS
  <2>2. LedgerInv'
    BY <2>1, LedgerStep
  <2>3. TypeInv'
    BY <2>1, <2>2, TypeStep
  <2>4. EngineInv'
    BY <2>1, <2>2, ReplayStep, CasStep, LiveStep DEF EngineInv
  <2>5. RefusesOnlyFor'
    BY <2>1, RefuseStep
  <2>6. QED
    BY <2>2, <2>3, <2>4, <2>5
<1>3. QED
  BY <1>1, <1>2, PTL DEF Spec

\* Whenever production_open_runtime has succeeded, the disk is exactly what the
\* committed generations say: no pending tree, no temporary, every live file and
\* every CAS byte accounted for.
THEOREM RecoveryIsExact == Spec => []RecoveredExact
  BY EngineInductive, RecoveredHolds, PTL

\* At every moment each live file is its version before or after the last commit.
THEOREM LiveFilesOldOrNew == Spec => []LiveOldOrNew
  BY EngineInductive, OldOrNewHolds, PTL

\* The CAS bytes of a committed atom are in place at every moment.
THEOREM CommittedBytesStay == Spec => []CommittedBytesKept
  BY EngineInductive, BytesHold, PTL

\* AtomIds and NodeNums are committed once and supersessions form chains.
THEOREM LineageStaysSound == Spec => []LineageSound
  BY EngineInductive, LineageHolds, PTL

\* After any crash the open refuses a base for the listed reasons only: never for
\* an unknown CAS suffix, a changed baseline, a broken lineage, a CAS conflict or
\* an out-of-order record, and for a digest only after a second update.
THEOREM RefusalsAnticipated == Spec => []RefusesOnlyFor
  BY EngineInductive, PTL
=============================================================================
