----------------------------- MODULE FoldLemmas -----------------------------
(***************************************************************************)
(* What a loop over a sequence (FoldLeft) computes, one element at a time. *)
(* A fold is a recursive function on sets of indexes.  That it exists, and *)
(* what it is for the first k indexes, is shown without an induction over  *)
(* data: among the numbers for which a claim fails there is a least one.   *)
(***************************************************************************)
EXTENDS Naturals, Integers, FiniteSets, FiniteSetsExt, Sieve, FiniteSetTheorems, TLAPS

(* A bounded set of numbers has a greatest one.                            *)
LEMMA MaxOfBounded ==
  ASSUME NEW S, S \subseteq Nat, S # {}, NEW n \in Nat, \A x \in S : x <= n
  PROVE  Max(S) \in S /\ Max(S) \in Nat /\ \A y \in S : y <= Max(S)
<1> DEFINE T == {x \in Nat : \E y \in S : x + y = n}
<1> DEFINE R == OpToRel(<, Nat)
<1>1. T \subseteq Nat /\ T # {}
  <2>1. PICK y \in S : TRUE
    OBVIOUS
  <2>2. n - y \in Nat /\ (n - y) + y = n
    BY <2>1
  <2> QED
    BY <2>1, <2>2
<1>2. PICK x \in T : \A z \in T : ~(<<z, x>> \in R)
  BY <1>1, NatLessThanWellFounded, WFMin
<1>3. \A z \in T : ~(z < x)
  BY <1>2 DEF OpToRel
<1>4. PICK m \in S : x + m = n
  BY <1>2
<1>5. \A y \in S : m >= y
  <2> TAKE y \in S
  <2>1. n - y \in T
    <3>1. n - y \in Nat /\ (n - y) + y = n
      OBVIOUS
    <3> QED
      BY <3>1
  <2>2. ~(n - y < x)
    BY <1>3, <2>1
  <2> QED
    BY <1>4, <2>2
<1>6. Max(S) \in S /\ \A y \in S : Max(S) >= y
  BY <1>4, <1>5 DEF Max
<1> QED
  BY <1>6

(* The index a fold takes next from the indexes up to k.                   *)
LEMMA MaxTop ==
  ASSUME NEW k \in Nat, NEW s \in SUBSET (1..k), k \in s
  PROVE  Max(s) = k
<1>1. \A y \in s : k >= y /\ y \in Int
  OBVIOUS
<1>2. \A x \in s : (\A y \in s : x >= y) => x = k
  BY <1>1
<1>3. k \in s /\ \A y \in s : k >= y
  BY <1>1
<1> QED
  BY <1>2, <1>3 DEF Max

(* The largest of some indexes is one of them.                             *)
LEMMA MaxOfSome ==
  ASSUME NEW n \in Nat, NEW s \in SUBSET (1..n), s # {}
  PROVE  Max(s) \in s
<1>1. s \subseteq Nat /\ \A x \in s : x <= n
  OBVIOUS
<1> QED
  BY <1>1, MaxOfBounded

(* Induction up to a bound.                                                *)
LEMMA Climb ==
  ASSUME NEW n \in Nat, NEW T, 0 \in T, \A k \in 1..n : k - 1 \in T => k \in T
  PROVE  \A k \in 0..n : k \in T
<1> DEFINE U == {k \in 0..n : k \notin T}
<1> DEFINE R == OpToRel(<, Nat)
<1>1. ASSUME U # {} PROVE FALSE
  <2>1. U \subseteq Nat
    OBVIOUS
  <2>2. PICK k \in U : \A j \in U : ~(<<j, k>> \in R)
    BY <1>1, <2>1, NatLessThanWellFounded, WFMin
  <2>3. \A j \in U : ~(j < k)
    BY <2>1, <2>2 DEF OpToRel
  <2>4. k \in 0..n /\ k \notin T
    OBVIOUS
  <2>5. k # 0
    BY <2>4
  <2>6. k \in 1..n /\ k - 1 \in 0..n /\ k - 1 < k
    BY <2>4, <2>5
  <2>7. k - 1 \in T
    BY <2>3, <2>6
  <2> QED
    BY <2>4, <2>6, <2>7
<1> QED
  BY <1>1

(* A fold over the indexes 1..n, each with a step function of its own, has *)
(* a table of its results over the subsets of the indexes.                 *)
Table(f, n, b, G) ==
    f = [s \in SUBSET (1..n) |-> IF s = {} THEN b ELSE G[Max(s)][f[s \ {Max(s)}]]]

(* Such a table exists: it grows by one index at a time.                   *)
LEMMA TableExists ==
  ASSUME NEW S, NEW b \in S, NEW n \in Nat, NEW G \in [1..n -> [S -> S]]
  PROVE  \E f \in [SUBSET (1..n) -> S] : Table(f, n, b, G)
<1> DEFINE Has(k) == \E f \in [SUBSET (1..k) -> S] : Table(f, k, b, G)
<1> DEFINE T == {k \in 0..n : Has(k)}
<1>1. Has(0)
  <2>1. PICK f : f = [s \in SUBSET (1..0) |-> b]
    OBVIOUS
  <2>2. \A s \in SUBSET (1..0) : s = {}
    OBVIOUS
  <2>3. f \in [SUBSET (1..0) -> S]
    BY <2>1
  <2>4. f = [s \in SUBSET (1..0) |-> IF s = {} THEN b ELSE G[Max(s)][f[s \ {Max(s)}]]]
    BY <2>1, <2>2
  <2> QED
    BY <2>3, <2>4 DEF Table
<1>2. ASSUME NEW k \in 1..n, Has(k - 1) PROVE Has(k)
  <2>1. PICK f \in [SUBSET (1..(k - 1)) -> S] : Table(f, k - 1, b, G)
    BY <1>2
  <2>2. PICK g : g = [s \in SUBSET (1..k) |-> IF k \in s THEN G[k][f[s \ {k}]] ELSE f[s]]
    OBVIOUS
  <2>3. ASSUME NEW s \in SUBSET (1..k), k \in s
        PROVE  /\ Max(s) = k /\ s \ {k} \in SUBSET (1..(k - 1)) /\ s # {} /\ s \ {k} \in SUBSET (1..k)
               /\ g[s] = G[k][f[s \ {k}]] /\ g[s \ {k}] = f[s \ {k}] /\ g[s] \in S
    <3>1. Max(s) = k
      BY <2>3, MaxTop
    <3>2. \A i \in s \ {k} : i \in 1..(k - 1)
      OBVIOUS
    <3>3. s \ {k} \in SUBSET (1..(k - 1)) /\ s # {} /\ s \ {k} \in SUBSET (1..k)
      BY <2>3, <3>2
    <3>4. g[s] = G[k][f[s \ {k}]] /\ g[s \ {k}] = f[s \ {k}]
      BY <2>2, <2>3, <3>3
    <3>5. f[s \ {k}] \in S /\ G[k] \in [S -> S]
      BY <3>3
    <3> QED
      BY <3>1, <3>3, <3>4, <3>5
  <2>4. ASSUME NEW s \in SUBSET (1..k), k \notin s
        PROVE  /\ s \in SUBSET (1..(k - 1)) /\ g[s] = f[s] /\ g[s] \in S
               /\ s # {} => Max(s) \in s /\ g[s \ {Max(s)}] = f[s \ {Max(s)}]
    <3>1. \A i \in s : i \in 1..(k - 1)
      BY <2>4
    <3>2. s \in SUBSET (1..(k - 1))
      BY <3>1
    <3>3. g[s] = f[s] /\ f[s] \in S
      BY <2>2, <2>4, <3>2
    <3>4. ASSUME s # {} PROVE Max(s) \in s
      <4>1. k \in Nat /\ s \subseteq Nat /\ \A x \in s : x <= k
        OBVIOUS
      <4> QED
        BY <3>4, <4>1, MaxOfBounded
    <3>5. s \ {Max(s)} \in SUBSET (1..k) /\ k \notin s \ {Max(s)}
      BY <2>4
    <3>6. g[s \ {Max(s)}] = f[s \ {Max(s)}]
      BY <2>2, <3>5
    <3> QED
      BY <3>2, <3>3, <3>4, <3>6
  <2>5. g \in [SUBSET (1..k) -> S]
    <3>1. \A s \in SUBSET (1..k) : g[s] \in S
      BY <2>3, <2>4
    <3>2. g = [s \in SUBSET (1..k) |-> g[s]]
      BY <2>2
    <3> QED
      BY <3>1, <3>2
  <2>6. ASSUME NEW s \in SUBSET (1..k)
        PROVE  g[s] = IF s = {} THEN b ELSE G[Max(s)][g[s \ {Max(s)}]]
    <3>1. CASE k \in s
      BY <2>3, <3>1
    <3>2. CASE k \notin s
      <4>1. s \in SUBSET (1..(k - 1)) /\ g[s] = f[s] /\ (s # {} => g[s \ {Max(s)}] = f[s \ {Max(s)}])
        BY <2>4, <3>2
      <4>2. f[s] = IF s = {} THEN b ELSE G[Max(s)][f[s \ {Max(s)}]]
        BY <2>1, <4>1 DEF Table
      <4> QED
        BY <4>1, <4>2
    <3> QED
      BY <3>1, <3>2
  <2>7. Table(g, k, b, G)
    <3>1. g = [s \in SUBSET (1..k) |-> g[s]]
      BY <2>2
    <3> QED
      BY <2>6, <3>1 DEF Table
  <2> QED
    BY <2>5, <2>7
<1> HIDE DEF Has
<1>3. 0 \in T /\ \A k \in 1..n : k - 1 \in T => k \in T
  <2>1. 0 \in T
    BY <1>1
  <2>2. ASSUME NEW k \in 1..n, k - 1 \in T PROVE k \in T
    BY <1>2, <2>2
  <2> QED
    BY <2>1, <2>2
<1>4. n \in T
  <2> HIDE DEF T
  <2>1. \A k \in 0..n : k \in T
    BY <1>3, Climb
  <2> QED
    BY <2>1
<1> QED
  BY <1>4 DEF Has

(* The first k indexes, and what is left without the last of them.         *)
LEMMA FirstIndexes ==
  ASSUME NEW n \in Nat, NEW k \in 1..n
  PROVE  /\ 1..k \in SUBSET (1..n) /\ 1..k # {} /\ Max(1..k) = k
         /\ (1..k) \ {k} = 1..(k - 1)
<1>1. k \in Nat /\ k \in 1..k /\ 1..k \in SUBSET (1..k) /\ 1..k \in SUBSET (1..n)
  OBVIOUS
<1>2. Max(1..k) = k
  BY <1>1, MaxTop
<1>3. (1..k) \ {k} = 1..(k - 1)
  OBVIOUS
<1> QED
  BY <1>1, <1>2, <1>3

(* A table over the subsets of 1..n, read along the first indexes.         *)
Reads(g, c, n) ==
    /\ g[0] = c[{}] /\ g[n] = c[1..n]
    /\ \A k \in 1..n : /\ g[k] = c[1..k] /\ g[k - 1] = c[(1..k) \ {k}]
                       /\ 1..k \in SUBSET (1..n) /\ 1..k # {} /\ Max(1..k) = k

\* The values of a table at the first numbers, one more each time.
LEMMA Initials ==
  ASSUME NEW n \in Nat, NEW c
  PROVE  \E g : Reads(g, c, n)
<1>1. PICK g : g = [k \in 0..n |-> c[1..k]]
  OBVIOUS
<1>2. 1..0 = {} /\ 0 \in 0..n /\ n \in 0..n
  OBVIOUS
<1>3. g[0] = c[{}] /\ g[n] = c[1..n]
  BY <1>1, <1>2
<1>4. ASSUME NEW k \in 1..n
      PROVE  /\ g[k] = c[1..k] /\ g[k - 1] = c[(1..k) \ {k}]
             /\ 1..k \in SUBSET (1..n) /\ 1..k # {} /\ Max(1..k) = k
  <2>1. k \in 0..n /\ k - 1 \in 0..n
    OBVIOUS
  <2>2. /\ 1..k \in SUBSET (1..n) /\ 1..k # {} /\ Max(1..k) = k
        /\ (1..k) \ {k} = 1..(k - 1)
    BY FirstIndexes
  <2>3. g[k] = c[1..k] /\ g[k - 1] = c[1..(k - 1)]
    BY <1>1, <2>1
  <2> QED
    BY <2>2, <2>3
<1>5. Reads(g, c, n)
  BY <1>3, <1>4, Zenon DEF Reads
<1> QED
  BY <1>5

-----------------------------------------------------------------------------
(* Folds over a sequence, element by element.                              *)

(* What is kept of a sequence, element by element.                         *)
LEMMA KeepChain ==
  ASSUME NEW S, NEW T, NEW w \in Seq(S)
  PROVE  \E g : /\ g[0] = << >> /\ g[Len(w)] = Keep(w, T)
                /\ \A k \in 1..Len(w) :
                      g[k] = IF w[k] \in T THEN Append(g[k - 1], w[k]) ELSE g[k - 1]
<1> DEFINE n == Len(w)
           Step(kept, x) == IF x \in T THEN Append(kept, x) ELSE kept
           G == [i \in 1..n |-> [q \in Seq(S) |-> Step(q, w[i])]]
           Is(f) == f = [s \in SUBSET DOMAIN w |->
                           IF s = {} THEN << >> ELSE Step(f[s \ {Max(s)}], w[Max(s)])]
<1>1. n \in Nat /\ DOMAIN w = 1..n /\ \A i \in 1..n : w[i] \in S
  OBVIOUS
<1>2. Keep(w, T) = (CHOOSE f : Is(f))[DOMAIN w]
  BY DEF Keep, FoldLeft, MapThenFoldSet
<1>3. << >> \in Seq(S) /\ \A i \in 1..n, q \in Seq(S) : Step(q, w[i]) \in Seq(S)
  BY <1>1
<1> HIDE DEF Step, n
<1>4. G \in [1..n -> [Seq(S) -> Seq(S)]]
  BY <1>3
<1>5. \A i \in 1..n, q \in Seq(S) : G[i][q] = Step(q, w[i])
  OBVIOUS
<1> HIDE DEF G
<1>6. PICK f \in [SUBSET (1..n) -> Seq(S)] : Table(f, n, << >>, G)
  <2> DEFINE A == Seq(S)
             z == << >>
  <2>1. z \in A /\ n \in Nat /\ G \in [1..n -> [A -> A]]
    BY <1>1, <1>3, <1>4
  <2> HIDE DEF A, z
  <2>2. \E f \in [SUBSET (1..n) -> A] : Table(f, n, z, G)
    BY <2>1, TableExists
  <2> QED
    BY <2>2 DEF A, z
<1>7. ASSUME NEW s \in SUBSET (1..n)
      PROVE  f[s] = IF s = {} THEN << >> ELSE Step(f[s \ {Max(s)}], w[Max(s)])
  <2>1. f[s] = IF s = {} THEN << >> ELSE G[Max(s)][f[s \ {Max(s)}]]
    BY <1>6 DEF Table
  <2>2. CASE s # {}
    <3>1. Max(s) \in s
      BY <1>1, <2>2, MaxOfSome
    <3>2. Max(s) \in 1..n /\ f[s \ {Max(s)}] \in Seq(S)
      BY <1>6, <3>1
    <3> QED
      BY <1>5, <2>1, <2>2, <3>2
  <2> QED
    BY <2>1, <2>2
<1>8. Is(f)
  BY <1>1, <1>6, <1>7
<1> DEFINE c == CHOOSE g : Is(g)
<1>9. Is(c)
  BY <1>8
<1>10. Keep(w, T) = c[1..n]
  BY <1>1, <1>2
<1> HIDE DEF c
<1>11. c[{}] = << >>
  BY <1>9
<1>12. PICK g : Reads(g, c, n)
  BY <1>1, Initials, Zenon
<1>13. \A s \in SUBSET (1..n) : s # {} => c[s] = Step(c[s \ {Max(s)}], w[Max(s)])
  BY <1>1, <1>9
<1>14. ASSUME NEW k \in 1..n PROVE g[k] = Step(g[k - 1], w[k])
  <2>1. /\ g[k] = c[1..k] /\ g[k - 1] = c[(1..k) \ {k}]
        /\ 1..k \in SUBSET (1..n) /\ 1..k # {} /\ Max(1..k) = k
    BY <1>12, Zenon DEF Reads
  <2>2. c[1..k] = Step(c[(1..k) \ {Max(1..k)}], w[Max(1..k)])
    BY <1>13, <2>1, Zenon
  <2> QED
    BY <2>1, <2>2, Zenon
<1>15. g[0] = c[{}] /\ g[n] = c[1..n]
  BY <1>12, Zenon DEF Reads
<1> QED
  BY <1>10, <1>11, <1>14, <1>15 DEF Step, n

(* Appending adds one element.                                             *)
LEMMA ToSetAppend ==
  ASSUME NEW S, NEW q \in Seq(S), NEW x \in S
  PROVE  \A y : y \in ToSet(Append(q, x)) <=> y \in ToSet(q) \/ y = x
<1>1. /\ Len(q) \in Nat /\ DOMAIN q = 1..Len(q) /\ DOMAIN Append(q, x) = 1..(Len(q) + 1)
      /\ Append(q, x)[Len(q) + 1] = x /\ \A i \in 1..Len(q) : Append(q, x)[i] = q[i]
  OBVIOUS
<1>2. \A i : i \in 1..(Len(q) + 1) <=> i \in 1..Len(q) \/ i = Len(q) + 1
  BY <1>1
<1>3. \A y : y \in ToSet(Append(q, x)) <=> \E i \in 1..(Len(q) + 1) : y = Append(q, x)[i]
  BY <1>1 DEF ToSet
<1>4. \A y : y \in ToSet(q) <=> \E i \in 1..Len(q) : y = q[i]
  BY <1>1 DEF ToSet
<1> QED
  BY <1>1, <1>2, <1>3, <1>4

(* Vec::retain keeps exactly the elements that pass.                       *)
LEMMA KeepElems ==
  ASSUME NEW S, NEW T, NEW w \in Seq(S)
  PROVE  /\ Keep(w, T) \in Seq(S)
         /\ \A x : x \in ToSet(Keep(w, T)) <=> x \in T /\ x \in ToSet(w)
<1>1. PICK n \in Nat : n = Len(w) /\ DOMAIN w = 1..n /\ \A i \in 1..n : w[i] \in S
  OBVIOUS
<1>2. PICK g : /\ g[0] = << >> /\ g[n] = Keep(w, T)
               /\ \A k \in 1..n : g[k] = IF w[k] \in T THEN Append(g[k - 1], w[k]) ELSE g[k - 1]
  BY <1>1, KeepChain
<1> DEFINE Of(k) == /\ g[k] \in Seq(S)
                    /\ \A x : x \in ToSet(g[k]) <=> x \in T /\ \E i \in 1..k : x = w[i]
           C == {k \in 0..n : Of(k)}
<1>3. Of(0)
  BY <1>2 DEF ToSet
<1>4. ASSUME NEW k \in 1..n, Of(k - 1) PROVE Of(k)
  <2>1. \A i : i \in 1..k <=> i \in 1..(k - 1) \/ i = k
    OBVIOUS
  <2>2. w[k] \in S
    BY <1>1
  <2>3. CASE w[k] \in T
    <3>1. g[k] = Append(g[k - 1], w[k])
      BY <1>2, <2>3
    <3>2. \A y : y \in ToSet(g[k]) <=> y \in ToSet(g[k - 1]) \/ y = w[k]
      BY <1>4, <2>2, <3>1, ToSetAppend
    <3>3. g[k] \in Seq(S)
      BY <1>4, <2>2, <3>1
    <3>4. \A x : x \in ToSet(g[k]) <=> x \in T /\ \E i \in 1..k : x = w[i]
      BY <1>4, <2>1, <2>3, <3>2
    <3> QED
      BY <3>3, <3>4
  <2>4. CASE w[k] \notin T
    <3>1. g[k] = g[k - 1]
      BY <1>2, <2>4
    <3>2. \A x : x \in ToSet(g[k]) <=> x \in T /\ \E i \in 1..k : x = w[i]
      BY <1>4, <2>1, <2>4, <3>1
    <3> QED
      BY <1>4, <3>1, <3>2
  <2> QED
    BY <2>3, <2>4
<1> HIDE DEF Of
<1>5. \A k \in 0..n : k \in C
  <2>1. 0 \in C
    BY <1>3
  <2>2. \A k \in 1..n : k - 1 \in C => k \in C
    BY <1>4
  <2> HIDE DEF C
  <2> QED
    BY <2>1, <2>2, Climb
<1>6. Of(n)
  BY <1>5
<1>7. \A x : x \in ToSet(w) <=> \E i \in 1..n : x = w[i]
  BY <1>1 DEF ToSet
<1>8. g[n] \in Seq(S) /\ \A x : x \in ToSet(g[n]) <=> x \in T /\ \E i \in 1..n : x = w[i]
  BY <1>6, Zenon DEF Of
<1>9. g[n] = Keep(w, T)
  BY <1>2
<1> QED
  BY <1>7, <1>8, <1>9, Zenon

(* Numbers in ascending order.                                             *)
Increasing(at) == \A i, j \in DOMAIN at : i < j => at[i] < at[j]

\* The picked numbers ascend and are those of the set.
LEMMA AscendingIs ==
  ASSUME NEW n \in Nat, NEW S
  PROVE  /\ Ascending(n, S) \in Seq(1..n) /\ Increasing(Ascending(n, S))
         /\ \A x : x \in ToSet(Ascending(n, S)) <=> x \in S /\ x \in 1..n
<1> DEFINE w == [i \in 1..n |-> i]
<1>1. w \in Seq(1..n) /\ Len(w) = n /\ \A i \in 1..n : w[i] = i
  OBVIOUS
<1>2. PICK g : /\ g[0] = << >> /\ g[n] = Keep(w, S)
               /\ \A k \in 1..n : g[k] = IF w[k] \in S THEN Append(g[k - 1], w[k]) ELSE g[k - 1]
  <2> HIDE DEF w
  <2> QED
    BY <1>1, KeepChain
<1>3. /\ g[0] = << >> /\ g[n] = Ascending(n, S)
      /\ \A k \in 1..n : g[k] = IF k \in S THEN Append(g[k - 1], k) ELSE g[k - 1]
  BY <1>1, <1>2 DEF Ascending
<1> HIDE DEF w
<1> DEFINE Of(k) == /\ g[k] \in Seq(1..n) /\ Increasing(g[k])
                    /\ \A i \in DOMAIN g[k] : g[k][i] <= k
           C == {k \in 0..n : Of(k)}
<1>4. 0 \in C
  <2>1. g[0] = << >> /\ << >> \in Seq(1..n) /\ DOMAIN << >> = {}
    BY <1>3
  <2>2. Of(0)
    BY <2>1 DEF Increasing
  <2> QED
    BY <2>2
<1>5. ASSUME NEW k \in 1..n, k - 1 \in C PROVE k \in C
  <2>1. Of(k - 1) /\ k \in 0..n /\ k - 1 \in 0..n
    BY <1>5
  <2>2. CASE k \in S
    <3>1. g[k] = Append(g[k - 1], k)
      BY <1>3, <2>2
    <3>2. PICK q \in Seq(1..n) : q = g[k - 1]
      BY <2>1
    <3>3. /\ Len(q) \in Nat /\ DOMAIN q = 1..Len(q) /\ DOMAIN Append(q, k) = 1..(Len(q) + 1)
          /\ Append(q, k)[Len(q) + 1] = k /\ \A i \in 1..Len(q) : Append(q, k)[i] = q[i]
          /\ Append(q, k) \in Seq(1..n) /\ \A i \in 1..Len(q) : q[i] \in 1..n
      OBVIOUS
    <3>4. \A i \in 1..Len(q) : q[i] <= k - 1
      BY <2>1, <3>2, <3>3
    <3>5. \A i, j \in 1..Len(q) : i < j => q[i] < q[j]
      BY <2>1, <3>2, <3>3 DEF Increasing
    <3>6. \A i, j \in 1..(Len(q) + 1) : i < j => Append(q, k)[i] < Append(q, k)[j]
      <4>1. TAKE i, j \in 1..(Len(q) + 1)
      <4>2. CASE j \in 1..Len(q)
        BY <3>3, <3>5, <4>2
      <4>3. CASE j = Len(q) + 1
        BY <3>3, <3>4, <4>3
      <4> QED
        BY <3>3, <4>2, <4>3
    <3>7. \A i \in 1..(Len(q) + 1) : Append(q, k)[i] <= k
      BY <3>3, <3>4
    <3> QED
      BY <2>1, <3>1, <3>2, <3>3, <3>6, <3>7 DEF Increasing
  <2>3. CASE k \notin S
    <3>1. g[k] = g[k - 1]
      BY <1>3, <2>3
    <3>2. \A i \in DOMAIN g[k - 1] : g[k - 1][i] \in 1..n
      BY <2>1
    <3> QED
      BY <2>1, <3>1, <3>2
  <2> QED
    BY <2>2, <2>3
<1>6. n \in C
  <2> HIDE DEF C
  <2>1. \A k \in 0..n : k \in C
    BY <1>4, <1>5, Climb
  <2> QED
    BY <2>1
<1>7. \A x : x \in ToSet(Ascending(n, S)) <=> x \in S /\ x \in 1..n
  <2>1. \A x : x \in ToSet(Keep(w, S)) <=> x \in S /\ x \in ToSet(w)
    BY <1>1, KeepElems
  <2>2. \A x : x \in ToSet(w) <=> x \in 1..n
    BY <1>1 DEF w, ToSet
  <2>3. Ascending(n, S) = Keep(w, S)
    BY DEF Ascending, w
  <2> QED
    BY <2>1, <2>2, <2>3
<1> QED
  BY <1>3, <1>6, <1>7

(* The elements of a sequence at some of its places, in their order.       *)
Places(at, q, S) ==
    /\ at \in Seq(1..Len(q)) /\ Increasing(at)
    /\ \A i : i \in ToSet(at) <=> i \in S /\ i \in 1..Len(q)
    /\ Picks(q, S) = [k \in DOMAIN at |-> q[at[k]]]

\* What is picked lies at places that ascend.
LEMMA PicksAre ==
  ASSUME NEW q, Len(q) \in Nat, NEW S
  PROVE  \E at : Places(at, q, S)
<1>1. Picks(q, S) = [k \in DOMAIN Ascending(Len(q), S) |-> q[Ascending(Len(q), S)[k]]]
  BY DEF Picks
<1>2. Places(Ascending(Len(q), S), q, S)
  BY <1>1, AscendingIs DEF Places
<1> QED
  BY <1>2

(* They are elements of the sequence.                                      *)
LEMMA PicksElems ==
  ASSUME NEW E, NEW q \in Seq(E), NEW S
  PROVE  /\ Picks(q, S) \in Seq(E)
         /\ \A x : x \in ToSet(Picks(q, S)) <=> \E i \in S : i \in 1..Len(q) /\ x = q[i]
<1>1. Len(q) \in Nat /\ DOMAIN q = 1..Len(q) /\ \A i \in 1..Len(q) : q[i] \in E
  OBVIOUS
<1>2a. PICK at : Places(at, q, S)
  BY <1>1, PicksAre
<1>2. /\ at \in Seq(1..Len(q)) /\ Increasing(at)
      /\ \A i : i \in ToSet(at) <=> i \in S /\ i \in 1..Len(q)
      /\ Picks(q, S) = [k \in DOMAIN at |-> q[at[k]]]
  BY <1>2a DEF Places
<1>3. PICK n \in Nat : DOMAIN at = 1..n /\ \A k \in 1..n : at[k] \in 1..Len(q)
  BY <1>2
<1>4. Picks(q, S) \in Seq(E)
  <2>1. Picks(q, S) = [k \in 1..n |-> q[at[k]]]
    BY <1>2, <1>3
  <2>2. \A k \in 1..n : q[at[k]] \in E
    BY <1>1, <1>3
  <2> HIDE DEF Picks
  <2>3. Picks(q, S) \in [1..n -> E]
    BY <2>1, <2>2
  <2> QED
    BY <2>3
<1>5. \A x : x \in ToSet(Picks(q, S)) <=> \E k \in DOMAIN at : x = q[at[k]]
  BY <1>2 DEF ToSet
<1>6. \A i : i \in ToSet(at) <=> \E k \in DOMAIN at : i = at[k]
  BY DEF ToSet
<1> QED
  BY <1>2, <1>4, <1>5, <1>6
=============================================================================
