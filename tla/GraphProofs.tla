----------------------------- MODULE GraphProofs -----------------------------
(***************************************************************************)
(* Proofs about the graph store (GraphStore): the lookups agree, and what  *)
(* they find is what was added, through compactions, crashes and loads.    *)
(***************************************************************************)
EXTENDS GraphStore, FoldLemmas

-----------------------------------------------------------------------------
(* Sequences one after the other.                                          *)

\* f joins the first elements of seqs, up to the n-th.
Joins(f, seqs, n) ==
    f = [i \in 1..n |-> IF i = 1 THEN seqs[i] ELSE f[i - 1] \o seqs[i]]

\* Any sequences can be joined one after the other.
LEMMA JoinsExist ==
  ASSUME NEW seqs, NEW n \in Nat
  PROVE  \E f : Joins(f, seqs, n)
<1> DEFINE C == {k \in 0..n : \E f : Joins(f, seqs, k)}
<1>1. n \in 0..n /\ 0 \in 0..n
  OBVIOUS
<1>2. 0 \in C
  <2>1. Joins(<< >>, seqs, 0)
    BY DEF Joins
  <2> QED
    BY <1>1, <2>1
<1>3. ASSUME NEW k \in 1..n, k - 1 \in C PROVE k \in C
  <2>1. PICK f : Joins(f, seqs, k - 1)
    BY <1>3
  <2>2. PICK h : h = [i \in 1..k |-> IF i = k THEN (IF k = 1 THEN seqs[k] ELSE f[k - 1] \o seqs[k]) ELSE f[i]]
    OBVIOUS
  <2>3. \A i \in 1..k : h[i] = IF i = 1 THEN seqs[i] ELSE h[i - 1] \o seqs[i]
    <3>1. TAKE i \in 1..k
    <3>2. CASE i = k
      <4>1. i # 1 => i - 1 \in 1..k /\ i - 1 # k /\ h[i - 1] = f[i - 1]
        BY <1>1, <2>2, <3>2
      <4> QED
        BY <2>2, <3>2, <4>1
    <3>3. CASE i # k
      <4>1. i \in 1..(k - 1) /\ h[i] = f[i]
        BY <1>1, <2>2, <3>3
      <4>2. f[i] = IF i = 1 THEN seqs[i] ELSE f[i - 1] \o seqs[i]
        BY <2>1, <4>1 DEF Joins
      <4>3. i # 1 => i - 1 \in 1..k /\ i - 1 # k /\ h[i - 1] = f[i - 1]
        BY <1>1, <2>2, <4>1
      <4> QED
        BY <4>1, <4>2, <4>3
    <3> QED
      BY <3>2, <3>3
  <2>4. Joins(h, seqs, k)
    BY <2>2, <2>3 DEF Joins
  <2>5. k \in 0..n
    OBVIOUS
  <2> QED
    BY <2>4, <2>5
<1>4. n \in C
  <2> HIDE DEF C
  <2>1. \A k \in 0..n : k \in C
    BY <1>2, <1>3, Climb
  <2> QED
    BY <1>1, <2>1
<1> QED
  BY <1>4

\* FlattenSeq along its elements.
Joined(f, seqs) ==
    /\ f[1] = seqs[1] /\ \A i \in 2..Len(seqs) : f[i] = f[i - 1] \o seqs[i]
    /\ FlattenSeq(seqs) = f[Len(seqs)]

\* FlattenSeq is what joining them all yields.
LEMMA FlattenIs ==
  ASSUME NEW seqs, Len(seqs) \in Nat, Len(seqs) # 0
  PROVE  \E f : Joined(f, seqs)
<1> DEFINE c == CHOOSE f : Joins(f, seqs, Len(seqs))
<1>1. Joins(c, seqs, Len(seqs))
  BY JoinsExist
<1>2. FlattenSeq(seqs) = c[Len(seqs)]
  BY DEF FlattenSeq, Joins
<1> HIDE DEF c
<1>3. \A i \in 1..Len(seqs) : c[i] = IF i = 1 THEN seqs[i] ELSE c[i - 1] \o seqs[i]
  BY <1>1 DEF Joins
<1>4. 1 \in 1..Len(seqs) /\ \A i \in 2..Len(seqs) : i \in 1..Len(seqs) /\ i # 1
  OBVIOUS
<1>5. Joined(c, seqs)
  BY <1>2, <1>3, <1>4 DEF Joined
<1> QED
  BY <1>5

\* The elements of a concatenation are those of its parts.
LEMMA RangeConcat ==
  ASSUME NEW U, NEW s \in Seq(U), NEW t \in Seq(U)
  PROVE  /\ s \o t \in Seq(U)
         /\ \A x : x \in ToSet(s \o t) <=> x \in ToSet(s) \/ x \in ToSet(t)
<1>1. /\ Len(s) \in Nat /\ Len(t) \in Nat /\ DOMAIN s = 1..Len(s) /\ DOMAIN t = 1..Len(t)
      /\ DOMAIN (s \o t) = 1..(Len(s) + Len(t)) /\ s \o t \in Seq(U)
      /\ \A i \in 1..Len(s) : (s \o t)[i] = s[i]
      /\ \A i \in 1..Len(t) : (s \o t)[Len(s) + i] = t[i]
  OBVIOUS
<1>2. ASSUME NEW i \in 1..(Len(s) + Len(t)), i \notin 1..Len(s)
      PROVE  \E j \in 1..Len(t) : i = Len(s) + j
  <2>1. i - Len(s) \in 1..Len(t) /\ i = Len(s) + (i - Len(s))
    BY <1>1, <1>2
  <2> QED
    BY <2>1
<1>3. \A i \in 1..Len(s) : i \in 1..(Len(s) + Len(t))
  BY <1>1
<1>4. \A i \in 1..Len(t) : Len(s) + i \in 1..(Len(s) + Len(t))
  BY <1>1
<1>5. ASSUME NEW x, x \in ToSet(s \o t) PROVE x \in ToSet(s) \/ x \in ToSet(t)
  <2>1. PICK i \in 1..(Len(s) + Len(t)) : x = (s \o t)[i]
    BY <1>1, <1>5 DEF ToSet
  <2>2. CASE i \in 1..Len(s)
    BY <1>1, <2>1, <2>2 DEF ToSet
  <2>3. CASE i \notin 1..Len(s)
    BY <1>1, <1>2, <2>1, <2>3 DEF ToSet
  <2> QED
    BY <2>2, <2>3
<1>6. ASSUME NEW x, x \in ToSet(s) \/ x \in ToSet(t) PROVE x \in ToSet(s \o t)
  <2>1. CASE x \in ToSet(s)
    BY <1>1, <1>3, <2>1 DEF ToSet
  <2>2. CASE x \in ToSet(t)
    BY <1>1, <1>4, <2>2 DEF ToSet
  <2> QED
    BY <1>6, <2>1, <2>2
<1> QED
  BY <1>1, <1>5, <1>6

\* The elements of a flattened sequence are those of its sequences.
LEMMA FlattenElems ==
  ASSUME NEW U, NEW seqs \in Seq(Seq(U))
  PROVE  /\ FlattenSeq(seqs) \in Seq(U)
         /\ \A x : x \in ToSet(FlattenSeq(seqs)) <=> \E i \in DOMAIN seqs : x \in ToSet(seqs[i])
<1> DEFINE n == Len(seqs)
<1>1. n \in Nat /\ DOMAIN seqs = 1..n /\ \A i \in 1..n : seqs[i] \in Seq(U)
  OBVIOUS
<1>2. CASE n = 0
  <2>1. FlattenSeq(seqs) = seqs /\ seqs = << >>
    BY <1>2 DEF FlattenSeq
  <2> QED
    BY <2>1 DEF ToSet
<1>3. CASE n # 0
  <2>1. PICK f : Joined(f, seqs)
    BY <1>1, <1>3, FlattenIs
  <2> DEFINE Of(k) == /\ f[k] \in Seq(U)
                      /\ \A x : x \in ToSet(f[k]) <=> \E i \in 1..k : x \in ToSet(seqs[i])
             C == {k \in 0..n : k # 0 => Of(k)}
  <2>2. /\ f[1] = seqs[1] /\ \A i \in 2..n : f[i] = f[i - 1] \o seqs[i]
        /\ FlattenSeq(seqs) = f[n]
    BY <2>1 DEF Joined
  <2> HIDE DEF n
  <2>3. 0 \in C
    BY <1>1
  <2>4. ASSUME NEW k \in 1..n, k - 1 \in C PROVE k \in C
    <3>1. CASE k = 1
      <4>1. \A i \in 1..k : i = 1
        BY <3>1
      <4>2. f[k] = seqs[1] /\ seqs[1] \in Seq(U)
        BY <1>1, <2>2, <3>1
      <4>3. \A x : x \in ToSet(f[k]) <=> \E i \in 1..k : x \in ToSet(seqs[i])
        BY <3>1, <4>1, <4>2
      <4> QED
        BY <1>1, <4>2, <4>3
    <3>2. CASE k # 1
      <4>1. k \in 2..n /\ k - 1 # 0 /\ Of(k - 1) /\ \A i : i \in 1..k <=> i \in 1..(k - 1) \/ i = k
        BY <1>1, <2>4, <3>2
      <4>2. f[k] = f[k - 1] \o seqs[k] /\ seqs[k] \in Seq(U)
        BY <1>1, <2>2, <4>1
      <4>3. /\ f[k] \in Seq(U)
            /\ \A x : x \in ToSet(f[k]) <=> x \in ToSet(f[k - 1]) \/ x \in ToSet(seqs[k])
        BY <4>1, <4>2, RangeConcat
      <4>4. \A x : x \in ToSet(f[k]) <=> \E i \in 1..k : x \in ToSet(seqs[i])
        BY <4>1, <4>3
      <4> QED
        BY <1>1, <4>3, <4>4
    <3> QED
      BY <3>1, <3>2
  <2>5. n \in C
    <3> HIDE DEF C
    <3>1. \A k \in 0..n : k \in C
      BY <1>1, <2>3, <2>4, Climb
    <3> QED
      BY <1>1, <3>1
  <2>6. Of(n)
    BY <1>3, <2>5
  <2> HIDE DEF Of
  <2> QED
    BY <1>1, <2>2, <2>6 DEF Of
<1> QED
  BY <1>2, <1>3

\* Two lists of sequences that begin alike are joined alike so far.
Alike(s, t, k) == k <= Len(s) /\ k <= Len(t) /\ \A i \in 1..k : s[i] = t[i]

\* Sequences that begin alike are joined alike so far.
LEMMA JoinedAlike ==
  ASSUME NEW s, NEW t, NEW f, NEW h, Joined(f, s), Joined(h, t), Len(s) \in Nat, Len(t) \in Nat,
         NEW k \in Nat, k # 0, Alike(s, t, k)
  PROVE  f[k] = h[k]
<1> DEFINE C == {j \in 0..k : j # 0 => f[j] = h[j]}
<1>1. 0 \in C
  OBVIOUS
<1>2. ASSUME NEW j \in 1..k, j - 1 \in C PROVE j \in C
  <2>1. CASE j = 1
    BY <2>1 DEF Joined, Alike
  <2>2. CASE j # 1
    <3>1. j \in 2..Len(s) /\ j \in 2..Len(t) /\ j - 1 # 0
      BY <2>2 DEF Alike
    <3>2. f[j] = f[j - 1] \o s[j] /\ h[j] = h[j - 1] \o t[j]
      BY <3>1 DEF Joined
    <3>3. f[j - 1] = h[j - 1] /\ s[j] = t[j] /\ j \in 0..k
      BY <1>2, <3>1 DEF Alike
    <3>4. f[j] = h[j]
      BY <3>2, <3>3, Zenon
    <3> QED
      BY <3>3, <3>4
  <2> QED
    BY <2>1, <2>2
<1>3. k \in C
  <2> HIDE DEF C
  <2>1. \A j \in 0..k : j \in C
    BY <1>1, <1>2, Climb
  <2> QED
    BY <2>1
<1> QED
  BY <1>3

\* One sequence more is joined at the end.
LEMMA FlattenAppend ==
  ASSUME NEW U, NEW seqs \in Seq(Seq(U)), NEW s \in Seq(U)
  PROVE  FlattenSeq(Append(seqs, s)) = FlattenSeq(seqs) \o s
<1> DEFINE n == Len(seqs)
           t == Append(seqs, s)
<1>1. /\ n \in Nat /\ Len(t) = n + 1 /\ t[n + 1] = s
      /\ \A i \in 1..n : t[i] = seqs[i]
  OBVIOUS
<1> HIDE DEF t
<1>2. PICK h : Joined(h, t)
  <2>1. Len(t) \in Nat /\ Len(t) # 0
    BY <1>1
  <2> QED
    BY <2>1, FlattenIs
<1>3. CASE n = 0
  <2>1. FlattenSeq(t) = h[1] /\ h[1] = s
    BY <1>1, <1>2, <1>3 DEF Joined
  <2>2. FlattenSeq(seqs) = << >>
    BY <1>3 DEF FlattenSeq
  <2> QED
    BY <2>1, <2>2 DEF t
<1>4. CASE n # 0
  <2>1. PICK f : Joined(f, seqs)
    BY <1>1, <1>4, FlattenIs
  <2>2. f[n] = h[n]
    <3>1. Alike(seqs, t, n) /\ Len(t) \in Nat
      BY <1>1 DEF Alike
    <3> HIDE DEF n
    <3>2. Len(seqs) \in Nat
      OBVIOUS
    <3>3. n \in Nat /\ n # 0
      BY <1>1, <1>4
    <3> QED
      BY <1>2, <2>1, <3>1, <3>2, <3>3, JoinedAlike
  <2>3. h[n + 1] = h[n] \o t[n + 1] /\ FlattenSeq(t) = h[n + 1]
    <3>1. n + 1 \in 2..Len(t) /\ (n + 1) - 1 = n
      BY <1>1, <1>4
    <3> QED
      BY <1>1, <1>2, <3>1 DEF Joined
  <2>4. FlattenSeq(seqs) = f[n]
    BY <2>1 DEF Joined
  <2> QED
    BY <1>1, <2>2, <2>3, <2>4 DEF t
<1> QED
  BY <1>3, <1>4

\* When the last sequence grows by an element, so does the whole.
LEMMA FlattenGrows ==
  ASSUME NEW U, NEW seqs \in Seq(Seq(U)), NEW e \in U, seqs # << >>,
         NEW t, Len(t) = Len(seqs), t[Len(seqs)] = Append(seqs[Len(seqs)], e),
         \A i \in 1..(Len(seqs) - 1) : t[i] = seqs[i]
  PROVE  FlattenSeq(t) = Append(FlattenSeq(seqs), e)
<1> DEFINE n == Len(seqs)
<1>1. n \in Nat /\ n # 0 /\ \A i \in 1..n : seqs[i] \in Seq(U)
  OBVIOUS
<1>2. PICK h : Joined(h, t)
  BY <1>1, FlattenIs
<1>3. PICK f : Joined(f, seqs)
  BY <1>1, FlattenIs
<1>4. FlattenSeq(t) = h[n] /\ FlattenSeq(seqs) = f[n]
  BY <1>2, <1>3 DEF Joined
<1>5. CASE n = 1
  BY <1>2, <1>3, <1>4, <1>5 DEF Joined
<1>6. CASE n # 1
  <2> HIDE DEF n
  <2>1. n - 1 \in Nat /\ n - 1 <= n /\ n - 1 # 0 /\ n \in 2..n
    BY <1>1, <1>6
  <2>2. f[n - 1] = h[n - 1]
    <3>1. Alike(seqs, t, n - 1) /\ Len(seqs) \in Nat /\ Len(t) \in Nat
      BY <1>1, <2>1 DEF Alike, n
    <3> QED
      BY <1>2, <1>3, <2>1, <3>1, JoinedAlike
  <2>3. h[n] = h[n - 1] \o t[n] /\ f[n] = f[n - 1] \o seqs[n]
    BY <1>2, <1>3, <2>1 DEF Joined, n
  <2>4. f[n - 1] \in Seq(U)
    <3> DEFINE C == {k \in 0..n : k # 0 => f[k] \in Seq(U)}
    <3>1. 0 \in C
      BY <1>1
    <3>2. ASSUME NEW k \in 1..n, k - 1 \in C PROVE k \in C
      <4>1. CASE k = 1
        BY <1>1, <1>3, <4>1 DEF Joined
      <4>2. CASE k # 1
        <5>1. k \in 2..n /\ k - 1 # 0 /\ f[k - 1] \in Seq(U) /\ seqs[k] \in Seq(U)
          BY <1>1, <3>2, <4>2
        <5>2. f[k] = f[k - 1] \o seqs[k]
          BY <1>3, <5>1 DEF Joined, n
        <5>3. f[k] \in Seq(U) /\ k \in 0..n
          BY <5>1, <5>2
        <5> QED
          BY <5>3
      <4> QED
        BY <4>1, <4>2
    <3>3. \A k \in 0..n : k \in C
      <4> HIDE DEF C
      <4> QED
        BY <1>1, <3>1, <3>2, Climb
    <3> QED
      BY <2>1, <3>3
  <2>5. t[n] = Append(seqs[n], e)
    BY DEF n
  <2>6. f[n - 1] \o Append(seqs[n], e) = Append(f[n - 1] \o seqs[n], e)
    <3>1. PICK a \in Seq(U), b \in Seq(U) : a = f[n - 1] /\ b = seqs[n]
      BY <1>1, <2>1, <2>4
    <3>2. a \o Append(b, e) = Append(a \o b, e)
      OBVIOUS
    <3> QED
      BY <3>1, <3>2
  <2> QED
    BY <1>4, <2>2, <2>3, <2>5, <2>6
<1> QED
  BY <1>5, <1>6

-----------------------------------------------------------------------------
(* The reverse index and the latest entry of an edge.                      *)

Attrs == [conf : Nat, from : Nat, to : Nat, deleted : BOOLEAN]
Entries == [type : Nat, src : Nat, dst : Int, conf : Nat, from : Nat, to : Nat, deleted : BOOLEAN]
Arrivals == [type : Nat, src : Nat, dst : Int, conf : Nat]

\* What the latest of the entries says of an edge, and b where there is none.
About(D, key) == {i \in DOMAIN D : EntryKey(D[i]) = key}
Latest(b, D, key) == IF About(D, key) = {} THEN b ELSE ~D[Max(About(D, key))].deleted

\* The reverse index has the edge.
Indexed(rev, key) == \E r \in rev : EntryKey(r) = key

\* A new entry decides on its own edge and on no other.
LEMMA LatestAppend ==
  ASSUME NEW D \in Seq(Entries), NEW e \in Entries, NEW key, NEW b
  PROVE  Latest(b, Append(D, e), key)
            = IF EntryKey(e) = key THEN ~e.deleted ELSE Latest(b, D, key)
<1> DEFINE n == Len(D)
           A == Append(D, e)
<1>1. /\ n \in Nat /\ DOMAIN D = 1..n /\ DOMAIN A = 1..(n + 1) /\ A[n + 1] = e
      /\ \A i \in 1..n : A[i] = D[i]
  OBVIOUS
<1> HIDE DEF n, A
<1>2. CASE EntryKey(e) = key
  <2>1. About(A, key) \in SUBSET (1..(n + 1)) /\ n + 1 \in About(A, key)
    BY <1>1, <1>2 DEF About
  <2>2. Max(About(A, key)) = n + 1
    BY <1>1, <2>1, MaxTop
  <2> QED
    BY <1>1, <1>2, <2>1, <2>2 DEF Latest, A
<1>3. CASE EntryKey(e) # key
  <2>1. \A i : i \in 1..(n + 1) /\ EntryKey(A[i]) = key <=> i \in 1..n /\ EntryKey(D[i]) = key
    <3>1. \A i : i \in 1..(n + 1) <=> i \in 1..n \/ i = n + 1
      BY <1>1
    <3> QED
      BY <1>1, <1>3, <3>1
  <2>2. About(A, key) = About(D, key)
    BY <1>1, <2>1 DEF About
  <2>3. About(D, key) # {} => Max(About(D, key)) \in About(D, key)
    <3>1. About(D, key) \in SUBSET (1..n)
      BY <1>1 DEF About
    <3> QED
      BY <1>1, <3>1, MaxOfSome
  <2>4. About(D, key) # {} => A[Max(About(D, key))] = D[Max(About(D, key))]
    BY <1>1, <2>3 DEF About
  <2> QED
    BY <1>3, <2>2, <2>4 DEF Latest, A
<1> QED
  BY <1>2, <1>3

\* Applying an entry to the reverse index decides on its own edge and on no other.
LEMMA ApplyIndexed ==
  ASSUME NEW rev, NEW e, NEW key
  PROVE  Indexed(apply_reverse_entry(rev, e), key)
            <=> IF EntryKey(e) = key THEN ~e.deleted ELSE Indexed(rev, key)
<1>1. EntryKey(Incoming(e)) = EntryKey(e)
  BY DEF EntryKey, Incoming
<1>2. \A r : r \in apply_reverse_entry(rev, e)
               <=> (r \in rev /\ EntryKey(r) # EntryKey(e)) \/ (~e.deleted /\ r = Incoming(e))
  BY DEF apply_reverse_entry
<1> QED
  BY <1>1, <1>2 DEF Indexed

\* Applying an entry keeps what the reverse index is made of.
LEMMA ApplyTypes ==
  ASSUME NEW rev \in SUBSET Arrivals, NEW e \in Entries
  PROVE  apply_reverse_entry(rev, e) \in SUBSET Arrivals
<1>1. Incoming(e) \in Arrivals
  BY DEF Incoming, Entries, Arrivals
<1> QED
  BY <1>1 DEF apply_reverse_entry

\* The index after each of the entries.
Applied(g, rev, D) ==
    /\ g[0] = rev /\ g[Len(D)] = FoldLeft(apply_reverse_entry, rev, D)
    /\ \A k \in 1..Len(D) : g[k] = apply_reverse_entry(g[k - 1], D[k])

\* The reverse indexes after each entry, on the way to the result of the fold.
LEMMA ApplyChain ==
  ASSUME NEW rev \in SUBSET Arrivals, NEW D \in Seq(Entries)
  PROVE  \E g : Applied(g, rev, D)
<1> DEFINE n == Len(D)
           S == SUBSET Arrivals
           G == [i \in 1..n |-> [q \in S |-> apply_reverse_entry(q, D[i])]]
           Is(f) == f = [s \in SUBSET DOMAIN D |->
                           IF s = {} THEN rev ELSE apply_reverse_entry(f[s \ {Max(s)}], D[Max(s)])]
<1>1. n \in Nat /\ DOMAIN D = 1..n /\ \A i \in 1..n : D[i] \in Entries
  OBVIOUS
<1>2. FoldLeft(apply_reverse_entry, rev, D) = (CHOOSE f : Is(f))[DOMAIN D]
  BY DEF FoldLeft, MapThenFoldSet
<1>3. rev \in S /\ \A i \in 1..n, q \in S : apply_reverse_entry(q, D[i]) \in S
  BY <1>1, ApplyTypes
<1> HIDE DEF n, S
<1>4. G \in [1..n -> [S -> S]]
  BY <1>3
<1>5. \A i \in 1..n, q \in S : G[i][q] = apply_reverse_entry(q, D[i])
  OBVIOUS
<1> HIDE DEF G
<1>6. PICK f \in [SUBSET (1..n) -> S] : Table(f, n, rev, G)
  BY <1>1, <1>3, <1>4, TableExists
<1>7. ASSUME NEW s \in SUBSET (1..n)
      PROVE  f[s] = IF s = {} THEN rev ELSE apply_reverse_entry(f[s \ {Max(s)}], D[Max(s)])
  <2>1. f[s] = IF s = {} THEN rev ELSE G[Max(s)][f[s \ {Max(s)}]]
    BY <1>6 DEF Table
  <2>2. CASE s # {}
    <3>1. Max(s) \in s
      BY <1>1, <2>2, MaxOfSome
    <3>2. Max(s) \in 1..n /\ f[s \ {Max(s)}] \in S
      BY <1>6, <3>1
    <3> QED
      BY <1>5, <2>1, <2>2, <3>2
  <2> QED
    BY <2>1, <2>2
<1>8. Is(f)
  BY <1>1, <1>6, <1>7
<1> DEFINE c == CHOOSE g : Is(g)
<1>9. Is(c)
  BY <1>8
<1>10. FoldLeft(apply_reverse_entry, rev, D) = c[1..n]
  BY <1>1, <1>2
<1> HIDE DEF c
<1>11. c[{}] = rev /\ \A s \in SUBSET (1..n) : s # {} => c[s] = apply_reverse_entry(c[s \ {Max(s)}], D[Max(s)])
  BY <1>1, <1>9
<1>12. PICK g : Reads(g, c, n)
  BY <1>1, Initials, Zenon
<1>13. ASSUME NEW k \in 1..n PROVE g[k] = apply_reverse_entry(g[k - 1], D[k])
  <2>1. /\ g[k] = c[1..k] /\ g[k - 1] = c[(1..k) \ {k}]
        /\ 1..k \in SUBSET (1..n) /\ 1..k # {} /\ Max(1..k) = k
    BY <1>12, Zenon DEF Reads
  <2>2. c[1..k] = apply_reverse_entry(c[(1..k) \ {Max(1..k)}], D[Max(1..k)])
    BY <1>11, <2>1, Zenon
  <2> QED
    BY <2>1, <2>2, Zenon
<1>14. g[0] = c[{}] /\ g[n] = c[1..n]
  BY <1>12, Zenon DEF Reads
<1>15. Applied(g, rev, D)
  BY <1>10, <1>11, <1>13, <1>14 DEF Applied, n
<1> QED
  BY <1>15

\* After a fold over entries an edge is indexed when the latest of its entries says so.
LEMMA FoldIndexed ==
  ASSUME NEW rev \in SUBSET Arrivals, NEW D \in Seq(Entries), NEW key
  PROVE  /\ FoldLeft(apply_reverse_entry, rev, D) \in SUBSET Arrivals
         /\ Indexed(FoldLeft(apply_reverse_entry, rev, D), key) <=> Latest(Indexed(rev, key), D, key)
<1> DEFINE n == Len(D)
           b == Indexed(rev, key)
           Upto(k) == [i \in 1..k |-> D[i]]
<1>1. n \in Nat /\ DOMAIN D = 1..n /\ \A i \in 1..n : D[i] \in Entries
  OBVIOUS
<1>2. PICK g : Applied(g, rev, D)
  BY ApplyChain
<1>3. /\ g[0] = rev /\ g[n] = FoldLeft(apply_reverse_entry, rev, D)
      /\ \A k \in 1..n : g[k] = apply_reverse_entry(g[k - 1], D[k])
  BY <1>2 DEF Applied
<1> HIDE DEF n, b
<1> DEFINE C == {k \in 0..n : g[k] \in SUBSET Arrivals /\ (Indexed(g[k], key) <=> Latest(b, Upto(k), key))}
<1>4. 0 \in C
  <2>1. About(Upto(0), key) = {}
    BY DEF About
  <2>2. Latest(b, Upto(0), key) = b
    BY <2>1 DEF Latest
  <2> QED
    BY <1>1, <1>3, <2>2 DEF b
<1>5. ASSUME NEW k \in 1..n, k - 1 \in C PROVE k \in C
  <2>0. k \in 0..n /\ D[k] \in Entries
    BY <1>1
  <2>1. Upto(k) = Append(Upto(k - 1), D[k]) /\ Upto(k - 1) \in Seq(Entries)
    <3>1. k - 1 \in Nat /\ \A i \in 1..(k - 1) : D[i] \in Entries
      BY <1>1
    <3>2. Upto(k - 1) \in [1..(k - 1) -> Entries]
      BY <3>1
    <3>3. Upto(k - 1) \in Seq(Entries) /\ Len(Upto(k - 1)) = k - 1
      BY <3>1, <3>2
    <3>4. Append(Upto(k - 1), D[k]) = [i \in 1..k |-> IF i = k THEN D[k] ELSE Upto(k - 1)[i]]
      BY <3>1, <3>3
    <3>5. \A i \in 1..k : i # k => i \in 1..(k - 1)
      BY <3>1
    <3> QED
      BY <3>3, <3>4, <3>5
  <2> HIDE DEF Upto
  <2>2. g[k] = apply_reverse_entry(g[k - 1], D[k]) /\ g[k - 1] \in SUBSET Arrivals
    BY <1>3, <1>5
  <2>3. Indexed(g[k - 1], key) <=> Latest(b, Upto(k - 1), key)
    BY <1>5
  <2>4. g[k] \in SUBSET Arrivals
    BY <2>0, <2>2, ApplyTypes
  <2>5. Indexed(g[k], key) <=> IF EntryKey(D[k]) = key THEN ~D[k].deleted ELSE Indexed(g[k - 1], key)
    BY <2>2, ApplyIndexed
  <2>6. Latest(b, Upto(k), key)
           = IF EntryKey(D[k]) = key THEN ~D[k].deleted ELSE Latest(b, Upto(k - 1), key)
    BY <2>0, <2>1, LatestAppend
  <2>7. Indexed(g[k], key) <=> Latest(b, Upto(k), key)
    BY <2>3, <2>5, <2>6, Zenon
  <2> QED
    BY <2>0, <2>4, <2>7
<1>6. n \in C
  <2> HIDE DEF C
  <2>1. \A k \in 0..n : k \in C
    BY <1>1, <1>4, <1>5, Climb
  <2> QED
    BY <1>1, <2>1
<1>7. Upto(n) = D
  BY <1>1 DEF n
<1> HIDE DEF Upto
<1> QED
  BY <1>3, <1>6, <1>7 DEF b

-----------------------------------------------------------------------------
(* Rows of the compressed layers.                                          *)

Layers == [offsets : Seq(Nat), targets : Seq(Int), attrs : Seq(Attrs), nodes : Nat]
Neighbours == [dst : Int, attr : Attrs]

\* The lesser of two numbers.
LEMMA MinOfTwo ==
  ASSUME NEW a \in Nat, NEW b \in Nat
  PROVE  Min({a, b}) = IF a <= b THEN a ELSE b
<1>1. CASE a <= b
  <2>1. \A x \in {a, b} : (\A y \in {a, b} : x <= y) => x = a
    BY <1>1
  <2>2. a \in {a, b} /\ \A y \in {a, b} : a <= y
    BY <1>1
  <2> QED
    BY <1>1, <2>1, <2>2 DEF Min
<1>2. CASE ~(a <= b)
  <2>1. \A x \in {a, b} : (\A y \in {a, b} : x <= y) => x = b
    BY <1>2
  <2>2. b \in {a, b} /\ \A y \in {a, b} : b <= y
    BY <1>2
  <2> QED
    BY <1>2, <2>1, <2>2 DEF Min
<1> QED
  BY <1>1, <1>2

\* What a part of a sequence holds, and how long it is.
LEMMA PartTypes ==
  ASSUME NEW S, NEW s \in Seq(S), NEW m \in Nat, m # 0, NEW n \in Nat, n <= Len(s)
  PROVE  /\ SubSeq(s, m, n) \in Seq(S)
         /\ Len(SubSeq(s, m, n)) = IF m <= n THEN (n - m) + 1 ELSE 0
         /\ \A i \in 1..Len(SubSeq(s, m, n)) : SubSeq(s, m, n)[i] = s[(m + i) - 1]
<1>1. CASE m <= n
  BY <1>1
<1>2. CASE ~(m <= n)
  BY <1>2
<1> QED
  BY <1>1, <1>2

\* c adds up the first n numbers of ts.
Sums(c, ts, n) == c = [k \in 0..n |-> IF k = 0 THEN 0 ELSE c[k - 1] + ts[k]]

\* The running sums of a sequence.
LEMMA SumsExist ==
  ASSUME NEW ts, NEW n \in Nat
  PROVE  \E c : Sums(c, ts, n)
<1> DEFINE C == {k \in 0..n : \E c : Sums(c, ts, k)}
<1>1. 0 \in 0..n /\ n \in 0..n
  OBVIOUS
<1>2. 0 \in C
  <2>1. PICK c : c = [i \in 0..0 |-> 0]
    OBVIOUS
  <2>2. Sums(c, ts, 0)
    BY <2>1 DEF Sums
  <2> QED
    BY <1>1, <2>2
<1>3. ASSUME NEW k \in 1..n, k - 1 \in C PROVE k \in C
  <2>1. PICK c : Sums(c, ts, k - 1)
    BY <1>3
  <2>2. PICK h : h = [i \in 0..k |-> IF i = k THEN c[k - 1] + ts[k] ELSE c[i]]
    OBVIOUS
  <2>3. \A i \in 0..k : h[i] = IF i = 0 THEN 0 ELSE h[i - 1] + ts[i]
    <3>1. TAKE i \in 0..k
    <3>2. CASE i = k
      <4>1. i # 0 /\ i - 1 \in 0..k /\ i - 1 # k
        BY <3>2
      <4> QED
        BY <2>2, <3>2, <4>1
    <3>3. CASE i # k
      <4>1. i \in 0..(k - 1) /\ h[i] = c[i]
        BY <2>2, <3>3
      <4>2. c[i] = IF i = 0 THEN 0 ELSE c[i - 1] + ts[i]
        BY <2>1, <4>1 DEF Sums
      <4>3. i # 0 => i - 1 \in 0..k /\ i - 1 # k /\ h[i - 1] = c[i - 1]
        BY <2>2, <4>1
      <4> QED
        BY <4>1, <4>2, <4>3
    <3> QED
      BY <3>2, <3>3
  <2>4. Sums(h, ts, k)
    BY <2>2, <2>3 DEF Sums
  <2>5. k \in 0..n
    OBVIOUS
  <2> QED
    BY <2>4, <2>5
<1>4. n \in C
  <2> HIDE DEF C
  <2>1. \A k \in 0..n : k \in C
    BY <1>2, <1>3, Climb
  <2> QED
    BY <1>1, <2>1
<1> QED
  BY <1>4

\* The reader of a row sums up its targets.
Summed(c, data) ==
    /\ c[0] = 0
    /\ \A k \in 1..Len(data.targets) : c[k] \in Int /\ c[k] = c[k - 1] + data.targets[k]
    /\ NeighborIter(data) = [k \in 1..Min({Len(data.targets), Len(data.attrs)}) |->
                                [dst |-> c[k], attr |-> data.attrs[k]]]

\* NeighborIter answers with running sums and their attributes.
LEMMA IterIs ==
  ASSUME NEW data, data.targets \in Seq(Int), data.attrs \in Seq(Attrs)
  PROVE  \E c : Summed(c, data)
<1> DEFINE n == Len(data.targets)
           c == CHOOSE f : Sums(f, data.targets, n)
<1>1. n \in Nat /\ \A k \in 1..n : data.targets[k] \in Int
  OBVIOUS
<1>2. Sums(c, data.targets, n)
  <2> HIDE DEF n
  <2> QED
    BY <1>1, SumsExist
<1>3. NeighborIter(data) = [k \in 1..Min({Len(data.targets), Len(data.attrs)}) |->
                                [dst |-> c[k], attr |-> data.attrs[k]]]
  BY DEF NeighborIter, Sums
<1> HIDE DEF c, n
<1>4. \A k \in 0..n : c[k] = IF k = 0 THEN 0 ELSE c[k - 1] + data.targets[k]
  BY <1>2 DEF Sums
<1>5. c[0] = 0 /\ \A k \in 1..n : c[k] = c[k - 1] + data.targets[k]
  <2>1. 0 \in 0..n /\ \A k \in 1..n : k \in 0..n /\ k # 0
    BY <1>1
  <2> QED
    BY <1>4, <2>1
<1>6. \A k \in 0..n : c[k] \in Int
  <2> DEFINE C == {k \in 0..n : c[k] \in Int}
  <2>1. 0 \in C
    BY <1>1, <1>5
  <2>2. ASSUME NEW k \in 1..n, k - 1 \in C PROVE k \in C
    <3>1. k \in 0..n /\ c[k - 1] \in Int /\ data.targets[k] \in Int
      BY <1>1, <2>2
    <3>2. c[k] \in Int
      BY <1>5, <3>1
    <3> QED
      BY <3>1, <3>2
  <2>3. \A k \in 0..n : k \in C
    <3> HIDE DEF C
    <3> QED
      BY <1>1, <2>1, <2>2, Climb
  <2> QED
    BY <2>3
<1>7. \A k \in 1..n : k \in 0..n
  BY <1>1
<1>8. Summed(c, data)
  BY <1>3, <1>5, <1>6, <1>7 DEF Summed, n
<1> QED
  BY <1>8

\* What neighbor_range_data cuts out is of the right kind, and empty past the last node.
LEMMA RangeData ==
  ASSUME NEW layer \in Layers, NEW src \in Nat, HasView(layer)
  PROVE  LET data == neighbor_range_data(layer, src)
         IN  /\ data.targets \in Seq(Int) /\ data.attrs \in Seq(Attrs)
             /\ src >= layer.nodes => data.targets = << >> /\ data.attrs = << >>
<1> DEFINE data == neighbor_range_data(layer, src)
           start == layer.offsets[src + 1] * BytesPerTarget
           end == layer.offsets[src + 2] * BytesPerTarget
           bytes == Len(layer.targets) * BytesPerTarget
<1>0. /\ layer.offsets \in Seq(Nat) /\ layer.targets \in Seq(Int) /\ layer.attrs \in Seq(Attrs)
      /\ layer.nodes \in Nat /\ Len(layer.offsets) = layer.nodes + 1
  BY DEF Layers, HasView
<1>1. CASE src >= layer.nodes
  <2>1. data = [targets |-> << >>, attrs |-> << >>]
    BY <1>1 DEF neighbor_range_data
  <2> QED
    BY <2>1
<1>2. CASE ~(src >= layer.nodes)
  <2>1. layer.offsets[src + 1] \in Nat /\ layer.offsets[src + 2] \in Nat
    <3>1. PICK os \in Seq(Nat) : os = layer.offsets /\ Len(os) = layer.nodes + 1
      BY <1>0
    <3>2. src + 1 \in 1..Len(os) /\ src + 2 \in 1..Len(os)
      BY <1>0, <1>2, <3>1
    <3>3. os[src + 1] \in Nat /\ os[src + 2] \in Nat
      BY <3>2
    <3> QED
      BY <3>1, <3>3
  <2>1a. Len(layer.targets) \in Nat /\ Len(layer.attrs) \in Nat
    BY <1>0
  <2>2. PICK o, p, l, m \in Nat : /\ o = layer.offsets[src + 1] /\ p = layer.offsets[src + 2]
                                  /\ l = Len(layer.targets) /\ m = Len(layer.attrs)
    <3> HIDE DEF start, end, bytes, data
    <3> QED
      BY <2>1, <2>1a, Zenon
  <2>3. start = o * 8 /\ end = p * 8 /\ bytes = l * 8
    BY <2>2 DEF BytesPerTarget
  <2>4. data.targets = IF start < bytes
                       THEN SubSeq(layer.targets, layer.offsets[src + 1] + 1, Min({end, bytes}) \div BytesPerTarget)
                       ELSE << >>
    BY <1>2 DEF neighbor_range_data
  <2>5. data.attrs = IF start < Len(layer.attrs)
                     THEN SubSeq(layer.attrs, start + 1, Min({end, Len(layer.attrs)}))
                     ELSE << >>
    BY <1>2 DEF neighbor_range_data
  <2> HIDE DEF data, start, end, bytes
  <2>6. data.targets \in Seq(Int)
    <3>1. end \in Nat /\ bytes \in Nat
      BY <2>3
    <3>2. Min({end, bytes}) = IF p <= l THEN p * 8 ELSE l * 8
      BY <2>3, <3>1, MinOfTwo
    <3>3. Min({end, bytes}) \div BytesPerTarget = IF p <= l THEN p ELSE l
      BY <3>2 DEF BytesPerTarget
    <3>4. PICK q \in Nat : q = Min({end, bytes}) \div BytesPerTarget /\ q <= l
      BY <3>3
    <3>5. o + 1 \in Nat /\ o + 1 # 0
      OBVIOUS
    <3>6. SubSeq(layer.targets, o + 1, q) \in Seq(Int)
      BY <1>0, <2>2, <3>4, <3>5, PartTypes
    <3>7. CASE start < bytes
      <4>1. data.targets = SubSeq(layer.targets, o + 1, q)
        BY <2>2, <2>4, <3>4, <3>7
      <4> QED
        BY <3>6, <4>1
    <3>8. CASE ~(start < bytes)
      BY <2>4, <3>8
    <3> QED
      BY <3>7, <3>8
  <2>7. data.attrs \in Seq(Attrs)
    <3>1. end \in Nat /\ start \in Nat
      BY <2>3
    <3>2. PICK q \in Nat : q = Min({end, Len(layer.attrs)}) /\ q <= m
      BY <2>2, <3>1, MinOfTwo
    <3>3. start + 1 \in Nat /\ start + 1 # 0
      BY <3>1
    <3>4. SubSeq(layer.attrs, start + 1, q) \in Seq(Attrs)
      BY <1>0, <2>2, <3>2, <3>3, PartTypes
    <3>5. CASE start < Len(layer.attrs)
      <4>1. data.attrs = SubSeq(layer.attrs, start + 1, q)
        BY <2>5, <3>2, <3>5
      <4> QED
        BY <3>4, <4>1
    <3>6. CASE ~(start < Len(layer.attrs))
      BY <2>5, <3>6
    <3> QED
      BY <3>5, <3>6
  <2> QED
    BY <1>2, <2>6, <2>7 DEF data
<1> QED
  BY <1>1, <1>2

\* What the readers see of a node is of the right kind, and empty past the last node.
LEMMA RowTypes ==
  ASSUME NEW layer \in Layers, NEW src \in Nat
  PROVE  /\ Row(layer, src) \in Seq(Neighbours)
         /\ src >= layer.nodes => Row(layer, src) = << >>
<1>1. CASE ~HasView(layer)
  BY <1>1 DEF Row
<1>2. CASE HasView(layer)
  <2> DEFINE data == neighbor_range_data(layer, src)
  <2>1. /\ data.targets \in Seq(Int) /\ data.attrs \in Seq(Attrs)
        /\ src >= layer.nodes => data.targets = << >> /\ data.attrs = << >>
    BY <1>2, RangeData
  <2>2. Row(layer, src) = NeighborIter(data)
    BY <1>2 DEF Row
  <2> HIDE DEF data
  <2>3. PICK c : Summed(c, data)
    BY <2>1, IterIs
  <2>4. PICK n, m \in Nat : n = Len(data.targets) /\ m = Len(data.attrs)
    BY <2>1
  <2>5. Min({n, m}) = IF n <= m THEN n ELSE m
    BY MinOfTwo
  <2>6. PICK k \in Nat : k = Min({n, m}) /\ k <= n /\ k <= m
    BY <2>5
  <2>7. Row(layer, src) = [i \in 1..k |-> [dst |-> c[i], attr |-> data.attrs[i]]]
    BY <2>2, <2>3, <2>4, <2>6 DEF Summed
  <2>8. \A i \in 1..k : [dst |-> c[i], attr |-> data.attrs[i]] \in Neighbours
    <3>1. TAKE i \in 1..k
    <3>2. i \in 1..n /\ i \in 1..m
      BY <2>6
    <3>3. c[i] \in Int /\ data.attrs[i] \in Attrs
      BY <2>1, <2>3, <2>4, <3>2 DEF Summed
    <3> QED
      BY <3>3 DEF Neighbours
  <2>9. Row(layer, src) \in Seq(Neighbours)
    <3>1. [i \in 1..k |-> [dst |-> c[i], attr |-> data.attrs[i]]] \in [1..k -> Neighbours]
      BY <2>8
    <3> QED
      BY <2>7, <3>1
  <2>10. ASSUME src >= layer.nodes PROVE Row(layer, src) = << >>
    <3>1. n = 0
      BY <2>1, <2>4, <2>10
    <3>2. k = 0
      BY <2>6, <3>1
    <3>3. Row(layer, src) = [i \in 1..0 |-> [dst |-> c[i], attr |-> data.attrs[i]]]
      BY <2>7, <3>2
    <3> QED
      BY <3>3
  <2> QED
    BY <2>9, <2>10
<1> QED
  BY <1>1, <1>2

-----------------------------------------------------------------------------
(* The edges of the base.                                                  *)

\* A finite set as a sequence.
LEMMA SetToSeqIs ==
  ASSUME NEW S, IsFiniteSet(S)
  PROVE  SetToSeq(S) \in Seq(S) /\ \A x : x \in ToSet(SetToSeq(S)) <=> x \in S
<1> DEFINE n == Cardinality(S)
           f == SetToSeq(S)
<1>1. n \in Nat /\ IsFiniteSet(1..n) /\ Cardinality(1..n) = n
  BY FS_CardinalityType, FS_Interval
<1>2. \E h \in [1..n -> S] : IsInjective(h)
  <2>1. IsFiniteSet(1..n) /\ IsFiniteSet(S) /\ Cardinality(1..n) = Cardinality(S)
    BY <1>1
  <2>2. ExistsBijection(1..n, S)
    BY <2>1, FS_SameCardinalityBij
  <2> QED
    BY <2>2 DEF ExistsBijection, Bijection, Injection
<1>3. f \in [1..n -> S] /\ IsInjective(f)
  BY <1>2 DEF SetToSeq
<1> HIDE DEF f
<1>4. f \in Injection(1..n, S)
  BY <1>3 DEF Injection
<1>5. f \in Surjection(1..n, S)
  BY <1>1, <1>4, FS_Injection
<1>6. \A x \in S : \E i \in 1..n : f[i] = x
  BY <1>5 DEF Surjection
<1>7. f \in Seq(S) /\ DOMAIN f = 1..n
  BY <1>1, <1>3
<1> QED
  BY <1>3, <1>6, <1>7 DEF ToSet, f

\* An edge that is read back from a row.
RowEntry(n, type, p) ==
    EdgeListEntry(n, p.dst, type, p.attr.conf, p.attr.from, p.attr.to, p.attr.deleted)

\* The entry that a scan makes of a neighbour, and its edge.
LEMMA RowEntryTypes ==
  ASSUME NEW n \in Nat, NEW type \in Nat, NEW p \in Neighbours
  PROVE  RowEntry(n, type, p) \in Entries /\ EntryKey(RowEntry(n, type, p)) = <<type, n, p.dst>>
<1>1. p.dst \in Int /\ p.attr \in Attrs
  BY DEF Neighbours
<1> QED
  BY <1>1 DEF RowEntry, EdgeListEntry, Entries, Attrs, EntryKey

\* What is left of a row without the deleted.
LEMMA LiveIs ==
  ASSUME NEW row \in Seq(Neighbours)
  PROVE  /\ Live(row) \in Seq(Neighbours)
         /\ \A p : p \in ToSet(Live(row)) <=> p \in ToSet(row) /\ ~p.attr.deleted
<1> DEFINE T == {p \in Range(row) : ~p.attr.deleted}
<1>1. /\ Keep(row, T) \in Seq(Neighbours)
      /\ \A x : x \in ToSet(Keep(row, T)) <=> x \in T /\ x \in ToSet(row)
  <2> HIDE DEF T
  <2> QED
    BY KeepElems
<1>2. \A x : x \in T <=> x \in ToSet(row) /\ ~x.attr.deleted
  BY DEF Range, ToSet
<1>3. Live(row) = Keep(row, T)
  BY DEF Live
<1> HIDE DEF T
<1> QED
  BY <1>1, <1>2, <1>3

\* A scan of a layer finds the live neighbours of its rows.
LEMMA LayerEdgesAre ==
  ASSUME NEW layer \in Layers, NEW type \in Nat, NEW nodes \in Nat
  PROVE  /\ LayerEdges(layer, type, nodes) \in Seq(Entries)
         /\ \A e : e \in ToSet(LayerEdges(layer, type, nodes))
                     <=> \E n \in 1..nodes : \E p \in ToSet(Row(layer, n - 1)) :
                            ~p.attr.deleted /\ e = RowEntry(n - 1, type, p)
<1> DEFINE L(n) == Live(Row(layer, n - 1))
           R(n) == [k \in DOMAIN L(n) |-> RowEntry(n - 1, type, L(n)[k])]
           seqs == [n \in 1..nodes |-> R(n)]
<1>1. ASSUME NEW n \in 1..nodes
      PROVE  /\ R(n) \in Seq(Entries)
             /\ \A e : e \in ToSet(R(n)) <=> \E p \in ToSet(Row(layer, n - 1)) :
                            ~p.attr.deleted /\ e = RowEntry(n - 1, type, p)
  <2>1. n - 1 \in Nat
    OBVIOUS
  <2>2. Row(layer, n - 1) \in Seq(Neighbours)
    BY <2>1, RowTypes
  <2>3. /\ L(n) \in Seq(Neighbours)
        /\ \A p : p \in ToSet(L(n)) <=> p \in ToSet(Row(layer, n - 1)) /\ ~p.attr.deleted
    BY <2>2, LiveIs
  <2> HIDE DEF L
  <2>4. PICK m \in Nat : DOMAIN L(n) = 1..m /\ \A k \in 1..m : L(n)[k] \in Neighbours
    BY <2>3
  <2>5. \A k \in 1..m : RowEntry(n - 1, type, L(n)[k]) \in Entries
    BY <2>1, <2>4, RowEntryTypes
  <2>6. R(n) \in Seq(Entries)
    <3>1. R(n) \in [1..m -> Entries]
      BY <2>4, <2>5
    <3> HIDE DEF R
    <3> QED
      BY <3>1
  <2>7. \A e : e \in ToSet(R(n)) <=> \E p \in ToSet(L(n)) : e = RowEntry(n - 1, type, p)
    BY DEF ToSet
  <2> QED
    BY <2>3, <2>6, <2>7
<1>2. LayerEdges(layer, type, nodes) = FlattenSeq(seqs)
  BY DEF LayerEdges, RowEntry
<1> HIDE DEF R
<1>3. seqs \in Seq(Seq(Entries)) /\ DOMAIN seqs = 1..nodes
  <2>1. seqs \in [1..nodes -> Seq(Entries)]
    BY <1>1
  <2> HIDE DEF seqs
  <2> QED
    BY <2>1
<1>4. \A n \in 1..nodes : seqs[n] = R(n)
  OBVIOUS
<1> HIDE DEF seqs
<1>5. /\ FlattenSeq(seqs) \in Seq(Entries)
      /\ \A x : x \in ToSet(FlattenSeq(seqs)) <=> \E i \in DOMAIN seqs : x \in ToSet(seqs[i])
  BY <1>3, FlattenElems
<1>6. ASSUME NEW e
      PROVE  e \in ToSet(FlattenSeq(seqs))
                <=> \E n \in 1..nodes : \E p \in ToSet(Row(layer, n - 1)) :
                       ~p.attr.deleted /\ e = RowEntry(n - 1, type, p)
  <2>1. e \in ToSet(FlattenSeq(seqs)) <=> \E n \in 1..nodes : e \in ToSet(R(n))
    BY <1>3, <1>4, <1>5
  <2> QED
    BY <1>1, <2>1
<1> QED
  BY <1>2, <1>5, <1>6

\* The base of a store.
BaseOK(base, nodes) ==
    /\ IsFiniteSet(DOMAIN base) /\ DOMAIN base \subseteq Nat
    /\ \A t \in DOMAIN base : base[t] \in Layers /\ base[t].nodes <= nodes

\* What has_edge finds in it.
InBase(base, key) ==
    /\ key[1] \in DOMAIN base
    /\ \E p \in Range(Row(base[key[1]], key[2])) : p.dst = key[3] /\ ~p.attr.deleted

Keys == Nat \X Nat \X Nat

\* A scan of the base finds exactly the edges that has_edge finds there.
LEMMA BaseEdgesAre ==
  ASSUME NEW g, g.nodes \in Nat, BaseOK(g.base, g.nodes)
  PROVE  /\ BaseEdges(g) \in Seq(Entries)
         /\ \A e \in ToSet(BaseEdges(g)) : ~e.deleted
         /\ \A key \in Keys : (\E e \in ToSet(BaseEdges(g)) : EntryKey(e) = key) <=> InBase(g.base, key)
<1> DEFINE types == SetToSeq(DOMAIN g.base)
           L(t) == LayerEdges(g.base[t], t, g.nodes)
           seqs == [k \in DOMAIN types |-> L(types[k])]
<1>1. types \in Seq(DOMAIN g.base) /\ \A t : t \in ToSet(types) <=> t \in DOMAIN g.base
  BY SetToSeqIs DEF BaseOK
<1>2. BaseEdges(g) = FlattenSeq(seqs)
  BY DEF BaseEdges
<1>3. ASSUME NEW t \in DOMAIN g.base
      PROVE  /\ L(t) \in Seq(Entries) /\ t \in Nat /\ g.base[t] \in Layers
             /\ \A e : e \in ToSet(L(t)) <=> \E n \in 1..g.nodes : \E p \in ToSet(Row(g.base[t], n - 1)) :
                            ~p.attr.deleted /\ e = RowEntry(n - 1, t, p)
  <2>1. t \in Nat /\ g.base[t] \in Layers
    BY DEF BaseOK
  <2> QED
    BY <2>1, LayerEdgesAre
<1> HIDE DEF types, L
<1>4. PICK m \in Nat : DOMAIN types = 1..m /\ \A k \in 1..m : types[k] \in DOMAIN g.base
  BY <1>1
<1>5. seqs \in Seq(Seq(Entries))
  <2>1. seqs \in [1..m -> Seq(Entries)]
    BY <1>3, <1>4
  <2> HIDE DEF seqs
  <2> QED
    BY <2>1
<1>6. DOMAIN seqs = 1..m /\ \A k \in 1..m : seqs[k] = L(types[k])
  BY <1>4
<1> HIDE DEF seqs
<1>7. /\ FlattenSeq(seqs) \in Seq(Entries)
      /\ \A x : x \in ToSet(FlattenSeq(seqs)) <=> \E i \in DOMAIN seqs : x \in ToSet(seqs[i])
  BY <1>5, FlattenElems
<1>8. \A e : e \in ToSet(BaseEdges(g)) <=> \E t \in DOMAIN g.base : e \in ToSet(L(t))
  <2>1. \A t : t \in DOMAIN g.base <=> \E k \in 1..m : t = types[k]
    BY <1>1, <1>4 DEF ToSet
  <2> QED
    BY <1>2, <1>6, <1>7, <2>1
<1>9. ASSUME NEW e \in ToSet(BaseEdges(g))
      PROVE  \E t \in DOMAIN g.base : \E n \in Nat : \E p \in ToSet(Row(g.base[t], n)) :
                ~p.attr.deleted /\ e = RowEntry(n, t, p) /\ p \in Neighbours
  <2>1. PICK t \in DOMAIN g.base : e \in ToSet(L(t))
    BY <1>8
  <2>2. PICK n \in 1..g.nodes : \E p \in ToSet(Row(g.base[t], n - 1)) :
                            ~p.attr.deleted /\ e = RowEntry(n - 1, t, p)
    BY <1>3, <2>1
  <2>3. n - 1 \in Nat
    OBVIOUS
  <2>4. Row(g.base[t], n - 1) \in Seq(Neighbours)
    BY <1>3, <2>3, RowTypes
  <2>5. \A p \in ToSet(Row(g.base[t], n - 1)) : p \in Neighbours
    BY <2>4 DEF ToSet
  <2> QED
    BY <2>2, <2>3, <2>5
<1>10. \A e \in ToSet(BaseEdges(g)) : ~e.deleted
  <2> TAKE e \in ToSet(BaseEdges(g))
  <2>1. PICK t \in DOMAIN g.base, n \in Nat : \E p \in ToSet(Row(g.base[t], n)) :
                ~p.attr.deleted /\ e = RowEntry(n, t, p)
    BY <1>9
  <2> QED
    BY <2>1 DEF RowEntry, EdgeListEntry
<1>11. ASSUME NEW key \in Keys
       PROVE  (\E e \in ToSet(BaseEdges(g)) : EntryKey(e) = key) <=> InBase(g.base, key)
  <2>0. PICK t \in Nat, s \in Nat, d \in Nat : key = <<t, s, d>> /\ key[1] = t /\ key[2] = s /\ key[3] = d
    <3>1. key[1] \in Nat /\ key[2] \in Nat /\ key[3] \in Nat /\ key = <<key[1], key[2], key[3]>>
      BY DEF Keys
    <3> QED
      BY <3>1
  <2>1. ASSUME NEW e \in ToSet(BaseEdges(g)), EntryKey(e) = key PROVE InBase(g.base, key)
    <3>1. PICK u \in DOMAIN g.base, n \in Nat : \E p \in ToSet(Row(g.base[u], n)) :
                ~p.attr.deleted /\ e = RowEntry(n, u, p) /\ p \in Neighbours
      BY <1>9
    <3>2. PICK p \in ToSet(Row(g.base[u], n)) : ~p.attr.deleted /\ e = RowEntry(n, u, p) /\ p \in Neighbours
      BY <3>1
    <3>3. EntryKey(e) = <<u, n, p.dst>>
      BY <1>3, <3>2, RowEntryTypes
    <3>4. u = t /\ n = s /\ p.dst = d
      BY <2>0, <2>1, <3>3
    <3> QED
      BY <2>0, <3>2, <3>4 DEF InBase, Range, ToSet
  <2>2. ASSUME InBase(g.base, key) PROVE \E e \in ToSet(BaseEdges(g)) : EntryKey(e) = key
    <3>1. t \in DOMAIN g.base
      BY <2>0, <2>2 DEF InBase
    <3>2. PICK p \in ToSet(Row(g.base[t], s)) : p.dst = d /\ ~p.attr.deleted
      BY <2>0, <2>2 DEF InBase, Range, ToSet
    <3>3. Row(g.base[t], s) \in Seq(Neighbours) /\ (s >= g.base[t].nodes => Row(g.base[t], s) = << >>)
      BY <1>3, <3>1, RowTypes
    <3>4. p \in Neighbours /\ Row(g.base[t], s) # << >>
      BY <3>2, <3>3 DEF ToSet
    <3>5. s < g.nodes
      <4>1. g.base[t].nodes \in Nat /\ g.base[t].nodes <= g.nodes
        BY <1>3, <3>1 DEF BaseOK, Layers
      <4> QED
        BY <3>3, <3>4, <4>1
    <3>6. s + 1 \in 1..g.nodes /\ (s + 1) - 1 = s
      BY <3>5
    <3>7. RowEntry(s, t, p) \in ToSet(L(t))
      <4>1. \E n \in 1..g.nodes : \E q \in ToSet(Row(g.base[t], n - 1)) :
                            ~q.attr.deleted /\ RowEntry(s, t, p) = RowEntry(n - 1, t, q)
        BY <3>2, <3>6
      <4> QED
        BY <1>3, <3>1, <4>1
    <3>8. EntryKey(RowEntry(s, t, p)) = <<t, s, d>>
      BY <3>2, <3>4, RowEntryTypes
    <3> QED
      BY <1>8, <2>0, <3>1, <3>7, <3>8
  <2> QED
    BY <2>1, <2>2
<1> QED
  BY <1>2, <1>7, <1>10, <1>11

-----------------------------------------------------------------------------
(* The store in memory.                                                    *)

Deltas == [id : Nat, gen : Nat, edges : Seq(Entries)]

Shape(g) ==
    /\ g = [nodes |-> g.nodes, types |-> g.types, gen |-> g.gen, compacted |-> g.compacted,
            readonly |-> g.readonly, base |-> g.base, delta |-> g.delta, rev |-> g.rev, next |-> g.next]
    /\ g.nodes \in Nat /\ g.gen \in Nat /\ g.next \in Nat
    /\ g.compacted \in BOOLEAN /\ g.readonly \in BOOLEAN
    /\ IsFiniteSet(g.types) /\ g.types \subseteq Nat
    /\ BaseOK(g.base, g.nodes) /\ g.delta \in Seq(Deltas)

\* has_edge and the reverse index answer alike.
Finds(g, key) == has_edge(g, key[2], key[3], key[1])
Agree(g) ==
    /\ g.rev \in SUBSET Arrivals
    /\ \A key \in Keys : Finds(g, key) <=> Indexed(g.rev, key)

\* The entries of the deltas are entries.
LEMMA DeltaEntriesAre ==
  ASSUME NEW g, g.delta \in Seq(Deltas)
  PROVE  /\ DeltaEntries(g) \in Seq(Entries)
         /\ [k \in DOMAIN g.delta |-> g.delta[k].edges] \in Seq(Seq(Entries))
<1> DEFINE seqs == [k \in DOMAIN g.delta |-> g.delta[k].edges]
<1>1. PICK m \in Nat : DOMAIN g.delta = 1..m /\ \A k \in 1..m : g.delta[k] \in Deltas
  OBVIOUS
<1>2. seqs \in [1..m -> Seq(Entries)]
  BY <1>1 DEF Deltas
<1>3. seqs \in Seq(Seq(Entries))
  <2> HIDE DEF seqs
  <2> QED
    BY <1>2
<1>4. DeltaEntries(g) = FlattenSeq(seqs)
  BY DEF DeltaEntries
<1> HIDE DEF seqs
<1>5. FlattenSeq(seqs) \in Seq(Entries)
  BY <1>3, FlattenElems
<1> QED
  BY <1>3, <1>4, <1>5 DEF seqs

\* has_edge: the latest entry of the deltas decides, else the base.
LEMMA FindsIs ==
  ASSUME NEW g, NEW key \in Keys
  PROVE  Finds(g, key) = Latest(InBase(g.base, key), DeltaEntries(g), key)
<1>1. key = <<key[1], key[2], key[3]>>
  BY DEF Keys
<1>2. About(DeltaEntries(g), key) = {i \in DOMAIN DeltaEntries(g) : EntryKey(DeltaEntries(g)[i]) = <<key[1], key[2], key[3]>>}
  BY <1>1 DEF About
<1> QED
  BY <1>2 DEF Finds, has_edge, Latest, InBase

\* A rebuilt reverse index agrees with has_edge, whatever the layers hold.
LEMMA RebuiltAgrees ==
  ASSUME NEW g, Shape(g)
  PROVE  Shape(rebuild_reverse_index(g)) /\ Agree(rebuild_reverse_index(g))
<1> DEFINE h == rebuild_reverse_index(g)
           R == {Incoming(e) : e \in Range(BaseEdges(g))}
           D == DeltaEntries(g)
<1>1. h = [nodes |-> g.nodes, types |-> g.types, gen |-> g.gen, compacted |-> g.compacted,
           readonly |-> g.readonly, base |-> g.base, delta |-> g.delta,
           rev |-> FoldLeft(apply_reverse_entry, R, D), next |-> g.next]
  BY DEF rebuild_reverse_index, Shape
<1> HIDE DEF h
<1>2. /\ h.rev = FoldLeft(apply_reverse_entry, R, D) /\ h.base = g.base /\ h.delta = g.delta
      /\ h.nodes = g.nodes /\ h.types = g.types /\ h.gen = g.gen /\ h.next = g.next
      /\ h.compacted = g.compacted /\ h.readonly = g.readonly
      /\ h = [nodes |-> h.nodes, types |-> h.types, gen |-> h.gen, compacted |-> h.compacted,
              readonly |-> h.readonly, base |-> h.base, delta |-> h.delta, rev |-> h.rev, next |-> h.next]
  BY <1>1
<1>3. Shape(h)
  BY <1>2 DEF Shape
<1>4. /\ BaseEdges(g) \in Seq(Entries)
      /\ \A key \in Keys : (\E e \in ToSet(BaseEdges(g)) : EntryKey(e) = key) <=> InBase(g.base, key)
  BY BaseEdgesAre DEF Shape
<1>5. \A e \in ToSet(BaseEdges(g)) : e \in Entries
  BY <1>4 DEF ToSet
<1>6. R \in SUBSET Arrivals
  <2>1. ASSUME NEW e \in ToSet(BaseEdges(g)) PROVE Incoming(e) \in Arrivals
    BY <1>5 DEF Incoming, Entries, Arrivals
  <2> QED
    BY <2>1 DEF Range, ToSet
<1>7. ASSUME NEW key \in Keys PROVE Indexed(R, key) <=> InBase(g.base, key)
  <2>1. \A e : EntryKey(Incoming(e)) = EntryKey(e)
    BY DEF EntryKey, Incoming
  <2>2. Indexed(R, key) <=> \E e \in ToSet(BaseEdges(g)) : EntryKey(e) = key
    BY <2>1 DEF Indexed, Range, ToSet
  <2> QED
    BY <1>4, <2>2
<1>8. D \in Seq(Entries) /\ DeltaEntries(h) = D
  <2>1. D \in Seq(Entries)
    BY DeltaEntriesAre DEF Shape
  <2>2. DeltaEntries(h) = D
    BY <1>2 DEF DeltaEntries
  <2> QED
    BY <2>1, <2>2
<1> HIDE DEF R, D
<1>9. h.rev \in SUBSET Arrivals
  BY <1>2, <1>6, <1>8, FoldIndexed
<1>10. ASSUME NEW key \in Keys PROVE Finds(h, key) <=> Indexed(h.rev, key)
  <2>1. Finds(h, key) = Latest(InBase(g.base, key), D, key)
    BY <1>2, <1>8, FindsIs
  <2>2. Indexed(h.rev, key) <=> Latest(Indexed(R, key), D, key)
    BY <1>2, <1>6, <1>8, FoldIndexed
  <2>3. Latest(Indexed(R, key), D, key) <=> Latest(InBase(g.base, key), D, key)
    BY <1>7 DEF Latest
  <2> QED
    BY <2>1, <2>2, <2>3
<1> QED
  BY <1>3, <1>9, <1>10 DEF Agree, h

-----------------------------------------------------------------------------
(* Edges that are added and deleted.                                       *)

(* An entry at the end of the deltas.                                      *)
LEMMA PushIs ==
  ASSUME NEW g, Shape(g), NEW e \in Entries, NEW fresh \in BOOLEAN, g.delta = << >> => fresh
  PROVE  LET h == Push(g, e, fresh)
         IN  /\ h = [nodes |-> g.nodes, types |-> g.types, gen |-> g.gen, compacted |-> g.compacted,
                     readonly |-> g.readonly, base |-> g.base, delta |-> h.delta, rev |-> g.rev, next |-> h.next]
             /\ h.delta \in Seq(Deltas) /\ h.next \in Nat
             /\ FlattenSeq([k \in DOMAIN h.delta |-> h.delta[k].edges]) = Append(DeltaEntries(g), e)
<1> DEFINE seqs == [k \in DOMAIN g.delta |-> g.delta[k].edges]
           n == Len(g.delta)
<1>1. /\ g = [nodes |-> g.nodes, types |-> g.types, gen |-> g.gen, compacted |-> g.compacted,
              readonly |-> g.readonly, base |-> g.base, delta |-> g.delta, rev |-> g.rev, next |-> g.next]
      /\ g.gen \in Nat /\ g.next \in Nat /\ g.delta \in Seq(Deltas)
  BY DEF Shape
<1>2. seqs \in Seq(Seq(Entries)) /\ DeltaEntries(g) \in Seq(Entries) /\ DeltaEntries(g) = FlattenSeq(seqs)
  BY <1>1, DeltaEntriesAre DEF DeltaEntries
<1>3. n \in Nat /\ DOMAIN g.delta = 1..n /\ Len(seqs) = n /\ \A k \in 1..n : seqs[k] = g.delta[k].edges
  BY <1>1
<1> HIDE DEF seqs
<1>4. CASE fresh
  <2> DEFINE new == DeltaLayer(g.next, g.gen, <<e>>)
             h == Push(g, e, fresh)
  <2>1. h = [nodes |-> g.nodes, types |-> g.types, gen |-> g.gen, compacted |-> g.compacted,
             readonly |-> g.readonly, base |-> g.base, delta |-> Append(g.delta, new), rev |-> g.rev,
             next |-> g.next + 1]
    BY <1>1, <1>4 DEF Push
  <2>2. new \in Deltas /\ new.edges = <<e>>
    <3>1. <<e>> \in Seq(Entries)
      OBVIOUS
    <3> QED
      BY <1>1, <3>1 DEF DeltaLayer, Deltas
  <2> HIDE DEF new, h
  <2>3. /\ Append(g.delta, new) \in Seq(Deltas) /\ DOMAIN Append(g.delta, new) = 1..(n + 1)
        /\ Append(g.delta, new)[n + 1] = new
        /\ \A k \in 1..n : Append(g.delta, new)[k] = g.delta[k]
    BY <1>1, <1>3, <2>2
  <2>4. [k \in DOMAIN h.delta |-> h.delta[k].edges] = Append(seqs, <<e>>)
    <3>1. Append(seqs, <<e>>) = [k \in 1..(n + 1) |-> IF k = n + 1 THEN <<e>> ELSE seqs[k]]
      BY <1>2, <1>3
    <3>2. \A k \in 1..(n + 1) : k # n + 1 => k \in 1..n
      BY <1>3
    <3>3. h.delta = Append(g.delta, new)
      BY <2>1
    <3>4. \A k \in 1..(n + 1) : Append(g.delta, new)[k].edges = IF k = n + 1 THEN <<e>> ELSE seqs[k]
      BY <1>3, <2>2, <2>3, <3>2
    <3> QED
      BY <2>3, <3>1, <3>3, <3>4
  <2>5. FlattenSeq(Append(seqs, <<e>>)) = Append(FlattenSeq(seqs), e)
    <3>1. <<e>> \in Seq(Entries)
      OBVIOUS
    <3>2. FlattenSeq(Append(seqs, <<e>>)) = FlattenSeq(seqs) \o <<e>>
      BY <1>2, <3>1, FlattenAppend
    <3>3. PICK D \in Seq(Entries) : D = FlattenSeq(seqs)
      BY <1>2
    <3>4. D \o <<e>> = Append(D, e)
      OBVIOUS
    <3> QED
      BY <3>2, <3>3, <3>4
  <2>6. h.delta \in Seq(Deltas) /\ h.next \in Nat
    BY <1>1, <2>1, <2>3
  <2>7. h = [nodes |-> g.nodes, types |-> g.types, gen |-> g.gen, compacted |-> g.compacted,
             readonly |-> g.readonly, base |-> g.base, delta |-> h.delta, rev |-> g.rev, next |-> h.next]
    BY <2>1
  <2> QED
    BY <1>2, <2>4, <2>5, <2>6, <2>7 DEF h
<1>5. CASE ~fresh
  <2> DEFINE old == g.delta[n]
             new == [old EXCEPT !.edges = Append(old.edges, e)]
             h == Push(g, e, fresh)
             ds == [g.delta EXCEPT ![n] = new]
  <2>0. n \in 1..n /\ old \in Deltas /\ g.delta # << >>
    BY <1>1, <1>3, <1>5
  <2>1. h = [nodes |-> g.nodes, types |-> g.types, gen |-> g.gen, compacted |-> g.compacted,
             readonly |-> g.readonly, base |-> g.base, delta |-> ds, rev |-> g.rev,
             next |-> g.next]
    BY <1>1, <1>5 DEF Push
  <2>2. new \in Deltas /\ new.edges = Append(old.edges, e)
    <3>1. old.edges \in Seq(Entries) /\ old.id \in Nat /\ old.gen \in Nat
      BY <2>0 DEF Deltas
    <3>2. Append(old.edges, e) \in Seq(Entries)
      BY <3>1
    <3>3. PICK d \in Deltas : d = old
      BY <2>0
    <3>4. ASSUME NEW x PROVE [d EXCEPT !.edges = x] = [id |-> d.id, gen |-> d.gen, edges |-> x]
      <4>1. d = [id |-> d.id, gen |-> d.gen, edges |-> d.edges]
        BY DEF Deltas
      <4> QED
        BY <4>1
    <3>5. new = [id |-> old.id, gen |-> old.gen, edges |-> Append(old.edges, e)]
      BY <3>3, <3>4
    <3> HIDE DEF new, old
    <3> QED
      BY <3>1, <3>2, <3>5 DEF Deltas
  <2>3. old.edges = seqs[n]
    BY <1>3, <2>0
  <2> HIDE DEF new, h, old
  <2>4. ds \in Seq(Deltas) /\ DOMAIN ds = 1..n /\ ds[n] = new /\ \A k \in 1..(n - 1) : ds[k] = g.delta[k]
    <3>1. PICK s \in Seq(Deltas), m \in Nat, d \in Deltas : s = g.delta /\ m = n /\ d = new
      BY <1>1, <1>3, <2>2
    <3>2. m = Len(s) /\ m \in 1..m
      BY <1>3, <2>0, <3>1
    <3>3. /\ [s EXCEPT ![m] = d] \in Seq(Deltas) /\ DOMAIN [s EXCEPT ![m] = d] = 1..m
          /\ [s EXCEPT ![m] = d][m] = d /\ \A k \in 1..(m - 1) : [s EXCEPT ![m] = d][k] = s[k]
      BY <3>2
    <3> HIDE DEF n
    <3> QED
      BY <3>1, <3>3
  <2> HIDE DEF ds
  <2> DEFINE t == [k \in DOMAIN h.delta |-> h.delta[k].edges]
  <2>5. Len(t) = Len(seqs) /\ t[n] = Append(seqs[n], e) /\ \A k \in 1..(n - 1) : t[k] = seqs[k]
    <3>1. h.delta = ds
      BY <2>1
    <3>2. t = [k \in 1..n |-> ds[k].edges]
      BY <2>4, <3>1
    <3>3. \A k \in 1..(n - 1) : k \in 1..n
      BY <1>3
    <3>4. Len(t) = n
      BY <1>3, <3>2
    <3> HIDE DEF t
    <3> QED
      BY <1>3, <2>0, <2>2, <2>3, <2>4, <3>2, <3>3, <3>4
  <2> HIDE DEF t
  <2>6. FlattenSeq(t) = Append(FlattenSeq(seqs), e)
    <3>1. seqs # << >> /\ n = Len(seqs)
      BY <1>3, <2>0
    <3> HIDE DEF n
    <3> QED
      BY <1>2, <2>5, <3>1, FlattenGrows
  <2>7. h.delta \in Seq(Deltas) /\ h.next \in Nat
    BY <1>1, <2>1, <2>4
  <2>8. h = [nodes |-> g.nodes, types |-> g.types, gen |-> g.gen, compacted |-> g.compacted,
             readonly |-> g.readonly, base |-> g.base, delta |-> h.delta, rev |-> g.rev, next |-> h.next]
    BY <2>1
  <2> QED
    BY <1>2, <2>6, <2>7, <2>8 DEF h, t
<1> QED
  BY <1>4, <1>5

(* What an entry changes.                                                  *)
LEMMA EntryTakes ==
  ASSUME NEW g, Shape(g), Agree(g), NEW e \in Entries, NEW h, h.base = g.base,
         DeltaEntries(h) = Append(DeltaEntries(g), e), h.rev = apply_reverse_entry(g.rev, e)
  PROVE  /\ Agree(h)
         /\ \A key \in Keys : Finds(h, key) <=> IF EntryKey(e) = key THEN ~e.deleted ELSE Finds(g, key)
<1>1. DeltaEntries(g) \in Seq(Entries)
  BY DeltaEntriesAre DEF Shape
<1>2. h.rev \in SUBSET Arrivals
  BY ApplyTypes DEF Agree
<1>3. ASSUME NEW key \in Keys
      PROVE  /\ Finds(h, key) <=> IF EntryKey(e) = key THEN ~e.deleted ELSE Finds(g, key)
             /\ Finds(h, key) <=> Indexed(h.rev, key)
  <2>1. /\ Finds(h, key) = Latest(InBase(g.base, key), DeltaEntries(h), key)
        /\ Finds(g, key) = Latest(InBase(g.base, key), DeltaEntries(g), key)
    BY FindsIs
  <2>2. Finds(h, key) = IF EntryKey(e) = key THEN ~e.deleted ELSE Finds(g, key)
    BY <1>1, <2>1, LatestAppend
  <2>3. Indexed(h.rev, key) <=> IF EntryKey(e) = key THEN ~e.deleted ELSE Indexed(g.rev, key)
    BY ApplyIndexed
  <2>4. Finds(g, key) <=> Indexed(g.rev, key)
    BY DEF Agree
  <2> QED
    BY <2>2, <2>3, <2>4
<1> QED
  BY <1>2, <1>3 DEF Agree

(* The store after a call that leaves its base.                            *)
Same(g, h) == h.base = g.base /\ h.delta = g.delta /\ h.rev = g.rev

\* What is found depends on base, deltas and reverse index alone.
LEMMA SameFinds ==
  ASSUME NEW g, NEW h, Same(g, h), Agree(g)
  PROVE  Agree(h) /\ \A key \in Keys : Finds(h, key) <=> Finds(g, key)
<1>1. DeltaEntries(h) = DeltaEntries(g)
  BY DEF DeltaEntries, Same
<1>2. \A key \in Keys : Finds(h, key) = Finds(g, key)
  BY <1>1, FindsIs DEF Same
<1> QED
  BY <1>2 DEF Agree, Same

\* A base stays one when the store counts more nodes.
LEMMA BaseGrows ==
  ASSUME NEW base, NEW n \in Nat, BaseOK(base, n), NEW m \in Nat, n <= m
  PROVE  BaseOK(base, m)
<1>1. \A t \in DOMAIN base : base[t].nodes \in Nat /\ base[t].nodes <= n
  BY DEF BaseOK, Layers
<1> QED
  BY <1>1 DEF BaseOK

\* add_node changes nothing that is found.
LEMMA AddNodeKeeps ==
  ASSUME NEW g, Shape(g), Agree(g), NEW n \in Nat
  PROVE  LET h == add_node(g, n)
         IN  Shape(h) /\ Agree(h) /\ \A key \in Keys : Finds(h, key) <=> Finds(g, key)
<1> DEFINE h == add_node(g, n)
           m == Max({g.nodes, n + 1})
<1>1. m \in Nat /\ g.nodes <= m
  <2>1. g.nodes \in Nat
    BY DEF Shape
  <2>2. /\ {g.nodes, n + 1} \subseteq Nat /\ {g.nodes, n + 1} # {} /\ (g.nodes + n) + 1 \in Nat
        /\ \A x \in {g.nodes, n + 1} : x <= (g.nodes + n) + 1
    BY <2>1
  <2> QED
    BY <2>2, MaxOfBounded
<1>2. h = [nodes |-> m, types |-> g.types, gen |-> g.gen, compacted |-> g.compacted,
           readonly |-> g.readonly, base |-> g.base, delta |-> g.delta, rev |-> g.rev, next |-> g.next]
  BY DEF add_node, Shape
<1> HIDE DEF h, m
<1>3. BaseOK(g.base, m)
  BY <1>1, BaseGrows DEF Shape
<1>4. Shape(h)
  BY <1>1, <1>2, <1>3 DEF Shape
<1>5. Same(g, h)
  BY <1>2 DEF Same
<1> QED
  BY <1>4, <1>5, SameFinds DEF h

\* set_readonly changes nothing that is found.
LEMMA ReadonlyKeeps ==
  ASSUME NEW g, Shape(g), Agree(g), NEW on \in BOOLEAN
  PROVE  LET h == set_readonly(g, on)
         IN  Shape(h) /\ Agree(h) /\ \A key \in Keys : Finds(h, key) <=> Finds(g, key)
<1> DEFINE h == set_readonly(g, on)
<1>1. h = [nodes |-> g.nodes, types |-> g.types, gen |-> g.gen, compacted |-> g.compacted,
           readonly |-> on, base |-> g.base, delta |-> g.delta, rev |-> g.rev, next |-> g.next]
  BY DEF set_readonly, Shape
<1> HIDE DEF h
<1>2. Shape(h)
  BY <1>1 DEF Shape
<1>3. Same(g, h)
  BY <1>1 DEF Same
<1> QED
  BY <1>2, <1>3, SameFinds DEF h

\* add_edge adds its edge to what is found, and no other.
LEMMA AddEdgeTakes ==
  ASSUME NEW g, Shape(g), Agree(g), NEW src \in Nat, NEW dst \in Nat, NEW type \in Nat
  PROVE  LET h == add_edge(g, src, dst, type, 1)
         IN  /\ Shape(h) /\ Agree(h)
             /\ \A key \in Keys : Finds(h, key) <=> key = <<type, src, dst>> \/ Finds(g, key)
<1> DEFINE h == add_edge(g, src, dst, type, 1)
           e == EdgeListEntry(src, dst, type, 1, 0, 0, FALSE)
           fresh == g.delta = <<>> \/ Len(g.delta[Len(g.delta)].edges) > DeltaCap
           p == Push(g, e, fresh)
           m == Max({g.nodes, src + 1, dst + 1})
<1>1. m \in Nat /\ g.nodes <= m
  <2>1. g.nodes \in Nat
    BY DEF Shape
  <2>2. /\ {g.nodes, src + 1, dst + 1} \subseteq Nat /\ {g.nodes, src + 1, dst + 1} # {}
        /\ (g.nodes + src) + (dst + 1) \in Nat
        /\ \A x \in {g.nodes, src + 1, dst + 1} : x <= (g.nodes + src) + (dst + 1)
    BY <2>1
  <2> QED
    BY <2>2, MaxOfBounded
<1>2. e \in Entries /\ EntryKey(e) = <<type, src, dst>> /\ ~e.deleted
  BY DEF EdgeListEntry, Entries, EntryKey
<1>3. fresh \in BOOLEAN /\ (g.delta = << >> => fresh)
  OBVIOUS
<1>4. h = [p EXCEPT !.nodes = Max({@, src + 1, dst + 1}), !.types = @ \union {type},
                    !.rev = apply_reverse_entry(@, e)]
  BY DEF add_edge
<1> HIDE DEF h, e, fresh
<1>5. /\ p = [nodes |-> g.nodes, types |-> g.types, gen |-> g.gen, compacted |-> g.compacted,
              readonly |-> g.readonly, base |-> g.base, delta |-> p.delta, rev |-> g.rev, next |-> p.next]
      /\ p.delta \in Seq(Deltas) /\ p.next \in Nat
      /\ FlattenSeq([k \in DOMAIN p.delta |-> p.delta[k].edges]) = Append(DeltaEntries(g), e)
  BY <1>2, <1>3, PushIs
<1> HIDE DEF p
<1>5a. PICK d, x : p = [nodes |-> g.nodes, types |-> g.types, gen |-> g.gen, compacted |-> g.compacted,
                      readonly |-> g.readonly, base |-> g.base, delta |-> d, rev |-> g.rev, next |-> x]
  <2>1. p = [nodes |-> g.nodes, types |-> g.types, gen |-> g.gen, compacted |-> g.compacted,
             readonly |-> g.readonly, base |-> g.base, delta |-> p.delta, rev |-> g.rev, next |-> p.next]
    BY <1>5
  <2> QED
    BY <2>1
<1>5b. d = p.delta /\ x = p.next /\ p.nodes = g.nodes /\ p.types = g.types /\ p.rev = g.rev
  BY <1>5a
<1>6. h = [nodes |-> m, types |-> g.types \union {type}, gen |-> g.gen, compacted |-> g.compacted,
           readonly |-> g.readonly, base |-> g.base, delta |-> p.delta,
           rev |-> apply_reverse_entry(g.rev, e), next |-> p.next]
  BY <1>4, <1>5a, <1>5b
<1> HIDE DEF m
<1>7. Shape(h)
  <2>1. BaseOK(g.base, m)
    BY <1>1, BaseGrows DEF Shape
  <2>2. IsFiniteSet(g.types \union {type}) /\ g.types \union {type} \subseteq Nat
    BY FS_AddElement DEF Shape
  <2> QED
    BY <1>1, <1>5, <1>6, <2>1, <2>2 DEF Shape
<1>8. DeltaEntries(h) = Append(DeltaEntries(g), e)
  BY <1>5, <1>6 DEF DeltaEntries
<1>9. h.base = g.base /\ h.rev = apply_reverse_entry(g.rev, e)
  BY <1>6
<1>10. /\ Agree(h)
       /\ \A key \in Keys : Finds(h, key) <=> IF EntryKey(e) = key THEN ~e.deleted ELSE Finds(g, key)
  BY <1>2, <1>8, <1>9, EntryTakes
<1>11. \A key \in Keys : Finds(h, key) <=> key = <<type, src, dst>> \/ Finds(g, key)
  BY <1>2, <1>10
<1> QED
  BY <1>7, <1>10, <1>11 DEF h

\* delete_edge takes its edge from what is found, and no other.
LEMMA DeleteEdgeTakes ==
  ASSUME NEW g, Shape(g), Agree(g), NEW src \in Nat, NEW dst \in Nat, NEW type \in Nat
  PROVE  LET h == delete_edge(g, src, dst, type)
         IN  /\ Shape(h) /\ Agree(h)
             /\ \A key \in Keys : Finds(h, key) <=> key # <<type, src, dst>> /\ Finds(g, key)
<1> DEFINE h == delete_edge(g, src, dst, type)
           e == tombstone(src, dst, type)
           fresh == g.delta = <<>>
           p == Push(g, e, fresh)
<1>2. e \in Entries /\ EntryKey(e) = <<type, src, dst>> /\ e.deleted
  BY DEF tombstone, EdgeListEntry, Entries, EntryKey
<1>3. fresh \in BOOLEAN /\ (g.delta = << >> => fresh)
  OBVIOUS
<1>4. h = [p EXCEPT !.rev = apply_reverse_entry(@, e)]
  BY DEF delete_edge
<1> HIDE DEF h, e, fresh
<1>5. /\ p = [nodes |-> g.nodes, types |-> g.types, gen |-> g.gen, compacted |-> g.compacted,
              readonly |-> g.readonly, base |-> g.base, delta |-> p.delta, rev |-> g.rev, next |-> p.next]
      /\ p.delta \in Seq(Deltas) /\ p.next \in Nat
      /\ FlattenSeq([k \in DOMAIN p.delta |-> p.delta[k].edges]) = Append(DeltaEntries(g), e)
  BY <1>2, <1>3, PushIs
<1> HIDE DEF p
<1>5a. PICK d, x : p = [nodes |-> g.nodes, types |-> g.types, gen |-> g.gen, compacted |-> g.compacted,
                      readonly |-> g.readonly, base |-> g.base, delta |-> d, rev |-> g.rev, next |-> x]
  <2>1. p = [nodes |-> g.nodes, types |-> g.types, gen |-> g.gen, compacted |-> g.compacted,
             readonly |-> g.readonly, base |-> g.base, delta |-> p.delta, rev |-> g.rev, next |-> p.next]
    BY <1>5
  <2> QED
    BY <2>1
<1>5b. d = p.delta /\ x = p.next /\ p.nodes = g.nodes /\ p.types = g.types /\ p.rev = g.rev
  BY <1>5a
<1>6. h = [nodes |-> g.nodes, types |-> g.types, gen |-> g.gen, compacted |-> g.compacted,
           readonly |-> g.readonly, base |-> g.base, delta |-> p.delta,
           rev |-> apply_reverse_entry(g.rev, e), next |-> p.next]
  BY <1>4, <1>5a, <1>5b
<1>7. Shape(h)
  BY <1>5, <1>6 DEF Shape
<1>8. DeltaEntries(h) = Append(DeltaEntries(g), e)
  BY <1>5, <1>6 DEF DeltaEntries
<1>9. h.base = g.base /\ h.rev = apply_reverse_entry(g.rev, e)
  BY <1>6
<1>10. /\ Agree(h)
       /\ \A key \in Keys : Finds(h, key) <=> IF EntryKey(e) = key THEN ~e.deleted ELSE Finds(g, key)
  BY <1>2, <1>8, <1>9, EntryTakes
<1>11. \A key \in Keys : Finds(h, key) <=> key # <<type, src, dst>> /\ Finds(g, key)
  BY <1>2, <1>10
<1> QED
  BY <1>7, <1>10, <1>11 DEF h

-----------------------------------------------------------------------------
(* Sorting.                                                                *)

\* R orders the numbers up to n, and the place that it gives to one of them.
Orders(R, n) ==
    /\ \A i \in 1..n : <<i, i>> \notin R
    /\ \A i, j, k \in 1..n : <<i, j>> \in R /\ <<j, k>> \in R => <<i, k>> \in R
    /\ \A i, j \in 1..n : i # j => <<i, j>> \in R \/ <<j, i>> \in R
Under(R, n, i) == {j \in 1..n : <<j, i>> \in R}
Rank(R, n, i) == Cardinality(Under(R, n, i))

\* In a total order of n places each has a rank of its own, and every rank is taken.
LEMMA RanksAre ==
  ASSUME NEW n \in Nat, NEW R, Orders(R, n)
  PROVE  /\ \A i \in 1..n : Rank(R, n, i) \in 0..(n - 1)
         /\ \A i, j \in 1..n : <<i, j>> \in R => Rank(R, n, i) < Rank(R, n, j)
         /\ \A k \in 1..n : \E i \in 1..n : Rank(R, n, i) = k - 1
<1>1. IsFiniteSet(1..n) /\ Cardinality(1..n) = n
  BY FS_Interval
<1>2. ASSUME NEW i \in 1..n
      PROVE  /\ Rank(R, n, i) \in 0..(n - 1) /\ IsFiniteSet(Under(R, n, i)) /\ Rank(R, n, i) \in Nat
  <2>1. IsFiniteSet((1..n) \ {i}) /\ Cardinality((1..n) \ {i}) = n - 1
    BY <1>1, FS_RemoveElement
  <2>2. Under(R, n, i) \in SUBSET ((1..n) \ {i})
    BY DEF Under, Orders
  <2>3. IsFiniteSet(Under(R, n, i)) /\ Cardinality(Under(R, n, i)) <= n - 1
    BY <2>1, <2>2, FS_Subset
  <2>4. Cardinality(Under(R, n, i)) \in Nat
    BY <2>3, FS_CardinalityType
  <2> QED
    BY <2>3, <2>4 DEF Rank
<1>3. ASSUME NEW i \in 1..n, NEW j \in 1..n, <<i, j>> \in R
      PROVE  Rank(R, n, i) < Rank(R, n, j)
  <2>1. Under(R, n, i) \in SUBSET Under(R, n, j)
    BY <1>3 DEF Under, Orders
  <2>2. i \in Under(R, n, j) /\ i \notin Under(R, n, i)
    BY <1>3 DEF Under, Orders
  <2>3. Cardinality(Under(R, n, i)) <= Cardinality(Under(R, n, j))
        /\ Cardinality(Under(R, n, i)) # Cardinality(Under(R, n, j))
    BY <1>2, <2>1, <2>2, FS_Subset
  <2> QED
    BY <1>2, <2>3 DEF Rank
<1>4. ASSUME NEW k \in 1..n PROVE \E i \in 1..n : Rank(R, n, i) = k - 1
  <2> DEFINE f == [i \in 1..n |-> Rank(R, n, i)]
             T == 0..(n - 1)
  <2>1. f \in Injection(1..n, T)
    <3>1. f \in [1..n -> T]
      BY <1>2
    <3>2. ASSUME NEW i \in 1..n, NEW j \in 1..n, f[i] = f[j] PROVE i = j
      <4>1. Rank(R, n, i) = Rank(R, n, j) /\ Rank(R, n, i) \in Nat
        BY <1>2, <3>2
      <4>2. <<i, j>> \notin R /\ <<j, i>> \notin R
        BY <1>3, <4>1
      <4> QED
        BY <4>2 DEF Orders
    <3> HIDE DEF f
    <3> QED
      BY <3>1, <3>2 DEF Injection, IsInjective
  <2>2. IsFiniteSet(T) /\ Cardinality(T) = n
    BY FS_Interval
  <2>3. f \in Surjection(1..n, T)
    BY <1>1, <2>1, <2>2, FS_Injection
  <2>4. k - 1 \in T
    OBVIOUS
  <2>5. PICK i \in 1..n : f[i] = k - 1
    <3> HIDE DEF f
    <3> QED
      BY <2>3, <2>4 DEF Surjection
  <2> QED
    BY <2>5
<1> QED
  BY <1>2, <1>3, <1>4

\* The order of the entries: an entry before an equal one stays before it.
Precedes(es) ==
    {p \in (1..Len(es)) \X (1..Len(es)) :
        \/ EntryLess(es[p[1]], es[p[2]])
        \/ EntryKey(es[p[1]]) = EntryKey(es[p[2]]) /\ p[1] < p[2]}

\* One place precedes another by its entry, or by itself when the edges are equal.
LEMMA PrecedesIs ==
  ASSUME NEW es, NEW i \in 1..Len(es), NEW j \in 1..Len(es)
  PROVE  <<i, j>> \in Precedes(es)
            <=> EntryLess(es[i], es[j]) \/ (EntryKey(es[i]) = EntryKey(es[j]) /\ i < j)
<1>1. <<i, j>>[1] = i /\ <<i, j>>[2] = j
  OBVIOUS
<1>2. <<i, j>> \in (1..Len(es)) \X (1..Len(es))
  OBVIOUS
<1> QED
  BY <1>1, <1>2, Zenon DEF Precedes

\* That is a total order.
LEMMA PrecedesOrders ==
  ASSUME NEW es \in Seq(Entries)
  PROVE  Orders(Precedes(es), Len(es))
<1> DEFINE n == Len(es)
           Before(i, j) == \/ EntryLess(es[i], es[j])
                           \/ EntryKey(es[i]) = EntryKey(es[j]) /\ i < j
<1>0. n \in Nat /\ DOMAIN es = 1..n /\ \A i \in 1..n : es[i] \in Entries
  OBVIOUS
<1>1. n \in Nat /\ DOMAIN es = 1..n /\ \A i \in 1..n : es[i].type \in Nat /\ es[i].src \in Nat /\ es[i].dst \in Int
  <2> HIDE DEF n
  <2> QED
    BY <1>0 DEF Entries
<1>2. \A i, j \in 1..n : <<i, j>> \in Precedes(es) <=> Before(i, j)
  BY <1>0, PrecedesIs
<1> HIDE DEF n
<1>3. \A i \in 1..n : ~Before(i, i)
  BY <1>1 DEF EntryLess
<1>4. ASSUME NEW i \in 1..n, NEW j \in 1..n, NEW k \in 1..n, Before(i, j), Before(j, k)
      PROVE  Before(i, k)
  <2>0. \A x, y : EntryKey(x) = EntryKey(y) <=> x.type = y.type /\ x.src = y.src /\ x.dst = y.dst
    BY DEF EntryKey
  <2> QED
    BY <1>1, <1>4, <2>0 DEF EntryLess
<1>5. ASSUME NEW i \in 1..n, NEW j \in 1..n, i # j
      PROVE  Before(i, j) \/ Before(j, i)
  <2>0. \A x, y : EntryKey(x) = EntryKey(y) <=> x.type = y.type /\ x.src = y.src /\ x.dst = y.dst
    BY DEF EntryKey
  <2>1. PICK a, b, c \in Int : a = es[i].type /\ b = es[i].src /\ c = es[i].dst
    BY <1>1
  <2>2. PICK x, y, z \in Int : x = es[j].type /\ y = es[j].src /\ z = es[j].dst
    BY <1>1
  <2>3. /\ EntryLess(es[i], es[j]) <=> a < x \/ (a = x /\ b < y) \/ (a = x /\ b = y /\ c < z)
        /\ EntryLess(es[j], es[i]) <=> x < a \/ (x = a /\ y < b) \/ (x = a /\ y = b /\ z < c)
        /\ EntryKey(es[i]) = EntryKey(es[j]) <=> a = x /\ b = y /\ c = z
        /\ EntryKey(es[j]) = EntryKey(es[i]) <=> a = x /\ b = y /\ c = z
    BY <2>0, <2>1, <2>2 DEF EntryLess
  <2>4. i < j \/ j < i
    BY <1>1, <1>5
  <2> QED
    BY <2>3, <2>4
<1> HIDE DEF Before
<1> QED
  BY <1>2, <1>3, <1>4, <1>5 DEF Orders, n

\* p sorts the entries.
Sorts(p, es) ==
    /\ p \in [1..Len(es) -> 1..Len(es)]
    /\ SortEntries(es) = [k \in 1..Len(es) |-> es[p[k]]]
    /\ \A i \in 1..Len(es) : \E k \in 1..Len(es) : p[k] = i
    /\ \A k, l \in 1..Len(es) : k < l => <<p[k], p[l]>> \in Precedes(es)

\* The stable sort is a rearrangement in that order.
LEMMA SortedBy ==
  ASSUME NEW es \in Seq(Entries)
  PROVE  \E p : Sorts(p, es)
<1> DEFINE n == Len(es)
           R == Precedes(es)
           p == [k \in 1..n |-> CHOOSE i \in 1..n : Rank(R, n, i) = k - 1]
<1>1. n \in Nat /\ DOMAIN es = 1..n
  OBVIOUS
<1>2. /\ Orders(R, n)
      /\ \A i \in 1..n : Rank(R, n, i) \in 0..(n - 1)
      /\ \A i, j \in 1..n : <<i, j>> \in R => Rank(R, n, i) < Rank(R, n, j)
      /\ \A k \in 1..n : \E i \in 1..n : Rank(R, n, i) = k - 1
  BY <1>1, PrecedesOrders, RanksAre
<1>3. SortEntries(es) = [k \in 1..n |-> es[p[k]]]
  <2> DEFINE before(i) == Cardinality({j \in DOMAIN es: EntryLess(es[j], es[i])
                                                         \/ (EntryKey(es[j]) = EntryKey(es[i]) /\ j < i)})
  <2>1. \A i \in 1..n : before(i) = Rank(R, n, i)
    <3>1. TAKE i \in 1..n
    <3>1a. \A j \in 1..n : <<j, i>> \in R
              <=> EntryLess(es[j], es[i]) \/ (EntryKey(es[j]) = EntryKey(es[i]) /\ j < i)
      BY <1>1, PrecedesIs
    <3> HIDE DEF R
    <3>2. {j \in DOMAIN es: EntryLess(es[j], es[i]) \/ (EntryKey(es[j]) = EntryKey(es[i]) /\ j < i)}
            = Under(R, n, i)
      BY <1>1, <3>1a DEF Under
    <3> QED
      BY <3>2 DEF Rank
  <2>2. SortEntries(es) = [k \in DOMAIN es |-> es[CHOOSE i \in DOMAIN es: before(i) = k - 1]]
    BY DEF SortEntries
  <2> HIDE DEF before, R
  <2>3. \A k \in 1..n : (CHOOSE i \in 1..n : before(i) = k - 1) = CHOOSE i \in 1..n : Rank(R, n, i) = k - 1
    BY <2>1
  <2> QED
    BY <1>1, <2>2, <2>3
<1> HIDE DEF R
<1>4. \A k \in 1..n : p[k] \in 1..n /\ Rank(R, n, p[k]) = k - 1
  BY <1>2
<1> HIDE DEF p, n
<1>5. ASSUME NEW i \in 1..n, NEW j \in 1..n, Rank(R, n, i) = Rank(R, n, j) PROVE i = j
  <2>1. Rank(R, n, i) \in Int /\ ~(Rank(R, n, i) < Rank(R, n, j)) /\ ~(Rank(R, n, j) < Rank(R, n, i))
    BY <1>2, <1>5
  <2>2. <<i, j>> \notin R /\ <<j, i>> \notin R
    BY <1>2, <2>1
  <2> QED
    BY <1>2, <2>2 DEF Orders
<1>6. ASSUME NEW i \in 1..n PROVE \E k \in 1..n : p[k] = i
  <2>1. Rank(R, n, i) + 1 \in 1..n /\ Rank(R, n, i) = (Rank(R, n, i) + 1) - 1
    BY <1>1, <1>2
  <2>2. PICK k \in 1..n : Rank(R, n, i) = k - 1
    BY <2>1
  <2>3. p[k] = i
    BY <1>4, <1>5, <2>2
  <2> QED
    BY <2>3
<1>7. ASSUME NEW k \in 1..n, NEW l \in 1..n, k < l PROVE <<p[k], p[l]>> \in R
  <2>1. p[k] \in 1..n /\ p[l] \in 1..n /\ Rank(R, n, p[k]) = k - 1 /\ Rank(R, n, p[l]) = l - 1
    BY <1>4
  <2>2. ~(Rank(R, n, p[l]) < Rank(R, n, p[k])) /\ p[k] # p[l]
    BY <1>1, <1>7, <2>1
  <2>3. <<p[l], p[k]>> \notin R
    BY <1>2, <2>1, <2>2
  <2> QED
    BY <1>2, <2>1, <2>2, <2>3 DEF Orders
<1>8. p \in [1..n -> 1..n]
  <2>1. p = [k \in 1..n |-> p[k]]
    BY DEF p
  <2> QED
    BY <1>4, <2>1
<1>9. Sorts(p, es)
  BY <1>3, <1>6, <1>7, <1>8 DEF Sorts, R, n
<1> QED
  BY <1>9

-----------------------------------------------------------------------------
(* A compacted layer has no edge that it was not built from.               *)

\* The entries are in the order of their keys.
InOrder(q) == \A i, j \in DOMAIN q : i < j => ~EntryLess(q[j], q[i])

\* What is picked out of a sorted sequence is sorted.
LEMMA PicksInOrder ==
  ASSUME NEW q \in Seq(Entries), InOrder(q), NEW S
  PROVE  Picks(q, S) \in Seq(Entries) /\ InOrder(Picks(q, S))
<1>1. Picks(q, S) \in Seq(Entries)
  BY PicksElems
<1>2. Len(q) \in Nat /\ DOMAIN q = 1..Len(q)
  OBVIOUS
<1>3. PICK at : Places(at, q, S)
  BY <1>2, PicksAre
<1>4. at \in Seq(1..Len(q)) /\ Increasing(at) /\ Picks(q, S) = [k \in DOMAIN at |-> q[at[k]]]
  BY <1>3 DEF Places
<1>5. ASSUME NEW i \in DOMAIN at, NEW j \in DOMAIN at, i < j
      PROVE  ~EntryLess(q[at[j]], q[at[i]])
  <2>1. at[i] \in 1..Len(q) /\ at[j] \in 1..Len(q)
    BY <1>4
  <2>2. at[i] < at[j]
    BY <1>4, <1>5 DEF Increasing
  <2> QED
    BY <1>2, <2>1, <2>2 DEF InOrder
<1> QED
  BY <1>1, <1>4, <1>5 DEF InOrder

\* Some of the first numbers, down from each of them.
LEMMA PrefixIs ==
  ASSUME NEW n \in Nat, NEW S \in SUBSET (1..n), \A i \in S : \A j \in 1..i : j \in S
  PROVE  Cardinality(S) \in 0..n /\ \A k \in 1..n : k \in S <=> k <= Cardinality(S)
<1>1. CASE S = {}
  <2>1. Cardinality(S) = 0
    BY <1>1, FS_EmptySet
  <2> QED
    BY <1>1, <2>1
<1>2. CASE S # {}
  <2> DEFINE m == Max(S)
  <2>1. m \in S /\ m \in 1..n /\ \A i \in S : i <= m
    <3>1. S \subseteq Nat /\ \A x \in S : x <= n
      OBVIOUS
    <3> QED
      BY <1>2, <3>1, MaxOfBounded
  <2> HIDE DEF m
  <2>1a. \A x : x \in S <=> x \in 1..m
    <3>1. ASSUME NEW x \in S PROVE x \in 1..m
      BY <2>1
    <3>2. ASSUME NEW x \in 1..m PROVE x \in S
      BY <2>1
    <3> QED
      BY <3>1, <3>2
  <2>2. S = 1..m
    BY <2>1a
  <2>3. Cardinality(S) = m
    BY <2>1, <2>2, FS_Interval
  <2> QED
    BY <2>1, <2>2, <2>3
<1> QED
  BY <1>1, <1>2

\* The targets of a row, taken from those of the layer.
RowOf(layer, src, data) ==
    \A i \in 1..Len(data.targets) :
        /\ layer.offsets[src + 1] + i <= layer.offsets[src + 2]
        /\ layer.offsets[src + 1] + i \in 1..Len(layer.targets)
        /\ data.targets[i] = layer.targets[layer.offsets[src + 1] + i]

\* A target that is read for a node lies in its range.
LEMMA RangeTargets ==
  ASSUME NEW layer \in Layers, NEW src \in Nat, HasView(layer), src < layer.nodes
  PROVE  RowOf(layer, src, neighbor_range_data(layer, src))
<1> DEFINE data == neighbor_range_data(layer, src)
           start == layer.offsets[src + 1] * BytesPerTarget
           end == layer.offsets[src + 2] * BytesPerTarget
           bytes == Len(layer.targets) * BytesPerTarget
<1>0. /\ layer.offsets \in Seq(Nat) /\ layer.targets \in Seq(Int) /\ layer.attrs \in Seq(Attrs)
      /\ layer.nodes \in Nat /\ Len(layer.offsets) = layer.nodes + 1
  BY DEF Layers, HasView
<1>1. layer.offsets[src + 1] \in Nat /\ layer.offsets[src + 2] \in Nat
  <2>1. PICK os \in Seq(Nat) : os = layer.offsets /\ Len(os) = layer.nodes + 1
    BY <1>0
  <2>2. src + 1 \in 1..Len(os) /\ src + 2 \in 1..Len(os)
    BY <1>0, <2>1
  <2>3. os[src + 1] \in Nat /\ os[src + 2] \in Nat
    BY <2>2
  <2> QED
    BY <2>1, <2>3
<1>2. PICK o, p, l \in Nat : o = layer.offsets[src + 1] /\ p = layer.offsets[src + 2] /\ l = Len(layer.targets)
  <2>1. Len(layer.targets) \in Nat
    BY <1>0
  <2> QED
    BY <1>1, <2>1, Zenon
<1>3. start = o * 8 /\ end = p * 8 /\ bytes = l * 8
  BY <1>2 DEF BytesPerTarget
<1>4. data.targets = IF start < bytes
                     THEN SubSeq(layer.targets, layer.offsets[src + 1] + 1, Min({end, bytes}) \div BytesPerTarget)
                     ELSE << >>
  <2>1. ~(src >= layer.nodes)
    BY <1>0
  <2> QED
    BY <2>1 DEF neighbor_range_data
<1> HIDE DEF data, start, end, bytes
<1>5. end \in Nat /\ bytes \in Nat
  BY <1>3
<1>6. Min({end, bytes}) = IF p <= l THEN p * 8 ELSE l * 8
  BY <1>3, <1>5, MinOfTwo
<1>7. PICK q \in Nat : q = Min({end, bytes}) \div BytesPerTarget /\ q <= l /\ q <= p
  <2>1. Min({end, bytes}) \div BytesPerTarget = IF p <= l THEN p ELSE l
    BY <1>6 DEF BytesPerTarget
  <2> QED
    BY <2>1
<1>8. o + 1 \in Nat /\ o + 1 # 0
  OBVIOUS
<1>9. CASE start < bytes
  <2>1. data.targets = SubSeq(layer.targets, o + 1, q)
    BY <1>2, <1>4, <1>7, <1>9
  <2>2. /\ Len(SubSeq(layer.targets, o + 1, q)) = IF o + 1 <= q THEN (q - (o + 1)) + 1 ELSE 0
        /\ \A i \in 1..Len(SubSeq(layer.targets, o + 1, q)) :
              SubSeq(layer.targets, o + 1, q)[i] = layer.targets[((o + 1) + i) - 1]
    <3>1. PICK ts \in Seq(Int) : ts = layer.targets
      BY <1>0
    <3>2. q <= Len(ts)
      BY <1>2, <1>7, <3>1
    <3>3. PICK f \in Nat : f = o + 1 /\ f # 0
      BY <1>8
    <3>4. /\ Len(SubSeq(ts, f, q)) = IF f <= q THEN (q - f) + 1 ELSE 0
          /\ \A i \in 1..Len(SubSeq(ts, f, q)) : SubSeq(ts, f, q)[i] = ts[(f + i) - 1]
      BY <3>2, <3>3, PartTypes
    <3> QED
      BY <3>1, <3>3, <3>4
  <2>3. PICK s, m : s = SubSeq(layer.targets, o + 1, q) /\ m = Len(s)
    OBVIOUS
  <2>4. /\ m = IF o + 1 <= q THEN (q - (o + 1)) + 1 ELSE 0
        /\ \A i \in 1..m : s[i] = layer.targets[((o + 1) + i) - 1]
    BY <2>2, <2>3
  <2>5. \A i \in 1..m : o + i <= p /\ o + i \in 1..l /\ s[i] = layer.targets[o + i]
    <3>1. TAKE i \in 1..m
    <3>2. m = q - o /\ o + i <= q
      BY <2>4
    <3>3. ((o + 1) + i) - 1 = o + i /\ i \in Nat /\ i >= 1
      BY <3>2
    <3>4. o + i <= p /\ o + i \in 1..l
      BY <1>7, <3>2, <3>3
    <3>5. s[i] = layer.targets[((o + 1) + i) - 1]
      BY <2>4
    <3> QED
      BY <3>3, <3>4, <3>5
  <2> QED
    BY <1>2, <2>1, <2>3, <2>5 DEF RowOf, data
<1>10. CASE ~(start < bytes)
  <2>1. data.targets = << >>
    BY <1>4, <1>10
  <2>2. \A i \in 1..Len(data.targets) : FALSE
    BY <2>1
  <2> QED
    BY <2>2 DEF RowOf, data
<1> QED
  BY <1>9, <1>10

\* The sources do not descend.
Climbing(q) == \A i, j \in DOMAIN q : i < j => q[i].src <= q[j].src

\* The layer of the entries m.
Built(layer, m, nodes) ==
    /\ layer \in Layers /\ HasView(layer) /\ layer.nodes = nodes /\ Len(layer.targets) = Len(m)
    /\ \A x \in 0..nodes : \A k \in 1..Len(m) : m[k].src < x <=> k <= layer.offsets[x + 1]
    /\ \A k \in 1..Len(m) :
          layer.targets[k] = m[k].dst - IF k = 1 \/ m[k - 1].src # m[k].src THEN 0 ELSE m[k - 1].dst

\* from_edge_list lays out the entries of the nodes it knows, node after node.
LEMMA LayerBuilt ==
  ASSUME NEW q \in Seq(Entries), Climbing(q), NEW nodes \in Nat
  PROVE  \E m \in Seq(Entries) :
            ToSet(m) \subseteq ToSet(q) /\ Built(from_edge_list(q, nodes), m, nodes)
<1> DEFINE m == Picks(q, {i \in DOMAIN q: q[i].src < nodes})
           n == Len(m)
           before(x) == Cardinality({k \in DOMAIN m: m[k].src < x})
           earlier(k) == {j \in 1..k - 1: m[j].src = m[k].src}
           step(k) == IF earlier(k) = {} THEN 0 ELSE m[Max(earlier(k))].dst
           layer == from_edge_list(q, nodes)
<1>1. m \in Seq(Entries) /\ \A x : x \in ToSet(m) => x \in ToSet(q)
  <2>1. /\ m \in Seq(Entries)
        /\ \A x : x \in ToSet(m) <=> \E i \in {i \in DOMAIN q: q[i].src < nodes} : i \in 1..Len(q) /\ x = q[i]
    BY PicksElems
  <2>2. DOMAIN q = 1..Len(q)
    OBVIOUS
  <2> QED
    BY <2>1, <2>2 DEF ToSet
<1>2. layer = [offsets |-> [i \in 1..nodes + 1 |-> before(i - 1)],
               targets |-> [k \in DOMAIN m |-> m[k].dst - step(k)],
               attrs |-> [k \in DOMAIN m |-> EdgeAttr(m[k])], nodes |-> nodes]
  BY DEF from_edge_list
<1>3. PICK at : Places(at, q, {i \in DOMAIN q: q[i].src < nodes})
  <2>1. Len(q) \in Nat
    OBVIOUS
  <2> QED
    BY <2>1, PicksAre
<1>4. at \in Seq(1..Len(q)) /\ Increasing(at) /\ m = [k \in DOMAIN at |-> q[at[k]]]
  BY <1>3 DEF Places
<1>5. \A i, j \in DOMAIN m : i < j => m[i].src <= m[j].src
  <2> HIDE DEF m
  <2>1. DOMAIN m = DOMAIN at /\ DOMAIN q = 1..Len(q)
    BY <1>4
  <2> TAKE i, j \in DOMAIN m
  <2>2. at[i] \in 1..Len(q) /\ at[j] \in 1..Len(q) /\ m[i] = q[at[i]] /\ m[j] = q[at[j]]
    BY <1>4, <2>1
  <2>3. i < j => at[i] < at[j]
    BY <1>4, <2>1 DEF Increasing
  <2> QED
    BY <2>1, <2>2, <2>3 DEF Climbing
<1> HIDE DEF m, layer
<1>6. /\ n \in Nat /\ DOMAIN m = 1..n
      /\ \A k \in 1..n : m[k] \in Entries /\ m[k].src \in Nat /\ m[k].dst \in Int
  <2>1. n \in Nat /\ DOMAIN m = 1..n /\ \A k \in 1..n : m[k] \in Entries
    BY <1>1
  <2> HIDE DEF n
  <2> QED
    BY <2>1 DEF Entries
<1> HIDE DEF n
<1>7. ASSUME NEW x \in Nat
      PROVE  before(x) \in 0..n /\ \A k \in 1..n : m[k].src < x <=> k <= before(x)
  <2> DEFINE S == {k \in DOMAIN m: m[k].src < x}
  <2>1. S \in SUBSET (1..n)
    BY <1>6
  <2>2. ASSUME NEW i \in S, NEW j \in 1..i PROVE j \in S
    <3>1. i \in 1..n /\ m[i].src < x /\ j \in 1..n
      BY <1>6
    <3>2. j = i \/ m[j].src <= m[i].src
      BY <1>5, <1>6, <3>1
    <3>3. m[j].src < x
      BY <1>6, <3>1, <3>2
    <3> QED
      BY <1>6, <3>1, <3>3
  <2>3. \A k \in 1..n : k \in S <=> m[k].src < x
    BY <1>6
  <2> HIDE DEF S
  <2>4. Cardinality(S) \in 0..n /\ \A k \in 1..n : k \in S <=> k <= Cardinality(S)
    BY <1>6, <2>1, <2>2, PrefixIs
  <2>5. before(x) = Cardinality(S)
    BY DEF S
  <2> HIDE DEF before
  <2> QED
    BY <2>3, <2>4, <2>5
<1> HIDE DEF before
<1>8. ASSUME NEW k \in 1..n
      PROVE  step(k) = IF k = 1 \/ m[k - 1].src # m[k].src THEN 0 ELSE m[k - 1].dst
  <2>1. CASE k = 1
    <3>1. earlier(k) = {}
      BY <2>1
    <3> QED
      BY <2>1, <3>1
  <2>2. CASE k # 1 /\ m[k - 1].src = m[k].src
    <3>1. k - 1 \in Nat /\ earlier(k) \in SUBSET (1..(k - 1)) /\ k - 1 \in earlier(k)
      BY <1>6, <2>2
    <3> HIDE DEF earlier
    <3>2. Max(earlier(k)) = k - 1
      BY <3>1, MaxTop
    <3> QED
      BY <2>2, <3>1, <3>2
  <2>3. CASE k # 1 /\ m[k - 1].src # m[k].src
    <3>1. k - 1 \in 1..n
      BY <1>6, <2>3
    <3>2. m[k - 1].src < m[k].src
      <4>1. k - 1 \in DOMAIN m /\ k \in DOMAIN m /\ k - 1 < k
        BY <1>6, <3>1
      <4>2. m[k - 1].src <= m[k].src
        BY <1>5, <4>1
      <4>3. PICK a, b \in Nat : a = m[k - 1].src /\ b = m[k].src
        BY <1>6, <3>1
      <4>4. a # b
        BY <2>3, <4>3
      <4> QED
        BY <4>2, <4>3, <4>4
    <3>3. ASSUME NEW j \in 1..(k - 1) PROVE m[j].src # m[k].src
      <4>1. j \in 1..n /\ (j = k - 1 \/ j < k - 1)
        BY <1>6
      <4>2. m[j].src <= m[k - 1].src
        <5>1. j \in DOMAIN m /\ k - 1 \in DOMAIN m
          BY <1>6, <3>1, <4>1
        <5>2. CASE j < k - 1
          BY <1>5, <5>1, <5>2
        <5>3. CASE j = k - 1
          <6>1. m[k - 1].src \in Nat
            BY <1>6, <3>1
          <6> QED
            BY <5>3, <6>1
        <5> QED
          BY <4>1, <5>2, <5>3
      <4> QED
        BY <1>6, <3>1, <3>2, <4>1, <4>2
    <3>4. earlier(k) = {}
      BY <3>3
    <3> QED
      BY <2>3, <3>4
  <2> QED
    BY <2>1, <2>2, <2>3
<1> HIDE DEF earlier, step
<1>9. /\ layer.nodes = nodes /\ layer.offsets = [i \in 1..nodes + 1 |-> before(i - 1)]
      /\ layer.targets = [k \in 1..n |-> m[k].dst - step(k)] /\ layer.attrs = [k \in 1..n |-> EdgeAttr(m[k])]
      /\ layer = [offsets |-> layer.offsets, targets |-> layer.targets, attrs |-> layer.attrs, nodes |-> layer.nodes]
  BY <1>2, <1>6
<1>10. layer.offsets \in Seq(Nat) /\ Len(layer.offsets) = nodes + 1
  <2>1. \A i \in 1..nodes + 1 : before(i - 1) \in Nat
    BY <1>6, <1>7
  <2>2. layer.offsets \in [1..nodes + 1 -> Nat]
    BY <1>9, <2>1
  <2> QED
    BY <2>2
<1>11. layer.targets \in Seq(Int) /\ Len(layer.targets) = n
  <2>1. \A k \in 1..n : m[k].dst - step(k) \in Int
    <3>1. TAKE k \in 1..n
    <3>2. step(k) \in Int
      <4>1. CASE k = 1 \/ m[k - 1].src # m[k].src
        BY <1>8, <4>1
      <4>2. CASE ~(k = 1 \/ m[k - 1].src # m[k].src)
        <5>1. k - 1 \in 1..n
          BY <1>6, <4>2
        <5> QED
          BY <1>6, <1>8, <4>2, <5>1
      <4> QED
        BY <4>1, <4>2
    <3> QED
      BY <1>6, <3>2
  <2>2. layer.targets \in [1..n -> Int]
    BY <1>9, <2>1
  <2> QED
    BY <1>6, <2>2
<1>12. layer.attrs \in Seq(Attrs)
  <2>1. \A k \in 1..n : EdgeAttr(m[k]) \in Attrs
    BY <1>6 DEF EdgeAttr, Attrs, Entries
  <2>2. layer.attrs \in [1..n -> Attrs]
    BY <1>9, <2>1
  <2> QED
    BY <1>6, <2>2
<1>13. layer \in Layers /\ HasView(layer)
  BY <1>9, <1>10, <1>11, <1>12 DEF Layers, HasView
<1>14. ASSUME NEW x \in 0..nodes, NEW k \in 1..n
       PROVE  m[k].src < x <=> k <= layer.offsets[x + 1]
  <2>1. x + 1 \in 1..nodes + 1 /\ (x + 1) - 1 = x /\ x \in Nat
    OBVIOUS
  <2>2. layer.offsets[x + 1] = before(x)
    BY <1>9, <2>1
  <2> QED
    BY <1>7, <2>1, <2>2
<1>15. \A k \in 1..n :
          layer.targets[k] = m[k].dst - IF k = 1 \/ m[k - 1].src # m[k].src THEN 0 ELSE m[k - 1].dst
  BY <1>8, <1>9
<1>16. Built(layer, m, nodes)
  BY <1>9, <1>11, <1>13, <1>14, <1>15 DEF Built, n
<1> QED
  BY <1>1, <1>16 DEF layer

\* Every neighbour read from a built layer is the target of one of its entries: the
\* differences add up to targets, whatever attributes are cut off.
LEMMA RowWithin ==
  ASSUME NEW m \in Seq(Entries), NEW nodes \in Nat, NEW layer, Built(layer, m, nodes), NEW src \in Nat
  PROVE  \A p \in ToSet(Row(layer, src)) : \E e \in ToSet(m) : e.src = src /\ e.dst = p.dst
<1> DEFINE data == neighbor_range_data(layer, src)
           n == Len(m)
           o == layer.offsets[src + 1]
<1>1. /\ layer \in Layers /\ HasView(layer) /\ layer.nodes = nodes /\ Len(layer.targets) = n
      /\ \A x \in 0..nodes : \A k \in 1..n : m[k].src < x <=> k <= layer.offsets[x + 1]
      /\ \A k \in 1..n :
            layer.targets[k] = m[k].dst - IF k = 1 \/ m[k - 1].src # m[k].src THEN 0 ELSE m[k - 1].dst
  BY DEF Built
<1>2. /\ n \in Nat /\ DOMAIN m = 1..n
      /\ \A k \in 1..n : m[k] \in Entries /\ m[k].src \in Nat /\ m[k].dst \in Int
  <2>1. n \in Nat /\ DOMAIN m = 1..n /\ \A k \in 1..n : m[k] \in Entries
    OBVIOUS
  <2> HIDE DEF n
  <2> QED
    BY <2>1 DEF Entries
<1>3. CASE src >= nodes
  <2>1. Row(layer, src) = << >>
    BY <1>1, <1>3, RowTypes
  <2> QED
    BY <2>1 DEF ToSet
<1>4. CASE src < nodes
  <2>1. o \in Nat
    <3>1. PICK os \in Seq(Nat) : os = layer.offsets /\ Len(os) = nodes + 1
      BY <1>1 DEF Layers, HasView
    <3>2. src + 1 \in 1..Len(os)
      BY <1>4, <3>1
    <3> QED
      BY <3>1, <3>2
  <2>2. Row(layer, src) = NeighborIter(data)
    BY <1>1 DEF Row
  <2>3. data.targets \in Seq(Int) /\ data.attrs \in Seq(Attrs)
    BY <1>1, RangeData
  <2>4. RowOf(layer, src, data)
    BY <1>1, <1>4, RangeTargets
  <2> HIDE DEF n, data
  <2>5. ASSUME NEW i \in 1..Len(data.targets)
        PROVE  /\ o + i \in 1..n /\ m[o + i].src = src
               /\ data.targets[i] = m[o + i].dst - IF i = 1 THEN 0 ELSE m[(o + i) - 1].dst
    <3>0. i \in Nat /\ i >= 1
      BY <2>3
    <3>1. /\ o + i <= layer.offsets[src + 2] /\ o + i \in 1..n
          /\ data.targets[i] = layer.targets[o + i]
      BY <1>1, <2>4 DEF RowOf
    <3> HIDE DEF o
    <3>2. src + 1 \in 0..nodes /\ src \in 0..nodes /\ (src + 1) + 1 = src + 2
      BY <1>4
    <3>3. m[o + i].src < src + 1
      BY <1>1, <3>1, <3>2
    <3>4. ~(m[o + i].src < src)
      <4>1. ~(o + i <= o)
        BY <2>1, <3>0
      <4> QED
        BY <1>1, <3>1, <3>2, <4>1 DEF o
    <3>5. m[o + i].src = src
      BY <1>2, <3>1, <3>3, <3>4
    <3>6. CASE i = 1
      <4>1. o + i = 1 \/ m[(o + i) - 1].src # src
        <5>1. CASE o = 0
          BY <3>6, <5>1
        <5>2. CASE o # 0
          <6>1. (o + i) - 1 = o /\ o \in 1..n
            BY <1>2, <2>1, <3>1, <3>6, <5>2
          <6>2. m[o].src < src
            <7>1. \A k \in 1..n : m[k].src < src <=> k <= o
              BY <1>1, <3>2 DEF o
            <7> QED
              BY <2>1, <6>1, <7>1
          <6> QED
            BY <1>2, <6>1, <6>2
        <5> QED
          BY <5>1, <5>2
      <4>2. layer.targets[o + i] = m[o + i].dst - 0
        BY <1>1, <3>1, <3>5, <4>1
      <4> QED
        BY <3>1, <3>5, <3>6, <4>2
    <3>7. CASE i # 1
      <4>1. (o + i) - 1 \in 1..n /\ o + i # 1 /\ ~((o + i) - 1 <= o) /\ (o + i) - 1 <= o + i
        BY <1>2, <2>1, <3>0, <3>1, <3>7
      <4>2. ~(m[(o + i) - 1].src < src)
        BY <1>1, <3>2, <4>1 DEF o
      <4>3. (o + i) - 1 <= layer.offsets[src + 2]
        <5>1. layer.offsets[src + 2] \in Nat
          <6>1. PICK os \in Seq(Nat) : os = layer.offsets /\ Len(os) = nodes + 1
            BY <1>1 DEF Layers, HasView
          <6>2. src + 2 \in 1..Len(os)
            BY <1>4, <6>1
          <6> QED
            BY <6>1, <6>2
        <5> QED
          BY <2>1, <3>0, <3>1, <5>1
      <4>4. m[(o + i) - 1].src < src + 1
        BY <1>1, <3>2, <4>1, <4>3
      <4>5. m[(o + i) - 1].src = src
        BY <1>2, <4>1, <4>2, <4>4
      <4>6. layer.targets[o + i] = m[o + i].dst - m[(o + i) - 1].dst
        BY <1>1, <3>1, <3>5, <4>1, <4>5
      <4> QED
        BY <3>1, <3>5, <3>7, <4>6
    <3> QED
      BY <3>6, <3>7
  <2>6. PICK c : Summed(c, data)
    BY <2>3, IterIs
  <2>7. PICK l, a \in Nat : l = Len(data.targets) /\ a = Len(data.attrs)
    BY <2>3
  <2> HIDE DEF o
  <2> DEFINE C == {i \in 0..l : i # 0 => c[i] = m[o + i].dst}
  <2>8. 0 \in C
    OBVIOUS
  <2>9. ASSUME NEW i \in 1..l, i - 1 \in C PROVE i \in C
    <3>1. /\ o + i \in 1..n
          /\ data.targets[i] = m[o + i].dst - IF i = 1 THEN 0 ELSE m[(o + i) - 1].dst
      BY <2>5, <2>7
    <3>2. c[i] = c[i - 1] + data.targets[i]
      BY <2>6, <2>7 DEF Summed
    <3>3. m[o + i].dst \in Int /\ i \in 0..l
      BY <1>2, <3>1
    <3>4. CASE i = 1
      <4>1. c[i - 1] = 0
        BY <2>6, <3>4 DEF Summed
      <4> QED
        BY <3>1, <3>2, <3>3, <3>4, <4>1
    <3>5. CASE i # 1
      <4>1. c[i - 1] = m[o + (i - 1)].dst /\ o + (i - 1) = (o + i) - 1
        BY <2>1, <2>9, <3>5
      <4>2. i - 1 \in 1..l
        BY <3>5
      <4>3. m[o + (i - 1)].dst \in Int
        BY <1>2, <2>5, <2>7, <4>2
      <4> QED
        BY <3>1, <3>2, <3>3, <3>5, <4>1, <4>3
    <3> QED
      BY <3>4, <3>5
  <2>10. \A i \in 0..l : i \in C
    <3> HIDE DEF C
    <3> QED
      BY <2>8, <2>9, Climb
  <2>11. PICK k \in Nat : k = Min({l, a}) /\ k <= l
    BY MinOfTwo
  <2>12. Row(layer, src) = [i \in 1..k |-> [dst |-> c[i], attr |-> data.attrs[i]]]
    BY <2>2, <2>6, <2>7, <2>11 DEF Summed
  <2>13. ASSUME NEW p \in ToSet(Row(layer, src))
         PROVE  \E e \in ToSet(m) : e.src = src /\ e.dst = p.dst
    <3>1. PICK i \in 1..k : p = [dst |-> c[i], attr |-> data.attrs[i]]
      BY <2>12, <2>13 DEF ToSet
    <3>2. i \in 0..l /\ i # 0 /\ i \in 1..l
      BY <2>11
    <3>3. p.dst = m[o + i].dst
      BY <2>10, <3>1, <3>2
    <3>4. o + i \in 1..n /\ m[o + i].src = src
      BY <2>5, <2>7, <3>2
    <3>5. m[o + i] \in ToSet(m)
      BY <1>2, <3>4 DEF ToSet
    <3> QED
      BY <3>3, <3>4, <3>5
  <2> QED
    BY <2>13
<1> QED
  BY <1>1, <1>3, <1>4

\* The last entry of its edge.
LastAt(es, u) ==
    \E m \in 1..Len(es) : es[m] = u /\ \A l \in 1..Len(es) : EntryKey(es[l]) = EntryKey(u) => l <= m

\* What the compaction keeps is sorted, live and the last entry of its edge.
LEMMA KeptLatest ==
  ASSUME NEW es \in Seq(Entries)
  PROVE  LET unique == KeepLatest(SortEntries(es))
         IN  /\ unique \in Seq(Entries) /\ InOrder(unique)
             /\ \A u \in ToSet(unique) : ~u.deleted /\ LastAt(es, u)
<1> DEFINE s == SortEntries(es)
           n == Len(es)
           last(i) == \A j \in DOMAIN s: EntryKey(s[j]) = EntryKey(s[i]) => j <= i
           S == {i \in DOMAIN s: last(i) /\ ~s[i].deleted}
           R == Precedes(es)
<1>1. n \in Nat /\ DOMAIN es = 1..n /\ \A i \in 1..n : es[i] \in Entries
  OBVIOUS
<1>2. PICK p : Sorts(p, es)
  BY SortedBy
<1>3. /\ p \in [1..n -> 1..n] /\ s = [k \in 1..n |-> es[p[k]]]
      /\ \A i \in 1..n : \E k \in 1..n : p[k] = i
      /\ \A k, l \in 1..n : k < l => <<p[k], p[l]>> \in R
  BY <1>2 DEF Sorts
<1>4. Orders(R, n)
  BY PrecedesOrders
<1>5. KeepLatest(SortEntries(es)) = Picks(s, S)
  BY DEF KeepLatest
<1> HIDE DEF s, n, R
<1>6. s \in Seq(Entries) /\ DOMAIN s = 1..n /\ Len(s) = n
  <2>1. \A k \in 1..n : p[k] \in 1..n /\ es[p[k]] \in Entries
    BY <1>1, <1>3
  <2>2. s \in [1..n -> Entries]
    BY <1>3, <2>1
  <2> QED
    BY <1>1, <2>2
<1>7. InOrder(s)
  <2>1. ASSUME NEW k \in 1..n, NEW l \in 1..n, k < l PROVE ~EntryLess(s[l], s[k])
    <3>1. p[k] \in 1..n /\ p[l] \in 1..n /\ <<p[k], p[l]>> \in R /\ s[k] = es[p[k]] /\ s[l] = es[p[l]]
      BY <1>3, <2>1
    <3>2. <<p[l], p[k]>> \notin R
      BY <1>4, <3>1 DEF Orders
    <3> QED
      BY <3>1, <3>2, PrecedesIs DEF n, R
  <2> QED
    BY <1>6, <2>1 DEF InOrder
<1>8. Picks(s, S) \in Seq(Entries) /\ InOrder(Picks(s, S))
  <2> HIDE DEF S
  <2> QED
    BY <1>6, <1>7, PicksInOrder
<1>9. \A x : x \in ToSet(Picks(s, S)) <=> \E i \in S : i \in 1..Len(s) /\ x = s[i]
  <2> HIDE DEF S
  <2> QED
    BY <1>6, PicksElems
<1>10. ASSUME NEW u \in ToSet(Picks(s, S)) PROVE ~u.deleted /\ LastAt(es, u)
  <2>1. PICK i \in S : i \in 1..n /\ u = s[i]
    BY <1>6, <1>9
  <2>2. ~s[i].deleted /\ \A j \in 1..n : EntryKey(s[j]) = EntryKey(s[i]) => j <= i
    BY <1>6, <2>1
  <2>3. p[i] \in 1..n /\ es[p[i]] = u
    BY <1>3, <2>1
  <2>4. ASSUME NEW l \in 1..n, EntryKey(es[l]) = EntryKey(u) PROVE l <= p[i]
    <3>1. PICK k \in 1..n : p[k] = l
      BY <1>3
    <3>2. s[k] = es[l]
      BY <1>3, <3>1
    <3>3. k <= i
      BY <2>1, <2>2, <2>4, <3>2
    <3>4. CASE k = i
      BY <2>3, <3>1, <3>4
    <3>5. CASE k # i
      <4>1. k < i
        BY <1>1, <2>1, <3>3, <3>5
      <4>2. <<l, p[i]>> \in R
        BY <1>3, <2>1, <3>1, <4>1
      <4>3. EntryLess(es[l], es[p[i]]) \/ l < p[i]
        BY <2>3, <4>2, PrecedesIs DEF n, R
      <4>4. ~EntryLess(es[l], es[p[i]])
        <5>1. /\ es[l].type = u.type /\ es[l].src = u.src /\ es[l].dst = u.dst
              /\ u.type \in Int /\ u.src \in Int /\ u.dst \in Int
          <6>1. u \in Entries
            BY <1>1, <2>3
          <6> QED
            BY <2>4, <6>1 DEF EntryKey, Entries
        <5> QED
          BY <2>3, <5>1 DEF EntryLess
      <4> QED
        BY <1>1, <2>3, <4>3, <4>4
    <3> QED
      BY <3>4, <3>5
  <2>5. LastAt(es, u)
    BY <2>3, <2>4 DEF LastAt, n
  <2> QED
    BY <2>1, <2>2, <2>5
<1> HIDE DEF S
<1> QED
  BY <1>5, <1>8, <1>10

\* What is written of an edge last, decides.
LEMMA LastDecides ==
  ASSUME NEW B \in Seq(Entries), NEW D \in Seq(Entries), NEW u \in Entries, ~u.deleted,
         LastAt(B \o D, u)
  PROVE  Latest(\E e \in ToSet(B) : EntryKey(e) = EntryKey(u), D, EntryKey(u))
<1> DEFINE es == B \o D
           key == EntryKey(u)
           A == About(D, key)
<1>1. /\ Len(B) \in Nat /\ Len(D) \in Nat /\ DOMAIN B = 1..Len(B) /\ DOMAIN D = 1..Len(D)
      /\ Len(es) = Len(B) + Len(D)
      /\ \A i \in 1..Len(B) : es[i] = B[i]
      /\ \A i \in 1..Len(D) : es[Len(B) + i] = D[i]
  OBVIOUS
<1>2. PICK m \in 1..Len(es) : es[m] = u /\ \A l \in 1..Len(es) : EntryKey(es[l]) = key => l <= m
  BY DEF LastAt
<1> HIDE DEF es, key
<1>3. ASSUME NEW i \in A PROVE i \in 1..Len(D) /\ Len(B) + i <= m
  <2>1. i \in 1..Len(D) /\ EntryKey(D[i]) = key
    BY <1>1 DEF About
  <2>2. Len(B) + i \in 1..Len(es) /\ EntryKey(es[Len(B) + i]) = key
    BY <1>1, <2>1
  <2> QED
    BY <1>2, <2>1, <2>2
<1>4. CASE m > Len(B)
  <2>1. m - Len(B) \in 1..Len(D) /\ Len(B) + (m - Len(B)) = m
    BY <1>1, <1>4
  <2>2. D[m - Len(B)] = u
    BY <1>1, <1>2, <2>1
  <2>3. m - Len(B) \in A
    BY <1>1, <2>1, <2>2 DEF About, key
  <2>4. A \in SUBSET (1..(m - Len(B)))
    <3>1. \A i \in A : i \in 1..(m - Len(B))
      BY <1>1, <1>3
    <3> QED
      BY <3>1
  <2>5. Max(A) = m - Len(B)
    <3> HIDE DEF A
    <3>1. m - Len(B) \in Nat
      BY <2>1
    <3> QED
      BY <2>3, <2>4, <3>1, MaxTop
  <2> QED
    BY <2>2, <2>3, <2>5 DEF Latest, key
<1>5. CASE ~(m > Len(B))
  <2>1. m \in 1..Len(B) /\ B[m] = u
    BY <1>1, <1>2, <1>5
  <2>2. \E e \in ToSet(B) : EntryKey(e) = key
    BY <1>1, <2>1 DEF ToSet, key
  <2>3. A = {}
    <3>1. \A i \in A : FALSE
      BY <1>1, <1>3, <1>5
    <3> QED
      BY <3>1
  <2> QED
    BY <2>2, <2>3 DEF Latest, key
<1> QED
  BY <1>4, <1>5

\* The types of some entries.
LEMMA TypesFinite ==
  ASSUME NEW q \in Seq(Entries)
  PROVE  IsFiniteSet({e.type : e \in Range(q)}) /\ {e.type : e \in Range(q)} \subseteq Nat
<1> DEFINE T == {e.type : e \in Range(q)}
           f == [i \in 1..Len(q) |-> q[i].type]
<1>1. Len(q) \in Nat /\ DOMAIN q = 1..Len(q) /\ \A i \in 1..Len(q) : q[i] \in Entries
  OBVIOUS
<1>2. \A t : t \in T <=> \E i \in 1..Len(q) : t = q[i].type
  BY <1>1 DEF Range
<1> HIDE DEF T
<1>3. f \in Surjection(1..Len(q), T)
  <2>1. f \in [1..Len(q) -> T]
    BY <1>2
  <2>2. \A t \in T : \E i \in 1..Len(q) : f[i] = t
    BY <1>2
  <2> HIDE DEF f
  <2> QED
    BY <2>1, <2>2 DEF Surjection
<1>4. IsFiniteSet(1..Len(q))
  BY <1>1, FS_Interval
<1>5. IsFiniteSet(T)
  <2> HIDE DEF f
  <2> QED
    BY <1>3, <1>4, FS_Surjection
<1>6. \A t \in T : t \in Nat
  <2>1. \A i \in 1..Len(q) : q[i].type \in Nat
    BY <1>1 DEF Entries
  <2> QED
    BY <1>2, <2>1
<1> QED
  BY <1>5, <1>6 DEF T

\* The compacted layers hold no edge that was not found before.
LEMMA CompactedFound ==
  ASSUME NEW g, Shape(g)
  PROVE  /\ BaseOK(CompactedLayers(g), g.nodes)
         /\ \A key \in Keys : InBase(CompactedLayers(g), key) => Finds(g, key)
<1> DEFINE B == BaseEdges(g)
           D == DeltaEntries(g)
           unique == KeepLatest(SortEntries(B \o D))
           T(t) == {i \in DOMAIN unique: unique[i].type = t}
           of(t) == Picks(unique, T(t))
           base == CompactedLayers(g)
<1>1. g.nodes \in Nat /\ BaseOK(g.base, g.nodes) /\ g.delta \in Seq(Deltas)
  BY DEF Shape
<1>2. /\ B \in Seq(Entries)
      /\ \A key \in Keys : (\E e \in ToSet(B) : EntryKey(e) = key) <=> InBase(g.base, key)
  BY <1>1, BaseEdgesAre
<1>3. D \in Seq(Entries)
  BY <1>1, DeltaEntriesAre
<1>4. base = [t \in {e.type : e \in Range(unique)} |-> from_edge_list(of(t), g.nodes)]
  BY DEF CompactedLayers
<1> HIDE DEF B, D
<1>5. B \o D \in Seq(Entries)
  BY <1>2, <1>3
<1>6. /\ unique \in Seq(Entries) /\ InOrder(unique)
      /\ \A u \in ToSet(unique) : ~u.deleted /\ LastAt(B \o D, u)
  BY <1>5, KeptLatest
<1> HIDE DEF unique, base
<1>7. DOMAIN unique = 1..Len(unique) /\ \A u \in ToSet(unique) : u \in Entries
  BY <1>6 DEF ToSet
<1>8. IsFiniteSet(DOMAIN base) /\ DOMAIN base \subseteq Nat /\ DOMAIN base = {e.type : e \in Range(unique)}
  BY <1>4, <1>6, TypesFinite
<1>9. ASSUME NEW t \in DOMAIN base
      PROVE  \E m \in Seq(Entries) :
                /\ Built(base[t], m, g.nodes)
                /\ \A e \in ToSet(m) : e \in ToSet(unique) /\ e.type = t
  <2>1. base[t] = from_edge_list(of(t), g.nodes)
    BY <1>4, <1>8
  <2>2. of(t) \in Seq(Entries) /\ InOrder(of(t))
    <3> HIDE DEF T
    <3> QED
      BY <1>6, PicksInOrder
  <2>3. \A e : e \in ToSet(of(t)) <=> \E i \in T(t) : i \in 1..Len(unique) /\ e = unique[i]
    <3> HIDE DEF T
    <3> QED
      BY <1>6, PicksElems
  <2>4. \A e \in ToSet(of(t)) : e \in ToSet(unique) /\ e.type = t
    BY <1>7, <2>3 DEF ToSet
  <2> HIDE DEF of
  <2>5. Climbing(of(t))
    <3>1. ASSUME NEW i \in DOMAIN of(t), NEW j \in DOMAIN of(t), i < j
          PROVE  of(t)[i].src <= of(t)[j].src
      <4>1. ~EntryLess(of(t)[j], of(t)[i])
        BY <2>2, <3>1 DEF InOrder
      <4>2. of(t)[i] \in ToSet(of(t)) /\ of(t)[j] \in ToSet(of(t))
        BY DEF ToSet
      <4>3. of(t)[i].type = t /\ of(t)[j].type = t /\ of(t)[i] \in Entries /\ of(t)[j] \in Entries
        BY <1>7, <2>4, <4>2
      <4>4. of(t)[i].src \in Nat /\ of(t)[j].src \in Nat
        BY <4>3 DEF Entries
      <4>5. ~(of(t)[j].src < of(t)[i].src)
        BY <4>1, <4>3 DEF EntryLess
      <4> QED
        BY <4>4, <4>5
    <3> QED
      BY <3>1 DEF Climbing
  <2>6. PICK m \in Seq(Entries) : ToSet(m) \subseteq ToSet(of(t)) /\ Built(from_edge_list(of(t), g.nodes), m, g.nodes)
    BY <1>1, <2>2, <2>5, LayerBuilt
  <2> QED
    BY <2>1, <2>4, <2>6
<1>10. BaseOK(base, g.nodes)
  <2>1. ASSUME NEW t \in DOMAIN base PROVE base[t] \in Layers /\ base[t].nodes <= g.nodes
    BY <1>1, <1>9 DEF Built
  <2> QED
    BY <1>8, <2>1 DEF BaseOK
<1>11. ASSUME NEW key \in Keys, InBase(base, key) PROVE Finds(g, key)
  <2>0. PICK t \in Nat, s \in Nat, d \in Nat : key = <<t, s, d>> /\ key[1] = t /\ key[2] = s /\ key[3] = d
    <3>1. key[1] \in Nat /\ key[2] \in Nat /\ key[3] \in Nat /\ key = <<key[1], key[2], key[3]>>
      BY DEF Keys
    <3> QED
      BY <3>1
  <2>1. t \in DOMAIN base /\ \E p \in ToSet(Row(base[t], s)) : p.dst = d
    BY <1>11, <2>0 DEF InBase, Range, ToSet
  <2>2. PICK p \in ToSet(Row(base[t], s)) : p.dst = d
    BY <2>1
  <2>3. PICK m \in Seq(Entries) : /\ Built(base[t], m, g.nodes)
                                  /\ \A e \in ToSet(m) : e \in ToSet(unique) /\ e.type = t
    BY <1>9, <2>1
  <2>4. \E e \in ToSet(m) : e.src = s /\ e.dst = p.dst
    BY <1>1, <2>2, <2>3, RowWithin
  <2>5. PICK u \in ToSet(m) : u.src = s /\ u.dst = d
    BY <2>2, <2>4
  <2>6. u \in ToSet(unique) /\ EntryKey(u) = key
    BY <2>0, <2>3, <2>5 DEF EntryKey
  <2>7. u \in Entries /\ ~u.deleted /\ LastAt(B \o D, u)
    BY <1>6, <1>7, <2>6
  <2>8. Latest(\E e \in ToSet(B) : EntryKey(e) = key, D, key)
    BY <1>2, <1>3, <2>6, <2>7, LastDecides
  <2>9. Latest(InBase(g.base, key), D, key)
    BY <1>2, <2>8 DEF Latest
  <2>10. Finds(g, key) = Latest(InBase(g.base, key), D, key)
    BY FindsIs DEF D
  <2> QED
    BY <2>9, <2>10
<1> QED
  BY <1>10, <1>11 DEF base

\* compact: the lookups agree after it, and what they find was found before.
LEMMA CompactedKeeps ==
  ASSUME NEW g, Shape(g)
  PROVE  /\ Shape(Compacted(g)) /\ Agree(Compacted(g))
         /\ \A key \in Keys : Finds(Compacted(g), key) => Finds(g, key)
<1> DEFINE swapped == [g EXCEPT !.base = CompactedLayers(g), !.delta = <<>>]
           h == rebuild_reverse_index(swapped)
           c == Compacted(g)
<1>1. /\ BaseOK(CompactedLayers(g), g.nodes)
      /\ \A key \in Keys : InBase(CompactedLayers(g), key) => Finds(g, key)
  BY CompactedFound
<1>2. swapped = [nodes |-> g.nodes, types |-> g.types, gen |-> g.gen, compacted |-> g.compacted,
                 readonly |-> g.readonly, base |-> CompactedLayers(g), delta |-> << >>, rev |-> g.rev, next |-> g.next]
  <2>1. g = [nodes |-> g.nodes, types |-> g.types, gen |-> g.gen, compacted |-> g.compacted,
             readonly |-> g.readonly, base |-> g.base, delta |-> g.delta, rev |-> g.rev, next |-> g.next]
    BY DEF Shape
  <2>2. PICK L : L = CompactedLayers(g)
    OBVIOUS
  <2>3. [g EXCEPT !.base = L, !.delta = <<>>]
           = [nodes |-> g.nodes, types |-> g.types, gen |-> g.gen, compacted |-> g.compacted,
              readonly |-> g.readonly, base |-> L, delta |-> << >>, rev |-> g.rev, next |-> g.next]
    <3>1. PICK a, b, x, d, e, f, i, j, k :
             g = [nodes |-> a, types |-> b, gen |-> x, compacted |-> d, readonly |-> e, base |-> f,
                  delta |-> i, rev |-> j, next |-> k]
      BY <2>1
    <3>2. ASSUME NEW z
          PROVE  [g EXCEPT !.base = L, !.delta = z]
             = [nodes |-> a, types |-> b, gen |-> x, compacted |-> d, readonly |-> e, base |-> L,
                delta |-> z, rev |-> j, next |-> k]
      <4>1. PICK w : w = [g EXCEPT !.base = L]
        OBVIOUS
      <4>2. w = [nodes |-> a, types |-> b, gen |-> x, compacted |-> d, readonly |-> e, base |-> L,
                 delta |-> i, rev |-> j, next |-> k]
        BY <3>1, <4>1
      <4>3. [w EXCEPT !.delta = z]
               = [nodes |-> a, types |-> b, gen |-> x, compacted |-> d, readonly |-> e, base |-> L,
                  delta |-> z, rev |-> j, next |-> k]
        BY <4>2
      <4> QED
        BY <4>1, <4>3
    <3> QED
      BY <3>1, <3>2
  <2> QED
    BY <2>2, <2>3
<1>3. c = [h EXCEPT !.compacted = TRUE, !.gen = @ + 1]
  BY DEF Compacted
<1>4. h.base = swapped.base /\ h.delta = swapped.delta
  BY <1>2 DEF rebuild_reverse_index
<1> HIDE DEF swapped, h, c
<1>5. Shape(swapped)
  BY <1>1, <1>2 DEF Shape
<1>6. Shape(h) /\ Agree(h)
  BY <1>5, RebuiltAgrees DEF h
<1>7. c = [nodes |-> h.nodes, types |-> h.types, gen |-> h.gen + 1, compacted |-> TRUE,
           readonly |-> h.readonly, base |-> h.base, delta |-> h.delta, rev |-> h.rev, next |-> h.next]
  BY <1>3, <1>6 DEF Shape
<1>8. Shape(c)
  BY <1>6, <1>7 DEF Shape
<1>9. Same(h, c)
  BY <1>7 DEF Same
<1>10. Agree(c) /\ \A key \in Keys : Finds(c, key) <=> Finds(h, key)
  BY <1>6, <1>9, SameFinds
<1>11. ASSUME NEW key \in Keys, Finds(c, key) PROVE Finds(g, key)
  <2>1. c.base = CompactedLayers(g) /\ c.delta = << >>
    BY <1>2, <1>4, <1>7
  <2>2. DeltaEntries(c) = << >>
    <3>1. [k \in DOMAIN c.delta |-> c.delta[k].edges] = << >>
      BY <2>1
    <3> QED
      BY <3>1 DEF DeltaEntries, FlattenSeq
  <2>3. Finds(c, key) = InBase(c.base, key)
    <3>1. About(DeltaEntries(c), key) = {}
      BY <2>2 DEF About
    <3> QED
      BY <3>1, FindsIs DEF Latest
  <2> QED
    BY <1>1, <1>11, <2>1, <2>3
<1> QED
  BY <1>8, <1>10, <1>11 DEF c

-----------------------------------------------------------------------------
(* The files and the writes.                                               *)

Manifests ==
    [nodes : Nat, types : {s \in SUBSET Nat : IsFiniteSet(s)}, gen : Nat, readonly : BOOLEAN,
     compacted : BOOLEAN, deltas : Seq(Nat)]
DeltaHeads == [id : Nat, gen : Nat, count : Nat]

\* What a file of a kind holds.
FilesOf(kind) ==
    IF kind = "graph.manifest" THEN [head : Seq(Manifests), items : {<< >>}]
    ELSE IF kind = "delta" THEN [head : Seq(DeltaHeads), items : Seq(Entries)]
    ELSE IF kind = "offsets" THEN [head : Seq({"raw"}), items : Seq(Nat)]
    ELSE IF kind = "targets" THEN [head : Seq({"raw"}), items : Seq(Int)]
    ELSE [head : Seq({"raw"}), items : Seq(Attrs)]
Kinds == {"graph.manifest", "delta", "offsets", "targets", "attrs"}

DiskOK(disk) == \A f \in DOMAIN disk : disk[f] \in FilesOf(f.kind)

Puts(kind) == [op : {"put"}, file : [kind : {kind}, n : Nat], with : FilesOf(kind)]
Dels == [op : {"del"}, file : [kind : {"delta"}, n : Nat], with : {EmptyFile}]
Writes == (UNION {Puts(kind) : kind \in Kinds}) \union Dels

\* Every kind of file has a header and records.
LEMMA FileIs ==
  ASSUME NEW kind
  PROVE  \E H, I : << >> \in I /\ (\A s \in I : \E U : s \in Seq(U) /\ (I = Seq(U) \/ I = {<< >>}))
                   /\ FilesOf(kind) = [head : Seq(H), items : I]
<1> DEFINE Is(H, I) == << >> \in I /\ (\A s \in I : \E U : s \in Seq(U) /\ (I = Seq(U) \/ I = {<< >>}))
                       /\ FilesOf(kind) = [head : Seq(H), items : I]
<1>1. CASE kind = "graph.manifest"
  <2>1. FilesOf(kind) = [head : Seq(Manifests), items : {<< >>}]
    BY <1>1 DEF FilesOf
  <2>2. << >> \in Seq({})
    OBVIOUS
  <2>3. Is(Manifests, {<< >>})
    BY <2>1, <2>2
  <2> QED
    BY <2>3
<1>2. ASSUME NEW H, NEW U, FilesOf(kind) = [head : Seq(H), items : Seq(U)]
      PROVE  Is(H, Seq(U))
  BY <1>2
<1>3. CASE kind # "graph.manifest"
  <2>1. \E H, U : FilesOf(kind) = [head : Seq(H), items : Seq(U)]
    BY <1>3 DEF FilesOf
  <2> QED
    BY <1>2, <2>1
<1> QED
  BY <1>1, <1>3

\* A file of which only a part was written holds what a whole one may.
LEMMA PartialOK ==
  ASSUME NEW kind, NEW c \in FilesOf(kind)
  PROVE  \A d \in Partial(c) : d \in FilesOf(kind)
<1>1. PICK H, I : /\ << >> \in I /\ FilesOf(kind) = [head : Seq(H), items : I]
                  /\ \A s \in I : \E U : s \in Seq(U) /\ (I = Seq(U) \/ I = {<< >>})
  BY FileIs
<1>2. EmptyFile \in FilesOf(kind)
  BY <1>1 DEF EmptyFile
<1>3. c.head \in Seq(H) /\ c.items \in I /\ c = [head |-> c.head, items |-> c.items]
  BY <1>1
<1>4. ASSUME NEW s \in Cut(c.items) PROVE [c EXCEPT !.items = s] \in FilesOf(kind)
  <2>1. PICK U : c.items \in Seq(U) /\ (I = Seq(U) \/ I = {<< >>})
    BY <1>1, <1>3
  <2>2. PICK k \in 0..Len(c.items) - 1 : s = SubSeq(c.items, 1, k)
    BY DEF Cut
  <2>3. s \in I
    <3>1. PICK it \in Seq(U) : it = c.items
      BY <2>1
    <3>2. Len(it) \in Nat /\ k \in Nat /\ k <= Len(it) /\ k < Len(it)
      BY <2>2, <3>1
    <3>3. SubSeq(it, 1, k) \in Seq(U)
      BY <3>2, PartTypes
    <3>4. it # << >>
      BY <3>2
    <3>5. I = Seq(U)
      BY <1>3, <2>1, <3>1, <3>4
    <3> QED
      BY <2>2, <3>1, <3>3, <3>5
  <2>4. [c EXCEPT !.items = s] = [head |-> c.head, items |-> s]
    BY <1>3
  <2> QED
    BY <1>1, <1>3, <2>3, <2>4
<1> QED
  BY <1>2, <1>4 DEF Partial

\* A write of the store puts a whole file or removes one.
LEMMA WriteIs ==
  ASSUME NEW w \in Writes
  PROVE  \/ w.op = "put" /\ w.with \in FilesOf(w.file.kind)
         \/ w.op = "del" /\ w.with = EmptyFile
<1>1. CASE w \in Dels
  BY <1>1 DEF Dels
<1>2. CASE w \notin Dels
  <2>1. PICK kind \in Kinds : w \in Puts(kind)
    BY <1>2 DEF Writes
  <2>2. w.op = "put" /\ w.with \in FilesOf(kind) /\ w.file.kind = kind
    BY <2>1 DEF Puts
  <2> QED
    BY <2>2
<1> QED
  BY <1>1, <1>2

\* A disk with a file replaced.
LEMMA WithOK ==
  ASSUME NEW disk, DiskOK(disk), NEW f, NEW c \in FilesOf(f.kind)
  PROVE  DiskOK(With(disk, f, c))
<1>1. \A g \in DOMAIN disk \union {f} : (IF g = f THEN c ELSE disk[g]) \in FilesOf(g.kind)
  BY DEF DiskOK
<1> QED
  BY <1>1 DEF DiskOK, With

\* A disk after a write, done, given up or interrupted.
LEMMA OutcomesOK ==
  ASSUME NEW disk, DiskOK(disk), NEW w \in Writes
  PROVE  \A d \in Outcomes(disk, w) : DiskOK(d)
<1>1. CASE w.op = "put" /\ w.with \in FilesOf(w.file.kind)
  <2>1. DiskOK(Done(disk, w))
    <3>1. Done(disk, w) = With(disk, w.file, w.with)
      BY <1>1 DEF Done
    <3> QED
      BY <1>1, <3>1, WithOK
  <2>2. ASSUME NEW d \in Interrupted(disk, w) PROVE DiskOK(d)
    <3>1. PICK c \in Partial(w.with) : d = With(disk, w.file, c)
      BY <1>1 DEF Interrupted
    <3>2. c \in FilesOf(w.file.kind)
      BY <1>1, PartialOK
    <3> QED
      BY <3>1, <3>2, WithOK
  <2> QED
    BY <2>1, <2>2 DEF Outcomes
<1>2. CASE w.op = "del"
  <2>1. Done(disk, w) = Without(disk, w.file)
    BY <1>2 DEF Done
  <2>2. DiskOK(Without(disk, w.file))
    BY DEF Without, Restrict, DiskOK
  <2>3. Interrupted(disk, w) = {disk}
    BY <1>2 DEF Interrupted
  <2> QED
    BY <2>1, <2>2, <2>3 DEF Outcomes
<1> QED
  BY <1>1, <1>2, WriteIs

\* A file of the right kind can be put.
LEMMA PutOK ==
  ASSUME NEW kind \in Kinds, NEW n \in Nat, NEW head, NEW items, File(head, items) \in FilesOf(kind)
  PROVE  Put(Name(kind, n), File(head, items)) \in Writes
<1>1. Put(Name(kind, n), File(head, items)) \in Puts(kind)
  BY DEF Put, Name, Puts
<1> QED
  BY <1>1 DEF Writes

\* A delta can be removed.
LEMMA DelOK ==
  ASSUME NEW n \in Nat
  PROVE  Del(DeltaFile(n)) \in Writes
<1>1. Del(DeltaFile(n)) \in Dels
  BY DEF Del, DeltaFile, Name, Dels
<1> QED
  BY <1>1 DEF Writes

-----------------------------------------------------------------------------
(* What save and compact write.                                            *)

\* The writes of the layers.
LEMMA LayersWritten ==
  ASSUME NEW base, NEW nodes, BaseOK(base, nodes)
  PROVE  WriteLayers(base) \in Seq(Writes)
<1> DEFINE types == SetToSeq(DOMAIN base)
           W(t) == write_to_files(base[t], t)
           seqs == [k \in DOMAIN types |-> W(types[k])]
<1>1. types \in Seq(DOMAIN base)
  BY SetToSeqIs DEF BaseOK
<1>2. WriteLayers(base) = FlattenSeq(seqs)
  BY DEF WriteLayers
<1>3. ASSUME NEW t \in DOMAIN base PROVE W(t) \in Seq(Writes)
  <2>1. /\ t \in Nat /\ base[t].offsets \in Seq(Nat) /\ base[t].targets \in Seq(Int)
        /\ base[t].attrs \in Seq(Attrs)
    BY DEF BaseOK, Layers
  <2>2. File("raw", base[t].offsets) \in FilesOf("offsets")
    BY <2>1 DEF File, FilesOf
  <2>3. File("raw", base[t].targets) \in FilesOf("targets")
    BY <2>1 DEF File, FilesOf
  <2>4. File("raw", base[t].attrs) \in FilesOf("attrs")
    BY <2>1 DEF File, FilesOf
  <2>5. PICK a, b, c \in Writes : W(t) = <<a, b, c>>
    <3>1. /\ Put(Name("offsets", t), File("raw", base[t].offsets)) \in Writes
          /\ Put(Name("targets", t), File("raw", base[t].targets)) \in Writes
          /\ Put(Name("attrs", t), File("raw", base[t].attrs)) \in Writes
      BY <2>1, <2>2, <2>3, <2>4, PutOK DEF Kinds
    <3> QED
      BY <3>1 DEF write_to_files
  <2> QED
    BY <2>5
<1> HIDE DEF types, W
<1>4. PICK m \in Nat : DOMAIN types = 1..m /\ \A k \in 1..m : types[k] \in DOMAIN base
  BY <1>1
<1>5. seqs \in [1..m -> Seq(Writes)]
  BY <1>3, <1>4
<1>6. seqs \in Seq(Seq(Writes))
  <2> HIDE DEF seqs
  <2> QED
    BY <1>5
<1> HIDE DEF seqs
<1> QED
  BY <1>2, <1>6, FlattenElems

\* The write of the manifest.
LEMMA ManifestWritten ==
  ASSUME NEW g, Shape(g)
  PROVE  save_manifest(g) \in Seq(Writes)
<1> DEFINE ids == [k \in DOMAIN g.delta |-> g.delta[k].id]
           m == [nodes |-> g.nodes, types |-> g.types, gen |-> g.gen, readonly |-> g.readonly,
                 compacted |-> g.delta = <<>>, deltas |-> ids]
<1>1. PICK n \in Nat : DOMAIN g.delta = 1..n /\ \A k \in 1..n : g.delta[k] \in Deltas
  BY DEF Shape
<1>2. ids \in Seq(Nat)
  <2>1. ids \in [1..n -> Nat]
    BY <1>1 DEF Deltas
  <2> HIDE DEF ids
  <2> QED
    BY <2>1
<1> HIDE DEF ids
<1>3. m \in Manifests
  BY <1>2 DEF Shape, Manifests
<1>4. ManifestOf(g) = File(m, << >>)
  BY DEF ManifestOf, ids
<1> HIDE DEF m
<1>5. File(m, << >>) \in FilesOf("graph.manifest")
  BY <1>3 DEF File, FilesOf
<1>6. Put(Manifest, ManifestOf(g)) \in Writes
  BY <1>4, <1>5, PutOK DEF Manifest, Kinds
<1> QED
  BY <1>6 DEF save_manifest

\* The writes of save.
LEMMA SaveWritten ==
  ASSUME NEW g, Shape(g)
  PROVE  save(g) \in Seq(Writes)
<1>1. save_base_layers(g) \in Seq(Writes)
  BY LayersWritten DEF save_base_layers, Shape
<1>2. save_delta_layers(g) \in Seq(Writes)
  <2> DEFINE d(k) == g.delta[k]
             W(k) == Put(DeltaFile(d(k).id), File([id |-> d(k).id, gen |-> d(k).gen, count |-> Len(d(k).edges)], d(k).edges))
  <2>1. PICK n \in Nat : DOMAIN g.delta = 1..n /\ \A k \in 1..n : d(k) \in Deltas
    BY DEF Shape
  <2>2. save_delta_layers(g) = [k \in 1..n |-> W(k)]
    BY <2>1 DEF save_delta_layers
  <2> HIDE DEF d
  <2>3. ASSUME NEW k \in 1..n PROVE W(k) \in Writes
    <3>1. d(k).id \in Nat /\ d(k).gen \in Nat /\ d(k).edges \in Seq(Entries) /\ Len(d(k).edges) \in Nat
      BY <2>1 DEF Deltas
    <3>2. PICK i, j, c \in Nat, es \in Seq(Entries) :
             i = d(k).id /\ j = d(k).gen /\ c = Len(d(k).edges) /\ es = d(k).edges
      BY <3>1
    <3>3. [id |-> i, gen |-> j, count |-> c] \in DeltaHeads
      BY DEF DeltaHeads
    <3>4. File([id |-> i, gen |-> j, count |-> c], es) \in FilesOf("delta")
      BY <3>3 DEF File, FilesOf
    <3>5. Put(Name("delta", i), File([id |-> i, gen |-> j, count |-> c], es)) \in Writes
      BY <3>4, PutOK DEF Kinds
    <3> QED
      BY <3>2, <3>5 DEF DeltaFile
  <2> HIDE DEF W
  <2>4. [k \in 1..n |-> W(k)] \in Seq(Writes)
    <3>1. [k \in 1..n |-> W(k)] \in [1..n -> Writes]
      BY <2>3
    <3> QED
      BY <3>1
  <2> QED
    BY <2>2, <2>4
<1>3. save_manifest(g) \in Seq(Writes)
  BY ManifestWritten
<1> QED
  BY <1>1, <1>2, <1>3 DEF save

\* The writes of compact.
LEMMA CompactWritten ==
  ASSUME NEW g, Shape(g), NEW disk
  PROVE  CompactWrites(g, disk) \in Seq(Writes)
<1> DEFINE dels == [k \in DOMAIN g.delta |-> Del(DeltaFile(g.delta[k].id))]
           S == {k \in DOMAIN g.delta: Has(disk, DeltaFile(g.delta[k].id))}
           h == [g EXCEPT !.gen = @ + 1, !.delta = <<>>]
<1>1. WriteLayers(CompactedLayers(g)) \in Seq(Writes)
  BY CompactedFound, LayersWritten
<1>2. PICK n \in Nat : DOMAIN g.delta = 1..n /\ \A k \in 1..n : g.delta[k] \in Deltas
  BY DEF Shape
<1>3. dels \in Seq(Writes)
  <2>1. \A k \in 1..n : g.delta[k].id \in Nat
    BY <1>2 DEF Deltas
  <2>2. \A k \in 1..n : Del(DeltaFile(g.delta[k].id)) \in Writes
    BY <2>1, DelOK
  <2>3. dels \in [1..n -> Writes]
    BY <1>2, <2>2
  <2> HIDE DEF dels
  <2> QED
    BY <2>3
<1>4. Picks(dels, S) \in Seq(Writes)
  <2> HIDE DEF dels, S
  <2> QED
    BY <1>3, PicksElems
<1>5. save_manifest(h) \in Seq(Writes)
  <2>1. g = [nodes |-> g.nodes, types |-> g.types, gen |-> g.gen, compacted |-> g.compacted,
             readonly |-> g.readonly, base |-> g.base, delta |-> g.delta, rev |-> g.rev, next |-> g.next]
    BY DEF Shape
  <2>2. h = [nodes |-> g.nodes, types |-> g.types, gen |-> g.gen + 1, compacted |-> g.compacted,
             readonly |-> g.readonly, base |-> g.base, delta |-> << >>, rev |-> g.rev, next |-> g.next]
    <3>1. PICK ns, ts, gen, c, ro, b, d, rev, nx :
             g = [nodes |-> ns, types |-> ts, gen |-> gen, compacted |-> c, readonly |-> ro,
                  base |-> b, delta |-> d, rev |-> rev, next |-> nx]
      BY <2>1
    <3>2. ASSUME NEW z
          PROVE  [g EXCEPT !.gen = @ + 1, !.delta = z]
             = [nodes |-> ns, types |-> ts, gen |-> gen + 1, compacted |-> c, readonly |-> ro,
                base |-> b, delta |-> z, rev |-> rev, next |-> nx]
      <4>1. PICK w : w = [g EXCEPT !.gen = @ + 1]
        OBVIOUS
      <4>2. w = [nodes |-> ns, types |-> ts, gen |-> gen + 1, compacted |-> c, readonly |-> ro,
                 base |-> b, delta |-> d, rev |-> rev, next |-> nx]
        BY <3>1, <4>1
      <4>3. [w EXCEPT !.delta = z]
               = [nodes |-> ns, types |-> ts, gen |-> gen + 1, compacted |-> c, readonly |-> ro,
                  base |-> b, delta |-> z, rev |-> rev, next |-> nx]
        BY <4>2
      <4> QED
        BY <4>1, <4>3
    <3> QED
      BY <3>1, <3>2
  <2>3. g.gen + 1 \in Nat /\ << >> \in Seq(Deltas)
    BY DEF Shape
  <2> HIDE DEF h
  <2>4. /\ h.nodes = g.nodes /\ h.types = g.types /\ h.gen = g.gen + 1 /\ h.compacted = g.compacted
        /\ h.readonly = g.readonly /\ h.base = g.base /\ h.delta = << >> /\ h.rev = g.rev /\ h.next = g.next
    BY <2>2
  <2>5. Shape(h)
    BY <2>2, <2>3, <2>4 DEF Shape
  <2> QED
    BY <2>5, ManifestWritten
<1>6. CompactWrites(g, disk) = WriteLayers(CompactedLayers(g)) \o Picks(dels, S) \o save_manifest(h)
  BY DEF CompactWrites
<1> HIDE DEF dels, S, h
<1> QED
  BY <1>1, <1>4, <1>5, <1>6

-----------------------------------------------------------------------------
(* What a load reads.                                                      *)

\* A file that is there or is missing reads as its kind says.
LEMMA ReadIs ==
  ASSUME NEW disk, DiskOK(disk), NEW kind, NEW n
  PROVE  On(disk, Name(kind, n)) \in FilesOf(kind)
<1>1. PICK H, I : << >> \in I /\ FilesOf(kind) = [head : Seq(H), items : I]
  BY FileIs
<1>2. EmptyFile \in FilesOf(kind)
  BY <1>1 DEF EmptyFile
<1>3. Name(kind, n).kind = kind
  BY DEF Name
<1> QED
  BY <1>2, <1>3 DEF On, Has, DiskOK

\* A layer that is loaded, whichever of its files are short.
LEMMA LayerLoaded ==
  ASSUME NEW disk, DiskOK(disk), NEW t, NEW n \in Nat
  PROVE  load_from_files(disk, t, n) \in Layers /\ load_from_files(disk, t, n).nodes = n
<1>1. /\ On(disk, Name("offsets", t)) \in FilesOf("offsets")
      /\ On(disk, Name("targets", t)) \in FilesOf("targets")
      /\ On(disk, Name("attrs", t)) \in FilesOf("attrs")
  BY ReadIs
<1>2. /\ On(disk, Name("offsets", t)).items \in Seq(Nat)
      /\ On(disk, Name("targets", t)).items \in Seq(Int)
      /\ On(disk, Name("attrs", t)).items \in Seq(Attrs)
  BY <1>1 DEF FilesOf
<1> QED
  BY <1>2 DEF load_from_files, Layers

\* The numbers of a sequence are bounded.
LEMMA Bounded ==
  ASSUME NEW q \in Seq(Nat)
  PROVE  \E b \in Nat : \A x \in Range(q) : x <= b
<1> DEFINE UpTo(k, b) == \A i \in 1..k : q[i] <= b
           T == {k \in 0..Len(q) : \E b \in Nat : UpTo(k, b)}
<1>1. Len(q) \in Nat /\ DOMAIN q = 1..Len(q) /\ \A i \in 1..Len(q) : q[i] \in Nat
  OBVIOUS
<1>2. 0 \in T
  <2>1. UpTo(0, 0)
    OBVIOUS
  <2> QED
    BY <1>1, <2>1
<1>3. ASSUME NEW k \in 1..Len(q), k - 1 \in T PROVE k \in T
  <2>1. PICK b \in Nat : UpTo(k - 1, b)
    BY <1>3
  <2>2. PICK x \in Nat : x = q[k]
    BY <1>1
  <2>3. UpTo(k, b + x)
    <3>1. ASSUME NEW i \in 1..k PROVE q[i] <= b + x
      <4>1. CASE i = k
        BY <2>2, <4>1
      <4>2. CASE i # k
        <5>1. i \in 1..(k - 1) /\ i \in 1..Len(q)
          BY <1>1, <4>2
        <5>2. PICK y \in Nat : y = q[i]
          BY <1>1, <5>1
        <5>3. y <= b
          BY <2>1, <5>1, <5>2
        <5> QED
          BY <5>2, <5>3
      <4> QED
        BY <4>1, <4>2
    <3> QED
      BY <3>1
  <2>4. b + x \in Nat /\ k \in 0..Len(q)
    BY <1>1
  <2> QED
    BY <2>3, <2>4
<1> HIDE DEF T
<1>4. Len(q) \in T
  <2>1. \A k \in 0..Len(q) : k \in T
    BY <1>1, <1>2, <1>3, Climb
  <2> QED
    BY <1>1, <2>1
<1>5. PICK b \in Nat : UpTo(Len(q), b)
  BY <1>4 DEF T
<1> QED
  BY <1>1, <1>5 DEF Range

\* The next delta number is a number.
LEMMA NextFree ==
  ASSUME NEW q \in Seq(Nat)
  PROVE  Max({1} \union {d + 1 : d \in Range(q)}) \in Nat
<1> DEFINE S == {1} \union {d + 1 : d \in Range(q)}
<1>1. PICK b \in Nat : \A x \in Range(q) : x <= b
  BY Bounded
<1>2. Range(q) \subseteq Nat
  BY DEF Range
<1>3. S \subseteq Nat /\ S # {}
  BY <1>2
<1>4. \A x \in S : x <= b + 1
  BY <1>1, <1>2
<1>5. b + 1 \in Nat
  OBVIOUS
<1> HIDE DEF S
<1>6. Max(S) \in Nat
  BY <1>3, <1>4, <1>5, MaxOfBounded
<1> QED
  BY <1>6 DEF S

\* A new store.
LEMMA NewStore ==
  /\ Shape(with_path(0)) /\ Agree(with_path(0))
  /\ \A key \in Keys : ~Finds(with_path(0), key)
<1> DEFINE g == with_path(0)
<1>1. g = [nodes |-> 0, types |-> {}, gen |-> 0, compacted |-> TRUE, readonly |-> FALSE,
           base |-> NoLayers, delta |-> << >>, rev |-> {}, next |-> 1]
  BY DEF with_path
<1>2. DOMAIN NoLayers = {}
  BY DEF NoLayers
<1> HIDE DEF g
<1>3. BaseOK(NoLayers, 0)
  BY <1>2, FS_EmptySet DEF BaseOK
<1>4. Shape(g)
  BY <1>1, <1>3, FS_EmptySet DEF Shape
<1>5. ASSUME NEW key \in Keys PROVE ~Finds(g, key)
  <2>1. DeltaEntries(g) = << >>
    <3>1. [k \in DOMAIN g.delta |-> g.delta[k].edges] = << >>
      BY <1>1
    <3> QED
      BY <3>1 DEF DeltaEntries, FlattenSeq
  <2>2. About(DeltaEntries(g), key) = {}
    BY <2>1 DEF About
  <2>3. ~InBase(g.base, key)
    BY <1>1, <1>2 DEF InBase
  <2> QED
    BY <2>2, <2>3, FindsIs DEF Latest
<1>6. Agree(g)
  <2>1. g.rev = {}
    BY <1>1
  <2>2. \A key \in Keys : ~Indexed(g.rev, key)
    BY <2>1 DEF Indexed
  <2> QED
    BY <1>5, <2>1, <2>2 DEF Agree
<1> QED
  BY <1>4, <1>5, <1>6 DEF g

\* The delta layers that are read are those that the manifest names and that are there.
LEMMA DeltaLoaded ==
  ASSUME NEW c \in FilesOf("delta"), DeltaReads(c)
  PROVE  DeltaLayer(c.head[1].id, c.head[1].gen, SubSeq(c.items, 1, c.head[1].count)) \in Deltas
<1>1. c.head \in Seq(DeltaHeads) /\ c.items \in Seq(Entries)
  BY DEF FilesOf
<1>2. PICK h \in DeltaHeads : h = c.head[1]
  BY <1>1 DEF DeltaReads
<1>3. PICK es \in Seq(Entries) : es = c.items
  BY <1>1
<1>4. h.id \in Nat /\ h.gen \in Nat /\ h.count \in Nat
  BY DEF DeltaHeads
<1>5. PICK i, j, n \in Nat : i = h.id /\ j = h.gen /\ n = h.count
  BY <1>4
<1>6. n <= Len(es)
  BY <1>2, <1>3, <1>5 DEF DeltaReads
<1>7. SubSeq(es, 1, n) \in Seq(Entries)
  BY <1>6, PartTypes
<1>8. DeltaLayer(i, j, SubSeq(es, 1, n)) \in Deltas
  BY <1>7 DEF DeltaLayer, Deltas
<1> QED
  BY <1>2, <1>3, <1>5, <1>8

\* A store that is loaded, or made anew.
LEMMA LoadKeeps ==
  ASSUME NEW disk, DiskOK(disk), load(disk).ok
  PROVE  Shape(load(disk).g) /\ Agree(load(disk).g)
<1> DEFINE m == On(disk, Manifest).head[1]
           named == Picks(m.deltas, {k \in DOMAIN m.deltas: Has(disk, DeltaFile(m.deltas[k]))})
           delta(d) == LET c == On(disk, DeltaFile(d))
                       IN  DeltaLayer(c.head[1].id, c.head[1].gen, SubSeq(c.items, 1, c.head[1].count))
           base == [t \in {u \in m.types: LayerReads(disk, u)} |-> load_from_files(disk, t, m.nodes)]
           deltas == [k \in DOMAIN named |-> delta(named[k])]
           next == Max({1} \union {d + 1 : d \in Range(named)})
           read == [nodes |-> m.nodes, types |-> m.types, gen |-> m.gen, compacted |-> m.compacted,
                    readonly |-> m.readonly, rev |-> {}, base |-> base, delta |-> deltas, next |-> next]
           fails == ~ManifestReads(disk) \/ \E d \in Range(named): ~DeltaReads(On(disk, DeltaFile(d)))
<1>1. load(disk) = IF fails THEN NotLoaded ELSE Loaded(rebuild_reverse_index(read))
  BY DEF load
<1> HIDE DEF fails, read, next, deltas, base, delta, named, m
<1>2. ~fails
  BY <1>1 DEF NotLoaded
<1>3. load(disk).g = rebuild_reverse_index(read)
  BY <1>1, <1>2 DEF Loaded
<1> USE DEF fails, read, next, deltas, base, delta, named, m
<1>4. m \in Manifests
  <2>1. On(disk, Manifest) \in FilesOf("graph.manifest")
    BY ReadIs DEF Manifest
  <2>2. On(disk, Manifest).head \in Seq(Manifests)
    BY <2>1 DEF FilesOf
  <2>3. On(disk, Manifest).head # << >>
    BY <1>2 DEF ManifestReads
  <2> QED
    BY <2>2, <2>3
<1> HIDE DEF m
<1>5. /\ m.nodes \in Nat /\ IsFiniteSet(m.types) /\ m.types \subseteq Nat /\ m.gen \in Nat
      /\ m.readonly \in BOOLEAN /\ m.compacted \in BOOLEAN /\ m.deltas \in Seq(Nat)
  BY <1>4 DEF Manifests
<1>6. named \in Seq(Nat)
  BY <1>5, PicksElems
<1>7. \A d \in Range(named) : DeltaReads(On(disk, DeltaFile(d)))
  BY <1>2
<1> HIDE DEF named, fails
<1>8. next \in Nat
  BY <1>6, NextFree
<1>9. BaseOK(base, m.nodes)
  <2>1. DOMAIN base \subseteq m.types
    OBVIOUS
  <2>2. IsFiniteSet(DOMAIN base)
    BY <1>5, <2>1, FS_Subset
  <2>3. \A t \in DOMAIN base : base[t] = load_from_files(disk, t, m.nodes)
    OBVIOUS
  <2> HIDE DEF base
  <2>4. ASSUME NEW t \in DOMAIN base PROVE base[t] \in Layers /\ base[t].nodes <= m.nodes
    <3>1. PICK n \in Nat : n = m.nodes
      BY <1>5
    <3>2. base[t] \in Layers /\ base[t].nodes = n
      BY <2>3, <3>1, LayerLoaded
    <3> QED
      BY <3>1, <3>2
  <2> QED
    BY <1>5, <2>1, <2>2, <2>4 DEF BaseOK
<1>10. deltas \in Seq(Deltas)
  <2>1. ASSUME NEW d \in Range(named) PROVE delta(d) \in Deltas
    <3>1. PICK c : c = On(disk, DeltaFile(d))
      OBVIOUS
    <3>2. c \in FilesOf("delta")
      BY <3>1, ReadIs DEF DeltaFile
    <3>3. DeltaReads(c)
      BY <1>7, <3>1
    <3> QED
      BY <3>1, <3>2, <3>3, DeltaLoaded
  <2> HIDE DEF delta
  <2>2. PICK n \in Nat : DOMAIN named = 1..n
    BY <1>6
  <2>3. \A k \in 1..n : named[k] \in Range(named)
    BY <2>2 DEF Range
  <2>4. deltas \in [1..n -> Deltas]
    BY <2>1, <2>2, <2>3
  <2> HIDE DEF deltas
  <2> QED
    BY <2>4
<1> HIDE DEF base, deltas, next
<1>11. Shape(read)
  BY <1>5, <1>8, <1>9, <1>10 DEF Shape
<1> QED
  BY <1>3, <1>11, RebuiltAgrees

\* open_or_create loads the store or makes a new one.
LEMMA OpenKeeps ==
  ASSUME NEW disk, DiskOK(disk), open_or_create(disk, 0).ok
  PROVE  Shape(open_or_create(disk, 0).g) /\ Agree(open_or_create(disk, 0).g)
<1>1. CASE Has(disk, Manifest)
  BY <1>1, LoadKeeps DEF open_or_create
<1>2. CASE ~Has(disk, Manifest)
  <2>1. open_or_create(disk, 0).g = with_path(0)
    BY <1>2 DEF open_or_create, Loaded
  <2> QED
    BY <2>1, NewStore
<1> QED
  BY <1>1, <1>2

-----------------------------------------------------------------------------
(* The invariant.                                                          *)

\* The lookups agree on the store in memory, what is told is what is found, and
\* the files and the writes to come are those of a store.
GraphInv ==
    /\ Shape(graph) /\ Agree(graph)
    /\ told = EdgesOf(graph)
    /\ DiskOK(gfiles)
    /\ gplan \in Seq(Writes)

\* The edges that callers name, and those of them that are found.
LEMMA EdgesAre ==
  ASSUME GraphAssumption, NEW g
  PROVE  /\ EdgesOf(g) = {k \in GraphEdges : Finds(g, k)}
         /\ \A k \in GraphEdges : k \in Keys /\ k = <<k[1], k[2], k[3]>> /\ k[1] \in Nat /\ k[2] \in Nat /\ k[3] \in Nat
<1>1. GraphEdges \subseteq Keys
  BY DEF GraphAssumption, Keys
<1> QED
  BY <1>1 DEF EdgesOf, Finds, Keys

\* A store in which the same is found has the same edges.
LEMMA SameEdges ==
  ASSUME GraphAssumption, NEW g, NEW h, \A key \in Keys : Finds(h, key) <=> Finds(g, key)
  PROVE  EdgesOf(h) = EdgesOf(g)
BY EdgesAre

\* The store is replaced by its compaction, of which the edges are among those found.
LEMMA SwapKeeps ==
  ASSUME GraphAssumption, NEW g, Shape(g), NEW found, found = EdgesOf(g), Swapped(g, found)
  PROVE  Shape(graph') /\ Agree(graph') /\ told' = EdgesOf(graph')
<1>1. graph' = Compacted(g) /\ told' = found \intersect EdgesOf(Compacted(g))
  BY DEF Swapped
<1>2. EdgesOf(Compacted(g)) \subseteq EdgesOf(g)
  <2>1. \A key \in Keys : Finds(Compacted(g), key) => Finds(g, key)
    BY CompactedKeeps
  <2> QED
    BY <2>1, EdgesAre
<1> QED
  BY <1>1, <1>2, CompactedKeeps

\* compact begins: at once in memory when the manifest is all there is to write.
LEMMA BeginCompactKeeps ==
  ASSUME GraphAssumption, NEW g, Shape(g), Agree(g), NEW found, found = EdgesOf(g),
         BeginCompact(g, found), DiskOK(gfiles), gfiles' = gfiles
  PROVE  GraphInv'
<1>1. gplan' \in Seq(Writes)
  BY CompactWritten DEF BeginCompact
<1>2. Shape(graph') /\ Agree(graph') /\ told' = EdgesOf(graph')
  <2>1. CASE Swapped(g, found)
    BY <2>1, SwapKeeps
  <2>2. CASE graph' = g /\ told' = found
    BY <2>2
  <2> QED
    BY <2>1, <2>2 DEF BeginCompact
<1>3. DiskOK(gfiles')
  OBVIOUS
<1>4. told' = EdgesOf(graph)'
  BY <1>2 DEF EdgesOf
<1> QED
  BY <1>1, <1>2, <1>3, <1>4 DEF GraphInv, Shape, Agree, Finds, DiskOK, BaseOK, Indexed, EdgesOf

\* An operation goes on to its next write.
LEMMA AdvanceKeeps ==
  ASSUME GraphAssumption, GraphInv, gplan # << >>, Advance, DiskOK(gfiles')
  PROVE  GraphInv'
<1>1. gplan' \in Seq(Writes)
  <2>1. PICK q \in Seq(Writes) : q = gplan
    BY DEF GraphInv
  <2>2. gplan' = Tail(q)
    BY <2>1 DEF Advance
  <2>3. Tail(q) \in Seq(Writes)
    BY <2>1
  <2> QED
    BY <2>2, <2>3
<1>2. Shape(graph') /\ Agree(graph') /\ told' = EdgesOf(graph')
  <2>1. CASE Swapped(graph, told)
    BY <2>1, SwapKeeps DEF GraphInv
  <2>2. CASE graph' = graph /\ told' = told
    BY <2>2 DEF GraphInv
  <2> QED
    BY <2>1, <2>2 DEF Advance
<1> QED
  BY <1>1, <1>2 DEF GraphInv, Shape, Agree, Finds, DiskOK, BaseOK, Indexed, EdgesOf

\* The invariant holds of a new store.
LEMMA GraphInit_Inv ==
  ASSUME GraphAssumption, GraphInit
  PROVE  GraphInv
<1>1. graph = with_path(0) /\ gfiles = NoDisk /\ told = {} /\ gplan = << >>
  BY DEF GraphInit
<1>2. EdgesOf(graph) = {}
  BY <1>1, NewStore, EdgesAre
<1>3. DiskOK(gfiles)
  BY <1>1 DEF DiskOK, NoDisk
<1> QED
  BY <1>1, <1>2, <1>3, NewStore DEF GraphInv

\* The store becomes g, of which the edges are told, and the files stay.
LEMMA Becomes ==
  ASSUME GraphInv, NEW g, Shape(g), Agree(g), graph' = g, told' = EdgesOf(g), DiskOK(gfiles'),
         gplan' \in Seq(Writes)
  PROVE  GraphInv'
BY DEF GraphInv, Shape, Agree, Finds, DiskOK, BaseOK, Indexed, EdgesOf

\* Every step keeps the invariant.
LEMMA GraphStepKeeps ==
  ASSUME GraphAssumption, GraphInv, [GraphNext]_gvars
  PROVE  GraphInv'
<1>1. /\ Shape(graph) /\ Agree(graph) /\ told = EdgesOf(graph) /\ DiskOK(gfiles) /\ gplan \in Seq(Writes)
  BY DEF GraphInv
<1>2. ASSUME NEW n \in GraphNodes, AddNode(n) PROVE GraphInv'
  <2>1. n \in Nat
    BY DEF GraphAssumption
  <2>2. graph' = add_node(graph, n) /\ gfiles' = gfiles /\ gplan' = gplan /\ told' = told
    BY <1>2 DEF AddNode
  <2>3. told' = EdgesOf(add_node(graph, n))
    BY <1>1, <2>1, <2>2, AddNodeKeeps, SameEdges
  <2>4. Shape(add_node(graph, n)) /\ Agree(add_node(graph, n))
    BY <1>1, <2>1, AddNodeKeeps
  <2> QED
    BY <1>1, <2>2, <2>3, <2>4, Becomes
<1>3. ASSUME NEW k \in GraphEdges, AddEdge(k[1], k[2], k[3]) PROVE GraphInv'
  <2> DEFINE g == add_edge(graph, k[2], k[3], k[1], 1)
             found == told \union {<<k[1], k[2], k[3]>>}
  <2>1. k \in Keys /\ k = <<k[1], k[2], k[3]>> /\ k[1] \in Nat /\ k[2] \in Nat /\ k[3] \in Nat
    BY EdgesAre
  <2>2. /\ Shape(g) /\ Agree(g)
        /\ \A key \in Keys : Finds(g, key) <=> key = k \/ Finds(graph, key)
    BY <1>1, <2>1, AddEdgeTakes
  <2>3. /\ IF over_limit(g) THEN BeginCompact(g, found)
           ELSE graph' = g /\ told' = found /\ UNCHANGED <<gphase, gplan>>
        /\ gfiles' = gfiles
    BY <1>3 DEF AddEdge
  <2> HIDE DEF g
  <2>4. found = EdgesOf(g)
    BY <1>1, <2>1, <2>2, EdgesAre
  <2> HIDE DEF found
  <2>5. CASE over_limit(g)
    BY <1>1, <2>2, <2>3, <2>4, <2>5, BeginCompactKeeps
  <2>6. CASE ~over_limit(g)
    BY <1>1, <2>2, <2>3, <2>4, <2>6, Becomes
  <2> QED
    BY <2>5, <2>6
<1>4. ASSUME NEW k \in GraphEdges, DeleteEdge(k[1], k[2], k[3]) PROVE GraphInv'
  <2> DEFINE g == delete_edge(graph, k[2], k[3], k[1])
  <2>1. k \in Keys /\ k = <<k[1], k[2], k[3]>> /\ k[1] \in Nat /\ k[2] \in Nat /\ k[3] \in Nat
    BY EdgesAre
  <2>2. /\ Shape(g) /\ Agree(g)
        /\ \A key \in Keys : Finds(g, key) <=> key # k /\ Finds(graph, key)
    BY <1>1, <2>1, DeleteEdgeTakes
  <2>3. graph' = g /\ told' = told \ {<<k[1], k[2], k[3]>>} /\ gfiles' = gfiles /\ gplan' = gplan
    BY <1>4 DEF DeleteEdge
  <2> HIDE DEF g
  <2>4. told' = EdgesOf(g)
    BY <1>1, <2>1, <2>2, <2>3, EdgesAre
  <2> QED
    BY <1>1, <2>2, <2>3, <2>4, Becomes
<1>5. ASSUME NEW on \in BOOLEAN, SetReadonly(on) PROVE GraphInv'
  <2>1. graph' = set_readonly(graph, on) /\ gfiles' = gfiles /\ gplan' = gplan /\ told' = told
    BY <1>5 DEF SetReadonly
  <2>2. told' = EdgesOf(set_readonly(graph, on))
    BY <1>1, <2>1, ReadonlyKeeps, SameEdges
  <2>3. Shape(set_readonly(graph, on)) /\ Agree(set_readonly(graph, on))
    BY <1>1, ReadonlyKeeps
  <2> QED
    BY <1>1, <2>1, <2>2, <2>3, Becomes
<1>6. CASE Save
  <2>1. graph' = graph /\ gfiles' = gfiles /\ told' = told /\ gplan' = save(graph)
    BY <1>6 DEF Save
  <2> QED
    BY <1>1, <2>1, SaveWritten, Becomes
<1>7. CASE CompactGraph
  <2>1. BeginCompact(graph, told) /\ gfiles' = gfiles
    BY <1>7 DEF CompactGraph
  <2> QED
    BY <1>1, <2>1, BeginCompactKeeps
<1>8. ASSUME gplan # << >> PROVE gplan[1] \in Writes
  BY <1>1, <1>8
<1>9. CASE GraphWrite
  <2>1. gplan # << >> /\ gfiles' = Done(gfiles, gplan[1]) /\ Advance
    BY <1>9 DEF GraphWrite
  <2>2. DiskOK(gfiles')
    BY <1>1, <1>8, <2>1, OutcomesOK DEF Outcomes
  <2> QED
    BY <2>1, <2>2, AdvanceKeeps
<1>10. CASE WriteFails
  <2>1. CASE gplan[1].op = "del"
    <3>1. gplan # << >> /\ Advance /\ gfiles' = gfiles
      BY <1>10, <2>1 DEF WriteFails
    <3>2. DiskOK(gfiles')
      BY <1>1, <3>1
    <3> QED
      BY <3>1, <3>2, AdvanceKeeps
  <2>2. CASE gplan[1].op # "del"
    <3>1. /\ gplan # << >> /\ gfiles' \in Outcomes(gfiles, gplan[1])
          /\ gplan' = << >> /\ graph' = graph /\ told' = told
      BY <1>10, <2>2 DEF WriteFails
    <3>2. DiskOK(gfiles')
      BY <1>1, <1>8, <3>1, OutcomesOK
    <3>3. gplan' \in Seq(Writes)
      BY <3>1
    <3> QED
      BY <1>1, <3>1, <3>2, <3>3, Becomes
  <2> QED
    BY <2>1, <2>2
<1>11. CASE GraphCrash
  <2>1. /\ gfiles' \in IF gplan = <<>> THEN {gfiles} ELSE Outcomes(gfiles, gplan[1])
        /\ gplan' = << >> /\ graph' = graph /\ told' = told
    BY <1>11 DEF GraphCrash
  <2>2. DiskOK(gfiles')
    <3>1. CASE gplan = << >>
      BY <1>1, <2>1, <3>1
    <3>2. CASE gplan # << >>
      BY <1>1, <1>8, <2>1, <3>2, OutcomesOK
    <3> QED
      BY <3>1, <3>2
  <2>3. gplan' \in Seq(Writes)
    BY <2>1
  <2> QED
    BY <1>1, <2>1, <2>2, <2>3, Becomes
<1>12. CASE GraphClose
  <2>1. gplan' = gplan /\ graph' = graph /\ told' = told /\ gfiles' = gfiles
    BY <1>12 DEF GraphClose
  <2> QED
    BY <1>1, <2>1, Becomes
<1>13. CASE GraphReopen
  <2> DEFINE l == open_or_create(gfiles, 0)
  <2>1. /\ IF l.ok THEN graph' = l.g /\ gphase' = "idle" /\ told' = EdgesOf(l.g)
           ELSE gphase' = "refused" /\ UNCHANGED <<graph, told>>
        /\ gfiles' = gfiles /\ gplan' = gplan
    BY <1>13 DEF GraphReopen
  <2>2. CASE l.ok
    <3>1. Shape(l.g) /\ Agree(l.g)
      BY <1>1, <2>2, OpenKeeps
    <3> HIDE DEF l
    <3> QED
      BY <1>1, <2>1, <2>2, <3>1, Becomes
  <2>3. CASE ~l.ok
    <3> HIDE DEF l
    <3> QED
      BY <1>1, <2>1, <2>3, Becomes
  <2> QED
    BY <2>2, <2>3
<1>14. CASE UNCHANGED gvars
  <2>1. gplan' = gplan /\ graph' = graph /\ told' = told /\ gfiles' = gfiles
    BY <1>14 DEF gvars
  <2> QED
    BY <1>1, <2>1, Becomes
<1> QED
  BY <1>2, <1>3, <1>4, <1>5, <1>6, <1>7, <1>9, <1>10, <1>11, <1>12, <1>13, <1>14 DEF GraphNext

-----------------------------------------------------------------------------
(* The theorems.                                                           *)

\* The invariant says what is to be shown.
LEMMA GraphInv_Found ==
  ASSUME GraphAssumption, GraphInv
  PROVE  EdgesFound
<1>1. EdgesOf(graph) = told
  BY DEF GraphInv
<1>2. ASSUME NEW k \in GraphEdges
      PROVE  has_edge(graph, k[2], k[3], k[1]) <=> k[2] \in {r.src : r \in in_neighbors(graph, k[3], k[1])}
  <2>1. k \in Keys /\ k = <<k[1], k[2], k[3]>>
    BY EdgesAre
  <2>2. has_edge(graph, k[2], k[3], k[1]) <=> Indexed(graph.rev, k)
    BY <2>1 DEF GraphInv, Agree, Finds
  <2>3. Indexed(graph.rev, k) <=> \E r \in graph.rev : r.type = k[1] /\ r.src = k[2] /\ r.dst = k[3]
    <3>1. \A r : EntryKey(r) = k <=> r.type = k[1] /\ r.src = k[2] /\ r.dst = k[3]
      BY <2>1 DEF EntryKey
    <3> QED
      BY <3>1 DEF Indexed
  <2>4. k[2] \in {r.src : r \in in_neighbors(graph, k[3], k[1])}
           <=> \E r \in graph.rev : r.type = k[1] /\ r.src = k[2] /\ r.dst = k[3]
    BY DEF in_neighbors
  <2> QED
    BY <2>2, <2>3, <2>4
<1> QED
  BY <1>1, <1>2 DEF EdgesFound

\* Whatever is added, deleted, saved, compacted and loaded, and wherever a write
\* fails or the process dies, the files and the writes to come are those of a store
\* and both ways to look up an edge agree with what was told.
THEOREM GraphKept ==
  ASSUME GraphAssumption
  PROVE  GraphSpec => []GraphInv
<1>1. GraphInit => GraphInv
  BY GraphInit_Inv
<1>2. GraphInv /\ [GraphNext]_gvars => GraphInv'
  BY GraphStepKeeps
<1> QED
  BY <1>1, <1>2, PTL DEF GraphSpec

\* An edge is found by has_edge exactly when the reverse index lists its source,
\* and the edges found are those told: a compaction brings none back and makes none
\* up (has_edge, in_neighbors, compact, load of src/graph/store.rs).
THEOREM EdgesAlwaysFound ==
  ASSUME GraphAssumption
  PROVE  GraphSpec => []EdgesFound
<1>1. GraphInv => EdgesFound
  BY GraphInv_Found
<1> QED
  BY <1>1, GraphKept, PTL
=============================================================================
