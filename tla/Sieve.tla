-------------------------------- MODULE Sieve --------------------------------
(***************************************************************************)
(* What a loop that filters a vector keeps: Vec::retain and a loop that    *)
(* pushes the elements that pass, by what they are or by where they are.   *)
(***************************************************************************)
EXTENDS Naturals, Sequences, SequencesExt

\* The elements of seq that are in T, in their order.
Keep(seq, T) ==
    FoldLeft(LAMBDA kept, x : IF x \in T THEN Append(kept, x) ELSE kept, <<>>, seq)

\* The numbers up to n that are in S, and the elements of seq at the places in S.
Ascending(n, S) == Keep([i \in 1..n |-> i], S)
Picks(seq, S) == LET at == Ascending(Len(seq), S) IN [k \in DOMAIN at |-> seq[at[k]]]
=============================================================================
