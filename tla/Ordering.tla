------------------------------- MODULE Ordering -------------------------------
(***************************************************************************)
(* The elements of a set as a vector: as a hash set hands them out, and    *)
(* sorted.                                                                 *)
(***************************************************************************)
EXTENDS Sequences, SequencesExt, FiniteSetsExt, TLC

\* The elements of S one after the other, in an order that nobody chose.
Listed(S) == FoldSet(LAMBDA x, seq: Append(seq, x), <<>>, S)

\* The elements of S as sort_by leaves them, for a strict order before.
Ordered(S, before(_, _)) == SortSeq(Listed(S), before)
=============================================================================
