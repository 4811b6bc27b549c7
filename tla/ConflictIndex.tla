---------------------------- MODULE ConflictIndex ----------------------------
(***************************************************************************)
(* Claims and the index of claims that a context holds, as the invariant   *)
(* machine (src/vm/interpreter.rs), the context manager and the solver     *)
(* share it.  A claim is [subj, pred, tag, val, qual].  Machine words have *)
(* WordBits bits (64 in the code).                                         *)
(***************************************************************************)
EXTENDS Integers, Sequences, FiniteSets, SequencesExt, FiniteSetsExt, Ordering

CONSTANTS
    WordBits,
    None        \* Option::None

ASSUME WordAssumption == WordBits \in Nat \ {0, 1} /\ WordBits % 2 = 0

Words == 2 ^ WordBits
MaxWord == Words - 1
HalfWord == 2 ^ (WordBits \div 2)

\* A word is the sum of its bits; the bitwise operators by what they do to them.
Bits(w) == {b \in 0..(WordBits - 1): (w \div 2 ^ b) % 2 = 1}
WordOf(bits) == MapThenSumSet(LAMBDA b: 2 ^ b, bits)
And(a, b) == WordOf(Bits(a) \intersect Bits(b))
Or(a, b) == WordOf(Bits(a) \union Bits(b))
Xor(a, b) == WordOf((Bits(a) \ Bits(b)) \union (Bits(b) \ Bits(a)))

-----------------------------------------------------------------------------
(* The conflict index: buckets by pattern, each with the atoms and claim    *)
(* signatures that use it and a severity.                                   *)

\* subject XOR (predicate shifted by half a word)
claim_pattern_hash(c) == Xor(c.subj, (c.pred * HalfWord) % Words)

\* The signature hash is taken as collision free.
claim_signature(c) == <<c.subj, c.pred, c.tag, c.val, c.qual>>

insert_conflict(index, pattern, sig, atom, severity) ==
    LET old == {e \in index: e.pattern = pattern}
        entry == IF old = {} THEN [pattern |-> pattern, atoms |-> {}, sigs |-> {},
                                   severity |-> severity]
                 ELSE CHOOSE e \in old: TRUE
    IN  (index \ old) \union
        {[entry EXCEPT !.atoms = @ \union {atom},
                       !.sigs = @ \union sig,
                       !.severity = IF severity = "Hard" THEN "Hard" ELSE @]}

add_conflict(index, pattern, atom, severity) ==
    insert_conflict(index, pattern, {}, atom, severity)

add_claim_index(index, claim, atom, severity) ==
    insert_conflict(index, claim_pattern_hash(claim), {claim_signature(claim)},
                    atom, severity)

\* A bucket conflicts with a claim unless it holds that very claim.
probe_conflict(index, claim) ==
    {e \in index: /\ e.pattern = claim_pattern_hash(claim)
                  /\ claim_signature(claim) \notin e.sigs}

has_conflict(index, pattern) == \E e \in index: e.pattern = pattern
conflict_severity(index, pattern) == (CHOOSE e \in index: e.pattern = pattern).severity
total_conflicts(index) == MapThenSumSet(LAMBDA e: Cardinality(e.atoms), index)
=============================================================================
