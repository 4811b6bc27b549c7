------------------------------- MODULE BitPack -------------------------------
(***************************************************************************)
(* Bit-packed blocks of the graph's targets (BitPackBlock of               *)
(* src/graph/store.rs): values of a fixed number of bits laid over words,  *)
(* across word boundaries, read raw, as differences or as zigzag           *)
(* differences.  Bits that were never written are zero, so the code's or   *)
(* is an addition.                                                         *)
(***************************************************************************)
EXTENDS Integers, Sequences, SequencesExt

CONSTANTS PackWord,    \* bits of a word (64)
          PackBlock    \* elements of a block (128)

RAW == 0
DELTA == 1
ZIGZAG_DELTA == 2

CeilDiv(a, b) == (a + b - 1) \div b
words_needed(bits, count) == CeilDiv(count * bits, PackWord)
with_capacity(bits, kind) ==
    [base |-> 0, bits |-> bits, kind |-> kind, count |-> 0,
     payload |-> [w \in 1..words_needed(bits, PackBlock) |-> 0]]

pack(b, value) ==
    LET masked == value % 2^b.bits
        word == (b.count * b.bits) \div PackWord + 1
        off == (b.count * b.bits) % PackWord
        split == PackWord - off
        low == (masked % 2^split) * 2^off
    IN  [b EXCEPT !.count = @ + 1,
                  !.payload = [w \in DOMAIN @ |->
                      IF w = word THEN @[w] + low
                      ELSE IF w = word + 1 /\ off + b.bits > PackWord THEN @[w] + masked \div 2^split
                      ELSE @[w]]]

unpack(b, idx) ==
    LET word == (idx * b.bits) \div PackWord + 1
        off == (idx * b.bits) % PackWord
        above == IF off + b.bits <= PackWord THEN 0 ELSE b.payload[word + 1] * 2^(PackWord - off)
    IN  (b.payload[word] \div 2^off + above) % 2^b.bits

zigzag(raw) == IF raw % 2 = 0 THEN raw \div 2 ELSE -(raw \div 2) - 1

\* Element idx; sums wrap at the word.
get(b, idx) ==
    LET sum(Step(_)) == FoldLeft(LAMBDA acc, i: (acc + Step(unpack(b, i - 1))) % 2^PackWord,
                                 b.base, [i \in 1..idx + 1 |-> i])
    IN  IF b.kind = DELTA THEN sum(LAMBDA d: d)
        ELSE IF b.kind = ZIGZAG_DELTA THEN sum(zigzag)
        ELSE unpack(b, idx)

\* A header of four numbers, and the words.
to_bytes(b) == <<b.base, b.bits, b.kind, b.count>> \o b.payload
from_bytes(s) ==
    IF Len(s) < 4 \/ s[2] > PackWord \/ Len(s) < 4 + words_needed(s[2], s[4]) THEN <<>>
    ELSE << [base |-> s[1], bits |-> s[2], kind |-> s[3], count |-> s[4],
             payload |-> SubSeq(s, 5, 4 + words_needed(s[2], s[4]))] >>

clear(b) == [b EXCEPT !.base = 0, !.count = 0, !.payload = [w \in DOMAIN @ |-> 0]]

PackAll(bits, kind, base, vs) ==
    [FoldLeft(pack, with_capacity(bits, kind), vs) EXCEPT !.base = base]

\* Reference: what a block of these values decodes to, element by element.
Prefix(vs, base, Step(_)) ==
    [i \in DOMAIN vs |-> FoldLeft(LAMBDA acc, v: acc + Step(v), base, SubSeq(vs, 1, i)) % 2^PackWord]
Decoded(kind, base, vs) ==
    IF kind = RAW THEN vs
    ELSE IF kind = DELTA THEN Prefix(vs, base, LAMBDA d: d)
    ELSE Prefix(vs, base, LAMBDA d: IF d % 2 = 0 THEN d \div 2 ELSE -((d + 1) \div 2))

\* A block gives back what was packed, also after it was written and read, and
\* a block cut short is refused (BitPackBlock::pack, get, to_bytes, from_bytes).
RoundTrip(bits, kind, base, vs) ==
    LET b == PackAll(bits, kind, base, vs)
        s == to_bytes(b)
        again == from_bytes(s)[1]
    IN  /\ [i \in DOMAIN vs |-> get(b, i - 1)] = Decoded(kind, base, vs)
        /\ [i \in DOMAIN vs |-> get(again, i - 1)] = Decoded(kind, base, vs)
        /\ \A k \in 0..3 + words_needed(bits, Len(vs)): from_bytes(SubSeq(s, 1, k)) = <<>>
=============================================================================
