-------------------------------- MODULE Indexes --------------------------------
(***************************************************************************)
(* The indexes of a base (src/index/mod.rs, src/query/ann/index.rs): from  *)
(* an atom to its place (idloc), from a term to the nodes that use it      *)
(* (lexicon and postings), and the embeddings.  An atom is a number below  *)
(* 2^FpBits that stands for its fingerprint; a term is a sequence of bytes. *)
(***************************************************************************)
EXTENDS CasFiles

CONSTANTS
    FpBits,      \* bits of a fingerprint (64 in the code)
    BlockSize,   \* terms per front-coded block (DEFAULT_BLOCK_SIZE)
    VarintBase   \* values a varint byte carries (128)

-----------------------------------------------------------------------------
(* The location index.                                                      *)

IdLocEntry(id, node) == [fp64 |-> id, node |-> node, deleted |-> FALSE]
NoFilter == [bits |-> {}, num |-> 0]

get_shard(fp64, shard_bits) == fp64 \div 2 ^ (FpBits - shard_bits)

\* IdLocBuilder: entries by fingerprint, cut into shards, a filter for each
\* shard that has entries.
IdLocBuild(entries, shard_bits) ==
    LET sorted == SortByFp(entries)
        shards == [k \in 1..2 ^ shard_bits |->
                     SelectSeq(sorted, LAMBDA e: get_shard(e.fp64, shard_bits) = k - 1)]
        before(k) == FoldFunctionOnSet(+, 0, [j \in DOMAIN shards |-> Len(shards[j])], 1..k - 1)
    IN  [shard_bits |-> shard_bits,
         shards |-> [k \in DOMAIN shards |-> [off |-> before(k), count |-> Len(shards[k])]],
         filters |-> [k \in DOMAIN shards |->
                        IF shards[k] = <<>> THEN NoFilter
                        ELSE FoldLeft(LAMBDA b, e: bloom_insert(b, e.fp64),
                                      BloomNew(Len(shards[k])), shards[k])],
         entries |-> FlattenSeq(shards)]

\* The position of the target among count entries that start after off, or 0.
binary_search_shard(ix, shard, target) ==
    LET at(k) == ix.entries[shard.off + k + 1].fp64
        probe[r \in (0..shard.count) \X (0..shard.count)] ==
            LET mid == r[1] + (r[2] - r[1]) \div 2
            IN  IF r[1] >= r[2] THEN 0
                ELSE IF at(mid) = target THEN shard.off + mid + 1
                ELSE IF at(mid) < target THEN probe[<<mid + 1, r[2]>>]
                ELSE probe[<<r[1], mid>>]
    IN  probe[<<0, shard.count>>]

\* locate: the shard's filter may answer, else the search; <<>> for None.
locate(ix, id) ==
    LET k == get_shard(id, ix.shard_bits) + 1
        filtered == ix.filters[k].num # 0 /\ ~might_contain(ix.filters[k], id)
        pos == binary_search_shard(ix, ix.shards[k], id)
    IN  IF filtered \/ pos = 0 THEN <<>>
        ELSE IF ix.entries[pos].deleted THEN <<>> ELSE <<ix.entries[pos]>>

\* The index answers for exactly the atoms it was built from.
LocateExact(ids, shard_bits) ==
    LET ix == IdLocBuild(Listed({IdLocEntry(i, i) : i \in ids}), shard_bits)
    IN  \A i \in 0..2 ^ FpBits - 1: locate(ix, i) = IF i \in ids THEN <<IdLocEntry(i, i)>> ELSE <<>>

-----------------------------------------------------------------------------
(* The lexicon: a term's id is its position.                                *)

term_id(lex, t) == (CHOOSE k \in DOMAIN lex: lex[k] = t) - 1
HasTerm(lex, t) == t \in Range(lex)
lex_add(lex, t) == IF HasTerm(lex, t) THEN lex ELSE Append(lex, t)

RECURSIVE TermLess(_, _)
TermLess(s, t) ==
    /\ t # <<>>
    /\ \/ s = <<>> \/ Head(s) < Head(t)
       \/ Head(s) = Head(t) /\ TermLess(Tail(s), Tail(t))
SortTerms(lex) == Ordered(Range(lex), TermLess)

CommonPrefix(s, t) == Max({n \in 0..Min({Len(s), Len(t)}): SubSeq(s, 1, n) = SubSeq(t, 1, n)})

\* Lexicon::write_to_file: sorted, in blocks, each term as what it shares with
\* the first of its block and the rest.
LexBlock(terms) ==
    [anchor |-> terms[1],
     rest |-> [k \in 1..Len(terms) - 1 |->
                 LET n == CommonPrefix(terms[1], terms[k + 1])
                 IN  [prefix |-> n, suffix |-> SubSeq(terms[k + 1], n + 1, Len(terms[k + 1]))]]]
lex_write(lex) ==
    LET sorted == SortTerms(lex)
        blocks == (Len(sorted) + BlockSize - 1) \div BlockSize
    IN  File([blocks |-> blocks],
             [b \in 1..blocks |->
                LexBlock(SubSeq(sorted, (b - 1) * BlockSize + 1, Min({b * BlockSize, Len(sorted)})))])

LexReads(file) == file.head # <<>> /\ Len(file.items) >= file.head[1].blocks
\* Lexicon::read_from_file: ids in file order.
lex_read(file) ==
    LET terms(b) == <<b.anchor>> \o
                    [k \in DOMAIN b.rest |-> SubSeq(b.anchor, 1, b.rest[k].prefix) \o b.rest[k].suffix]
    IN  FoldLeft(LAMBDA lex, b: FoldLeft(lex_add, lex, terms(b)), <<>>, file.items)

\* What is read back is what was written, in sorted order.
LexRoundTrip(lex) == LexReads(lex_write(lex)) /\ lex_read(lex_write(lex)) = SortTerms(lex)

-----------------------------------------------------------------------------
(* The postings: for each term id the nodes, ascending.                     *)

NoPostings == [t \in {} |-> {}]
post_add(post, id, node) ==
    [t \in DOMAIN post \union {id} |->
        (IF t \in DOMAIN post THEN post[t] ELSE {}) \union (IF t = id THEN {node} ELSE {})]

\* Bytes at or above VarintBase say that more follow.
RECURSIVE encode_varint(_)
encode_varint(n) ==
    IF n < VarintBase THEN <<n>>
    ELSE <<VarintBase + (n % VarintBase)>> \o encode_varint(n \div VarintBase)
\* <<value, bytes consumed>>
RECURSIVE decode_varint(_)
decode_varint(bytes) ==
    IF Head(bytes) < VarintBase THEN <<Head(bytes), 1>>
    ELSE LET more == decode_varint(Tail(bytes))
         IN  <<Head(bytes) - VarintBase + VarintBase * more[1], more[2] + 1>>

encode_deltas(nodes) ==
    LET s == Ordered(nodes, <)
    IN  [count |-> Len(s),
         bytes |-> FlattenSeq([k \in DOMAIN s |-> encode_varint(s[k] - (IF k = 1 THEN 0 ELSE s[k - 1]))])]
RECURSIVE DecodeFrom(_, _, _)
DecodeFrom(bytes, count, prev) ==
    IF count = 0 THEN {}
    ELSE LET d == decode_varint(bytes)
         IN  {prev + d[1]} \union DecodeFrom(SubSeq(bytes, d[2] + 1, Len(bytes)), count - 1, prev + d[1])
decode_deltas(data) == DecodeFrom(data.bytes, data.count, 0)

post_write(post) ==
    LET ids == Ordered(DOMAIN post, <)
    IN  File([count |-> Len(ids)], [k \in DOMAIN ids |-> [id |-> ids[k], data |-> encode_deltas(post[ids[k]])]])
PostReads(file) == file.head # <<>> /\ Len(file.items) >= file.head[1].count
post_read(file) ==
    FoldLeft(LAMBDA post, e: FoldSet(LAMBDA n, p: post_add(p, e.id, n), post, decode_deltas(e.data)),
             NoPostings, file.items)

PostRoundTrip(post) == PostReads(post_write(post)) /\ post_read(post_write(post)) = post

-----------------------------------------------------------------------------
(* The inverted index: lexicon and postings together.                       *)

NoTerms == [lex |-> <<>>, post |-> NoPostings]
index_term(ix, t, node) ==
    LET lex == lex_add(ix.lex, t)
    IN  [lex |-> lex, post |-> post_add(ix.post, term_id(lex, t), node)]
\* search; {} for None.
TermNodes(ix, t) ==
    IF HasTerm(ix.lex, t) /\ term_id(ix.lex, t) \in DOMAIN ix.post
    THEN ix.post[term_id(ix.lex, t)] ELSE {}

LexFile == Name("terms.lex", 0)
PostFile == Name("terms.post", 0)
\* save: both in place, the lexicon first, the postings under the ids in memory.
TermWrites(ix) == <<Put(LexFile, lex_write(ix.lex)), Put(PostFile, post_write(ix.post))>>
TermsRead(disk) ==
    /\ Has(disk, LexFile) => LexReads(disk[LexFile])
    /\ Has(disk, PostFile) => PostReads(disk[PostFile])
TermsLoad(disk) ==
    [lex |-> IF Has(disk, LexFile) THEN lex_read(disk[LexFile]) ELSE <<>>,
     post |-> IF Has(disk, PostFile) THEN post_read(disk[PostFile]) ELSE NoPostings]

-----------------------------------------------------------------------------
(* Embeddings: [dim, of], dim 0 while unset; a vector is a sequence.        *)

NoEmbeddings == [dim |-> 0, of |-> [n \in {} |-> <<>>]]
add_embedding(e, node, vec) ==
    IF vec = <<>> \/ (e.dim # 0 /\ Len(vec) # e.dim) THEN e
    ELSE [dim |-> Len(vec),
          of |-> [n \in DOMAIN e.of \union {node} |-> IF n = node THEN vec ELSE e.of[n]]]

EmbFile == Name("embeddings", 0)
EmbWrites(e) ==
    LET ns == Ordered(DOMAIN e.of, <)
    IN  <<Put(EmbFile, File([dim |-> e.dim, count |-> Len(ns)],
                            [k \in DOMAIN ns |-> [node |-> ns[k], vec |-> e.of[ns[k]]]]))>>
\* Only the header must be whole; the entries that are there are read.
EmbReads(disk) == Has(disk, EmbFile) => disk[EmbFile].head # <<>>
EmbLoad(disk) ==
    IF ~Has(disk, EmbFile) THEN NoEmbeddings
    ELSE FoldLeft(LAMBDA e, r: add_embedding(e, r.node, r.vec), NoEmbeddings, disk[EmbFile].items)
=============================================================================
