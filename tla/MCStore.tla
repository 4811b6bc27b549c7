------------------------------- MODULE MCStore -------------------------------
(***************************************************************************)
(* The graph store, the content-addressed store, and the base that is      *)
(* built over them, each under a workload of its own: the base sees the    *)
(* other two through the writes they make and what they read back, so each *)
(* behaviour exercises one in detail.                                      *)
(***************************************************************************)
EXTENDS CasStore, BaseStore, GraphStore

CONSTANT Workloads

VARIABLE workload

B == INSTANCE BitPack WITH PackWord <- 8, PackBlock <- 4
T == INSTANCE SegmentTools

MCGraphEdges == {<<1, 0, 1>>, <<1, 0, 2>>, <<1, 1, 2>>}
ASSUME GraphNumbers == GraphAssumption

-----------------------------------------------------------------------------
(* Bases to start from.                                                     *)

T1 == <<1>>
T2 == <<1, 23>>
T3 == <<2>>
Plain(v, terms) == AtomBody({TripleClaim(1, 1, v)}, terms)
MCStoreAtoms == {Plain(1, {T2}), Plain(2, {T1, T3})}
MCPairs == {<<1, 2>>, <<1, 3>>}
MCNames == {T3}
MCEntityTypes == {<<3>>}
Entity(name) == AndThen("create_entity", <<name, <<3>> >>)
Contract(id, key, card, dir, inv) == [id |-> id, key |-> <<key>>, name |-> <<key + 1>>, card |-> card, dir |-> dir, inv |-> inv]
Lives == Contract(9, 5, "ManyToOne", "Directed", None)
MCContracts == {Lives, Contract(10, 7, "OneToMany", "Directed", <<5>>),
                Contract(11, 7, "OneToOne", "Symmetric", None)}

WithAtom == AndThen("ingest", Plain(1, {T2})) \o AndThen("register_source", 0) \o AndThen("create_context", 0)
WithEntities == Entity(T1) \o Entity(T2) \o Entity(T3)
                \o AndThen("register_predicate", Lives)
WithRelation == WithEntities \o AndThen("assert_relation", <<1, 9, 2>>) \o AndThen("register_source", 0)
Earlier == WithEntities \o AndThen("unprojected", <<1, 9, 2>>) \o AndThen("add_entity_claim", <<1, 9, 2>>)
           \o AndThen("assert_relation", <<3, 9, 2>>) \o AndThen("tombstone", 2)
MCSetups ==
    {[kind |-> "atoms", calls |-> WithAtom], [kind |-> "entities", calls |-> WithEntities],
     [kind |-> "relations", calls |-> WithRelation], [kind |-> "legacy", calls |-> Earlier]}

\* A base that is not exercised.
BaseAbsent ==
    /\ base = NoBase /\ kind = "none" /\ bphase = "down" /\ program = <<>>
    /\ promise = Promise("idle") /\ acks = Acks(NoBase) /\ bops = 0 /\ bfaults = 0

-----------------------------------------------------------------------------
vars == <<workload, gvars, cvars, bvars>>

Init ==
    /\ workload \in Workloads
    /\ GraphInit /\ CasInit
    /\ IF workload = "base" THEN BaseInit ELSE BaseAbsent

GraphStep == workload = "graph" /\ GraphNext /\ UNCHANGED <<workload, cvars, bvars>>
CasStep == workload = "cas" /\ CasNext /\ UNCHANGED <<workload, gvars, bvars>>
BaseStep == workload = "base" /\ BaseNext /\ UNCHANGED <<workload, gvars, cvars>>

\* A component that could not be opened again.
Ended ==
    /\ gphase = "refused" \/ cphase = "refused" \/ bphase = "refused"
    /\ UNCHANGED vars

Next == GraphStep \/ CasStep \/ BaseStep \/ Ended
Spec == Init /\ [][Next]_vars

-----------------------------------------------------------------------------
(* Codecs, over every input of a small size.                                *)

\* Packed integers are unpacked as they were (BitPackBlock of src/graph/store.rs).
ASSUME PackedRoundTrip ==
    \A bits \in 1..6, pack \in 0..2, low \in {0, 5}:
        \A n \in 0..3: \A vs \in [1..n -> {0, 1, 2 ^ bits - 1}]: B!RoundTrip(bits, pack, low, vs)

\* The location index answers for exactly the atoms it was built from.
ASSUME LocateIsExact ==
    \A ids \in {s \in SUBSET (0..15): Cardinality(s) <= 3}: \A bits \in {1, 2}: LocateExact(ids, bits)

\* A lexicon and postings are read as they were written.
MCTerms == {<<1>>, <<1, 2>>, <<1, 2, 3>>, <<2>>, <<2, 1>>}
ASSUME LexiconRoundTrip ==
    \A n \in 0..4: \A l \in [1..n -> MCTerms]: LexRoundTrip(FoldLeft(lex_add, <<>>, l))
ASSUME PostingsRoundTrip ==
    \A a, b \in SUBSET {0, 1, 5, 40} \ {{}}: PostRoundTrip([t \in {0, 2} |-> IF t = 0 THEN a ELSE b])

\* The whole-segment tools of src/cas/io.rs, over every run of up to three
\* records: intact or damaged, live or deleted, cut off by a crash, within a
\* line of the alignment or over it, and over the estimate of a read.
Ids == {<<1, 1>>, <<1, 2>>, <<2, 1>>}
Rec(id, len, dead, harm) == [id |-> id, len |-> len, dead |-> dead, harm |-> harm]
MCRecords == {Rec(id, len, FALSE, harm) : id \in {<<1, 1>>}, len \in {0, 17, 48}, harm \in {"none", "header", "body"}}
ASSUME IterationSound ==
    \A n \in 0..3: \A rs \in [1..n -> MCRecords]:
        \A lost \in {0, 13, 16, 70} \intersect 0..T!SegmentOf(rs).size: T!IteratorSound(rs, lost)
ASSUME GlobalIteration ==
    \A runs \in [1..3 -> {<<>>, <<Rec(<<1, 1>>, 17, FALSE, "none")>>}]: T!GlobalSound(runs)
ASSUME BatchReads ==
    \A lens \in [1..3 -> {16, 1024, 1025}], harm \in {"none", "header", "body"}, gap \in {0, 96, 1104}:
        LET rs == [k \in 1..3 |-> Rec(<<k, 1>>, lens[k], FALSE, IF k = 2 THEN harm ELSE "none")]
        IN  \A n \in 0..3: \A os \in [1..n -> DOMAIN T!SegmentOf(rs).at]: T!BatchExact(rs, os, gap)
ASSUME SegmentIndexLookups ==
    \A n \in 0..3: \A ids \in [1..n -> Ids]:
        T!SegmentIndexExact([k \in 1..n |-> T!SegmentIndexEntry(ids[k], 96 * k, 16, k)], Ids)
MCRuns ==
    LET whole == {Rec(id, len, dead, "none") : id \in {<<1, 1>>, <<1, 2>>}, len \in {0, 17}, dead \in BOOLEAN}
    IN  UNION {[1..n -> whole \union {Rec(<<1, 1>>, 17, FALSE, "body")}] : n \in 0..2}
ASSUME CompactionSound ==
    \A a, b \in MCRuns, before \in {<<>>, <<Rec(<<2, 1>>, 1, FALSE, "none")>>}, room \in {80, 200, 1000}:
        Len(a \o b) <= 3 => T!CompactSound(<<a, b>>, before, room)

\* Walks, provenance and semantic search (StoreReads), over every graph of three
\* nodes and every memory of three atoms with a deletion and sources.
MCGraph(es) == FoldLeft(LAMBDA g, e: G!add_edge(g, e[1], e[2], e[3], 1), G!with_path(3), SetToSeq(es))
ASSUME WalksSound ==
    \A es \in {x \in SUBSET ((0..2) \X (0..2) \X {1, 2}): Cardinality(x) <= 3}, depth \in 0..3:
        WalkSound(MCGraph(es), <<0>>, <<1, 2>>, depth)

MCMemory(trusts, linked) ==
    LET three == FoldLeft(LAMBDA m, v: Stored(m, Plain(v, {T1}), <<>>, {}), EmptyMemory, <<1, 2, 3>>)
        rated == [three EXCEPT !.sources = {1, 2},
                               !.meta = [a \in DOMAIN @ |-> [@[a] EXCEPT !.trust = trusts[three.loc.node[a] + 1]]]]
    IN  FoldSet(LAMBDA n, m: Attached(m, SourceLink(m.at[n], n + 1)), rated, linked)
ASSUME ProvenanceIsSound ==
    \A trusts \in [1..3 -> {0, 7, 10000}], linked \in SUBSET (0..2), short \in BOOLEAN:
        \A evidence \in {<<>>, <<32768>>, <<65535, 20>>}, sources \in {<<>>, <<1>>, <<2, 1>>, <<9, 1>>}:
            LET m == MCMemory(trusts, linked)
            IN  ProvenanceSound(m, m.at[0], [evidence |-> evidence, derived_from |-> sources, trust |-> 5000], short)
ASSUME SemanticIsSound ==
    \A of \in [0..2 -> {<<1>>, <<2>>}], gone \in SUBSET (0..2):
        LET m == MCMemory(<<7, 0, 10000>>, {})
            full == [m EXCEPT !.emb = [dim |-> 1, of |-> of],
                              !.loc = FoldSet(LAMBDA n, l: mark_deleted(l, m.at[n]), @, gone)]
        IN  \A filters \in {<<>>} \union {<<[min_trust |-> t, domain_mask |-> ds]>> : t \in {0, 7}, ds \in {{}, {15, 16}, {16}}}:
                SemanticSound([m |-> full, d |-> NoDisk], [v \in Range(of) |-> v[1]], filters)
=============================================================================
