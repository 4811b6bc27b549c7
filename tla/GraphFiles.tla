------------------------------ MODULE GraphFiles ------------------------------
(***************************************************************************)
(* The graph store (src/graph/store.rs): one compressed sparse row layer   *)
(* per edge type, delta layers of later additions and deletions, a reverse *)
(* index, and the files that keep them.                                    *)
(***************************************************************************)
EXTENDS StoreFiles, Sieve

CONSTANTS
    MAX_DELTA_LAYERS,   \* layers beyond which an added edge compacts
    MAX_INLINE_DELTAS,  \* deltas that a manifest can name
    DeltaCap            \* entries beyond which an added edge opens a layer

-----------------------------------------------------------------------------
(* Entries and the compressed rows.                                         *)

EdgeListEntry(src, dst, type, conf, from, to, deleted) ==
    [src |-> src, dst |-> dst, type |-> type, conf |-> conf, from |-> from, to |-> to,
     deleted |-> deleted]
tombstone(src, dst, type) == EdgeListEntry(src, dst, type, 0, 0, 0, TRUE)
is_valid_at(e, bucket) == bucket >= e.from /\ (e.to = 0 \/ bucket < e.to)

EntryKey(e) == <<e.type, e.src, e.dst>>
\* Ord for EdgeListEntry, and the stable sort by it.
EntryLess(e, f) ==
    \/ e.type < f.type
    \/ e.type = f.type /\ e.src < f.src
    \/ e.type = f.type /\ e.src = f.src /\ e.dst < f.dst
SortEntries(es) ==
    LET before(i) == Cardinality({j \in DOMAIN es: EntryLess(es[j], es[i])
                                                   \/ (EntryKey(es[j]) = EntryKey(es[i]) /\ j < i)})
    IN  [k \in DOMAIN es |-> es[CHOOSE i \in DOMAIN es: before(i) = k - 1]]

EdgeAttr(e) == [conf |-> e.conf, from |-> e.from, to |-> e.to, deleted |-> e.deleted]

\* CsrLayer::from_edge_list: entry i of the offsets is where node i - 1 starts;
\* the first target of a node is absolute, the others are differences.
from_edge_list(es, nodes) ==
    LET mine == Picks(es, {i \in DOMAIN es: es[i].src < nodes})
        before(n) == Cardinality({k \in DOMAIN mine: mine[k].src < n})
        earlier(k) == {j \in 1..k - 1: mine[j].src = mine[k].src}
    IN  [offsets |-> [i \in 1..nodes + 1 |-> before(i - 1)],
         targets |-> [k \in DOMAIN mine |->
                        mine[k].dst - IF earlier(k) = {} THEN 0 ELSE mine[Max(earlier(k))].dst],
         attrs |-> [k \in DOMAIN mine |-> EdgeAttr(mine[k])],
         nodes |-> nodes]

\* CsrView::new_unchecked refuses a layer whose offsets do not fit its nodes.
HasView(layer) == Len(layer.offsets) = layer.nodes + 1

BytesPerTarget == 8

\* CsrView::neighbor_range_data: the range is one of bytes of the targets, and
\* the attributes are cut with the same two numbers.
neighbor_range_data(layer, src) ==
    LET start == layer.offsets[src + 1] * BytesPerTarget
        end == layer.offsets[src + 2] * BytesPerTarget
        bytes == Len(layer.targets) * BytesPerTarget
    IN  IF src >= layer.nodes THEN [targets |-> <<>>, attrs |-> <<>>]
        ELSE [targets |-> IF start < bytes
                          THEN SubSeq(layer.targets, layer.offsets[src + 1] + 1,
                                      Min({end, bytes}) \div BytesPerTarget)
                          ELSE <<>>,
              attrs |-> IF start < Len(layer.attrs)
                        THEN SubSeq(layer.attrs, start + 1, Min({end, Len(layer.attrs)}))
                        ELSE <<>>]

\* NeighborIter: targets are summed up, and a target without an attribute ends it.
NeighborIter(data) ==
    LET sum[k \in 0..Len(data.targets)] == IF k = 0 THEN 0 ELSE sum[k - 1] + data.targets[k]
    IN  [k \in 1..Min({Len(data.targets), Len(data.attrs)}) |->
            [dst |-> sum[k], attr |-> data.attrs[k]]]

\* What the readers of a base layer see of a node.
Row(layer, src) ==
    IF HasView(layer) THEN NeighborIter(neighbor_range_data(layer, src)) ELSE <<>>
Live(row) == Keep(row, {p \in Range(row): ~p.attr.deleted})
\* The edges that are read back from a layer by the scans over all nodes.
LayerEdges(layer, type, nodes) ==
    FlattenSeq([n \in 1..nodes |->
        LET live == Live(Row(layer, n - 1))
        IN  [k \in DOMAIN live |->
                EdgeListEntry(n - 1, live[k].dst, type, live[k].attr.conf, live[k].attr.from,
                              live[k].attr.to, live[k].attr.deleted)]])

-----------------------------------------------------------------------------
(* The store in memory.                                                     *)

NoLayers == [t \in {} |-> <<>>]
with_path(nodes) ==
    [nodes |-> nodes, types |-> {}, gen |-> 0, compacted |-> TRUE, readonly |-> FALSE,
     base |-> NoLayers, delta |-> <<>>, rev |-> {}, next |-> 1]
DeltaLayer(id, gen, edges) == [id |-> id, gen |-> gen, edges |-> edges]

\* An entry takes the place of what the reverse index held of its edge.
Incoming(e) == [type |-> e.type, src |-> e.src, dst |-> e.dst, conf |-> e.conf]
apply_reverse_entry(rev, e) ==
    {r \in rev: EntryKey(r) # EntryKey(e)} \union IF e.deleted THEN {} ELSE {Incoming(e)}

DeltaEntries(g) == FlattenSeq([k \in DOMAIN g.delta |-> g.delta[k].edges])
BaseEdges(g) ==
    LET types == SetToSeq(DOMAIN g.base)
    IN  FlattenSeq([k \in DOMAIN types |-> LayerEdges(g.base[types[k]], types[k], g.nodes)])
\* Mutant: the deltas are left out.
RebuildFromBase(g) == [g EXCEPT !.rev = {Incoming(e) : e \in Range(BaseEdges(g))}]
\* Those of the base as they are, then the deltas.
rebuild_reverse_index(g) ==
    [g EXCEPT !.rev = FoldLeft(apply_reverse_entry, {Incoming(e) : e \in Range(BaseEdges(g))},
                               DeltaEntries(g))]

add_node(g, n) == [g EXCEPT !.nodes = Max({@, n + 1})]

\* The entry goes to the last layer, or to a new one.
Push(g, e, fresh) ==
    IF fresh
    THEN [g EXCEPT !.delta = Append(@, DeltaLayer(g.next, g.gen, <<e>>)), !.next = @ + 1]
    ELSE [g EXCEPT !.delta[Len(g.delta)].edges = Append(@, e)]

\* add_edge up to its compaction trigger, which over_limit is.
add_edge(g, src, dst, type, conf) ==
    LET e == EdgeListEntry(src, dst, type, conf, 0, 0, FALSE)
        fresh == g.delta = <<>> \/ Len(g.delta[Len(g.delta)].edges) > DeltaCap
    IN  [Push(g, e, fresh) EXCEPT !.nodes = Max({@, src + 1, dst + 1}), !.types = @ \union {type},
                                  !.rev = apply_reverse_entry(@, e)]
over_limit(g) == Len(g.delta) > MAX_DELTA_LAYERS

delete_edge(g, src, dst, type) ==
    LET e == tombstone(src, dst, type)
    IN  [Push(g, e, g.delta = <<>>) EXCEPT !.rev = apply_reverse_entry(@, e)]

set_readonly(g, on) == [g EXCEPT !.readonly = on]

\* The latest entry of the deltas decides, else the base.
has_edge(g, src, dst, type) ==
    LET entries == DeltaEntries(g)
        about == {i \in DOMAIN entries: EntryKey(entries[i]) = <<type, src, dst>>}
    IN  IF about # {} THEN ~entries[Max(about)].deleted
        ELSE /\ type \in DOMAIN g.base
             /\ \E p \in Range(Row(g.base[type], src)): p.dst = dst /\ ~p.attr.deleted

in_neighbors(g, dst, type) == {r \in g.rev: r.dst = dst /\ r.type = type}

\* MergedNeighborIter: every call takes the next live entry of the base and of
\* each delta and answers with the one of the smallest target, the first of equals.
neighbors(g, src, type) ==
    LET now == 0
        base == IF type \in DOMAIN g.base
                THEN SelectSeq(Row(g.base[type], src),
                               LAMBDA p: ~p.attr.deleted /\ is_valid_at(p.attr, now))
                ELSE <<>>
        of(d) == SelectSeq(d.edges, LAMBDA e: e.src = src /\ e.type = type /\ ~e.deleted
                                              /\ is_valid_at(e, now))
        lists == << [k \in DOMAIN base |-> <<base[k].dst, base[k].attr.conf>>] >>
                 \o [i \in DOMAIN g.delta |->
                        LET mine == of(g.delta[i])
                        IN  [k \in DOMAIN mine |-> <<mine[k].dst, mine[k].conf>>]]
        taken(k) == SelectSeq(lists, LAMBDA l: k <= Len(l))
        best(k) == CHOOSE i \in DOMAIN taken(k):
                     \A j \in DOMAIN taken(k):
                        \/ taken(k)[i][k][1] < taken(k)[j][k][1]
                        \/ taken(k)[i][k][1] = taken(k)[j][k][1] /\ i <= j
    IN  [k \in 1..Max({Len(lists[i]) : i \in DOMAIN lists}) |-> taken(k)[best(k)][k]]

\* Breadth first over the merged neighbours, at most depth edges away.
path_exists(g, src, dst, types, depth) ==
    LET step(ns) == {p[1] : p \in UNION {Range(neighbors(g, n, t)) : n \in ns, t \in types}}
        seen[d \in 0..depth] == IF d = 0 THEN {src} ELSE seen[d - 1] \union step(seen[d - 1])
    IN  src = dst \/ dst \in seen[depth]

\* CsrLayer::edge_count over the types, and edge_count of the store.
BaseCount(g) == FoldFunction(+, 0, [t \in DOMAIN g.base |-> Len(g.base[t].attrs)])
edge_count(g) ==
    BaseCount(g) + Len(DeltaEntries(g))

\* More than a fifth of the base, or too many layers.
needs_compaction(g) ==
    over_limit(g) \/ (BaseCount(g) > 0 /\ 5 * Len(DeltaEntries(g)) > BaseCount(g))

-----------------------------------------------------------------------------
(* Compaction.                                                              *)

\* Of the entries of an edge the last stands, unless it is a tombstone.
KeepLatest(es) ==
    LET last(i) == \A j \in DOMAIN es: EntryKey(es[j]) = EntryKey(es[i]) => j <= i
    IN  Picks(es, {i \in DOMAIN es: last(i) /\ ~es[i].deleted})

\* The new base layers: a type whose edges are all gone has none.
CompactedLayers(g) ==
    LET unique == KeepLatest(SortEntries(BaseEdges(g) \o DeltaEntries(g)))
        of(t) == Picks(unique, {i \in DOMAIN unique: unique[i].type = t})
    IN  [t \in {e.type : e \in Range(unique)} |-> from_edge_list(of(t), g.nodes)]

Compacted(g) ==
    LET swapped == [g EXCEPT !.base = CompactedLayers(g), !.delta = <<>>]
    IN  [rebuild_reverse_index(swapped) EXCEPT !.compacted = TRUE, !.gen = @ + 1]

\* GraphBuilder::build: the first of equal edges is kept.
KeepFirst(es) ==
    SelectSeq([i \in DOMAIN es |-> [e |-> es[i], first |-> \A j \in 1..i - 1: EntryKey(es[j]) # EntryKey(es[i])]],
              LAMBDA x: x.first)
build(es, nodes) ==
    LET of(t) == [k \in DOMAIN KeepFirst(SortEntries(SelectSeq(es, LAMBDA e: e.type = t))) |->
                    KeepFirst(SortEntries(SelectSeq(es, LAMBDA e: e.type = t)))[k].e]
        types == {e.type : e \in Range(es)}
    IN  rebuild_reverse_index([with_path(nodes) EXCEPT !.types = types,
            !.base = [t \in types |-> from_edge_list(of(t), nodes)]])

-----------------------------------------------------------------------------
(* Files.                                                                   *)

Manifest == Name("graph.manifest", 0)
DeltaFile(id) == Name("delta", id)

\* save_manifest: the deltas are those in memory.
ManifestOf(g) ==
    File([nodes |-> g.nodes, types |-> g.types, gen |-> g.gen, readonly |-> g.readonly,
          compacted |-> g.delta = <<>>, deltas |-> [k \in DOMAIN g.delta |-> g.delta[k].id]], <<>>)
save_manifest(g) == <<Put(Manifest, ManifestOf(g))>>

\* CsrLayer::write_to_files
write_to_files(layer, type) ==
    <<Put(Name("offsets", type), File("raw", layer.offsets)),
      Put(Name("targets", type), File("raw", layer.targets)),
      Put(Name("attrs", type), File("raw", layer.attrs))>>
WriteLayers(base) ==
    LET types == SetToSeq(DOMAIN base)
    IN  FlattenSeq([k \in DOMAIN types |-> write_to_files(base[types[k]], types[k])])
save_base_layers(g) == WriteLayers(g.base)

\* DeltaLayer::write_to_file: the header has the number of entries.
save_delta_layers(g) ==
    [k \in DOMAIN g.delta |->
        Put(DeltaFile(g.delta[k].id),
            File([id |-> g.delta[k].id, gen |-> g.delta[k].gen, count |-> Len(g.delta[k].edges)],
                 g.delta[k].edges))]

validate_inline_delta_capacity(g) == Len(g.delta) <= MAX_INLINE_DELTAS

\* save: the manifest is last.  A store of too many layers is refused first.
save(g) == save_base_layers(g) \o save_delta_layers(g) \o save_manifest(g)

\* compact: the new layers, the removal of the old deltas, and the manifest,
\* between which the layers in memory are swapped: it names the next generation
\* and no delta.
CompactWrites(g, disk) ==
    WriteLayers(CompactedLayers(g))
    \o Picks([k \in DOMAIN g.delta |-> Del(DeltaFile(g.delta[k].id))],
             {k \in DOMAIN g.delta: Has(disk, DeltaFile(g.delta[k].id))})
    \o save_manifest([g EXCEPT !.gen = @ + 1, !.delta = <<>>])

NotLoaded == [ok |-> FALSE]
Loaded(g) == [ok |-> TRUE, g |-> g]

\* GraphManifest::read_from_file and from_bytes; DeltaLayer::load_from_file.
ManifestReads(disk) ==
    LET c == On(disk, Manifest) IN c.head # <<>> /\ Len(c.head[1].deltas) <= MAX_INLINE_DELTAS
DeltaReads(c) == c.head # <<>> /\ Len(c.items) >= c.head[1].count
LayerReads(disk, t) == \A k \in {"offsets", "targets", "attrs"}: Has(disk, Name(k, t))
load_from_files(disk, t, nodes) ==
    [offsets |-> On(disk, Name("offsets", t)).items, targets |-> On(disk, Name("targets", t)).items,
     attrs |-> On(disk, Name("attrs", t)).items, nodes |-> nodes]

load(disk) ==
    LET m == On(disk, Manifest).head[1]
        named == Picks(m.deltas, {k \in DOMAIN m.deltas: Has(disk, DeltaFile(m.deltas[k]))})
        delta(d) == LET c == On(disk, DeltaFile(d))
                    IN  DeltaLayer(c.head[1].id, c.head[1].gen, SubSeq(c.items, 1, c.head[1].count))
    IN  IF ~ManifestReads(disk) \/ \E d \in Range(named): ~DeltaReads(On(disk, DeltaFile(d)))
        THEN NotLoaded
        ELSE Loaded(rebuild_reverse_index(
               [nodes |-> m.nodes, types |-> m.types, gen |-> m.gen, compacted |-> m.compacted,
                readonly |-> m.readonly, rev |-> {},
                base |-> [t \in {u \in m.types: LayerReads(disk, u)} |->
                            load_from_files(disk, t, m.nodes)],
                delta |-> [k \in DOMAIN named |-> delta(named[k])],
                next |-> Max({1} \union {d + 1 : d \in Range(named)})]))

open_or_create(disk, nodes) ==
    IF Has(disk, Manifest) THEN load(disk) ELSE Loaded(with_path(nodes))
=============================================================================
