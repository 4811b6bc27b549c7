------------------------------ MODULE StoreReads ------------------------------
(***************************************************************************)
(* What a base answers without changing anything (src/store/api.rs):       *)
(* lexical, semantic and structured lookups, walks of the graph, the       *)
(* provenance of an atom, the statistics and the verification.             *)
(***************************************************************************)
EXTENDS Relations

CONSTANT SEMANTIC_K   \* nearest neighbours that search_semantic asks for

\* A lookup fails when a journal it needs cannot be read.
Failed == <<>>
Found(atoms) == <<atoms>>

-----------------------------------------------------------------------------
(* Names.  A name is a sequence of words; a word from ten on is two parts   *)
(* joined by an underscore.  Names are normalized already.                  *)

Parts(word) == IF word < 10 THEN {} ELSE {word \div 10, word % 10}
\* The whole value, its words, and the parts of those.
normalized_lexical_terms(values) ==
    UNION {LET words == Range(v) IN {v} \union {<<w>> : w \in words \union UNION {Parts(w) : w \in words}} :
             v \in values \ {<<>>}}

list_entities(d) == {get_entity(d, e.id) : e \in Range(read_entities(d))}
EntityNames(e) == {e.name} \union e.aliases
PredicateNames(p) == {p.key, p.name}

\* The relations that a lookup considers, and the atoms it leaves out.
Considered(d, include_superseded) ==
    IF include_superseded THEN read_relations(d) ELSE current_relation_records(d)
NotSuperseded(m, atoms, include_superseded) ==
    IF include_superseded THEN atoms ELSE atoms \ superseded_atom_ids(m)

\* The claims of an entity that has every term, the relations of an entity or
\* predicate that has, and, when the terms known to relations are two or name
\* something exactly, the relations whose names have all of those.
MetadataAtoms(s, terms, include_superseded) ==
    LET entities == list_entities(s.d)
        hit == {e \in entities: terms \subseteq normalized_lexical_terms(EntityNames(e) \union {e.type})}
        ids == {e.id : e \in hit}
        preds == {p.id : p \in {q \in read_predicates(s.d):
                    terms \subseteq normalized_lexical_terms(PredicateNames(q))}}
        entityTerms(id) ==
            normalized_lexical_terms(UNION {EntityNames(e) : e \in {f \in entities: f.id = id}})
        predicateTerms(id) ==
            normalized_lexical_terms(UNION {PredicateNames(p) : p \in {q \in read_predicates(s.d): q.id = id}})
        exact == UNION ({EntityNames(e) : e \in entities} \union {PredicateNames(p) : p \in read_predicates(s.d)})
        known == {t \in terms: \/ \E e \in entities: t \in entityTerms(e.id)
                               \/ \E p \in read_predicates(s.d): t \in predicateTerms(p.id)}
        specific == Cardinality(known) >= 2 \/ known \intersect exact # {}
        named(r) == /\ specific
                    /\ known \subseteq entityTerms(r.subj) \union entityTerms(r.obj) \union predicateTerms(r.pred)
        related == {r \in Considered(s.d, include_superseded):
                      r.subj \in ids \/ r.obj \in ids \/ r.pred \in preds \/ named(r)}
    IN  NotSuperseded(s.m, UNION {e.claims : e \in hit} \union {r.atom : r \in related}, include_superseded)
metadata_atoms_for_terms(s, terms, include_superseded) ==
    IF terms = {} THEN Found({})
    ELSE IF ~EntitiesRead(s.d) \/ ~JournalReads(s.d, Predicates) \/ ~JournalReads(s.d, RelationsFile) THEN Failed
    ELSE Found(MetadataAtoms(s, terms, include_superseded))

\* The first predicate on record of this key or name.
resolve_predicate(d, name) ==
    LET js == Mended(d, Predicates)
        of == {k \in DOMAIN js: name \in PredicateNames(js[k].contract)}
    IN  IF of = {} THEN {} ELSE {js[Min(of)].contract.id}

\* By the id of an entity (0 for none), and by a name (<<>> for none), which is
\* that of a predicate or of entities; the predicates are read for a name alone.
resolve_structured_target_atoms(s, entity_id, stable_key, include_superseded) ==
    LET considered == Considered(s.d, include_superseded)
        entities == list_entities(s.d)
        of(id) == UNION {e.claims : e \in {f \in entities: f.id = id}}
                  \union {r.atom : r \in {q \in considered: q.subj = id \/ q.obj = id}}
        named == {e.id : e \in {f \in entities: stable_key \in EntityNames(f)}}
        byKey == {r.atom : r \in {q \in considered: q.pred \in resolve_predicate(s.d, stable_key)}}
                 \union UNION {of(id) : id \in named}
    IN  IF \/ ~EntitiesRead(s.d) \/ ~JournalReads(s.d, RelationsFile)
           \/ stable_key # <<>> /\ ~JournalReads(s.d, Predicates) THEN Failed
        ELSE Found(NotSuperseded(s.m, (IF entity_id = 0 THEN {} ELSE of(entity_id))
                                      \union (IF stable_key = <<>> THEN {} ELSE byKey), include_superseded))

-----------------------------------------------------------------------------
(* Searches.  A mask is the set of its bits; every atom is stored with      *)
(* 0xFFFF.  Filters are <<>> for none or <<[min_trust, domain_mask]>>.      *)

AtomDomains == 0..15

\* QueryFilters::matches: a mask of 0 admits every atom.
filter_matches(f, meta) ==
    meta.trust >= f.min_trust /\ (f.domain_mask = {} \/ f.domain_mask \intersect AtomDomains # {})
HasMeta(m, n) == n \in DOMAIN m.at /\ m.at[n] \in DOMAIN m.meta

\* search_lex: the postings that pass the filters, and what the names give,
\* which is not filtered and left out if it cannot be read; then the nodes that
\* have an atom that is not superseded.  A deleted atom is found.
search_lex(s, words, filters) ==
    LET postings == UNION {TermNodes(s.m.term, words[k]) : k \in DOMAIN words}
        byTerm == IF filters = <<>> THEN postings
                  ELSE {n \in postings: HasMeta(s.m, n) /\ filter_matches(filters[1], s.m.meta[s.m.at[n]])}
        atoms == metadata_atoms_for_terms(s, normalized_lexical_terms(Range(words)), FALSE)
        byName == IF atoms = Failed THEN {}
                  ELSE {get_node_num(s.m, a) : a \in atoms[1] \intersect DOMAIN s.m.loc.node}
    IN  {n \in byTerm \union byName: n \in DOMAIN s.m.at /\ s.m.at[n] \notin superseded_atom_ids(s.m)}

\* EmbeddingIndex::search: the k most similar to the query, similarity giving
\* that of each vector to it in ten-thousandths; equals come in any order.
emb_search(e, similarity, k) ==
    LET orders == {q \in [1..Cardinality(DOMAIN e.of) -> DOMAIN e.of]:
                     \A i, j \in DOMAIN q: i < j => q[i] # q[j] /\ similarity[e.of[q[i]]] >= similarity[e.of[q[j]]]}
    IN  {SubSeq(q, 1, Min({k, Len(q)})) : q \in orders}
\* search_semantic: the filters apply after the cut to SEMANTIC_K, and the trust
\* of a candidate is its similarity.
search_semantic(s, similarity, filters) ==
    LET passes(n) ==
            /\ n \in DOMAIN s.m.at /\ ~is_deleted(s.m, s.m.at[n])
            /\ s.m.at[n] \in DOMAIN s.m.loc.node /\ s.m.at[n] \in DOMAIN s.m.meta
            /\ filters # <<>> => filter_matches(filters[1], s.m.meta[s.m.at[n]])
        candidate(n) == [node |-> n, trust |-> Max({0, similarity[s.m.emb.of[n]]})]
        candidates(q) == LET kept == SelectSeq(q, passes) IN [k \in DOMAIN kept |-> candidate(kept[k])]
    IN  {candidates(q) : q \in emb_search(s.m.emb, similarity, SEMANTIC_K)}

\* filter_invariants: the nodes that have metadata and meet the constraints,
\* each of them <<>> or one value: a time range [from, to], a least trust, a
\* mask, which unlike that of a filter admits nothing if it is 0.  created is
\* when each atom was stored; it is valid without end.
matches_time(c, from) == c.time = <<>> \/ from < c.time[1].to
matches_trust(c, trust) == c.trust = <<>> \/ trust >= c.trust[1]
matches_domain(c, mask) == c.domain = <<>> \/ mask \intersect c.domain[1] # {}
filter_invariants(s, nodes, created, c) ==
    SelectSeq(nodes, LAMBDA n:
        /\ HasMeta(s.m, n) /\ matches_time(c, created[s.m.at[n]])
        /\ matches_trust(c, s.m.meta[s.m.at[n]].trust) /\ matches_domain(c, AtomDomains))

\* No deleted or less trusted node, none twice, none before a closer one, and no
\* node left out that is closer than one that is there.  What a search admits by
\* its filters the constraints that say the same admit.
SemanticSound(s, similarity, filters) ==
    \A got \in search_semantic(s, similarity, filters):
        LET nodes == [k \in DOMAIN got |-> got[k].node]
            closeness(n) == similarity[s.m.emb.of[n]]
            trusted(n) == filters # <<>> => s.m.meta[s.m.at[n]].trust >= filters[1].min_trust
            usable(n) == n \in DOMAIN s.m.at /\ ~is_deleted(s.m, s.m.at[n]) /\ trusted(n)
            same == [time |-> <<>>, trust |-> IF filters = <<>> THEN <<>> ELSE <<filters[1].min_trust>>, domain |-> <<>>]
        IN  /\ Len(got) <= SEMANTIC_K /\ IsInjective(nodes)
            /\ filter_invariants(s, nodes, [a \in Range(s.m.at) |-> 0], same) = nodes
            /\ \A i \in DOMAIN nodes: usable(nodes[i]) /\ \A j \in 1..i: closeness(nodes[j]) >= closeness(nodes[i])
            /\ \A n \in DOMAIN s.m.emb.of \ Range(nodes):
                  usable(n) /\ (filters # <<>> => filters[1].domain_mask = {}) =>
                      \A i \in DOMAIN nodes: closeness(nodes[i]) >= closeness(n)

-----------------------------------------------------------------------------
(* Walks.                                                                   *)

\* graph_walk: a stack of nodes and their depths; a node is expanded once, at
\* the depth at which it is first popped.
RECURSIVE Walk(_, _, _, _, _, _)
Walk(g, types, depth, stack, visited, edges) ==
    IF stack = <<>> THEN edges
    ELSE LET top == Last(stack)
             rest == Front(stack)
             out(t) == LET ns == G!neighbors(g, top.node, t)
                       IN  [i \in DOMAIN ns |-> <<top.node, ns[i][1], t>>]
             found == FlattenSeq([k \in DOMAIN types |-> out(types[k])])
             seen == visited \union {top.node}
             next == SelectSeq(found, LAMBDA e: e[2] \notin seen)
         IN  IF top.d >= depth \/ top.node \in visited THEN Walk(g, types, depth, rest, visited, edges)
             ELSE Walk(g, types, depth,
                       rest \o [i \in DOMAIN next |-> [node |-> next[i][2], d |-> top.d + 1]],
                       seen, edges \o found)
graph_walk(g, seeds, types, depth) ==
    Walk(g, types, depth, [i \in DOMAIN seeds |-> [node |-> seeds[i], d |-> 0]], {}, <<>>)

\* The nodes that n steps along the types reach.
Reached(g, seeds, types, n) ==
    LET next(ns) == ns \union {p[1] : p \in UNION {Range(G!neighbors(g, a, t)) : <<a, t>> \in ns \X Range(types)}}
        within[k \in 0..n] == IF k = 0 THEN Range(seeds) ELSE next(within[k - 1])
    IN  within[n]
OutEdges(g, nodes, types) ==
    UNION {{<<a, p[1], t>> : p \in Range(G!neighbors(g, a, t))} : <<a, t>> \in nodes \X Range(types)}

\* A walk never reports an edge that starts further away than its depth allows,
\* and with a depth of at least the number of nodes it reports all of them.  It
\* may miss nearer ones: a node met first by a long way is not expanded again.
WalkSound(g, seeds, types, depth) ==
    LET walked == Range(graph_walk(g, seeds, types, depth))
        near == IF depth = 0 THEN {} ELSE OutEdges(g, Reached(g, seeds, types, depth - 1), types)
    IN  /\ walked \subseteq near
        /\ (depth >= g.nodes \/ depth <= 1) => walked = near

-----------------------------------------------------------------------------
(* Provenance.  Trust is 0..10000; a derivation keeps 0.85 (17 / 20) of it. *)
(* The computation is in floating point and then cut off: of a product that *)
(* is whole it may lose one (short).  Confidences go along with trust and   *)
(* are left out.                                                            *)

Truncated(n, d, short) == IF short /\ n > 0 /\ n % d = 0 THEN n \div d - 1 ELSE n \div d
Decayed(trust, depth, short) == Truncated(trust * 17 ^ depth, 20 ^ depth, short)

ProvenanceChain == [nodes |-> <<>>, edges |-> <<>>, direct |-> <<>>, max_depth |-> 0, trust |-> 5000]
EvidenceLink(atom, origin, trust, depth) == [atom |-> atom, origin |-> origin, trust |-> trust, depth |-> depth]
DerivationEdge(from, to, depth, trust, short) ==
    [from |-> from, to |-> to, depth |-> depth, trust |-> Decayed(trust, depth + 1, short)]
\* The first link gives its trust, later ones the average.
add_direct_evidence(chain, link) ==
    LET direct == Append(chain.direct, link)
        total == FoldFunction(+, 0, [k \in DOMAIN direct |-> direct[k].trust])
    IN  [chain EXCEPT !.direct = direct, !.trust = total \div Len(direct)]
add_chain_node(chain, node) == [chain EXCEPT !.nodes = Append(@, node), !.max_depth = Max({@, node.depth})]
\* Neither attached sources nor the records of a body are of the kind that
\* changes the trust of a node.
ProvenanceNode(a, depth, evidence) == [atom |-> a, depth |-> depth, evidence |-> evidence, trust |-> 5000]

\* list_atom_sources: that of the metadata, then those attached, each once.
list_atom_sources(m, a) ==
    FoldLeft(LAMBDA q, l: IF l.atom = a /\ l.source \notin Range(q) THEN Append(q, l.source) ELSE q,
             IF m.meta[a].source = 0 THEN <<>> ELSE <<m.meta[a].source>>, m.links)
\* It fails on a source that is not registered.
SourcesKnown(m, a) == Range(list_atom_sources(m, a)) \subseteq m.sources
attached_source_evidence_links(m, a) ==
    [k \in DOMAIN list_atom_sources(m, a) |-> EvidenceLink(a, "Attached", m.meta[a].trust, 0)]

\* build_derivation_chain: one level of sources, but the depth of each is one
\* more than that of the source before it; one without metadata has the trust
\* of the root and no node.
build_derivation_chain(m, a, body, chain0, short) ==
    LET known == SelectSeq(body.derived_from, LAMBDA n: n \in DOMAIN m.at)
        step(chain, k) ==
            LET from == m.at[known[k]]
                described == from \in DOMAIN m.meta
                trust == IF described THEN m.meta[from].trust ELSE body.trust
                linked == add_direct_evidence(
                    [chain EXCEPT !.edges = Append(@, DerivationEdge(a, from, k, trust, short))],
                    EvidenceLink(from, "Derived", trust, k))
            IN  IF described THEN add_chain_node(linked, ProvenanceNode(from, k, attached_source_evidence_links(m, from)))
                ELSE linked
    IN  FoldLeft(step, chain0, [k \in DOMAIN known |-> k])

calculate_propagated_trust(chain, short) ==
    IF chain.direct = <<>> /\ chain.nodes = <<>> THEN chain
    ELSE [chain EXCEPT !.trust = Decayed(IF chain.direct # <<>> THEN @ ELSE chain.nodes[1].trust,
                                         chain.max_depth, short)]

\* get_provenance of an atom whose body (<<>> if it cannot be loaded and parsed)
\* has these evidence records, of 16 bits of confidence each, derivations from
\* these nodes, and trust.
EvidenceTrust(confidence_q, short) == Truncated(confidence_q * 10000, 65535, short)
get_provenance(m, a, bodies, short) ==
    LET body == bodies[1]
        described == a \in DOMAIN m.meta
        attached == IF described THEN attached_source_evidence_links(m, a) ELSE <<>>
        embedded == [k \in DOMAIN body.evidence |->
                        EvidenceLink(a, "Embedded", EvidenceTrust(body.evidence[k], short), 0)]
        direct == FoldLeft(add_direct_evidence, ProvenanceChain, attached \o embedded)
        derived == build_derivation_chain(m, a, body, direct, short)
        met == {x \in {a} \union {m.at[n] : n \in Range(body.derived_from) \intersect DOMAIN m.at}: x \in DOMAIN m.meta}
    IN  IF bodies = <<>> THEN Failed
        ELSE IF \E x \in met: ~SourcesKnown(m, x) THEN Failed
        ELSE Found(calculate_propagated_trust(add_chain_node(derived, ProvenanceNode(a, 0, attached \o embedded)), short))

\* An atom is trusted no more than the best of its evidence and sources, no more
\* than one derivation allows if it has described sources, and every known
\* source is there.  It fails for no other reason than an unregistered source.
ProvenanceSound(m, a, body, short) ==
    LET result == get_provenance(m, a, <<body>>, short)
        chain == result[1]
        known == {m.at[n] : n \in Range(body.derived_from) \intersect DOMAIN m.at}
        best == Max({l.trust : l \in Range(chain.direct)})
    IN  IF result = Failed THEN \E x \in known \union {a}: ~SourcesKnown(m, x)
        ELSE /\ chain.direct # <<>> => chain.trust <= best
             /\ chain.direct # <<>> /\ known \intersect DOMAIN m.meta # {} => chain.trust <= Decayed(best, 1, FALSE)
             /\ {e.to : e \in Range(chain.edges)} = known
             /\ {n.atom : n \in Range(chain.nodes)} = (known \intersect DOMAIN m.meta) \union {a}

-----------------------------------------------------------------------------
(* Verification and statistics.                                             *)

\* read_raw_record builds the header and the checksum from the body, so
\* verify_atom compares the body with the id and looks at its sections.
read_raw_record(d, a) == IF load_atom(d, a) THEN <<[id |-> a, body |-> a]>> ELSE <<>>
verify_atom(d, a) ==
    LET r == read_raw_record(d, a) IN IF r = <<>> THEN "missing" ELSE IF r[1].body = r[1].id THEN "valid" ELSE "invalid"
\* audit_relation_contexts
AuditReads(s) ==
    /\ JournalReads(s.d, RelationsFile) /\ JournalReads(s.d, History)
    /\ current_relation_records(s.d) # {} => JournalReads(s.d, Predicates)
verify_integrity(s) ==
    LET count(what) == Cardinality({a \in live_atom_ids(s.m): verify_atom(s.d, a) = what})
        current == current_relation_records(s.d)
        issue == [r \in current |-> AuditOf(s, r)]
        sound == {r \in current: issue[r] = "none"}
    IN  IF ~AuditReads(s) THEN Failed
        ELSE Found([checked |-> Cardinality(live_atom_ids(s.m)), valid |-> count("valid"),
                    invalid |-> count("invalid"), missing |-> count("missing"),
                    relations |-> Cardinality(current),
                    active |-> Cardinality(sound),
                    issues |-> {<<r.id, issue[r]>> : r \in current \ sound}])

\* statistics: the atoms that are live and current, the relations and the rest;
\* it fails when a live atom or a journal cannot be read.
statistics(s) ==
    LET live == live_atom_ids(s.m)
        current == live \ superseded_atom_ids(s.m)
        claims(atoms) == FoldSet(LAMBDA a, n: n + Cardinality(a.claims), 0, atoms)
        contexts == s.m.ctx.contexts
    IN  IF \/ \E a \in live: ~get_atom(s, a)
           \/ ~JournalReads(s.d, RelationsFile) \/ ~EntitiesRead(s.d) \/ ~JournalReads(s.d, Predicates) THEN Failed
        ELSE Found([live |-> Cardinality(live), live_claims |-> claims(live),
                    tombstones |-> Cardinality({a \in live: a.tomb # <<>>}),
                    current |-> Cardinality(current), current_claims |-> claims(current),
                    relations |-> Cardinality(current_relation_records(s.d)),
                    entities |-> Cardinality(list_entities(s.d)), predicates |-> Cardinality(read_predicates(s.d)),
                    sources |-> Cardinality(s.m.sources), contexts |-> Len(contexts),
                    conflicts |-> FoldFunction(+, 0, [k \in DOMAIN contexts |-> Len(contexts[k].conflicts)]),
                    nodes |-> s.m.graph.nodes, edges |-> G!edge_count(s.m.graph)])
=============================================================================
