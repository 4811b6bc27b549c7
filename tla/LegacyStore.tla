------------------------------ MODULE LegacyStore ------------------------------
(***************************************************************************)
(* A legacy base (MemoryX of src/store/api.rs): the location index, the    *)
(* term index, the graph, the metadata, the contexts and the journals      *)
(* around the CAS, and the programs of its operations.  A program is a     *)
(* sequence of instructions, most of which are one write to one file; it   *)
(* is executed against a base s = [m, d], the memory and the directory.    *)
(* An atom is its content [claims, terms, tomb], which its id hashes; tomb *)
(* is <<a>> in the tombstone of a.  The CAS keeps a record per body        *)
(* (CasStore is its detail).                                               *)
(***************************************************************************)
EXTENDS Indexes, CtxManager

CONSTANT MaxSources   \* MAX_SOURCES_PER_ATOM

G == INSTANCE GraphFiles WITH MAX_DELTA_LAYERS <- 8, MAX_INLINE_DELTAS <- 16, DeltaCap <- 10000

AtomBody(claims, terms) == [claims |-> claims, terms |-> terms, tomb |-> <<>>]
\* create_tombstone_payload: the same for every deletion of an atom for a reason.
create_tombstone_payload(a) == [claims |-> {}, terms |-> {}, tomb |-> <<a>>]

Trust == 1
TombstoneTrust == 2
DEPENDS_ON == 1
DERIVED_FROM == 2
SUPERSEDES == 3
TOMBSTONE_LINK == 4

Nothing == [x \in {} |-> 0]
Assign(f, x, y) == [z \in DOMAIN f \union {x} |-> IF z = x THEN y ELSE f[z]]

\* loc: the number of every atom that was given one, those marked deleted, and
\* the next number.  at: the atom of a number.
EmptyMemory ==
    [loc |-> [node |-> Nothing, del |-> {}, next |-> 0], term |-> NoTerms, graph |-> G!with_path(0),
     meta |-> Nothing, at |-> Nothing, ctx |-> NewManager, sources |-> {}, links |-> <<>>,
     emb |-> NoEmbeddings]

-----------------------------------------------------------------------------
(* The location index, the metadata, and what an operation does in memory   *)
(* once its record is in the CAS.                                           *)

assign_node_num(loc, a) == [loc EXCEPT !.node = Assign(@, a, loc.next), !.next = @ + 1]
mark_deleted(loc, a) == [loc EXCEPT !.del = @ \union {a}]
restore_deleted(loc, a) == [loc EXCEPT !.del = @ \ {a}]
is_deleted(m, a) == a \in m.loc.del
live_atom_ids(m) == DOMAIN m.loc.node \ m.loc.del
get_node_num(m, a) == m.loc.node[a]

AtomMetadata(trust, source) == [trust |-> trust, source |-> source]

\* extract_terms_from_payload: the symbols, in the order of the table.
extract_terms_from_payload(a) == Ordered(a.terms, TermLess)

Link(g, from, to, type) == G!add_edge(g, from, to, type, 1)

\* ingest, batch_ingest and update_atom after store_atom: a new number, the
\* edges to the subjects of the claims, to the atom that is superseded (old is
\* <<>> or <<atom>>) and to the evidence, the terms, the metadata.
Stored(m, a, old, evidence) ==
    LET n == m.loc.next
        loc == assign_node_num(m.loc, a)
        subjects == FoldSet(LAMBDA c, g: Link(g, n, c.subj, DEPENDS_ON), G!add_node(m.graph, n), a.claims)
        superseding == FoldLeft(LAMBDA g, o: Link(g, n, loc.node[o], SUPERSEDES), subjects, old)
        known == {e \in evidence: e \in DOMAIN loc.node}
    IN  [m EXCEPT
            !.loc = loc,
            !.graph = FoldSet(LAMBDA e, g: Link(g, n, loc.node[e], DERIVED_FROM), superseding, known),
            !.term = FoldLeft(LAMBDA ix, t: index_term(ix, t, n), @, extract_terms_from_payload(a)),
            !.meta = Assign(@, a, AtomMetadata(Trust, 0)),
            !.at = Assign(@, n, a)]

\* delete_atom after store_atom: the tombstone is numbered but not registered.
Deleted(m, a) ==
    LET t == create_tombstone_payload(a)
        loc == assign_node_num(mark_deleted(m.loc, a), t)
    IN  [m EXCEPT
            !.loc = loc,
            !.meta = Assign(Assign(@, a, [@[a] EXCEPT !.trust = 0]), t,
                            AtomMetadata(TombstoneTrust, m.meta[a].source)),
            !.graph = Link(@, loc.node[t], loc.node[a], TOMBSTONE_LINK)]

SourceLink(a, source) == [atom |-> a, source |-> source]
\* The first source attached is kept in the metadata too.
Attached(m, link) ==
    [m EXCEPT !.links = Append(@, link),
              !.meta[link.atom].source = IF @ = 0 THEN link.source ELSE @]

list_atom_source_ids(m, a) ==
    ({m.meta[a].source} \ {0}) \union {m.links[k].source : k \in {j \in DOMAIN m.links: m.links[j].atom = a}}

superseded_atom_ids(m) ==
    LET earlier == UNION {Range(G!neighbors(m.graph, n, SUPERSEDES)) : n \in DOMAIN m.at}
    IN  {m.at[n] : n \in {p[1] : p \in earlier} \intersect DOMAIN m.at}

\* rebuild_indexes reads the live bodies again.
RebuiltTerms(s) ==
    LET atoms == Ordered(live_atom_ids(s.m), LAMBDA a, b: s.m.loc.node[a] < s.m.loc.node[b])
        add(ix, a) == FoldLeft(LAMBDA x, t: index_term(x, t, s.m.loc.node[a]), ix,
                               extract_terms_from_payload(a))
    IN  FoldLeft(add, NoTerms, atoms)

-----------------------------------------------------------------------------
(* Files.                                                                   *)

CasBodies == Name("cas", 0)
LocFile == Name("location_state", 0)
IdLocFile == Name("idloc", 0)
MetaFile == Name("meta_state", 0)
ContextsFile == Name("contexts.json", 0)
ContextsTemp == Name("contexts.json.tmp", 0)
contexts_backup_path == Name("contexts.json.bak", 0)
History == Name("history", 0)
Sources == Name("sources", 0)
AtomSources == Name("atom_sources", 0)
Predicates == Name("predicates", 0)
Entities == Name("entities", 0)
RelationsFile == Name("relations", 0)
Resolutions == Name("resolutions", 0)

load_atom(d, a) == a \in Range(On(d, CasBodies).items)

\* Journals: a record that was cut short is dropped when it is the last one,
\* and an error when records follow it.  (A record whose newline alone is missing
\* counts as written.)
Journal(d, f) == On(d, f).items
TornTail(d, f) == Journal(d, f) # <<>> /\ Journal(d, f)[Len(Journal(d, f))] = TornItem
Mended(d, f) == IF TornTail(d, f) THEN Front(Journal(d, f)) ELSE Journal(d, f)
read_recovering_jsonl(d, f) == TornItem \notin Range(Mended(d, f))

\* MetaStore::save keeps one of the numbers of an atom, whichever the map
\* yields first.
MetaSaved(m) ==
    LET numbers(a) == {n \in DOMAIN m.at: m.at[n] = a}
        choices == FoldSet(LAMBDA a, fs: {Assign(f, a, n) : f \in fs,
                                            n \in IF numbers(a) = {} THEN {None} ELSE numbers(a)},
                           {Nothing}, DOMAIN m.meta)
    IN  {File([meta |-> m.meta, node |-> f], <<>>) : f \in choices}
MetaLoad(d) ==
    LET h == d[MetaFile].head[1]
        named == {a \in DOMAIN h.node: h.node[a] # None}
    IN  IF ~Has(d, MetaFile) THEN [meta |-> Nothing, at |-> Nothing]
        ELSE [meta |-> h.meta,
              at |-> [n \in {h.node[a] : a \in named} |-> CHOOSE a \in named: h.node[a] = n]]

\* LocationIndex::save_state, load_state and save_idloc.
save_state(loc) == Swap(LocFile, File(loc, <<>>))
load_state(d) ==
    IF ~Has(d, LocFile) THEN EmptyMemory.loc
    ELSE [d[LocFile].head[1] EXCEPT !.next = Max({@} \union {n + 1 : n \in Range(d[LocFile].head[1].node)})]
save_idloc(loc) == Swap(IdLocFile, File(Restrict(loc.node, DOMAIN loc.node \ loc.del), <<>>))

validate_context_manager(mgr) ==
    LET ids == {c.ctx_id : c \in Range(mgr.contexts)}
    IN  /\ Cardinality(ids) = Len(mgr.contexts)
        /\ \A c \in Range(mgr.contexts): c.parent # None => c.parent < c.ctx_id /\ c.parent \in ids
        /\ IF ids = {} THEN mgr.next = 0
           ELSE mgr.next > Max(ids) /\ \E c \in Range(mgr.contexts): c.ctx_id = mgr.active /\ c.active

\* Mutant: what was moved aside is not looked for.
ReadLiveContexts(d) == IF Has(d, ContextsFile) THEN d[ContextsFile].head[1] ELSE NewManager
\* read_context_manager: the file, else what was moved aside.
read_context_manager(d) ==
    IF Has(d, ContextsFile) THEN d[ContextsFile].head[1]
    ELSE IF Has(d, contexts_backup_path) THEN d[contexts_backup_path].head[1]
    ELSE NewManager

-----------------------------------------------------------------------------
(* Instructions.  on_error: "stop" gives the operation up, "next" goes on,  *)
(* "skip" goes on after the next one, and "batch" drops one atom.           *)

Instr(op, arg) == [op |-> op, arg |-> arg, on_error |-> "stop", undo |-> <<>>]
OnError(i, what) == [i EXCEPT !.on_error = what]
Refuse == <<Instr("refuse", <<>>)>>
Refuses(program) == \E k \in DOMAIN program: program[k].op = "refuse"
\* The rest of an operation, which reads the base as it is then (Relations.Resumed).
AndThen(what, arg) == <<Instr("later", [what |-> what, arg |-> arg])>>
append_bounded_jsonl(f, rec) == <<Instr("append", [file |-> f, rec |-> rec])>>
Mend(d, f) == IF TornTail(d, f) THEN <<Instr("mend", [file |-> f])>> ELSE <<>>

\* write_context_manager of a new manager, <<mgr>>, or of the one in memory, <<>>:
\* the live file is moved aside before the new one is moved in, and what was
\* moved aside is removed, if it can be, at the end.
ContextsWrite(arg) ==
    <<Instr("ctx.put", arg), Instr("ctx.del", <<>>), Instr("ctx.out", <<>>), Instr("ctx.in", arg),
      OnError(Instr("ctx.clean", <<>>), "next")>>
write_context_manager(mgr) == IF validate_context_manager(mgr) THEN ContextsWrite(<<mgr>>) ELSE Refuse

\* GraphStore::save, and MemoryX::save over everything.
GraphSave == <<Instr("delta", <<>>), Instr("manifest", <<>>)>>
LocSave == <<Instr("loc", <<>>), Instr("idloc", <<>>)>>
save_memory ==
    LocSave \o <<Instr("lex", <<>>), Instr("post", <<>>)>> \o GraphSave
    \o <<Instr("meta", <<>>)>> \o ContextsWrite(<<>>) \o <<Instr("emb", <<>>)>>

record_history(op, atoms) ==
    append_bounded_jsonl(History, [torn |-> FALSE, op |-> op, atoms |-> atoms, ref |-> <<>>])

\* Instructions that have nothing to do, and those that only change memory.
Applies(s, i) ==
    CASE i.op = "delta" -> s.m.graph.delta # <<>>
      [] i.op = "ctx.del" -> Has(s.d, ContextsFile) /\ Has(s.d, contexts_backup_path)
      [] i.op = "ctx.out" -> Has(s.d, ContextsFile)
      [] i.op = "ctx.clean" -> Has(s.d, contexts_backup_path)
      [] i.op = "append" -> (i.arg.file = History => (i.arg.rec.op = "BatchIngest" => i.arg.rec.atoms # {}))
      [] OTHER -> TRUE
Pure == {"terms", "edges", "unedges", "undelete", "trust"}

\* The writes that an instruction may make.
Writes(s, i) ==
    CASE i.op = "store" -> {Add(CasBodies, <<i.arg.atom>>)}
      [] i.op = "append" -> {Add(i.arg.file, <<i.arg.rec>>)}
      [] i.op = "mend" -> {Swap(i.arg.file, [EmptyFile EXCEPT !.items = Mended(s.d, i.arg.file)])}
      [] i.op = "loc" -> {save_state(s.m.loc)}
      [] i.op = "idloc" -> {save_idloc(s.m.loc)}
      [] i.op = "lex" -> {TermWrites(IF i.arg = <<>> THEN s.m.term ELSE i.arg[1])[1]}
      [] i.op = "post" -> {TermWrites(IF i.arg = <<>> THEN s.m.term ELSE i.arg[1])[2]}
      [] i.op = "delta" -> {G!save_delta_layers(s.m.graph)[1]}
      [] i.op = "manifest" -> {G!save_manifest(s.m.graph)[1]}
      [] i.op = "meta" -> {Swap(MetaFile, f) : f \in MetaSaved(s.m)}
      [] i.op = "ctx.put" -> {Put(ContextsTemp, File(IF i.arg = <<>> THEN s.m.ctx ELSE i.arg[1], <<>>))}
      [] i.op \in {"ctx.del", "ctx.clean"} -> {Del(contexts_backup_path)}
      [] i.op = "ctx.out" -> {Move(ContextsFile, contexts_backup_path)}
      [] i.op = "ctx.in" -> {Move(ContextsTemp, ContextsFile)}
      [] i.op = "emb" -> {EmbWrites(s.m.emb)[1]}
      [] i.op = "backup" -> {Swap(i.arg.file, i.arg.with)}

\* Memory after an instruction that succeeded.
Effect(m, i) ==
    CASE i.op = "store" ->
            IF i.arg.deletes # <<>> THEN Deleted(m, i.arg.deletes[1])
            ELSE Stored(m, i.arg.atom, i.arg.old, i.arg.evidence)
      [] i.op = "append" /\ i.arg.file = Sources -> [m EXCEPT !.sources = @ \union {i.arg.rec.id}]
      [] i.op = "append" /\ i.arg.file = AtomSources -> Attached(m, SourceLink(i.arg.rec.atom, i.arg.rec.source))
      [] i.op = "ctx.in" /\ i.arg # <<>> -> [m EXCEPT !.ctx = i.arg[1]]
      [] i.op = "terms" -> [m EXCEPT !.term = i.arg]
      [] i.op = "edges" -> [m EXCEPT !.graph = FoldLeft(LAMBDA g, e: Link(g, e[1], e[2], SUPERSEDES), @, i.arg)]
      [] i.op = "unedges" -> [m EXCEPT !.graph = FoldLeft(LAMBDA g, e: G!delete_edge(g, e[1], e[2], SUPERSEDES), @, i.arg)]
      [] i.op = "undelete" -> [m EXCEPT !.loc = restore_deleted(@, i.arg.atom)]
      [] i.op = "trust" -> [m EXCEPT !.meta[i.arg.atom].trust = i.arg.trust]
      [] OTHER -> m

\* What a failed write, and a crash at it, may leave.  A record of the CAS is
\* seen whole or not at all.  When the new contexts cannot be moved in, the old
\* ones are moved back if that works.
FailureLeaves(s, i, w) ==
    CASE i.op = "ctx.in" -> {s.d} \union (IF Has(s.d, contexts_backup_path) /\ ~Has(s.d, ContextsFile)
                                          THEN {Done(s.d, Move(contexts_backup_path, ContextsFile))} ELSE {})
      [] i.op # "ctx.in" /\ w.op \in {"move", "del"} -> {s.d}
      [] i.op = "store" -> {s.d, Done(s.d, w)}
      [] OTHER -> Outcomes(s.d, w)
CrashLeaves(s, i, w) == IF i.op = "store" THEN {s.d, Done(s.d, w)} ELSE Outcomes(s.d, w)

\* What is left of a program when an instruction of it failed.
AfterFailure(i, rest) ==
    LET without(j) == IF j.op = "append" /\ j.arg.file = History
                      THEN [j EXCEPT !.arg.rec.atoms = @ \ {i.arg.atom}] ELSE j
    IN  CASE i.on_error = "stop" -> i.undo \o Refuse
          [] i.on_error = "batch" -> [k \in DOMAIN rest |-> without(rest[k])]
          [] i.on_error = "next" -> rest
          [] i.on_error = "skip" -> Tail(rest)

-----------------------------------------------------------------------------
(* Operations on atoms, sources and contexts.                               *)

Store(a, old, evidence) == Instr("store", [atom |-> a, old |-> old, evidence |-> evidence, deletes |-> <<>>])

ingest(s, a, evidence) ==
    IF is_deleted(s.m, a) THEN Refuse
    ELSE <<Store(a, <<>>, evidence)>> \o record_history("Ingest", {a}) \o save_memory

\* batch_ingest: an atom that is tombstoned or cannot be stored is passed over.
batch_ingest(s, atoms) ==
    LET fresh == SelectSeq(atoms, LAMBDA a: ~is_deleted(s.m, a))
    IN  [k \in DOMAIN fresh |-> OnError(Store(fresh[k], <<>>, {}), "batch")]
        \o record_history("BatchIngest", Range(fresh)) \o save_memory

\* get_atom_view parses what load_atom reads, which the hash vouches for.
get_atom_view(d, a) == load_atom(d, a)
get_atom(s, a) == get_atom_view(s.d, a) /\ ~is_deleted(s.m, a)

update_atom(s, old, a, evidence) ==
    IF ~get_atom(s, old) \/ is_deleted(s.m, a) \/ old \notin DOMAIN s.m.loc.node THEN Refuse
    ELSE <<Store(a, <<old>>, evidence)>> \o record_history("UpdateAtom", {a, old}) \o save_memory

\* The part of delete_atom that follows its checks.
TombstoneAtom(a) ==
    <<Instr("store", [atom |-> create_tombstone_payload(a), old |-> <<>>, evidence |-> {}, deletes |-> <<a>>])>>
    \o append_bounded_jsonl(History, [torn |-> FALSE, op |-> "DeleteAtom", atoms |-> {a},
                                      ref |-> <<a, create_tombstone_payload(a)>>])
    \o save_memory

rebuild_indexes(s) ==
    LET terms == RebuiltTerms(s)
    IN  <<Instr("lex", <<terms>>), Instr("post", <<terms>>), Instr("terms", terms)>>
        \o record_history("RebuildIndexes", {}) \o save_memory

register_source(s) ==
    append_bounded_jsonl(Sources, [torn |-> FALSE, id |-> Max({0} \union s.m.sources) + 1])

\* set_atom_source: the journal is the truth, and the metadata may be saved.
set_atom_source(s, a, source) ==
    LET have == list_atom_source_ids(s.m, a)
    IN  IF source \notin s.m.sources \/ a \notin DOMAIN s.m.meta THEN Refuse
        ELSE IF source \in have THEN <<>>
        ELSE IF Cardinality(have) >= MaxSources THEN Refuse
        ELSE append_bounded_jsonl(AtomSources, [torn |-> FALSE, atom |-> a, source |-> source])
             \o IF s.m.meta[a].source = 0 THEN <<OnError(Instr("meta", <<>>), "next")>> ELSE <<>>

\* mutate_contexts of the calls that the store offers on contexts.
CreateContext(s) == write_context_manager(create_context(s.m.ctx, 0))
fork_context(s, parent) ==
    IF ~HasCtx(s.m.ctx, parent) THEN Refuse
    ELSE write_context_manager(create_branch(s.m.ctx, parent, "Manual", 0))
set_active_context(s, id) ==
    IF HasCtx(s.m.ctx, id) /\ get_ctx(s.m.ctx, id).active
    THEN write_context_manager(set_active_ctx(s.m.ctx, id)) ELSE Refuse

\* ensure_authoring_context: context 0 of a base without contexts is made.
ensure_authoring_context(s, id) ==
    IF HasCtx(s.m.ctx, id) THEN <<>>
    ELSE IF id # 0 \/ s.m.ctx.contexts # <<>> THEN Refuse ELSE CreateContext(s)

-----------------------------------------------------------------------------
(* Opening.                                                                 *)

validate_source_records(d) ==
    LET js == Mended(d, Sources) IN \A i, j \in DOMAIN js: js[i].id = js[j].id => i = j

load_source_link_index(d, meta) ==
    LET js == Mended(d, AtomSources)
        ids == {r.id : r \in Range(Mended(d, Sources))}
    IN  /\ \A i, j \in DOMAIN js: js[i] = js[j] => i = j
        /\ \A i \in DOMAIN js: /\ js[i].atom \in DOMAIN meta /\ js[i].source \in ids
                               /\ Cardinality({j \in DOMAIN js: js[j].atom = js[i].atom}) <= MaxSources

\* The components can be opened, and the journals that are read are in order.
ComponentsOpen(d) ==
    /\ TermsRead(d) /\ G!open_or_create(d, 0).ok /\ EmbReads(d)
    /\ \A f \in {Sources, Predicates, AtomSources}: read_recovering_jsonl(d, f)
    /\ validate_source_records(d) /\ load_source_link_index(d, MetaLoad(d).meta)
    /\ validate_context_manager(read_context_manager(d))

\* The memory of a base that was opened: metadata without a source takes the
\* first that was attached.
OpenedMemory(d) ==
    LET links == [k \in DOMAIN Mended(d, AtomSources) |->
                    SourceLink(Mended(d, AtomSources)[k].atom, Mended(d, AtomSources)[k].source)]
        meta == MetaLoad(d).meta
        first(a) == SelectSeq(links, LAMBDA l: l.atom = a)[1].source
        linked == {l.atom : l \in Range(links)}
    IN  [loc |-> load_state(d), term |-> TermsLoad(d), graph |-> G!open_or_create(d, 0).g,
         meta |-> [a \in DOMAIN meta |-> IF meta[a].source = 0 /\ a \in linked
                                         THEN [meta[a] EXCEPT !.source = first(a)] ELSE meta[a]],
         at |-> MetaLoad(d).at, ctx |-> read_context_manager(d),
         sources |-> {r.id : r \in Range(Mended(d, Sources))}, links |-> links, emb |-> EmbLoad(d)]

\* The writes of MemoryX::new before it replays the resolutions.
OpeningWrites(d) ==
    (IF Has(d, LocFile) THEN <<Instr("idloc", <<>>)>> ELSE <<>>)
    \o Mend(d, Sources) \o Mend(d, Predicates) \o Mend(d, AtomSources)
    \o (IF OpenedMemory(d).meta # MetaLoad(d).meta THEN <<Instr("meta", <<>>)>> ELSE <<>>)
=============================================================================
