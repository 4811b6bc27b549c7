------------------------------- MODULE Relations -------------------------------
(***************************************************************************)
(* Entities, managed predicates and relations of a base (src/store/api.rs):*)
(* journals of records, each relation backed by an atom and projected into *)
(* a context; the audit and repair of the projections; and the resolution  *)
(* of relations whose atom an earlier release had deleted.  Operations are *)
(* programs of LegacyStore.                                                *)
(***************************************************************************)
EXTENDS LegacyStore

CONSTANT MANAGED_PREDICATE_ID_START

-----------------------------------------------------------------------------
(* Entities: the last record of an id stands.  Their journal alone is read  *)
(* without dropping a torn last record.                                     *)

EntityRecord(id, name, type) ==
    [torn |-> FALSE, id |-> id, name |-> name, type |-> type, aliases |-> {}, claims |-> {}, merged |-> {}, split |-> 0]
read_entities(d) == Journal(d, Entities)
EntitiesRead(d) == TornItem \notin Range(read_entities(d))
HasEntity(d, id) == \E e \in Range(read_entities(d)): e.id = id
get_entity(d, id) ==
    LET js == read_entities(d) IN js[Max({k \in DOMAIN js: js[k].id = id})]
append_entity(e) == append_bounded_jsonl(Entities, e)

NextEntity(d) == Max({0} \union {e.id : e \in Range(read_entities(d))}) + 1
create_entity(s, name, type) ==
    IF ~EntitiesRead(s.d) THEN Refuse ELSE append_entity(EntityRecord(NextEntity(s.d), name, type))

\* The operations that write a changed record of a known entity.
Amend(s, id, New(_)) ==
    IF ~EntitiesRead(s.d) THEN Refuse
    ELSE IF ~HasEntity(s.d, id) THEN Refuse
    ELSE append_entity(New(get_entity(s.d, id)))
alias_entity(s, id, alias) == Amend(s, id, LAMBDA e: [e EXCEPT !.aliases = @ \union {alias}])
rename_entity(s, id, name) == Amend(s, id, LAMBDA e: [e EXCEPT !.name = name])
merge_entities(s, target, source) ==
    IF ~EntitiesRead(s.d) THEN Refuse
    ELSE IF ~HasEntity(s.d, source) THEN Refuse
    ELSE LET from == get_entity(s.d, source)
         IN  Amend(s, target, LAMBDA e:
                [e EXCEPT !.aliases = @ \union ((from.aliases \union {from.name}) \ {e.name}),
                          !.claims = @ \union from.claims, !.merged = @ \union {source}])
split_entity(s, source, name, type) ==
    IF ~EntitiesRead(s.d) THEN Refuse
    ELSE IF ~HasEntity(s.d, source) THEN Refuse
    ELSE create_entity(s, name, type)
         \o append_entity([EntityRecord(NextEntity(s.d), name, type) EXCEPT !.split = source])

-----------------------------------------------------------------------------
(* Managed predicates.  A contract is [id, key, name, card, dir, inv]; its  *)
(* id is a hash of the rest, inv the key of its inverse or None.            *)

inverse_cardinality(c) ==
    CASE c = "OneToMany" -> "ManyToOne" [] c = "ManyToOne" -> "OneToMany" [] OTHER -> c

PredicateRecord(contract) == [torn |-> FALSE, contract |-> contract]
read_predicates(d) == {r.contract : r \in Range(Mended(d, Predicates))}

\* Over the records in their order, so that one that is there twice is refused.
validate_predicate_records(js) ==
    LET cs == {js[k].contract : k \in DOMAIN js}
    IN  /\ \A i, j \in DOMAIN js:
              js[i].contract.id = js[j].contract.id \/ js[i].contract.key = js[j].contract.key
              \/ js[i].contract.name = js[j].contract.name => i = j
        /\ \A c \in cs:
            /\ c.dir = "Symmetric" => c.inv \in {None, c.key} /\ c.card \in {"OneToOne", "ManyToMany"}
            /\ c.dir = "Directed" => c.inv # c.key
            /\ \A e \in cs: c.inv = e.key /\ c.inv # c.key =>
                  e.dir = "Directed" /\ e.inv = c.key /\ e.card = inverse_cardinality(c.card)

Managed(pred) == pred >= MANAGED_PREDICATE_ID_START
HasPredicate(d, pred) == \E c \in read_predicates(d): c.id = pred
get_predicate(d, pred) == CHOOSE c \in read_predicates(d): c.id = pred
Cardinal(d, pred) == IF HasPredicate(d, pred) THEN get_predicate(d, pred).card ELSE None

-----------------------------------------------------------------------------
(* Relations.                                                               *)

RelationRecord(id, claim, atom, evidence, ctx, supersedes) ==
    [torn |-> FALSE, id |-> id, subj |-> claim.subj, pred |-> claim.pred, obj |-> claim.val,
     atom |-> atom, evidence |-> evidence, ctx |-> ctx, supersedes |-> supersedes,
     deprecated |-> FALSE]
NODENUM == 1
TripleClaim(subj, pred, obj) == [subj |-> subj, pred |-> pred, tag |-> NODENUM, val |-> obj, qual |-> 0]
relation_claim(r) == TripleClaim(r.subj, r.pred, r.obj)

read_relations(d) == Range(Mended(d, RelationsFile))

\* A journal is read, which mends it and checks its records, before the program
\* goes on; the files are read in their order, up to the first that cannot be.
JournalReads(d, f) ==
    /\ read_recovering_jsonl(d, f)
    /\ f = Predicates => validate_predicate_records(Mended(d, f))
    /\ f = RelationsFile => LET js == Mended(d, f) IN \A i, j \in DOMAIN js: js[i].id = js[j].id => i = j
Reading(s, files, program) ==
    LET bad == {k \in DOMAIN files: ~JournalReads(s.d, files[k])}
        reached == IF bad = {} THEN files ELSE SubSeq(files, 1, Min(bad))
        mend == [k \in DOMAIN reached |-> IF read_recovering_jsonl(s.d, reached[k]) THEN Mend(s.d, reached[k]) ELSE <<>>]
    IN  FlattenSeq(mend) \o IF bad = {} THEN program ELSE Refuse
\* An id below the managed range has no contract, and none is looked for.
require_managed_predicate(s, pred, program) ==
    IF Managed(pred) THEN Reading(s, <<Predicates>>, IF HasPredicate(s.d, pred) THEN program ELSE Refuse)
    ELSE program

NextRelation(d) == Max({0} \union {r.id : r \in read_relations(d)}) + 1
append_relation(r) == append_bounded_jsonl(RelationsFile, r)
current_relation_records(d) ==
    LET all == read_relations(d)
    IN  {r \in all: ~r.deprecated /\ \A q \in all: q.supersedes # r.id}

\* Two relations of a predicate that its contract does not allow side by side.
ContractClash(c, subj, obj, other) ==
    \/ other.subj = subj /\ other.obj = obj
    \/ c.dir = "Symmetric" /\ other.subj = obj /\ other.obj = subj
    \/ c.card \in {"OneToOne", "ManyToOne"} /\ other.subj = subj
    \/ c.card \in {"OneToOne", "OneToMany"} /\ other.obj = obj

validate_relation_contract(d, subj, pred, obj, ignored) ==
    Managed(pred) => \A r \in current_relation_records(d):
        r.id # ignored /\ r.pred = pred => ~ContractClash(get_predicate(d, pred), subj, obj, r)

ensure_predicate_id_unused(s, pred) ==
    /\ \A r \in read_relations(s.d): r.pred # pred
    /\ \A a \in DOMAIN s.m.loc.node: load_atom(s.d, a) /\ \A c \in a.claims: c.pred # pred
register_predicate(s, contract) ==
    LET known == read_predicates(s.d)
        record == PredicateRecord(contract)
        append == Reading(s, <<RelationsFile>>,
            IF ~ensure_predicate_id_unused(s, contract.id)
               \/ ~validate_predicate_records(Append(Mended(s.d, Predicates), record)) THEN Refuse
            ELSE append_bounded_jsonl(Predicates, record))
    IN  Reading(s, <<Predicates>>,
            IF contract \in known THEN <<>>
            ELSE IF \E c \in known: c.key = contract.key \/ c.name = contract.name \/ c.id = contract.id
            THEN Refuse ELSE append)

\* Names, types, aliases, keys; a blank one is left out.
authoring_symbols(d, subj, pred, objs) ==
    LET entities == {get_entity(d, e) : e \in {x \in {subj} \union objs: HasEntity(d, x)}}
        contracts == {c \in read_predicates(d): c.id = pred}
    IN  UNION ({{e.name, e.type} \union e.aliases : e \in entities} \union {{c.key, c.name} : c \in contracts})
        \ {<<>>}
build_authoring_payload(d, claim) ==
    AtomBody({claim}, authoring_symbols(d, claim.subj, claim.pred,
                                        IF claim.tag = NODENUM THEN {claim.val} ELSE {}))

\* preview_relation_context and assert_relation_claim_with_atom_id.
RelationContexts(mgr, ctx, claim, atom, card) ==
    IF card # None THEN {reconcile_claim_with_atom_id(mgr, ctx, claim, atom, card)}
    ELSE assert_claim_with_atom_id(mgr, ctx, claim, atom)

-----------------------------------------------------------------------------
(* The audit of the projections of current relations into contexts.         *)

\* relation_delete_events: the latest deletion of an atom; a time is a place in
\* the history.
relation_delete_events(d, a) ==
    LET js == Mended(d, History)
        of == {k \in DOMAIN js: js[k].op = "DeleteAtom" /\ a \in js[k].atoms}
    IN  IF of = {} THEN <<>> ELSE <<[time |-> Max(of), tomb |-> js[Max(of)].ref[2]]>>

\* What is wrong with a projection: nothing, something that can be put right,
\* or something that cannot.  (Claims with one signature are one claim.)
relation_context_issue(mgr, r, card) ==
    LET claim == relation_claim(r)
        held == get_ctx(mgr, r.ctx).claims
    IN  IF ~HasCtx(mgr, r.ctx)
        THEN IF r.ctx = 0 /\ mgr.contexts = <<>> THEN "repairable" ELSE "blocked"
        ELSE IF claim_signature(claim) \in DOMAIN held
                /\ held[claim_signature(claim)] = ActiveClaim(r.atom, claim) THEN "none"
        ELSE IF Clashes(held, claim, card) THEN "blocked" ELSE "repairable"

\* validate_relation_atom_claim
AtomIssue(s, r) ==
    IF ~load_atom(s.d, r.atom) \/ relation_claim(r) \notin r.atom.claims THEN "blocked"
    ELSE IF is_deleted(s.m, r.atom) THEN "tombstoned" ELSE "none"

relation_contract_issue(d, r) ==
    IF ~HasPredicate(d, r.pred) THEN Managed(r.pred)
    ELSE \E q \in current_relation_records(d):
            q.id # r.id /\ q.pred = r.pred /\ ContractClash(get_predicate(d, r.pred), r.subj, r.obj, q)

\* validate_parallel_relation_projection: the atom through which the claim is
\* active instead, and whether it may give way.
ParallelAtoms(mgr, r) ==
    IF ~HasCtx(mgr, r.ctx) THEN {}
    ELSE LET held == get_ctx(mgr, r.ctx).claims
         IN  {held[g].atom : g \in {h \in DOMAIN held: held[h].claim = relation_claim(r)}} \ {r.atom}
MayGiveWay(s, r) ==
    \A a \in ParallelAtoms(s.m.ctx, r):
        /\ \A q \in current_relation_records(s.d): q.atom # a
        /\ get_atom(s, a) /\ a.claims = {relation_claim(r)}

\* audit_relation_contexts, for one relation.
AuditOf(s, r) ==
    LET context == relation_context_issue(s.m.ctx, r, Cardinal(s.d, r.pred))
    IN  IF AtomIssue(s, r) # "none" THEN AtomIssue(s, r)
        ELSE IF relation_contract_issue(s.d, r) THEN "blocked"
        ELSE IF context = "repairable" /\ ~MayGiveWay(s, r) THEN "blocked" ELSE context

WithContext(mgr, ctx) == IF HasCtx(mgr, ctx) THEN mgr ELSE create_context(mgr, 0)

\* The edges by which atoms that gave way are superseded.
SupersedingEdges(s, planned) ==
    FlattenSeq([k \in DOMAIN planned |->
        SelectSeq(Listed({<<get_node_num(s.m, planned[k].atom), get_node_num(s.m, a)>> :
                              a \in ParallelAtoms(s.m.ctx, planned[k]) \ superseded_atom_ids(s.m)}),
                  LAMBDA e: ~G!has_edge(s.m.graph, e[1], e[2], SUPERSEDES))])

rollback_relation_reconciliation(s, edges) ==
    (IF edges = <<>> THEN <<>>
     ELSE <<Instr("unedges", edges), OnError(Instr("delta", <<>>), "skip"),
            OnError(Instr("manifest", <<>>), "next")>>)
    \o write_context_manager(s.m.ctx)

\* reconcile_relation_records: claims are put in place, the atoms that gave way
\* are superseded, and a graph or a history that cannot be written undoes it.
reconcile_relation_records(s, relations) ==
    LET planned == Ordered({r \in relations: AuditOf(s, r) = "repairable"}, LAMBDA r, q: r.id < q.id)
        place(o, r) == IF o.rejected THEN o
                       ELSE reconcile_claim_with_atom_id(WithContext(o.mgr, r.ctx), r.ctx, relation_claim(r),
                                                         r.atom, Cardinal(s.d, r.pred))
        placed == FoldLeft(place, Accepted(s.m.ctx, 0), planned)
        edges == SupersedingEdges(s, planned)
        undone(p) == [k \in DOMAIN p |-> [p[k] EXCEPT !.undo = rollback_relation_reconciliation(s, edges)]]
        atoms == {r.atom : r \in Range(planned)} \union UNION {ParallelAtoms(s.m.ctx, r) : r \in Range(planned)}
        program ==
            IF \E r \in relations: AuditOf(s, r) \notin {"none", "repairable"} THEN Refuse
            ELSE IF planned = <<>> THEN <<>>
            ELSE IF placed.rejected THEN Refuse
            ELSE write_context_manager(placed.mgr)
                 \o (IF edges = <<>> THEN <<>> ELSE <<Instr("edges", edges)>> \o undone(GraphSave))
                 \o undone(record_history("Repair", atoms))
    IN  Reading(s, <<RelationsFile, History>> \o (IF relations = {} THEN <<>> ELSE <<Predicates>>), program)

-----------------------------------------------------------------------------
(* Writing relations.                                                       *)

\* Mutant: an atom is deleted whatever relation it backs.
DeleteUnchecked(s, a) ==
    IF is_deleted(s.m, a) \/ a \notin DOMAIN s.m.meta THEN Refuse
    ELSE Reading(s, <<RelationsFile>>, TombstoneAtom(a))
\* delete_atom: not the atom of a current relation.
delete_atom(s, a) ==
    IF is_deleted(s.m, a) \/ a \notin DOMAIN s.m.meta THEN Refuse
    ELSE Reading(s, <<RelationsFile>>,
                 IF \E r \in current_relation_records(s.d): r.atom = a THEN Refuse ELSE TombstoneAtom(a))

AssertClaim(s, ctx, claim, atom) ==
    ensure_authoring_context(s, ctx)
    \o AndThen("assert_claim", [ctx |-> ctx, claim |-> claim, atom |-> atom])

\* The context is made before the symbols are read.
add_entity_claim(s, id, pred, tag, val, ctx, evidence) ==
    IF ~EntitiesRead(s.d) THEN Refuse
    ELSE IF ~HasEntity(s.d, id) THEN Refuse
    ELSE require_managed_predicate(s, pred,
            ensure_authoring_context(s, ctx)
            \o AndThen("claim", [claim |-> [subj |-> id, pred |-> pred, tag |-> tag, val |-> val, qual |-> 0],
                                 ctx |-> ctx, evidence |-> evidence]))
EntityClaim(s, l) ==
    LET atom == build_authoring_payload(s.d, l.claim)
    IN  Reading(s, <<Predicates>>,
            ingest(s, atom, l.evidence)
            \o AndThen("assert_claim", [ctx |-> l.ctx, claim |-> l.claim, atom |-> atom])
            \o append_entity([get_entity(s.d, l.claim.subj) EXCEPT !.claims = @ \union {atom}]))

\* The common part of assert_relation and correct_relation (old is <<>> or the
\* relation corrected): the context is tried before the atom is stored.
Author(s, claim, ctx, evidence, old) ==
    ensure_authoring_context(s, ctx)
    \o AndThen("author", [claim |-> claim, ctx |-> ctx, evidence |-> evidence, old |-> old])
Authored(s, l) ==
    LET atom == build_authoring_payload(s.d, l.claim)
        stored == IF l.old = <<>> THEN ingest(s, atom, l.evidence)
                  ELSE update_atom(s, l.old[1].atom, atom, l.evidence)
        relation(o) == RelationRecord(NextRelation(s.d), l.claim, atom, l.evidence, o.ctx,
                                      IF l.old = <<>> THEN 0 ELSE l.old[1].id)
        program(o) == IF o.rejected THEN Refuse
                      ELSE Reading(s, <<RelationsFile>>,
                                   stored \o write_context_manager(o.mgr) \o append_relation(relation(o)))
    IN  IF ~EntitiesRead(s.d) \/ ~JournalReads(s.d, Predicates) THEN {Refuse}
        ELSE {Reading(s, <<Predicates>>, program(o)) :
                o \in RelationContexts(s.m.ctx, l.ctx, l.claim, atom, Cardinal(s.d, l.claim.pred))}

assert_relation(s, subj, pred, obj, ctx, evidence) ==
    LET claim == TripleClaim(subj, pred, obj)
        same == {r \in current_relation_records(s.d): relation_claim(r) = claim /\ r.ctx = ctx}
        first == CHOOSE q \in same: \A p \in same: q.id <= p.id
        program ==
            IF same # {} THEN IF first.evidence # evidence THEN Refuse ELSE AndThen("reconcile", {first})
            ELSE IF ~validate_relation_contract(s.d, subj, pred, obj, 0) THEN Refuse
            ELSE Author(s, claim, ctx, evidence, <<>>)
    IN  IF ~EntitiesRead(s.d) THEN Refuse
        ELSE IF ~HasEntity(s.d, subj) \/ ~HasEntity(s.d, obj) THEN Refuse
        ELSE require_managed_predicate(s, pred, Reading(s, <<RelationsFile>>, program))

\* Any relation on record may be corrected, whether it is current or not, and
\* its new ends need not be known entities.
correct_relation(s, old, subj, pred, obj, ctx, evidence) ==
    LET was == {r \in read_relations(s.d): r.id = old}
        program == IF ~validate_relation_contract(s.d, subj, pred, obj, old) THEN Refuse
                   ELSE Author(s, TripleClaim(subj, pred, obj), ctx, evidence, <<CHOOSE r \in was: TRUE>>)
    IN  Reading(s, <<RelationsFile>>,
                IF was = {} THEN Refuse ELSE require_managed_predicate(s, pred, program))

\* transition_relation: the projection of the old relation is put right first,
\* and its claim is replaced after the atom and its sources are stored.
transition_relation(s, old, obj, ctx, evidence, sources) ==
    LET was == CHOOSE r \in read_relations(s.d): r.id = old
        program ==
            IF \/ was.obj = obj \/ ~validate_relation_contract(s.d, was.subj, was.pred, obj, old)
               \/ Cardinality(sources) > MaxSources \/ ~(sources \subseteq s.m.sources) THEN Refuse
            ELSE ensure_authoring_context(s, ctx)
                 \o AndThen("symbols", <<>>)
                 \o (IF ctx = was.ctx THEN AndThen("reconcile", {was}) ELSE <<>>)
                 \o AndThen("transition",
                            [was |-> was, obj |-> obj, ctx |-> ctx, evidence |-> evidence, sources |-> sources])
    IN  IF ~EntitiesRead(s.d) THEN Refuse
        ELSE IF ~HasEntity(s.d, obj) THEN Refuse
        ELSE Reading(s, <<RelationsFile>>,
                IF \A r \in current_relation_records(s.d): r.id # old THEN Refuse
                ELSE require_managed_predicate(s, was.pred, program))

Successor(l) == TripleClaim(l.was.subj, l.was.pred, l.obj)
Replacing(s, l) ==
    replace_claim_with_atom_id_for_cardinality(
        s.m.ctx, l.ctx, l.was.atom, Successor(l), build_authoring_payload(s.d, Successor(l)), Cardinal(s.d, l.was.pred))
Transitioned(s, l) ==
    LET atom == build_authoring_payload(s.d, Successor(l))
        sources == Ordered(l.sources, <)
    IN  IF Replacing(s, l).rejected THEN Refuse
        ELSE update_atom(s, l.was.atom, atom, l.evidence)
             \o FlattenSeq([k \in DOMAIN sources |-> AndThen("source", SourceLink(atom, sources[k]))])
             \o AndThen("replace", l)
Replaced(s, l) ==
    LET atom == build_authoring_payload(s.d, Successor(l))
    IN  write_context_manager(Replacing(s, l).mgr)
        \o append_relation(RelationRecord(NextRelation(s.d), Successor(l), atom, l.evidence, l.ctx, l.was.id))
        \o record_history("TransitionRelation", {atom, l.was.atom}) \o save_memory

-----------------------------------------------------------------------------
(* Relations whose atom an earlier release deleted: the operator restores   *)
(* the atom or retires the relation.                                        *)

ResolutionId(r, action, event) == [relation |-> r, action |-> action, event |-> event]
\* A backup is named by the batch of its operations.
BatchOf(ops) ==
    FoldSet(LAMBDA x, n: n + 2 ^ (2 * x.relation.id + IF x.action = "RestoreAtom" THEN 0 ELSE 1), 0, ops)
BackupFiles == {LocFile, IdLocFile, MetaFile, ContextsFile, RelationsFile, History, Sources, AtomSources, Resolutions}
Backup(n) == Name("backup", n)
BackupManifest(n) == Name("backup.manifest", n)

validate_relation_tombstone_backup(d, n, ops) ==
    /\ Has(d, BackupManifest(n)) /\ Has(d, Backup(n))
    /\ ops \subseteq d[BackupManifest(n)].head[1] /\ BatchOf(d[BackupManifest(n)].head[1]) = n
\* create_relation_tombstone_backup: copies, then the manifest that counts; one
\* that is there from an earlier try is used again.
create_relation_tombstone_backup(s, ops) ==
    LET n == BatchOf(ops)
        copies == File(Restrict(s.d, DOMAIN s.d \intersect BackupFiles), <<>>)
    IN  IF Has(s.d, BackupManifest(n))
        THEN IF validate_relation_tombstone_backup(s.d, n, ops) THEN <<>> ELSE Refuse
        ELSE <<Instr("backup", [file |-> Backup(n), with |-> copies]),
               Instr("backup", [file |-> BackupManifest(n), with |-> File(ops, <<>>)])>>

OperationId(rec) == ResolutionId(rec.relation, rec.action, rec.event)
read_relation_tombstone_resolutions(d) == Mended(d, Resolutions)
\* What the reader requires of the records: one for a relation, which is on
\* record as it was, as is the deletion of its atom, and a backup that names it.
ResolutionsValid(s) ==
    LET js == read_relation_tombstone_resolutions(s.d)
        ops(n) == {OperationId(js[k]) : k \in {j \in DOMAIN js: js[j].backup = n}}
    IN  /\ \A i, j \in DOMAIN js: js[i].relation.id = js[j].relation.id => i = j
        /\ \A i \in DOMAIN js:
            /\ js[i].relation \in read_relations(s.d) /\ load_atom(s.d, js[i].relation.atom)
            /\ relation_delete_events(s.d, js[i].relation.atom) = <<js[i].event>>
            /\ js[i].trust # 0 /\ (js[i].action = "RetireRelation") = (js[i].retire # 0)
            /\ validate_relation_tombstone_backup(s.d, js[i].backup, ops(js[i].backup))
ReadingResolutions(s, program) ==
    Reading(s, <<Resolutions, RelationsFile, History>>, IF ResolutionsValid(s) THEN program ELSE Refuse)

applied_relation_tombstone_operation_ids(d) ==
    {e.ref[1] : e \in {h \in Range(Mended(d, History)): h.op = "ResolveRelationTombstone"}}

\* The claim of a relation may be put back into its context.
Restorable(s, r) ==
    /\ ~relation_contract_issue(s.d, r)
    /\ HasCtx(s.m.ctx, r.ctx) \/ (r.ctx = 0 /\ s.m.ctx.contexts = <<>>)
    /\ ~reconcile_claim_with_atom_id(WithContext(s.m.ctx, r.ctx), r.ctx, relation_claim(r), r.atom,
                                     Cardinal(s.d, r.pred)).rejected

\* A resolution [id, action] that was asked for: the one on record, or a new
\* one of a current relation, the only one of its atom, which was deleted.
OnRecord(s, w) == {r \in Range(read_relation_tombstone_resolutions(s.d)): r.relation.id = w.id}
CurrentOf(s, w) == {r \in current_relation_records(s.d): r.id = w.id}
Plannable(s, w) ==
    IF OnRecord(s, w) # {} THEN \A x \in OnRecord(s, w): x.action = w.action
    ELSE \E r \in CurrentOf(s, w):
            /\ \A q \in current_relation_records(s.d): q.atom = r.atom => q = r
            /\ is_deleted(s.m, r.atom) /\ load_atom(s.d, r.atom) /\ r.atom.claims = {relation_claim(r)}
            /\ r.atom \in DOMAIN s.m.meta /\ s.m.meta[r.atom].trust \in {0, Trust}
            /\ relation_delete_events(s.d, r.atom) # <<>>
            /\ w.action = "RestoreAtom" => Restorable(s, r)
\* Every new record takes a relation id, whether it retires or not.
plan_relation_tombstone_resolutions(s, want) ==
    LET order == Ordered(want, LAMBDA v, w: v.id < w.id)
        fresh(k) == Cardinality({j \in 1..k - 1: OnRecord(s, order[j]) = {}})
        planned(k) ==
            LET r == CHOOSE q \in CurrentOf(s, order[k]): TRUE
            IN  [torn |-> FALSE, relation |-> r, action |-> order[k].action, trust |-> Trust, backup |-> 0,
                 event |-> relation_delete_events(s.d, r.atom)[1],
                 retire |-> IF order[k].action = "RetireRelation" THEN NextRelation(s.d) + fresh(k) ELSE 0]
    IN  [k \in DOMAIN order |-> IF OnRecord(s, order[k]) = {} THEN planned(k)
                                ELSE CHOOSE x \in OnRecord(s, order[k]): TRUE]

\* What both actions end with.
Resolved(rec) ==
    append_bounded_jsonl(History, [torn |-> FALSE, op |-> "ResolveRelationTombstone",
                                   atoms |-> {rec.relation.atom}, ref |-> <<OperationId(rec)>>])

RestoreAtom(s, rec) ==
    LET r == rec.relation
        mgr == WithContext(s.m.ctx, r.ctx)
        placed == reconcile_claim_with_atom_id(mgr, r.ctx, relation_claim(r), r.atom, Cardinal(s.d, r.pred))
        undeleted == IF is_deleted(s.m, r.atom) THEN <<Instr("undelete", [atom |-> r.atom])>> \o LocSave ELSE <<>>
        conflicting == IF r.atom \in DOMAIN s.m.meta THEN s.m.meta[r.atom].trust \notin {0, rec.trust} ELSE TRUE
        trusted == IF s.m.meta[r.atom].trust # 0 THEN <<>>
                   ELSE <<Instr("trust", [atom |-> r.atom, trust |-> rec.trust]), Instr("meta", <<>>)>>
        program ==
            IF \/ r \notin current_relation_records(s.d)
               \/ ~HasCtx(s.m.ctx, r.ctx) /\ ~(r.ctx = 0 /\ s.m.ctx.contexts = <<>>) THEN Refuse
            ELSE IF placed.rejected THEN Refuse
            ELSE undeleted \o (IF conflicting THEN Refuse ELSE trusted \o write_context_manager(placed.mgr))
    IN  Reading(s, <<RelationsFile, Predicates>>, program)

RetireRelation(s, rec) ==
    LET retirement == [RelationRecord(rec.retire, relation_claim(rec.relation), rec.relation.atom,
                                      rec.relation.evidence, rec.relation.ctx, rec.relation.id)
                       EXCEPT !.deprecated = TRUE]
        taken == {q \in read_relations(s.d): q.id = rec.retire}
    IN  Reading(s, <<RelationsFile>>,
            IF taken # {} /\ taken # {retirement} THEN Refuse
            ELSE (IF taken = {} THEN append_relation(retirement) ELSE <<>>)
                 \o write_context_manager(retire_atom_projections(s.m.ctx, rec.relation.atom)))

apply_relation_tombstone_resolution(s, rec) ==
    IF OperationId(rec) \in applied_relation_tombstone_operation_ids(s.d) THEN <<>>
    ELSE (IF rec.action = "RestoreAtom" THEN RestoreAtom(s, rec) ELSE RetireRelation(s, rec))
         \o Resolved(rec) \o save_memory

\* The resolutions on record that are wanted, one after the other.
ApplyAll(s, Wanted(_)) ==
    LET js == SelectSeq(read_relation_tombstone_resolutions(s.d), Wanted)
    IN  FlattenSeq([k \in DOMAIN js |-> AndThen("resolve", js[k])])
replay_relation_tombstone_resolutions(s) == ReadingResolutions(s, ApplyAll(s, LAMBDA rec: TRUE))

\* The relations that a migration is about ({} selects all), of which every one
\* named must be current or resolved before.
Selection(s, ids, wanted) ==
    IF ids = {} THEN {r.id : r \in current_relation_records(s.d)} \union wanted ELSE ids
Selectable(s, ids, wanted) ==
    /\ \A x \in ids: \/ \E r \in current_relation_records(s.d): r.id = x
                      \/ \E rec \in Range(read_relation_tombstone_resolutions(s.d)): rec.relation.id = x
    /\ wanted \subseteq Selection(s, ids, wanted)
\* Those that stay as they are, and those whose projection is put right.
Blocked(s, selected, wanted) ==
    {r \in current_relation_records(s.d):
        /\ r.id \in selected /\ AuditOf(s, r) \in {"blocked", "tombstoned"}
        /\ ~(AuditOf(s, r) = "tombstoned" /\ r.id \in wanted)}
Eligible(s, selected, wanted) ==
    {r \in current_relation_records(s.d): r.id \in selected \ wanted /\ AuditOf(s, r) = "repairable"}

\* The new resolutions are put on record, after one backup of them all, before
\* any is applied.
CommitResolutions(s, planned) ==
    LET onrecord == {OperationId(r) : r \in Range(read_relation_tombstone_resolutions(s.d))}
        new == SelectSeq(planned, LAMBDA rec: OperationId(rec) \notin onrecord)
        ops == {OperationId(rec) : rec \in Range(new)}
    IN  (IF new = <<>> THEN <<>> ELSE create_relation_tombstone_backup(s, ops))
        \o FlattenSeq([k \in DOMAIN new |->
                          append_bounded_jsonl(Resolutions, [new[k] EXCEPT !.backup = BatchOf(ops)])])
Committed(s, ids) == ReadingResolutions(s, ApplyAll(s, LAMBDA rec: rec.relation.id \in ids))

\* migrate_relation_contexts, with the resolutions that are wanted.
migrate_relation_contexts(s, ids, want, partial, dry_run) ==
    LET wanted == {w.id : w \in want}
        selected == Selection(s, ids, wanted)
        unique == \A v, w \in want: v.id = w.id => v = w
        program ==
            IF ~Selectable(s, ids, wanted) \/ ~unique \/ \E w \in want: ~Plannable(s, w) THEN Refuse
            ELSE IF dry_run THEN <<>>
            ELSE IF ~partial /\ Blocked(s, selected, wanted) # {} THEN Refuse
            ELSE CommitResolutions(s, plan_relation_tombstone_resolutions(s, want))
                 \o AndThen("committed", wanted)
                 \o AndThen("reconcile", Eligible(s, selected, wanted))
                 \o IF partial THEN <<>> ELSE AndThen("verify", selected)
        audited == IF current_relation_records(s.d) = {} THEN <<>> ELSE <<Predicates>>
    IN  Reading(s, <<RelationsFile, History>>, Reading(s, audited, ReadingResolutions(s, program)))
repair_relation_contexts(s) == migrate_relation_contexts(s, {}, {}, FALSE, FALSE)

\* MemoryX::new
Open(s) ==
    IF ~ComponentsOpen(s.d) THEN Refuse
    ELSE IF ~validate_predicate_records(Mended(s.d, Predicates)) THEN Refuse
    ELSE OpeningWrites(s.d) \o AndThen("replay", <<>>)

-----------------------------------------------------------------------------
\* The programs by which the rest of an operation may go on; the order of a hash
\* map decides between them.
Resumed(s, l) ==
    CASE l.what = "assert_claim" ->
            {IF o.rejected THEN Refuse ELSE write_context_manager(o.mgr) :
                o \in assert_claim_with_atom_id(s.m.ctx, l.arg.ctx, l.arg.claim, l.arg.atom)}
      [] l.what = "claim" -> {EntityClaim(s, l.arg)}
      [] l.what = "author" -> Authored(s, l.arg)
      [] l.what = "symbols" -> {Reading(s, <<Predicates>>, <<>>)}
      [] l.what = "reconcile" -> {reconcile_relation_records(s, l.arg)}
      [] l.what = "transition" -> {Transitioned(s, l.arg)}
      [] l.what = "source" -> {set_atom_source(s, l.arg.atom, l.arg.source)}
      [] l.what = "replace" -> {Replaced(s, l.arg)}
      [] l.what = "resolve" -> {apply_relation_tombstone_resolution(s, l.arg)}
      [] l.what = "committed" -> {Committed(s, l.arg)}
      [] l.what = "replay" -> {replay_relation_tombstone_resolutions(s)}
      [] l.what = "verify" ->
            {IF \E r \in current_relation_records(s.d): r.id \in l.arg /\ AuditOf(s, r) # "none"
             THEN Refuse ELSE <<>>}
=============================================================================
