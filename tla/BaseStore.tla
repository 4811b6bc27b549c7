------------------------------- MODULE BaseStore -------------------------------
(***************************************************************************)
(* The life of one legacy base (MemoryX of src/store/api.rs).  Callers run *)
(* one operation at a time; its program is executed instruction by         *)
(* instruction, any write may fail, the process may die at any of them,    *)
(* and the base is opened again (MemoryX::new), which replays what an      *)
(* interrupted resolution left to do.                                      *)
(***************************************************************************)
EXTENDS StoreReads

CONSTANTS
    StoreAtoms,     \* atoms that callers ingest
    Names,          \* names and aliases of entities
    EntityTypes,    \* types of entities
    EntityIds,      \* entities that callers change or make claims of
    Pairs,          \* subjects and objects that callers relate
    PredicateIds,   \* predicates that callers use
    Contracts,      \* contracts that callers register
    Setups,         \* calls that make the base to start from, [kind, calls]
    MaxStoreOps,    \* bound: operations
    MaxStoreFaults  \* bound: failed writes and crashes

VARIABLES
    base,     \* [m, d]: memory and directory
    kind,     \* which operations the callers of this base use: those on atoms, on
              \* entities, on relations, or on relations of an earlier release
    bphase,   \* setup, open, busy, opening, down, or refused (MemoryX::new failed)
    program,  \* instructions still to be executed
    promise,  \* what the running operation, or the opening, promises
    acks,     \* what was promised
    bops, bfaults

bvars == <<base, kind, bphase, program, promise, acks, bops, bfaults>>

\* What an operation promises once it returned.
Promise(what) == [what |-> what, kept |-> {}, gone |-> {}, links |-> {}, doubt |-> {}]
Keeps(what, atoms) == [Promise(what) EXCEPT !.kept = atoms]
\* legacy: atoms of current relations that an earlier release deleted.
\* doubt: atoms whose deletion or restoration was begun.
\* ctxs: the contexts as they were promised or as they were to become since.
Acks(s) ==
    LET legacy == {r.atom : r \in {q \in current_relation_records(s.d): is_deleted(s.m, q.atom)}}
    IN  [kept |-> Range(s.m.at), gone |-> {}, links |-> Range(s.m.links), doubt |-> legacy,
         legacy |-> legacy, ctxs |-> {s.m.ctx}]

ManagersOf(p) == {p[k].arg[1] : k \in {j \in DOMAIN p: p[j].op = "ctx.in" /\ p[j].arg # <<>>}}

\* An empty base.
NoBase == [m |-> EmptyMemory, d |-> NoDisk]
BaseInit ==
    /\ \E b \in Setups: kind = b.kind /\ program = b.calls
    /\ base = NoBase /\ acks = Acks(NoBase)
    /\ bphase = "setup" /\ promise = Promise("idle")
    /\ bops = 0 /\ bfaults = 0

\* A relation without a projection, and a deleted atom of a current relation, are
\* what earlier releases leave.
Unprojected(s, subj, pred, obj) ==
    LET claim == TripleClaim(subj, pred, obj)
        atom == AtomBody({claim}, {})
    IN  ingest(s, atom, {}) \o append_relation(RelationRecord(NextRelation(s.d), claim, atom, {}, 0, 0))

\* The calls of a setup.
SetupCall(s, l) ==
    CASE l.what = "ingest" -> ingest(s, l.arg, {})
      [] l.what = "register_source" -> register_source(s)
      [] l.what = "create_context" -> CreateContext(s)
      [] l.what = "create_entity" -> create_entity(s, l.arg[1], l.arg[2])
      [] l.what = "register_predicate" -> register_predicate(s, l.arg)
      [] l.what = "assert_relation" -> assert_relation(s, l.arg[1], l.arg[2], l.arg[3], 0, {})
      [] l.what = "add_entity_claim" -> add_entity_claim(s, l.arg[1], l.arg[2], NODENUM, l.arg[3], 0, {})
      [] l.what = "unprojected" -> Unprojected(s, l.arg[1], l.arg[2], l.arg[3])
      [] l.what = "tombstone" -> TombstoneAtom((CHOOSE r \in read_relations(s.d): r.id = l.arg).atom)
SetupCalls == {"ingest", "register_source", "create_context", "create_entity", "register_predicate",
               "assert_relation", "add_entity_claim", "unprojected", "tombstone"}

-----------------------------------------------------------------------------
(* Calls.  One that is refused before its first instruction is no step.     *)

\* The program from its first instruction that has something to do.
Settled(s, p) ==
    LET from[k \in 1..Len(p) + 1] ==
            IF k > Len(p) \/ p[k].op = "refuse" \/ Applies(s, p[k]) THEN SubSeq(p, k, Len(p))
            ELSE from[k + 1]
    IN  from[1]

Run(p, what) ==
    /\ program' = p /\ promise' = what
    /\ acks' = [acks EXCEPT !.doubt = @ \union what.gone \union what.doubt,
                            !.ctxs = @ \union ManagersOf(p)]

Idle == bphase = "open" /\ bops < MaxStoreOps

Call(p, what) ==
    /\ \E q \in {Settled(base, p)}: q # <<>> /\ q[1].op # "refuse" /\ Run(q, what)
    /\ bops' = bops + 1 /\ bphase' = "busy"
    /\ UNCHANGED <<base, kind, bfaults>>

Objects == {e[2] : e \in Pairs}
Known == DOMAIN base.m.meta
Contexts == {c.ctx_id : c \in Range(base.m.ctx.contexts)}

Ingest == \E a \in StoreAtoms:
    Call(ingest(base, a, StoreAtoms), Keeps("ingest", {a}))
BatchIngest == Call(batch_ingest(base, Listed(StoreAtoms)),
                    Keeps("batch_ingest", StoreAtoms \ base.m.loc.del))
UpdateAtom == \E old \in Known, a \in StoreAtoms:
    Call(update_atom(base, old, a, {}), Keeps("update_atom", {a}))
DeleteAtom == \E a \in Known:
    Call(delete_atom(base, a), [Promise("delete_atom") EXCEPT !.gone = {a}])
RebuildIndexes == Call(rebuild_indexes(base), Promise("rebuild_indexes"))
SaveBase == Call(save_memory, Promise("save"))
RegisterSource == Call(register_source(base), Promise("register_source"))
SetAtomSource == \E a \in Known, x \in base.m.sources:
    Call(set_atom_source(base, a, x), [Promise("set_atom_source") EXCEPT !.links = {SourceLink(a, x)}])

\* add_embedding only changes memory; a later save keeps it.
AddEmbedding ==
    /\ bops' = bops + 1
    /\ \E n \in DOMAIN base.m.at:
          base' = [base EXCEPT !.m.emb = add_embedding(@, n, <<1>>)]
    /\ UNCHANGED <<kind, bphase, program, promise, acks, bfaults>>

OpenContext == Call(CreateContext(base), Promise("create_context"))
ForkContext == \E c \in Contexts: Call(fork_context(base, c), Promise("fork_context"))
\* A claim of a stored atom is asserted in a context.
AssertContextClaim == \E c \in Contexts, a \in Known: \E claim \in a.claims:
    Call(AssertClaim(base, c, claim, a), Promise("assert_claim_with_atom_id"))
SetActiveContext == \E c \in Contexts: Call(set_active_context(base, c), Promise("set_active_context"))

RegisterPredicate == \E c \in Contracts: Call(register_predicate(base, c), Promise("register_predicate"))
EntityCall ==
    \E n \in Names, type \in EntityTypes:
        \/ Call(create_entity(base, n, type), Promise("create_entity"))
        \/ \E e \in EntityIds:
              \/ Call(alias_entity(base, e, n), Promise("alias_entity"))
              \/ Call(rename_entity(base, e, n), Promise("rename_entity"))
              \/ Call(split_entity(base, e, n, type), Promise("split_entity"))
MergeEntities == \E e \in EntityIds, f \in Objects: Call(merge_entities(base, e, f), Promise("merge_entities"))

\* Authoring stores an atom that it alone names.
AddEntityClaim == \E e \in EntityIds, q \in PredicateIds:
    Call(add_entity_claim(base, e, q, 0, 1, 0, {}), Promise("add_entity_claim"))
AssertRelation == \E e \in Pairs, q \in PredicateIds, c \in {0} \union Contexts:
    Call(assert_relation(base, e[1], q, e[2], c, {}), Promise("assert_relation"))
CorrectRelation == \E r \in read_relations(base.d), f \in Objects:
    Call(correct_relation(base, r.id, r.subj, r.pred, f, r.ctx, {}), Promise("correct_relation"))
TransitionRelation == \E r \in current_relation_records(base.d), f \in Objects, xs \in SUBSET base.m.sources:
    Call(transition_relation(base, r.id, f, r.ctx, {}, xs), Promise("transition_relation"))
RepairRelations ==
    \/ Call(repair_relation_contexts(base), Promise("repair_relation_contexts"))
    \/ \E dry_run \in BOOLEAN:
          Call(migrate_relation_contexts(base, {}, {}, TRUE, dry_run), Promise("migrate_relation_contexts"))
ResolveTombstone ==
    \E rs \in SUBSET {r \in read_relations(base.d): is_deleted(base.m, r.atom)} \ {{}}:
        \E action \in [rs -> {"RestoreAtom", "RetireRelation"}]:
            Call(migrate_relation_contexts(base, {r.id : r \in rs}, {[id |-> r.id, action |-> action[r]] : r \in rs},
                                           FALSE, FALSE),
                 [Promise("migrate_relation_contexts") EXCEPT !.doubt = {r.atom : r \in rs}])

AtomCalls ==
    \/ Ingest \/ BatchIngest \/ UpdateAtom \/ RebuildIndexes \/ SaveBase \/ RegisterSource
    \/ SetAtomSource \/ AddEmbedding \/ OpenContext \/ ForkContext \/ SetActiveContext
    \/ AssertContextClaim
RelationCalls == CorrectRelation \/ TransitionRelation \/ RepairRelations
EntityCalls == RegisterPredicate \/ EntityCall \/ MergeEntities \/ AddEntityClaim

-----------------------------------------------------------------------------
(* Execution.                                                               *)

Executing == program # <<>> /\ bphase \in {"setup", "busy", "opening"}

\* What follows an instruction, with p left to execute: the last one ends the
\* operation, and an operation that gives up promises nothing.
Follow(s, p, what) ==
    \E after \in {s}: \E rest \in {Settled(after, p)}:
        LET gave_up == rest # <<>> /\ rest[1].op = "refuse"
            ended == rest = <<>> \/ gave_up
            failed_open == gave_up /\ bphase = "opening"
        IN  /\ base' = IF failed_open THEN [after EXCEPT !.m = EmptyMemory] ELSE after
            /\ program' = IF ended THEN <<>> ELSE rest
            /\ bphase' = IF failed_open THEN "down" ELSE IF ended THEN "open" ELSE bphase
            /\ promise' = IF ended /\ bphase = "busy" THEN Promise("idle") ELSE what
            /\ acks' = IF bphase = "setup" THEN Acks(after)
                       ELSE IF rest = <<>>
                       THEN [acks EXCEPT !.kept = @ \union what.kept, !.links = @ \union what.links,
                                         !.gone = (@ \ what.doubt) \union what.gone,
                                         !.legacy = @ \ what.doubt,
                                         !.ctxs = IF after.m.ctx \in @ THEN {after.m.ctx} ELSE @]
                       ELSE [acks EXCEPT !.ctxs = @ \union ManagersOf(rest)]
            /\ UNCHANGED <<kind, bops>>

\* The operation goes on with what it reads now.
Resume ==
    /\ Executing /\ program[1].op = "later"
    /\ \E p \in IF program[1].arg.what \in SetupCalls THEN {SetupCall(base, program[1].arg)}
                ELSE Resumed(base, program[1].arg):
          Follow(base, p \o Tail(program), promise)
    /\ UNCHANGED bfaults

\* An instruction that only changes memory.
Compute ==
    /\ Executing /\ program[1].op \in Pure
    /\ Follow([base EXCEPT !.m = Effect(@, program[1])], Tail(program), promise)
    /\ UNCHANGED bfaults

Write ==
    /\ Executing
    /\ LET i == program[1]
       IN  /\ i.op \notin Pure \union {"later"}
           /\ \E w \in Writes(base, i):
                 Follow([m |-> Effect(base.m, i), d |-> Done(base.d, w)], Tail(program), promise)
    /\ UNCHANGED bfaults

BaseFault == bphase # "setup" /\ bfaults < MaxStoreFaults /\ bfaults' = bfaults + 1

\* A write returned an error.
WriteError ==
    /\ Executing /\ BaseFault
    /\ LET i == program[1]
           fewer == IF i.on_error = "batch" THEN [promise EXCEPT !.kept = @ \ {i.arg.atom}] ELSE promise
       IN  /\ i.op \notin Pure \union {"later"}
           /\ \E w \in Writes(base, i): \E d \in FailureLeaves(base, i, w):
                 Follow([base EXCEPT !.d = d], AfterFailure(i, Tail(program)), fewer)

BaseCrash ==
    /\ Executing /\ BaseFault
    /\ LET i == program[1]
       IN  /\ i.op \notin Pure \union {"later"}
           /\ \E w \in Writes(base, i): \E d \in CrashLeaves(base, i, w):
                 base' = [m |-> EmptyMemory, d |-> d]
    /\ bphase' = "down" /\ program' = <<>>
    /\ UNCHANGED <<kind, promise, acks, bops>>

\* The process ends between two operations; nothing is saved by that.
BaseClose ==
    /\ bphase = "open"
    /\ bphase' = "down" /\ base' = [base EXCEPT !.m = EmptyMemory]
    /\ UNCHANGED <<kind, program, promise, acks, bops, bfaults>>

\* MemoryX::new: the components are read before the first write.
BaseReopen ==
    /\ bphase = "down"
    /\ LET opened == [base EXCEPT !.m = OpenedMemory(base.d)]
           refused(p) == p # <<>> /\ p[1].op = "refuse"
       IN  \E p \in {Open(base)}: \E q \in {IF refused(p) THEN p ELSE Settled(opened, p)}:
              IF refused(q)
              THEN bphase' = "refused" /\ UNCHANGED <<base, program, promise, acks>>
              ELSE /\ base' = opened
                   /\ Run(q, Promise("open"))
                   /\ bphase' = IF q = <<>> THEN "open" ELSE "opening"
    /\ UNCHANGED <<kind, bops, bfaults>>

BaseNext ==
    \/ Idle /\ kind = "atoms" /\ AtomCalls
    \/ Idle /\ kind = "entities" /\ EntityCalls
    \/ Idle /\ kind = "relations" /\ AssertRelation
    \/ Idle /\ kind \in {"relations", "legacy"} /\ RelationCalls
    \/ Idle /\ kind = "legacy" /\ ResolveTombstone
    \/ Idle /\ DeleteAtom
    \/ Resume \/ Compute \/ Write \/ WriteError \/ BaseCrash \/ BaseClose \/ BaseReopen

-----------------------------------------------------------------------------
(* Properties.                                                              *)

\* An atom is there: its body, its number, its metadata, and a number that
\* leads back to it.
Present(a) ==
    /\ load_atom(base.d, a) /\ a \in DOMAIN base.m.loc.node
    /\ a \in DOMAIN base.m.meta /\ a \in Range(base.m.at)

\* While the base is open, whatever failed and wherever the process died before:
\* an atom that ingest, batch_ingest or update_atom acknowledged is present and
\* not deleted unless its deletion was begun; an acknowledged deletion stands,
\* with trust 0; an acknowledged source stays attached; and the contexts are the
\* last acknowledged ones or ones an unacknowledged operation was to write
\* (save, record_history, write_context_manager, read_context_manager, new).
\* Every live atom then verifies, and the statistics can be taken unless a
\* journal is torn.
AcknowledgedSurvives ==
    bphase = "open" =>
        /\ \A a \in acks.kept: Present(a) /\ (is_deleted(base.m, a) => a \in acks.doubt)
        /\ \A a \in acks.gone: is_deleted(base.m, a) /\ base.m.meta[a].trust = 0
        /\ acks.links \subseteq Range(base.m.links)
        /\ base.m.ctx \in acks.ctxs
        /\ LET checked == verify_integrity(base)
           IN  IF checked = Failed THEN ~AuditReads(base) ELSE checked[1].valid = checked[1].checked
        /\ statistics(base) = Failed =>
               \/ ~EntitiesRead(base.d)
               \/ \E f \in {RelationsFile, Predicates}: ~JournalReads(base.d, f)

\* Two relations side by side that the cardinality of their predicate forbids.
Collide(c, r, q) ==
    \/ r.subj = q.subj /\ (r.obj = q.obj \/ c.card = "ManyToOne" \/ c.card = "OneToOne")
    \/ r.obj = q.obj /\ (c.card = "OneToMany" \/ c.card = "OneToOne")

FoundByName(r, superseded) ==
    (EntitiesRead(base.d) /\ JournalReads(base.d, Predicates) /\ HasEntity(base.d, r.subj)
     /\ r.atom \notin superseded) =>
        /\ r.atom \in resolve_structured_target_atoms(base, r.subj, <<>>, FALSE)[1]
        /\ get_node_num(base.m, r.atom) \in DOMAIN base.m.at =>
              get_node_num(base.m, r.atom) \in search_lex(base, <<get_entity(base.d, r.subj).name>>, <<>>)

\* While the base is open, every current relation is backed by an atom that is
\* present, holds its claim and is not deleted (but for those an earlier release
\* deleted), the current relations keep the contracts of their predicates, and a
\* base that was just opened has finished every resolution on record: the atom
\* is restored, or the relation is no longer current (delete_atom,
\* validate_relation_contract, replay_relation_tombstone_resolutions).  A
\* lookup of its subject finds the atom of every current relation that no
\* other atom supersedes (resolve_structured_target_atoms, and search_lex if
\* the number of the atom leads back to it).
RelationsBacked ==
    bphase = "open" /\ JournalReads(base.d, RelationsFile) =>
        LET current == current_relation_records(base.d)
            superseded == superseded_atom_ids(base.m)
        IN  /\ \A r \in current:
                  /\ Present(r.atom) /\ relation_claim(r) \in r.atom.claims
                  /\ is_deleted(base.m, r.atom) => r.atom \in acks.legacy
                  /\ FoundByName(r, superseded)
            /\ \A r, q \in current: r # q /\ r.pred = q.pred /\ Managed(r.pred) =>
                  ~Collide(get_predicate(base.d, r.pred), r, q)
            /\ promise.what = "open" =>
                  \A rec \in Range(Mended(base.d, Resolutions)):
                      IF rec.action = "RetireRelation" THEN rec.relation \notin current
                      ELSE rec.relation \in current => ~is_deleted(base.m, rec.relation.atom)
=============================================================================
