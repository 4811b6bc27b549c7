--------------------------- MODULE ProductionTxn ---------------------------
(***************************************************************************)
(* The production-v2 transaction engine of store/operation_txn.rs, behind  *)
(* ProductionMemoryX: open, direct_ingest, batch_ingest and update_atom.   *)
(*                                                                         *)
(* One process owns a base directory (an exclusive BaseLease, see module   *)
(* BaseLease).  Every operation first re-opens the runtime from disk       *)
(* (pending clean-up, replay of the committed generations, idempotent      *)
(* installation of the head), then decides, stages a private               *)
(* .pending-<uuid> tree, commits it by one directory rename, installs it   *)
(* and re-opens once more before it acknowledges.  Each durable step is    *)
(* an action of its own, and the owner may die between any two of them     *)
(* (or inside a file write, when TornWrites).                              *)
(*                                                                         *)
(* Hashes are modelled as what they are computed from: two hashes are      *)
(* equal exactly when their inputs are.                                    *)
(***************************************************************************)
EXTENDS Integers, Sequences, FiniteSets

CONSTANTS
    TxIds,          \* transaction UUIDs
    Atoms,          \* canonical AtomIds
    Bodies,         \* exact body byte strings
    AtomOf,         \* the AtomId a body canonicalises to; NoAtom if invalid
    NoAtom,
    Provs,          \* provenance byte strings of an update
    ZeroProv,       \* the zero-provenance leaf of direct and batch atoms
    Requests,       \* the requests clients issue (see RequestType)
    MaxGenerations, \* PRODUCTION_MAX_GENERATIONS
    MaxFaults,      \* bound: crashes and I/O errors in a behaviour
    FaultsIn,       \* the <<phase, operation kind>> pairs where faults may strike
    TornWrites,     \* may a crash leave a half-written new file?
    NoFile, TornFile, NoReceipt

Kinds == {"direct", "batch", "update"}

\* items: the body of a direct ingest, the items of a batch, the successor
\* body of an update; old and prov belong to updates only.
RequestType ==
    [kind : Kinds, items : Seq(Bodies), old : Atoms \cup {NoAtom},
     prov : Provs \cup {ZeroProv}]

ASSUME RequestsAssumption ==
    /\ Requests \subseteq RequestType
    /\ \A r \in Requests : /\ r.items # << >>
                           /\ r.kind # "batch" => Len(r.items) = 1
                           /\ r.kind = "update" => r.old \in Atoms
ASSUME AtomOfAssumption ==
    AtomOf \in [Bodies -> Atoms \cup {NoAtom}] /\ NoAtom \notin Atoms
ASSUME BoundsAssumption ==
    /\ MaxGenerations \in Nat \ {0}
    /\ MaxFaults \in Nat
    /\ TornWrites \in BOOLEAN
ASSUME SentinelAssumption == ZeroProv \notin Provs

VARIABLES
    \* durable state
    gens,     \* generations/<20 digits>/: the committed generations, in order
    pend,     \* generations/.pending-<uuid>/, or NoFile
    seg,      \* cas/seg_00000.dat, as the sequence of its record halves
    segs,     \* cas/segments/seg_<generation>.skf1 of the updates
    live,     \* the live projections, one per target
    temp,     \* the .<target>.production-install.tmp files
    \* the owner process
    pc,       \* phase
    cont,     \* what the running open or installation returns to
    op,       \* the operation being executed
    step,     \* position in the staging plan or installation list
    fold,     \* the state production_open_runtime is accumulating
    rt,       \* ProductionMemoryX::state
    ol,       \* owner_lifetime_transactions
    \* history
    reply,    \* the last result returned to the client
    acked,    \* every success ever returned
    refused,  \* why the last failing open or installation refused, or "none"
    faults    \* crashes and I/O errors so far

disk == <<gens, pend, seg, segs, live, temp>>
owner == <<pc, cont, op, step, fold, rt, ol>>
history == <<reply, acked, refused, faults>>
vars == <<gens, pend, seg, segs, live, temp, pc, cont, op, step, fold, rt, ol,
          reply, acked, refused, faults>>

-----------------------------------------------------------------------------
(* Sequences *)

Elems(s) == {s[i] : i \in 1..Len(s)}
EndsWith(s, e) == s # << >> /\ s[Len(s)] = e

-----------------------------------------------------------------------------
(* Committed state: atoms in commit order, the supersession edges in commit  *)
(* order, one history event per generation.                                  *)

EmptyState == [n |-> 0, atoms |-> << >>, edges |-> << >>, history |-> << >>,
               atom |-> NoAtom]

AtomIds(atoms) == {atoms[i].atom : i \in 1..Len(atoms)}
Nodes(atoms) == {atoms[i].node : i \in 1..Len(atoms)}
Lookup(atoms, a) == atoms[CHOOSE i \in 1..Len(atoms) : atoms[i].atom = a]
Superseded(edges) == {edges[i].old : i \in 1..Len(edges)}

\* max(node_num) + 1, or 0 in an empty base.
NextNode(atoms) ==
    IF atoms = << >> THEN 0
    ELSE 1 + (CHOOSE m \in Nodes(atoms) : \A k \in Nodes(atoms) : k <= m)

\* What production_logical_digest_multi_with_graph hashes.
Digest(n, atoms, edges, hist, sources) ==
    [n |-> n, atoms |-> atoms, edges |-> edges, history |-> hist, sources |-> sources]

\* A record of the CAS occupies two units of its segment, so that an append
\* can be cut in the middle.
Chunks(new) == [i \in 1..2 * Len(new) |->
                  [body |-> new[(i + 1) \div 2].body, half |-> i % 2]]

-----------------------------------------------------------------------------
(* Planning *)

ValidItem(b) == AtomOf[b] # NoAtom

\* Mutant: the duplicates inside a batch go unnoticed.
MutDuplicate(items, i) == FALSE

\* The first valid item with the same AtomId decides; later ones are refused.
Duplicate(items, i) ==
    \E j \in 1..(i - 1) : ValidItem(items[j]) /\ AtomOf[items[j]] = AtomOf[items[i]]

ItemResult(atoms, items, i) ==
    IF ~ValidItem(items[i]) \/ Duplicate(items, i) THEN "refused"
    ELSE IF AtomOf[items[i]] \notin AtomIds(atoms) THEN "created"
    ELSE IF Lookup(atoms, AtomOf[items[i]]).body = items[i] THEN "reused"
    ELSE "refused"

CreatedIn(atoms, items) ==
    {i \in 1..Len(items) : ItemResult(atoms, items, i) = "created"}

\* How many items are created before item i: its rank among the new NodeNums.
Rank(atoms, items, i) == Cardinality({j \in CreatedIn(atoms, items) : j < i})

\* production_plan_batch, after its admission checks.
BatchOutcomes(atoms, items) ==
    [i \in 1..Len(items) |->
       LET r == ItemResult(atoms, items, i) IN
       [result |-> r,
        node |-> CASE r = "created" -> NextNode(atoms) + Rank(atoms, items, i)
                   [] r = "reused"  -> Lookup(atoms, AtomOf[items[i]]).node
                   [] r = "refused" -> -1]]

\* The atom records a batch or a direct ingest creates, in item order.
NewAtoms(atoms, items) ==
    [k \in 1..Cardinality(CreatedIn(atoms, items)) |->
       LET i == CHOOSE j \in CreatedIn(atoms, items) : Rank(atoms, items, j) = k - 1 IN
       [atom |-> AtomOf[items[i]], body |-> items[i],
        node |-> NextNode(atoms) + k - 1, prov |-> ZeroProv]]

\* The files 150..220 of the registry, of which production-v2 itself only ever
\* writes meta/atom_sources.jsonl, must be absent for an edge-free batch.
AnchorsAbsent == live.sources = NoFile

Sources == IF live.sources = NoFile THEN << >> ELSE live.sources

\* Every production operation creates exactly one history event.
Event(tx, n) == [tx |-> tx, n |-> n]

IngestPlan(tx, req) ==
    LET n     == rt.n + 1
        new   == NewAtoms(rt.atoms, req.items)
        atoms == rt.atoms \o new
        event == Event(tx, n)
    IN [tx |-> tx, req |-> req, new |-> new, old |-> NoAtom,
        base |-> Len(rt.atoms), pre |-> seg,
        outcomes |-> BatchOutcomes(rt.atoms, req.items),
        comp |-> [index |-> atoms, history |-> Append(live.history, event),
                  sources |-> << >>, current |-> << >>, graph |-> << >>],
        digest |-> Digest(n, atoms, rt.edges, Append(rt.history, event), << >>)]

\* production_plan_update.  The digest covers the provenance of every update
\* so far, read from the live file, followed by this one's.
UpdatePlan(tx, req) ==
    LET n     == rt.n + 1
        succ  == [atom |-> AtomOf[req.items[1]], body |-> req.items[1],
                  node |-> NextNode(rt.atoms), prov |-> req.prov]
        spv   == [atom |-> succ.atom, prov |-> succ.prov]
        edges == Append(rt.edges, [old |-> req.old, new |-> succ.atom])
        atoms == Append(rt.atoms, succ)
        event == Event(tx, n)
    IN [tx |-> tx, req |-> req, new |-> <<succ>>,
        old |-> Lookup(rt.atoms, req.old), base |-> Len(rt.atoms), pre |-> seg,
        outcomes |-> <<[result |-> "updated", node |-> succ.node]>>,
        comp |-> [index |-> atoms, history |-> <<event>>, sources |-> <<spv>>,
                  current |-> edges, graph |-> edges],
        digest |-> Digest(n, atoms, edges, Append(rt.history, event),
                          Append(Sources, spv))]

Plan(tx, req) == IF req.kind = "update" THEN UpdatePlan(tx, req) ELSE IngestPlan(tx, req)

-----------------------------------------------------------------------------
(* Staging plans: the durable steps of production_stage_*, in order *)

Do(what) == [do |-> what, file |-> <<what, 0>>]
Write(name, k) == [do |-> "write", file |-> <<name, k>>]

RecordPairs(m) ==
    [i \in 1..2 * m |-> Write(IF i % 2 = 1 THEN "record" ELSE "orphan", (i - 1) \div 2)]
Appends(m) == [i \in 1..2 * m |-> Do("append")]

\* Mutant: the segment is written before the descriptors that can undo it.
MutDirectSteps ==
    <<Do("mkdir"), Do("components"), Write("prepare", 0)>> \o Appends(1)
    \o <<Write("record", 0), Write("orphan", 0), Write("part", 0), Write("commit", 0),
         Do("publish")>>

DirectSteps ==
    <<Do("mkdir"), Do("components"), Write("prepare", 0), Write("record", 0),
      Write("orphan", 0)>> \o Appends(1)
    \o <<Write("part", 0), Write("commit", 0), Do("publish")>>

\* Mutant: the append is left to the installation.
MutBatchSteps(m) ==
    <<Do("mkdir"), Do("components")>> \o RecordPairs(m)
    \o <<Write("part", 0), Write("prepare", 0), Write("commit", 0), Do("publish")>>

BatchSteps(m) ==
    <<Do("mkdir"), Do("components")>> \o RecordPairs(m) \o Appends(m)
    \o <<Write("part", 0), Write("prepare", 0), Write("commit", 0), Do("publish")>>

UpdateSteps ==
    <<Do("mkdir"), Do("components"), Write("record", 0), Write("part", 0), Do("create"),
      Write("prepare", 0), Write("commit", 0), Do("publish")>>

StageSteps(kind, m) ==
    CASE kind = "direct" -> DirectSteps
      [] kind = "batch"  -> BatchSteps(m)
      [] kind = "update" -> UpdateSteps

\* The step the owner takes next; the first one computes the plan.
StageNow ==
    IF step <= 2 THEN StageSteps(op.req.kind, 1)[step]
    ELSE StageSteps(op.req.kind, Len(pend.gen.new))[step]

ControlFiles == {<<"prepare", 0>>, <<"commit", 0>>}

-----------------------------------------------------------------------------
(* Initial state: an admitted production-v2 base whose generation zero is    *)
(* empty, and no owner.                                                      *)

NoOp == [tx |-> NoReceipt, req |-> NoReceipt]

BaselineLive == [index |-> << >>, history |-> << >>, sources |-> NoFile,
                 current |-> << >>, graph |-> << >>]
Targets == {"index", "history", "sources", "current", "graph"}

Init ==
    /\ gens = << >> /\ pend = NoFile /\ seg = << >>
    /\ segs = [n \in 1..MaxGenerations |-> NoFile]
    /\ live = BaselineLive
    /\ temp = [t \in Targets |-> NoFile]
    /\ pc = "down" /\ cont = "startup" /\ op = NoOp /\ step = 1
    /\ fold = EmptyState /\ rt = EmptyState
    /\ ol = [tx \in TxIds |-> NoReceipt]
    /\ reply = NoReceipt /\ acked = {} /\ refused = "none" /\ faults = 0

-----------------------------------------------------------------------------
(* Replies *)

\* The receipt every retry of the i-th commit must reproduce.
Receipt(i) == [tx |-> gens[i].tx, req |-> gens[i].req, result |-> "committed",
               n |-> i, outcomes |-> gens[i].outcomes]

\* A success that commits nothing (ReusedCommitted, Unchanged), bound to the head.
HeadReceipt(outcomes) == [tx |-> op.tx, req |-> op.req, result |-> "unchanged",
                          n |-> rt.n, outcomes |-> outcomes]

\* The operation returns: the owner is idle again.
Return(code) ==
    /\ pc' = "idle" /\ cont' = "begin" /\ op' = NoOp /\ step' = 1 /\ fold' = EmptyState
    /\ reply' = [tx |-> op.tx, req |-> op.req, code |-> code]

ReturnReceipt(r) == Return("ok") /\ acked' = acked \cup {r}

\* An open or an installation fails: at startup the lease is released and no
\* runtime exists; inside an operation the caller gets RecoveryRequired.
Refuse(cause) ==
    /\ refused' = cause
    /\ IF cont = "startup"
         THEN /\ pc' = "down" /\ step' = 1 /\ fold' = EmptyState
              /\ UNCHANGED <<cont, op, reply>>
         ELSE Return("recovery")
    /\ UNCHANGED <<disk, rt, ol, acked, faults>>

-----------------------------------------------------------------------------
(* Owner start and operation entry *)

\* ProductionMemoryX::open, up to production_open_runtime.
Start ==
    /\ pc = "down"
    /\ pc' = "check" /\ cont' = "startup" /\ refused' = "none"
    /\ UNCHANGED <<disk, op, step, fold, rt, ol, reply, acked, faults>>

\* direct_ingest, batch_ingest, update_atom: the runtime is re-opened first.
Begin(tx, req) ==
    /\ pc = "idle"
    /\ op' = [tx |-> tx, req |-> req]
    /\ pc' = "check" /\ cont' = "begin" /\ reply' = NoReceipt /\ refused' = "none"
    /\ UNCHANGED <<disk, step, fold, rt, ol, acked, faults>>

-----------------------------------------------------------------------------
(* production_cleanup_pending: validation and CAS rollback *)

ControlWithoutComponents == ~pend.components /\ pend.files # {}

Whole(f) == f \in pend.files \ pend.torn
Ordinals(name) == {k \in 0..Len(pend.gen.new) : <<name, k>> \in pend.files}

\* seg is the parent segment followed by a prefix of what the first m staged
\* records would append.
SuffixIsStaged(m) ==
    /\ Len(seg) >= Len(pend.gen.pre)
    /\ Len(seg) <= Len(pend.gen.pre) + 2 * m
    /\ seg = SubSeq(pend.gen.pre \o Chunks(pend.gen.new), 1, Len(seg))

\* production_rollback_pending_cas takes the first branch whose files it finds.
DirectRollback ==
    IF <<"record", 0>> \notin pend.files /\ <<"orphan", 0>> \notin pend.files THEN "none"
    ELSE IF <<"record", 0>> \notin pend.files \/ <<"orphan", 0>> \notin pend.files
    THEN IF seg = << >> THEN "none" ELSE "half-descriptor"
    ELSE IF ~Whole(<<"orphan", 0>>) THEN "torn-descriptor"
    ELSE IF SuffixIsStaged(1) THEN "truncate" ELSE "unknown-suffix"

BatchRollback ==
    LET records == Ordinals("record")  orphans == Ordinals("orphan")
        m == Cardinality(orphans)
    IN IF records = {} /\ orphans = {} THEN "none"
       ELSE IF \E k \in orphans : ~Whole(<<"orphan", k>>) THEN "torn-descriptor"
       ELSE IF records # orphans \/ orphans # 0..(m - 1) THEN "half-descriptor"
       ELSE IF SuffixIsStaged(m) THEN "truncate" ELSE "unknown-suffix"

\* Mutant: an existing target is always a conflict.
MutUpdateRollback ==
    IF <<"record", 0>> \notin pend.files THEN "none"
    ELSE IF ~Whole(<<"record", 0>>) THEN IF seg = << >> THEN "none" ELSE "half-descriptor"
    ELSE IF segs[Len(gens) + 1] = NoFile THEN "none" ELSE "target-conflict"

\* An update's staged record names its own segment file.  A torn one is not
\* recognised and its file 020 is taken for a direct ingest's descriptor.
UpdateRollback ==
    LET target == segs[Len(gens) + 1] IN
    IF <<"record", 0>> \notin pend.files THEN "none"
    ELSE IF ~Whole(<<"record", 0>>) THEN IF seg = << >> THEN "none" ELSE "half-descriptor"
    ELSE IF target = NoFile THEN "none"
    ELSE IF target = pend.gen.new[1] THEN "remove" ELSE "target-conflict"

Rollback == CASE pend.gen.req.kind = "direct" -> DirectRollback
              [] pend.gen.req.kind = "batch"  -> BatchRollback
              [] pend.gen.req.kind = "update" -> UpdateRollback

CheckNoPending ==
    /\ pc = "check" /\ pend = NoFile
    /\ pc' = "replay" /\ fold' = EmptyState
    /\ UNCHANGED <<disk, cont, op, step, rt, ol, history>>

\* Mutant: the segment an update created is left behind.
MutRollbackCas ==
    /\ pc = "check" /\ pend # NoFile /\ ~ControlWithoutComponents
    /\ Rollback \in {"none", "truncate", "remove"}
    /\ seg' = IF Rollback = "truncate" THEN pend.gen.pre ELSE seg
    /\ pc' = "remove"
    /\ UNCHANGED <<gens, pend, segs, live, temp, cont, op, step, fold, rt, ol, history>>

RollbackCas ==
    /\ pc = "check" /\ pend # NoFile /\ ~ControlWithoutComponents
    /\ Rollback \in {"none", "truncate", "remove"}
    /\ seg' = IF Rollback = "truncate" THEN pend.gen.pre ELSE seg
    /\ segs' = IF Rollback = "remove" THEN [segs EXCEPT ![Len(gens) + 1] = NoFile] ELSE segs
    /\ pc' = "remove"
    /\ UNCHANGED <<gens, pend, live, temp, cont, op, step, fold, rt, ol, history>>

CheckRefuses ==
    /\ pc = "check" /\ pend # NoFile
    /\ \/ /\ ControlWithoutComponents /\ Refuse("control-without-components")
       \/ /\ ~ControlWithoutComponents
          /\ Rollback \notin {"none", "truncate", "remove"}
          /\ Refuse(Rollback)

\* The tree is removed leaf first: component files in directory order, the
\* components directory, the control records, the pending directory.
RemoveComponentFile(f) ==
    /\ pc = "remove" /\ f \in pend.files \ ControlFiles
    /\ pend' = [pend EXCEPT !.files = @ \ {f}, !.torn = @ \ {f}]
    /\ UNCHANGED <<gens, seg, segs, live, temp, owner, history>>

RemoveComponents ==
    /\ pc = "remove" /\ pend.components /\ pend.files \subseteq ControlFiles
    /\ pend' = [pend EXCEPT !.components = FALSE]
    /\ UNCHANGED <<gens, seg, segs, live, temp, owner, history>>

RemoveControlFile(f) ==
    /\ pc = "remove" /\ ~pend.components /\ f \in pend.files
    /\ pend' = [pend EXCEPT !.files = @ \ {f}, !.torn = @ \ {f}]
    /\ UNCHANGED <<gens, seg, segs, live, temp, owner, history>>

RemovePending ==
    /\ pc = "remove" /\ ~pend.components /\ pend.files = {}
    /\ pend' = NoFile
    /\ pc' = "replay" /\ fold' = EmptyState
    /\ UNCHANGED <<gens, seg, segs, live, temp, cont, op, step, rt, ol, history>>

-----------------------------------------------------------------------------
(* production_open_runtime: replay of the committed generations *)

\* The state after one more generation.
Apply(s, g) ==
    [n |-> s.n + 1,
     atoms |-> s.atoms \o g.new,
     edges |-> IF g.req.kind = "update"
               THEN Append(s.edges, [old |-> g.req.old, new |-> g.new[1].atom])
               ELSE s.edges,
     history |-> Append(s.history, Event(g.tx, s.n + 1)),
     atom |-> IF g.req.kind = "batch" THEN s.atom ELSE g.new[1].atom]

\* What is checked of a generation before its digest.
Lineage(s, g) ==
    CASE g.req.kind = "direct" -> s.atoms = << >>
      [] g.req.kind = "batch"  -> /\ Len(seg) >= Len(g.pre)
                                  /\ SubSeq(seg, 1, Len(g.pre)) = g.pre
      [] g.req.kind = "update" ->
            /\ \A i \in 1..s.n : gens[i].tx # g.tx
            /\ g.req.old \in AtomIds(s.atoms)
            /\ Lookup(s.atoms, g.req.old) = g.old
            /\ g.req.old \notin Superseded(s.edges)
            /\ g.new[1].atom \notin AtomIds(s.atoms)
            /\ g.new[1].node = NextNode(s.atoms)
            /\ g.comp.index = Apply(s, g).atoms
            /\ g.comp.current = Apply(s, g).edges

\* The digest is recomputed from the replayed state and, for an update, from
\* the provenance component of this very generation.
DigestMatches(s, g) ==
    LET t == Apply(s, g)
        sources == IF g.req.kind = "update" THEN g.comp.sources ELSE << >>
    IN g.digest = Digest(t.n, t.atoms, t.edges, t.history, sources)

Next1 == gens[fold.n + 1]
AtHead == fold.n + 1 = Len(gens)

\* A base without generations must still equal its baseline.
ReplayEmpty ==
    /\ pc = "replay" /\ gens = << >>
    /\ IF live = BaselineLive /\ seg = << >>
         THEN /\ pc' = "opened"
              /\ UNCHANGED <<disk, cont, op, step, fold, rt, ol, history>>
         ELSE Refuse("baseline-changed")

ReplayGeneration ==
    /\ pc = "replay" /\ fold.n + 1 < Len(gens)
    /\ IF ~Lineage(fold, Next1) THEN Refuse("lineage")
       ELSE IF ~DigestMatches(fold, Next1) THEN Refuse("digest")
       ELSE /\ fold' = Apply(fold, Next1)
            /\ UNCHANGED <<disk, pc, cont, op, step, rt, ol, history>>

\* The head is installed: before its digest check for ingests, after it for
\* updates.
ReplayHead ==
    /\ pc = "replay" /\ AtHead
    /\ IF ~Lineage(fold, Next1) THEN Refuse("lineage")
       ELSE IF Next1.req.kind = "update" /\ ~DigestMatches(fold, Next1) THEN Refuse("digest")
       ELSE /\ pc' = "install" /\ step' = 1
            /\ UNCHANGED <<disk, cont, op, fold, rt, ol, history>>

-----------------------------------------------------------------------------
(* Installation of the head generation, from replay or right after a commit *)

InstallList(kind) ==
    CASE kind = "direct" -> <<"cas", "index", "history">>
      [] kind = "batch"  -> <<"index", "history", "cas">>
      [] kind = "update" -> <<"cas", "index", "sources", "history", "current", "graph">>

HeadGen == gens[Len(gens)]
Installing == pc = "install" /\ step <= Len(InstallList(HeadGen.req.kind))
Target == InstallList(HeadGen.req.kind)[step]

\* production_install_update_spv1 and _history append their one record; every
\* other component replaces its target.
Appended(t) == HeadGen.req.kind = "update" /\ t \in {"sources", "history"}
LiveRecords(t) == IF live[t] = NoFile THEN << >> ELSE live[t]
\* Mutant: an update's one record replaces the file.
MutInstallBytes(t) == HeadGen.comp[t]

InstallBytes(t) == IF Appended(t) THEN LiveRecords(t) \o HeadGen.comp[t] ELSE HeadGen.comp[t]
Installed(t) == IF Appended(t) THEN EndsWith(LiveRecords(t), HeadGen.comp[t][1])
                               ELSE live[t] = HeadGen.comp[t]
OutOfOrder(t) == /\ Appended(t) /\ ~Installed(t)
                 /\ HeadGen.comp[t][1] \in Elems(LiveRecords(t))

\* The CAS of an ingest was appended before the commit and is only verified;
\* that of an update is created, or found equal.
CasAdmits ==
    IF HeadGen.req.kind = "update" THEN segs[Len(gens)] \in {NoFile, HeadGen.new[1]}
    ELSE seg = HeadGen.pre \o Chunks(HeadGen.new)

InstallCas ==
    /\ Installing /\ Target = "cas"
    /\ IF CasAdmits
         THEN /\ segs' = IF HeadGen.req.kind = "update"
                         THEN [segs EXCEPT ![Len(gens)] = HeadGen.new[1]] ELSE segs
              /\ step' = step + 1
              /\ UNCHANGED <<gens, pend, seg, live, temp, pc, cont, op, fold, rt, ol, history>>
         ELSE Refuse("cas-conflict")

InstallSkip ==
    /\ Installing /\ Target # "cas" /\ Installed(Target)
    /\ step' = step + 1
    /\ UNCHANGED <<disk, pc, cont, op, fold, rt, ol, history>>

InstallTemp ==
    /\ Installing /\ Target # "cas" /\ ~Installed(Target) /\ ~OutOfOrder(Target)
    /\ temp[Target] = NoFile
    /\ temp' = [temp EXCEPT ![Target] = InstallBytes(Target)]
    /\ UNCHANGED <<gens, pend, seg, segs, live, owner, history>>

InstallRename ==
    /\ Installing /\ Target # "cas" /\ ~Installed(Target) /\ ~OutOfOrder(Target)
    /\ temp[Target] = InstallBytes(Target)
    /\ live' = [live EXCEPT ![Target] = temp[Target]]
    /\ temp' = [temp EXCEPT ![Target] = NoFile]
    /\ step' = step + 1
    /\ UNCHANGED <<gens, pend, seg, segs, pc, cont, op, fold, rt, ol, history>>

InstallRefuses ==
    /\ Installing /\ Target # "cas" /\ ~Installed(Target)
    /\ OutOfOrder(Target) \/ temp[Target] \notin {NoFile, InstallBytes(Target)}
    /\ Refuse(IF OutOfOrder(Target) THEN "out-of-order" ELSE "temp-conflict")

\* Mutant: the receipt is returned without opening the runtime again.
MutInstallDone ==
    /\ pc = "install" /\ ~Installing
    /\ IF cont = "commit"
         THEN /\ ReturnReceipt(Receipt(Len(gens)))
              /\ UNCHANGED <<disk, rt, ol, refused, faults>>
         ELSE IF ~DigestMatches(fold, HeadGen) THEN Refuse("digest")
         ELSE /\ pc' = "opened" /\ step' = 1 /\ fold' = Apply(fold, HeadGen)
              /\ UNCHANGED <<disk, cont, op, rt, ol, history>>

\* Mutant: the runtime is opened again and again after a commit.
MutInstallDoneAgain ==
    /\ pc = "install" /\ ~Installing
    /\ IF cont = "commit"
         THEN /\ pc' = "check" /\ step' = 1
              /\ UNCHANGED <<disk, cont, op, fold, rt, ol, history>>
         ELSE IF ~DigestMatches(fold, HeadGen) THEN Refuse("digest")
         ELSE /\ pc' = "opened" /\ step' = 1 /\ fold' = Apply(fold, HeadGen)
              /\ UNCHANGED <<disk, cont, op, rt, ol, history>>

\* After a commit the runtime is opened again before the receipt is returned;
\* in a replay the head now joins the folded state.
InstallDone ==
    /\ pc = "install" /\ ~Installing
    /\ IF cont = "commit"
         THEN /\ pc' = "check" /\ cont' = "finish" /\ step' = 1
              /\ UNCHANGED <<disk, op, fold, rt, ol, history>>
         ELSE IF ~DigestMatches(fold, HeadGen) THEN Refuse("digest")
         ELSE /\ pc' = "opened" /\ step' = 1 /\ fold' = Apply(fold, HeadGen)
              /\ UNCHANGED <<disk, cont, op, rt, ol, history>>

\* production_open_runtime returns Ok: the new state replaces the old one; the
\* owner-lifetime transactions are carried over by the caller.
Opened ==
    /\ pc = "opened"
    /\ rt' = fold /\ fold' = EmptyState
    /\ pc' = CASE cont = "startup" -> "idle" [] cont = "begin" -> "decide"
               [] cont = "finish" -> "reply"
    /\ cont' = IF cont = "startup" THEN "begin" ELSE cont
    /\ UNCHANGED <<disk, op, step, ol, history>>

-----------------------------------------------------------------------------
(* Deciding: the transaction ledgers, then admission of a new transaction *)

\* Mutant: only an equal request counts as the same transaction.
MutHits == {i \in 1..rt.n : gens[i].tx = op.tx /\ gens[i].req = op.req}

Hits == {i \in 1..rt.n : gens[i].tx = op.tx}

\* Mutant: the owner-lifetime map is not consulted.
MutOtherKind == \E i \in Hits : gens[i].req.kind # op.req.kind

\* The identity belongs to another kind of operation.
OtherKind ==
    \/ \E i \in Hits : gens[i].req.kind # op.req.kind
    \/ ol[op.tx] # NoReceipt /\ ol[op.tx].req.kind # op.req.kind

\* Direct and batch ingest look into the owner-lifetime map before the ledger.
Remembered == ol[op.tx] # NoReceipt /\ op.req.kind # "update"

\* The body of a direct ingest must canonicalise, that of an update to another
\* AtomId than the old one; a batch refuses its bad items one by one.
Malformed ==
    /\ op.req.kind # "batch"
    /\ ~ValidItem(op.req.items[1]) \/ AtomOf[op.req.items[1]] = op.req.old

Deciding == pc = "decide"
Looking == Deciding /\ ~OtherKind /\ ~Malformed
Fresh == Looking /\ ~Remembered /\ Hits = {}

Fail(code) == Return(code) /\ UNCHANGED <<disk, rt, ol, acked, refused, faults>>
Succeed(r) == ReturnReceipt(r) /\ UNCHANGED <<disk, rt, refused, faults>>

\* A batch retry is planned again against its parent state and today's files.
RetryAgrees(i) ==
    /\ gens[i].req = op.req
    /\ op.req.kind = "batch" =>
          /\ AnchorsAbsent
          /\ BatchOutcomes(SubSeq(rt.atoms, 1, gens[i].base), op.req.items)
                = gens[i].outcomes

DecideOtherKind == Deciding /\ OtherKind /\ Fail("conflict")

DecideMalformed == Deciding /\ ~OtherKind /\ Malformed /\ Fail("rejected")

DecideRemembered ==
    /\ Looking /\ Remembered
    /\ IF ol[op.tx].req = op.req THEN Succeed(ol[op.tx]) /\ UNCHANGED ol
                                 ELSE Fail("conflict")

\* Mutant: a retry reports the outcomes of today's plan.
MutDecideRetry ==
    /\ Looking /\ ~Remembered
    /\ \E i \in Hits :
         IF RetryAgrees(i)
           THEN /\ UNCHANGED ol
                /\ Succeed([Receipt(i) EXCEPT !.outcomes =
                                BatchOutcomes(rt.atoms, op.req.items)])
           ELSE Fail("conflict")

DecideRetry ==
    /\ Looking /\ ~Remembered
    /\ \E i \in Hits : IF RetryAgrees(i) THEN Succeed(Receipt(i)) /\ UNCHANGED ol
                                         ELSE Fail("conflict")

\* One committed atom is all direct ingest admits; the same body again reuses it.
DirectReuses ==
    /\ op.req.kind = "direct" /\ rt.atom # NoAtom
    /\ op.req.items[1] = Lookup(rt.atoms, rt.atom).body

BatchAdmitted == op.req.kind = "batch" /\ rt.n < MaxGenerations /\ AnchorsAbsent
BatchUnchanged == BatchAdmitted /\ CreatedIn(rt.atoms, op.req.items) = {}

Stages ==
    CASE op.req.kind = "direct" ->
            rt.atom = NoAtom /\ seg = << >> /\ rt.n = 0
      [] op.req.kind = "batch" -> BatchAdmitted /\ ~BatchUnchanged
      [] op.req.kind = "update" ->
            /\ rt.n < MaxGenerations
            /\ op.req.old \in AtomIds(rt.atoms)
            /\ op.req.old \notin Superseded(rt.edges)
            /\ AtomOf[op.req.items[1]] \notin AtomIds(rt.atoms)
            /\ op.req.prov \notin {ZeroProv, Lookup(rt.atoms, op.req.old).prov}

\* Nothing to commit: the receipt is bound to the head and remembered only by
\* this owner.
DecideUnchanged ==
    /\ Fresh /\ (DirectReuses \/ BatchUnchanged)
    /\ LET r == HeadReceipt(BatchOutcomes(rt.atoms, op.req.items)) IN
       Succeed(r) /\ ol' = [ol EXCEPT ![op.tx] = r]

DecideStage ==
    /\ Fresh /\ Stages
    /\ pc' = "stage" /\ step' = 1
    /\ UNCHANGED <<disk, cont, op, fold, rt, ol, history>>

DecideReject ==
    /\ Fresh /\ ~Stages /\ ~DirectReuses /\ ~BatchUnchanged
    /\ Fail("rejected")

-----------------------------------------------------------------------------
(* Staging and the commit point *)

Staging(what) == pc = "stage" /\ StageNow.do = what
StageRest == UNCHANGED <<gens, live, temp, pc, cont, op, fold, rt, ol, history>>

StageMkdir ==
    /\ Staging("mkdir") /\ pend = NoFile
    /\ pend' = [gen |-> Plan(op.tx, op.req), components |-> FALSE, files |-> {}, torn |-> {}]
    /\ step' = step + 1
    /\ UNCHANGED <<seg, segs>> /\ StageRest

StageComponents ==
    /\ Staging("components")
    /\ pend' = [pend EXCEPT !.components = TRUE]
    /\ step' = step + 1
    /\ UNCHANGED <<seg, segs>> /\ StageRest

StageWrite ==
    /\ Staging("write")
    /\ pend' = [pend EXCEPT !.files = @ \cup {StageNow.file}]
    /\ step' = step + 1
    /\ UNCHANGED <<seg, segs>> /\ StageRest

\* The record goes to the live segment before the commit.
StageAppend ==
    /\ Staging("append")
    /\ seg' = Append(seg, Chunks(pend.gen.new)[Len(seg) - Len(pend.gen.pre) + 1])
    /\ step' = step + 1
    /\ UNCHANGED <<pend, segs>> /\ StageRest

StageCreate ==
    /\ Staging("create") /\ segs[rt.n + 1] = NoFile
    /\ segs' = [segs EXCEPT ![rt.n + 1] = pend.gen.new[1]]
    /\ step' = step + 1
    /\ UNCHANGED <<pend, seg>> /\ StageRest

\* move_directory_write_through: the transaction is committed.
StagePublish ==
    /\ Staging("publish")
    /\ gens' = Append(gens, pend.gen) /\ pend' = NoFile
    /\ pc' = "install" /\ cont' = "commit" /\ step' = 1
    /\ UNCHANGED <<seg, segs, live, temp, op, fold, rt, ol, history>>

\* The reopened runtime must hold the transaction; its receipt is returned.
Finish ==
    /\ pc = "reply"
    /\ \E i \in Hits :
         /\ Succeed(Receipt(i))
         /\ ol' = IF op.req.kind = "update" THEN [ol EXCEPT ![op.tx] = Receipt(i)] ELSE ol

-----------------------------------------------------------------------------
(* Faults *)

\* The operation whose durable traces the owner is working on.
Activity ==
    IF pend # NoFile THEN pend.gen.req.kind
    ELSE IF pc = "install" THEN HeadGen.req.kind
    ELSE "none"

MayFault == faults < MaxFaults /\ faults' = faults + 1

Die ==
    /\ MayFault
    /\ pc' = "down" /\ cont' = "startup" /\ op' = NoOp /\ step' = 1
    /\ fold' = EmptyState /\ rt' = EmptyState /\ ol' = [tx \in TxIds |-> NoReceipt]
    /\ reply' = NoReceipt
    /\ UNCHANGED <<acked, refused>>

Crash ==
    /\ pc # "down" /\ <<pc, Activity>> \in FaultsIn
    /\ Die
    /\ UNCHANGED disk

\* The owner dies inside production_write_new: the file exists but is short.
CrashInStageWrite ==
    /\ TornWrites /\ Staging("write") /\ <<pc, Activity>> \in FaultsIn
    /\ pend' = [pend EXCEPT !.files = @ \cup {StageNow.file}, !.torn = @ \cup {StageNow.file}]
    /\ Die
    /\ UNCHANGED <<gens, seg, segs, live, temp>>

CrashInStageCreate ==
    /\ TornWrites /\ Staging("create") /\ <<pc, Activity>> \in FaultsIn
    /\ segs' = [segs EXCEPT ![rt.n + 1] = TornFile]
    /\ Die
    /\ UNCHANGED <<gens, pend, seg, live, temp>>

CrashInInstallTemp ==
    /\ TornWrites /\ <<pc, Activity>> \in FaultsIn
    /\ Installing /\ Target # "cas" /\ ~Installed(Target) /\ ~OutOfOrder(Target)
    /\ temp[Target] = NoFile
    /\ temp' = [temp EXCEPT ![Target] = TornFile]
    /\ Die
    /\ UNCHANGED <<gens, pend, seg, segs, live>>

\* An I/O error or a failed free-space check: the caller gets an error and the
\* owner lives on with the durable state half-way.
IoError ==
    /\ pc \in {"remove", "install", "stage"} /\ <<pc, Activity>> \in FaultsIn
    /\ MayFault
    /\ refused' = "io"
    /\ IF cont = "startup"
         THEN /\ pc' = "down" /\ step' = 1 /\ fold' = EmptyState
              /\ UNCHANGED <<cont, op, reply>>
         ELSE Return("recovery")
    /\ UNCHANGED <<disk, rt, ol, acked>>

-----------------------------------------------------------------------------
(* Specification *)

Open == \/ Start \/ CheckNoPending \/ RollbackCas \/ CheckRefuses
        \/ (\E f \in (IF pc = "remove" THEN pend.files ELSE {}) :
               RemoveComponentFile(f) \/ RemoveControlFile(f))
        \/ RemoveComponents \/ RemovePending
        \/ ReplayEmpty \/ ReplayGeneration \/ ReplayHead \/ Opened

Install == \/ InstallCas \/ InstallSkip \/ InstallTemp \/ InstallRename
           \/ InstallRefuses \/ InstallDone

Decide == \/ DecideOtherKind \/ DecideMalformed \/ DecideRemembered \/ DecideRetry
          \/ DecideUnchanged \/ DecideStage \/ DecideReject

Stage == \/ StageMkdir \/ StageComponents \/ StageWrite \/ StageAppend
         \/ StageCreate \/ StagePublish

Fault == \/ Crash \/ CrashInStageWrite \/ CrashInStageCreate
         \/ CrashInInstallTemp \/ IoError

Progress == Open \/ Install \/ Decide \/ Stage \/ Finish

Next == \/ \E tx \in TxIds, req \in Requests : Begin(tx, req)
        \/ Progress
        \/ Fault

Spec == Init /\ [][Next]_vars

\* Once started, the owner keeps executing, and an operator restarts it when
\* it has died; faults and client requests are never forced.
FairSpec == Spec /\ WF_vars(Progress)

-----------------------------------------------------------------------------
(* Types *)

AtomRecs == [atom : Atoms, body : Bodies, node : Nat, prov : Provs \cup {ZeroProv}]
Edges == [old : Atoms, new : Atoms]
Events == [tx : TxIds, n : Nat]
Links == [atom : Atoms, prov : Provs \cup {ZeroProv}]
Outcomes == [result : {"created", "reused", "refused", "updated"}, node : Int]
Halves == [body : Bodies, half : 0..1]
States == [n : Nat, atoms : Seq(AtomRecs), edges : Seq(Edges), history : Seq(Events),
           atom : Atoms \cup {NoAtom}]
Digests == [n : Nat, atoms : Seq(AtomRecs), edges : Seq(Edges), history : Seq(Events),
            sources : Seq(Links)]
Components == [index : Seq(AtomRecs), history : Seq(Events), sources : Seq(Links),
               current : Seq(Edges), graph : Seq(Edges)]
Generations == [tx : TxIds, req : Requests, new : Seq(AtomRecs),
                old : AtomRecs \cup {NoAtom}, base : Nat, pre : Seq(Halves),
                outcomes : Seq(Outcomes), comp : Components, digest : Digests]
Receipts == [tx : TxIds, req : Requests, result : {"committed", "unchanged"}, n : Nat,
             outcomes : Seq(Outcomes)]
LiveFiles == [index : Seq(AtomRecs), history : Seq(Events), sources : Seq(Links) \cup {NoFile},
              current : Seq(Edges), graph : Seq(Edges)]
FileNames == {"prepare", "commit", "record", "orphan", "part"} \X Nat
Pendings == [gen : Generations, components : BOOLEAN, files : SUBSET FileNames,
             torn : SUBSET FileNames]
Phases == {"down", "check", "remove", "replay", "install", "opened", "idle", "decide", "stage",
           "reply"}
Replies == [tx : TxIds, req : Requests, code : {"ok", "conflict", "rejected", "recovery"}]

\* An absent or torn file is not mistaken for the content of one.
ASSUME FileAssumption ==
    /\ NoFile # TornFile
    /\ \A f \in {NoFile, TornFile} :
          /\ f \notin AtomRecs /\ f \notin Pendings
          /\ f \notin Seq(AtomRecs) /\ f \notin Seq(Events)
          /\ f \notin Seq(Links) /\ f \notin Seq(Edges)

\* The shape of the disk and of the owner.
TypeOK ==
    /\ gens \in Seq(Generations) /\ Len(gens) <= MaxGenerations
    /\ pend = NoFile \/ pend \in Pendings
    /\ seg \in Seq(Halves)
    /\ segs \in [1..MaxGenerations -> AtomRecs \cup {NoFile, TornFile}]
    /\ live \in LiveFiles /\ DOMAIN temp = Targets
    /\ pc \in Phases /\ cont \in {"startup", "begin", "commit", "finish"}
    /\ op = NoOp \/ op \in [tx : TxIds, req : Requests]
    /\ step \in Nat \ {0} /\ fold \in States /\ rt \in States
    /\ ol \in [TxIds -> Receipts \cup {NoReceipt}]
    /\ reply = NoReceipt \/ reply \in Replies
    /\ acked \subseteq Receipts
    /\ faults \in 0..MaxFaults

-----------------------------------------------------------------------------
(* Properties *)

\* The state the first k generations commit, and what each file must hold then.
CommittedState(k) ==
    LET s[i \in 0..Len(gens)] == IF i = 0 THEN EmptyState ELSE Apply(s[i - 1], gens[i])
    IN s[k]

CommittedSeg(k) ==
    LET s[i \in 0..Len(gens)] ==
          IF i = 0 THEN << >>
          ELSE IF gens[i].req.kind = "update" THEN s[i - 1]
          ELSE s[i - 1] \o Chunks(gens[i].new)
    IN s[k]

CommittedLinks(k) ==
    LET s[i \in 0..Len(gens)] ==
          IF i = 0 THEN << >>
          ELSE IF gens[i].req.kind = "update" THEN s[i - 1] \o gens[i].comp.sources
          ELSE s[i - 1]
    IN s[k]

Expected(t, k) ==
    CASE t = "index"   -> CommittedState(k).atoms
      [] t = "history" -> [i \in 1..k |-> Event(gens[i].tx, i)]
      [] t = "sources" -> CommittedLinks(k)
      [] t \in {"current", "graph"} -> CommittedState(k).edges

\* A transaction identity is committed by at most one generation, whatever was
\* retried after whatever crash (the ledger checks of the three operations).
OneGenerationPerTx ==
    \A i, j \in 1..Len(gens) : gens[i].tx = gens[j].tx => i = j

\* A receipt for a commit names, for ever after, the generation that holds that
\* very transaction, request and outcome: neither crashes nor recovery may
\* lose or renumber an acknowledged commit, and every retry of it that
\* succeeds returns the same receipt.
AckedDurable ==
    \A r \in acked : r.result = "committed" =>
        /\ r.n \in 1..Len(gens)
        /\ r = Receipt(r.n)

\* Whenever an open has succeeded, the disk is exactly the committed state: no
\* pending tree, no temporary, every live file equal to what the generations
\* commit, and no CAS bytes beyond the committed records.
RecoveredExact ==
    pc \in {"opened", "decide", "reply"} =>
        /\ pend = NoFile
        /\ \A t \in Targets : temp[t] = NoFile
        /\ \A t \in Targets : LiveRecords(t) = Expected(t, Len(gens))
        /\ seg = CommittedSeg(Len(gens))
        /\ \A i \in 1..MaxGenerations :
              segs[i] = IF i <= Len(gens) /\ gens[i].req.kind = "update"
                        THEN gens[i].new[1] ELSE NoFile

\* At every moment, mid-installation and after any crash included, each live
\* file is its version before or after the last commit, never a mixture and
\* never a version of a transaction that is not committed.
LiveOldOrNew ==
    \A t \in Targets : \E k \in {Len(gens), Len(gens) - 1} \cap Nat :
        LiveRecords(t) = Expected(t, k)

\* The CAS bytes of a committed atom are in place at every moment: the append
\* precedes the commit and no rollback reaches below it.
CommittedBytesKept ==
    /\ LET s == CommittedSeg(Len(gens)) IN
       Len(seg) >= Len(s) /\ SubSeq(seg, 1, Len(s)) = s
    /\ \A i \in 1..Len(gens) : gens[i].req.kind = "update" => segs[i] = gens[i].new[1]

\* Every AtomId and every NodeNum is committed once; an atom is superseded at
\* most once and only by an atom committed later, so versions form chains.
LineageSound ==
    LET atoms == CommittedState(Len(gens)).atoms
        edges == CommittedState(Len(gens)).edges
        At(a) == CHOOSE i \in 1..Len(atoms) : atoms[i].atom = a
    IN /\ \A i, j \in 1..Len(atoms) :
             atoms[i].atom = atoms[j].atom \/ atoms[i].node = atoms[j].node => i = j
       /\ \A i \in 1..Len(edges) :
             /\ {edges[i].old, edges[i].new} \subseteq AtomIds(atoms)
             /\ At(edges[i].old) < At(edges[i].new)
             /\ \A j \in 1..Len(edges) : edges[i].old = edges[j].old => i = j

\* An identity the owner remembers as having committed nothing commits nothing
\* while that owner lives.
UnchangedStaysUnchanged ==
    \A tx \in TxIds : ol[tx] # NoReceipt /\ ol[tx].result = "unchanged" =>
        \A i \in 1..Len(gens) : gens[i].tx # tx

\* Of the ways an open can refuse a base, crashes at any point (inside a file
\* write too) lead to these alone: the guards against an unknown CAS suffix, a
\* changed baseline, a broken lineage, an out-of-order provenance or history
\* record are never what stops recovery, and the digest check stops it only
\* once a second update is committed.
RefusesOnlyFor ==
    \/ refused \in {"none", "io", "control-without-components", "half-descriptor",
                    "torn-descriptor", "target-conflict", "temp-conflict"}
    \/ /\ refused = "digest"
       /\ \E i, j \in 1..Len(gens) :
             i # j /\ gens[i].req.kind = "update" /\ gens[j].req.kind = "update"

\* After a crash or a returned error the base opens again.
ReopenSucceeds == refused \in {"none", "io"}

\* An exact retry of an acknowledged commit is never told that its identity
\* was reused for something else.
ExactRetryAccepted ==
    reply # NoReceipt /\ reply.code = "conflict" =>
        ~\E r \in acked : /\ r.result = "committed"
                          /\ r.tx = reply.tx /\ r.req = reply.req

\* Every operation returns to its caller, unless its process dies.
OperationReturns == (op # NoOp) ~> (op = NoOp)

\* A base whose owner is gone is eventually served again.
ServedAgain == (pc = "down") ~> (pc = "idle")

-----------------------------------------------------------------------------
(* Refinement of CommitLedger *)

Ledger == INSTANCE CommitLedger WITH
    ledger <- [i \in 1..Len(gens) |-> [tx |-> gens[i].tx, req |-> gens[i].req]],
    served <- rt.n,
    acks   <- {[tx |-> r.tx, req |-> r.req, n |-> r.n] :
                 r \in {q \in acked : q.result = "committed"}}

\* The engine with all its files and crashes implements the abstract ledger.
ImplementsLedger == Ledger!LedgerSpec
=============================================================================
