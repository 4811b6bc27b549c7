---------------------------- MODULE QueryPlanning ----------------------------
(***************************************************************************)
(* From a query contract to candidates: the contract's validation and its  *)
(* lowering to a goal (src/query/contract.rs), the resolution of its       *)
(* targets against the store (src/store/api.rs), the gaps a goal opens     *)
(* (src/query/solver.rs, src/query/gap_generator.rs), the order in which   *)
(* they are retrieved (src/query/planner.rs), the four backends that       *)
(* propose atoms (src/query/router.rs) and the contract's constraints      *)
(* (src/query/constraints.rs).                                             *)
(*                                                                         *)
(* Trust is counted in units of which TrustScale are full trust (10000 in  *)
(* the code).  A text is a sequence of words; one with a colon is a prefix *)
(* and an id, and stands for the reference it parses to.                   *)
(***************************************************************************)
EXTENDS CtxManager

CONSTANTS
    Atoms,          \* atom id -> what the store knows of it
    Directory,      \* the entity, predicate and relation files and the lexicon
    Nearest,        \* query vector -> [atom, sim]s, nearest first (ANN index)
    TrustScale,
    StopWords,      \* words that answer_contract drops
    BroadcastLimit, \* 256 in the code
    MaxFanout,      \* 128 in the code
    AnnLimit        \* 10 in the code

\* Each atom has a node of its own: insert allocates one per atom.
ASSUME PlanningAssumption ==
    /\ TrustScale \in Nat \ {0} /\ TrustScale % 2 = 0
    /\ BroadcastLimit \in Nat /\ MaxFanout \in Nat /\ AnnLimit \in Nat
    /\ \A a, b \in DOMAIN Atoms: Atoms[a].node = Atoms[b].node => a = b

\* 0xFFFF of the 64 bits: the domains of every location and metadata record.
AllDomains == 2 ^ (WordBits \div 4) - 1
DefaultTrust == TrustScale \div 2
MinIo == 64

-----------------------------------------------------------------------------
(* Contracts and goals.                                                     *)

AnyRef == [k |-> "Any", v |-> 0]
NodePat(n) == [k |-> "Node", v |-> n]
SymPat(s) == [k |-> "Sym", v |-> s]

EntityRef(kind, v) == [k |-> kind, v |-> v]
BadRef == EntityRef("Bad", 0)
PlainText(ws) == [colon |-> FALSE, words |-> ws, ref |-> BadRef]
Prefixed(ref) == [colon |-> TRUE, words |-> <<>>, ref |-> ref]

ContractLimit ==
    [targets |-> 256, constraints |-> 1024, max_atoms |-> 65536, max_iterations |-> 1000,
     max_edges |-> 262144, max_io |-> 1073741824, max_time |-> 300000, max_calls |-> 128,
     max_branches |-> 65536, max_items |-> 4096, max_bytes |-> 8388608]
MinBytes == 2048

\* A target has at most one exact selector: `sel` is the record of those that
\* it gives, of id, entity, atom, node, term, symbol and key.
ValidTarget(t) ==
    /\ Cardinality(DOMAIN t.sel) <= 1
    /\ "key" \in DOMAIN t.sel => t.sel.key # <<>>

ValidBudgets(q) ==
    LET within(f) == q.budgets[f] <= ContractLimit[f]
    IN  /\ q.budgets.max_atoms > 0 /\ q.budgets.max_iterations > 0
        /\ \A f \in {"max_atoms", "max_iterations", "max_edges", "max_io", "max_time", "max_calls",
                     "max_branches"}: within(f)
        /\ q.max_items \in 1..ContractLimit.max_items
        /\ MinBytes <= q.max_bytes /\ q.max_bytes <= ContractLimit.max_bytes

\* QueryContract::validate. An empty vector is None.
validate_contract(q) ==
    LET ids == {q.constraints[i].id : i \in DOMAIN q.constraints}
    IN  /\ q.targets \o q.vectors \o q.relations \o q.constraints # <<>>
        /\ ~Contains(q.vectors, None)
        /\ Cardinality(ids) = Len(q.constraints)
        /\ \A i \in DOMAIN q.constraints:
              q.constraints[i].strength = "Should" => q.constraints[i].weight \in 0..TrustScale
        /\ \A i \in DOMAIN q.quantifiers: q.quantifiers[i] \subseteq ids
        /\ Len(q.targets) <= ContractLimit.targets
        /\ Len(q.constraints) <= ContractLimit.constraints
        /\ \A i \in DOMAIN q.targets: ValidTarget(q.targets[i])
        /\ ValidBudgets(q)

\* A text without a colon, an unknown prefix or an id that does not parse is
\* an error (BadRef), and so is an atom id that is not hexadecimal (None).
parse_entity_ref(text) == IF text.colon THEN text.ref ELSE BadRef
RefKind == [atom |-> "Atom", node |-> "Node", term |-> "Term", symbol |-> "Sym"]
explicit_entity_ref(t) ==
    LET exact == {s \in DOMAIN RefKind: s \in DOMAIN t.sel}
        ref(s) == IF t.sel[s] = None THEN BadRef ELSE EntityRef(RefKind[s], t.sel[s])
    IN  IF exact # {} THEN <<ref(CHOOSE s \in exact: TRUE)>>
        ELSE IF "id" \in DOMAIN t.sel THEN <<parse_entity_ref(t.sel.id)>>
        ELSE IF t.label # None /\ t.label.colon THEN <<parse_entity_ref(t.label)>>
        ELSE <<>>
ExplicitRefs(q) == FoldLeft(LAMBDA acc, t: acc \o explicit_entity_ref(t), <<>>, q.targets)

\* to_goal_spec gives a goal: the contract is valid and its references parse.
Lowers(q) == validate_contract(q) /\ ~Contains(ExplicitRefs(q), BadRef)

domain_mask(q) == FoldLeft(LAMBDA acc, t: Or(acc, t.domain), 0, q.targets)

\* The first of the temporal selectors that is present decides the range;
\* observed_at stands in for a missing valid_at, and a range may be open.
valid_at(ts) == IF ts.valid_at # None THEN ts.valid_at ELSE ts.observed_at
RangeOf(r) == <<IF r[1] = None THEN 0 ELSE r[1], IF r[2] = None THEN MaxWord ELSE r[2]>>
to_time_range(ts) ==
    IF ts.latest # None THEN <<ts.latest, MaxWord>>
    ELSE IF valid_at(ts) # None THEN <<valid_at(ts), Min({valid_at(ts) + 1, MaxWord})>>
    ELSE IF ts.before # None THEN <<0, ts.before>>
    ELSE IF ts.after # None THEN <<ts.after, MaxWord>>
    ELSE IF ts.range # None THEN RangeOf(ts.range)
    ELSE <<0, MaxWord>>

\* ConstraintValue
Num(n) == [ty |-> "Number", v |-> n]
Text(s) == [ty |-> "Text", v |-> s]
Flag(b) == [ty |-> "Bool", v |-> b]
Listing(xs) == [ty |-> "List", v |-> xs]
Period(r) == [ty |-> "TimeRange", v |-> r]

Must(id, target, op, value) ==
    [id |-> id, strength |-> "Must", weight |-> 0, target |-> target, op |-> op, value |-> value]

\* TemporalScope::to_constraints
to_constraints(ts) ==
    LET given(x, c) == IF x = None THEN <<>> ELSE <<c>>
        at == valid_at(ts)
    IN  given(ts.before, Must("__temporal_before", "Time", "Before", Num(ts.before)))
        \o given(ts.after, Must("__temporal_after", "Time", "After", Num(ts.after)))
        \o given(ts.range, Must("__temporal_during", "Time", "During", Period(ts.range)))
        \o given(at, Must("__temporal_valid_at", "Time", "Within",
                          Period(<<at, IF at = None THEN None ELSE Min({at + 1, MaxWord})>>)))

\* OutputFormat to OutputSchema.
OutputSchema == [StructuredJson |-> "Graph", TextSummary |-> "Explanation",
                 EvidenceTable |-> "Comparison", MinimalGraph |-> "Graph"]

\* QueryContract::to_goal_spec, where Lowers(q).
to_goal_spec(q) ==
    [intent |-> q.intent, time |-> to_time_range(q.temporal), trust_min |-> 0,
     domain |-> domain_mask(q), entities |-> ExplicitRefs(q),
     lexical |-> FALSE, vectors |-> q.vectors,
     constraints |-> q.constraints \o to_constraints(q.temporal),
     scope |-> q.scope, conflict |-> q.conflict, axes |-> <<>>, schema |-> OutputSchema[q.format]]

-----------------------------------------------------------------------------
(* Targets resolved against the store. Directory.entities and .predicates  *)
(* are functions of ids (a name is a sequence of words), .relations a set,  *)
(* and .lexicon the term ids of the inverted index.                         *)

LiveRelations(history) ==
    {r \in Directory.relations:
        history \/ (~r.deprecated /\ \A s \in Directory.relations: s.supersedes # r.id)}
Current(atoms, history) ==
    Ordered({a \in atoms: history \/ a \notin DOMAIN Atoms \/ ~Atoms[a].superseded}, <)
EntityAtoms(e, history) ==
    (IF e \in DOMAIN Directory.entities THEN Directory.entities[e].claims ELSE {})
    \union {r.atom : r \in {x \in LiveRelations(history): e \in {x.subject, x.object}}}

\* The first predicate of that stable key or name, and every entity of it.
resolve_structured_target_atoms(t, history) ==
    LET named(S) == {i \in DOMAIN S: t.sel.key \in S[i].names}
        first == {p \in named(Directory.predicates): \A o \in named(Directory.predicates): p <= o}
        keyed == {r.atom : r \in {x \in LiveRelations(history): x.predicate \in first}}
                 \union UNION {EntityAtoms(e, history) : e \in named(Directory.entities)}
    IN  Current(IF "entity" \in DOMAIN t.sel THEN EntityAtoms(t.sel.entity, history)
                ELSE IF "key" \in DOMAIN t.sel THEN keyed ELSE {}, history)

\* The atoms of entities and relations whose names carry every term; a
\* relation also matches by the terms that are known to some name, if there
\* are two of them or one is a whole name.
metadata_atoms_for_terms(terms, history) ==
    LET wordsOf(names) == UNION {ToSet(n) : n \in names}
        entities == Directory.entities
        predicates == Directory.predicates
        matching == {e \in DOMAIN entities: terms \subseteq wordsOf(entities[e].names \union {entities[e].type})}
        predicated == {p \in DOMAIN predicates: terms \subseteq wordsOf(predicates[p].names)}
        names == UNION ({entities[e].names : e \in DOMAIN entities}
                        \union {predicates[p].names : p \in DOMAIN predicates})
        known == terms \intersect wordsOf(names)
        specific == known # {} /\ (Cardinality(known) >= 2 \/ \E w \in known: <<w>> \in names)
        ends(r) == {entities[e] : e \in {r.subject, r.object} \intersect DOMAIN entities}
                   \union {predicates[p] : p \in {r.predicate} \intersect DOMAIN predicates}
        matches(r) == \/ {r.subject, r.object} \intersect matching # {}
                      \/ r.predicate \in predicated
                      \/ specific /\ known \subseteq wordsOf(UNION {x.names : x \in ends(r)})
    IN  Current(UNION {entities[e].claims : e \in matching}
                \union {r.atom : r \in {x \in LiveRelations(history): matches(x)}}, history)

\* answer_contract: the texts of targets without a selector are split into
\* terms. Unless the lexicon knows each of them none is used.
LexicalTexts(q) ==
    LET texts(t) == (IF t.label = None THEN <<>> ELSE <<t.label>>) \o t.aliases
        all == FoldLeft(LAMBDA acc, t: IF DOMAIN t.sel = {} THEN acc \o texts(t) ELSE acc,
                        <<>>, q.targets)
    IN  SelectSeq(all, LAMBDA x: ~x.colon)
AddOnce(s, x) == IF Contains(s, x) THEN s ELSE Append(s, x)
QueryTerms(q) ==
    FoldLeft(LAMBDA acc, x: FoldLeft(AddOnce, acc, SelectSeq(x.words, LAMBDA w: w \notin StopWords)),
             <<>>, LexicalTexts(q))
explicit_selector(q) ==
    \E i \in DOMAIN q.targets:
        LET t == q.targets[i] IN DOMAIN t.sel # {} \/ (t.label # None /\ t.label.colon)

\* A query in words is compiled with a seed, the term 0, that resolution drops.
answer_goal(q) ==
    LET goal == to_goal_spec(q)
        history == ~q.temporal.current
        terms == QueryTerms(q)
        resolved == IF ToSet(terms) \subseteq DOMAIN Directory.lexicon
                    THEN [i \in DOMAIN terms |-> EntityRef("Term", Directory.lexicon[terms[i]])] ELSE <<>>
        seeded == \E i \in DOMAIN q.targets: q.targets[i].type = "compatibility_term_seed"
        kept == SelectSeq(goal.entities, LAMBDA e: ~(seeded /\ e = EntityRef("Term", 0)))
        structured == FoldLeft(LAMBDA acc, t: acc \o resolve_structured_target_atoms(t, history),
                               <<>>, q.targets)
        described == IF terms = <<>> THEN <<>> ELSE metadata_atoms_for_terms(ToSet(terms), history)
        atoms == structured \o described
    IN  IF LexicalTexts(q) = <<>> /\ ~explicit_selector(q) THEN goal
        ELSE [goal EXCEPT
                !.lexical = TRUE,
                !.entities = FoldLeft(AddOnce, kept,
                                      resolved \o [i \in DOMAIN atoms |-> EntityRef("Atom", atoms[i])])]

-----------------------------------------------------------------------------
(* Gaps.                                                                    *)

GapKind == {"FACT", "DEFINITION", "EVIDENCE", "CAUSAL", "COUNTEREXAMPLE", "CONSTRAINTS",
            "AXIS", "PROCEDURE"}

\* Gap::new with its pattern and its navigation hints.
Gap(kind, prio, subj, pred, tag, seeds, edges, depth) ==
    [kind |-> kind, prio |-> prio, subj |-> subj, pred |-> pred, obj |-> AnyRef, tag |-> tag,
     qual |-> 0, seeds |-> seeds, edges |-> edges, depth |-> depth, fanout |-> 128,
     stop |-> [max_nodes |-> 0, max_io |-> 0, min_trust |-> 0, max_conflicts |-> 0],
     covered |-> FALSE, by |-> None]
PlainGap(kind, prio, subj) == Gap(kind, prio, subj, AnyRef, None, <<>>, {}, 3)

as_node(e) == IF e.k = "Node" THEN NodePat(e.v) ELSE AnyRef
SymTag == 1  \* ObjTag::SYM

PerEntity(gs, Of(_)) == FoldLeft(LAMBDA acc, e: acc \o Of(e), <<>>, gs.entities)

generate_lookup_gaps(gs) ==
    PerEntity(gs, LAMBDA e:
        <<Gap("FACT", 180, as_node(e), AnyRef, None,
              IF e.k = "Node" THEN <<e.v>> ELSE <<>>, {}, 3),
          PlainGap("EVIDENCE", 150, as_node(e))>>)

generate_define_gaps(gs) ==
    PerEntity(gs, LAMBDA e:
        <<Gap("DEFINITION", 200, as_node(e), AnyRef, SymTag, <<>>, {"DEFINES"}, 2),
          PlainGap("CONSTRAINTS", 160, as_node(e)),
          Gap("COUNTEREXAMPLE", 80, as_node(e), AnyRef, None, <<>>, {"CONTRADICTS"}, 3)>>)

generate_explain_gaps(gs) ==
    PerEntity(gs, LAMBDA e:
        <<PlainGap("DEFINITION", 200, as_node(e)),
          Gap("CAUSAL", 190, as_node(e), AnyRef, None, <<>>,
              {"CAUSES", "ENABLES", "PREVENTS", "SUPPORTS"}, 5),
          PlainGap("CONSTRAINTS", 140, as_node(e))>>)

generate_compare_gaps(gs) ==
    PerEntity(gs, LAMBDA e: <<PlainGap("DEFINITION", 200, as_node(e))>>)
    \o [i \in DOMAIN gs.axes |-> PlainGap("AXIS", 170, SymPat(gs.axes[i]))]
    \o PerEntity(gs, LAMBDA e: [i \in DOMAIN gs.axes |->
            Gap("FACT", 160, as_node(e), SymPat(gs.axes[i]), None, <<>>, {}, 3)])
    \o <<PlainGap("CONSTRAINTS", 120, AnyRef)>>

generate_derive_gaps(gs) ==
    <<Gap("PROCEDURE", 200, AnyRef, AnyRef, None, <<>>, {"IMPLIES"}, 3)>>
    \o PerEntity(gs, LAMBDA e: <<PlainGap("FACT", 170, as_node(e))>>)
    \o <<PlainGap("CONSTRAINTS", 140, AnyRef)>>

generate_verify_gaps(gs) ==
    PerEntity(gs, LAMBDA e:
        <<PlainGap("EVIDENCE", 200, as_node(e)),
          Gap("COUNTEREXAMPLE", 180, as_node(e), AnyRef, None, <<>>, {"CONTRADICTS"}, 3)>>)
    \o <<PlainGap("CONSTRAINTS", 150, AnyRef)>>

generate_plan_gaps(gs) ==
    <<Gap("PROCEDURE", 200, AnyRef, AnyRef, None, <<>>, {"STEP_OF"}, 10),
      PlainGap("CONSTRAINTS", 160, AnyRef)>>
    \o PerEntity(gs, LAMBDA e: <<PlainGap("FACT", 150, as_node(e))>>)
    \o <<PlainGap("COUNTEREXAMPLE", 130, AnyRef)>>

\* BackwardWaveGenerator::generate; a gap's id is its position, from 0.
generate(gs) ==
    CASE gs.intent = "LOOKUP" -> generate_lookup_gaps(gs)
      [] gs.intent = "DEFINE" -> generate_define_gaps(gs)
      [] gs.intent = "EXPLAIN" -> generate_explain_gaps(gs)
      [] gs.intent = "COMPARE" -> generate_compare_gaps(gs)
      [] gs.intent = "DERIVE" -> generate_derive_gaps(gs)
      [] gs.intent = "VERIFY" -> generate_verify_gaps(gs)
      [] gs.intent = "PLAN" -> generate_plan_gaps(gs)

-----------------------------------------------------------------------------
(* The template generator of the library, which no query of the store uses. *)

RefTag == 2
Nav(edges, depth, fanout) == [edges |-> edges, depth |-> depth, fanout |-> fanout]
\* Nodes, kibibytes, trust and conflicts at which a retrieval may stop.
Stop(nodes, kib, trust, conflicts) ==
    [max_nodes |-> nodes, max_io |-> 1024 * kib, min_trust |-> trust, max_conflicts |-> conflicts]
Pattern(subj, pred, tag, obj, qual) ==
    [subj |-> subj, pred |-> pred, tag |-> tag, obj |-> obj, qual |-> qual]
Template(kind, prio, pattern, nav, stop) ==
    [kind |-> kind, prio |-> prio, pattern |-> pattern, nav |-> nav, stop |-> stop]
Entity == [k |-> "Entity", v |-> 0]
AboutEntity == Pattern(Entity, AnyRef, None, AnyRef, 0)

lookup_templates ==
    <<Template("FACT", 200, AboutEntity, Nav({"DEFINES", "IMPLIES", "SUPPORTS"}, 2, 128),
               Stop(100, 1024, 50, 10)),
      Template("EVIDENCE", 150, AboutEntity, Nav({"DERIVED_FROM", "SUPPORTS"}, 3, 128),
               Stop(50, 512, 70, 5))>>
define_templates ==
    <<Template("DEFINITION", 255, Pattern(Entity, SymPat(1), SymTag, AnyRef, 0),
               Nav({"DEFINES", "REFINES", "SAME_AS"}, 2, 64), Stop(10, 256, 80, 2)),
      Template("CONSTRAINTS", 180, Pattern(Entity, AnyRef, None, AnyRef, 255),
               Nav({"DEPENDS_ON", "PREVENTS"}, 2, 64), Stop(20, 256, 60, 5))>>
explain_templates ==
    <<Template("CAUSAL", 255, Pattern(AnyRef, SymPat(3), RefTag, Entity, 0),
               Nav({"CAUSES", "ENABLES", "IMPLIES"}, 3, 128), Stop(50, 1024, 60, 10)),
      Template("CONSTRAINTS", 180, Pattern(Entity, SymPat(4), None, AnyRef, 255),
               Nav({"DEPENDS_ON", "PREVENTS"}, 2, 64), Stop(20, 256, 60, 5))>>
compare_templates ==
    <<Template("DEFINITION", 220, Pattern(Entity, SymPat(1), SymTag, AnyRef, 0),
               Nav({"DEFINES", "REFINES"}, 1, 64), Stop(10, 256, 70, 2)),
      Template("FACT", 200, AboutEntity, Nav({"IMPLIES", "SUPPORTS"}, 2, 128), Stop(50, 512, 60, 10)),
      Template("AXIS", 180, Pattern(AnyRef, SymPat(5), SymTag, AnyRef, 0),
               Nav({"SAME_AS", "GENERALIZES"}, 2, 64), Stop(20, 256, 50, 5))>>
derive_templates ==
    <<Template("CAUSAL", 255, Pattern(AnyRef, SymPat(6), None, Entity, 0),
               Nav({"IMPLIES", "DERIVED_FROM"}, 3, 128), Stop(50, 1024, 75, 10)),
      Template("FACT", 220, Pattern(AnyRef, AnyRef, None, AnyRef, 0),
               Nav({"SUPPORTS", "CAUSES"}, 2, 128), Stop(100, 1024, 60, 15))>>
verify_templates ==
    <<Template("EVIDENCE", 255, AboutEntity, Nav({"SUPPORTS", "DERIVED_FROM"}, 2, 128),
               Stop(100, 1024, 80, 5)),
      Template("COUNTEREXAMPLE", 220, Pattern(AnyRef, SymPat(8), None, Entity, 0),
               Nav({"CONTRADICTS"}, 2, 64), Stop(50, 512, 70, 5))>>
plan_templates ==
    <<Template("PROCEDURE", 255, Pattern(AnyRef, SymPat(9), None, Entity, 0),
               Nav({"STEP_OF", "INPUT_OF", "OUTPUT_OF"}, 3, 128), Stop(50, 1024, 70, 10)),
      Template("CONSTRAINTS", 180, Pattern(AnyRef, SymPat(4), None, AnyRef, 255),
               Nav({"PREVENTS", "DEPENDS_ON"}, 2, 64), Stop(20, 256, 60, 5))>>

get_templates(intent) ==
    CASE intent = "LOOKUP" -> lookup_templates
      [] intent = "DEFINE" -> define_templates
      [] intent = "EXPLAIN" -> explain_templates
      [] intent = "COMPARE" -> compare_templates
      [] intent = "DERIVE" -> derive_templates
      [] intent = "VERIFY" -> verify_templates
      [] intent = "PLAN" -> plan_templates

\* PatternRefTemplate, ClaimPatternTemplate and NavHintTemplate::instantiate:
\* the entity stands where the template says so, and is the walk's seed.
instantiate(ref, n) == IF ref # Entity THEN ref ELSE IF n = None THEN AnyRef ELSE NodePat(n)
GapsOfTemplate(t, nodes) ==
    LET gap(n) == [kind |-> t.kind, prio |-> t.prio, covered |-> FALSE, by |-> None,
                   subj |-> instantiate(t.pattern.subj, n), pred |-> t.pattern.pred,
                   obj |-> instantiate(t.pattern.obj, n), tag |-> t.pattern.tag, qual |-> t.pattern.qual,
                   seeds |-> IF n = None THEN <<>> ELSE <<n>>, edges |-> t.nav.edges,
                   depth |-> t.nav.depth, fanout |-> t.nav.fanout, stop |-> t.stop]
    IN  IF nodes = <<>> THEN <<gap(None)>> ELSE [i \in DOMAIN nodes |-> gap(nodes[i])]

TemplateGaps(intent, nodes) ==
    FoldLeft(LAMBDA acc, t: acc \o GapsOfTemplate(t, nodes), <<>>, get_templates(intent))

-----------------------------------------------------------------------------
(* The planner. Utilities are compared by cross multiplication: they share  *)
(* the constraint selectivity, and the rest is priority * quality / cost.   *)
(* Gaps of different kinds never have equal utilities, so that rounding     *)
(* cannot order the queries' gaps differently.                              *)

evidence_quality ==
    [EVIDENCE |-> 20, COUNTEREXAMPLE |-> 19, FACT |-> 18, CONSTRAINTS |-> 17, DEFINITION |-> 16,
     CAUSAL |-> 15, AXIS |-> 14, PROCEDURE |-> 13]

\* Ten times the cost, times the trust scale.
execution_cost(kind, trust_min) ==
    TrustScale * (CASE kind \in {"FACT", "DEFINITION"} -> 10
                    [] kind \in {"EVIDENCE", "CONSTRAINTS"} -> 12
                    [] kind \in {"COUNTEREXAMPLE", "AXIS"} -> 15
                    [] kind \in {"CAUSAL", "PROCEDURE"} -> 20)
    + 10 * trust_min

score_gap(gaps, goal, g) ==
    [gap |-> g, num |-> Max({gaps[g].prio, 1}) * evidence_quality[gaps[g].kind],
     den |-> execution_cost(gaps[g].kind, goal.trust_min)]

CeilCost(a) == (a.den + 10 * TrustScale - 1) \div (10 * TrustScale)

\* Actions are taken in order until max_actions; one that would pass the I/O
\* budget is skipped, and a cheaper one after it may still be taken.
TakeActions(ordered, budgets) ==
    LET take(acc, a) ==
          IF \/ Len(acc.chosen) >= budgets.max_actions
             \/ acc.io + CeilCost(a) > budgets.max_io THEN acc
          ELSE [chosen |-> Append(acc.chosen, a), io |-> acc.io + CeilCost(a)]
    IN  FoldLeft(take, [chosen |-> <<>>, io |-> 0], ordered).chosen

plan(gaps, goal, budgets) ==
    LET better(a, b) == \/ a.num * b.den > b.num * a.den
                        \/ a.num * b.den = b.num * a.den /\ a.gap < b.gap
    IN  TakeActions(Ordered({score_gap(gaps, goal, g) :
                                    g \in {i \in DOMAIN gaps: ~gaps[i].covered}}, better),
                    budgets)

\* A shard answers with claims, provenance and metadata, never with ready text.
is_memoryx_source_payload(p) == p = [claims |-> TRUE, provenance |-> TRUE, metadata |-> TRUE,
                                     text |-> FALSE]
supports_gap(shard, gap, goal) ==
    /\ shard.trust >= goal.trust_min
    /\ goal.domain = 0 \/ And(shard.domain, goal.domain) # 0
    /\ shard.kinds = {} \/ gap.kind \in shard.kinds
    /\ is_memoryx_source_payload(shard.payload)

\* Federated utility: the utility times (0.5 + trust), 5% more for a shard
\* that has every domain of the goal.
plan_federated(gaps, goal, budgets, shards) ==
    LET factor(s) == (TrustScale \div 2 + Min({s.trust, TrustScale}))
                     * (IF goal.domain # 0 /\ And(s.domain, goal.domain) = goal.domain THEN 21 ELSE 20)
        local == ToSet(plan(gaps, goal, [max_actions |-> Len(gaps), max_io |-> 3 * Len(gaps)]))
        offers == {[gap |-> a.gap, den |-> a.den, num |-> a.num * factor(shards[i]), shard |-> i] :
                     <<a, i>> \in {x \in local \X DOMAIN shards:
                                     supports_gap(shards[x[2]], gaps[x[1].gap], goal)}}
        better(a, b) == \/ a.num * b.den > b.num * a.den
                        \/ /\ a.num * b.den = b.num * a.den
                           /\ a.gap < b.gap \/ (a.gap = b.gap /\ a.shard < b.shard)
    IN  TakeActions(Ordered(offers, better), budgets)

-----------------------------------------------------------------------------
(* The router.                                                              *)

\* What create_router_with_history registers: atoms with a location (of the
\* index, else of the view cache), no deleted one, and superseded ones only
\* when the contract does not ask for current knowledge.
Registered(history) ==
    {a \in DOMAIN Atoms: /\ history \/ ~Atoms[a].superseded
                         /\ Atoms[a].trust > 0 /\ Atoms[a].located}

\* Every location has the same domains: a mask admits all of them or none.
matches_domain(mask) == mask = 0 \/ And(AllDomains, mask) # 0
OfNode(reg, n) == {a \in reg: Atoms[a].node = n}
\* The atom itself is its evidence once a source is attached to it.
attached_source_evidence_ref(a) == IF Atoms[a].source_id # 0 THEN {a} ELSE {}

Candidate(a, gap, backend, trust, io, evidence) ==
    [atom |-> a, node |-> Atoms[a].node, trust |-> trust, io |-> io, backend |-> backend,
     check |-> TRUE, gaps |-> {gap}, hard |-> 0, soft |-> 0, domain |-> AllDomains,
     evidence |-> evidence, claims |-> <<>>, ann |-> backend = "ANN", branch |-> None]
Registration(a, gap, backend, trust) ==
    Candidate(a, gap, backend, trust, Max({Atoms[a].len, MinIo}), attached_source_evidence_ref(a))

\* The candidates of a backend as a set: at most one per atom.
cas_route(reg, gaps, g, goal) ==
    LET gap == gaps[g]
        direct == {e.v : e \in {x \in ToSet(goal.entities): x.k = "Atom"}} \intersect reg
        noded == IF gap.subj.k = "Node" THEN OfNode(reg, gap.subj.v) ELSE {}
        broadcast == {a \in reg: /\ matches_domain(goal.domain)
                                 /\ Cardinality({b \in reg: b < a}) < BroadcastLimit}
    IN  {Candidate(a, g, "CAS", DefaultTrust, Atoms[a].len, {}) :
           a \in IF direct \union noded # {} THEN direct \union noded
                 ELSE IF gap.kind = "DEFINITION" /\ gap.subj = AnyRef /\ ~goal.lexical
                 THEN broadcast ELSE {}}

\* The postings of a term, and of a symbol's name or the symbol wildcard. An
\* id that the lexicon does not know is skipped.
lookup_term(t) == {a \in DOMAIN Atoms: t \in Atoms[a].terms}
resolve_term_id(id) == {w \in DOMAIN Directory.lexicon: Directory.lexicon[w] = id}
SymTerms(p, kind) == IF p.k = "Sym" THEN lookup_term(<<kind, p.v>>) \union lookup_term(<<kind>>)
                     ELSE {}
inverted_route(reg, gaps, g, goal) ==
    LET gap == gaps[g]
        ents == ToSet(goal.entities)
        termed == UNION {resolve_term_id(e.v) : e \in {x \in ents: x.k = "Term"}}
        lexical == IF goal.lexical /\ termed # {}
                   THEN {a \in DOMAIN Atoms: \A w \in termed: a \in lookup_term(w)}
                   ELSE UNION {lookup_term(w) : w \in termed}
        found == SymTerms(gap.subj, "sym") \union SymTerms(gap.pred, "pred")
                 \union SymTerms(gap.obj, "sym") \union lexical
                 \union UNION {lookup_term(<<"sym", e.v>>) : e \in {x \in ents: x.k = "Sym"}}
        broad == gap.subj = AnyRef /\ found = {} /\ ~goal.lexical
    IN  {Registration(a, g, "inverted", Atoms[a].trust) :
           a \in {b \in reg: (broad \/ b \in found) /\ matches_domain(goal.domain)}}

\* The walk from the seeds along the gap's edge types. A node without a
\* registered atom is walked through; outside the goal's domains nothing is.
\* The backend is replaced after the metadata was registered: default trust,
\* no evidence.
get_neighbors(n, types) ==
    LET ofType(a, t) == SelectSeq(Atoms[a].edges, LAMBDA e: e.type = t)
        first(s) == SubSeq(s, 1, Min({MaxFanout, Len(s)}))
    IN  UNION {{e.dst : e \in ToSet(first(ofType(a, t)))} :
                 <<a, t>> \in OfNode(DOMAIN Atoms, n) \X types}
walk(reg, seeds, types, depth, goal) ==
    LET open(n) == OfNode(reg, n) # {} => matches_domain(goal.domain)
        step(w, k) == LET fresh == UNION {get_neighbors(n, types) : n \in w.frontier} \ w.visited
                      IN  [visited |-> w.visited \union fresh,
                           frontier |-> {n \in fresh: open(n)},
                           found |-> w.found \union {n \in fresh: open(n)}]
    IN  FoldLeft(step, [visited |-> seeds, frontier |-> seeds, found |-> {}],
                 [k \in 1..depth |-> k]).found
graph_route(reg, gaps, g, goal) ==
    LET gap == gaps[g]
    IN  {Candidate(a, g, "graph", DefaultTrust, Max({Atoms[a].len, MinIo}), {}) :
           a \in UNION {OfNode(reg, n) :
                           n \in walk(reg, ToSet(gap.seeds), gap.edges, gap.depth, goal)}}

\* The last of several vectors that finds an atom decides its trust, and an
\* entity of the goal has its own.
ann_route(reg, gaps, g, goal) ==
    LET k(v) == Min({AnnLimit, Len(Nearest[v])})
        near == FoldLeft(LAMBDA acc, v: acc \o SubSeq(Nearest[v], 1, k(v)), <<>>, goal.vectors)
        usable(a) == a \in reg /\ matches_domain(goal.domain)
        hits == SelectSeq(near, LAMBDA h: usable(h.atom) /\ Atoms[h.atom].trust >= goal.trust_min)
        nodes == {a \in reg: usable(a) /\ Contains(goal.entities, EntityRef("Node", Atoms[a].node))}
    IN  {Registration(hits[i].atom, g, "ANN", Min({hits[i].sim, Atoms[hits[i].atom].trust})) :
            i \in {j \in DOMAIN hits: /\ hits[j].atom \notin nodes
                                      /\ \A m \in DOMAIN hits: hits[m].atom = hits[j].atom => m <= j}}
        \union {Registration(a, g, "ANN", Atoms[a].trust) : a \in nodes}

Prefer(first, second) ==
    first \union {c \in second: \A d \in first: d.atom # c.atom}

needs_graph_walk(gap) == gap.kind \in {"CAUSAL", "COUNTEREXAMPLE"} \/ gap.edges # {}
ByAtom(cs) == Ordered(cs, LAMBDA c, d: c.atom < d.atom)

\* QueryRouter::route. A query by vector prefers what the vectors found.
route(reg, gaps, g, goal) ==
    LET lexical == Prefer(cas_route(reg, gaps, g, goal), inverted_route(reg, gaps, g, goal))
        walked == IF needs_graph_walk(gaps[g]) \/ gaps[g].seeds # <<>>
                  THEN Prefer(lexical, graph_route(reg, gaps, g, goal)) ELSE lexical
        near == ann_route(reg, gaps, g, goal)
    IN  ByAtom(IF goal.vectors = <<>> THEN Prefer(walked, near) ELSE Prefer(near, walked))

\* The routing policy by kind of gap, which keeps what each backend says.
route_one_gap(reg, gaps, g, goal) ==
    LET kind == gaps[g].kind
    IN  (IF kind \in {"DEFINITION", "EVIDENCE", "CONSTRAINTS", "PROCEDURE"}
         THEN cas_route(reg, gaps, g, goal) ELSE {})
        \union (IF kind \in {"DEFINITION", "FACT", "AXIS", "PROCEDURE"}
                THEN inverted_route(reg, gaps, g, goal) ELSE {})
        \union (IF kind \in {"CAUSAL", "COUNTEREXAMPLE"} THEN graph_route(reg, gaps, g, goal) ELSE {})

SourcePriority == [CAS |-> 0, inverted |-> 1, graph |-> 2, ANN |-> 3]
\* Of each atom the candidate of the best backend, the first of equals.
dedup_candidates(cs) ==
    LET rank(i) == SourcePriority[cs[i].backend]
        better(j, i) == rank(j) < rank(i) \/ (rank(j) = rank(i) /\ j < i)
    IN  ByAtom({cs[i] : i \in {n \in DOMAIN cs:
                  \A j \in DOMAIN cs: cs[j].atom = cs[n].atom => ~better(j, n)}})

-----------------------------------------------------------------------------
(* Constraints on candidates.                                               *)

\* ConstraintSubject for Candidate. A candidate's age is never set, so its
\* time is never known; every atom is routed as a fact.
CustomValue(c, name) ==
    CASE name = "atom_id" -> Text(<<"atom", c.atom>>)
      [] name = "node_num" -> Num(c.node)
      [] name = "atom_type" -> Text(<<"FACT">>)
      [] name \in {"backend", "source_backend"} -> Text(<<c.backend>>)
      [] name = "trust" -> Num(c.trust)
      [] name \in {"domain", "domain_mask"} -> Num(c.domain)
      [] name = "requires_invariant_check" -> Flag(c.check)
      [] name = "ann_candidate_requires_filtering" -> Flag(c.ann)
      [] OTHER -> None
value_for(c, target) ==
    CASE target = "Entity" -> Text(<<"node", c.node>>)
      [] target = "Domain" -> Num(c.domain)
      [] target = "NumericMetric" -> Num(c.trust)
      [] target = "Source" -> Text(<<c.backend>>)
      [] target = "Evidence" -> Listing({Text(<<"atom", a>>) : a \in c.evidence})
      [] target \in {"Time", "EntityType", "Predicate", "Relation", "Context", "Text"} -> None
      [] OTHER -> CustomValue(c, target)

values_equal(a, b) == a.ty = b.ty /\ a.v = b.v
\* A text contains any part of itself; of a listing only texts are compared.
contains_value(actual, expected) ==
    LET texts(xs) == {x \in xs: x.ty = "Text"}
    IN  CASE actual.ty = "Text" /\ expected.ty = "Text" ->
               \E i \in 1..Len(actual.v) + 1, j \in 0..Len(actual.v): SubSeq(actual.v, i, j) = expected.v
          [] actual.ty = "List" /\ expected.ty = "List" -> texts(expected.v) \subseteq texts(actual.v)
          [] actual.ty = "List" /\ expected.ty # "List" -> \E x \in actual.v: values_equal(x, expected)
          [] OTHER -> values_equal(actual, expected)
numeric_pair(a, b) == a.ty = "Number" /\ b.ty = "Number"

compare_values(actual, op, expected) ==
    CASE op = "Exists" -> TRUE  \* a known value is never ConstraintValue::None
      [] op = "Eq" -> values_equal(actual, expected)
      [] op = "Ne" -> ~values_equal(actual, expected)
      [] op \in {"Contains", "Matches"} -> contains_value(actual, expected)
      [] op \in {"Gte", "After"} -> numeric_pair(actual, expected) /\ actual.v >= expected.v
      [] op = "Lte" -> numeric_pair(actual, expected) /\ actual.v <= expected.v
      [] op = "Before" -> numeric_pair(actual, expected) /\ actual.v < expected.v
      [] op \in {"During", "Within"} ->
            /\ actual.ty = "Number" /\ expected.ty = "TimeRange"
            /\ RangeOf(expected.v)[1] <= actual.v /\ actual.v < RangeOf(expected.v)[2]

evaluate_constraint(k, c) ==
    LET actual == value_for(c, k.target)
    IN  IF actual = None THEN "Unknown"
        ELSE IF compare_values(actual, k.op, k.value) # (k.strength = "MustNot") THEN "Satisfied"
        ELSE "Violated"

hard_constraints_satisfied(results) == \A r \in results: r \notin {"Violated", "BlockedByPolicy"}

\* The view of a candidate for other retrieval channels.
from_candidate(c, goal) ==
    [atom |-> c.atom, gain |-> Cardinality(c.gaps), cost |-> Max({c.io, 1}),
     backend |-> c.backend, requires_validation |-> c.check \/ c.ann,
     matched |-> {goal.constraints[i].id :
                    i \in {j \in DOMAIN goal.constraints:
                              evaluate_constraint(goal.constraints[j], c) = "Satisfied"}}]
route_v2(reg, gaps, g, goal) ==
    LET cs == route(reg, gaps, g, goal) IN [i \in DOMAIN cs |-> from_candidate(cs[i], goal)]
=============================================================================
