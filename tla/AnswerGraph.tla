----------------------------- MODULE AnswerGraph -----------------------------
(***************************************************************************)
(* Answer graphs and answer packs (src/store/api.rs), the greedy set cover *)
(* that chooses the nodes of a graph (src/query/solver.rs,                 *)
(* src/query/set_cover.rs) and the cost model (src/query/cost.rs).         *)
(*                                                                         *)
(* Indices of nodes and of candidates count from 1.  Costs are counted in  *)
(* tenths; a ratio is a pair [num, den] and compared by multiplication.    *)
(***************************************************************************)
EXTENDS QueryPlanning

-----------------------------------------------------------------------------
(* Graphs.                                                                  *)

\* AgNode::new filled from a candidate.
AgNode(c) ==
    [atom |-> c.atom, node |-> c.node, trust |-> c.trust, io |-> c.io, domain |-> c.domain,
     hard |-> c.hard, soft |-> c.soft, evidence |-> c.evidence, claims |-> c.claims,
     branch |-> c.branch, gaps |-> c.gaps]

AgEdge(src, dst, type, confidence) ==
    [src |-> src, dst |-> dst, type |-> type, confidence |-> confidence]
ProofStep(rule, premises, conclusion) ==
    [rule |-> rule, premises |-> premises, conclusion |-> conclusion]

EmptyGraph == [nodes |-> <<>>, edges |-> <<>>, steps |-> <<>>, claims |-> <<>>,
               covered |-> {}, lineage |-> <<>>]

add_node(g, n) == [g EXCEPT !.nodes = Append(@, n)]
add_edge(g, e) == [g EXCEPT !.edges = Append(@, e)]
add_proof_step(g, s) == [g EXCEPT !.steps = Append(@, s)]
mark_gaps_covered(g, gaps) == [g EXCEPT !.covered = @ \union gaps]
AddNew(s, x) == IF Contains(s, x) THEN s ELSE Append(s, x)

\* Nodes of one atom in one branch become one node, which keeps the most of
\* everything that its parts say.
NodeKey(n) == <<n.atom, n.branch>>
\* Mutant: the gaps of the first part only.
MergeNodeFirstGaps(n, m) ==
    [n EXCEPT !.trust = Max({@, m.trust}), !.io = Max({@, m.io}),
              !.domain = Or(@, m.domain), !.hard = Max({@, m.hard}), !.soft = Max({@, m.soft}),
              !.evidence = @ \union m.evidence, !.claims = FoldLeft(AddNew, @, m.claims)]
MergeNode(n, m) ==
    [n EXCEPT !.gaps = @ \union m.gaps, !.trust = Max({@, m.trust}), !.io = Max({@, m.io}),
              !.domain = Or(@, m.domain), !.hard = Max({@, m.hard}), !.soft = Max({@, m.soft}),
              !.evidence = @ \union m.evidence, !.claims = FoldLeft(AddNew, @, m.claims)]
FirstOf(nodes, i) == Min({j \in DOMAIN nodes: NodeKey(nodes[j]) = NodeKey(nodes[i])})

CanonicalNodes(nodes) ==
    LET firsts == Ordered({FirstOf(nodes, i) : i \in DOMAIN nodes}, <)
        parts(f) == SelectSeq(nodes, LAMBDA n: NodeKey(n) = NodeKey(nodes[f]))
    IN  [k \in DOMAIN firsts |-> FoldLeft(MergeNode, nodes[firsts[k]], Tail(parts(firsts[k])))]

\* Old index -> new index
OldToNew(nodes) ==
    [i \in DOMAIN nodes |-> Cardinality({FirstOf(nodes, j) : j \in 1..FirstOf(nodes, i)})]

\* An edge out of range, or between two parts of one node, is dropped; of
\* equal edges the best confidence is kept.
CanonicalEdges(edges, map) ==
    LET same(e, d) == e.src = d.src /\ e.dst = d.dst /\ e.type = d.type
        take(acc, e) ==
          IF ~({e.src, e.dst} \subseteq DOMAIN map) THEN acc
          ELSE IF map[e.src] = map[e.dst] /\ e.src # e.dst THEN acc
          ELSE LET n == [e EXCEPT !.src = map[@], !.dst = map[@]]
               IN  IF \A k \in DOMAIN acc: ~same(acc[k], n) THEN Append(acc, n)
                   ELSE [k \in DOMAIN acc |->
                           IF same(acc[k], n)
                           THEN [acc[k] EXCEPT !.confidence = Max({@, n.confidence})]
                           ELSE acc[k]]
    IN  FoldLeft(take, <<>>, edges)

\* A proof step needs its conclusion, and premises other than it.
CanonicalSteps(steps, map) ==
    LET take(acc, s) ==
          IF s.conclusion \notin DOMAIN map THEN acc
          ELSE LET n == [s EXCEPT !.conclusion = map[@],
                                  !.premises = {map[p] : p \in @ \intersect DOMAIN map}]
               IN  IF n.premises = {} \/ n.conclusion \in n.premises THEN acc
                   ELSE AddNew(acc, n)
    IN  FoldLeft(take, <<>>, steps)

canonicalize_nodes(g) ==
    LET map == OldToNew(g.nodes)
    IN  [g EXCEPT !.nodes = CanonicalNodes(@), !.edges = CanonicalEdges(@, map),
                  !.steps = CanonicalSteps(@, map)]

\* Nodes that cover no gap are removed; of the edges only the range is
\* looked at, and the proof steps are left as they are.
prune(g) ==
    LET kept == SelectSeq(g.nodes, LAMBDA n: n.gaps # {})
    IN  [g EXCEPT !.nodes = kept,
                  !.edges = SelectSeq(@, LAMBDA e: {e.src, e.dst} \subseteq DOMAIN kept)]

-----------------------------------------------------------------------------
(* Choosing candidates.                                                     *)

SumOver(s, F(_)) == FoldLeft(LAMBDA acc, x: acc + F(x), 0, s)
Benefit(gaps, ids) == MapThenSumSet(LAMBDA g: gaps[g].prio, ids \intersect DOMAIN gaps)

\* Twice the bytes, a million for a hard and a thousand for a soft conflict,
\* ten over the trust (with trust at most full), and one.
SelectionCost(c) ==
    20 * c.io + 10 + 10000000 * c.hard + 10000 * c.soft
    + (IF c.trust > 0 THEN (100 * TrustScale) \div c.trust ELSE 1000)

Marginal(c, covered) == c.gaps \ covered
Ratio(num, den) == [num |-> num, den |-> den]
Greater(a, b) == a.num * b.den > b.num * a.den
Same(a, b) == a.num * b.den = b.num * a.den

\* What a candidate is worth: its benefit for its cost.  Of the alternates,
\* strategy 0 charges more for cost, 1 weighs the trust, 2 divides by the
\* number of gaps.
Cover == 3      \* the selection of the answer itself
SelectionScore(c, gaps, covered, strategy) ==
    LET weight == CASE strategy = 0 -> <<2, 3>>
                    [] strategy = 1 -> <<c.trust, TrustScale>>
                    [] strategy = 2 -> <<1, Cardinality(Marginal(c, covered))>>
                    [] OTHER -> <<1, 1>>
    IN  Ratio(Benefit(gaps, Marginal(c, covered)) * weight[1], SelectionCost(c) * weight[2])

\* The greedy loop: while a gap is open, take the best candidate that covers one.
\* Of equals the cover takes the smallest atom, an alternate the first.
GreedySelect(candidates, gaps, strategy) ==
    LET order(i) == IF strategy = Cover THEN candidates[i].atom ELSE i
        best(useful, worth) ==
          CHOOSE i \in useful: \A j \in useful \ {i}:
              \/ Greater(worth[i], worth[j])
              \/ /\ Same(worth[i], worth[j])
                 /\ order(i) < order(j) \/ (order(i) = order(j) /\ i < j)
        step(acc, k) ==
          LET useful == {i \in DOMAIN candidates \ ToSet(acc.sel):
                           Marginal(candidates[i], acc.covered) # {}}
              worth == [i \in useful |-> SelectionScore(candidates[i], gaps, acc.covered, strategy)]
              taken == best(useful, worth)
          IN  IF Cardinality(acc.covered) >= Len(gaps) \/ useful = {} THEN acc
              ELSE [sel |-> Append(acc.sel, taken),
                    covered |-> acc.covered \union candidates[taken].gaps]
    IN  FoldLeft(step, [sel |-> <<>>, covered |-> {}], [i \in DOMAIN candidates |-> i]).sel

\* What links candidates: their evidence, the ends and the predicates of
\* their claims, their gaps and their node.
BridgeKeys(c) ==
    {<<"atom", a>> : a \in c.evidence}
    \union UNION {{<<"val", k.subj>>, <<"pred", k.pred>>, <<"obj", k.val>>} : k \in ToSet(c.claims)}
    \union {<<"gap", g>> : g \in c.gaps} \union {<<"node", c.node>>}

\* The components of the chosen candidates under shared keys.
Components(candidates, chosen) ==
    LET linked(P, i) == \E j \in P:
                          BridgeKeys(candidates[i]) \intersect BridgeKeys(candidates[j]) # {}
        join(parts, i) == LET touched == {P \in parts: linked(P, i)}
                          IN  (parts \ touched) \union {UNION touched \union {i}}
    IN  FoldLeft(join, {}, Listed(chosen))

\* For each pair of components the first candidate that touches both; else
\* the candidates that evidence and claims name; else all that share a gap.
Bridges(candidates, chosen) ==
    LET rest == DOMAIN candidates \ chosen
        keys(S) == UNION {BridgeKeys(candidates[i]) : i \in S}
        spans(i, P, Q) == /\ BridgeKeys(candidates[i]) \intersect keys(P) # {}
                          /\ BridgeKeys(candidates[i]) \intersect keys(Q) # {}
        parts == Components(candidates, chosen)
        pairs == {<<P, Q>> \in parts \X parts: P # Q /\ \E i \in rest: spans(i, P, Q)}
        between == {Min({i \in rest: spans(i, p[1], p[2])}) : p \in pairs}
        first(S) == IF S = {} THEN {} ELSE {Min(S)}
        named == UNION {
            UNION {first({j \in rest: candidates[j].atom = a}) : a \in candidates[i].evidence}
            \union UNION {first({j \in rest: candidates[j].node = k.subj}) :
                            k \in ToSet(candidates[i].claims)} : i \in chosen}
        sharing == {j \in rest: \E i \in chosen:
                                  candidates[i].gaps \intersect candidates[j].gaps # {}}
    IN  IF between # {} THEN between ELSE IF named # {} THEN named ELSE sharing

MaxClosureRounds == 10
add_connectivity_closure(candidates, selected) ==
    LET grow(chosen, k) ==
          IF Cardinality(Components(candidates, chosen)) <= 1 THEN chosen
          ELSE chosen \union Bridges(candidates, chosen)
    IN  IF Len(selected) <= 1 THEN selected
        ELSE Ordered(FoldLeft(grow, ToSet(selected), [k \in 1..MaxClosureRounds |-> k]), <)

ConnectedSchemas == {"Tree", "Graph", "Explanation"}

greedy_select(candidates, gaps, schema) ==
    LET chosen == GreedySelect(candidates, gaps, Cover)
    IN  IF schema \in ConnectedSchemas THEN add_connectivity_closure(candidates, chosen) ELSE chosen

alt_greedy_select(candidates, gaps, strategy) == GreedySelect(candidates, gaps, strategy)

-----------------------------------------------------------------------------
(* Packs.                                                                   *)

CoveredIds(gaps) == {g \in DOMAIN gaps: gaps[g].covered}

derive_answer_status(graph, total) ==
    IF \E i \in DOMAIN graph.nodes: graph.nodes[i].hard > 0 THEN "Conflicted"
    ELSE IF graph.nodes = <<>> THEN IF total > 0 THEN "InsufficientEvidence" ELSE "NoMatch"
    ELSE IF total > 0 /\ Cardinality(graph.covered) < total THEN "Partial"
    ELSE "Complete"

EmptyPack(ctx) ==
    [graph |-> EmptyGraph, ctx |-> ctx, status |-> "NoMatch", limits |-> <<>>, claims |-> <<>>,
     evidence |-> {}, total |-> 0, uncovered |-> {}, alternates |-> <<>>, rejected |-> <<>>,
     conflicts |-> <<>>, sets |-> {}]
WithLimit(pack, code) == [pack EXCEPT !.limits = Append(@, code)]
WithStatus(pack, status) == [pack EXCEPT !.status = status]

\* The limitations that a graph shows; ages are never set, so none is
\* outdated, and the confidence is left out.
LimitationsOf(graph, total) ==
    LET nodes == graph.nodes
        n == Len(nodes)
        when(c, code) == IF c THEN <<code>> ELSE <<>>
        trust == SumOver(nodes, LAMBDA x: x.trust)
        io == SumOver(nodes, LAMBDA x: x.io)
        open == Cardinality(graph.covered) < total
    IN  when(open, "IncompleteEvidence")
        \o when(n = 0 \/ 2 * trust < n * TrustScale, "LowConfidence")
        \o when(\E i \in DOMAIN nodes: nodes[i].hard > 0, "ConflictsPresent")
        \o when(\E i \in DOMAIN nodes: nodes[i].soft > 0, "ConflictsPresent")
        \o when(open /\ n > 0 /\ io > 262144, "BudgetExhausted")
        \o when(n > 1 /\ graph.edges = <<>>, "TraversalIncomplete")
        \o when(\E i \in DOMAIN nodes: nodes[i].domain = 0, "DomainMismatch")

from_solver(graph, ctx, gaps) ==
    LET g == canonicalize_nodes(graph)
    IN  [EmptyPack(ctx) EXCEPT
            !.graph = g, !.total = Len(gaps), !.uncovered = DOMAIN gaps \ CoveredIds(gaps),
            !.status = derive_answer_status(g, Len(gaps)),
            !.limits = LimitationsOf(g, Len(gaps))]

\* An alternate links nodes of like trust, and takes its covered gaps from
\* the flags that the primary answer set.
AltGraph(candidates, selected, gaps, branch, lineage) ==
    LET node(i) == LET n == AgNode(candidates[selected[i]])
                   IN  IF branch = None THEN n ELSE [n EXCEPT !.branch = branch]
        near(i, j) == LET d == candidates[selected[i]].trust - candidates[selected[j]].trust
                      IN  10 * d < TrustScale /\ -10 * d < TrustScale
        pairs == Ordered({p \in (DOMAIN selected) \X (DOMAIN selected):
                                  p[1] < p[2] /\ near(p[1], p[2])},
                              LAMBDA p, q: p[1] < q[1] \/ (p[1] = q[1] /\ p[2] < q[2]))
    IN  [EmptyGraph EXCEPT
            !.nodes = [i \in DOMAIN selected |-> node(i)],
            !.edges = [k \in DOMAIN pairs |->
                         AgEdge(pairs[k][1], pairs[k][2], "Supports", DefaultTrust)],
            !.covered = CoveredIds(gaps), !.lineage = lineage]

build_alt_graph(candidates, selected, gaps) ==
    AltGraph(candidates, selected, gaps, None,
             FoldLeft(LAMBDA acc, i: IF candidates[i].branch = None THEN acc
                                     ELSE AddNew(acc, candidates[i].branch), <<>>, selected))
build_alt_graph_from_branch(candidates, selected, gaps, branch) ==
    AltGraph(candidates, selected, gaps, branch, <<branch>>)

\* The selection of the primary answer is taken to be its own indices.
MaxAlternates == 3
generate_alternates(pack, candidates, gaps) ==
    LET primary == [i \in DOMAIN pack.graph.nodes |-> i]
        try(acc, strategy) ==
          LET sel == alt_greedy_select(candidates, gaps, strategy)
          IN  IF sel = <<>> \/ sel = primary THEN acc
              ELSE Append(acc, from_solver(build_alt_graph(candidates, sel, gaps), pack.ctx, gaps))
        byStrategy == FoldLeft(try, <<>>, <<0, 1, 2>>)
        first == IF pack.graph.nodes = <<>> THEN None ELSE pack.graph.nodes[1].branch
        branches == {candidates[i].branch : i \in DOMAIN candidates} \ {first}
        group(b) == Ordered({i \in DOMAIN candidates: candidates[i].branch = b}, <)
        tryBranch(acc, b) ==
          IF Len(acc) >= MaxAlternates THEN acc
          ELSE LET ctx == IF b = None THEN pack.ctx ELSE b
               IN  Append(acc, from_solver(
                        build_alt_graph_from_branch(candidates, group(b), gaps, ctx), ctx, gaps))
    IN  IF candidates = <<>> \/ gaps = <<>> THEN pack
        ELSE [pack EXCEPT !.alternates = FoldLeft(tryBranch, byStrategy, Listed(branches))]

\* MemoryX::apply_output_limit: every collection is cut to max_items, and an
\* answer that lost anything is partial, whatever it was before.
FirstN(s, n) == SubSeq(s, 1, Min({n, Len(s)}))
answer_collection_items(p) ==
    Len(p.graph.nodes) + Len(p.graph.edges) + Len(p.graph.steps) + 2 * Len(p.claims)
    + 2 * Cardinality(p.evidence) + Len(p.rejected) + Len(p.limits) + Len(p.alternates)
    + Len(p.conflicts) + Cardinality(p.sets)
LimitOne(p, n) ==
    LET nodes == FirstN(p.graph.nodes, n)
        in(i) == i \in DOMAIN nodes
        edges == IF Len(p.graph.nodes) <= n THEN p.graph.edges
                 ELSE SelectSeq(p.graph.edges, LAMBDA e: in(e.src) /\ in(e.dst))
        steps == IF Len(p.graph.nodes) <= n THEN p.graph.steps
                 ELSE SelectSeq(p.graph.steps,
                                LAMBDA s: in(s.conclusion) /\ s.premises \subseteq DOMAIN nodes)
        cut == [p EXCEPT
                  !.graph = [@ EXCEPT !.nodes = nodes, !.edges = FirstN(edges, n),
                                      !.steps = FirstN(steps, n)],
                  !.claims = FirstN(@, n), !.rejected = FirstN(@, n),
                  !.alternates = FirstN(@, n), !.conflicts = FirstN(@, n),
                  !.evidence = ToSet(FirstN(Listed(UNION {nodes[i].evidence : i \in DOMAIN nodes}), n)),
                  !.limits = FirstN(@, n)]
    IN  IF answer_collection_items(cut) >= answer_collection_items(p) THEN cut
        ELSE [cut EXCEPT !.status = "Partial",
                         !.limits = Append(FirstN(@, n - 1), "BudgetExhausted")]
apply_output_limit(pack, n) ==
    LimitOne([pack EXCEPT !.alternates = [i \in DOMAIN @ |-> LimitOne(@[i], n)]], n)
=============================================================================
