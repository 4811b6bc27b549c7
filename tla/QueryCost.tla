------------------------------ MODULE QueryCost ------------------------------
(***************************************************************************)
(* The cost and set cover library of the query layer (src/query/cost.rs,   *)
(* src/query/set_cover.rs), which callers use beside the solver's own      *)
(* selection.                                                              *)
(*                                                                         *)
(* A calculator is its fields, [w |-> weights, now |-> timestamp].  Costs  *)
(* are counted in tenths and times in years; a quotient is rounded down to *)
(* a tenth where it is a cost, and stays a pair [num, den] where it is a   *)
(* ratio.  Gaps are [id, prio], atoms and candidates count from 1.         *)
(***************************************************************************)
EXTENDS AnswerGraph

\* CostWeights::default, in tenths.
DefaultWeights == [wN |-> 10, wE |-> 2, wIO |-> 20, wC |-> 10000000, wS |-> 10000, wT |-> 100,
                   wA |-> 10, wD |-> 50]

\* CostBreakdown
NoCost == [nodes |-> 0, edges |-> 0, io |-> 0, hard |-> 0, soft |-> 0, trust |-> 0, age |-> 0,
           domain |-> 0]
total(b) == MapThenSumSet(LAMBDA f: b[f], DOMAIN b)
has_hard_conflicts(b) == b.hard > 0
exceeds_threshold(b, threshold) == total(b) > threshold
\* The last of the largest components.
dominant_component(b) ==
    LET order == <<"nodes", "edges", "io", "hard", "soft", "trust", "age", "domain">>
    IN  order[Max({i \in DOMAIN order: \A f \in DOMAIN b: b[f] <= b[order[i]]})]

\* The trust is clamped to between a hundredth of full trust and full trust.
calculate_trust_penalty(k, trust) ==
    LET t == Min({100 * TrustScale, Max({TrustScale, 100 * trust})})
    IN  (k.w.wT * (100 * TrustScale - t)) \div t
\* The time since then, unless either is unknown or it lies ahead.
calculate_age_penalty(k, since) ==
    IF k.now = 0 \/ since = 0 \/ since > k.now THEN 0 ELSE k.w.wA * (k.now - since)
calculate_domain_penalty(k, mask) == IF mask = 0 THEN k.w.wD ELSE 0

\* An atom is [meta, claims, trust, from, domain] here, its claims 32 bytes each.
estimate_claims_size(atom) == 32 * Len(atom.claims)
atom_cost_breakdown(k, atom) ==
    [NoCost EXCEPT !.nodes = k.w.wN, !.io = k.w.wIO * (atom.meta + estimate_claims_size(atom)),
                   !.trust = calculate_trust_penalty(k, atom.trust),
                   !.age = calculate_age_penalty(k, atom.from),
                   !.domain = calculate_domain_penalty(k, atom.domain)]
atom_cost(k, atom) == total(atom_cost_breakdown(k, atom))

\* A node carries the time of its atom as `age`, 0 when it was not set.
calculate_node_cost(k, n) ==
    [NoCost EXCEPT !.nodes = k.w.wN, !.io = k.w.wIO * n.io,
                   !.trust = calculate_trust_penalty(k, n.trust),
                   !.age = calculate_age_penalty(k, n.age),
                   !.domain = calculate_domain_penalty(k, n.domain),
                   !.hard = k.w.wC * n.hard, !.soft = k.w.wS * n.soft]
ag_cost_breakdown(k, g) ==
    LET add(b, n) == LET c == calculate_node_cost(k, n) IN [f \in DOMAIN b |-> b[f] + c[f]]
    IN  [FoldLeft(add, NoCost, g.nodes) EXCEPT !.edges = k.w.wE * Len(g.edges)]
ag_cost(k, g) == total(ag_cost_breakdown(k, g))

\* Worth for cost: what costs nothing is worth more than any finite ratio.
Infinity == Ratio(1, 0)
PerCost(worth, cost) == IF cost <= 0 THEN Infinity ELSE Ratio(worth, cost)

average_cost_per_node(k, g) ==
    IF g.nodes = <<>> THEN Ratio(0, 1) ELSE Ratio(ag_cost(k, g), Len(g.nodes))
cost_efficiency(k, g) == PerCost(Cardinality(g.covered), ag_cost(k, g))
within_budget(k, g, budget) == ag_cost(k, g) <= budget
cost_difference(k, g, h) == LET d == ag_cost(k, g) - ag_cost(k, h) IN IF d < 0 THEN -d ELSE d

\* Without priorities every gap is worth 100; with them, they are looked up
\* by gap id, from 0, and a gap beyond them is worth nothing.
PriorityBenefit(ids, priorities) ==
    IF priorities = None THEN 100 * Len(ids)
    ELSE SumOver(SelectSeq(ids, LAMBDA g: g + 1 \in DOMAIN priorities),
                 LAMBDA g: priorities[g + 1])
benefit_cost_ratio(k, atom, ids, priorities) ==
    PerCost(PriorityBenefit(ids, priorities), atom_cost(k, atom))
\* By the cost that the node was given, not by one computed now.
node_benefit_cost_ratio(n, priorities) ==
    PerCost(PriorityBenefit(Listed(n.gaps), priorities), n.cost)
marginal_benefit_cost_ratio(k, atom, ids, already, priorities) ==
    LET marginal == SelectSeq(ids, LAMBDA g: g \notin ToSet(already))
    IN  IF marginal = <<>> THEN Ratio(0, 1) ELSE benefit_cost_ratio(k, atom, marginal, priorities)

\* What the removal of a node saves: its own cost and that of its edges.
estimate_savings(k, g, i) ==
    IF i \notin DOMAIN g.nodes THEN 0
    ELSE total(calculate_node_cost(k, g.nodes[i]))
         + k.w.wE * Len(SelectSeq(g.edges, LAMBDA e: i \in {e.src, e.dst}))

\* The first of the cheapest.
find_lowest_cost(k, graphs) ==
    IF graphs = <<>> THEN None
    ELSE Min({i \in DOMAIN graphs:
                \A j \in DOMAIN graphs: ag_cost(k, graphs[i]) <= ag_cost(k, graphs[j])})

\* The graphs that no other beats in cost and coverage.
Dominates(k, h, g) ==
    LET hc == ag_cost(k, h)
        gc == ag_cost(k, g)
        more == Cardinality(h.covered) - Cardinality(g.covered)
    IN  hc <= gc /\ more >= 0 /\ (hc < gc \/ more > 0)
pareto_frontier(k, graphs) ==
    {i \in DOMAIN graphs: \A j \in DOMAIN graphs \ {i}: ~Dominates(k, graphs[j], graphs[i])}

-----------------------------------------------------------------------------
(* Set cover over atom candidates.                                          *)

\* A candidate before its fields are set: half of full trust, 256 bytes.
AtomCandidate(atom) ==
    [atom |-> atom, trust |-> TrustScale \div 2, edges |-> 0, io |-> 256, gaps |-> <<>>]

\* Trust costs 100 minus its percentage, less than nothing above full trust.
calculate_cost(c, w) ==
    w.wN + w.wE * c.edges + w.wIO * c.io + (w.wT * (100 * TrustScale - 100 * c.trust)) \div TrustScale
\* A gap that the candidate lists twice counts twice, one that is not asked
\* for counts nothing.
calculate_benefit(c, gaps, covered) ==
    LET known == {gaps[i].id : i \in DOMAIN gaps} \ covered
        first(id) == gaps[Min({i \in DOMAIN gaps: gaps[i].id = id})]
    IN  SumOver(SelectSeq(c.gaps, LAMBDA id: id \in known), LAMBDA id: first(id).prio)
cost_benefit_ratio(c, gaps, covered, w) ==
    PerCost(calculate_benefit(c, gaps, covered), calculate_cost(c, w))

\* One pass over what is available: the best candidate with a benefit that
\* the budget still pays for, ties to the smaller atom id.
BestAtom(gaps, candidates, w, acc, max) ==
    LET useful(i) == /\ i \notin ToSet(acc.sel)
                     /\ calculate_benefit(candidates[i], gaps, acc.covered) > 0
                     /\ max = None \/ acc.cost + calculate_cost(candidates[i], w) <= max
        ratio(i) == cost_benefit_ratio(candidates[i], gaps, acc.covered, w)
        better(best, i) ==
          IF useful(i) /\ \/ best = 0
                          \/ Greater(ratio(i), ratio(best))
                          \/ /\ Same(ratio(i), ratio(best))
                             /\ candidates[i].atom < candidates[best].atom
          THEN i ELSE best
    IN  FoldLeft(better, 0, [i \in DOMAIN candidates |-> i])

\* SetCoverResult
CoverResult(total_gaps, sel, atoms, cost, covered) ==
    [sel |-> sel, atoms |-> atoms, cost |-> cost, gaps_covered |-> covered,
     total_gaps |-> total_gaps, ratio |-> Ratio(covered, Max({total_gaps, 1}))]
is_complete(result) == result.gaps_covered >= result.total_gaps

\* The greedy loop stops at the number of gaps covered, unknown ones
\* included, when the budget is spent and when nothing has a benefit.
SetCover(gaps, candidates, w, max) ==
    LET step(acc, n) ==
          LET best == BestAtom(gaps, candidates, w, acc, max)
          IN  IF \/ Cardinality(acc.covered) >= Len(gaps)
                 \/ max # None /\ acc.cost >= max
                 \/ best = 0 THEN acc
              ELSE [sel |-> Append(acc.sel, best),
                    covered |-> acc.covered \union ToSet(candidates[best].gaps),
                    cost |-> acc.cost + calculate_cost(candidates[best], w)]
        final == FoldLeft(step, [sel |-> <<>>, covered |-> {}, cost |-> 0],
                          [i \in DOMAIN candidates |-> i])
    IN  IF gaps = <<>> \/ candidates = <<>> THEN CoverResult(Len(gaps), <<>>, <<>>, 0, 0)
        ELSE CoverResult(Len(gaps), final.sel, [i \in DOMAIN final.sel |-> candidates[final.sel[i]].atom],
                         final.cost, Cardinality(final.covered))
solve(gaps, candidates, w) == SetCover(gaps, candidates, w, None)
solve_with_budget(gaps, candidates, w, max) == SetCover(gaps, candidates, w, max)

get_covered_gaps(candidates, sel) ==
    UNION {ToSet(candidates[i].gaps) : i \in ToSet(sel) \intersect DOMAIN candidates}
calculate_solution_cost(candidates, sel, w) ==
    SumOver(SelectSeq(sel, LAMBDA i: i \in DOMAIN candidates),
            LAMBDA i: calculate_cost(candidates[i], w))

\* The pruning pass of the solver's own set cover: it keeps a candidate when
\* some other one covers one of its gaps, and so drops the ones whose gaps
\* nobody else covers.
PruneSelection(candidates, selected) ==
    LET shared(i) == \E g \in candidates[i].gaps: \E j \in ToSet(selected) \ {i}:
                        g \in candidates[j].gaps
    IN  SelectSeq(selected, shared)

-----------------------------------------------------------------------------
(* What callers of the library rely on, for given inputs.                   *)

\* The greedy cover reaches every gap that the candidates can cover when no
\* id is unknown, within the budget if there is one and every candidate costs
\* something, and reports the cost and the coverage of what it selected.
SetCoverSound(gaps, candidates, w, max) ==
    LET r == SetCover(gaps, candidates, w, max)
        all == get_covered_gaps(candidates, [i \in DOMAIN candidates |-> i])
    IN  /\ r.gaps_covered = Cardinality(get_covered_gaps(candidates, r.sel))
        /\ r.cost = calculate_solution_cost(candidates, r.sel, w)
        /\ max # None => r.cost <= max
        /\ gaps # <<>> /\ max = None => get_covered_gaps(candidates, r.sel) = all
        /\ is_complete(r) <=> gaps = <<>> \/ get_covered_gaps(candidates, r.sel)
                                             = {gaps[i].id : i \in DOMAIN gaps}
        /\ \A n \in DOMAIN r.sel: calculate_benefit(candidates[r.sel[n]], gaps,
                get_covered_gaps(candidates, SubSeq(r.sel, 1, n - 1))) > 0

\* Every graph off the frontier is dominated by one on it, and the cheapest
\* graph and the frontier agree on the cost of the cheapest answer.
ParetoSound(k, graphs) ==
    graphs # <<>> =>
        /\ \A i \in DOMAIN graphs \ pareto_frontier(k, graphs):
              \E j \in pareto_frontier(k, graphs): Dominates(k, graphs[j], graphs[i])
        /\ \E j \in pareto_frontier(k, graphs):
              cost_difference(k, graphs[j], graphs[find_lowest_cost(k, graphs)]) = 0
        /\ \A i \in DOMAIN graphs: \A n \in DOMAIN graphs[i].nodes:
              estimate_savings(k, graphs[i], n) <= ag_cost(k, graphs[i])
=============================================================================
