-------------------------------- MODULE Solver --------------------------------
(***************************************************************************)
(* Answering a query contract (MemoryX::answer_contract and solve_goal of  *)
(* src/store/api.rs) with the fixed-point solver (src/query/solver.rs):    *)
(* route the open gaps to candidates, keep those that the contract and     *)
(* their own invariants admit, branch the context on conflicts, assert     *)
(* their claims, infer, choose a cover, extend the answer graph, and       *)
(* repeat until nothing is left to do or a budget ends it.                 *)
(*                                                                         *)
(* The solver works on a copy of the context manager.  `late` says that    *)
(* the deadline has passed; it is looked at where the code looks at the    *)
(* clock, and a loop that checks it at each turn may be cut at any of them.*)
(***************************************************************************)
EXTENDS AnswerGraph

CONSTANTS
    Contracts,      \* the contracts that may be asked
    Managers,       \* the context managers of the store
    MinTrust        \* least trust of an inferred claim (100 in the code)

ASSUME SolverAssumption == MinTrust \in Nat

VARIABLES
    phase,      \* where solve is
    query,      \* the contract
    goal,       \* the GoalSpec made from it
    mgr,        \* the query's copy of the context manager
    base,       \* initial_context_count
    st,         \* SolverState
    work,       \* the locals of one iteration
    pack,       \* the answer, once there is one
    late        \* the wall clock passed max_time_ms

svars == <<phase, query, goal, mgr, base, st, work, pack, late>>

NoWork == [cands |-> <<>>, branchers |-> <<>>, steps |-> <<>>, selected |-> <<>>]
SolverState(ctx, gaps) ==
    [ctx |-> ctx, gaps |-> gaps, graph |-> EmptyGraph, io |-> 0, exceeded |-> FALSE,
     stable |-> FALSE, iter |-> 0, calm |-> -1, rejected |-> <<>>]

\* solver.config as solve_goal fills it. A contract's limits keep the I/O
\* budget far below the width that it is cut to.
config == [max_iterations |-> query.budgets.max_iterations,
           fetch_budget |-> query.budgets.max_atoms,
           io_budget |-> query.budgets.max_io,
           max_edges |-> query.budgets.max_edges,
           max_context_branches |-> query.budgets.max_branches]
Reg == Registered(~query.temporal.current)

Exceed(s) == [s EXCEPT !.exceeded = TRUE]
ExceedIf(c, s) == IF c THEN Exceed(s) ELSE s

\* A loop over n turns stops before the turn cut + 1 when the clock has passed.
Turns(cut, n) == /\ late => cut = 0
                 /\ late' = (late \/ cut < n)

deadline_exhausted_pack(ctx) ==
    WithLimit(WithStatus(EmptyPack(ctx), "BudgetExhausted"), "BudgetExhausted")

-----------------------------------------------------------------------------
(* Candidates and the contract.                                             *)

MergeCandidate(c, d) ==
    [c EXCEPT !.gaps = @ \union d.gaps, !.check = @ \/ d.check, !.ann = @ \/ d.ann,
              !.trust = Min({@, d.trust}), !.io = Max({@, d.io}), !.hard = Max({@, d.hard}),
              !.soft = Max({@, d.soft}), !.evidence = @ \union d.evidence]

merge_duplicate_candidates(cs) ==
    LET same(c, d) == c.atom = d.atom /\ c.branch = d.branch
        add(acc, c) ==
          IF \E i \in DOMAIN acc: same(acc[i], c)
          THEN [i \in DOMAIN acc |-> IF same(acc[i], c) THEN MergeCandidate(acc[i], c) ELSE acc[i]]
          ELSE Append(acc, c)
    IN  FoldLeft(add, <<>>, cs)

\* A candidate of a branch needs a scope that names it or admits them all.
context_scope_rejection(c) ==
    /\ ~goal.scope.conflicting /\ c.branch # None
    /\ c.branch \notin goal.scope.branch_ids
    /\ ~("Active" \in goal.scope.selectors /\ c.branch = st.ctx)

Blocked(c) ==
    \/ context_scope_rejection(c)
    \/ \E i \in DOMAIN goal.constraints:
         /\ goal.constraints[i].strength # "Should"
         /\ evaluate_constraint(goal.constraints[i], c) # "Satisfied"

Admitted(cs, Rejects(_)) == SelectSeq(cs, LAMBDA c: ~Rejects(c))
Rejections(cs, Rejects(_)) ==
    LET out == SelectSeq(cs, Rejects) IN [i \in DOMAIN out |-> out[i].atom]

filter_by_contract_constraints(cs) == Admitted(cs, Blocked)
filter_by_context_scope(cs) == Admitted(cs, context_scope_rejection)

RouteAll(gs) ==
    merge_duplicate_candidates(FoldLeft(LAMBDA acc, g: acc \o route(Reg, st.gaps, g, goal), <<>>, gs))

collect_final_candidates == filter_by_contract_constraints(RouteAll([g \in DOMAIN st.gaps |-> g]))

-----------------------------------------------------------------------------
(* The invariant gate.                                                      *)

Claim(subj, pred, tag, val, qual) ==
    [subj |-> subj, pred |-> pred, tag |-> tag, val |-> val, qual |-> qual]

\* What eval_invariants_for_atom answers for the invariants an atom carries:
\* none, the basic program (see VerdictMatchesConstraints of InvariantVm), a
\* probe of one pattern, a program that fails softly, or a corrupt section.
\* Trust and domains are those of the body's META section, not of the index.
eval_invariants_for_atom(a, index) ==
    LET atom == Atoms[a]
        meta == IF atom.meta = None THEN [trust |-> DefaultTrust, domain |-> AllDomains] ELSE atom.meta
        met == /\ atom.from < goal.time[2] /\ goal.time[1] < atom.to
               /\ meta.trust >= goal.trust_min
               /\ goal.domain = 0 \/ And(meta.domain, goal.domain) # 0
    IN  CASE atom.inv = "none" -> "Pass"
          [] atom.inv = "basic" -> IF met THEN "Pass" ELSE "FailHard"
          [] atom.inv = "probe" -> IF has_conflict(index, atom.probe) THEN "NeedBranch" ELSE "Pass"
          [] atom.inv = "soft" -> "FailSoft"
          [] atom.inv = "corrupt" -> "FailHard"

\* The claims of the CLAIMS section, none if it is malformed. An object is
\* eight bytes of its value, and the qualifiers are dropped.
claims_from_atom_body(a) ==
    LET stored == IF Atoms[a].claims = None THEN <<>> ELSE Atoms[a].claims
        load(c) == Claim(c.subj, c.pred, c.tag, c.obj % (MaxWord + 1), 0)
    IN  [i \in DOMAIN stored |-> load(stored[i])]

\* The claim and the atom that a branch is opened for: the first claim with
\* an exact conflict; without claims a pattern made from the atom's id.
BranchFor(c, index) ==
    LET hits == {i \in DOMAIN c.claims: probe_conflict(index, c.claims[i]) # {}}
        claim == c.claims[Min(hits)]
        bucket(p) == UNION {e.atoms : e \in {x \in index: x.pattern = p}}
        others == bucket(claim_pattern_hash(claim)) \ {c.atom}
        first(S) == IF S = {} THEN None ELSE Min(S)
    IN  IF hits # {}
        THEN [c |-> c, pattern |-> claim_pattern_hash(claim),
              other |-> IF others # {} THEN first(others) ELSE first(bucket(claim_pattern_hash(claim)))]
        ELSE [c |-> c, pattern |-> c.atom, other |-> first(bucket(c.atom))]

\* Mutant: only what the vector search proposed is judged.
FilterAnnOnly(cs) ==
    LET index == get_ctx_index(mgr, st.ctx)
        judge(acc, c) ==
          LET d == [c EXCEPT !.claims = claims_from_atom_body(c.atom)]
          IN  IF c.ann /\ eval_invariants_for_atom(c.atom, index) # "Pass" THEN acc
              ELSE [acc EXCEPT !.cands = Append(@, d)]
    IN  FoldLeft(judge, [work EXCEPT !.cands = <<>>], cs)

\* filter_by_invariants over the candidates it had time for. Every candidate
\* of the router asks for the check; one whose body cannot be read is skipped.
filter_by_invariants(cs) ==
    LET index == get_ctx_index(mgr, st.ctx)
        loaded(c) == [c EXCEPT !.claims = claims_from_atom_body(c.atom)]
        judge(acc, c) ==
          LET d == loaded(c)
              verdict == eval_invariants_for_atom(c.atom, index)
              exact == \E i \in DOMAIN d.claims: probe_conflict(index, d.claims[i]) # {}
          IN  IF ~c.check THEN [acc EXCEPT !.cands = Append(@, c)]
              ELSE IF ~Atoms[c.atom].readable \/ verdict \in {"FailHard", "FailSoft"} THEN acc
              ELSE IF verdict = "NeedBranch" /\ (exact \/ d.claims = <<>>)
              THEN [acc EXCEPT !.branchers = Append(@, BranchFor(d, index))]
              ELSE [acc EXCEPT !.cands = Append(@, d)]
    IN  FoldLeft(judge, [work EXCEPT !.cands = <<>>], cs)

-----------------------------------------------------------------------------
(* Branching and asserting.                                                 *)

BranchesFull(m) == Len(m.contexts) - base >= config.max_context_branches

\* One turn of the NeedBranch loop, and of its end by the branch budget.
BranchOne(acc, b) ==
    IF acc.full \/ BranchesFull(acc.mgr) THEN [acc EXCEPT !.full = TRUE]
    ELSE [acc EXCEPT
            !.mgr = branch_ctx(@, st.ctx,
                               Conflict(IF b.other = None THEN 0 ELSE b.other, b.c.atom, "Soft", b.pattern)),
            !.cands = Append(@, [b.c EXCEPT !.branch = acc.mgr.next])]

\* Mutant: claims branch the context without a look at the branch budget.
AssertOneUnbounded(acc, x) ==
    LET target == IF x.c.branch # None THEN x.c.branch ELSE acc.current
    IN  {[acc EXCEPT !.mgr = o.mgr, !.target = target,
                     !.created = IF o.ctx # target THEN o.ctx ELSE @,
                     !.current = IF o.rejected \/ x.c.branch # None THEN @ ELSE o.ctx] :
           o \in assert_claim_with_atom_id(acc.mgr, target, x.claim, x.c.atom)}

\* One claim of a candidate. The candidate's target is fixed when its first
\* claim is taken; a refused claim changes nothing.
AssertOne(acc, x) ==
    LET target == IF x.first THEN (IF x.c.branch # None THEN x.c.branch ELSE acc.current)
                  ELSE acc.target
        skip == ~x.first /\ acc.skip
        outcomes == assert_claim_with_atom_id(acc.mgr, target, x.claim, x.c.atom)
        branches(o) == ~o.rejected /\ o.ctx # target
        at == [acc EXCEPT !.target = target, !.skip = skip]
        take(o) ==
          IF branches(o) /\ BranchesFull(acc.mgr) THEN [at EXCEPT !.skip = TRUE, !.full = TRUE]
          ELSE [at EXCEPT
                  !.mgr = o.mgr,
                  !.created = IF branches(o) THEN o.ctx ELSE @,
                  !.current = IF o.rejected \/ x.c.branch # None THEN @ ELSE o.ctx]
    IN  IF skip THEN {at} ELSE {take(o) : o \in outcomes}

\* The claims of all candidates, in order.
Assertions(cs) ==
    FoldLeft(LAMBDA acc, c: acc \o [i \in DOMAIN c.claims |->
                                      [c |-> c, claim |-> c.claims[i], first |-> i = 1]], <<>>, cs)

update_context(xs) ==
    FoldLeft(LAMBDA accs, x: UNION {AssertOne(acc, x) : acc \in accs},
             {[mgr |-> mgr, current |-> st.ctx, target |-> st.ctx, created |-> None,
               skip |-> FALSE, full |-> FALSE]}, xs)

-----------------------------------------------------------------------------
(* Inference.                                                               *)

TransitivePreds == {2, 3, 5, 7}
SUPPORTS == 5
CONTRADICTS == 8
Inferred == 2 ^ (WordBits - 1)
SoftInferred == 3 * 2 ^ (WordBits - 2)
SecondOrder == 7 * 2 ^ (WordBits - 3)

\* A conclusion with the nodes it comes from.
Step(claim, premises) == [claim |-> claim, premises |-> premises]
Meaningful(t, u, pct) == pct * Min({t, u}) >= 100 * MinTrust
AddStep(steps, s) ==
    IF \E i \in DOMAIN steps: /\ steps[i].claim.subj = s.claim.subj
                              /\ steps[i].claim.pred = s.claim.pred
                              /\ steps[i].claim.val = s.claim.val
    THEN steps ELSE Append(steps, s)

\* Claims with the trust of what they come from, in the order given.
ClaimsHeld(cs) == FoldLeft(LAMBDA acc, c: acc \o [i \in DOMAIN c.claims |->
                               [claim |-> c.claims[i], trust |-> c.trust]], <<>>, cs)
\* Pairs of indices, row by row.
Pairs(S) == Ordered(S, LAMBDA p, q: p[1] < q[1] \/ (p[1] = q[1] /\ p[2] < q[2]))

\* a -> b and b -> c give a -> c; a conclusion of the first order inherits the
\* qualifiers. The conclusions about one subject are in the order of the
\* claims, the subjects in that of a hash map, which is any.
Chains(held, pct, first) ==
    LET qual(a, b) == IF first THEN Or(Or(a.qual, b.qual), Inferred) ELSE SecondOrder
        pairs == {p \in (DOMAIN held) \X (DOMAIN held):
                    LET ab == held[p[1]] bc == held[p[2]]
                    IN  /\ ab.claim.pred \in TransitivePreds /\ bc.claim.pred = ab.claim.pred
                        /\ bc.claim.subj = ab.claim.val /\ bc.claim.val # ab.claim.subj
                        /\ Meaningful(ab.trust, bc.trust, pct)}
        subject(p) == held[p[1]].claim.subj
        conclude(p) ==
          LET ab == held[p[1]].claim bc == held[p[2]].claim
          IN  Step(Claim(ab.subj, ab.pred, ab.tag, bc.val, qual(ab, bc)), <<ab.subj, ab.val>>)
        about(n) == LET order == Pairs({p \in pairs: subject(p) = n})
                    IN  [k \in DOMAIN order |-> conclude(order[k])]
    IN  {FoldLeft(LAMBDA acc, n: acc \o about(n), <<>>, subjects) :
           subjects \in SetToSeqs({subject(p) : p \in pairs})}

\* Two candidates that share evidence support each other (rule 2).
Supporting(cs) ==
    LET sharing == Pairs({p \in (DOMAIN cs) \X (DOMAIN cs):
                        /\ p[1] < p[2] /\ cs[p[1]].evidence \intersect cs[p[2]].evidence # {}
                        /\ cs[p[1]].atom # cs[p[2]].atom
                        /\ Meaningful(cs[p[1]].trust, cs[p[2]].trust, 80)})
        support(p) == Step(Claim(cs[p[1]].node, SUPPORTS, 0, cs[p[2]].node, Inferred),
                           <<cs[p[1]].node, cs[p[2]].node>>)
    IN  [k \in DOMAIN sharing |-> support(sharing[k])]

\* What contradicts a claim contradicts what it supports (rule 3).
Propagating(held) ==
    LET against == Pairs({p \in (DOMAIN held) \X (DOMAIN held):
                        /\ held[p[1]].claim.pred = CONTRADICTS
                        /\ held[p[2]].claim.pred = SUPPORTS
                        /\ held[p[2]].claim.subj = held[p[1]].claim.val
                        /\ held[p[2]].claim.val # held[p[1]].claim.subj
                        /\ Meaningful(held[p[1]].trust, held[p[2]].trust, 60)})
        propagate(p) == LET a == held[p[1]].claim s == held[p[2]].claim
                        IN  Step(Claim(a.subj, CONTRADICTS, 0, s.val, SoftInferred),
                                 <<a.subj, a.val, s.val>>)
    IN  [k \in DOMAIN against |-> propagate(against[k])]

\* The four rules: the possible sequences of conclusions. Of equal ones only
\* the first is kept; the second round of chains sees the first conclusions.
infer_claim_steps(cs) ==
    LET held == ClaimsHeld(cs)
        three(one) == FoldLeft(AddStep, FoldLeft(AddStep, <<>>, one), Supporting(cs) \o Propagating(held))
        all(steps) == held \o [k \in DOMAIN steps |-> [claim |-> steps[k].claim, trust |-> DefaultTrust]]
        four(steps) == IF steps = <<>> THEN {<<>>}
                       ELSE {FoldLeft(AddStep, steps, more) : more \in Chains(all(steps), 64, FALSE)}
    IN  UNION {four(three(one)) : one \in Chains(held, 80, TRUE)}

\* The atom of a premise: the last candidate of the node.
SupportAtoms(premises, cs) ==
    LET last(n) == {i \in DOMAIN cs: cs[i].node = n /\ \A j \in DOMAIN cs: cs[j].node = n => j <= i}
    IN  FoldLeft(LAMBDA acc, n: IF last(n) = {} THEN acc
                                ELSE AddNew(acc, cs[CHOOSE i \in last(n): TRUE].atom), <<>>, premises)

-----------------------------------------------------------------------------
(* The answer graph.                                                        *)

AgEdgeType == [DERIVED_FROM |-> "Derives", IMPLIES |-> "Derives", SUPPORTS |-> "Supports",
               DEPENDS_ON |-> "References"]

\* The edges of the selected atoms to nodes of selected candidates. Both ends
\* are the candidates' positions, not those of the graph's nodes.
add_edges(graph, selected, cs) ==
    LET ofNode(n) == {i \in DOMAIN selected: cs[selected[i]].node = n}
        outgoing(i) ==
          IF ~Atoms[cs[i].atom].readable THEN <<>>
          ELSE SelectSeq(Atoms[cs[i].atom].edges,
                         LAMBDA e: e.type \in DOMAIN AgEdgeType /\ ofNode(e.dst) # {})
    IN  FoldLeft(LAMBDA g, i: FoldLeft(LAMBDA h, e:
                     add_edge(h, AgEdge(i, selected[Max(ofNode(e.dst))], AgEdgeType[e.type], e.conf)),
                   g, outgoing(i)), graph, selected)

pattern_ref_matches(p, v) == p.k = "Any" \/ p.v = v
claim_matches_gap_pattern(claim, gap) ==
    /\ gap.tag # None => claim.tag = gap.tag
    /\ gap.qual # 0 => And(claim.qual, gap.qual) = gap.qual
    /\ pattern_ref_matches(gap.subj, claim.subj)
    /\ pattern_ref_matches(gap.pred, claim.pred)
    /\ pattern_ref_matches(gap.obj, claim.val)

MarkCovered(gaps, ids, atom) ==
    [g \in DOMAIN gaps |-> IF g \in ids THEN [gaps[g] EXCEPT !.covered = TRUE, !.by = atom]
                           ELSE gaps[g]]

\* One inferred claim, in the graph, at the node that it is about (the last
\* one of that number), as a proof step, and for the open gaps it matches.
ApplyStep(acc, step, cs) ==
    LET nodes == acc.graph.nodes
        at == {i \in DOMAIN nodes: nodes[i].node = step.claim.subj}
        here == Max(at)
        support == SupportAtoms(step.premises, cs)
        premises == {Max({i \in DOMAIN nodes: nodes[i].node = n}) :
                       n \in {m \in ToSet(step.premises): \E i \in DOMAIN nodes: nodes[i].node = m}}
        closed == {g \in DOMAIN acc.gaps: /\ ~acc.gaps[g].covered
                                          /\ claim_matches_gap_pattern(step.claim, acc.gaps[g])}
        noted == [acc.graph EXCEPT !.claims = AddNew(@, step.claim)]
        placed == [noted EXCEPT !.nodes[here].claims = AddNew(@, step.claim),
                                !.nodes[here].gaps = @ \union closed,
                                !.covered = @ \union closed]
    IN  IF at = {} THEN [acc EXCEPT !.graph = noted]
        ELSE [gaps |-> MarkCovered(acc.gaps, closed, nodes[here].atom),
              graph |-> IF support = <<>> THEN placed
                        ELSE add_proof_step(placed, ProofStep(support[1], premises, here))]
apply_inferred_claims(graph, gaps, steps, cs) ==
    FoldLeft(LAMBDA acc, s: ApplyStep(acc, s, cs), [graph |-> graph, gaps |-> gaps], steps)

\* Claims of an answer: those of each node, and for a node that has any, its
\* type, its gaps and its edges.
PackClaim(kind, node, subject, status) ==
    [kind |-> kind, atom |-> node.atom, of |-> subject, status |-> status]
NodeClaims(graph, i) ==
    LET n == graph.nodes[i]
        own == [k \in DOMAIN n.claims |->
                  PackClaim("own", n, n.claims[k],
                            IF n.evidence = {} THEN "InsufficientEvidence" ELSE "Verified")]
        gapped == Ordered(n.gaps, <)
        touching == SelectSeq(graph.edges, LAMBDA e: i \in {e.src, e.dst})
        end(e) == IF e.src = i THEN e.dst ELSE e.src
        linked == SelectSeq(touching, LAMBDA e: end(e) \in DOMAIN graph.nodes)
    IN  IF n.claims = <<>> THEN <<>>
        ELSE own \o <<PackClaim("type", n, 0, "Structural")>>
             \o [k \in DOMAIN gapped |-> PackClaim("gap", n, gapped[k], "Derived")]
             \o [k \in DOMAIN linked |-> PackClaim("edge", n, graph.nodes[end(linked[k])].node, "Derived")]
extract_claims(p) ==
    [p EXCEPT !.claims = FoldLeft(LAMBDA acc, i: acc \o NodeClaims(st.graph, i), <<>>,
                                  [i \in DOMAIN st.graph.nodes |-> i]),
              !.evidence = UNION {st.graph.nodes[i].evidence : i \in DOMAIN st.graph.nodes}]

\* What the conflicts of the answer's contexts do to it.
apply_conflict_policy_to_pack(p) ==
    LET contexts == AddNew(st.graph.lineage, st.ctx)
        found == FoldLeft(LAMBDA acc, id: acc \o list_conflicts(mgr, id), <<>>, contexts)
        strict == goal.conflict.fail_on_hard \/ goal.conflict.mode = "Fail"
        told == [p EXCEPT !.conflicts = IF goal.conflict.include THEN found ELSE @,
                          !.sets = {found[i].pattern : i \in DOMAIN found}, !.status = "Conflicted",
                          !.limits = Append(@, "ConflictsPresent")]
        failed == IF strict THEN WithLimit(WithStatus(told, "PolicyBlocked"), "ConflictsPresent")
                  ELSE told
    IN  IF found = <<>> THEN p
        ELSE IF goal.conflict.mode = "IncludeAlternatives" /\ p.alternates = <<>>
        THEN WithLimit(failed, "ConflictsPresent") ELSE failed

\* MemoryX::enrich_answer_sources: an atom whose sources are listed is
\* evidence too.
Enriched(p) ==
    LET g == canonicalize_nodes(p.graph)
        node(n) == IF ~Atoms[n.atom].listed THEN n
                   ELSE [n EXCEPT !.evidence = @ \union attached_source_evidence_ref(n.atom)]
        nodes == [i \in DOMAIN g.nodes |-> node(g.nodes[i])]
    IN  [p EXCEPT !.graph = [g EXCEPT !.nodes = nodes],
                  !.evidence = UNION {nodes[i].evidence : i \in DOMAIN nodes}]
enrich_answer_sources(p) ==
    [Enriched(p) EXCEPT !.alternates = [i \in DOMAIN @ |-> Enriched(@[i])]]

-----------------------------------------------------------------------------
(* Actions.                                                                 *)

Ask(q, m) ==
    /\ phase = "start" /\ query = q /\ mgr = m
    /\ goal = <<>> /\ base = 0 /\ st = SolverState(0, <<>>)
    /\ work = NoWork /\ pack = EmptyPack(0) /\ late = FALSE
SInit == \E q \in Contracts, m \in Managers: Ask(q, m)

Go(p) == phase' = p
Answer(p) == pack' = p /\ Go("done") /\ UNCHANGED <<query, goal, mgr, base, st, work, late>>

\* The deadline may pass at any moment of a query.
Tick == ~late /\ phase \notin {"done", "refused"} /\ late' = TRUE
        /\ UNCHANGED <<phase, query, goal, mgr, base, st, work, pack>>

\* An invalid contract, or a reference in it that does not parse, is an error.
Refuse == /\ phase = "start" /\ ~Lowers(query)
          /\ Go("refused")
          /\ UNCHANGED <<query, goal, mgr, base, st, work, pack, late>>

\* So is a file that cannot be read while the targets are resolved or the CAS
\* is opened, and later while the sources of the answer are collected.
Fail == /\ (phase = "start" /\ Lowers(query)) \/ (phase = "output" /\ ~late)
        /\ Go("refused")
        /\ UNCHANGED <<query, goal, mgr, base, st, work, pack, late>>

\* Resolving the contract, choosing the context and opening the gaps.
Begin ==
    /\ phase = "start" /\ Lowers(query)
    /\ \/ late /\ Answer(deadline_exhausted_pack(query.ctx))
       \/ LET fresh == ~HasCtx(mgr, query.ctx)
              m == IF fresh THEN create_context(mgr, query.ctx) ELSE mgr
              s == SolverState(IF fresh THEN mgr.next ELSE query.ctx, generate(answer_goal(query)))
          IN  /\ ~late
              /\ goal' = answer_goal(query)
              /\ mgr' = m /\ base' = Len(m.contexts)
              /\ IF config.fetch_budget = 0 \/ config.io_budget = 0
                 THEN st' = [Exceed(s) EXCEPT !.stable = TRUE] /\ Go("pack")
                 ELSE st' = s /\ Go("head")
              /\ UNCHANGED <<query, work, pack, late>>

\* The top of the loop: time, the gaps left, the budgets. No call of a local
\* query is federated, so that budget is never spent.
check_budget == /\ st.io <= config.io_budget
                /\ Len(st.graph.nodes) <= config.fetch_budget
                /\ Len(st.graph.edges) <= config.max_edges
Turn ==
    /\ phase = "head"
    /\ LET next == [st EXCEPT !.iter = @ + 1]
           done == [next EXCEPT !.stable = TRUE]
       IN  \/ st.iter = config.max_iterations /\ Go("settle") /\ UNCHANGED st
           \/ /\ st.iter < config.max_iterations
              /\ IF late THEN st' = [Exceed(st) EXCEPT !.stable = TRUE] /\ Go("settle")
                 ELSE IF \A g \in DOMAIN st.gaps: st.gaps[g].covered THEN st' = done /\ Go("settle")
                 ELSE IF ~check_budget THEN st' = Exceed(done) /\ Go("settle")
                 ELSE st' = next /\ Go("route")
    /\ UNCHANGED <<query, goal, mgr, base, work, pack, late>>

\* Step 1: route the planned gaps and apply the contract.
Route ==
    /\ phase = "route"
    /\ LET actions == plan(st.gaps, goal, [max_actions |-> config.fetch_budget,
                                           max_io |-> config.io_budget])
       IN  \E cut \in 0..Len(actions):
             LET found == RouteAll([i \in 1..cut |-> actions[i].gap])
             IN  /\ Turns(cut, Len(actions))
                 /\ work' = [NoWork EXCEPT !.cands = filter_by_contract_constraints(found)]
                 /\ st' = [ExceedIf(cut < Len(actions), st) EXCEPT
                             !.rejected = @ \o Rejections(found, Blocked)]
    /\ Go("gate")
    /\ UNCHANGED <<query, goal, mgr, base, pack>>

\* Step 2: the invariants of each candidate.
Gate ==
    /\ phase = "gate"
    /\ \/ /\ late \/ work.cands = <<>>
          /\ st' = ExceedIf(late, st) /\ Go("tail") /\ UNCHANGED <<work, late>>
       \/ /\ ~late /\ work.cands # <<>>
          /\ \E cut \in 0..Len(work.cands):
               /\ Turns(cut, Len(work.cands))
               /\ work' = filter_by_invariants(SubSeq(work.cands, 1, cut))
               /\ st' = ExceedIf(cut < Len(work.cands), st)
          /\ Go("branch")
    /\ UNCHANGED <<query, goal, mgr, base, pack>>

\* Step 2.1: a context branch for each conflicting candidate.
Branch ==
    /\ phase = "branch"
    /\ \E cut \in 0..Len(work.branchers):
         LET r == FoldLeft(BranchOne, [mgr |-> mgr, cands |-> work.cands, full |-> FALSE],
                           SubSeq(work.branchers, 1, cut))
         IN  /\ Turns(cut, Len(work.branchers))
             /\ mgr' = r.mgr
             /\ work' = [work EXCEPT !.cands = filter_by_context_scope(r.cands), !.branchers = <<>>]
             /\ st' = [ExceedIf(r.full \/ cut < Len(work.branchers), st) EXCEPT
                         !.rejected = @ \o Rejections(r.cands, context_scope_rejection)]
    /\ Go("update")
    /\ UNCHANGED <<query, goal, base, pack>>

\* Step 3: assert the claims of the candidates.
Update ==
    /\ phase = "update"
    /\ LET xs == Assertions(work.cands)
       IN  \E cut \in 0..Len(xs): \E r \in update_context(SubSeq(xs, 1, cut)):
             /\ Turns(cut, Len(xs))
             /\ mgr' = r.mgr
             /\ st' = [ExceedIf(r.full \/ cut < Len(xs), st) EXCEPT
                         !.ctx = r.current,
                         !.graph.lineage = IF r.created = None THEN @ ELSE Append(@, r.created)]
    /\ Go("select")
    /\ UNCHANGED <<query, goal, base, work, pack>>

\* Steps 4 and 5: infer, choose a cover, and cut it to what the budgets left.
FitIo(selected) ==
    FoldLeft(LAMBDA acc, i: IF acc.io + work.cands[i].io > config.io_budget
                            THEN [acc EXCEPT !.over = TRUE]
                            ELSE [acc EXCEPT !.io = @ + work.cands[i].io, !.sel = Append(@, i)],
             [io |-> st.io, sel |-> <<>>, over |-> FALSE], selected)
Select ==
    /\ phase = "select"
    /\ IF late THEN st' = Exceed(st) /\ Go("tail") /\ UNCHANGED work
       ELSE LET fit == FitIo(greedy_select(work.cands, st.gaps, goal.schema))
                room == Max({0, config.fetch_budget - Len(st.graph.nodes)})
            IN  /\ \E steps \in infer_claim_steps(work.cands):
                      work' = [work EXCEPT !.steps = steps, !.selected = FirstN(fit.sel, room)]
                /\ st' = ExceedIf(fit.over \/ Len(fit.sel) > room, st)
                /\ Go("apply")
    /\ UNCHANGED <<query, goal, mgr, base, pack, late>>

\* Step 6: nodes for the chosen candidates, and the edges among them all.
AddChosen(s, c) ==
    [s EXCEPT !.graph = add_node(@, AgNode(c)), !.gaps = MarkCovered(@, c.gaps, c.atom),
              !.io = @ + c.io]
Apply ==
    /\ phase = "apply"
    /\ \E cut \in 0..Len(work.selected):
         LET s == FoldLeft(AddChosen, st, [i \in 1..cut |-> work.cands[work.selected[i]]])
         IN  /\ Turns(cut, Len(work.selected))
             /\ st' = [ExceedIf(cut < Len(work.selected), s) EXCEPT
                         !.graph = add_edges(@, work.selected, work.cands)]
    /\ Go("close")
    /\ UNCHANGED <<query, goal, mgr, base, work, pack>>

\* Steps 6.1 to 8: inferred claims, covered gaps, pruning.
Close ==
    /\ phase = "close"
    /\ IF late THEN st' = Exceed(st)
       ELSE LET r == apply_inferred_claims(st.graph, st.gaps, work.steps, work.cands)
            IN  st' = [st EXCEPT !.gaps = r.gaps,
                                 !.graph = prune(mark_gaps_covered(r.graph, CoveredIds(r.gaps)))]
    /\ Go("tail")
    /\ UNCHANGED <<query, goal, mgr, base, work, pack, late>>

\* The bottom of the loop. The cost that convergence compares is computed
\* after the loop only, so it is the third turn that finds it stable.
Bottom ==
    /\ phase = "tail"
    /\ LET edged == IF Len(st.graph.edges) > config.max_edges
                    THEN [Exceed(st) EXCEPT !.graph.edges = FirstN(@, config.max_edges)] ELSE st
           timed == IF late THEN [Exceed(edged) EXCEPT !.stable = TRUE] ELSE edged
           calm == [timed EXCEPT !.calm = @ + 1, !.stable = st.calm + 1 >= 2]
       IN  IF timed.stable THEN st' = timed /\ Go("settle")
           ELSE st' = calm /\ Go(IF calm.stable THEN "settle" ELSE "head")
    /\ work' = NoWork
    /\ UNCHANGED <<query, goal, mgr, base, pack, late>>

Settle ==
    /\ phase = "settle"
    /\ st' = [ExceedIf(st.iter >= config.max_iterations /\ ~st.stable, st) EXCEPT
                !.graph = canonicalize_nodes(@), !.stable = TRUE]
    /\ Go("pack")
    /\ UNCHANGED <<query, goal, mgr, base, work, pack, late>>

\* The pack, its claims, and what the solver knows to have cut short.
Pack ==
    /\ phase = "pack"
    /\ \/ late /\ pack' = deadline_exhausted_pack(st.ctx) /\ Go("output")
       \/ /\ ~late
          /\ \E made \in {extract_claims(from_solver(st.graph, st.ctx, st.gaps))}:
               LET bare == st.graph.nodes = <<>>
                   found == IF bare /\ goal.lexical THEN WithStatus(made, "NoMatch")
                            ELSE IF ~bare /\ made.claims = <<>>
                            THEN WithLimit(WithStatus(made, "InsufficientEvidence"), "IncompleteEvidence")
                            ELSE made
                   spent == IF st.exceeded THEN WithLimit(WithStatus(found, "BudgetExhausted"), "BudgetExhausted")
                            ELSE found
                   told == [spent EXCEPT !.rejected = st.rejected]
               IN  pack' = IF st.rejected = <<>> THEN told
                           ELSE WithLimit(IF bare THEN WithStatus(told, "PolicyBlocked") ELSE told,
                                          "ConstraintRejected")
          /\ Go("alternates")
    /\ UNCHANGED <<query, goal, mgr, base, st, work, late>>

\* Alternates, the conflict policy, sources and the output limit; the clock
\* is looked at around each, and a late answer is replaced. The deadline of
\* the query is no later than that of its solver.
Alternates ==
    /\ phase = "alternates"
    /\ \/ late /\ pack' = deadline_exhausted_pack(st.ctx)
       \/ /\ ~late
          /\ \E p \in {generate_alternates(pack, collect_final_candidates, st.gaps)}:
               pack' = apply_conflict_policy_to_pack(p)
    /\ Go("output")
    /\ UNCHANGED <<query, goal, mgr, base, st, work, late>>
Output ==
    /\ phase = "output"
    /\ Answer(IF late THEN deadline_exhausted_pack(query.ctx)
              ELSE apply_output_limit(enrich_answer_sources(pack), query.max_items))

SNext == \/ Tick \/ Refuse \/ Fail \/ Begin \/ Turn \/ Route \/ Gate \/ Branch \/ Update \/ Select
         \/ Apply \/ Close \/ Bottom \/ Settle \/ Pack \/ Alternates \/ Output

-----------------------------------------------------------------------------
(* Properties.                                                              *)

\* The parts of a node that constraints are judged on.
AsCandidate(n) == [node |-> n.node, domain |-> n.domain, trust |-> n.trust]
Judged(k) == k.strength # "Should" /\ k.target \in {"Entity", "Domain", "NumericMetric"}

\* No node of a returned answer slipped past a gate: its body could be read,
\* its own invariants do not refuse it under the query, the contract's hard
\* constraints hold of what the node says, a superseded atom answers only a
\* query for history, and a branch answers only where the scope admits it
\* (filter_by_contract_constraints, filter_by_invariants, context_scope,
\* across iterations and the merging of duplicates).
AnswerAdmissible ==
    phase = "done" => \A i \in DOMAIN pack.graph.nodes:
        LET n == pack.graph.nodes[i]
        IN  /\ Atoms[n.atom].readable
            /\ eval_invariants_for_atom(n.atom, {}) = "Pass"
            /\ n.atom \in Reg
            /\ \A k \in DOMAIN goal.constraints:
                 Judged(goal.constraints[k]) =>
                     evaluate_constraint(goal.constraints[k], AsCandidate(n)) = "Satisfied"
            /\ n.branch # None =>
                 goal.scope.conflicting \/ n.branch \in goal.scope.branch_ids
                 \/ "Active" \in goal.scope.selectors

\* An answer that calls itself complete has, for each gap, a node that covers
\* it, and while solving no gap is called covered that no node of the graph
\* lists: pruning, canonicalisation and output limits lose no support
\* (iteration, apply_inferred_claims, prune, canonicalize_nodes).
CoverageBacked ==
    /\ phase \in {"head", "settle", "pack", "alternates"} /\ ~late =>
         \A g \in CoveredIds(st.gaps): \E i \in DOMAIN st.graph.nodes:
             g \in st.graph.nodes[i].gaps /\ st.graph.nodes[i].atom = st.gaps[g].by
    /\ phase = "done" /\ pack.status = "Complete" =>
         \A g \in DOMAIN st.gaps: \E i \in DOMAIN pack.graph.nodes: g \in pack.graph.nodes[i].gaps

\* The budgets of the contract hold at every step that ends an iteration: the
\* contexts that branching opens (by NeedBranch and by asserting claims), the
\* nodes, the edges and the bytes; and an answer that stopped at one says so.
BudgetsKept ==
    /\ phase \notin {"start", "refused", "done"} =>
         Len(mgr.contexts) - base <= config.max_context_branches
    /\ phase \in {"head", "settle", "pack", "alternates", "output"} =>
         /\ Len(st.graph.nodes) <= config.fetch_budget
         /\ Len(st.graph.edges) <= config.max_edges
         /\ st.io <= config.io_budget
    /\ phase = "done" /\ st.exceeded => pack.status # "Complete"

\* Every edge of a returned answer stands for a relation that the atom of its
\* source node states about the node at its other end (add_edges: "Add AgEdge
\* only if real relation exists between nodes").
EdgesAreRelations ==
    phase = "done" => \A k \in DOMAIN pack.graph.edges:
        LET e == pack.graph.edges[k]
            src == pack.graph.nodes[e.src]
            dst == pack.graph.nodes[e.dst]
        IN  \E r \in ToSet(Atoms[src.atom].edges):
                /\ r.dst = dst.node /\ r.type \in DOMAIN AgEdgeType
                /\ AgEdgeType[r.type] = e.type
=============================================================================
