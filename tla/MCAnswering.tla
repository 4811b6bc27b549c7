----------------------------- MODULE MCAnswering -----------------------------
(***************************************************************************)
(* Queries answered by the fixed-point solver, and atom bodies judged by   *)
(* the invariant machine.  A verdict is one call inside one step of the    *)
(* solver, so each behaviour exercises one of the two.                     *)
(***************************************************************************)
EXTENDS InvariantVm, Solver, QueryCost

CONSTANT Workloads

VARIABLE workload

vars == <<workload, vmvars, svars>>

Init ==
    \/ /\ workload = "vm" /\ workload \in Workloads
       /\ Ask(CHOOSE q \in Contracts: TRUE, CHOOSE m \in Managers: TRUE)
       /\ VmInit
    \/ /\ workload = "solve" /\ workload \in Workloads
       /\ BeginEval(CHOOSE b \in Bodies: TRUE, CHOOSE q \in Queries: TRUE, {})
       /\ SInit

Evaluate == workload = "vm" /\ VmNext /\ UNCHANGED <<workload, svars>>
Solve == workload = "solve" /\ SNext /\ UNCHANGED <<workload, vmvars>>

\* A query that was answered or refused, and a verdict that was given.
Ended ==
    /\ \/ workload = "vm" /\ verdict # Running
       \/ workload = "solve" /\ phase \in {"done", "refused"}
    /\ UNCHANGED vars

Next == Evaluate \/ Solve \/ Ended
Spec == Init /\ [][Next]_vars

-----------------------------------------------------------------------------
(* Bodies for the machine.                                                  *)

Cl(s, p, t, v) == Claim(s, p, t, v, 0)
Rec(c, ok) == [claim |-> c, tagged |-> ok]
Sec(p, pl) == [fault |-> "none", aligned |-> TRUE, code |-> p, pool |-> pl]
Body(from, to, meta, recs, sec) ==
    [from |-> from, to |-> to, type |-> 1, meta |-> meta, framed |-> TRUE, inv |-> sec,
     claims |-> [records |-> recs, flat |-> <<>>]]
Metas == {None, [len |-> 8, trust |-> 3, domain |-> 1], [len |-> 16, trust |-> 7, domain |-> 2]}
Recs == {<<>>, <<Rec(Cl(1, 1, 2, 1), TRUE)>>,
         <<Rec(Cl(1, 1, 3, 1), TRUE), Rec(Cl(1, 2, 2, 1), FALSE)>>, <<Rec(Cl(1, 1, 3, 1), FALSE)>>}
OneTag(v) == <<[kind |-> "TAG", short |-> FALSE, val |-> v]>>
Standard == {Sec(basic_invariant_program, <<>>), Sec(conflict_probe_program, <<>>),
             Sec(time_range_program, <<>>), Sec(trust_threshold_program, <<>>),
             Sec(full_validation_program(0), OneTag(0))}
            \union {Sec(full_validation_program(2), OneTag(v)) : v \in {0, 2}}
Ops == {Instr("LD_IMM", 1, 0, 1), Instr("JZ", 1, 2, 0), Instr("JZ", 1, 1, 0), Instr("JNZ", 1, 3, 0),
        Instr("JMP", 0, 1, 0), Instr("RET", 0, 0, 0), Instr("CALL", 2, 0, 0),
        Instr("RAISE_CONFLICT", 0, 0, 1), Instr("CTX_PROBE", 1, 0, 0)}
Small == {Sec(p, <<>>) : p \in UNION {[1..n -> Ops] : n \in 1..3}}
Misc == {Sec(<<i, Instr("RET", 1, 0, 0)>>, <<>>) :
           i \in {Instr("LD_ATOM_META", 1, 7, 0), Instr("HAS_BIT", 1, 0, 20),
                  Instr("IN_RANGE", 1, 0, 17), Instr("AND", 1, 2, 0), Instr("NOT", 1, 0, 0),
                  Instr("EQ", 1, 1, 0), Instr("LE", 1, 2, 0), Instr("LD_CTX", 1, 2, 0)}}
Bad == {None} \union {[Sec(basic_invariant_program, <<>>) EXCEPT !.fault = f] :
                        f \in {"short", "magic", "entry_kind", "entry_bounds", "code_offset"}}
MCBodies == {Body(f, t, m, r, s) : f \in {0, 4}, t \in {0, 6}, m \in Metas, r \in Recs, s \in Standard}
            \union {Body(0, 6, None, <<>>, s) : s \in Small \union Misc \union Bad}
MCQueries == {[time |-> tm, trust |-> tr, domain |-> d, claim |-> None] :
                tm \in {None, <<0, 4>>, <<5, 9>>}, tr \in {None, 5}, d \in {None, 1, 2}}
MCIndexes == {{}, add_conflict(add_conflict({}, 0, 1, "Soft"), 1, 2, "Hard")}

-----------------------------------------------------------------------------
(* A store of six atoms, and contracts for it.                              *)

Stored(s, p, t, o) == [subj |-> s, pred |-> p, tag |-> t, obj |-> o]
Atom(node, trust, claims, inv) ==
    [node |-> node, len |-> 64, trust |-> trust, located |-> TRUE, superseded |-> FALSE,
     source_id |-> 0, listed |-> FALSE, terms |-> {}, edges |-> <<>>, readable |-> TRUE,
     claims |-> claims, inv |-> inv, probe |-> 0, from |-> 0, to |-> MaxWord, meta |-> None]
Edge(dst, type) == [dst |-> dst, type |-> type, conf |-> 4]
Word(w) == <<"word", w>>

\* 1 and 5 disagree about what node 1 supports, where the object of 5 is cut
\* to a word; 3 contradicts node 1; the claims of 4 are malformed and its body
\* has domains of its own; 6 is superseded and unreadable.
MCAtoms == <<
    [Atom(1, 9, <<Stored(1, 5, 1, 2)>>, "none") EXCEPT
        !.source_id = 1, !.listed = TRUE, !.terms = {Word("pie"), <<"sym", 1>>},
        !.edges = <<Edge(2, "SUPPORTS"), Edge(3, "CONTRADICTS")>>],
    [Atom(2, 6, <<Stored(2, 5, 1, 3), Stored(2, 2, 1, 1)>>, "none") EXCEPT
        !.terms = {Word("pie")}, !.edges = <<Edge(3, "DERIVED_FROM")>>,
        !.len = 32, !.source_id = 2, !.meta = [trust |-> 6, domain |-> 1]],
    [Atom(3, 4, <<Stored(3, 8, 0, 1)>>, "probe") EXCEPT
        !.probe = claim_pattern_hash(Cl(3, 8, 0, 1)), !.terms = {Word("pie"), Word("tart")}],
    [Atom(4, 8, None, "basic") EXCEPT
        !.terms = {Word("tart")}, !.meta = [trust |-> 8, domain |-> 2]],
    [Atom(5, 3, <<Stored(1, 5, 1, MaxWord + 5)>>, "probe") EXCEPT
        !.probe = claim_pattern_hash(Cl(1, 5, 1, 2)), !.terms = {Word("tart")},
        !.edges = <<Edge(4, "DEPENDS_ON")>>],
    [Atom(6, 5, <<>>, "none") EXCEPT !.superseded = TRUE, !.terms = {Word("tart")},
        !.readable = FALSE]>>
MCNearest == << <<[atom |-> 4, sim |-> 7], [atom |-> 3, sim |-> 2]>> >>

\* Relation 1 is superseded by 2.
Named(names, type, claims) == [names |-> names, type |-> type, claims |-> claims]
Relation(id, s, p, o, atom, old) ==
    [id |-> id, subject |-> s, predicate |-> p, object |-> o, atom |-> atom,
     deprecated |-> FALSE, supersedes |-> old]
MCDirectory ==
    [entities |-> <<Named({<<Word("pie")>>}, <<Word("dish")>>, {5}),
                    Named({<<Word("apple"), Word("tart")>>}, <<Word("dish")>>, {})>>,
     predicates |-> <<[names |-> {<<Word("holds")>>}]>>,
     relations |-> {Relation(1, 1, 1, 2, 6, None), Relation(2, 1, 1, 2, 5, 1)},
     lexicon |-> Word("pie") :> 1 @@ Word("tart") :> 2]
MCStopWords == {Word("the")}

NoTime == [range |-> None, before |-> None, after |-> None, valid_at |-> None,
           observed_at |-> None, latest |-> None, current |-> TRUE]
Anything == [sel |-> <<>>, label |-> None, aliases |-> <<>>, type |-> "", domain |-> 0]
Selected(sel) == [Anything EXCEPT !.sel = sel]
Node(n) == Selected([node |-> n])
In(target, domain) == [target EXCEPT !.domain = domain]
Called(words) == [Anything EXCEPT !.label = PlainText([i \in DOMAIN words |-> Word(words[i])])]
Scope(all) == [conflicting |-> all, branch_ids |-> {}, selectors |-> {"Active"}]
OnConflict(mode) == [mode |-> mode, include |-> TRUE, fail_on_hard |-> FALSE]
Contract(intent, targets) ==
    [intent |-> intent, targets |-> targets, vectors |-> <<>>, relations |-> <<>>,
     constraints |-> <<>>, quantifiers |-> <<>>, temporal |-> NoTime, scope |-> Scope(TRUE),
     conflict |-> OnConflict("Include"), format |-> "StructuredJson", max_items |-> 20,
     max_bytes |-> MinBytes, ctx |-> 0,
     budgets |-> [max_atoms |-> 4, max_iterations |-> 3, max_io |-> 400, max_edges |-> 3,
                  max_branches |-> 2, max_time |-> 1000, max_calls |-> 0]]
MinTrusted(t) == Must("c", "NumericMetric", "Gte", Num(t))

Asked == {
    Contract("LOOKUP", <<Node(1)>>),
    Contract("EXPLAIN", <<Node(1), Node(2)>>),
    Contract("DEFINE", <<Node(2)>>),
    Contract("COMPARE", <<In(Anything, 1)>>),
    Contract("DERIVE", <<Node(2), Node(3)>>),
    Contract("VERIFY", <<Node(3)>>),
    Contract("VERIFY", <<In(Node(4), 1)>>),
    Contract("EXPLAIN", <<In(Node(1), 8), Node(2)>>),
    Contract("COMPARE", <<Node(2), Node(3), Node(1)>>),
    Contract("PLAN", <<Selected([term |-> 1])>>),
    Contract("LOOKUP", <<Called(<<"pie", "the">>)>>),
    Contract("LOOKUP", <<Called(<<"tart", "apple">>), Node(5)>>)}
With(q, k) ==
    CASE k = "plain" -> q
      [] k = "strict" -> [q EXCEPT !.constraints = <<MinTrusted(5)>>, !.scope = Scope(FALSE)]
      [] k = "tight" -> [q EXCEPT !.budgets = [@ EXCEPT !.max_branches = 0, !.max_atoms = 1, !.max_edges = 0]]
      [] k = "poor" -> [q EXCEPT !.budgets.max_io = 130, !.conflict = OnConflict("Fail"), !.max_items = 1]
      [] k = "wide" -> [q EXCEPT !.vectors = <<1>>, !.format = "EvidenceTable", !.temporal.current = FALSE]
      [] k = "once" -> [q EXCEPT !.budgets.max_iterations = 1, !.budgets.max_branches = 1,
                                 !.conflict = OnConflict("IncludeAlternatives"), !.ctx = 7]
      [] k = "table" -> [q EXCEPT !.format = "EvidenceTable"]
      [] k = "timed" -> [q EXCEPT !.temporal.before = 3]
Simple == Contract("LOOKUP", <<Node(1)>>)
\* Contracts that are refused, each for another reason.
Malformed ==
    {Contract("LOOKUP", <<>>),
     Contract("LOOKUP", <<Selected([node |-> 1, term |-> 1])>>),
     Contract("LOOKUP", <<Selected([atom |-> None])>>),
     Contract("LOOKUP", <<Selected([id |-> PlainText(<<Word("pie")>>)])>>),
     Contract("LOOKUP", <<[Anything EXCEPT !.label = Prefixed(BadRef)]>>),
     [Simple EXCEPT !.vectors = <<None>>], [Simple EXCEPT !.quantifiers = <<{"c"}>>],
     [Simple EXCEPT !.max_bytes = MinBytes - 1], [Simple EXCEPT !.budgets.max_time = 300001]}
MCContracts ==
    {With(q, k) : q \in Asked, k \in {"plain", "strict", "tight", "poor", "wide", "once"}}
    \union Malformed
    \union {With(Simple, "timed"), With(Contract("EXPLAIN", <<Node(1), Node(2)>>), "table"),
            [Simple EXCEPT !.budgets.max_io = 0],
            Contract("LOOKUP", <<Selected([id |-> Prefixed(EntityRef("Atom", 2))])>>),
            Contract("DEFINE", <<Selected([key |-> <<Word("holds")>>])>>),
            Contract("LOOKUP", <<Selected([entity |-> 1]), Selected([symbol |-> 1])>>),
            [Contract("LOOKUP", <<[Selected([term |-> 0]) EXCEPT !.type = "compatibility_term_seed"],
                                  Called(<<"tart">>)>>) EXCEPT !.temporal.current = FALSE]}

Holding(mode, claims) ==
    LET m == create_context(NewManager, 0)
        held == FoldLeft(LAMBDA acc, c: InsertClaim(acc, c, 2), NoClaims, claims)
    IN  [m EXCEPT !.contexts[1].claims = held, !.contexts[1].mode = mode]
MCManagers == {NewManager, Holding("Branch", <<Cl(1, 5, 1, 4)>>),
               Holding("Branch", <<Cl(3, 8, 0, 2), Cl(2, 5, 1, 1)>>),
               Holding("Reject", <<Cl(1, 5, 1, 3)>>)}

-----------------------------------------------------------------------------
(* The set cover and the cost model, over small inputs.                     *)

TwoGaps == <<[id |-> 4, prio |-> 3], [id |-> 7, prio |-> 1]>>
Offers == {[AtomCandidate(a) EXCEPT !.trust = t, !.io = io, !.gaps = gs] :
             a \in 1..2, t \in {5, TrustScale}, io \in {0, 20},
             gs \in {<<>>, <<4>>, <<7>>, <<4, 7>>, <<7, 7>>}}
\* Nodes of half and of full trust, one a year old and one with conflicts.
OldNode == [trust |-> 5, io |-> 1, age |-> 2, domain |-> 1, hard |-> 0, soft |-> 0]
BadNode == [trust |-> TrustScale, io |-> 0, age |-> 4, domain |-> 0, hard |-> 1, soft |-> 2]
Graphs == {[EmptyGraph EXCEPT !.covered = c, !.nodes = ns, !.edges = es] :
             c \in SUBSET {1, 2}, ns \in {<<>>, <<OldNode>>, <<OldNode, BadNode>>},
             es \in {<<>>, <<AgEdge(1, 2, "SUPPORTS", 4)>>}}
FreeWeights == [DefaultWeights EXCEPT !.wN = 0, !.wIO = 0, !.wT = 0]

\* The greedy cover reaches what can be reached, keeps its budget and reports
\* what it selected (SetCoverSolver::solve, solve_with_budget).
ASSUME SetCoverIsSound ==
    \A n \in 0..2: \A cs \in [1..n -> Offers]: \A gaps \in {<<>>, TwoGaps}:
        \A w \in {DefaultWeights, FreeWeights}: \A max \in {None, 0, 5100, 5600}:
            SetCoverSound(gaps, cs, w, max)

\* Every graph off the frontier is dominated by one on it (pareto_frontier).
ASSUME ParetoIsSound ==
    \A n \in 0..2: \A gs \in [1..n -> Graphs]: \A now \in {0, 3}:
        ParetoSound([w |-> DefaultWeights, now |-> now], gs)
=============================================================================
