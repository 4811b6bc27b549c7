------------------------------ MODULE CtxManager ------------------------------
(***************************************************************************)
(* The context and conflict manager (CtxManager of src/store/api.rs): the  *)
(* contexts of a store, the claims that are active in each, and the        *)
(* branches that conflicts open.  A manager is a value, [contexts, next,   *)
(* active]: the solver works on a copy of the store's, and the writers of  *)
(* relations keep the store's own.                                         *)
(***************************************************************************)
EXTENDS ConflictIndex

\* The modes of CtxPolicy.conflict_resolution.
ConflictResolutionMode == {"Reject", "PreferExisting", "PreferNew", "Branch"}

\* Active claims are keyed by signature: a function from signatures to
\* [atom, claim].
NoClaims == [s \in {} |-> <<>>]

CtxPolicyDefault == "Branch"

ContextBranch(id, parent, policy, reason, claims, conflicts, mode) ==
    [ctx_id |-> id, parent |-> parent, policy_id |-> policy, reason |-> reason,
     active |-> TRUE, claims |-> claims, conflicts |-> conflicts, mode |-> mode]

NewManager == [contexts |-> <<>>, next |-> 0, active |-> 0]

HasCtx(m, id) == \E k \in DOMAIN m.contexts: m.contexts[k].ctx_id = id
CtxAt(m, id) == CHOOSE k \in DOMAIN m.contexts: m.contexts[k].ctx_id = id
get_ctx(m, id) == m.contexts[CtxAt(m, id)]

create_context(m, policy) ==
    [m EXCEPT !.contexts = Append(@, ContextBranch(m.next, None, policy, "Manual", NoClaims,
                                                  <<>>, CtxPolicyDefault)),
              !.next = @ + 1]

\* A branch without a conflict copies everything of its parent.
create_branch(m, parent, reason, policy) ==
    LET p == get_ctx(m, parent)
    IN  [m EXCEPT !.contexts = Append(@, ContextBranch(m.next, parent, policy, reason, p.claims,
                                                      p.conflicts, p.mode)),
                  !.next = @ + 1]

\* set_active_ctx and deactivate_ctx: an unknown (or, for the first, an
\* inactive) context changes nothing; deactivation leaves active_ctx alone.
set_active_ctx(m, id) ==
    IF HasCtx(m, id) /\ get_ctx(m, id).active THEN [m EXCEPT !.active = id] ELSE m
deactivate_ctx(m, id) ==
    IF HasCtx(m, id) THEN [m EXCEPT !.contexts[CtxAt(m, id)].active = FALSE] ELSE m

ActiveClaim(atom, claim) == [atom |-> atom, claim |-> claim]

InsertClaim(claims, claim, atom) ==
    [s \in DOMAIN claims \union {claim_signature(claim)} |->
        IF s = claim_signature(claim) THEN ActiveClaim(atom, claim) ELSE claims[s]]

\* HashMap::retain
Retain(claims, Keep(_)) ==
    [s \in {t \in DOMAIN claims: Keep(claims[t])} |-> claims[s]]

WithClaims(m, id, claims) == [m EXCEPT !.contexts[CtxAt(m, id)].claims = claims]

Conflict(a, b, severity, pattern) ==
    [atom_a |-> a, atom_b |-> b, severity |-> severity, pattern |-> pattern]

\* The conflicts that the probe may report: the map's order decides which of
\* the active claims of the pattern is met first.
probe_conflict_with_atoms(m, id, claim, atom) ==
    LET held == get_ctx(m, id).claims
    IN  {Conflict(held[s].atom, atom, "Hard", claim_pattern_hash(claim)) :
            s \in {t \in DOMAIN held:
                     /\ claim_pattern_hash(held[t].claim) = claim_pattern_hash(claim)
                     /\ t # claim_signature(claim)}}

\* The branch drops the claims of the first atom of the conflict, else those
\* of the second, else those of the pattern.
BranchClaims(claims, conflict) ==
    LET without(c) == Retain(claims, LAMBDA a: a.atom # c)
    IN  IF DOMAIN without(conflict.atom_a) # DOMAIN claims THEN without(conflict.atom_a)
        ELSE IF DOMAIN without(conflict.atom_b) # DOMAIN claims THEN without(conflict.atom_b)
        ELSE Retain(claims, LAMBDA a: claim_pattern_hash(a.claim) # conflict.pattern)

branch_ctx(m, parent, conflict) ==
    LET p == get_ctx(m, parent)
    IN  [m EXCEPT !.contexts = Append(@, ContextBranch(m.next, parent, p.policy_id, "Conflict",
                                                      BranchClaims(p.claims, conflict),
                                                      Append(p.conflicts, conflict), p.mode)),
                  !.next = @ + 1]

Accepted(m, ctx) == [mgr |-> m, ctx |-> ctx, rejected |-> FALSE]
Denied(m, ctx) == [mgr |-> m, ctx |-> ctx, rejected |-> TRUE]

\* The outcomes of assert_claim_with_atom_id on a known context. PreferNew
\* keeps the claim it is said to replace.
assert_claim_with_atom_id(m, id, claim, atom) ==
    LET conflicts == probe_conflict_with_atoms(m, id, claim, atom)
        mode == get_ctx(m, id).mode
        inserted == WithClaims(m, id, InsertClaim(get_ctx(m, id).claims, claim, atom))
        branched(c) == LET n == branch_ctx(m, id, c)
                       IN  WithClaims(n, m.next, InsertClaim(get_ctx(n, m.next).claims, claim, atom))
    IN  IF conflicts = {} \/ mode = "PreferNew" THEN {Accepted(inserted, id)}
        ELSE IF mode \in {"Reject", "PreferExisting"} THEN {Denied(m, id)}
        ELSE {Accepted(branched(c), m.next) : c \in conflicts}

-----------------------------------------------------------------------------
(* Claims that stand for relations.                                         *)

PredicateCardinality == {"OneToOne", "OneToMany", "ManyToOne", "ManyToMany", None}

relation_claims_conflict(active, incoming, cardinality) ==
    LET same_subject == active.subj = incoming.subj
        same_object == active.tag = incoming.tag /\ active.val = incoming.val
    IN  /\ active.pred = incoming.pred /\ active # incoming
        /\ CASE cardinality = "OneToOne" -> same_subject \/ same_object
             [] cardinality = "OneToMany" -> same_object
             [] cardinality = "ManyToOne" -> same_subject
             [] cardinality = "ManyToMany" -> FALSE
             [] OTHER -> claim_pattern_hash(active) = claim_pattern_hash(incoming)

Clashes(claims, claim, cardinality) ==
    \E s \in DOMAIN claims: relation_claims_conflict(claims[s].claim, claim, cardinality)

\* Repair of one projection: nothing to do, refused, or the claim under its
\* signature.
reconcile_claim_with_atom_id(m, id, claim, atom, cardinality) ==
    LET held == get_ctx(m, id).claims
        sig == claim_signature(claim)
    IN  IF sig \in DOMAIN held /\ held[sig] = ActiveClaim(atom, claim) THEN Accepted(m, id)
        ELSE IF Clashes(held, claim, cardinality) THEN Denied(m, id)
        ELSE Accepted(WithClaims(m, id, InsertClaim(held, claim, atom)), id)

replace_claim_with_atom_id_for_cardinality(m, id, old, claim, new, cardinality) ==
    LET held == get_ctx(m, id).claims
        rest == Retain(held, LAMBDA a: a.atom # old)
    IN  IF DOMAIN rest = DOMAIN held \/ Clashes(rest, claim, cardinality)
        THEN Denied(m, id)
        ELSE Accepted(WithClaims(m, id, InsertClaim(rest, claim, new)), id)

retire_atom_projections(m, atom) ==
    [m EXCEPT !.contexts =
        [k \in DOMAIN @ |-> [@[k] EXCEPT !.claims = Retain(@, LAMBDA a: a.atom # atom)]]]

-----------------------------------------------------------------------------
(* What others read of a manager.                                           *)

list_conflicts(m, id) == IF HasCtx(m, id) THEN get_ctx(m, id).conflicts ELSE <<>>

\* Every active claim, as a soft conflict of its pattern.
get_ctx_index(m, id) ==
    IF ~HasCtx(m, id) THEN {}
    ELSE LET held == get_ctx(m, id).claims
         IN  FoldSet(LAMBDA s, index: add_claim_index(index, held[s].claim, held[s].atom, "Soft"),
                     {}, DOMAIN held)

\* QueryFilters::matches
FilterMatches(f, meta) ==
    /\ meta.trust >= f.min_trust
    /\ f.domain = 0 \/ And(meta.domain, f.domain) # 0

\* No context holds two sides of a contradiction, except where its policy is
\* to take the new claim in beside the old.
Consistent(m) ==
    \A k \in DOMAIN m.contexts:
        LET held == m.contexts[k].claims
        IN  m.contexts[k].mode # "PreferNew" =>
            \A s, t \in DOMAIN held:
                claim_pattern_hash(held[s].claim) = claim_pattern_hash(held[t].claim) => s = t
=============================================================================
