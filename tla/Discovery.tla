------------------------------ MODULE Discovery ------------------------------
(***************************************************************************)
(* Federated discovery and fetch (federation/mod.rs).  discover asks the   *)
(* configured peers one after the other; each gateway answers from its own *)
(* base and, while hops remain, forwards the request to its own peers.     *)
(* Every await is on the call made last, so the calls under way form a     *)
(* stack.  A call may fail (timeout, HTTP error, undecodable answer).      *)
(* A verified fetch of mapped content runs beside the clock that expires   *)
(* mappings.                                                               *)
(***************************************************************************)
EXTENDS Naturals, FiniteSets, FiniteSetsExt, Sieve

CONSTANTS Base,         \* knowledge bases
          Client,       \* the base whose FederationClient discovers
          Peers,        \* base -> its configured peers, by descending trust
          Trust,        \* base -> peer -> configured trust_level
          LocalTrust,   \* base -> trust_level of its matching atom, 0 for none
          MaxHops,      \* config.max_hops
          MinTrust,     \* the min_trust of a discover request
          SkipTrust,    \* a client skips peers below this trust
          Atom,         \* atom identities
          Holds,        \* base -> the atoms its CAS holds
          Mappings,     \* the gateway's MapsTo records, in the order added
          Policies,     \* TrustPolicy records
          AtomTypes,    \* the atom types a client offers
          MaxTime       \* bound on the clock

ASSUME DiscoveryAssumption ==
    /\ Client \in Base /\ MaxHops \in Nat /\ MinTrust \in Nat
    /\ Peers \in [Base -> Seq(Base)]
    /\ Trust \in [Base -> [Base -> Nat]] /\ LocalTrust \in [Base -> Nat]

VARIABLES stack,    \* the discover calls under way, the client's first
          found,    \* whether discover has returned, and what
          time,     \* the system clock
          fetch,    \* the verified fetch under way or answered
          schema    \* peer -> outcome of the last negotiation with it

dvars == <<stack, found, time, fetch, schema>>

-----------------------------------------------------------------------------
(* Discovery.                                                              *)

\* handle_discover's search of the local base: at most one matching atom.
LocalResults(b) ==
    IF LocalTrust[b] >= MinTrust
    THEN <<[base |-> b, hops |-> 0, trust |-> LocalTrust[b], path |-> <<b>>]>> ELSE <<>>

\* Frame of a call: the request it forwards, the peers it has yet to ask and
\* the answers it has.
ClientFrame ==
    [base |-> Client, hops |-> MaxHops, visited |-> {},
     left |-> Keep(Peers[Client], {p \in Base : Trust[Client][p] >= SkipTrust}),
     results |-> <<>>, forwarded |-> <<>>]

\* handle_discover: no hops or a visited base answers nothing; a gateway
\* with more than one hop forwards with one hop less and itself visited.
HandleFrame(b, hops, visited) ==
    IF hops = 0 \/ b \in visited
    THEN [base |-> b, hops |-> 0, visited |-> visited, left |-> <<>>,
          results |-> <<>>, forwarded |-> <<>>]
    ELSE [base |-> b, hops |-> hops - 1, visited |-> visited \cup {b},
          left |-> IF hops > 1 THEN Peers[b] ELSE <<>>,
          results |-> LocalResults(b), forwarded |-> <<>>]

MutThrough(caller, peer, r) == [r EXCEPT !.hops = @ + 1, !.path = <<caller>> \o @]

\* A forwarded result is one hop farther and no more trusted than the link.
Through(caller, peer, r) ==
    [r EXCEPT !.hops = @ + 1, !.trust = Min({@, Trust[caller][peer]}),
              !.path = <<caller>> \o @]

SameResult(a, b) == a.base = b.base /\ a.hops = b.hops

\* sort_by is stable: a result goes behind those trusted as much.
Insert(sorted, r) ==
    Keep(sorted, {x \in ToSet(sorted) : x.trust >= r.trust}) \o <<r>>
      \o Keep(sorted, {x \in ToSet(sorted) : x.trust < r.trust})

\* Sorted by path trust, adjacent duplicates dropped: of every row of equal
\* results the first stays.
SortDedup(rs) ==
    LET sorted == FoldLeft(Insert, <<>>, rs)
        firsts == Keep([i \in DOMAIN sorted |-> i],
                       {i \in DOMAIN sorted : i > 1 => ~SameResult(sorted[i - 1], sorted[i])})
    IN [k \in DOMAIN firsts |-> sorted[firsts[k]]]

Top == Last(stack)
WithTop(f) == Append(Front(stack), f)

StartDiscover ==
    /\ stack = <<>> /\ found.status = "idle"
    /\ stack' = <<ClientFrame>> /\ found' = [found EXCEPT !.status = "running"]
    /\ UNCHANGED <<time, fetch, schema>>

\* forward_discover passes over a peer the request has visited.
SkipVisited ==
    /\ stack # <<>> /\ Top.left # <<>> /\ Head(Top.left) \in Top.visited
    /\ stack' = WithTop([Top EXCEPT !.left = Tail(@)])
    /\ UNCHANGED <<found, time, fetch, schema>>

Ask ==
    /\ stack # <<>> /\ Top.left # <<>> /\ Head(Top.left) \notin Top.visited
    /\ stack' = Append(stack, HandleFrame(Head(Top.left), Top.hops, Top.visited))
    /\ UNCHANGED <<found, time, fetch, schema>>

\* The peer cannot be reached, or its answer is not one.
AskFails ==
    /\ stack # <<>> /\ Top.left # <<>> /\ Head(Top.left) \notin Top.visited
    /\ stack' = WithTop([Top EXCEPT !.left = Tail(@)])
    /\ UNCHANGED <<found, time, fetch, schema>>

MutAnswer ==
    /\ Len(stack) > 1 /\ Top.left = <<>> /\ Top.results # <<>>
    /\ stack' = Append(SubSeq(stack, 1, Len(stack) - 2),
                       [stack[Len(stack) - 1] EXCEPT !.left = Tail(@), !.forwarded = @ \o Top.results])
    /\ UNCHANGED <<found, time, fetch, schema>>

\* A gateway has asked all its peers: its caller takes the answer.  A
\* gateway drops results whose path is trusted too little; the client
\* takes them all.
Answer ==
    /\ Len(stack) > 1 /\ Top.left = <<>>
    /\ LET caller == stack[Len(stack) - 1]
           answer == Top.results \o SortDedup(Top.forwarded)
           carried == [i \in DOMAIN answer |-> Through(caller.base, Top.base, answer[i])]
           passed == IF Len(stack) = 2 THEN answer
                     ELSE Keep(carried, {r \in ToSet(carried) : r.trust >= MinTrust})
       IN stack' = Append(SubSeq(stack, 1, Len(stack) - 2),
                          [caller EXCEPT !.left = Tail(@), !.forwarded = @ \o passed])
    /\ UNCHANGED <<found, time, fetch, schema>>

\* discover returns every result, by descending relevance.
Finish ==
    /\ Len(stack) = 1 /\ Top.left = <<>>
    /\ stack' = <<>> /\ found' = [status |-> "returned", results |-> Top.forwarded]
    /\ UNCHANGED <<time, fetch, schema>>

-----------------------------------------------------------------------------
(* Verified fetch of mapped content.                                       *)

MutAcceptable(m, policy, now_ns, source_trust) ==
    /\ m.confidence >= policy.min_confidence
    /\ m.remote_base \notin policy.blocked
    /\ source_trust >= policy.min_source_trust
    /\ m.evidence >= policy.min_evidence

\* MapsTo::is_acceptable_under, check by check; weights and confidences are
\* counted in tenths.
is_acceptable_under(m, policy, now_ns, source_trust) ==
    /\ m.confidence >= policy.min_confidence
    /\ m.confidence > 0 /\ m.confidence <= 10
    /\ m.valid_until = 0 \/ now_ns < m.valid_until
    /\ policy.max_age = 0 \/ Max({0, now_ns - m.created_at}) <= policy.max_age
    /\ m.remote_base \notin policy.blocked
    /\ policy.allowed = {} \/ m.remote_base \in policy.allowed
    /\ source_trust >= policy.min_source_trust
    /\ policy.require_evidence => m.evidence > 0
    /\ m.evidence >= policy.min_evidence
    /\ m.window = <<>> \/ (m.window[1] <= now_ns /\ now_ns < m.window[2])

\* MapsTo::is_valid_at: in range and not expired, whatever the policy.
is_valid_at(m, now_ns) ==
    /\ m.confidence > 0 /\ m.confidence <= 10
    /\ m.valid_until = 0 \/ now_ns < m.valid_until

get_base_trust(b) == IF b \in ToSet(Peers[Client]) THEN Trust[Client][b] ELSE 0

\* find_mapping_to and its valid and trusted forms: the first record of the
\* atom and base among those that pass, or none.
NoMapping == <<>>
find_mapping_to(a, b, passes) ==
    LET fit == {i \in DOMAIN Mappings :
                  Mappings[i].local_id = a /\ Mappings[i].remote_base = b /\ Mappings[i] \in passes}
    IN IF fit = {} THEN NoMapping ELSE <<Mappings[Min(fit)]>>

\* find_mappings and its forms: all of the atom's records, of any base.
find_mappings(a, passes) == {m \in passes : m.local_id = a}

\* What a caller may pass: a mapping it looked up, or none.
Lookups(a, b, policy, now_ns) ==
    LET any == ToSet(Mappings)
        valid == {m \in any : is_valid_at(m, now_ns)}
        trusted == {m \in any :
                      is_acceptable_under(m, policy, now_ns, get_base_trust(m.remote_base))}
    IN {NoMapping, find_mapping_to(a, b, any), find_mapping_to(a, b, valid),
        find_mapping_to(a, b, trusted)}
         \cup {<<m>> : m \in find_mappings(a, any)}
         \cup {<<m>> : m \in find_mappings(a, valid)}
         \cup {<<m>> : m \in find_mappings(a, trusted)}

StartFetch ==
    /\ fetch.phase = "idle"
    /\ \E b \in ToSet(Peers[Client]), a \in Atom, p \in Policies :
         \E m \in Lookups(a, b, p, time) :
           fetch' = [phase |-> "asked", base |-> b, atom |-> a, mapping |-> m,
                     policy |-> p, now_ns |-> time, got |-> a]
    /\ UNCHANGED <<stack, found, time, schema>>

\* handle_fetch and its route: the atom itself, or, for one the CAS lacks,
\* an empty answer under the zero id.
NoAtom == 0
handle_fetch(b, a) == IF a \in Holds[b] THEN a ELSE NoAtom

\* fetch_with_trust_verification after the await: exact content passes, a
\* mapped atom passes only under the mapping the caller holds, judged at
\* the time the caller passed in.
verified(f, got) ==
    \/ got = f.atom
    \/ /\ f.mapping # NoMapping
       /\ LET m == f.mapping[1]
          IN /\ m.local_id = f.atom /\ m.remote_base = f.base
             /\ is_acceptable_under(m, f.policy, f.now_ns, get_base_trust(f.base))
             /\ got = m.remote_id

\* A peer answers as handle_fetch does, or, being another implementation,
\* with content it maps the atom to.
FetchAnswer ==
    /\ fetch.phase = "asked"
    /\ \E got \in Atom \cup {handle_fetch(fetch.base, fetch.atom)} :
         fetch' = [fetch EXCEPT !.phase = IF verified(fetch, got) THEN "accepted" ELSE "refused",
                                !.got = got]
    /\ UNCHANGED <<stack, found, time, schema>>

FetchFails ==
    /\ fetch.phase = "asked"
    /\ fetch' = [fetch EXCEPT !.phase = "refused"]
    /\ UNCHANGED <<stack, found, time, schema>>

TimePasses ==
    /\ time < MaxTime /\ fetch.phase = "asked"
    /\ time' = time + 1
    /\ UNCHANGED <<stack, found, fetch, schema>>

-----------------------------------------------------------------------------
(* Schema negotiation.                                                     *)

\* handle_negotiate: every requested type is supported in full, so the mean
\* is full compatibility (in tenths), and zero only for an empty request.
calculate_compatibility(types) == IF types = {} THEN 0 ELSE 10
handle_negotiate(types) == IF calculate_compatibility(types) < 5 THEN "rejected" ELSE "agreed"

\* negotiate_schema offers all types; the call may fail.
Negotiate(b) ==
    /\ b \in ToSet(Peers[Client])
    /\ schema' \in {[schema EXCEPT ![b] = handle_negotiate(AtomTypes)],
                    [schema EXCEPT ![b] = "failed"]}
    /\ UNCHANGED <<stack, found, time, fetch>>

-----------------------------------------------------------------------------
DInit ==
    /\ stack = <<>> /\ found = [status |-> "idle", results |-> <<>>]
    /\ time \in 0..1 /\ fetch = [phase |-> "idle"]
    /\ schema = [b \in Base |-> "none"]

DiscoverNext == SkipVisited \/ Ask \/ AskFails \/ Answer \/ Finish
FetchNext == StartFetch \/ FetchAnswer \/ FetchFails \/ TimePasses \/ \E b \in Base : Negotiate(b)

DSpec == DInit /\ [][StartDiscover \/ DiscoverNext \/ FetchNext]_dvars

-----------------------------------------------------------------------------

(* A request passes each base at most once on its way and never farther    *)
(* than the hops it started with, whatever the peer graph's cycles (a      *)
(* client asks its own peers even with no hops to give).                   *)
PathsSimple ==
    /\ Len(stack) <= (IF MaxHops = 0 THEN 1 ELSE MaxHops) + 1
    /\ \A i, j \in 2..Len(stack) : i < j => stack[i].base # stack[j].base

(* Paths are simple, a result's hop count and trust are those of the links *)
(* its answer really crossed, and no result a gateway passed on crossed    *)
(* links too little trusted (handle_discover, forward_discover).           *)
PathTrustExact ==
    /\ PathsSimple
    /\ \A f \in ToSet(stack) : \A r \in ToSet(f.forwarded) :
        LET links == {<<r.path[i], r.path[i + 1]>> : i \in 1..(Len(r.path) - 1)}
        IN /\ r.hops = Len(r.path) - 1
           /\ r.trust = Min({LocalTrust[r.base]} \cup {Trust[l[1]][l[2]] : l \in links})
           /\ r.trust >= MinTrust

(* Content that is not what was asked for is accepted only from the base   *)
(* it was asked of, under a mapping of the asked atom to just that content *)
(* that had not expired when the fetch began                               *)
(* (fetch_with_trust_verification).                                        *)
MappedContentVerified ==
    fetch.phase = "accepted" /\ fetch.got # fetch.atom =>
        /\ fetch.mapping # NoMapping
        /\ LET m == fetch.mapping[1]
           IN /\ m.local_id = fetch.atom /\ m.remote_id = fetch.got
              /\ m.remote_base = fetch.base
              /\ fetch.base \notin fetch.policy.blocked
              /\ m.valid_until = 0 \/ fetch.now_ns < m.valid_until

(* A discovery that has started returns, whatever its peers do: every call *)
(* ends in an answer or in its timeout.                                    *)
DiscoveryReturns == (found.status = "running") ~> (found.status = "returned")
=============================================================================
