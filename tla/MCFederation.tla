----------------------------- MODULE MCFederation -----------------------------
(***************************************************************************)
(* Gateways syncing CRDT metadata, a client discovering, a client fetching *)
(* and negotiating, and the CRDT log.  The four share no state (a discover *)
(* or fetch never takes the metadata lock, and nothing connects the log to *)
(* a gateway), so each behaviour exercises one of them while the others    *)
(* rest.                                                                   *)
(***************************************************************************)
EXTENDS MetaSync, Discovery, CrdtLog

CONSTANT Workloads

VARIABLE workload

vars == <<workload, mvars, dvars, lvars>>

Init ==
    /\ workload \in Workloads
    /\ MInit /\ DInit /\ LInit
    /\ workload # "sync" => kind = "GCOUNTER"
    /\ workload # "log" => lkind = "GCOUNTER"
    /\ workload # "fetch" => time = 0

Discovering == workload = "discover" /\ DiscoverNext /\ UNCHANGED <<workload, mvars, lvars>>

Next ==
    \/ workload = "sync" /\ MNext /\ UNCHANGED <<workload, dvars, lvars>>
    \/ workload = "discover" /\ StartDiscover /\ UNCHANGED <<workload, mvars, lvars>>
    \/ Discovering
    \/ workload = "fetch" /\ FetchNext /\ UNCHANGED <<workload, mvars, lvars>>
    \/ workload = "log" /\ LNext /\ UNCHANGED <<workload, mvars, dvars>>

Spec == Init /\ [][Next]_vars /\ WF_vars(Discovering)

-----------------------------------------------------------------------------
\* Two gateways and one spare actor for a restart.
MCFirstActor == [g \in Gateway |-> g]
MCMaxOps == [k \in Kinds |-> IF k \in {"GCOUNTER", "ORSET", "MVREG"} THEN 3 ELSE 2]

\* Four bases in a cycle with a chord; base 4 is trusted little by base 3.
MCPeers == << <<2, 3>>, <<3, 1>>, <<4, 2>>, <<1, 3>> >>
MCTrust == << [p \in 1..4 |-> 9], [p \in 1..4 |-> IF p = 3 THEN 6 ELSE 4],
              [p \in 1..4 |-> IF p = 4 THEN 2 ELSE 7], [p \in 1..4 |-> 5] >>
MCHolds == << {1}, {2}, {1}, {} >>
MCLocalTrust == <<5, 2, 8, 9>>

Mapping(local, remote, base, confidence, until, evidence, window) ==
    [local_id |-> local, remote_id |-> remote, remote_base |-> base,
     confidence |-> confidence, valid_until |-> until, created_at |-> 0,
     evidence |-> evidence, window |-> window]
MCMappings == <<Mapping(1, 2, 2, 8, 0, 0, <<>>), Mapping(1, 2, 2, 8, 1, 5, <<>>),
               Mapping(1, 2, 3, 9, 0, 5, <<0, 1>>), Mapping(2, 1, 2, 3, 0, 5, <<>>),
               Mapping(1, 1, 2, 11, 0, 5, <<>>)>>
Policy(conf, trust, allowed, blocked, evidence, age) ==
    [min_confidence |-> conf, min_source_trust |-> trust, allowed |-> allowed,
     blocked |-> blocked, require_evidence |-> evidence > 0, min_evidence |-> evidence,
     max_age |-> age]
MCPolicies == {Policy(5, 2, {}, {}, 0, 0), Policy(8, 5, {}, {3}, 5, 1),
               Policy(3, 1, {3}, {}, 0, 0)}
=============================================================================
