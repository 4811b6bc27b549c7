------------------------------ MODULE GraphStore ------------------------------
(***************************************************************************)
(* The life of one graph store (src/graph/store.rs): edges come and go,    *)
(* the store is saved and compacted file by file, any write may fail, the  *)
(* process may die between or within writes, and the store is loaded       *)
(* again.                                                                  *)
(***************************************************************************)
EXTENDS GraphFiles

CONSTANTS
    GraphEdges,     \* edges that callers name, <<type, source, target>>
    GraphNodes,     \* nodes that callers add
    MaxGraphOps,    \* bound: operations
    MaxGraphFaults  \* bound: failed writes and crashes

VARIABLES
    graph,   \* the store in memory
    gfiles,  \* its directory
    gphase,  \* idle, save, compact, down or refused (load failed)
    gplan,   \* writes of the running operation still to be done
    told,    \* edges found at the load, added and not deleted since, that compactions kept
    gops, gfaults

gvars == <<graph, gfiles, gphase, gplan, told, gops, gfaults>>

\* The edges that has_edge answers for.
EdgesOf(g) == {k \in GraphEdges: has_edge(g, k[2], k[3], k[1])}

GraphInit ==
    /\ graph = with_path(0) /\ gfiles = NoDisk
    /\ gphase = "idle" /\ gplan = <<>> /\ told = {}
    /\ gops = 0 /\ gfaults = 0

GraphCall == gphase = "idle" /\ gops < MaxGraphOps /\ gops' = gops + 1 /\ UNCHANGED gfaults

\* compact swaps the layers in memory once only the manifest is left to write.
Swapped(g, found) ==
    /\ graph' = Compacted(g)
    /\ told' = found \intersect EdgesOf(graph')
BeginCompact(g, found) ==
    LET writes == CompactWrites(g, gfiles)
    IN  /\ IF Len(writes) = 1 THEN Swapped(g, found) ELSE graph' = g /\ told' = found
        /\ gplan' = writes
        /\ gphase' = "compact"

AddNode(n) ==
    /\ GraphCall
    /\ graph' = add_node(graph, n)
    /\ UNCHANGED <<gfiles, gphase, gplan, told>>

AddEdge(type, src, dst) ==
    /\ GraphCall
    /\ LET g == add_edge(graph, src, dst, type, 1)
           found == told \union {<<type, src, dst>>}
       IN  IF over_limit(g) THEN BeginCompact(g, found)
           ELSE graph' = g /\ told' = found /\ UNCHANGED <<gphase, gplan>>
    /\ UNCHANGED gfiles

DeleteEdge(type, src, dst) ==
    /\ GraphCall
    /\ ~graph.readonly
    /\ graph' = delete_edge(graph, src, dst, type)
    /\ told' = told \ {<<type, src, dst>>}
    /\ UNCHANGED <<gfiles, gphase, gplan>>

SetReadonly(on) ==
    /\ GraphCall
    /\ graph' = set_readonly(graph, on)
    /\ UNCHANGED <<gfiles, gphase, gplan, told>>

\* Refused without a write when the manifest could not name the deltas.
Save ==
    /\ GraphCall
    /\ validate_inline_delta_capacity(graph)
    /\ gphase' = "save" /\ gplan' = save(graph)
    /\ UNCHANGED <<graph, gfiles, told>>

CompactGraph ==
    /\ GraphCall
    /\ graph.delta # <<>>
    /\ BeginCompact(graph, told)
    /\ UNCHANGED gfiles

\* What follows the write at the head of the plan.
Advance ==
    /\ gplan' = Tail(gplan)
    /\ gphase' = IF Len(gplan) = 1 THEN "idle" ELSE gphase
    /\ IF gphase = "compact" /\ Len(gplan) = 2 THEN Swapped(graph, told) ELSE UNCHANGED <<graph, told>>

GraphWrite ==
    /\ gplan # <<>>
    /\ gfiles' = Done(gfiles, gplan[1])
    /\ Advance
    /\ UNCHANGED <<gops, gfaults>>

GraphFault == gfaults < MaxGraphFaults /\ gfaults' = gfaults + 1

\* The operation returns the error; a delta that cannot be removed is left.
WriteFails ==
    /\ gplan # <<>> /\ GraphFault
    /\ IF gplan[1].op = "del" THEN Advance /\ UNCHANGED gfiles
       ELSE /\ gfiles' \in Outcomes(gfiles, gplan[1])
            /\ gphase' = "idle" /\ gplan' = <<>>
            /\ UNCHANGED <<graph, told>>
    /\ UNCHANGED gops

GraphCrash ==
    /\ gphase \in {"idle", "save", "compact"} /\ GraphFault
    /\ gfiles' \in IF gplan = <<>> THEN {gfiles} ELSE Outcomes(gfiles, gplan[1])
    /\ gphase' = "down" /\ gplan' = <<>>
    /\ UNCHANGED <<graph, told, gops>>

\* The process ends in an orderly way; nothing is saved by that.
GraphClose ==
    /\ gphase = "idle"
    /\ gphase' = "down"
    /\ UNCHANGED <<graph, gfiles, gplan, told, gops, gfaults>>

GraphReopen ==
    /\ gphase = "down"
    /\ LET l == open_or_create(gfiles, 0)
       IN  IF l.ok
           THEN graph' = l.g /\ gphase' = "idle" /\ told' = EdgesOf(l.g)
           ELSE /\ gphase' = "refused"
                /\ UNCHANGED <<graph, told>>
    /\ UNCHANGED <<gfiles, gplan, gops, gfaults>>

GraphNext ==
    \/ \E n \in GraphNodes: AddNode(n)
    \/ \E k \in GraphEdges: AddEdge(k[1], k[2], k[3]) \/ DeleteEdge(k[1], k[2], k[3])
    \/ \E on \in BOOLEAN: SetReadonly(on)
    \/ Save \/ CompactGraph \/ GraphWrite \/ WriteFails \/ GraphCrash \/ GraphClose \/ GraphReopen
GraphSpec == GraphInit /\ [][GraphNext]_gvars

\* Edge types and nodes are unsigned integers.
GraphAssumption ==
    /\ GraphEdges \subseteq Nat \X Nat \X Nat
    /\ GraphNodes \subseteq Nat

-----------------------------------------------------------------------------
\* The ways to look up an edge agree: the reverse index lists a source of a
\* node exactly when has_edge finds the edge, through additions, deletions,
\* compaction, failed writes, crashes and reloads (apply_reverse_entry,
\* rebuild_reverse_index, has_edge); and the edges found are those of the load,
\* with those added since and without those deleted.  A compaction may lose edges
\* (neighbor_range_data counts attributes in bytes), but it never brings one back
\* or makes one up.
EdgesFound ==
    gphase \in {"idle", "save", "compact"} =>
        /\ \A k \in GraphEdges:
              has_edge(graph, k[2], k[3], k[1]) <=> k[2] \in {r.src : r \in in_neighbors(graph, k[3], k[1])}
        /\ EdgesOf(graph) = told
=============================================================================
