------------------------------- MODULE CasStore -------------------------------
(***************************************************************************)
(* The content-addressed store through its life (src/cas/io.rs): atoms are *)
(* stored write by write, segments rotate, writes fail, the process dies,  *)
(* the command line compacts while no store is open (it holds the lease),  *)
(* and the store is opened again.                                          *)
(***************************************************************************)
EXTENDS CasFiles

CONSTANTS
    CasAtoms,       \* ids
    DeferredTypes,  \* types of deferred edges
    RetentionCycles,
    MaxCasOps,      \* bound: operations
    MaxCasFaults    \* bound: failed writes and crashes

VARIABLES
    cas,      \* the open store in memory
    cfiles,   \* the directory
    cphase,   \* open, store, defer, compact, down or refused
    cplan,    \* steps of the running operation still to be done
    storing,  \* the atoms it acknowledges when it ends
    acked,    \* atoms whose store_atom returned
    strayed,  \* atoms stored after an append failed part of the way
    cops, cfaults

cvars == <<cas, cfiles, cphase, cplan, storing, acked, strayed, cops, cfaults>>

CasInit ==
    /\ cfiles = CasCreated(NoDisk) /\ cas = CasOpen(NoDisk)
    /\ cphase = "open" /\ cplan = <<>> /\ storing = {}
    /\ acked = {} /\ strayed = {} /\ cops = 0 /\ cfaults = 0

CasCall(phase) == cphase = phase /\ cops < MaxCasOps /\ cops' = cops + 1 /\ UNCHANGED cfaults
Begin(phase, steps, ids) ==
    /\ cplan' = steps /\ storing' = ids
    /\ cphase' = IF steps = <<>> THEN cphase ELSE phase

\* A record, then the index: what store_atom does before it returns.
StoreAtom(id) ==
    /\ CasCall("open")
    /\ LET wrote == write(cas, id)
       IN  Begin("store", wrote \o flush(After(wrote, cas)), {id})
    /\ cas' = [cas EXCEPT !.cache = @ \union {id}]
    /\ strayed' = IF cas.writer.ahead /\ can_accept(cas.writer) THEN strayed \union {id} ELSE strayed
    /\ UNCHANGED <<cfiles, acked>>

SaveDeferred(d) ==
    Begin("defer", [k \in DOMAIN DeferredSave(d, cfiles) |->
                      Step(DeferredSave(d, cfiles)[k], [cas EXCEPT !.deferred = [d EXCEPT !.dirty = FALSE]])], {})

AddDeferred(target, type, source) ==
    /\ CasCall("open")
    /\ cas' = [cas EXCEPT !.deferred = add_deferred(@, target, type, source)]
    /\ UNCHANGED <<cfiles, cphase, cplan, storing, acked, strayed>>

\* The created atom's edges are taken, and the rest saved if there were any.
ResolveDeferred(target) ==
    /\ CasCall("open")
    /\ LET r == try_resolve(cas.deferred, target)
       IN  /\ cas' = [cas EXCEPT !.deferred = r.store]
           /\ IF r.resolved = <<>> THEN UNCHANGED <<cphase, cplan, storing>> ELSE SaveDeferred(r.store)
    /\ UNCHANGED <<cfiles, acked, strayed>>

\* advance_compaction_cycle, then apply_default_deferred_retention.
RetainDeferred ==
    /\ CasCall("open")
    /\ LET d == apply_retention(advance_cycle(cas.deferred), RetentionCycles)
       IN  /\ cas' = [cas EXCEPT !.deferred = d]
           /\ IF Len(d.edges) = Len(cas.deferred.edges) THEN UNCHANGED <<cphase, cplan, storing>>
              ELSE SaveDeferred(d)
    /\ UNCHANGED <<cfiles, acked, strayed>>

CasWrite ==
    /\ cplan # <<>>
    /\ cfiles' = Done(cfiles, cplan[1].write)
    /\ cas' = cplan[1].mem
    /\ cplan' = Tail(cplan)
    /\ IF Len(cplan) = 1
       THEN /\ cphase' = IF cphase = "compact" THEN "down" ELSE "open"
            /\ acked' = acked \union storing
       ELSE UNCHANGED <<cphase, acked>>
    /\ UNCHANGED <<storing, strayed, cops, cfaults>>

CasFault == cfaults < MaxCasFaults /\ cfaults' = cfaults + 1

\* A failed append may have moved the file on while the size in memory stays.
CasWriteFails ==
    /\ cplan # <<>> /\ CasFault
    /\ cfiles' \in Outcomes(cfiles, cplan[1].write)
    /\ cas' = IF cphase = "store" THEN WriteFailed(cas, cplan[1].write, cfiles' # cfiles) ELSE cas
    /\ cphase' = IF cphase = "compact" THEN "down" ELSE "open"
    /\ cplan' = <<>>
    /\ UNCHANGED <<storing, acked, strayed, cops>>

CasCrash ==
    /\ cphase \in {"open", "store", "defer", "compact"} /\ CasFault
    /\ cfiles' \in IF cplan = <<>> THEN {cfiles} ELSE Outcomes(cfiles, cplan[1].write)
    /\ cphase' = "down" /\ cplan' = <<>>
    /\ UNCHANGED <<cas, storing, acked, strayed, cops>>

CasClose ==
    /\ cphase = "open" /\ cphase' = "down"
    /\ UNCHANGED <<cas, cfiles, cplan, storing, acked, strayed, cops, cfaults>>

\* The compaction command opens the store first, and gives up when it cannot.
CasCompact ==
    /\ CasCall("down")
    /\ Cardinality(SegIds(cfiles)) > 1 /\ CasOpens(cfiles)
    /\ LET ws == cmd_compact(cfiles)
       IN  Begin("compact", [k \in DOMAIN ws |-> Step(ws[k], cas)], {})
    /\ UNCHANGED <<cas, cfiles, acked, strayed>>

CasReopen ==
    /\ cphase = "down"
    /\ IF CasOpens(cfiles)
       THEN cas' = CasOpen(cfiles) /\ cfiles' = CasCreated(cfiles) /\ cphase' = "open"
       ELSE cphase' = "refused" /\ UNCHANGED <<cas, cfiles>>
    /\ UNCHANGED <<cplan, storing, acked, strayed, cops, cfaults>>

CasNext ==
    \/ \E a \in CasAtoms: StoreAtom(a) \/ ResolveDeferred(a)
    \/ \E a, b \in CasAtoms, t \in DeferredTypes: a # b /\ AddDeferred(a, t, b)
    \/ RetainDeferred
    \/ CasWrite \/ CasWriteFails \/ CasCrash \/ CasClose \/ CasCompact \/ CasReopen

-----------------------------------------------------------------------------
\* An atom that store_atom acknowledged is read back, whatever failed or crashed
\* since, through rotation, compaction and reopening (append_record, flush,
\* find_record, compact_segments, delete_segments).  Atoms appended after an
\* append that failed part of the way in the same process are excepted: their
\* index entries hold offsets that are not theirs.
AcknowledgedReadable ==
    cphase \in {"open", "store", "defer"} =>
        \A a \in acked \ strayed: read(cas, cfiles, a) = "body"
=============================================================================
