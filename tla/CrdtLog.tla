------------------------------- MODULE CrdtLog -------------------------------
(***************************************************************************)
(* The CRDT write-ahead log, its snapshots and its compaction (crdt/wal.rs,*)
(* crdt/snapshot.rs, CompactionScheduler in crdt/mod.rs), driven the way   *)
(* the module's documentation says: a process appends a field's state      *)
(* after each update, syncs the file from time to time, compacts it into a *)
(* snapshot and cuts the log, and after a crash recovers the log's tail.   *)
(* A crash keeps what was synced and any part of what was not, the last    *)
(* record perhaps torn.                                                    *)
(***************************************************************************)
EXTENDS CrdtTypes

CONSTANTS LogKinds,     \* kinds of the logged field
          Node,         \* node numbers that carry the field
          Writer,       \* the process's actor
          MaxWalFiles, ThresholdPct,    \* CompactionConfig
          MaxUpdates, MaxCrashes        \* bounds of the instance

\* The stamps of the updates must not wrap.
ASSUME LogAssumption ==
    /\ LogKinds \subseteq {"GCOUNTER", "PNCOUNTER", "LWW_REG", "ORSET"}
    /\ Node \subseteq Nat /\ IsFiniteSet(Node)
    /\ Writer \in Actor
    /\ MaxUpdates \in Nat /\ LogicRange + MaxUpdates < PhysRange * LogicRange

VARIABLES lkind,    \* kind of the logged field
          file,     \* the log's records
          synced,   \* how many of its records a crash keeps
          snap,     \* the snapshot's index, and the updates in it
          pending,  \* a snapshot written and not yet followed by the truncation
          mem,      \* the MetaStore in memory, or Down
          held,     \* the updates the store in memory was built from
          done,     \* the updates performed, in order
          durable,  \* the updates a sync or a snapshot has made durable
          crashes

lvars == <<lkind, file, synced, snap, pending, mem, held, done, durable, crashes>>

Down == <<>>
Fresh == [n \in Node |-> New(lkind)]

LInit ==
    /\ lkind \in LogKinds
    /\ file = <<>> /\ synced = 0
    /\ snap = [index |-> <<>>, ops |-> {}] /\ pending = FALSE
    /\ mem = <<Fresh>> /\ held = {}
    /\ done = <<>> /\ durable = {} /\ crashes = 0

-----------------------------------------------------------------------------
(* Records.                                                                *)

\* RecordHeader::new and WalRecord::serialize: header, key, payload with its
\* CRC, padding.  "part" says how much of it the file holds.
Record(op, state, ops) ==
    [part |-> "whole", node |-> op.node, hlc |-> op.hlc,
     payload |-> ToBytes(lkind, state), ops |-> ops]

Parts == {"short",      \* fewer bytes than a header
          "header",     \* a header, and not all of the key, payload and padding
          "mixed"}      \* the length of a record, and bytes that fail its CRC

\* RecordHeader::from_bytes and is_valid: enough bytes, and the right magic,
\* version and kinds.
HeaderReads(i) == file[i].part # "short"
BodyReads(i) == file[i].part \in {"whole", "mixed"}
validate_crc(i) == file[i].part = "whole"

\* WalReader::next_record at record i.  A rest shorter than a header ends
\* the iteration only where the file ends.
next_record(i) ==
    IF i > Len(file) \/ (i = Len(file) /\ ~HeaderReads(i)) THEN "none"
    ELSE IF HeaderReads(i) /\ BodyReads(i) /\ validate_crc(i) THEN "record"
    ELSE "error"

\* WalIterator, scan: the outcome of reading from the start, record by record.
ScanEnd == Min({i \in 1..(Len(file) + 1) : next_record(i) # "record"})
ScanFails == next_record(ScanEnd) = "error"

MutRecoverTail == Len(file)

\* recover_wal_tail: the records before the first that does not read.
recover_wal_tail == ScanEnd - 1

\* validate_wal counts the records, or fails.
validate_wal == IF ScanFails THEN Down ELSE <<recover_wal_tail>>

\* compact_wal copies the records into a new file, or fails.
compact_wal == IF ScanFails THEN Down ELSE <<SubSeq(file, 1, recover_wal_tail)>>

-----------------------------------------------------------------------------
(* Snapshots.                                                              *)

serialize_gcounter(c) == {<<a, c[a]>> : a \in {b \in Actor : c[b] > 0}}
deserialize_gcounter(pairs) ==
    FoldSet(LAMBDA p, c : GInc(c, p[1], p[2]), Zero, pairs)

serialize_pncounter(s) == [p |-> GBytes(s.p), n |-> GBytes(s.n)]
deserialize_pncounter(b) == [p |-> deserialize_gcounter(b.p), n |-> deserialize_gcounter(b.n)]

serialize_lwwreg(reg) == [phys |-> physical_ns(reg.hlc), logical |-> logical(reg.hlc),
                          actor |-> reg.actor, value |-> reg.value]
deserialize_lwwreg(b) == [hlc |-> from_parts(b.phys, b.logical), actor |-> b.actor,
                          value |-> b.value]

\* Only elements with add dots are written, each with its tombstones.
serialize_orset(s) ==
    {[elem |-> e, add |-> s.elements[e], rem |-> s.tombstones[e]] :
        e \in {x \in Elem : s.elements[x] # {}}}

AddDot(s, d) == [s EXCEPT !.elements[d.elem] = @ \cup {d.dot},
                          !.counters[d.dot[1]] = Max({@, d.dot[2] + 1})]
RemoveDot(s, d) == [s EXCEPT !.tombstones[d.elem] = @ \cup {d.dot},
                             !.counters[d.dot[1]] = Max({@, d.dot[2] + 1})]
deserialize_orset(bytes) ==
    LET adds == UNION {{[elem |-> b.elem, dot |-> d] : d \in b.add} : b \in bytes}
        rems == UNION {{[elem |-> b.elem, dot |-> d] : d \in b.rem} : b \in bytes}
    IN FoldSet(LAMBDA d, s : RemoveDot(s, d),
               FoldSet(LAMBDA d, s : AddDot(s, d), NewSet, adds), rems)

\* FieldState::from_* and the field record's header with its kind.
FieldState(s) ==
    [crdt_kind |-> lkind,
     state |-> CASE lkind = "GCOUNTER"  -> serialize_gcounter(s)
                 [] lkind = "PNCOUNTER" -> serialize_pncounter(s)
                 [] lkind = "LWW_REG"   -> serialize_lwwreg(s)
                 [] lkind = "ORSET"     -> serialize_orset(s)]

FieldValue(f) ==
    CASE f.crdt_kind = "GCOUNTER"  -> deserialize_gcounter(f.state)
      [] f.crdt_kind = "PNCOUNTER" -> deserialize_pncounter(f.state)
      [] f.crdt_kind = "LWW_REG"   -> deserialize_lwwreg(f.state)
      [] f.crdt_kind = "ORSET"     -> deserialize_orset(f.state)

\* SnapshotBuilder: an index sorted by node number over the nodes' blocks.
NodeAt(i) == CHOOSE n \in Node : Cardinality({m \in Node : m < n}) = i - 1
Build(store) ==
    [i \in 1..Cardinality(Node) |->
       [node_num |-> NodeAt(i), block |-> FieldState(store[NodeAt(i)])]]

\* SnapshotReader::from_bytes refuses an index out of order.
IndexSorted(index) == \A i \in 2..Len(index) : index[i - 1].node_num <= index[i].node_num

\* SnapshotReader::get_node; a node without an entry has no fields.
get_node(index, n) ==
    IF \E i \in DOMAIN index : index[i].node_num = n
    THEN FieldValue(index[CHOOSE i \in DOMAIN index : index[i].node_num = n].block)
    ELSE New(lkind)

-----------------------------------------------------------------------------
(* Appending, syncing, compacting.                                         *)

AppendRecord == /\ mem # Down /\ ~pending /\ Len(done) < MaxUpdates
         /\ \E name \in Operations(lkind), e \in Elem, n \in Node :
              LET id == Len(done) + 1
                  op == [id |-> id, name |-> name, actor |-> Writer, elem |-> e,
                         hlc |-> from_parts(1, id), seen |-> held, node |-> n]
                  next == Perform(lkind, mem[1][n], op)
              IN /\ mem' = <<[mem[1] EXCEPT ![n] = next]>>
                 /\ held' = held \cup {id}
                 /\ done' = Append(done, op)
                 /\ file' = Append(file, Record(op, next, held'))
         /\ UNCHANGED <<lkind, synced, snap, pending, durable, crashes>>

\* WalWriter::sync: flush and fsync.
SyncLog == /\ mem # Down /\ synced < Len(file)
           /\ synced' = Len(file)
           /\ durable' = durable \cup UNION {file[i].ops : i \in 1..Len(file)}
           /\ UNCHANGED <<lkind, file, snap, pending, mem, held, done, crashes>>

\* should_compact on one log file and the snapshot's size, counted in fields.
should_compact ==
    LET files == IF file = <<>> THEN 0 ELSE 1
        size == Len(snap.index)
    IN \/ files > MaxWalFiles
       \/ size > 0 /\ Len(file) > (size * ThresholdPct) \div 100
       \/ size = 0 /\ files > 0

\* sort_by_key: records of one time stay in their order.
ByHlc(records) ==
    LET n == Len(records)
        before(i, j) == \/ records[i].hlc < records[j].hlc
                        \/ records[i].hlc = records[j].hlc /\ i < j
        order == CHOOSE p \in [1..n -> 1..n] : \A i, j \in 1..n : i < j => before(p[i], p[j])
    IN [i \in 1..n |-> records[order[i]]]

\* CompactionScheduler::compact: the records by HLC, each joined into the
\* snapshot's store.
compact(records) ==
    FoldLeft(LAMBDA store, r : [store EXCEPT ![r.node] =
                 Join(lkind, @, deserialize_payload(lkind, r.payload))],
             [n \in Node |-> get_node(snap.index, n)], ByHlc(records))

\* The snapshot is written (and made durable) before the log is cut, so a
\* crash between the two finds both.
WriteSnapshot ==
    /\ mem # Down /\ ~pending /\ should_compact
    /\ snap' = [index |-> Build(compact(file)),
                ops |-> snap.ops \cup UNION {file[i].ops : i \in 1..Len(file)}]
    /\ durable' = durable \cup snap'.ops
    /\ pending' = TRUE
    /\ UNCHANGED <<lkind, file, synced, mem, held, done, crashes>>

\* WalWriter::truncate(0).
CutLog ==
    /\ mem # Down /\ pending
    /\ file' = <<>> /\ synced' = 0 /\ pending' = FALSE
    /\ UNCHANGED <<lkind, snap, mem, held, done, durable, crashes>>

\* A crash keeps the synced records, and of the others a prefix that may
\* end in a torn record.
CrashLog ==
    /\ mem # Down /\ crashes < MaxCrashes
    /\ \E kept \in synced..Len(file) :
         /\ \/ file' = SubSeq(file, 1, kept)
            \/ /\ kept < Len(file)
               /\ \E part \in Parts :
                    file' = Append(SubSeq(file, 1, kept), [file[kept + 1] EXCEPT !.part = part])
         /\ synced' = Len(file')
    /\ mem' = Down /\ held' = {} /\ pending' = FALSE
    /\ crashes' = crashes + 1
    /\ UNCHANGED <<lkind, snap, done, durable>>

\* Reopening: recover_wal_tail, truncate to it, and compact what is left.
Recover ==
    /\ mem = Down
    /\ file' = SubSeq(file, 1, recover_wal_tail) /\ synced' = recover_wal_tail
    /\ mem' = <<compact(file')>>
    /\ held' = snap.ops \cup UNION {file'[i].ops : i \in 1..Len(file')}
    /\ UNCHANGED <<lkind, snap, pending, done, durable, crashes>>

LNext == AppendRecord \/ SyncLog \/ WriteSnapshot \/ CutLog \/ CrashLog \/ Recover

LSpec == LInit /\ [][LNext]_lvars

-----------------------------------------------------------------------------
(* What a read of node n must return from the updates held.                *)

HeldAt(n, name) == {i \in held : done[i].node = n /\ done[i].name = name}

ReadsBack(n) ==
    LET s == mem[1][n] IN
    CASE lkind = "GCOUNTER"  -> GValue(s) = Cardinality(HeldAt(n, "inc"))
      [] lkind = "PNCOUNTER" -> PNValue(s) = Cardinality(HeldAt(n, "inc"))
                                               - Cardinality(HeldAt(n, "dec"))
      [] lkind = "LWW_REG"   -> s.value = Max({NoValue} \cup HeldAt(n, "update"))
      [] lkind = "ORSET"     ->
           OrElements(s) = {done[a].elem : a \in {b \in HeldAt(n, "add") :
             \A r \in HeldAt(n, "remove") : done[r].elem = done[b].elem => b \notin done[r].seen}}

(* A process that is up holds every update a sync or a snapshot made       *)
(* durable, its reads agree with the updates it was built from, and its    *)
(* log is readable to the end: a torn tail is gone before the next append  *)
(* (recover_wal_tail, compact, the snapshot's codecs).                     *)
DurableUpdatesSurvive ==
    mem # Down =>
      /\ durable \subseteq held
      /\ (\A i \in DOMAIN done : done[i].name # "clear") => \A n \in Node : ReadsBack(n)
      /\ validate_wal = <<Len(file)>>
      /\ IndexSorted(snap.index)
=============================================================================
