------------------------------- MODULE CasFiles -------------------------------
(***************************************************************************)
(* The content-addressed store on disk (src/cas/io.rs): append-only        *)
(* segments of records, an index and a Bloom filter per segment, a writer  *)
(* on the latest segment, a reader over all of them, the compactor, and    *)
(* the edges that wait for their target (src/cas/edges.rs).  An atom's     *)
(* body is a function of its id, so a record is its id and its flags, and  *)
(* an offset is the position of a record in its segment.                   *)
(***************************************************************************)
EXTENDS StoreFiles

CONSTANTS
    SegCap,      \* records that fit a segment
    IndexWidth   \* values of the index's entry counter (2^16)

SegFile(n) == Name("seg", n)
IdxFile(n) == Name("idx", n)
SegIds(disk) == {f.n : f \in {g \in DOMAIN disk: g.kind = "seg"}}

RecordHeader(id, flags) == [torn |-> FALSE, id |-> id, deleted |-> flags]

\* The offset that is recorded when the file is ahead of the size in memory:
\* it points into the middle of something.
Misplaced == 0

\* SegmentFile::read_record: in bounds, with both checksums right.
Reads(disk, seg, off) ==
    /\ Has(disk, SegFile(seg)) /\ off \in DOMAIN On(disk, SegFile(seg)).items
    /\ ~On(disk, SegFile(seg)).items[off].torn
read_record(disk, seg, off) == On(disk, SegFile(seg)).items[off]

-----------------------------------------------------------------------------
(* The Bloom filter and the index of a segment.                             *)

BLOOM_BITS_PER_ENTRY == 10
BloomWord == 64
BloomNew(expected) == [bits |-> {}, num |-> expected * BLOOM_BITS_PER_ENTRY]
\* The hash words of an id (seven in the code; ids are hashes themselves).
hash_positions(id, num) == {(id * 7919 + k * 104729) % num : k \in 1..3}
bloom_insert(b, id) == [b EXCEPT !.bits = @ \union hash_positions(id, b.num)]
might_contain(b, id) == hash_positions(id, b.num) \subseteq b.bits
\* to_bytes writes whole words; from_bytes is given the number of bits.
bloom_from_bytes(b, num) == [bits |-> b.bits, num |-> num]
WrittenBits(b) == ((b.num + BloomWord - 1) \div BloomWord) * BloomWord

IndexEntry(id, off) == [fp64 |-> id, off |-> off]
IndexCreate == [entries |-> <<>>, bloom |-> BloomNew(1024), dirty |-> FALSE]

index_insert(x, id, off) ==
    [entries |-> Append(x.entries, IndexEntry(id, off)), bloom |-> bloom_insert(x.bloom, id),
     dirty |-> TRUE]

\* flush: nothing when clean; the counter has 16 bits.
index_flush(x, seg) ==
    IF ~x.dirty THEN <<>>
    ELSE <<Put(IdxFile(seg), File([count |-> Len(x.entries) % IndexWidth],
                                  [k \in DOMAIN x.entries |-> [entry |-> x.entries[k]]]
                                  \o <<[bloom |-> x.bloom]>>))>>
IndexClean(x) == [x EXCEPT !.dirty = FALSE]

SortByFp(es) ==
    LET before(i) == Cardinality({j \in DOMAIN es: es[j].fp64 < es[i].fp64
                                                   \/ (es[j].fp64 = es[i].fp64 /\ j < i)})
    IN  [k \in DOMAIN es |-> es[CHOOSE i \in DOMAIN es: before(i) = k - 1]]

\* load_from_file: the entries the header counts, then the filter, whose
\* modulus is taken from the bits that were written.
IndexReads(disk, seg) ==
    LET c == On(disk, IdxFile(seg))
    IN  Has(disk, IdxFile(seg)) =>
            /\ c.head # <<>> /\ Len(c.items) > c.head[1].count
            /\ "bloom" \in DOMAIN c.items[c.head[1].count + 1]
\* Mutant: the modulus of the filter is taken from the number of entries.
LoadByCount(disk, seg) ==
    LET c == On(disk, IdxFile(seg))
        n == c.head[1].count
    IN  [entries |-> SortByFp([k \in 1..n |-> c.items[k].entry]),
         bloom |-> bloom_from_bytes(c.items[n + 1].bloom, Max({1, n}) * BLOOM_BITS_PER_ENTRY), dirty |-> FALSE]
load_from_file(disk, seg) ==
    LET c == On(disk, IdxFile(seg))
        n == c.head[1].count
        b == c.items[n + 1].bloom
    IN  [entries |-> SortByFp([k \in 1..n |-> c.items[k].entry]),
         bloom |-> bloom_from_bytes(b, WrittenBits(b)), dirty |-> FALSE]
IndexOpen(disk, seg) ==
    IF Has(disk, IdxFile(seg)) THEN load_from_file(disk, seg) ELSE IndexCreate

\* find: the filter, then a binary search by fingerprint.
find(x, id) ==
    LET es == x.entries
        search[l \in 0..Len(es), r \in 0..Len(es)] ==
            IF l >= r THEN <<>>
            ELSE LET mid == l + (r - l) \div 2
                 IN  CASE es[mid + 1].fp64 < id -> search[mid + 1, r]
                       [] es[mid + 1].fp64 > id -> search[l, mid]
                       [] OTHER -> <<es[mid + 1]>>
    IN  IF might_contain(x.bloom, id) THEN search[0, Len(es)] ELSE <<>>

-----------------------------------------------------------------------------
(* Writer, reader and the store over them.                                  *)

\* find_latest_segment
LatestSegment(disk) == IF SegIds(disk) = {} THEN 0 ELSE Max(SegIds(disk))

\* The writer: the active segment, the size it believes the file has, whether
\* the file got ahead of that, the active index and the next segment id.
CasWriter(disk) ==
    LET seg == LatestSegment(disk)
    IN  [seg |-> seg, size |-> Len(On(disk, SegFile(seg)).items), ahead |-> FALSE,
         index |-> IndexOpen(disk, seg), next |-> seg + 1]
\* The reader: the indexes as they were when it was opened.
CasReader(disk) == [s \in SegIds(disk) |-> IndexOpen(disk, s)]

DeferredFile == Name("extract_deferred", 0)
DeferredOpen(disk) ==
    IF Has(disk, DeferredFile)
    THEN [edges |-> On(disk, DeferredFile).items, cycle |-> On(disk, DeferredFile).head[1].cycle,
          dirty |-> FALSE]
    ELSE [edges |-> <<>>, cycle |-> 0, dirty |-> FALSE]

\* open, init_writer (which makes the segment) and init_reader.  An index that
\* was cut short refuses the store.
CasCreated(disk) == Done(disk, Add(SegFile(LatestSegment(disk)), <<>>))
CasOpens(disk) == \A s \in SegIds(disk) \union {LatestSegment(disk)}: IndexReads(disk, s)
CasOpen(disk) ==
    [writer |-> CasWriter(disk), reader |-> CasReader(CasCreated(disk)), cache |-> {},
     deferred |-> DeferredOpen(disk)]

\* A step of an operation: a write, and the memory once it succeeded.
Step(write, mem) == [write |-> write, mem |-> mem]
can_accept(w) == w.size + 1 <= SegCap

\* rotate_segment: the index of the old segment first.
rotate_segment(cas) ==
    LET w == cas.writer
        clean == [cas EXCEPT !.writer.index = IndexClean(@)]
        fresh == [cas EXCEPT !.writer = [seg |-> w.next, size |-> 0, ahead |-> FALSE,
                                         index |-> IndexCreate, next |-> w.next + 1]]
    IN  [k \in DOMAIN index_flush(w.index, w.seg) |-> Step(index_flush(w.index, w.seg)[k], clean)]
        \o <<Step(Add(SegFile(w.next), <<>>), fresh)>>

\* append_record and the index: the offset is the size in memory, which is not
\* where the record went if an earlier append failed part of the way.
Appended(cas, id) ==
    LET w == cas.writer
        off == IF w.ahead THEN Misplaced ELSE w.size + 1
    IN  [cas EXCEPT !.writer.size = @ + 1, !.writer.index = index_insert(@, id, off)]
\* What a failed write leaves: the next segment's id is spent although the
\* segment is not the active one; an append has moved the file position.
WriteFailed(cas, w, moved) ==
    [cas EXCEPT !.writer.next = IF w.op = "add" /\ w.file # SegFile(cas.writer.seg) THEN @ + 1 ELSE @,
                !.writer.ahead = @ \/ (moved /\ w.op = "add" /\ w.file = SegFile(cas.writer.seg))]

After(steps, cas) == IF steps = <<>> THEN cas ELSE steps[Len(steps)].mem

\* CasStore::write and flush, as the store calls them for one atom: the cache
\* has the body before anything is written.
write(cas0, id) ==
    LET cas == [cas0 EXCEPT !.cache = @ \union {id}]
        rotated == IF can_accept(cas.writer) THEN <<>> ELSE rotate_segment(cas)
        at == After(rotated, cas)
    IN  rotated \o <<Step(Add(SegFile(at.writer.seg), <<RecordHeader(id, FALSE)>>), Appended(at, id))>>
flush(cas) ==
    LET ws == index_flush(cas.writer.index, cas.writer.seg)
    IN  [k \in DOMAIN ws |-> Step(ws[k], [cas EXCEPT !.writer.index = IndexClean(@)])]

\* CasReader::find_record: the segments in order, an unreadable record is an
\* error, and a record of another atom is passed over.
find_record(cas, disk, id) ==
    LET hits == {s \in DOMAIN cas.reader: find(cas.reader[s], id) # <<>>}
        off(s) == find(cas.reader[s], id)[1].off
        bad == {s \in hits: ~Reads(disk, s, off(s))}
        good == {s \in hits: s \notin bad /\ read_record(disk, s, off(s)).id = id}
    IN  IF good # {} /\ (bad = {} \/ Min(good) < Min(bad)) THEN "body"
        ELSE IF bad # {} THEN "error" ELSE "none"
read(cas, disk, id) == IF id \in cas.cache THEN "body" ELSE find_record(cas, disk, id)

list_all_atoms(cas, disk) ==
    UNION {{read_record(disk, s, e.off).id : e \in Range(cas.reader[s].entries)} :
             s \in DOMAIN cas.reader}

-----------------------------------------------------------------------------
(* Compaction.                                                              *)

\* The records of the sources that can be read, with where they are; those in
\* no index or unreadable are passed over.
Readable(disk, sources) ==
    {[id |-> read_record(disk, s, e.off).id, seg |-> s, off |-> e.off,
      deleted |-> read_record(disk, s, e.off).deleted] :
        <<s, e>> \in {p \in sources \X UNION {Range(IndexOpen(disk, t).entries) : t \in sources}:
                        p[2] \in Range(IndexOpen(disk, p[1]).entries) /\ Reads(disk, p[1], p[2].off)}}
Later(r, q) == r.seg > q.seg \/ (r.seg = q.seg /\ r.off > q.off)
\* Of each atom the last record by source and offset, in that order.
Survivors(rs) ==
    Ordered({r \in rs: \A q \in rs: q.id = r.id => ~Later(q, r)}, LAMBDA r, q: Later(q, r))

next_unused_target_seg_id(disk, seg) ==
    Min({n \in seg..seg + Cardinality(DOMAIN disk): ~Has(disk, SegFile(n)) /\ ~Has(disk, IdxFile(n))})

\* compact_segments: targets are filled one after the other, each with its index.
TargetWrites(disk, records, target) ==
    LET from(k) == (k - 1) * SegCap + 1
        part(k) == SubSeq(records, from(k), Min({k * SegCap, Len(records)}))
        ids[k \in 1..Len(records) + 1] ==
            next_unused_target_seg_id(disk, IF k = 1 THEN target ELSE ids[k - 1] + 1)
        index(k) == FoldLeft(LAMBDA x, i: index_insert(x, part(k)[i].id, i), IndexCreate,
                             [i \in DOMAIN part(k) |-> i])
        appends(k) == [i \in DOMAIN part(k) |->
                         Add(SegFile(ids[k]), <<RecordHeader(part(k)[i].id, part(k)[i].deleted)>>)]
        parts == Max({1, (Len(records) + SegCap - 1) \div SegCap})
    IN  FlattenSeq([k \in 1..parts |->
            <<Add(SegFile(ids[k]), <<>>)>> \o appends(k) \o index_flush(index(k), ids[k])])
compact_segments(disk, sources, target) ==
    TargetWrites(disk, Survivors(Readable(disk, sources)), target)

\* compact_with_supersedes leaves out what was superseded or deleted.  The last
\* record met stands for an atom, and records are ordered by offset alone.
compact_with_supersedes(disk, sources, target, superseded) ==
    LET kept == {r \in Readable(disk, sources): r.id \notin superseded /\ ~r.deleted}
        last == {r \in kept: \A q \in kept: q.id = r.id => ~Later(q, r)}
    IN  TargetWrites(disk, Ordered(last, LAMBDA r, q: r.off < q.off \/ (r.off = q.off /\ r.seg < q.seg)),
                     target)

\* delete_segments: a segment before its index.
delete_segments(disk, sources) ==
    SelectSeq(FlattenSeq([k \in 1..Cardinality(sources) |->
                 LET s == Ordered(sources, <)[k] IN <<Del(SegFile(s)), Del(IdxFile(s))>>]),
              LAMBDA w: Has(disk, w.file))

\* The command: more than one segment, into the one after the last; the sources
\* go if a record was written.
cmd_compact(disk) ==
    LET sources == SegIds(disk)
    IN  compact_segments(disk, sources, Max(sources) + 1)
        \o (IF Readable(disk, sources) = {} THEN <<>> ELSE delete_segments(disk, sources))

-----------------------------------------------------------------------------
(* Edges that wait for their target.                                        *)

DeferredEdge(target, type, source, cycle) ==
    [target |-> target, type |-> type, source |-> source, cycle |-> cycle]
add_deferred(d, target, type, source) ==
    [d EXCEPT !.edges = Append(@, DeferredEdge(target, type, source, d.cycle)), !.dirty = TRUE]
\* The edges of a target that came to exist, and the store without them.
try_resolve(d, target) ==
    LET mine(e) == e.target = target
        rest == SelectSeq(d.edges, LAMBDA e: ~mine(e))
    IN  [resolved |-> SelectSeq(d.edges, mine),
         store |-> [d EXCEPT !.edges = rest, !.dirty = @ \/ Len(rest) < Len(d.edges)]]
advance_cycle(d) == [d EXCEPT !.cycle = @ + 1, !.dirty = TRUE]
apply_retention(d, max) ==
    LET kept == SelectSeq(d.edges, LAMBDA e: e.cycle > d.cycle \/ d.cycle - e.cycle <= max)
    IN  [d EXCEPT !.edges = kept, !.dirty = @ \/ Len(kept) < Len(d.edges)]
DeferredSave(d, disk) ==
    IF ~d.dirty /\ Has(disk, DeferredFile) THEN <<>>
    ELSE <<Swap(DeferredFile, File([cycle |-> d.cycle], d.edges))>>
=============================================================================
