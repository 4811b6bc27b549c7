----------------------------- MODULE SegmentTools -----------------------------
(***************************************************************************)
(* Whole-segment tools of src/cas/io.rs beside the store's own path: the   *)
(* record iterators, the SKFI segment index, the coalesced reader and the  *)
(* SegmentCompactor.  A segment is [size, limit, at]: at maps the offset   *)
(* of a record to [id, len, dead, harm].  An id is <<fp64, rest>>: its     *)
(* first eight bytes and the others.  dead is a deleted or tombstone flag; *)
(* harm is what storage did to the record: "none", "header" (the header's  *)
(* magic or checksum no longer match) or "body" (the body's checksum does  *)
(* not).  Sizes are the code's own, in bytes.                              *)
(***************************************************************************)
EXTENDS StoreFiles, FiniteSetsExt

RECORD_ALIGNMENT == 16
HeaderSize == 64
CrcSize == 4
BodyEstimate == 1024

calculate_padded_size(n) == ((n + RECORD_ALIGNMENT - 1) \div RECORD_ALIGNMENT) * RECORD_ALIGNMENT
calculate_record_size(len) == HeaderSize + calculate_padded_size(len) + calculate_padded_size(CrcSize)

\* A segment of no records, its limit, and one record more.  An append over
\* the limit is refused (SegmentFull).
EmptySegment(limit) == [size |-> 0, limit |-> limit, at |-> [o \in {} |-> 0]]
SegmentFull(seg, r) == seg.size + calculate_record_size(r.len) > seg.limit
append_record(seg, r) ==
    [seg EXCEPT !.size = @ + calculate_record_size(r.len),
                !.at = [o \in DOMAIN @ \union {seg.size} |-> IF o = seg.size THEN r ELSE @[o]]]
SegmentOf(rs) ==
    FoldLeft(append_record, EmptySegment(FoldLeft(LAMBDA n, r: n + calculate_record_size(r.len), 0, rs)), rs)

\* The segment when a crash left only its first bytes.
CutTo(seg, size) ==
    [seg EXCEPT !.size = size, !.at = [o \in {p \in DOMAIN @: p + HeaderSize <= size} |-> @[o]]]

\* read_record: the record, or the kind of its error.  Bytes that do not start
\* a record fail the header's checks, as a damaged header does; those errors
\* come wrapped (CasIoError::Cas), and so do not count as corruption below.
read_record(seg, o) ==
    IF o + HeaderSize > seg.size THEN "InvalidBounds"
    ELSE IF o \notin DOMAIN seg.at THEN "Cas"
    ELSE IF seg.at[o].harm = "header" THEN "Cas"
    ELSE IF o + HeaderSize + calculate_padded_size(seg.at[o].len) + CrcSize > seg.size THEN "InvalidBounds"
    ELSE IF seg.at[o].harm = "body" THEN "CrcMismatch"
    ELSE "Ok"

-----------------------------------------------------------------------------
(* The iterators.                                                           *)

Corruption == {"CorruptedRecord", "CrcMismatch", "InvalidMagic"}
ErrItem == <<>>

\* CasIterator: at an offset that reads no record it moves on by the size of
\* a header; the error is an item, unless it is one of corruption.
CasIterator(seg) ==
    LET from[left \in 0..seg.size] ==
            LET o == seg.size - left
                got == read_record(seg, o)
                step == IF got = "Ok" THEN calculate_record_size(seg.at[o].len) ELSE HeaderSize
                item == IF got = "Ok" THEN << <<seg.at[o]>> >>
                        ELSE IF got \in Corruption THEN <<>> ELSE <<ErrItem>>
            IN  IF left = 0 THEN <<>> ELSE item \o (IF step >= left THEN <<>> ELSE from[left - step])
    IN  from[seg.size]

\* What the users of an iterator keep of it: they pass over an error.
Records(items) == FlattenSeq(items)

\* GlobalCasIterator: the segments by their ids.  It asks only the next
\* segment for a record when one is exhausted, so an empty one ends it.
GlobalCasIterator(segs) ==
    LET empty == {k \in 2..Len(segs): CasIterator(segs[k]) = <<>>}
        upto == IF empty = {} THEN Len(segs) ELSE Min(empty)
    IN  FlattenSeq([k \in 1..upto |-> CasIterator(segs[k])])

\* Only good records, in their order, and all of those before the first that
\* is damaged or cut off: a step of a header need not meet the start of a
\* record again.  The iterator is silent on a body it passes over, and only
\* on that.
IteratorSound(rs, lost) ==
    LET whole == SegmentOf(rs)
        seg == CutTo(whole, whole.size - lost)
        items == CasIterator(seg)
        starts == Ordered(DOMAIN whole.at, <)
        kept(k) == read_record(seg, starts[k]) = "Ok"
        damaged == {k \in DOMAIN rs: ~kept(k)}
        intact == IF damaged = {} THEN rs ELSE SubSeq(rs, 1, Min(damaged) - 1)
    IN  /\ IsPrefix(intact, Records(items))
        /\ \E ks \in SUBSET {k \in DOMAIN rs: kept(k)}:
              Records(items) = LET order == Ordered(ks, <) IN [i \in DOMAIN order |-> rs[order[i]]]
        /\ (\E k \in DOMAIN rs: rs[k].harm = "header" /\ starts[k] + HeaderSize <= seg.size
                             /\ \A j \in 1..k - 1: kept(j)) => ErrItem \in Range(items)

\* Over all segments, the records of each in turn up to the first segment that
\* has nothing to give, the first of all not counted.
GlobalSound(runs) ==
    LET all == GlobalCasIterator([k \in DOMAIN runs |-> SegmentOf(runs[k])])
    IN  /\ IsPrefix(Records(all), FlattenSeq(runs))
        /\ (\A k \in 2..Len(runs): runs[k] # <<>>) => Records(all) = FlattenSeq(runs)

-----------------------------------------------------------------------------
(* The segment index (SKFI): entries [fp64, off, len, node].                *)

fp64(id) == id[1]
SegmentIndexEntry(id, off, len, node) == [fp64 |-> fp64(id), off |-> off, len |-> len, node |-> node]
seg_find(es, fp) ==
    LET hits == {k \in DOMAIN es: es[k].fp64 = fp} IN IF hits = {} THEN <<>> ELSE <<es[Min(hits)]>>
find_by_atom_id(es, id) == seg_find(es, fp64(id))
seg_sort(es) ==
    LET ks == Ordered(DOMAIN es, LAMBDA j, k: es[j].fp64 < es[k].fp64 \/ (es[j].fp64 = es[k].fp64 /\ j < k))
    IN  [i \in DOMAIN es |-> es[ks[i]]]
\* find_sorted: what a binary search may return; where it halves, and so which
\* of two equal entries it meets, is the library's.
seg_find_sorted(es, fp) ==
    LET probe[r \in (1..Len(es) + 1) \X (1..Len(es) + 1)] ==
            IF r[1] >= r[2] THEN {<<>>}
            ELSE UNION {IF es[mid].fp64 = fp THEN {<<es[mid]>>}
                        ELSE IF es[mid].fp64 < fp THEN probe[<<mid + 1, r[2]>>] ELSE probe[<<r[1], mid>>]
                        : mid \in r[1]..r[2] - 1}
    IN  probe[<<1, Len(es) + 1>>]

\* The length of a filter (always 0 now; earlier writers kept one) follows the
\* entries, and then its bytes, which are read and dropped.
SKFI == [magic |-> "SKFI", version |-> 1]
SegmentIndexFile(es, filter) ==
    File([magic |-> SKFI.magic, version |-> SKFI.version, count |-> Len(es)],
         es \o <<[bloom |-> filter]>> \o [k \in 1..filter |-> [bits |-> k]])
seg_write_to_file(es) == SegmentIndexFile(es, 0)
SegReads(f) ==
    /\ f.head # <<>> /\ f.head[1].magic = SKFI.magic /\ f.head[1].version = SKFI.version
    /\ LET n == f.head[1].count
       IN  Len(f.items) > n /\ Len(f.items) - (n + 1) >= f.items[n + 1].bloom
seg_read_from_file(f) == SubSeq(f.items, 1, f.head[1].count)

\* A lookup finds an entry of the fingerprint exactly when one was added,
\* sorted or not, read again (from an earlier writer too) or not; a file of
\* another magic or version, or one that is cut off, is refused.
SegmentIndexExact(es, ids) ==
    /\ \A filter \in 0..2: LET f == SegmentIndexFile(es, filter)
                           IN  SegReads(f) /\ seg_read_from_file(f) = es
    /\ LET f == seg_write_to_file(es)
       IN  \A bad \in Partial(f) \union {[f EXCEPT !.head[1].version = 2], [f EXCEPT !.head[1].magic = "SKFC"]}:
              ~SegReads(bad)
    /\ \A id \in ids:
        LET wanted == {e \in Range(es): e.fp64 = fp64(id)}
        IN  \A found \in {find_by_atom_id(es, id)} \union seg_find_sorted(seg_sort(es), fp64(id)):
                IF wanted = {} THEN found = <<>> ELSE Len(found) = 1 /\ found[1] \in wanted

-----------------------------------------------------------------------------
(* The coalesced reader.                                                    *)

\* merge_offsets: sorted, a range ends where the next offset is further than
\* the gap, and reaches a header and an estimated body past its last offset.
merge_offsets(offsets, gap) ==
    LET sorted == SortSeq(offsets, <)
        range(os) == [start |-> os[1], end |-> os[Len(os)] + HeaderSize + BodyEstimate, offsets |-> os]
        add(groups, o) ==
            IF groups # <<>> /\ o - Last(Last(groups)) <= gap
            THEN Front(groups) \o <<Append(Last(groups), o)>> ELSE Append(groups, <<o>>)
        groups == FoldLeft(add, <<>>, sorted)
    IN  [k \in DOMAIN groups |-> range(groups[k])]

\* extract_record_at_offset: refused when the data ends before the header or
\* the body, and when the header's checks fail; the body is not verified.
extract_record_at_offset(seg, end, off) ==
    IF off + HeaderSize > end \/ off \notin DOMAIN seg.at THEN <<>>
    ELSE IF seg.at[off].harm = "header" \/ off + HeaderSize + seg.at[off].len > end THEN <<>>
    ELSE <<seg.at[off]>>

\* read_batch: every range is read from the first segment that is long enough
\* to hold its start; a range that none holds is left out.  One record that
\* is refused refuses the batch.
read_batch(segs, offsets, gap) ==
    LET ranges == merge_offsets(offsets, gap)
        holders(r) == {k \in DOMAIN segs: r.start < segs[k].size}
        data(r) == segs[Min(holders(r))]
        got(r, o) == extract_record_at_offset(data(r), Min({r.end, data(r).size}), o)
        held == SelectSeq(ranges, LAMBDA r: holders(r) # {})
        results == FlattenSeq([k \in DOMAIN held |->
                       [i \in DOMAIN held[k].offsets |->
                           [off |-> held[k].offsets[i], rec |-> got(held[k], held[k].offsets[i])]]])
        place(o) == Min({k \in DOMAIN offsets: offsets[k] = o})
    IN  IF \E x \in Range(results): x.rec = <<>> THEN [ok |-> FALSE, recs |-> <<>>]
        ELSE [ok |-> TRUE,
              recs |-> LET order == SortSeq(results, LAMBDA x, y: place(x.off) < place(y.off))
                       IN  [k \in DOMAIN order |-> order[k].rec[1]]]

\* Of one segment, distinct offsets in the order asked for, when every body is
\* within the estimate and no header is damaged; else those records or a
\* refusal, never another record.
BatchExact(rs, offsets, gap) ==
    LET seg == SegmentOf(rs)
        batch == read_batch(<<seg>>, offsets, gap)
        exact == [ok |-> TRUE, recs |-> [k \in DOMAIN offsets |-> seg.at[offsets[k]]]]
    IN  (Range(offsets) \subseteq DOMAIN seg.at /\ IsInjective(offsets)) =>
            IF \A r \in Range(rs): r.len <= BodyEstimate /\ r.harm # "header" THEN batch = exact
            ELSE batch = exact \/ ~batch.ok

-----------------------------------------------------------------------------
(* SegmentCompactor.                                                        *)

\* compact: the last segment first; within one the first record of an id that
\* is not deleted.  A full output ends the segment at hand, not the run, and
\* the record that did not fit counts as seen.  An output that is there
\* already is not truncated: the records follow it.
compact(segs, before, target_size) ==
    LET take(st, r) ==
            IF st.full \/ r.id \in st.seen \/ r.dead THEN st
            ELSE IF SegmentFull(st.out, r) THEN [st EXCEPT !.seen = @ \union {r.id}, !.full = TRUE]
            ELSE [st EXCEPT !.seen = @ \union {r.id}, !.out = append_record(@, r),
                            !.entries = Append(@, SegmentIndexEntry(r.id, st.out.size, r.len, Len(@) + 1))]
        segment(st, seg) == FoldLeft(take, [st EXCEPT !.full = FALSE], Records(CasIterator(seg)))
        start == [seen |-> {}, out |-> [before EXCEPT !.limit = target_size], entries |-> <<>>, full |-> FALSE]
        done == FoldLeft(segment, start, Reverse(segs))
    IN  IF segs = <<>> THEN [out |-> before, entries |-> <<>>]
        ELSE [out |-> done.out, entries |-> Reverse(done.entries)]

\* garbage_collect: the live records that are not deleted, written again.
garbage_collect(seg, live_ids) ==
    SegmentOf(SelectSeq(Records(CasIterator(seg)), LAMBDA r: r.id \in live_ids /\ ~r.dead))

\* Every entry leads to a record that was in a source, intact and not deleted,
\* one for each id; the output has no other beside what it had before; with
\* room for all, nothing damaged, and no segment with two records of an id, it
\* is the latest record of the id that is not deleted.  Collecting the ids of
\* the entries from the output keeps just their records.
CompactSound(runs, before, target_size) ==
    LET segs == [k \in DOMAIN runs |-> SegmentOf(runs[k])]
        old == SegmentOf(before)
        result == compact(segs, old, target_size)
        live(k) == {r \in Range(runs[k]): r.harm = "none" /\ ~r.dead}
        added == {result.out.at[o] : o \in DOMAIN result.out.at \ DOMAIN old.at}
        total == FoldFunction(+, old.size, [k \in DOMAIN segs |-> segs[k].size])
        latest(id) == LET ks == {k \in DOMAIN runs: \E r \in live(k): r.id = id}
                      IN  CHOOSE r \in live(Max(ks)): r.id = id
        once == \A k \in DOMAIN runs: \A r, q \in live(k): r.id = q.id => r = q
        intact == \A k \in DOMAIN runs: \A r \in Range(runs[k]): r.harm = "none"
    IN  /\ \A o \in DOMAIN old.at: result.out.at[o] = old.at[o]
        /\ \A e \in Range(result.entries):
            /\ e.off \in DOMAIN result.out.at \ DOMAIN old.at
            /\ fp64(result.out.at[e.off].id) = e.fp64 /\ result.out.at[e.off].len = e.len
        /\ \A r \in added: \E k \in DOMAIN runs: r \in live(k)
        /\ Len(result.entries) = Cardinality(DOMAIN result.out.at \ DOMAIN old.at)
        /\ Cardinality({r.id : r \in added}) = Len(result.entries)
        /\ (target_size >= total /\ once /\ intact) =>
            added = {latest(r.id) : r \in UNION {live(k) : k \in DOMAIN runs}}
        /\ (before = <<>>) =>
            Range(garbage_collect(result.out, {r.id : r \in added}).at) = added
=============================================================================
