------------------------------ MODULE StoreFiles ------------------------------
(***************************************************************************)
(* The files under the components of a store (the CAS, the graph, the      *)
(* indexes, the metadata).  A file is [head, items]: a header that is      *)
(* there (<<h>>) or not (<<>>), and the records after it.  The code writes *)
(* files in five ways, and each has its own outcome when the process dies  *)
(* in the middle of it.                                                    *)
(***************************************************************************)
EXTENDS Naturals, Sequences, SequencesExt, Functions, FiniteSets, Ordering

\* File names: a kind and a number (a segment, a delta, an edge type, or 0).
Name(kind, n) == [kind |-> kind, n |-> n]
File(head, items) == [head |-> <<head>>, items |-> items]
EmptyFile == [head |-> <<>>, items |-> <<>>]

\* put: created or truncated, then written and synced in place.
\* swap: written and synced under a temporary name, then renamed.
\* add: appended and synced.    del: removed.    move: renamed.
Put(file, c) == [op |-> "put", file |-> file, with |-> c]
Swap(file, c) == [op |-> "swap", file |-> file, with |-> c]
Add(file, items) == [op |-> "add", file |-> file, with |-> [EmptyFile EXCEPT !.items = items]]
Del(file) == [op |-> "del", file |-> file, with |-> EmptyFile]
Move(from, to) == [op |-> "move", file |-> to, from |-> from]

NoDisk == [f \in {} |-> EmptyFile]
Has(disk, f) == f \in DOMAIN disk
On(disk, f) == IF Has(disk, f) THEN disk[f] ELSE EmptyFile
With(disk, f, c) == [g \in DOMAIN disk \union {f} |-> IF g = f THEN c ELSE disk[g]]
Without(disk, f) == Restrict(disk, DOMAIN disk \ {f})

\* The disk after a write that succeeded.
Done(disk, w) ==
    CASE w.op \in {"put", "swap"} -> With(disk, w.file, w.with)
      [] w.op = "add" -> With(disk, w.file, [On(disk, w.file) EXCEPT !.items = @ \o w.with.items])
      [] w.op = "del" -> Without(disk, w.file)
      [] w.op = "move" -> With(Without(disk, w.from), w.file, disk[w.from])

\* The last record of an interrupted append: some of its bytes.
TornItem == [torn |-> TRUE]
Cut(s) == {SubSeq(s, 1, k) : k \in 0..Len(s) - 1}
\* A file of which only a part was written.
Partial(c) == {EmptyFile} \union (IF c.head = <<>> THEN {} ELSE {[c EXCEPT !.items = s] : s \in Cut(c.items)})

\* The disks that a crash during the write may leave.
Interrupted(disk, w) ==
    CASE w.op = "put" -> {With(disk, w.file, c) : c \in Partial(w.with)}
      [] w.op = "add" /\ w.with.items # <<>> ->
            {With(disk, w.file, [On(disk, w.file) EXCEPT !.items = @ \o s]) :
                s \in {<<TornItem>>} \union Cut(w.with.items)}
      [] OTHER -> {disk}

\* What a write that was given up, or a crash at it, may have done.
Outcomes(disk, w) == {disk, Done(disk, w)} \union Interrupted(disk, w)

\* All of a sequence of writes.
DoneAll(disk, ws) == FoldLeft(Done, disk, ws)
=============================================================================
