------------------------------ MODULE CrdtTypes ------------------------------
(***************************************************************************)
(* The seven CRDT types of crdt/mod.rs as operators on values: what each   *)
(* update does, how two states join, and what the export codec             *)
(* (to_bytes, deserialize_payload) keeps of a state.  A state is a record  *)
(* with its kind; a map that lacks a key is a total function that gives    *)
(* the key the entry's default.                                            *)
(***************************************************************************)
EXTENDS Naturals, Integers, FiniteSets, FiniteSetsExt, Sieve

CONSTANTS Actor,        \* actor identities, ordered as their bytes are
          Elem,         \* element, key and value bytes
          LogicRange,   \* 2^16 logical counters of an HLC
          PhysRange     \* 2^48 physical times of an HLC

ASSUME CrdtAssumption ==
    /\ Actor \subseteq Nat \ {0} /\ IsFiniteSet(Actor)
    /\ LogicRange \in Nat \ {0} /\ PhysRange \in Nat \ {0}

NoActor == 0            \* ActorId::new([0; 16])
NoValue == 0            \* T::default()
Kinds == {"GCOUNTER", "PNCOUNTER", "LWW_REG", "ORSET", "ORMAP", "MVREG", "FLAGSET"}

-----------------------------------------------------------------------------
(* Hybrid logical clocks: one word, the physical time above the counter.   *)

physical_ns(h) == h \div LogicRange
logical(h) == h % LogicRange

\* The shift drops the physical bits that do not fit above the counter.
from_parts(phys, l) == (phys * LogicRange + l) % (PhysRange * LogicRange)

now(wall) == from_parts(wall % PhysRange, 0)

\* A later wall clock resets the counter; otherwise the counter steps (and
\* wraps) at the old physical time.
tick(h, wall) ==
    IF physical_ns(now(wall)) > physical_ns(h)
    THEN now(wall)
    ELSE from_parts(physical_ns(h), (logical(h) + 1) % LogicRange)

Later(h, a, g, b) == h > g \/ (h = g /\ a > b)

-----------------------------------------------------------------------------
(* Counters.                                                               *)

Zero == [a \in Actor |-> 0]
GInc(c, a, delta) == [c EXCEPT ![a] = @ + delta]
MutGMerge(c, d) == [a \in Actor |-> c[a] + d[a]]
GMerge(c, d) == [a \in Actor |-> Max({c[a], d[a]})]
\* The sum of the counts, as the number of pairs of an actor and one of the
\* increments it made.
GValue(c) == Cardinality(UNION {{a} \X (1..c[a]) : a \in Actor})
GBytes(c) == {<<a, c[a]>> : a \in {b \in Actor : c[b] > 0}}
GParse(pairs) == [a \in Actor |-> IF \E p \in pairs : p[1] = a
                                  THEN (CHOOSE p \in pairs : p[1] = a)[2] ELSE 0]

PNMerge(s, o) == [s EXCEPT !.p = GMerge(@, o.p), !.n = GMerge(@, o.n)]
PNValue(s) == GValue(s.p) - GValue(s.n)

-----------------------------------------------------------------------------
(* Last-writer-wins register.                                              *)

DefaultReg == [hlc |-> 0, actor |-> NoActor, value |-> NoValue]

\* update takes any timestamp that is not older, so the actor never decides.
LwwUpdate(reg, h, a, v) ==
    IF h >= reg.hlc THEN [hlc |-> h, actor |-> a, value |-> v] ELSE reg

LwwMerge(reg, o) == IF Later(o.hlc, o.actor, reg.hlc, reg.actor) THEN o ELSE reg

MutLwwBytes(reg) == [phys |-> reg.hlc, logical |-> logical(reg.hlc),
                     actor |-> reg.actor, value |-> reg.value]

\* CrdtState::to_bytes writes the physical time and the counter apart.
LwwBytes(reg) == [phys |-> physical_ns(reg.hlc), logical |-> logical(reg.hlc),
                  actor |-> reg.actor, value |-> reg.value]
LwwParse(b) == [hlc |-> from_parts(b.phys, b.logical), actor |-> b.actor, value |-> b.value]

-----------------------------------------------------------------------------
(* Observed-remove set.                                                    *)

Dots == Actor \X Nat
NoDots == [e \in Elem |-> {}]
NewSet == [elements |-> NoDots, tombstones |-> NoDots, counters |-> Zero]

WithDots(f, e, dots) == [f EXCEPT ![e] = @ \cup dots]
OrAdd(s, a, e) == [s EXCEPT !.elements = WithDots(@, e, {<<a, s.counters[a]>>}),
                            !.counters = GInc(@, a, 1)]
OrRemove(s, e) == [s EXCEPT !.tombstones = WithDots(@, e, s.elements[e])]
OrClear(s) == [s EXCEPT !.elements = NoDots, !.tombstones = NoDots]
OrContains(s, e) == s.elements[e] \ s.tombstones[e] # {}
OrElements(s) == {e \in Elem : OrContains(s, e)}

MutOrMerge(s, o) ==
    [elements   |-> [e \in Elem |-> s.elements[e] \cup o.elements[e]],
     tombstones |-> s.tombstones,
     counters   |-> GMerge(s.counters, o.counters)]
OrMerge(s, o) ==
    [elements   |-> [e \in Elem |-> s.elements[e] \cup o.elements[e]],
     tombstones |-> [e \in Elem |-> s.tombstones[e] \cup o.tombstones[e]],
     counters   |-> GMerge(s.counters, o.counters)]

OrKeys(s) == {e \in Elem : s.elements[e] \cup s.tombstones[e] # {}}
OrBytes(s) == {[elem |-> e, add |-> s.elements[e], rem |-> s.tombstones[e]] : e \in OrKeys(s)}

\* add_dot and remove_dot rebuild the counters from the dots that are left.
OrParse(bytes) ==
    LET Of(e) == {b \in bytes : b.elem = e}
        All == UNION {b.add \cup b.rem : b \in bytes}
    IN [elements   |-> [e \in Elem |-> UNION {b.add : b \in Of(e)}],
        tombstones |-> [e \in Elem |-> UNION {b.rem : b \in Of(e)}],
        counters   |-> [a \in Actor |->
                          Max({0} \cup {d[2] + 1 : d \in {x \in All : x[1] = a}})]]

-----------------------------------------------------------------------------
(* Observed-remove map: a register per key and a set of removed keys.      *)

NewMap == [entries |-> [k \in {} |-> DefaultReg], removed |-> {}]
Entry(m, k) == IF k \in DOMAIN m.entries THEN m.entries[k] ELSE DefaultReg
WithEntry(m, k, reg) ==
    [m EXCEPT !.entries = [j \in DOMAIN m.entries \cup {k} |->
                             IF j = k THEN reg ELSE m.entries[j]]]
MapPut(m, h, a, k, v) ==
    [WithEntry(m, k, LwwUpdate(Entry(m, k), h, a, v)) EXCEPT !.removed = @ \ {k}]
MapRemove(m, k) == [m EXCEPT !.removed = @ \cup {k}]
MapGet(m, k) == IF k \in m.removed \/ k \notin DOMAIN m.entries
                THEN NoValue ELSE m.entries[k].value

MutMapMerge(m, o) ==
    [entries |-> [k \in DOMAIN m.entries \cup DOMAIN o.entries |->
                    IF k \in DOMAIN o.entries THEN LwwMerge(Entry(m, k), o.entries[k])
                    ELSE m.entries[k]],
     removed |-> (m.removed \ DOMAIN o.entries) \cup o.removed]

\* Entries of a key this side removed are skipped; a removal of the other
\* side counts only for a key this side has no entry for.
MapMerge(m, o) ==
    LET taken == DOMAIN o.entries \ m.removed
        entries == [k \in DOMAIN m.entries \cup taken |->
                      IF k \in taken THEN LwwMerge(Entry(m, k), o.entries[k])
                      ELSE m.entries[k]]
    IN [entries |-> entries,
        removed |-> m.removed \cup {k \in o.removed : k \notin DOMAIN entries}]

\* The entry's whole HLC word is written where its physical time is read.
MapBytes(m) ==
    [entries |-> {[key |-> k, phys |-> m.entries[k].hlc, logical |-> logical(m.entries[k].hlc),
                   actor |-> m.entries[k].actor, value |-> m.entries[k].value] :
                    k \in DOMAIN m.entries \ m.removed},
     removed |-> m.removed]
MapParse(b) ==
    [entries |-> [k \in {e.key : e \in b.entries} |->
                    LwwParse(CHOOSE e \in b.entries : e.key = k)],
     removed |-> b.removed]

-----------------------------------------------------------------------------
(* Multi-value register: values with their dots, in insertion order.       *)

NewMV == [values |-> <<>>, clock |-> Zero]
Counter(dots, a) == Max({0} \cup {d[2] : d \in {x \in dots : x[1] = a}})

\* dots_causally_le is strict: equal dots are not below each other.
dots_causally_le(d, e) ==
    /\ \A a \in {x[1] : x \in d} : Counter(d, a) <= Counter(e, a)
    /\ \E a \in {x[1] : x \in d \cup e} : Counter(d, a) < Counter(e, a)

Undominated(values, dots) ==
    Keep(values, {x \in ToSet(values) : ~dots_causally_le(x.dots, dots)})

\* The new value's only dot is the writer's own; a value of another actor
\* that the writer has seen stays beside it.
MVSet(s, a, v) ==
    LET dots == {<<a, s.clock[a] + 1>>}
    IN [values |-> Append(Undominated(s.values, dots), [dots |-> dots, value |-> v]),
        clock  |-> [s.clock EXCEPT ![a] = @ + 1]]

MutMVTake(values, x) == Append(Undominated(values, x.dots), x)

MVTake(values, x) ==
    IF \E y \in ToSet(values) : dots_causally_le(x.dots, y.dots)
    THEN values
    ELSE Append(Undominated(values, x.dots), x)

MVMerge(s, o) == [values |-> FoldLeft(MVTake, s.values, o.values),
                  clock  |-> GMerge(s.clock, o.clock)]
MVBytes(s) == [values |-> s.values, clock |-> GBytes(s.clock)]
MVParse(b) == [values |-> b.values, clock |-> GParse(b.clock)]
MVValues(s) == {x.value : x \in ToSet(s.values)}

-----------------------------------------------------------------------------
(* Flag set: a bit mask with one timestamp.                                *)

NewFlags == [flags |-> {}, hlc |-> 0, actor |-> NoActor]
FlagStore(s, h, a, f) == IF Later(h, a, s.hlc, s.actor)
                         THEN [flags |-> f, hlc |-> h, actor |-> a] ELSE s
FlagSetBits(s, mask) == [s EXCEPT !.flags = @ \cup mask]
FlagClearBits(s, mask) == [s EXCEPT !.flags = @ \ mask]
FlagMerge(s, o) == FlagStore(s, o.hlc, o.actor, o.flags)

\* As for a map entry: the whole word goes where the physical time is read.
FlagBytes(s) == [flags |-> s.flags, phys |-> s.hlc, logical |-> logical(s.hlc), actor |-> s.actor]
FlagParse(b) == [flags |-> b.flags, hlc |-> from_parts(b.phys, b.logical), actor |-> b.actor]

-----------------------------------------------------------------------------
(* CrdtState: the sum of the types.                                        *)

New(k) ==
    CASE k = "GCOUNTER"  -> Zero
      [] k = "PNCOUNTER" -> [p |-> Zero, n |-> Zero]
      [] k = "LWW_REG"   -> DefaultReg
      [] k = "ORSET"     -> NewSet
      [] k = "ORMAP"     -> NewMap
      [] k = "MVREG"     -> NewMV
      [] k = "FLAGSET"   -> NewFlags

Join(k, s, o) ==
    CASE k = "GCOUNTER"  -> GMerge(s, o)
      [] k = "PNCOUNTER" -> PNMerge(s, o)
      [] k = "LWW_REG"   -> LwwMerge(s, o)
      [] k = "ORSET"     -> OrMerge(s, o)
      [] k = "ORMAP"     -> MapMerge(s, o)
      [] k = "MVREG"     -> MVMerge(s, o)
      [] k = "FLAGSET"   -> FlagMerge(s, o)

ToBytes(k, s) ==
    CASE k = "GCOUNTER"  -> GBytes(s)
      [] k = "PNCOUNTER" -> [p |-> GBytes(s.p), n |-> GBytes(s.n)]
      [] k = "LWW_REG"   -> LwwBytes(s)
      [] k = "ORSET"     -> OrBytes(s)
      [] k = "ORMAP"     -> MapBytes(s)
      [] k = "MVREG"     -> MVBytes(s)
      [] k = "FLAGSET"   -> FlagBytes(s)

deserialize_payload(k, b) ==
    CASE k = "GCOUNTER"  -> GParse(b)
      [] k = "PNCOUNTER" -> [p |-> GParse(b.p), n |-> GParse(b.n)]
      [] k = "LWW_REG"   -> LwwParse(b)
      [] k = "ORSET"     -> OrParse(b)
      [] k = "ORMAP"     -> MapParse(b)
      [] k = "MVREG"     -> MVParse(b)
      [] k = "FLAGSET"   -> FlagParse(b)

\* The operations of each kind.  An operation is a record with its name,
\* actor, element and timestamp.
Operations(k) ==
    CASE k = "GCOUNTER"  -> {"inc"}
      [] k = "PNCOUNTER" -> {"inc", "dec"}
      [] k = "LWW_REG"   -> {"update"}
      [] k = "ORSET"     -> {"add", "remove", "clear"}
      [] k = "ORMAP"     -> {"put", "remove"}
      [] k = "MVREG"     -> {"set"}
      [] k = "FLAGSET"   -> {"set", "set_bits", "clear_bits"}

Perform(k, s, op) ==
    CASE k = "GCOUNTER" -> GInc(s, op.actor, 1)
      [] k = "PNCOUNTER" /\ op.name = "inc" -> [s EXCEPT !.p = GInc(@, op.actor, 1)]
      [] k = "PNCOUNTER" /\ op.name = "dec" -> [s EXCEPT !.n = GInc(@, op.actor, 1)]
      [] k = "LWW_REG" -> LwwUpdate(s, op.hlc, op.actor, op.id)
      [] k = "ORSET" /\ op.name = "add" -> OrAdd(s, op.actor, op.elem)
      [] k = "ORSET" /\ op.name = "remove" -> OrRemove(s, op.elem)
      [] k = "ORSET" /\ op.name = "clear" -> OrClear(s)
      [] k = "ORMAP" /\ op.name = "put" -> MapPut(s, op.hlc, op.actor, op.elem, op.id)
      [] k = "ORMAP" /\ op.name = "remove" -> MapRemove(s, op.elem)
      [] k = "MVREG" -> MVSet(s, op.actor, op.id)
      [] k = "FLAGSET" /\ op.name = "set" -> FlagStore(s, op.hlc, op.actor, {op.elem})
      [] k = "FLAGSET" /\ op.name = "set_bits" -> FlagSetBits(s, {op.elem})
      [] k = "FLAGSET" /\ op.name = "clear_bits" -> FlagClearBits(s, {op.elem})
=============================================================================
