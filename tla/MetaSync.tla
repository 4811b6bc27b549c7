------------------------------- MODULE MetaSync -------------------------------
(***************************************************************************)
(* The metadata stores of federated gateways and their CRDT sync: each     *)
(* gateway updates its own MetaStore, sync_crdt carries an export to a     *)
(* peer, handle_sync joins it and answers with its merged export, and the  *)
(* caller joins the answer.  Requests and answers may be lost (they stay   *)
(* in flight for ever), overtaken and, after a timeout, sent again.  A     *)
(* gateway's MetaStore is in memory only: a restart begins an empty one    *)
(* under a new actor.                                                      *)
(***************************************************************************)
EXTENDS CrdtTypes

CONSTANTS Gateway,      \* gateways of the federation
          FirstActor,   \* the actor each gateway generated at its first start
          SyncKinds,    \* kinds of the one field the gateways share
          MaxOps,       \* bound on the operations on a field of each kind
          MaxClock, MaxSyncs    \* bounds on the clocks and the sync calls

ASSUME SyncAssumption ==
    /\ SyncKinds \subseteq Kinds
    /\ FirstActor \in [Gateway -> Actor]
    /\ \A g, h \in Gateway : FirstActor[g] = FirstActor[h] => g = h

VARIABLES kind,     \* kind of the shared field
          actor,    \* gateway -> its MetaStore's actor_id
          wall,     \* gateway -> its system clock
          hlc,      \* gateway -> its MetaStore's hlc
          cell,     \* gateway -> the field's CrdtState, or Absent
          net,      \* requests and answers in flight
          syncs,    \* number of sync_crdt calls made
          history,  \* every operation performed, in order
          known     \* gateway -> the operations its state was built from

mvars == <<kind, actor, wall, hlc, cell, net, syncs, history, known>>

Absent == <<>>
Present(c) == c # Absent

MInit ==
    /\ kind \in SyncKinds
    /\ actor = FirstActor
    /\ wall = [g \in Gateway |-> 0]
    /\ hlc = [g \in Gateway |-> now(0)]
    /\ cell = [g \in Gateway |-> Absent]
    /\ net = {} /\ syncs = 0
    /\ history = <<>>
    /\ known = [g \in Gateway |-> {}]

\* get_node_crdt: the field is created empty when the store lacks it.
Field(g) == IF Present(cell[g]) THEN cell[g][1] ELSE New(kind)

\* export_node_fields: the field's bytes, when the store has the field.
Export(c) == IF Present(c) THEN <<ToBytes(kind, c[1])>> ELSE Absent

\* Counters and registers of one field take no element; one value stands
\* for all of them.
Operands(k) == IF k \in {"ORSET", "ORMAP", "FLAGSET"} THEN Elem ELSE {CHOOSE e \in Elem : TRUE}

\* A caller ticks the store's clock and updates the field with it.
Update(g) ==
    \E name \in Operations(kind), e \in Operands(kind) :
        LET h == tick(hlc[g], wall[g])
            id == Len(history) + 1
            op == [id |-> id, name |-> name, actor |-> actor[g], elem |-> e,
                   hlc |-> h, seen |-> known[g]]
        IN /\ Len(history) < MaxOps[kind]
           /\ hlc' = [hlc EXCEPT ![g] = h]
           /\ cell' = [cell EXCEPT ![g] = <<Perform(kind, Field(g), op)>>]
           /\ history' = Append(history, op)
           /\ known' = [known EXCEPT ![g] = @ \cup {id}]
           /\ UNCHANGED <<kind, actor, wall, net, syncs>>

\* Time passes only where a kind's timestamps can tell.
AdvanceClock(g) ==
    /\ kind \in {"LWW_REG", "ORMAP", "FLAGSET"}
    /\ wall[g] < MaxClock
    /\ wall' = [wall EXCEPT ![g] = @ + 1]
    /\ UNCHANGED <<kind, actor, hlc, cell, net, syncs, history, known>>

\* FederationClient::sync_crdt sends what its caller exported.
SendSync(g, p) ==
    /\ g # p /\ syncs < MaxSyncs
    /\ syncs' = syncs + 1
    /\ net' = net \cup {[type |-> "request", from |-> g, to |-> p, n |-> syncs,
                         fields |-> Export(cell[g]), ops |-> known[g]]}
    /\ UNCHANGED <<kind, actor, wall, hlc, cell, history, known>>

\* import_node_field for every exported field: get or create, then join.
merge_into_store(g, m) ==
    /\ cell' = IF Present(m.fields)
               THEN [cell EXCEPT ![g] =
                       <<Join(kind, Field(g), deserialize_payload(kind, m.fields[1]))>>]
               ELSE cell
    /\ known' = [known EXCEPT ![g] = @ \cup m.ops]

\* handle_sync holds the store's lock: it joins and answers in one step.
\* After a timeout the client may send the same export again.
HandleSync(m) ==
    /\ m.type = "request"
    /\ merge_into_store(m.to, m)
    /\ \E again \in BOOLEAN :
         /\ again => syncs < MaxSyncs
         /\ syncs' = IF again THEN syncs + 1 ELSE syncs
         /\ net' = (net \ (IF again THEN {} ELSE {m}))
                     \cup {[type |-> "answer", from |-> m.to, to |-> m.from, n |-> m.n,
                            fields |-> Export(cell'[m.to]), ops |-> known'[m.to]]}
    /\ UNCHANGED <<kind, actor, wall, hlc, history>>

\* sync_crdt returns the answer's metadata and its caller joins it.
ReceiveAnswer(m) ==
    /\ m.type = "answer"
    /\ merge_into_store(m.to, m)
    /\ net' = net \ {m}
    /\ UNCHANGED <<kind, actor, wall, hlc, syncs, history>>

\* Gateway::new: an empty store under a newly generated actor.
Restart(g) ==
    /\ Present(cell[g])
    /\ \E a \in Actor \ ({actor[h] : h \in Gateway} \cup {history[i].actor : i \in DOMAIN history}) :
         actor' = [actor EXCEPT ![g] = a]
    /\ hlc' = [hlc EXCEPT ![g] = now(wall[g])]
    /\ cell' = [cell EXCEPT ![g] = Absent]
    /\ known' = [known EXCEPT ![g] = {}]
    /\ UNCHANGED <<kind, wall, net, syncs, history>>

MNext ==
    \/ \E g \in Gateway : Update(g) \/ AdvanceClock(g) \/ Restart(g)
    \/ \E g, p \in Gateway : SendSync(g, p)
    \/ \E m \in net : HandleSync(m) \/ ReceiveAnswer(m)

MSpec == MInit /\ [][MNext]_mvars

-----------------------------------------------------------------------------
(* What a read of the field must return, from the operations the gateway's *)
(* state was built from.                                                   *)

Known(g) == {history[i] : i \in known[g]}
Named(ops, name) == {o \in ops : o.name = name}
Latest(ops) == {o \in ops : \A p \in ops : o.hlc >= p.hlc}

(* A counter read after any number of repeated, lost and reordered syncs   *)
(* counts every increment it has heard of exactly once (GCounter::merge,   *)
(* PNCounter::merge and their codecs).                                     *)
CounterExact ==
    \A g \in Gateway : Present(cell[g]) =>
        /\ kind = "GCOUNTER" => GValue(cell[g][1]) = Cardinality(Known(g))
        /\ kind = "PNCOUNTER" =>
             PNValue(cell[g][1]) =
               Cardinality(Named(Known(g), "inc")) - Cardinality(Named(Known(g), "dec"))

(* An element is in an observed-remove set exactly when some add the       *)
(* replica has heard of was seen by no remove it has heard of: an add      *)
(* concurrent with a remove wins (ORSet::remove tombstones only the dots   *)
(* it sees).  ORSet::clear removes without tombstones, so a set some       *)
(* gateway cleared promises nothing.                                       *)
AddWins ==
    kind = "ORSET" /\ Named(ToSet(history), "clear") = {} =>
      \A g \in Gateway : Present(cell[g]) =>
        OrElements(cell[g][1]) =
          {o.elem : o \in {a \in Named(Known(g), "add") :
             \A r \in Named(Known(g), "remove") : r.elem = a.elem => a.id \notin r.seen}}

(* A register holds a write of the latest timestamp it has heard of, and   *)
(* the timestamp is the one the writer gave it (LWWReg::update, merge and  *)
(* the codec's physical and logical halves).                               *)
LastWriterWins ==
    kind = "LWW_REG" =>
      \A g \in Gateway : Present(cell[g]) /\ Known(g) # {} =>
        \E o \in Latest(Known(g)) : /\ cell[g][1].value = o.id
                                    /\ cell[g][1].hlc = o.hlc
                                    /\ cell[g][1].actor = o.actor

(* A multi-value register shows, of every actor it has heard of, that      *)
(* actor's last write and no older one (MVReg::set and merge).             *)
LatestOfEachActor ==
    kind = "MVREG" =>
      \A g \in Gateway : Present(cell[g]) =>
        MVValues(cell[g][1]) =
          {o.id : o \in {x \in Known(g) :
                           \A y \in Known(g) : y.actor = x.actor => y.id <= x.id}}

(* A key a gateway removed and has not put again reads as none, whatever   *)
(* late, repeated or reordered syncs bring it (ORMap::remove, merge and    *)
(* get).                                                                   *)
LocalRemoveSticks ==
    kind = "ORMAP" =>
      \A g \in Gateway, k \in Elem : Present(cell[g]) =>
        LET own == {o \in ToSet(history) : o.actor = actor[g] /\ o.elem = k}
        IN (\E r \in own : r.name = "remove" /\ \A o \in own : o.id <= r.id)
             => MapGet(cell[g][1], k) = NoValue

(* "On merge, the value with the later timestamp wins": a flag set that    *)
(* was only ever replaced whole holds the flags of a latest known write    *)
(* (FlagSet::set, merge, to_bytes and from_bytes).                         *)
LaterFlagsWin ==
    kind = "FLAGSET" /\ ToSet(history) = Named(ToSet(history), "set") =>
      \A g \in Gateway : Present(cell[g]) /\ Known(g) # {} =>
        cell[g][1].flags \in {{o.elem} : o \in Latest(Known(g))}

=============================================================================
