--------------------------- MODULE OwnershipProofs ---------------------------
(***************************************************************************)
(* Proofs about who owns a base: BaseLease, for every set of processes,    *)
(* threads and roots, and LiveOwner, for every set of processes, bases,    *)
(* ports and clients and every script of requests.                         *)
(***************************************************************************)
EXTENDS BaseLease, LiveOwner, SequenceTheorems, TLAPS

-----------------------------------------------------------------------------
(* The lease (BaseLease).                                                  *)

\* A thread that believes it holds a base owns the OS lock.
LockHeld == \A t \in Threads : pc[t] \in Locked => lock[root[t]] = t

\* Within a process the registry makes leases of one base exclusive.
OneRegistrant ==
    \A t, u \in Threads :
        /\ ProcOf[t] = ProcOf[u] /\ root[t] = root[u]
        /\ pc[t] \in Registered /\ pc[u] \in Registered
        => t = u

\* RegistryExact, element by element.
RegistryInv ==
    /\ \A t \in Threads : pc[t] \in Registered => root[t] \in registry[ProcOf[t]]
    /\ \A p \in Procs : \A r \in registry[p] :
          \E t \in Threads : ProcOf[t] = p /\ pc[t] \in Registered /\ root[t] = r

TokenInv == \A t \in Threads : token[t] => pc[t] = "held"

LeaseInv == TypeOK /\ LockHeld /\ OneRegistrant /\ RegistryInv /\ TokenInv

LEMMA LeaseInit == Init => LeaseInv
  BY ProcOfAssumption, NobodyAssumption
     DEF Init, LeaseInv, TypeOK, LockHeld, OneRegistrant, RegistryInv, TokenInv, Locked, Registered

LEMMA LeaseMoves == LeaseInv /\ [Next]_vars => LeaseInv'
<1> SUFFICES ASSUME LeaseInv, [Next]_vars PROVE LeaseInv'
  OBVIOUS
<1> USE ProcOfAssumption, NobodyAssumption
    DEF LeaseInv, TypeOK, LockHeld, OneRegistrant, RegistryInv, TokenInv, Locked, Registered
<1>1. CASE UNCHANGED vars
  BY <1>1 DEF vars
<1>2. ASSUME NEW t \in Threads, NEW r \in Roots, Register(t, r) PROVE LeaseInv'
  <2>1. CASE r \in registry[ProcOf[t]]
    BY <1>2, <2>1, SMTT(60) DEF Register, Refused
  <2>2. CASE r \notin registry[ProcOf[t]]
    <3>0. /\ pc[t] = "idle" /\ pc' = [pc EXCEPT ![t] = "file"] /\ root' = [root EXCEPT ![t] = r]
          /\ registry' = [registry EXCEPT ![ProcOf[t]] = @ \cup {r}]
          /\ mutex' = [mutex EXCEPT ![ProcOf[t]] = t]
          /\ UNCHANGED <<lock, token, answer>>
      BY <1>2, <2>2 DEF Register
    <3>1. TypeOK'
      BY <3>0
    <3>2. LockHeld' /\ TokenInv'
      BY <3>0
    <3>3. OneRegistrant'
      BY <2>2, <3>0
    <3>4. RegistryInv'
      BY <3>0
    <3>5. QED
      BY <3>1, <3>2, <3>3, <3>4
  <2>3. QED
    BY <2>1, <2>2
<1>3. ASSUME NEW t \in Threads, NEW r \in Roots, Compact(t, r) PROVE LeaseInv'
  <2>1. CASE lock[r] = Nobody
    <3>0. /\ pc[t] = "idle" /\ lock' = [lock EXCEPT ![r] = t]
          /\ pc' = [pc EXCEPT ![t] = "compact"] /\ root' = [root EXCEPT ![t] = r]
          /\ answer' = [answer EXCEPT ![t] = "ok"] /\ UNCHANGED <<registry, mutex, token>>
      BY <1>3, <2>1 DEF Compact
    <3>1. TypeOK'
      BY <3>0
    <3>2. LockHeld'
      BY <2>1, <3>0
    <3>3. OneRegistrant' /\ TokenInv'
      BY <3>0
    <3>4. RegistryInv'
      BY <3>0
    <3>5. QED
      BY <3>1, <3>2, <3>3, <3>4
  <2>2. CASE lock[r] # Nobody
    BY <1>3, <2>2 DEF Compact, Refused
  <2>3. QED
    BY <2>1, <2>2
<1>4. ASSUME NEW t \in Threads, LockFile(t) PROVE LeaseInv'
  <2>1. TypeOK'
    BY <1>4 DEF LockFile
  <2>2. LockHeld'
    BY <1>4 DEF LockFile
  <2>3. OneRegistrant'
    BY <1>4 DEF LockFile
  <2>4. RegistryInv'
    BY <1>4 DEF LockFile
  <2>5. TokenInv'
    BY <1>4 DEF LockFile
  <2>6. QED
    BY <2>1, <2>2, <2>3, <2>4, <2>5
<1>5. ASSUME NEW t \in Threads, LockFails(t) PROVE LeaseInv'
  <2>1. TypeOK'
    <3>1. PICK why \in {"busy", "io"} : Refused(t, why)
      BY <1>5 DEF LockFails
    <3>2. QED
      BY <1>5, <3>1 DEF LockFails, Unregister, Refused
  <2>2. LockHeld'
    BY <1>5 DEF LockFails, Unregister, Refused
  <2>3. OneRegistrant'
    BY <1>5 DEF LockFails, Unregister, Refused
  <2>4. RegistryInv'
    BY <1>5, SMTT(60) DEF LockFails, Unregister, Refused
  <2>5. TokenInv'
    BY <1>5 DEF LockFails, Unregister, Refused
  <2>6. QED
    BY <2>1, <2>2, <2>3, <2>4, <2>5
<1>6. ASSUME NEW t \in Threads, Pin(t) PROVE LeaseInv'
  <2>1. TypeOK'
    BY <1>6 DEF Pin
  <2>2. LockHeld'
    BY <1>6 DEF Pin
  <2>3. OneRegistrant'
    BY <1>6 DEF Pin
  <2>4. RegistryInv'
    BY <1>6 DEF Pin
  <2>5. TokenInv'
    BY <1>6 DEF Pin
  <2>6. QED
    BY <2>1, <2>2, <2>3, <2>4, <2>5
<1>7. ASSUME NEW t \in Threads, PinFails(t) PROVE LeaseInv'
  <2>1. TypeOK'
    BY <1>7 DEF PinFails, Unregister, Refused
  <2>2. LockHeld'
    BY <1>7 DEF PinFails, Unregister, Refused
  <2>3. OneRegistrant'
    BY <1>7 DEF PinFails, Unregister, Refused
  <2>4. RegistryInv'
    BY <1>7 DEF PinFails, Unregister, Refused
  <2>5. TokenInv'
    BY <1>7 DEF PinFails, Unregister, Refused
  <2>6. QED
    BY <2>1, <2>2, <2>3, <2>4, <2>5
<1>8. ASSUME NEW t \in Threads, Borrow(t) PROVE LeaseInv'
  BY <1>8 DEF Borrow
<1>9. ASSUME NEW t \in Threads, ReturnToken(t) PROVE LeaseInv'
  BY <1>9 DEF ReturnToken
<1>10. ASSUME NEW t \in Threads, DropUnlock(t) PROVE LeaseInv'
  <2>1. TypeOK'
    BY <1>10 DEF DropUnlock
  <2>2. LockHeld'
    BY <1>10 DEF DropUnlock
  <2>3. OneRegistrant'
    BY <1>10 DEF DropUnlock
  <2>4. RegistryInv'
    BY <1>10 DEF DropUnlock
  <2>5. TokenInv'
    BY <1>10 DEF DropUnlock
  <2>6. QED
    BY <2>1, <2>2, <2>3, <2>4, <2>5
<1>11. ASSUME NEW t \in Threads, DropUnregister(t) PROVE LeaseInv'
  <2>1. TypeOK'
    BY <1>11 DEF DropUnregister
  <2>2. LockHeld'
    BY <1>11 DEF DropUnregister
  <2>3. OneRegistrant'
    BY <1>11 DEF DropUnregister
  <2>4. RegistryInv'
    BY <1>11 DEF DropUnregister
  <2>5. TokenInv'
    BY <1>11 DEF DropUnregister
  <2>6. QED
    BY <2>1, <2>2, <2>3, <2>4, <2>5
<1>12. ASSUME NEW t \in Threads, CompactDone(t) PROVE LeaseInv'
  <2>1. TypeOK'
    BY <1>12 DEF CompactDone
  <2>2. LockHeld'
    BY <1>12 DEF CompactDone
  <2>3. OneRegistrant'
    BY <1>12 DEF CompactDone
  <2>4. RegistryInv'
    BY <1>12 DEF CompactDone
  <2>5. TokenInv'
    BY <1>12 DEF CompactDone
  <2>6. QED
    BY <2>1, <2>2, <2>3, <2>4, <2>5
<1>13. ASSUME NEW p \in Procs, Die(p) PROVE LeaseInv'
  <2>1. TypeOK'
    <3>1. /\ registry' \in [Procs -> SUBSET Roots]
          /\ mutex' \in [Procs -> Threads \cup {Nobody}]
          /\ lock' \in [Roots -> Threads \cup {Nobody}]
      BY <1>13 DEF Die
    <3>2. /\ pc' \in [Threads -> {"idle", "file", "pin", "held", "dropping", "compact"}]
          /\ root' \in [Threads -> Roots \cup {Nobody}]
          /\ \A t \in Threads : (root'[t] = Nobody) <=> (pc'[t] = "idle")
      BY <1>13 DEF Die
    <3>3. token' \in [Threads -> BOOLEAN]
      BY <1>13, ZenonT(60) DEF Die
    <3>4. answer' \in [Threads -> {"none", "ok", "busy", "io"}]
      BY <1>13 DEF Die
    <3>5. QED
      BY <3>1, <3>2, <3>3, <3>4
  <2>2. LockHeld'
    BY <1>13 DEF Die
  <2>3. OneRegistrant'
    BY <1>13 DEF Die
  <2>4. RegistryInv'
    BY <1>13 DEF Die
  <2>5. TokenInv'
    BY <1>13 DEF Die
  <2>6. QED
    BY <2>1, <2>2, <2>3, <2>4, <2>5
<1>14. QED
  BY <1>1, <1>2, <1>3, <1>4, <1>5, <1>6, <1>7, <1>8, <1>9, <1>10, <1>11, <1>12, <1>13
     DEF Next, Acquire

LEMMA LeaseInvariant == Spec => []LeaseInv
  BY LeaseInit, LeaseMoves, PTL DEF Spec

\* The types of BaseLease.
THEOREM LeaseTypes == Spec => []TypeOK
<1>1. LeaseInv => TypeOK
  BY DEF LeaseInv
<1>2. QED
  BY LeaseInvariant, <1>1, PTL

\* No two threads, of any processes, hold one base.
THEOREM ExclusiveWriter == Spec => []OneWriter
<1>1. LeaseInv => OneWriter
  BY DEF LeaseInv, LockHeld, OneWriter
<1>2. QED
  BY LeaseInvariant, <1>1, PTL

\* The registry of a process lists the bases of its leases and no others.
THEOREM RegistryIsExact == Spec => []RegistryExact
<1>1. LeaseInv => RegistryExact
  BY DEF LeaseInv, RegistryInv, RegistryExact
<1>2. QED
  BY LeaseInvariant, <1>1, PTL

\* Transactions run only under the lock and the registry entry of their lease.
THEOREM TransactionsUnderLock == Spec => []WritesUnderLock
<1>1. LeaseInv => WritesUnderLock
  BY DEF LeaseInv, LockHeld, RegistryInv, TokenInv, WritesUnderLock, Locked, Registered
<1>2. QED
  BY LeaseInvariant, <1>1, PTL

-----------------------------------------------------------------------------
(* The live owner (LiveOwner): a descriptor leads to the owner of its base *)
(* and the replies of a connection are true.                               *)

Phases == {"binding", "unlinked", "serving", "closing", "unguarding", "stopping"}

\* A running serve process, a published descriptor, a reply line, a client.
Running ==
    [phase : Phases, root : Bases, secret : Nat, port : Ports, active : Refs,
     stores : SUBSET Refs, bases : [Refs -> Bases \cup {None}]]
Published == [secret : Nat, port : Ports, base : Bases]
Answer == [id : Nat, ok : BOOLEAN, base : Bases \cup {None}]
Client ==
    [st : {"idle", "found", "dialed", "authed", "waiting"}, at : Nat \ {0},
     peer : Owners \cup {None}, secret : Nat, port : Ports \cup {None},
     inbox : Seq(Request), outbox : Seq(Answer),
     bound : [Refs -> Bases \cup {None}], wrong : BOOLEAN]

OwnerTypes ==
    /\ owner \in [Bases -> Owners \cup {Other, None}]
    /\ server \in [Owners -> Running \cup {NoServer}]
    /\ desc \in [Bases -> Published \cup {NoDesc}]
    /\ conn \in [Clients -> Client]
    /\ starts \in Nat /\ tries \in Nat

\* A token is generated once: nothing holds one that is still to come, and
\* two processes never hold the same.
TokensFresh ==
    /\ \A p \in Owners : Serving(p) => server[p].secret \in 1 .. starts
    /\ \A p, q \in Owners :
          Serving(p) /\ Serving(q) /\ server[p].secret = server[q].secret => p = q
    /\ \A r \in Bases : desc[r].secret \in 0 .. starts
    /\ \A c \in Clients : conn[c].secret \in 0 .. starts

\* A token stands for one root, in every copy of a descriptor and in every
\* client that read one.
TokensName ==
    /\ \A p \in Owners, r \in Bases :
          Serving(p) /\ desc[r].secret = server[p].secret => desc[r].base = server[p].root
    /\ \A p \in Owners, c \in Clients :
          Serving(p) /\ conn[c].st # "idle" /\ conn[c].secret = server[p].secret =>
              server[p].root = Target[c]

\* A serve process leases its root for as long as it runs.
OwnsRoot == \A p \in Owners : Serving(p) => owner[server[p].root] = p

DescriptorInPlace ==
    \A p \in Owners : server[p].phase = "serving" => desc[server[p].root] = Descriptor(server[p])

\* A client waits for the reply to a request of its script.
Awaits == \A c \in Clients : conn[c].st = "waiting" => conn[c].at <= Len(Script[c])

ControlInv == OwnerTypes /\ TokensFresh /\ TokensName /\ OwnsRoot /\ DescriptorInPlace /\ Awaits

LEMMA ControlInit == LInit => ControlInv
<1> SUFFICES ASSUME LInit PROVE ControlInv
  OBVIOUS
<1> USE ProcessAssumption, BaseAssumption, RefAssumption, ScriptAssumption
    DEF LInit, NoServer, NoDesc, Serving
<1>1. \A c \in Clients : conn[c] = NoConn(1)
  OBVIOUS
<1>2. NoConn(1) \in Client
  BY EmptySeq DEF NoConn, Client
<1>3. OwnerTypes
  BY <1>2 DEF OwnerTypes
<1>4. TokensFresh /\ TokensName /\ OwnsRoot /\ DescriptorInPlace /\ Awaits
  BY <1>1 DEF TokensFresh, TokensName, OwnsRoot, DescriptorInPlace, Awaits, NoConn
<1>5. QED
  BY <1>3, <1>4 DEF ControlInv

-----------------------------------------------------------------------------
(* What a request does to the server that processes it *)

LEMMA RefOfType ==
  ASSUME NEW s \in Running, NEW q \in Request PROVE RefOf(s, q) \in Refs
  BY DEF RefOf, Running, Request

\* A base is opened under a base_ref that named no store, and changes nothing
\* else of the server.
LEMMA OpenedServer ==
  ASSUME NEW s \in Running, NEW f \in Refs, NEW r \in Bases
  PROVE  LET t == Opened(s, f, r) IN
         /\ t \in Running
         /\ t.phase = s.phase /\ t.root = s.root /\ t.secret = s.secret /\ t.port = s.port
         /\ t.stores = s.stores \cup {f}
         /\ t.bases = [s.bases EXCEPT ![f] = r]
  BY DEF Opened, Running

\* A request's base is one that is not connected under this ref.
LEMMA ToOpenFacts ==
  ASSUME NEW s \in Running, NEW q \in Request, ToOpen(s, q) # None
  PROVE  RefOf(s, q) \notin s.stores
  BY DEF ToOpen, Connected

LEMMA ReadyServer ==
  ASSUME NEW s \in Running, NEW q \in Request, NEW t \in Ready(s, q)
  PROVE  /\ t \in Running
         /\ t.phase = s.phase /\ t.root = s.root /\ t.secret = s.secret /\ t.port = s.port
         /\ \A f \in s.stores : f \in t.stores /\ t.bases[f] = s.bases[f]
         /\ \A f \in t.stores : f \in s.stores \/ t.bases[f] # None
         /\ t # s => ToOpen(s, q) \in Bases /\ owner[ToOpen(s, q)] = None
<1>1. CASE t = s
  BY <1>1
<1>2. CASE t # s
  <2>1. PICK b \in Bases : b = ToOpen(s, q) /\ owner[b] = None /\ t = Opened(s, RefOf(s, q), b)
    BY <1>2 DEF Ready
  <2>2. RefOf(s, q) \in Refs
    BY RefOfType
  <2>3. RefOf(s, q) \notin s.stores /\ b # None
    BY <2>1, ToOpenFacts, BaseAssumption
  <2>4. /\ t \in Running
        /\ t.phase = s.phase /\ t.root = s.root /\ t.secret = s.secret /\ t.port = s.port
        /\ t.stores = s.stores \cup {RefOf(s, q)}
        /\ t.bases = [s.bases EXCEPT ![RefOf(s, q)] = b]
    BY <2>1, <2>2, OpenedServer
  <2>5. s.bases \in [Refs -> Bases \cup {None}] /\ s.stores \in SUBSET Refs
    BY DEF Running
  <2>6. QED
    BY <2>1, <2>2, <2>3, <2>4, <2>5
<1>3. QED
  BY <1>1, <1>2

\* Processing keeps what is connected, and its reply is to the request.
LEMMA ProcessedServer ==
  ASSUME NEW t \in Running, NEW q \in Request
  PROVE  LET d == Processed(t, q) IN
         /\ d.s \in Running
         /\ d.s.phase = t.phase /\ d.s.root = t.root /\ d.s.secret = t.secret
         /\ d.s.port = t.port /\ d.s.stores = t.stores
         /\ \A f \in Refs : t.bases[f] # None => d.s.bases[f] = t.bases[f]
         /\ d.reply \in Answer /\ d.reply.id = q.id
<1> USE BaseAssumption, RefAssumption
<1>0. RefOf(t, q) \in Refs
  BY RefOfType
<1>1. CASE q.kind = "connect_base"
  BY <1>1 DEF Processed, connect_base, Reply, Running, Request, Answer, Connected
<1>2. CASE q.kind = "list_bases"
  <2>1. list_bases(t) \in Running
    BY DEF list_bases, Running
  <2>2. Reply(q, TRUE, None) \in Answer
    BY DEF Reply, Answer, Request
  <2>3. Processed(t, q) = [s |-> list_bases(t), reply |-> Reply(q, TRUE, None)]
    BY <1>2 DEF Processed
  <2>4. /\ list_bases(t).phase = t.phase /\ list_bases(t).root = t.root
        /\ list_bases(t).secret = t.secret /\ list_bases(t).port = t.port
        /\ list_bases(t).stores = t.stores
        /\ list_bases(t).bases = [f \in Refs |-> IF t.bases[f] = None THEN Scoped[f] ELSE t.bases[f]]
    BY DEF list_bases, Running
  <2>5. QED
    BY <2>1, <2>2, <2>3, <2>4 DEF Reply
<1>3. CASE q.kind \in {"tool", "switch_base"}
  <2>1. Processed(t, q) = mcp_with_selected_store(t, q)
    BY <1>3 DEF Processed
  <2>2. CASE Connected(t, RefOf(t, q))
    <3>1. switch_base(t, q) \in Running /\ switch_base(t, q).bases = t.bases
          /\ switch_base(t, q).phase = t.phase /\ switch_base(t, q).root = t.root
          /\ switch_base(t, q).secret = t.secret /\ switch_base(t, q).port = t.port
          /\ switch_base(t, q).stores = t.stores
      BY DEF switch_base, Running, Request
    <3>2. Reply(q, TRUE, t.bases[RefOf(t, q)]) \in Answer
      BY <1>0 DEF Reply, Answer, Request, Running
    <3>3. QED
      BY <2>1, <2>2, <3>1, <3>2 DEF mcp_with_selected_store, Reply
  <2>3. CASE ~Connected(t, RefOf(t, q))
    BY <2>1, <2>3 DEF mcp_with_selected_store, Reply, Answer, Request
  <2>4. QED
    BY <2>2, <2>3
<1>4. CASE q.kind \notin {"connect_base", "list_bases", "tool", "switch_base"}
  BY <1>4 DEF Processed, Reply, Answer, Request
<1>5. QED
  BY <1>1, <1>2, <1>3, <1>4

-----------------------------------------------------------------------------
(* Every step keeps the control invariant *)

LEMMA RunningServer ==
  ASSUME OwnerTypes, NEW p \in Owners
  PROVE  Serving(p) <=> server[p] \in Running
  BY DEF OwnerTypes, Serving, NoServer, Running, Phases

LEMMA PhaseFacts ==
  ASSUME OwnerTypes, NEW p \in Owners, NEW from \in Phases, NEW to \in Phases, Phase(p, from, to)
  PROVE  /\ Serving(p) /\ server[p] \in Running /\ server[p].phase = from
         /\ server' \in [Owners -> Running \cup {NoServer}]
         /\ server'[p].phase = to /\ server'[p].root = server[p].root
         /\ server'[p].secret = server[p].secret /\ server'[p].port = server[p].port
         /\ server'[p].stores = server[p].stores /\ server'[p].bases = server[p].bases
         /\ \A q \in Owners \ {p} : server'[q] = server[q]
<1>1. server[p].phase = from /\ server' = [server EXCEPT ![p].phase = to]
  BY DEF Phase
<1>2. Serving(p) /\ server[p] \in Running
  BY <1>1, RunningServer DEF Serving, Phases
<1>3. server'[p] = [server[p] EXCEPT !.phase = to]
  BY <1>1 DEF OwnerTypes
<1>4. /\ server'[p] \in Running
      /\ server'[p].phase = to /\ server'[p].root = server[p].root
      /\ server'[p].secret = server[p].secret /\ server'[p].port = server[p].port
      /\ server'[p].stores = server[p].stores /\ server'[p].bases = server[p].bases
  BY <1>2, <1>3 DEF Running
<1>5. \A q \in Owners \ {p} : server'[q] = server[q]
  BY <1>1 DEF OwnerTypes
<1>6. server' \in [Owners -> Running \cup {NoServer}]
  BY <1>1, <1>4, <1>5 DEF OwnerTypes
<1>7. QED
  BY <1>1, <1>2, <1>4, <1>5, <1>6

\* What a change of phase that leaves the descriptors alone keeps.
LEMMA PhaseStep ==
  ASSUME ControlInv, NEW p \in Owners, NEW from \in Phases, NEW to \in Phases \ {"serving"},
         Phase(p, from, to), UNCHANGED <<owner, desc, conn, starts, tries>>
  PROVE  ControlInv'
<1> USE DEF ControlInv, Serving
<1>1. /\ Serving(p) /\ server[p] \in Running /\ server[p].phase = from
      /\ server' \in [Owners -> Running \cup {NoServer}]
      /\ server'[p].phase = to /\ server'[p].root = server[p].root
      /\ server'[p].secret = server[p].secret /\ server'[p].port = server[p].port
      /\ \A q \in Owners \ {p} : server'[q] = server[q]
  BY PhaseFacts
<1>2. OwnerTypes'
  BY <1>1 DEF OwnerTypes
<1>3. TokensFresh'
  BY <1>1 DEF TokensFresh
<1>4. TokensName'
  BY <1>1 DEF TokensName
<1>5. OwnsRoot' /\ DescriptorInPlace' /\ Awaits'
  BY <1>1 DEF OwnsRoot, DescriptorInPlace, Descriptor, Awaits
<1>6. QED
  BY <1>2, <1>3, <1>4, <1>5

\* What a step of a client keeps, when its new token is one that is known.
LEMMA ClientStep ==
  ASSUME ControlInv, NEW c \in Clients, NEW d \in Client, conn' = [conn EXCEPT ![c] = d],
         d.secret \in 0 .. starts,
         \A p \in Owners : Serving(p) /\ d.st # "idle" /\ d.secret = server[p].secret =>
             server[p].root = Target[c],
         d.st = "waiting" => d.at <= Len(Script[c]),
         tries' \in Nat, UNCHANGED <<owner, server, desc, starts>>
  PROVE  ControlInv'
<1> USE DEF ControlInv, Serving
<1>1. OwnerTypes'
  BY DEF OwnerTypes
<1>2. TokensFresh'
  BY DEF TokensFresh, OwnerTypes
<1>3. TokensName'
  BY DEF TokensName, OwnerTypes
<1>4. OwnsRoot' /\ DescriptorInPlace' /\ Awaits'
  BY DEF OwnsRoot, DescriptorInPlace, Descriptor, Awaits, OwnerTypes
<1>5. QED
  BY <1>1, <1>2, <1>3, <1>4

LEMMA StartStep ==
  ASSUME ControlInv, NEW p \in Owners, NEW r \in Served, NEW port \in Ports, StartServer(p, r, port)
  PROVE  ControlInv'
<1> USE ProcessAssumption, BaseAssumption, RefAssumption DEF ControlInv, Serving
<1>0. /\ ~Serving(p) /\ r \in Bases /\ owner[r] = None
      /\ owner' = [owner EXCEPT ![r] = p]
      /\ starts' = starts + 1 /\ server' = [server EXCEPT ![p] = McpServerState(r, port)]
      /\ UNCHANGED <<desc, conn, tries>>
  BY DEF StartServer
<1>1. /\ McpServerState(r, port) \in Running /\ McpServerState(r, port).phase = "binding"
      /\ McpServerState(r, port).root = r /\ McpServerState(r, port).secret = starts + 1
  BY <1>0 DEF McpServerState, Running, Phases, OwnerTypes
<1>2. /\ \A q \in Owners \ {p} : server'[q] = server[q]
      /\ server'[p] = McpServerState(r, port)
  BY <1>0 DEF OwnerTypes
<1>3. OwnerTypes'
  BY <1>0, <1>1 DEF OwnerTypes
<1>4. TokensFresh'
  BY <1>0, <1>1, <1>2 DEF TokensFresh, OwnerTypes
<1>5. TokensName'
  <2>1. (\A b \in Bases : desc[b].secret # starts + 1) /\ \A c \in Clients : conn[c].secret # starts + 1
    BY DEF TokensFresh, OwnerTypes
  <2>2. QED
    BY <1>0, <1>1, <1>2, <2>1 DEF TokensName
<1>6. OwnsRoot'
  <2>1. ASSUME NEW q \in Owners, Serving(q)' PROVE owner'[server'[q].root] = q
    <3>1. CASE q = p
      BY <1>0, <1>1, <1>2, <3>1 DEF OwnerTypes
    <3>2. CASE q # p
      <4>1. Serving(q) /\ owner[server[q].root] = q /\ server[q].root \in Bases
        BY <1>2, <2>1, <3>2, RunningServer DEF OwnsRoot, Running
      <4>2. server[q].root # r
        BY <1>0, <4>1
      <4>3. QED
        BY <1>0, <1>2, <3>2, <4>1, <4>2 DEF OwnerTypes
    <3>3. QED
      BY <3>1, <3>2
  <2>2. QED
    BY <2>1 DEF OwnsRoot
<1>7. DescriptorInPlace' /\ Awaits'
  BY <1>0, <1>1, <1>2 DEF DescriptorInPlace, Descriptor, Awaits
<1>8. QED
  BY <1>3, <1>4, <1>5, <1>6, <1>7

\* A process that writes or removes the descriptor of its own root disturbs
\* no other process: the others lease other roots.
LEMMA DescriptorStep ==
  ASSUME ControlInv, NEW p \in Owners, NEW from \in Phases, NEW to \in Phases,
         Phase(p, from, to), UNCHANGED <<owner, conn, starts, tries>>,
         NEW d, desc' = [desc EXCEPT ![server[p].root] = d],
         (d = NoDesc /\ to # "serving") \/ d = Descriptor(server[p])
  PROVE  ControlInv'
<1> USE ProcessAssumption DEF ControlInv, Serving
<1>1. /\ Serving(p) /\ server[p] \in Running /\ server[p].phase = from
      /\ server' \in [Owners -> Running \cup {NoServer}]
      /\ server'[p].phase = to /\ server'[p].root = server[p].root
      /\ server'[p].secret = server[p].secret /\ server'[p].port = server[p].port
      /\ \A q \in Owners \ {p} : server'[q] = server[q]
  BY PhaseFacts
<1>2. server[p].root \in Bases /\ owner[server[p].root] = p /\ server[p].secret \in 1 .. starts
  BY <1>1 DEF Running, OwnsRoot, TokensFresh
<1>3. /\ d \in Published \cup {NoDesc}
      /\ d.secret = 0 \/ (d.secret = server[p].secret /\ d.base = server[p].root)
  BY <1>1 DEF Published, NoDesc, Descriptor, Running
<1>4. \A b \in Bases : desc'[b] = IF b = server[p].root THEN d ELSE desc[b]
  BY DEF OwnerTypes
<1>5. OwnerTypes'
  BY <1>1, <1>3 DEF OwnerTypes
<1>6. TokensFresh'
  BY <1>1, <1>2, <1>3, <1>4 DEF TokensFresh, OwnerTypes
<1>7. TokensName'
  <2>1. \A q \in Owners : server'[q].phase # "none" => server[q].phase # "none"
    BY <1>1
  <2>2. \A q \in Owners : server'[q].secret = server[q].secret /\ server'[q].root = server[q].root
    BY <1>1
  <2>3. ASSUME NEW q \in Owners, NEW b \in Bases, Serving(q), desc'[b].secret = server[q].secret
        PROVE  desc'[b].base = server[q].root
    <3>1. CASE b # server[p].root
      BY <1>4, <2>3, <3>1 DEF TokensName
    <3>2. CASE b = server[p].root
      <4>1. server[q].secret # 0 /\ desc'[b] = d
        BY <1>4, <2>3, <3>2 DEF TokensFresh
      <4>2. d.secret = server[p].secret /\ q = p
        BY <1>1, <1>3, <2>3, <4>1 DEF TokensFresh
      <4>3. QED
        BY <1>2, <1>3, <4>1, <4>2
    <3>3. QED
      BY <3>1, <3>2
  <2>4. QED
    BY <2>1, <2>2, <2>3 DEF TokensName
<1>8. OwnsRoot' /\ Awaits'
  BY <1>1 DEF OwnsRoot, Awaits
<1>9. DescriptorInPlace'
  <2>1. ASSUME NEW q \in Owners, server'[q].phase = "serving"
        PROVE  desc'[server'[q].root] = Descriptor(server'[q])
    <3>1. CASE q = p
      BY <1>1, <1>2, <1>4, <2>1, <3>1 DEF Descriptor
    <3>2. CASE q # p
      <4>1. server'[q] = server[q] /\ server[q].phase = "serving"
        BY <1>1, <2>1, <3>2
      <4>2. server[q].root \in Bases /\ owner[server[q].root] = q
        BY <4>1, RunningServer DEF OwnsRoot, Running
      <4>3. server[q].root # server[p].root
        BY <1>2, <3>2, <4>2
      <4>4. QED
        BY <1>4, <4>1, <4>2, <4>3 DEF DescriptorInPlace
    <3>3. QED
      BY <3>1, <3>2
  <2>2. QED
    BY <2>1 DEF DescriptorInPlace
<1>10. QED
  BY <1>5, <1>6, <1>7, <1>8, <1>9

\* The end of a process, orderly or not: its leases go with it.
LEMMA EndStep ==
  ASSUME ControlInv, NEW p \in Owners, Serving(p),
         server' = [server EXCEPT ![p] = NoServer],
         owner' = [r \in Bases |-> IF owner[r] = p THEN None ELSE owner[r]],
         UNCHANGED <<desc, conn, starts, tries>>
  PROVE  ControlInv'
<1> USE ProcessAssumption DEF ControlInv, Serving
<1>1. /\ server'[p] = NoServer /\ NoServer.phase = "none"
      /\ \A q \in Owners \ {p} : server'[q] = server[q]
  BY DEF OwnerTypes, NoServer
<1>2. OwnerTypes'
  BY DEF OwnerTypes
<1>3. TokensFresh' /\ TokensName'
  BY <1>1 DEF TokensFresh, TokensName
<1>4. OwnsRoot'
  <2>1. ASSUME NEW q \in Owners, Serving(q)' PROVE owner'[server'[q].root] = q
    <3>1. q # p /\ server'[q] = server[q] /\ Serving(q)
      BY <1>1, <2>1
    <3>2. server[q].root \in Bases /\ owner[server[q].root] = q
      BY <3>1, RunningServer DEF OwnsRoot, Running
    <3>3. QED
      BY <3>1, <3>2
  <2>2. QED
    BY <2>1 DEF OwnsRoot
<1>5. DescriptorInPlace' /\ Awaits'
  BY <1>1 DEF DescriptorInPlace, Descriptor, Awaits
<1>6. QED
  BY <1>2, <1>3, <1>4, <1>5

\* A lease taken on a free root, or returned by another command, is no
\* server's root.
LEMMA LeaseStep ==
  ASSUME ControlInv, NEW r \in Bases, NEW o \in Owners \cup {Other, None},
         owner[r] \in {None, Other}, owner' = [owner EXCEPT ![r] = o],
         UNCHANGED <<server, desc, conn, starts, tries>>
  PROVE  ControlInv'
<1> USE ProcessAssumption DEF ControlInv, Serving
<1>1. OwnerTypes'
  BY DEF OwnerTypes
<1>2. TokensFresh' /\ TokensName' /\ DescriptorInPlace' /\ Awaits'
  BY DEF TokensFresh, TokensName, DescriptorInPlace, Descriptor, Awaits
<1>3. ASSUME NEW q \in Owners, Serving(q) PROVE owner'[server[q].root] = q
  <2>1. server[q].root \in Bases /\ owner[server[q].root] = q
    BY <1>3, RunningServer DEF OwnsRoot, Running
  <2>2. QED
    BY <2>1 DEF OwnerTypes
<1>4. QED
  BY <1>1, <1>2, <1>3 DEF OwnsRoot

LEMMA CopyStep ==
  ASSUME ControlInv, NEW r \in Served, NEW q \in Served, CopyBase(r, q)
  PROVE  ControlInv'
<1> USE ProcessAssumption, BaseAssumption DEF ControlInv, Serving
<1>0. /\ r \in Bases /\ q \in Bases /\ owner[q] = None
      /\ desc' = [desc EXCEPT ![q] = desc[r]]
      /\ UNCHANGED <<owner, server, conn, starts, tries>>
  BY DEF CopyBase
<1>1. \A b \in Bases : desc'[b] = IF b = q THEN desc[r] ELSE desc[b]
  BY <1>0 DEF OwnerTypes
<1>2. OwnerTypes'
  BY <1>0 DEF OwnerTypes
<1>3. TokensFresh' /\ TokensName' /\ OwnsRoot' /\ Awaits'
  BY <1>0, <1>1 DEF TokensFresh, TokensName, OwnsRoot, Awaits
<1>4. ASSUME NEW p \in Owners, server[p].phase = "serving"
      PROVE  desc'[server[p].root] = Descriptor(server[p])
  <2>1. server[p].root \in Bases /\ owner[server[p].root] = p
    BY <1>4, RunningServer DEF OwnsRoot, Running
  <2>2. server[p].root # q
    BY <1>0, <2>1
  <2>3. QED
    BY <1>1, <1>4, <2>1, <2>2 DEF DescriptorInPlace
<1>5. QED
  BY <1>0, <1>2, <1>3, <1>4 DEF DescriptorInPlace, Descriptor

\* The owner's side of a connection: the server takes the next line under its
\* mutex, and keeps its root, its token and its lease.
LEMMA RequestFacts ==
  ASSUME OwnerTypes, NEW c \in Clients, NEW p \in Owners, ProcessRequest(c, p)
  PROVE  LET s == server[p]
             q == Head(conn[c].inbox) IN
         /\ conn[c].st \in {"authed", "waiting"} /\ Alive(c) /\ p = conn[c].peer
         /\ s \in Running /\ q \in Request /\ conn[c].inbox # <<>>
         /\ \E t \in Ready(s, q) :
               /\ owner' = IF t = s THEN owner ELSE [owner EXCEPT ![ToOpen(s, q)] = p]
               /\ server' = [server EXCEPT ![p] = Processed(t, q).s]
               /\ conn' = [conn EXCEPT ![c] = Taken(conn[c], q, Processed(t, q).reply)]
         /\ UNCHANGED <<desc, starts, tries>>
<1>1. conn[c].inbox \in Seq(Request)
  BY DEF OwnerTypes, Client
<1>2. conn[c].inbox # <<>> /\ Alive(c) /\ p = conn[c].peer
  BY DEF ProcessRequest
<1>3. Head(conn[c].inbox) \in Request
  BY <1>1, <1>2, HeadTailProperties
<1>4. server[p] \in Running
  BY <1>2, RunningServer DEF Alive
<1>5. \E t \in Ready(server[p], Head(conn[c].inbox)) :
        /\ owner' = IF t = server[p] THEN owner
                    ELSE [owner EXCEPT ![ToOpen(server[p], Head(conn[c].inbox))] = p]
        /\ server' = [server EXCEPT ![p] = Processed(t, Head(conn[c].inbox)).s]
        /\ conn' = [conn EXCEPT ![c] =
              Taken(conn[c], Head(conn[c].inbox), Processed(t, Head(conn[c].inbox)).reply)]
  BY DEF ProcessRequest
<1>6. conn[c].st \in {"authed", "waiting"} /\ UNCHANGED <<desc, starts, tries>>
  BY DEF ProcessRequest
<1>7. QED
  BY <1>2, <1>3, <1>4, <1>5, <1>6

LEMMA ResponseType ==
  ASSUME NEW q \in Request, NEW a \in Answer PROVE Response(q, a) \in Seq(Answer)
  BY DEF Response

\* The client after one of its lines has been processed.
LEMMA TakenClient ==
  ASSUME NEW k \in Client, k.inbox # <<>>, NEW q \in Request, NEW a \in Answer
  PROVE  LET d == Taken(k, q, a) IN
         /\ d \in Client
         /\ d.st = k.st /\ d.secret = k.secret /\ d.peer = k.peer /\ d.at = k.at
         /\ d.bound = k.bound /\ d.wrong = k.wrong
         /\ d.inbox = Tail(k.inbox) /\ d.outbox = k.outbox \o Response(q, a)
<1>1. k.inbox \in Seq(Request) /\ k.outbox \in Seq(Answer)
  BY DEF Client
<1>2. Tail(k.inbox) \in Seq(Request)
  BY <1>1, HeadTailProperties
<1>3. k.outbox \o Response(q, a) \in Seq(Answer)
  BY <1>1, ResponseType, ConcatProperties
<1>4. QED
  BY <1>2, <1>3 DEF Client, Taken

LEMMA RequestStep ==
  ASSUME ControlInv, NEW c \in Clients, NEW p \in Owners, ProcessRequest(c, p)
  PROVE  ControlInv'
<1> USE ProcessAssumption DEF ControlInv, Serving
<1> DEFINE s == server[p]
           q == Head(conn[c].inbox)
<1>1. s \in Running /\ q \in Request /\ conn[c].inbox # <<>> /\ UNCHANGED <<desc, starts, tries>>
  BY RequestFacts
<1>2. PICK t \in Ready(s, q) :
        /\ owner' = IF t = s THEN owner ELSE [owner EXCEPT ![ToOpen(s, q)] = p]
        /\ server' = [server EXCEPT ![p] = Processed(t, q).s]
        /\ conn' = [conn EXCEPT ![c] = Taken(conn[c], q, Processed(t, q).reply)]
  BY RequestFacts
<1> DEFINE u == Processed(t, q).s
           a == Processed(t, q).reply
           d == Taken(conn[c], q, a)
<1>3. t \in Running /\ (t # s => ToOpen(s, q) \in Bases /\ owner[ToOpen(s, q)] = None)
  BY <1>1, ReadyServer
<1>4. /\ u \in Running /\ u.phase = s.phase /\ u.root = s.root /\ u.secret = s.secret
      /\ u.port = s.port /\ a \in Answer
  BY <1>1, <1>3, ReadyServer, ProcessedServer
<1> HIDE DEF s, q, u, a
<1>5. d \in Client /\ d.st = conn[c].st /\ d.secret = conn[c].secret /\ d.at = conn[c].at
  <2>1. conn[c] \in Client /\ conn[c].inbox # <<>>
    BY <1>1 DEF OwnerTypes
  <2>2. QED
    BY <1>1, <1>4, <2>1, TakenClient
<1>6. /\ owner' \in [Bases -> Owners \cup {Other, None}] /\ server' = [server EXCEPT ![p] = u]
      /\ conn' = [conn EXCEPT ![c] = d]
  <2>1. owner' \in [Bases -> Owners \cup {Other, None}]
    BY <1>2, <1>3 DEF OwnerTypes
  <2>2. server' = [server EXCEPT ![p] = u]
    BY <1>2 DEF u
  <2>3. conn' = [conn EXCEPT ![c] = d]
    BY <1>2 DEF a
  <2>4. QED
    BY <2>1, <2>2, <2>3
<1> HIDE DEF d
<1>7. \A b \in Bases : owner[b] # None => owner'[b] = owner[b]
  BY <1>2, <1>3 DEF OwnerTypes
<1>8. OwnerTypes'
  BY <1>1, <1>4, <1>5, <1>6 DEF OwnerTypes
<1>9. /\ server'[p] = u /\ \A o \in Owners \ {p} : server'[o] = server[o]
      /\ conn'[c] = d /\ \A e \in Clients \ {c} : conn'[e] = conn[e]
  BY <1>6 DEF OwnerTypes
<1>10. \A o \in Owners : server'[o].phase = server[o].phase /\ server'[o].root = server[o].root
         /\ server'[o].secret = server[o].secret /\ server'[o].port = server[o].port
  BY <1>4, <1>9 DEF s
<1>11. \A e \in Clients : conn'[e].st = conn[e].st /\ conn'[e].secret = conn[e].secret
  BY <1>5, <1>9
<1>12. TokensFresh' /\ TokensName'
  BY <1>1, <1>10, <1>11 DEF TokensFresh, TokensName
<1>13. ASSUME NEW o \in Owners, Serving(o) PROVE owner'[server[o].root] = o
  <2>1. server[o].root \in Bases /\ owner[server[o].root] = o
    BY <1>13, RunningServer DEF OwnsRoot, Running
  <2>2. QED
    BY <1>7, <2>1
<1>14. OwnsRoot' /\ DescriptorInPlace' /\ Awaits'
  BY <1>1, <1>5, <1>9, <1>10, <1>13 DEF OwnsRoot, DescriptorInPlace, Descriptor, Awaits
<1>15. QED
  BY <1>8, <1>12, <1>14

\* The records a client's steps leave behind.
LEMMA ClientRecords ==
  ASSUME NEW k \in Client
  PROVE  /\ NoConn(k.at) \in Client /\ NoConn(k.at).st = "idle" /\ NoConn(k.at).secret = 0
         /\ \A p \in Owners : [k EXCEPT !.st = "dialed", !.peer = p] \in Client
         /\ [k EXCEPT !.st = "authed"] \in Client
         /\ \A n \in Nat, o \in Ports :
               [k EXCEPT !.st = "found", !.secret = n, !.port = o] \in Client
<1>1. NoConn(k.at) \in Client
  BY EmptySeq DEF NoConn, Client
<1>2. NoConn(k.at).st = "idle" /\ NoConn(k.at).secret = 0
  BY DEF NoConn
<1>3. QED
  BY <1>1, <1>2 DEF Client

LEMMA ReadDescriptorStep ==
  ASSUME ControlInv, NEW c \in Clients, ReadDescriptor(c) PROVE ControlInv'
<1> USE DEF ControlInv
<1> DEFINE d == desc[Target[c]]
<1>0. Target[c] \in Bases /\ conn[c] \in Client /\ d \in Published \cup {NoDesc}
  BY BaseAssumption DEF OwnerTypes
<1>1. tries' \in Nat /\ UNCHANGED <<owner, server, desc, starts>>
  BY DEF ReadDescriptor, OwnerTypes
<1>2. CASE validate_control_descriptor(Target[c], d)
  <2>1. d \in Published /\ d.base = Target[c]
    BY <1>0, <1>2 DEF validate_control_descriptor
  <2> DEFINE k == [conn[c] EXCEPT !.st = "found", !.secret = d.secret, !.port = d.port]
  <2>2. conn' = [conn EXCEPT ![c] = k]
    BY <1>2 DEF ReadDescriptor
  <2>3. k \in Client /\ k.secret = d.secret /\ k.st # "waiting"
    BY <1>0, <2>1 DEF Published, Client
  <2>4. d.secret \in 0 .. starts
    BY <1>0 DEF TokensFresh
  <2>5. \A p \in Owners : Serving(p) /\ d.secret = server[p].secret => server[p].root = Target[c]
    BY <1>0, <2>1 DEF TokensName
  <2> HIDE DEF k, d
  <2>6. QED
    BY <1>1, <2>2, <2>3, <2>4, <2>5, ClientStep
<1>3. CASE ~validate_control_descriptor(Target[c], d)
  <2>1. conn' = [conn EXCEPT ![c] = conn[c]]
    BY <1>3 DEF ReadDescriptor
  <2>2. conn[c].secret \in 0 .. starts /\ (conn[c].st = "waiting" => conn[c].at <= Len(Script[c]))
    BY DEF TokensFresh, Awaits
  <2>3. \A p \in Owners : Serving(p) /\ conn[c].st # "idle" /\ conn[c].secret = server[p].secret =>
            server[p].root = Target[c]
    BY DEF TokensName
  <2>4. QED
    BY <1>0, <1>1, <2>1, <2>2, <2>3, ClientStep
<1>4. QED
  BY <1>2, <1>3

\* The steps of a client that has its token, and stays with it or gives up.
LEMMA SameTokenStep ==
  ASSUME ControlInv, NEW c \in Clients, NEW d \in Client, conn' = [conn EXCEPT ![c] = d],
         \/ d.st = "idle" /\ d.secret = 0
         \/ conn[c].st # "idle" /\ d.secret = conn[c].secret,
         d.st = "waiting" => d.at <= Len(Script[c]),
         UNCHANGED <<owner, server, desc, starts, tries>>
  PROVE  ControlInv'
<1> USE DEF ControlInv
<1>1. d.secret \in 0 .. starts
  BY DEF TokensFresh, OwnerTypes
<1>2. \A p \in Owners : Serving(p) /\ d.st # "idle" /\ d.secret = server[p].secret =>
          server[p].root = Target[c]
  BY DEF TokensName
<1>3. tries' \in Nat
  BY DEF OwnerTypes
<1>4. QED
  BY <1>1, <1>2, <1>3, ClientStep

LEMMA DialStep == ASSUME ControlInv, NEW c \in Clients, Dial(c) PROVE ControlInv'
<1>0. conn[c] \in Client /\ conn[c].st # "idle" /\ UNCHANGED <<owner, server, desc, starts, tries>>
  BY DEF ControlInv, OwnerTypes, Dial
<1>1. PICK p \in Owners : conn' = [conn EXCEPT ![c] = [conn[c] EXCEPT !.st = "dialed", !.peer = p]]
  BY DEF Dial
<1> DEFINE d == [conn[c] EXCEPT !.st = "dialed", !.peer = p]
<1>2. d \in Client /\ d.secret = conn[c].secret /\ d.st = "dialed" /\ conn' = [conn EXCEPT ![c] = d]
  BY <1>0, <1>1 DEF Client
<1> HIDE DEF d
<1>3. QED
  BY <1>0, <1>2, SameTokenStep

LEMMA FailsStep == ASSUME ControlInv, NEW c \in Clients, Fails(c) PROVE ControlInv'
<1>0. conn[c] \in Client /\ conn' = [conn EXCEPT ![c] = NoConn(conn[c].at)]
      /\ UNCHANGED <<owner, server, desc, starts, tries>>
  BY DEF ControlInv, OwnerTypes, Fails
<1>1. QED
  BY <1>0, ClientRecords, SameTokenStep

LEMMA AuthenticateStep == ASSUME ControlInv, NEW c \in Clients, Authenticate(c) PROVE ControlInv'
<1>0. conn[c] \in Client /\ conn[c].st # "idle" /\ UNCHANGED <<owner, server, desc, starts, tries>>
  BY DEF ControlInv, OwnerTypes, Authenticate
<1>1. CASE server[conn[c].peer].secret = conn[c].secret
  <2> DEFINE d == [conn[c] EXCEPT !.st = "authed"]
  <2>1. d \in Client /\ d.secret = conn[c].secret /\ d.st = "authed"
    BY <1>0 DEF Client
  <2>2. conn' = [conn EXCEPT ![c] = d]
    BY <1>1 DEF Authenticate
  <2> HIDE DEF d
  <2>3. QED
    BY <1>0, <2>1, <2>2, SameTokenStep
<1>2. CASE server[conn[c].peer].secret # conn[c].secret
  <2>1. conn' = [conn EXCEPT ![c] = NoConn(conn[c].at)]
    BY <1>2 DEF Authenticate
  <2>2. QED
    BY <1>0, <2>1, ClientRecords, SameTokenStep
<1>3. QED
  BY <1>1, <1>2

LEMMA ScriptRequest ==
  ASSUME NEW c \in Clients, NEW n \in Nat, 1 <= n, n <= Len(Script[c])
  PROVE  Script[c][n] \in Request
<1>1. Script[c] \in Seq(Request)
  BY ScriptAssumption
<1>2. n \in 1 .. Len(Script[c])
  BY <1>1
<1>3. QED
  BY <1>1, <1>2, ElementOfSeq

LEMMA SentClient ==
  ASSUME NEW k \in Client, NEW q \in Request, k.st = "authed"
  PROVE  LET d == SentBy(k, q) IN
         /\ d \in Client
         /\ d.secret = k.secret /\ d.peer = k.peer /\ d.bound = k.bound /\ d.wrong = k.wrong
         /\ d.inbox = Append(k.inbox, q) /\ d.outbox = k.outbox
         /\ q.note => d.st = "authed" /\ d.at = k.at + 1
         /\ ~q.note => d.st = "waiting" /\ d.at = k.at
<1>1. k.inbox \in Seq(Request)
  BY DEF Client
<1>2. Append(k.inbox, q) \in Seq(Request) /\ k.at + 1 \in Nat \ {0}
  BY <1>1 DEF Client
<1>3. CASE q.note
  BY <1>2, <1>3 DEF Client, SentBy, mcp_request_expects_response
<1>4. CASE ~q.note
  BY <1>2, <1>4 DEF Client, SentBy, mcp_request_expects_response
<1>5. QED
  BY <1>3, <1>4

LEMMA ReceivedClient ==
  ASSUME NEW k \in Client, k.outbox # <<>>, NEW q \in Request
  PROVE  LET a == Head(k.outbox)
             d == ReceivedBy(k, q, a) IN
         /\ a \in Answer /\ d \in Client
         /\ d.st = "authed" /\ d.secret = k.secret /\ d.peer = k.peer /\ d.at = k.at + 1
         /\ d.inbox = k.inbox /\ d.outbox = Tail(k.outbox)
         /\ d.bound = IF a.ok /\ q.kind = "connect_base" THEN [k.bound EXCEPT ![q.ref] = a.base]
                      ELSE k.bound
         /\ d.wrong <=> \/ a.id # q.id
                        \/ a.ok /\ q.ref # None /\ k.bound[q.ref] \notin {None, a.base}
<1> DEFINE a == Head(k.outbox)
           bd == IF a.ok /\ q.kind = "connect_base" THEN [k.bound EXCEPT ![q.ref] = a.base] ELSE k.bound
           w == \/ a.id # q.id
                \/ a.ok /\ q.ref # None /\ k.bound[q.ref] \notin {None, a.base}
<1>1. k.outbox \in Seq(Answer) /\ k.bound \in [Refs -> Bases \cup {None}]
  BY DEF Client
<1>2. a \in Answer /\ Tail(k.outbox) \in Seq(Answer) /\ k.at + 1 \in Nat \ {0}
  BY <1>1, HeadTailProperties DEF Client
<1>3. bd \in [Refs -> Bases \cup {None}]
  BY <1>1, <1>2 DEF Answer, Request
<1>4. w \in BOOLEAN
  OBVIOUS
<1>5. ReceivedBy(k, q, a) = [k EXCEPT !.st = "authed", !.at = k.at + 1, !.outbox = Tail(k.outbox),
                                      !.bound = bd, !.wrong = w]
  BY DEF ReceivedBy
<1> HIDE DEF a, bd, w
<1>6. /\ ReceivedBy(k, q, a) \in Client
      /\ ReceivedBy(k, q, a).st = "authed" /\ ReceivedBy(k, q, a).secret = k.secret
      /\ ReceivedBy(k, q, a).peer = k.peer /\ ReceivedBy(k, q, a).at = k.at + 1
      /\ ReceivedBy(k, q, a).inbox = k.inbox /\ ReceivedBy(k, q, a).outbox = Tail(k.outbox)
      /\ ReceivedBy(k, q, a).bound = bd /\ ReceivedBy(k, q, a).wrong = w
  BY <1>2, <1>3, <1>4, <1>5 DEF Client
<1>7. QED
  BY <1>2, <1>6 DEF a, bd, w

LEMMA ControlStep == ControlInv /\ [LNext]_ctl => ControlInv'
<1> SUFFICES ASSUME ControlInv, [LNext]_ctl PROVE ControlInv'
  OBVIOUS
<1>1. CASE UNCHANGED ctl
  BY <1>1 DEF ctl, ControlInv, OwnerTypes, TokensFresh, TokensName, OwnsRoot, DescriptorInPlace,
              Awaits, Serving, Descriptor
<1>2. ASSUME NEW p \in Owners, NEW r \in Served, NEW port \in Ports, StartServer(p, r, port)
      PROVE  ControlInv'
  BY <1>2, StartStep
<1>3. ASSUME NEW p \in Owners, RemoveOld(p) PROVE ControlInv'
  BY <1>3, DescriptorStep DEF RemoveOld, Phases
<1>4. ASSUME NEW p \in Owners, Publish(p) PROVE ControlInv'
  BY <1>4, DescriptorStep DEF Publish, Phases
<1>5. ASSUME NEW p \in Owners, StartFails(p) PROVE ControlInv'
  BY <1>5, PhaseStep DEF StartFails, Phases
<1>6. ASSUME NEW p \in Owners, Close(p) PROVE ControlInv'
  BY <1>6, PhaseStep DEF Close, Phases
<1>7. ASSUME NEW p \in Owners, ReadGuard(p) PROVE ControlInv'
  BY <1>7, PhaseStep DEF ReadGuard, Phases
<1>8. ASSUME NEW p \in Owners, RemoveGuard(p) PROVE ControlInv'
  BY <1>8, DescriptorStep DEF RemoveGuard, Phases
<1>9. ASSUME NEW p \in Owners, StopServer(p) \/ ProcessDies(p) PROVE ControlInv'
  BY <1>9, EndStep DEF StopServer, ProcessDies, Serving
<1>10. ASSUME NEW c \in Clients, NEW p \in Owners, ProcessRequest(c, p) PROVE ControlInv'
  BY <1>10, RequestStep
<1>11. ASSUME NEW c \in Clients, ReadDescriptor(c) PROVE ControlInv'
  BY <1>11, ReadDescriptorStep
<1>12. ASSUME NEW c \in Clients, Dial(c) \/ Fails(c) \/ Authenticate(c) PROVE ControlInv'
  BY <1>12, DialStep, FailsStep, AuthenticateStep
<1>13. ASSUME NEW c \in Clients, SendRequest(c) PROVE ControlInv'
  <2>1. /\ conn[c] \in Client /\ conn[c].st = "authed" /\ conn[c].st # "idle"
        /\ conn[c].at <= Len(Script[c]) /\ UNCHANGED <<owner, server, desc, starts, tries>>
    BY <1>13 DEF SendRequest, ControlInv, OwnerTypes
  <2>2. Script[c][conn[c].at] \in Request
    BY <2>1, ScriptRequest DEF Client
  <2>3. conn' = [conn EXCEPT ![c] = SentBy(conn[c], Script[c][conn[c].at])]
    BY <1>13 DEF SendRequest
  <2>4. LET d == SentBy(conn[c], Script[c][conn[c].at]) IN
        d \in Client /\ d.secret = conn[c].secret /\ (d.st = "waiting" => d.at <= Len(Script[c]))
    BY <2>1, <2>2, SentClient DEF Request
  <2>5. QED
    BY <2>1, <2>3, <2>4, SameTokenStep
<1>14. ASSUME NEW c \in Clients, Receive(c) PROVE ControlInv'
  <2>1. /\ conn[c] \in Client /\ conn[c].st = "waiting" /\ conn[c].st # "idle"
        /\ conn[c].outbox # <<>> /\ conn[c].at <= Len(Script[c])
        /\ UNCHANGED <<owner, server, desc, starts, tries>>
    BY <1>14 DEF Receive, ControlInv, OwnerTypes, Awaits
  <2>2. Script[c][conn[c].at] \in Request
    BY <2>1, ScriptRequest DEF Client
  <2>3. conn' = [conn EXCEPT ![c] = ReceivedBy(conn[c], Script[c][conn[c].at], Head(conn[c].outbox))]
    BY <1>14 DEF Receive
  <2>4. LET d == ReceivedBy(conn[c], Script[c][conn[c].at], Head(conn[c].outbox)) IN
        d \in Client /\ d.secret = conn[c].secret /\ d.st # "waiting"
    BY <2>1, <2>2, ReceivedClient
  <2>5. QED
    BY <2>1, <2>3, <2>4, SameTokenStep
<1>15. ASSUME NEW r \in Served, OpenBase(r) \/ CloseBase(r) PROVE ControlInv'
  BY <1>15, LeaseStep, BaseAssumption DEF OpenBase, CloseBase
<1>16. ASSUME NEW r \in Served, NEW q \in Served, CopyBase(r, q) PROVE ControlInv'
  BY <1>16, CopyStep
<1>17. QED
  BY <1>1, <1>2, <1>3, <1>4, <1>5, <1>6, <1>7, <1>8, <1>9, <1>10, <1>11, <1>12, <1>13, <1>14,
     <1>15, <1>16 DEF LNext, Starting, Stopping

LEMMA ControlInvariant == LSpec => []ControlInv
  BY ControlInit, ControlStep, PTL DEF LSpec

\* The descriptor of a served base is the owner's, and an authenticated
\* connection is one with the owner of the base its client named, for any
\* number of processes, ports, clients and bases and any order of starts,
\* closes, deaths and copies.
THEOREM DescriptorLeadsToOwner == LSpec => []ControlReachesOwner
<1>1. ASSUME ControlInv PROVE ControlReachesOwner
  <2>1. ASSUME NEW c \in Clients, conn[c].st \in {"authed", "waiting"}, Alive(c)
        PROVE  server[conn[c].peer].root = Target[c] /\ owner[Target[c]] = conn[c].peer
    <3>1. conn[c].peer \in Owners /\ Serving(conn[c].peer)
          /\ server[conn[c].peer].secret = conn[c].secret
      BY <1>1, <2>1 DEF Alive, ControlInv, OwnerTypes, Client
    <3>2. server[conn[c].peer].root = Target[c]
      BY <1>1, <2>1, <3>1 DEF ControlInv, TokensName
    <3>3. QED
      BY <1>1, <3>1, <3>2 DEF ControlInv, OwnsRoot
  <2>2. QED
    BY <1>1, <2>1 DEF ControlInv, DescriptorInPlace, ControlReachesOwner
<1>2. QED
  BY <1>1, ControlInvariant, PTL

-----------------------------------------------------------------------------
(* The replies of a connection *)

\* The server at the other end has root r connected as f.
Names(c, f, r) == f \in server[conn[c].peer].stores /\ server[conn[c].peer].bases[f] = r

\* Reply a of the connection of c is the one to q: it says what the client has
\* been told before, and while the server runs it still says what is the case.
TrueReply(c, a, q) ==
    /\ a.id = q.id
    /\ a.ok /\ q.ref # None =>
          /\ a.base # None /\ conn[c].bound[q.ref] \in {None, a.base}
          /\ Alive(c) => Names(c, q.ref, a.base)

\* Only notifications are before the request that is waited for, and none of
\* them is answered.
Asked(k, q) ==
    /\ k.outbox = <<>> /\ k.inbox # <<>> /\ k.inbox[Len(k.inbox)] = q
    /\ \A i \in 1 .. Len(k.inbox) - 1 : k.inbox[i].note

Faithful(c) ==
    LET k == conn[c]
        q == Script[c][k.at] IN
    /\ ~k.wrong
    /\ k.st \in {"idle", "found", "dialed"} =>
          k.inbox = <<>> /\ k.outbox = <<>> /\ \A f \in Refs : k.bound[f] = None
    /\ k.st = "authed" => k.outbox = <<>> /\ \A i \in 1 .. Len(k.inbox) : k.inbox[i].note
    /\ k.st = "waiting" =>
          /\ ~q.note
          /\ \/ Asked(k, q)
             \/ k.inbox = <<>> /\ Len(k.outbox) = 1 /\ TrueReply(c, k.outbox[1], q)
    /\ Alive(c) => \A f \in Refs : k.bound[f] # None => Names(c, f, k.bound[f])

\* A connected base_ref has a root.
Rooted == \A p \in Owners : Serving(p) => \A f \in server[p].stores : server[p].bases[f] # None

RepliesInv == Rooted /\ \A c \in Clients : Faithful(c)

LEMMA RepliesInit == LInit => RepliesInv
<1> SUFFICES ASSUME LInit PROVE RepliesInv
  OBVIOUS
<1>1. \A c \in Clients : conn[c] = NoConn(1)
  BY DEF LInit
<1>2. \A p \in Owners : ~Serving(p)
  BY DEF LInit, Serving, NoServer
<1>3. \A c \in Clients : ~Alive(c)
  BY <1>1 DEF Alive, NoConn
<1>4. QED
  BY <1>1, <1>2, <1>3 DEF RepliesInv, Rooted, Faithful, NoConn

\* A step of somebody else, after which the server at the other end is gone or
\* names all it named.
LEMMA KeptClient ==
  ASSUME ControlInv, NEW c \in Clients, Faithful(c), conn'[c] = conn[c],
         Alive(c)' => /\ Alive(c)
                      /\ \A f \in server[conn[c].peer].stores :
                            /\ f \in server'[conn[c].peer].stores
                            /\ server'[conn[c].peer].bases[f] = server[conn[c].peer].bases[f]
  PROVE  Faithful(c)'
<1>1. \A f, r : Alive(c)' /\ Names(c, f, r) => Names(c, f, r)'
  BY DEF Names
<1>2. \A a, q : TrueReply(c, a, q) => TrueReply(c, a, q)'
  BY <1>1 DEF TrueReply
<1>3. QED
  BY <1>1, <1>2 DEF Faithful, Asked

\* What a step of a server keeps of the clients when it changes no connection.
LEMMA ServerKeeps ==
  ASSUME ControlInv, RepliesInv, NEW p \in Owners, UNCHANGED conn,
         \A o \in Owners \ {p} : server'[o] = server[o],
         \/ server'[p] = NoServer
         \/ Serving(p)' /\ server'[p].secret = starts + 1
         \/ /\ Serving(p) /\ server'[p].secret = server[p].secret
            /\ server'[p].stores = server[p].stores /\ server'[p].bases = server[p].bases
  PROVE  \A c \in Clients : Faithful(c)'
<1> SUFFICES ASSUME NEW c \in Clients PROVE Faithful(c)'
  OBVIOUS
<1>1. conn'[c] = conn[c] /\ Faithful(c) /\ conn[c].secret # starts + 1
      /\ conn[c].peer \in Owners \cup {None}
  BY DEF RepliesInv, ControlInv, TokensFresh, OwnerTypes, Client
<1>2. ASSUME Alive(c)' PROVE Alive(c) /\ server'[conn[c].peer].stores = server[conn[c].peer].stores
                             /\ server'[conn[c].peer].bases = server[conn[c].peer].bases
  BY <1>1, <1>2 DEF Alive, Serving, NoServer
<1>3. QED
  BY <1>1, <1>2, KeptClient

\* What a step of a client keeps of the others.
LEMMA OthersKept ==
  ASSUME ControlInv, RepliesInv, NEW c \in Clients, NEW d, conn' = [conn EXCEPT ![c] = d],
         UNCHANGED server, Faithful(c)'
  PROVE  RepliesInv'
<1>1. ASSUME NEW e \in Clients \ {c} PROVE Faithful(e)'
  <2>1. conn'[e] = conn[e] /\ Faithful(e)
    BY DEF ControlInv, OwnerTypes, RepliesInv
  <2>2. Alive(e)' => Alive(e)
    BY <2>1 DEF Alive, Serving
  <2>3. QED
    BY <2>1, <2>2, KeptClient
<1>2. QED
  BY <1>1 DEF RepliesInv, Rooted, Serving

\* A successful reply about a base_ref names the root that the ref is
\* connected to.
LEMMA ReplyNames ==
  ASSUME NEW t \in Running, NEW q \in Request, q.ref # None, Processed(t, q).reply.ok
  PROVE  q.ref \in t.stores /\ Processed(t, q).reply.base = t.bases[q.ref]
<1>1. CASE q.kind = "connect_base"
  BY <1>1 DEF Processed, connect_base, Reply, Connected
<1>2. CASE q.kind = "list_bases"
  BY <1>2 DEF Request
<1>3. CASE q.kind \in {"tool", "switch_base"}
  BY <1>3 DEF Processed, mcp_with_selected_store, Reply, Connected, RefOf
<1>4. CASE q.kind \notin {"connect_base", "list_bases", "tool", "switch_base"}
  BY <1>4 DEF Processed, Reply
<1>5. QED
  BY <1>1, <1>2, <1>3, <1>4

LEMMA IdleReplies ==
  ASSUME ControlInv, RepliesInv, NEW c \in Clients, NEW d, conn' = [conn EXCEPT ![c] = d],
         UNCHANGED server, d.st \in {"idle", "found", "dialed"}, ~d.wrong,
         d.inbox = <<>>, d.outbox = <<>>, \A f \in Refs : d.bound[f] = None
  PROVE  RepliesInv'
<1>1. conn'[c] = d
  BY DEF ControlInv, OwnerTypes
<1>2. Faithful(c)'
  BY <1>1 DEF Faithful
<1>3. QED
  BY <1>2, OthersKept

LEMMA SendReplies ==
  ASSUME ControlInv, RepliesInv, NEW c \in Clients, SendRequest(c) PROVE RepliesInv'
<1> DEFINE k == conn[c]
           q == Script[c][k.at]
           d == SentBy(k, q)
<1>1. /\ k \in Client /\ k.st = "authed" /\ k.at <= Len(Script[c])
      /\ conn' = [conn EXCEPT ![c] = d] /\ UNCHANGED server
  BY DEF SendRequest, ControlInv, OwnerTypes
<1>2. q \in Request
  BY <1>1, ScriptRequest DEF Client
<1>3. /\ d.secret = k.secret /\ d.peer = k.peer /\ d.bound = k.bound /\ d.wrong = k.wrong
      /\ d.inbox = Append(k.inbox, q) /\ d.outbox = k.outbox
      /\ q.note => d.st = "authed" /\ d.at = k.at + 1
      /\ ~q.note => d.st = "waiting" /\ d.at = k.at
  BY <1>1, <1>2, SentClient
<1>4. conn'[c] = d
  BY <1>1 DEF ControlInv, OwnerTypes
<1>5. k.inbox \in Seq(Request)
  BY <1>1 DEF Client
<1>6. /\ ~k.wrong /\ k.outbox = <<>> /\ \A i \in 1 .. Len(k.inbox) : k.inbox[i].note
      /\ Alive(c) => \A f \in Refs : k.bound[f] # None => Names(c, f, k.bound[f])
  BY <1>1 DEF RepliesInv, Faithful
<1> HIDE DEF d, q, k
<1>7. /\ Len(d.inbox) = Len(k.inbox) + 1 /\ Len(d.inbox) \in Nat /\ d.inbox # <<>>
      /\ d.inbox[Len(d.inbox)] = q
      /\ \A i \in 1 .. Len(d.inbox) - 1 : d.inbox[i].note
  BY <1>2, <1>3, <1>5, <1>6
<1>8. Alive(c)' => /\ Alive(c)
                   /\ \A f, r : Names(c, f, r) => Names(c, f, r)'
  BY <1>1, <1>3, <1>4 DEF Alive, Serving, Names, k
<1>9. CASE q.note
  <2>1. \A i \in 1 .. Len(d.inbox) : d.inbox[i].note
    BY <1>7, <1>9
  <2>2. Faithful(c)'
    BY <1>3, <1>4, <1>6, <1>8, <1>9, <2>1 DEF Faithful
  <2>3. QED
    BY <1>1, <2>2, OthersKept
<1>10. CASE ~q.note
  <2>1. Asked(d, q) /\ Script[c][d.at] = q
    BY <1>3, <1>6, <1>7, <1>10 DEF Asked, q
  <2>2. Faithful(c)'
    BY <1>3, <1>4, <1>6, <1>8, <1>10, <2>1 DEF Faithful
  <2>3. QED
    BY <1>1, <2>2, OthersKept
<1>11. QED
  BY <1>9, <1>10

LEMMA OneElement ==
  ASSUME NEW S, NEW s \in Seq(S), Len(s) = 1
  PROVE  s # <<>> /\ Head(s) = s[1] /\ Tail(s) = <<>>
<1>1. s # <<>>
  BY EmptySeq
<1>2. Tail(s) \in Seq(S) /\ Len(Tail(s)) = 0
  BY <1>1, HeadTailProperties
<1>3. Tail(s) = <<>>
  BY <1>2, EmptySeq
<1>4. QED
  BY <1>1, <1>3

LEMMA ReceiveReplies ==
  ASSUME ControlInv, RepliesInv, NEW c \in Clients, Receive(c) PROVE RepliesInv'
<1> DEFINE k == conn[c]
           q == Script[c][k.at]
           a == Head(k.outbox)
           d == ReceivedBy(k, q, a)
<1>1. /\ k \in Client /\ k.st = "waiting" /\ k.outbox # <<>> /\ k.at <= Len(Script[c])
      /\ conn' = [conn EXCEPT ![c] = d] /\ UNCHANGED server
  BY DEF Receive, ControlInv, OwnerTypes, Awaits
<1>2. q \in Request
  BY <1>1, ScriptRequest DEF Client
<1>3. /\ a \in Answer /\ d \in Client
      /\ d.st = "authed" /\ d.secret = k.secret /\ d.peer = k.peer
      /\ d.inbox = k.inbox /\ d.outbox = Tail(k.outbox)
      /\ d.bound = IF a.ok /\ q.kind = "connect_base" THEN [k.bound EXCEPT ![q.ref] = a.base]
                   ELSE k.bound
      /\ d.wrong <=> \/ a.id # q.id
                     \/ a.ok /\ q.ref # None /\ k.bound[q.ref] \notin {None, a.base}
  BY <1>1, <1>2, ReceivedClient
<1>4. conn'[c] = d /\ k.outbox \in Seq(Answer) /\ k.bound \in [Refs -> Bases \cup {None}]
  BY <1>1 DEF ControlInv, OwnerTypes, Client
<1>5. /\ k.inbox = <<>> /\ Len(k.outbox) = 1 /\ TrueReply(c, k.outbox[1], q)
      /\ Alive(c) => \A f \in Refs : k.bound[f] # None => Names(c, f, k.bound[f])
  BY <1>1 DEF RepliesInv, Faithful, Asked
<1>6. a = k.outbox[1] /\ Tail(k.outbox) = <<>>
  BY <1>4, <1>5, OneElement
<1> HIDE DEF d, a, q, k
<1>7. ~d.wrong
  BY <1>3, <1>5, <1>6 DEF TrueReply, k
<1>8. Alive(c)' => Alive(c)
  BY <1>1, <1>3, <1>4 DEF Alive, Serving, k
<1>9. ASSUME Alive(c), NEW f \in Refs, d.bound[f] # None
      PROVE  f \in server[d.peer].stores /\ server[d.peer].bases[f] = d.bound[f]
  <2>1. CASE a.ok /\ q.kind = "connect_base" /\ f = q.ref
    <3>1. q.ref # None /\ d.bound[f] = a.base
      BY <1>2, <1>3, <1>4, <2>1 DEF Request
    <3>2. Names(c, q.ref, a.base)
      BY <1>5, <1>6, <1>9, <2>1, <3>1 DEF TrueReply
    <3>3. QED
      BY <1>3, <2>1, <3>1, <3>2 DEF Names, k
  <2>2. CASE ~(a.ok /\ q.kind = "connect_base" /\ f = q.ref)
    <3>1. d.bound[f] = k.bound[f]
      BY <1>3, <1>4, <2>2
    <3>2. QED
      BY <1>3, <1>5, <1>9, <3>1 DEF Names, k
  <2>3. QED
    BY <2>1, <2>2
<1>10. Faithful(c)'
  <2>1. d.st = "authed" /\ d.outbox = <<>> /\ d.inbox = <<>>
    BY <1>3, <1>5, <1>6
  <2>2. \A i \in 1 .. Len(d.inbox) : d.inbox[i].note
    BY <2>1
  <2>3. Alive(c)' => \A f \in Refs : d.bound[f] # None =>
            f \in server'[d.peer].stores /\ server'[d.peer].bases[f] = d.bound[f]
    BY <1>1, <1>8, <1>9
  <2>4. QED
    BY <1>4, <1>7, <2>1, <2>2, <2>3 DEF Faithful, Names
<1>11. QED
  BY <1>1, <1>10, OthersKept

\* A line is taken: a notification goes unanswered, the request that is waited
\* for is the last line and gets the one true reply.
LEMMA TakenFaithful ==
  ASSUME NEW k \in Client, NEW q \in Request, NEW Q, NEW a \in Answer,
         k.inbox # <<>>, q = Head(k.inbox),
         k.st = "authed" => k.outbox = <<>> /\ \A i \in 1 .. Len(k.inbox) : k.inbox[i].note,
         k.st = "waiting" => ~Q.note /\ Asked(k, Q),
         k.st \in {"authed", "waiting"}
  PROVE  LET d == Taken(k, q, a) IN
         \/ /\ k.st = "authed" /\ d.outbox = <<>>
            /\ \A i \in 1 .. Len(d.inbox) : d.inbox[i].note
         \/ k.st = "waiting" /\ Asked(d, Q)
         \/ k.st = "waiting" /\ q = Q /\ d.inbox = <<>> /\ d.outbox = <<a>>
<1> DEFINE n == Tail(k.inbox)
           o == k.outbox \o Response(q, a)
           d == Taken(k, q, a)
<1>1. /\ k.inbox \in Seq(Request) /\ n \in Seq(Request) /\ Len(n) = Len(k.inbox) - 1
      /\ \A i \in 1 .. Len(n) : n[i] = k.inbox[i + 1]
  BY HeadTailProperties DEF Client
<1>2. d.inbox = n /\ d.outbox = o
  BY TakenClient
<1>3. q = k.inbox[1] /\ Len(k.inbox) \in Nat \ {0} /\ k.outbox = <<>> /\ Len(n) \in Nat
  BY <1>1, EmptySeq DEF Asked
<1>4. o = Response(q, a)
  <2>1. Response(q, a) \in Seq(Answer)
    BY ResponseType
  <2>2. QED
    BY <1>3, <2>1, ConcatEmptySeq
<1> HIDE DEF n, o, d
<1>5. CASE k.st = "authed"
  <2>1. q.note
    BY <1>3, <1>5
  <2>2. d.outbox = <<>>
    BY <1>2, <1>4, <2>1 DEF Response
  <2>3. \A i \in 1 .. Len(n) : n[i].note
    BY <1>1, <1>3, <1>5
  <2>4. QED
    BY <1>2, <1>5, <2>2, <2>3 DEF d
<1>6. CASE k.st = "waiting" /\ q.note
  <2>1. Len(k.inbox) # 1
    BY <1>3, <1>6 DEF Asked
  <2>2. d.outbox = <<>>
    BY <1>2, <1>4, <1>6 DEF Response
  <2>3. n # <<>> /\ n[Len(n)] = Q
    BY <1>1, <1>3, <1>6, <2>1, EmptySeq DEF Asked
  <2>4. \A i \in 1 .. Len(n) - 1 : n[i].note
    BY <1>1, <1>3, <1>6 DEF Asked
  <2>5. QED
    BY <1>2, <1>6, <2>2, <2>3, <2>4 DEF Asked, d
<1>7. CASE k.st = "waiting" /\ ~q.note
  <2>1. Len(k.inbox) = 1
    <3>1. 1 \notin 1 .. Len(k.inbox) - 1
      BY <1>3, <1>7 DEF Asked
    <3>2. \A m \in Nat \ {0} : 1 \notin 1 .. m - 1 => m = 1
      OBVIOUS
    <3>3. QED
      BY <1>3, <3>1, <3>2
  <2>2. q = Q /\ n = <<>>
    BY <1>1, <1>3, <1>7, <2>1, OneElement DEF Asked, n
  <2>3. d.outbox = <<a>>
    BY <1>2, <1>4, <1>7 DEF Response
  <2>4. QED
    BY <1>2, <1>7, <2>2, <2>3 DEF d
<1>8. QED
  BY <1>5, <1>6, <1>7

LEMMA RequestReplies ==
  ASSUME ControlInv, RepliesInv, NEW c \in Clients, NEW p \in Owners, ProcessRequest(c, p)
  PROVE  RepliesInv'
<1> DEFINE k == conn[c]
           s == server[p]
           q == Head(k.inbox)
           Q == Script[c][k.at]
<1>1. /\ k \in Client /\ k.st \in {"authed", "waiting"} /\ Alive(c) /\ p = k.peer
      /\ s \in Running /\ q \in Request /\ k.inbox # <<>>
  BY RequestFacts DEF ControlInv, OwnerTypes
<1>2. PICK t \in Ready(s, q) :
        /\ server' = [server EXCEPT ![p] = Processed(t, q).s]
        /\ conn' = [conn EXCEPT ![c] = Taken(k, q, Processed(t, q).reply)]
  BY RequestFacts DEF ControlInv
<1> DEFINE u == Processed(t, q).s
           a == Processed(t, q).reply
           d == Taken(k, q, a)
<1>3. /\ t \in Running /\ t.secret = s.secret /\ t.phase = s.phase
      /\ \A f \in s.stores : f \in t.stores /\ t.bases[f] = s.bases[f]
      /\ \A f \in t.stores : f \in s.stores \/ t.bases[f] # None
  BY <1>1, ReadyServer
<1>4. /\ u \in Running /\ u.phase = t.phase /\ u.secret = t.secret /\ u.stores = t.stores
      /\ \A f \in Refs : t.bases[f] # None => u.bases[f] = t.bases[f]
      /\ a \in Answer /\ a.id = q.id
  BY <1>1, <1>3, ProcessedServer
<1>5. q.ref # None /\ a.ok => q.ref \in t.stores /\ a.base = t.bases[q.ref]
  BY <1>1, <1>3, ReplyNames
<1>6. /\ d \in Client /\ d.st = k.st /\ d.secret = k.secret /\ d.peer = k.peer /\ d.at = k.at
      /\ d.bound = k.bound /\ d.wrong = k.wrong
  BY <1>1, <1>4, TakenClient
<1>7. Faithful(c) /\ Rooted /\ k.bound \in [Refs -> Bases \cup {None}]
  BY <1>1 DEF RepliesInv, Client
<1>8. s.stores \subseteq Refs /\ t.stores \subseteq Refs /\ Serving(p) /\ s.secret = k.secret
  BY <1>1, <1>3 DEF Running, Alive
<1> HIDE DEF k, s, q, Q, u, a, d
<1>9. /\ server'[p] = u /\ \A o \in Owners \ {p} : server'[o] = server[o]
      /\ conn'[c] = d /\ \A e \in Clients \ {c} : conn'[e] = conn[e]
  BY <1>2 DEF ControlInv, OwnerTypes, u, a, d
<1>10. \A f \in t.stores : t.bases[f] # None /\ f \in u.stores /\ u.bases[f] = t.bases[f]
  BY <1>3, <1>4, <1>7, <1>8 DEF Rooted, s
<1>11. \A f \in s.stores : f \in u.stores /\ u.bases[f] = s.bases[f]
  BY <1>3, <1>10
<1>12. Rooted'
  BY <1>3, <1>4, <1>8, <1>9, <1>10 DEF Rooted, Serving, RepliesInv, s
<1>13. ASSUME NEW e \in Clients \ {c} PROVE Faithful(e)'
  <2>1. conn'[e] = conn[e] /\ Faithful(e) /\ conn[e].peer \in Owners \cup {None}
    BY <1>9 DEF RepliesInv, ControlInv, OwnerTypes, Client
  <2>2. CASE conn[e].peer = p
    <3>1. Alive(e)' => Alive(e)
      BY <1>3, <1>4, <1>8, <1>9, <2>1, <2>2 DEF Alive, Serving, s
    <3>2. QED
      BY <1>9, <1>11, <2>1, <2>2, <3>1, KeptClient DEF s
  <2>3. CASE conn[e].peer # p
    <3>1. Alive(e)' => Alive(e) /\ server'[conn[e].peer] = server[conn[e].peer]
      BY <1>9, <2>1, <2>3 DEF Alive, Serving
    <3>2. QED
      BY <2>1, <3>1, KeptClient
  <2>4. QED
    BY <2>2, <2>3
<1>14. Faithful(c)'
  <2>1. /\ k.st = "authed" => k.outbox = <<>> /\ \A i \in 1 .. Len(k.inbox) : k.inbox[i].note
        /\ k.st = "waiting" => ~Q.note /\ Asked(k, Q)
        /\ ~k.wrong
        /\ \A f \in Refs : k.bound[f] # None => f \in s.stores /\ s.bases[f] = k.bound[f]
    BY <1>1, <1>7 DEF Faithful, Names, k, Q, s
  <2>2. \/ /\ k.st = "authed" /\ d.outbox = <<>>
           /\ \A i \in 1 .. Len(d.inbox) : d.inbox[i].note
        \/ k.st = "waiting" /\ Asked(d, Q)
        \/ k.st = "waiting" /\ q = Q /\ d.inbox = <<>> /\ d.outbox = <<a>>
    BY <1>1, <1>4, <2>1, TakenFaithful DEF q, d
  <2>3. \A f \in Refs : d.bound[f] # None => f \in u.stores /\ u.bases[f] = d.bound[f]
    BY <1>6, <1>11, <2>1
  <2>4. ASSUME a.ok, q.ref # None
        PROVE  /\ a.base # None /\ d.bound[q.ref] \in {None, a.base}
               /\ q.ref \in u.stores /\ u.bases[q.ref] = a.base
    <3>1. q.ref \in t.stores /\ a.base = t.bases[q.ref] /\ q.ref \in Refs
      BY <1>1, <1>5, <1>8, <2>4
    <3>2. a.base # None /\ q.ref \in u.stores /\ u.bases[q.ref] = a.base
      BY <1>10, <3>1
    <3>3. QED
      BY <2>3, <3>1, <3>2
  <2>5. Script[c][d.at] = Q
    BY <1>6 DEF Q
  <2>6. ASSUME k.st = "waiting", q = Q, d.inbox = <<>>, d.outbox = <<a>>
        PROVE  Len(d.outbox) = 1 /\ TrueReply(c, conn[c].outbox[1], Script[c][conn[c].at])'
    <3>1. Len(d.outbox) = 1 /\ d.outbox[1] = a
      BY <2>6
    <3>2. conn'[c].outbox[1] = a /\ Script[c][conn'[c].at] = q /\ conn'[c].bound = d.bound
          /\ server'[conn'[c].peer] = u
      BY <1>1, <1>6, <1>9, <2>5, <2>6, <3>1
    <3>3. QED
      BY <1>4, <2>4, <3>1, <3>2 DEF TrueReply, Names
  <2>7. QED
    BY <1>1, <1>6, <1>9, <2>1, <2>2, <2>3, <2>5, <2>6 DEF Faithful, Names
<1>15. QED
  BY <1>12, <1>13, <1>14 DEF RepliesInv

LEMMA PhaseReplies ==
  ASSUME ControlInv, RepliesInv, NEW p \in Owners, NEW from \in Phases, NEW to \in Phases,
         Phase(p, from, to), UNCHANGED conn
  PROVE  RepliesInv'
<1>1. /\ Serving(p) /\ server'[p].phase = to /\ server'[p].secret = server[p].secret
      /\ server'[p].stores = server[p].stores /\ server'[p].bases = server[p].bases
      /\ \A q \in Owners \ {p} : server'[q] = server[q]
  BY PhaseFacts DEF ControlInv
<1>2. \A c \in Clients : Faithful(c)'
  BY <1>1, ServerKeeps
<1>3. Rooted'
  BY <1>1 DEF RepliesInv, Rooted, Serving
<1>4. QED
  BY <1>2, <1>3 DEF RepliesInv

LEMMA EndReplies ==
  ASSUME ControlInv, RepliesInv, NEW p \in Owners, server' = [server EXCEPT ![p] = NoServer],
         UNCHANGED conn
  PROVE  RepliesInv'
<1>1. server'[p] = NoServer /\ \A q \in Owners \ {p} : server'[q] = server[q]
  BY DEF ControlInv, OwnerTypes
<1>2. \A c \in Clients : Faithful(c)'
  BY <1>1, ServerKeeps
<1>3. Rooted'
  BY <1>1 DEF RepliesInv, Rooted, Serving, NoServer
<1>4. QED
  BY <1>2, <1>3 DEF RepliesInv

LEMMA StartReplies ==
  ASSUME ControlInv, RepliesInv, NEW p \in Owners, NEW r \in Served, NEW port \in Ports,
         StartServer(p, r, port)
  PROVE  RepliesInv'
<1>1. /\ server' = [server EXCEPT ![p] = McpServerState(r, port)] /\ UNCHANGED conn
      /\ r \in Bases /\ r # None
  BY BaseAssumption DEF StartServer
<1>2. server'[p] = McpServerState(r, port) /\ \A q \in Owners \ {p} : server'[q] = server[q]
  BY <1>1 DEF ControlInv, OwnerTypes
<1>3. /\ McpServerState(r, port).phase = "binding" /\ McpServerState(r, port).secret = starts + 1
      /\ \A f \in McpServerState(r, port).stores : McpServerState(r, port).bases[f] # None
  BY <1>1, RefAssumption DEF McpServerState
<1>4. \A c \in Clients : Faithful(c)'
  <2>1. Serving(p)' /\ server'[p].secret = starts + 1
    BY <1>2, <1>3 DEF Serving
  <2>2. QED
    BY <1>1, <1>2, <2>1, ServerKeeps
<1>5. Rooted'
  BY <1>2, <1>3 DEF RepliesInv, Rooted, Serving
<1>6. QED
  BY <1>4, <1>5 DEF RepliesInv

\* The steps before a connection is authenticated, and the end of one.
LEMMA ConnectReplies ==
  ASSUME ControlInv, RepliesInv, NEW c \in Clients,
         ReadDescriptor(c) \/ Dial(c) \/ Fails(c) \/ Authenticate(c)
  PROVE  RepliesInv'
<1> DEFINE k == conn[c]
           n == NoConn(k.at)
<1>1. k \in Client /\ Faithful(c) /\ UNCHANGED server
  BY DEF ControlInv, OwnerTypes, RepliesInv, ReadDescriptor, Dial, Fails, Authenticate
<1>2. n.st = "idle" /\ ~n.wrong /\ n.inbox = <<>> /\ n.outbox = <<>> /\ \A f \in Refs : n.bound[f] = None
  BY DEF NoConn
<1>3. CASE conn' = [conn EXCEPT ![c] = n]
  <2> HIDE DEF n
  <2>1. QED
    BY <1>1, <1>2, <1>3, IdleReplies
<1>4. CASE UNCHANGED conn
  <2>1. Faithful(c)'
    BY <1>1, <1>4 DEF Faithful, TrueReply, Names, Alive, Serving
  <2>2. conn' = [conn EXCEPT ![c] = k]
    BY <1>4 DEF ControlInv, OwnerTypes
  <2>3. QED
    BY <1>1, <2>1, <2>2, OthersKept
<1>5. CASE ReadDescriptor(c) /\ validate_control_descriptor(Target[c], desc[Target[c]])
  <2> DEFINE e == desc[Target[c]]
             d == [k EXCEPT !.st = "found", !.secret = e.secret, !.port = e.port]
  <2>1. conn' = [conn EXCEPT ![c] = d]
    BY <1>5 DEF ReadDescriptor
  <2>2. d.st = "found" /\ d.wrong = k.wrong /\ d.inbox = k.inbox /\ d.outbox = k.outbox /\ d.bound = k.bound
    BY <1>1 DEF Client
  <2>3. ~k.wrong /\ k.inbox = <<>> /\ k.outbox = <<>> /\ \A f \in Refs : k.bound[f] = None
    BY <1>1, <1>5 DEF ReadDescriptor, Faithful
  <2> HIDE DEF d, k
  <2>4. /\ d.st \in {"idle", "found", "dialed"} /\ ~d.wrong
        /\ d.inbox = <<>> /\ d.outbox = <<>> /\ \A f \in Refs : d.bound[f] = None
    BY <2>2, <2>3
  <2>5. QED
    BY <1>1, <2>1, <2>4, IdleReplies
<1>6. CASE Dial(c)
  <2>1. PICK p \in Owners : conn' = [conn EXCEPT ![c] = [k EXCEPT !.st = "dialed", !.peer = p]]
    BY <1>6 DEF Dial
  <2> DEFINE d == [k EXCEPT !.st = "dialed", !.peer = p]
  <2>2. d.st = "dialed" /\ d.wrong = k.wrong /\ d.inbox = k.inbox /\ d.outbox = k.outbox /\ d.bound = k.bound
    BY <1>1 DEF Client
  <2>3. ~k.wrong /\ k.inbox = <<>> /\ k.outbox = <<>> /\ \A f \in Refs : k.bound[f] = None
    BY <1>1, <1>6 DEF Dial, Faithful
  <2>4. conn' = [conn EXCEPT ![c] = d]
    BY <2>1
  <2> HIDE DEF d, k
  <2>5. /\ d.st \in {"idle", "found", "dialed"} /\ ~d.wrong
        /\ d.inbox = <<>> /\ d.outbox = <<>> /\ \A f \in Refs : d.bound[f] = None
    BY <2>2, <2>3
  <2>6. QED
    BY <1>1, <2>4, <2>5, IdleReplies
<1>7. CASE Authenticate(c) /\ server[k.peer].secret = k.secret
  <2> DEFINE d == [k EXCEPT !.st = "authed"]
  <2>1. conn' = [conn EXCEPT ![c] = d] /\ conn'[c] = d
    BY <1>7 DEF Authenticate, ControlInv, OwnerTypes
  <2>2. d.st = "authed" /\ d.wrong = k.wrong /\ d.inbox = k.inbox /\ d.outbox = k.outbox /\ d.bound = k.bound
    BY <1>1 DEF Client
  <2>3. ~k.wrong /\ k.inbox = <<>> /\ k.outbox = <<>> /\ \A f \in Refs : k.bound[f] = None
    BY <1>1, <1>7 DEF Authenticate, Faithful
  <2> HIDE DEF d, k
  <2>4. \A i \in 1 .. Len(d.inbox) : d.inbox[i].note
    BY <2>2, <2>3
  <2>5. Faithful(c)'
    BY <2>1, <2>2, <2>3, <2>4 DEF Faithful
  <2>6. QED
    BY <1>1, <2>1, <2>5, OthersKept
<1>8. \/ conn' = [conn EXCEPT ![c] = n] \/ UNCHANGED conn
      \/ ReadDescriptor(c) /\ validate_control_descriptor(Target[c], desc[Target[c]])
      \/ Dial(c) \/ (Authenticate(c) /\ server[k.peer].secret = k.secret)
  <2>1. CASE ReadDescriptor(c) /\ ~validate_control_descriptor(Target[c], desc[Target[c]])
    BY <2>1 DEF ReadDescriptor, ControlInv, OwnerTypes
  <2>2. CASE Authenticate(c) /\ server[k.peer].secret # k.secret
    BY <2>2 DEF Authenticate
  <2>3. CASE Fails(c)
    BY <2>3 DEF Fails
  <2>4. QED
    BY <2>1, <2>2, <2>3
<1>9. QED
  BY <1>3, <1>4, <1>5, <1>6, <1>7, <1>8

LEMMA RepliesStep == ControlInv /\ RepliesInv /\ [LNext]_ctl => RepliesInv'
<1> SUFFICES ASSUME ControlInv, RepliesInv, [LNext]_ctl PROVE RepliesInv'
  OBVIOUS
<1>1. CASE UNCHANGED <<server, conn>>
  <2>1. \A c \in Clients : Alive(c)' => Alive(c)
    BY <1>1 DEF Alive, Serving
  <2>2. \A c \in Clients : Faithful(c)'
    BY <1>1, <2>1, KeptClient DEF RepliesInv
  <2>3. QED
    BY <1>1, <2>2 DEF RepliesInv, Rooted, Serving
<1>2. ASSUME NEW p \in Owners, NEW r \in Served, NEW port \in Ports, StartServer(p, r, port)
      PROVE  RepliesInv'
  BY <1>2, StartReplies
<1>3. ASSUME NEW p \in Owners,
             RemoveOld(p) \/ Publish(p) \/ StartFails(p) \/ Close(p) \/ ReadGuard(p) \/ RemoveGuard(p)
      PROVE  RepliesInv'
  BY <1>3, PhaseReplies DEF RemoveOld, Publish, StartFails, Close, ReadGuard, RemoveGuard, Phases
<1>4. ASSUME NEW p \in Owners, StopServer(p) \/ ProcessDies(p) PROVE RepliesInv'
  BY <1>4, EndReplies DEF StopServer, ProcessDies
<1>5. ASSUME NEW c \in Clients, NEW p \in Owners, ProcessRequest(c, p) PROVE RepliesInv'
  BY <1>5, RequestReplies
<1>6. ASSUME NEW c \in Clients, ReadDescriptor(c) \/ Dial(c) \/ Fails(c) \/ Authenticate(c)
      PROVE  RepliesInv'
  BY <1>6, ConnectReplies
<1>7. ASSUME NEW c \in Clients, SendRequest(c) \/ Receive(c) PROVE RepliesInv'
  BY <1>7, SendReplies, ReceiveReplies
<1>8. ASSUME NEW r \in Served, NEW q \in Served, OpenBase(r) \/ CloseBase(r) \/ CopyBase(r, q)
      PROVE  RepliesInv'
  BY <1>1, <1>8 DEF OpenBase, CloseBase, CopyBase
<1>9. QED
  BY <1>1, <1>2, <1>3, <1>4, <1>5, <1>6, <1>7, <1>8 DEF LNext, Starting, Stopping, ctl

\* Every line a client reads answers the request it waits for, and a base_ref
\* goes on naming the root the client was told, for any scripts of any number
\* of clients of one server.
THEOREM ClientsToldTrue == LSpec => []RepliesTrue
<1>1. RepliesInv => RepliesTrue
  BY DEF RepliesInv, Faithful, RepliesTrue
<1>2. QED
  BY <1>1, RepliesInit, RepliesStep, ControlInvariant, PTL DEF LSpec
=============================================================================
