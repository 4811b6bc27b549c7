----------------------------- MODULE LiveOwner -----------------------------
(***************************************************************************)
(* bin/memoryx.rs: how other programs reach a base while one process owns  *)
(* it.  The owner (serve --stdio) leases the base (BaseLease), binds a     *)
(* loopback port and writes a descriptor with the port and a fresh token   *)
(* into the base.  A client or a second serve reads the descriptor, dials, *)
(* authenticates and sends requests; the owner answers them one at a time  *)
(* under the mutex of its McpServerState, opening further bases on demand. *)
(* Commands take and drop leases beside all this; a lease is an exclusive  *)
(* owner here, which is what BaseLease provides (OneWriter).               *)
(***************************************************************************)
EXTENDS Integers, FiniteSets, Sequences

CONSTANTS
    Owners, Bases,   \* serve processes, canonical roots
    Served,          \* bound: the roots that are served, copied and used by
                     \* other commands
    Other,           \* the process of another command
    None,
    Clients, Target, \* the clients, and the root each one's --base names
    Script,          \* the requests each client sends
    Refs, Active,    \* base_refs; the one a server starts with
    Scoped,          \* the roots that list_bases finds, by ref
    Ports,
    MaxStarts,       \* bound: serve processes started
    MaxTries         \* bound: connections attempted

\* A JSON-RPC line: connect_base and switch_base name a base_ref (without one
\* they are refused like any unknown request), list_bases takes none.
Request ==
    {q \in [id : Nat, kind : STRING, note : BOOLEAN, ref : Refs \cup {None},
            root : Bases \cup {None}] :
        /\ q.kind \in {"connect_base", "switch_base"} => q.ref # None
        /\ q.kind = "connect_base" => q.root # None
        /\ q.kind = "list_bases" => q.ref = None}

ASSUME ProcessAssumption == None \notin Owners /\ Other \notin Owners \cup {None}
ASSUME BaseAssumption ==
    /\ None \notin Bases /\ Served \subseteq Bases
    /\ Target \in [Clients -> Bases] /\ Scoped \in [Refs -> Bases \cup {None}]
ASSUME RefAssumption == None \notin Refs /\ Active \in Refs
ASSUME ScriptAssumption == Script \in [Clients -> Seq(Request)]

VARIABLES
    owner,    \* per root: the process that leases it (BaseLease)
    server,   \* per process: McpServerState and the state of cmd_serve
    desc,     \* per root: .memoryx.control.json
    conn,     \* per client: its connection
    starts,   \* tokens generated
    tries     \* connections attempted

ctl == <<owner, server, desc, conn, starts, tries>>

NoServer == [phase |-> "none"]
NoDesc == [secret |-> 0]
\* A client between connections, and the request it is at.
\* "bound" are the roots it was told its refs name, "wrong" whether a reply
\* was not the one it waited for.
NoConn(at) ==
    [st |-> "idle", at |-> at, peer |-> None, secret |-> 0,
     port |-> None, inbox |-> <<>>, outbox |-> <<>>,
     bound |-> [f \in Refs |-> None], wrong |-> FALSE]

Serving(p) == server[p].phase # "none"

LInit ==
    /\ owner = [r \in Bases |-> None]
    /\ server = [p \in Owners |-> NoServer]
    /\ desc = [r \in Bases |-> NoDesc]
    /\ conn = [c \in Clients |-> NoConn(1)]
    /\ starts = 0 /\ tries = 0

-----------------------------------------------------------------------------
(* The owner: cmd_serve, start_control_server, ControlDescriptorGuard *)

\* The state over the store of root r, which is its active base.
McpServerState(r, port) ==
    [phase |-> "binding", root |-> r, secret |-> starts + 1, port |-> port,
     active |-> Active, stores |-> {Active},
     bases |-> [f \in Refs |-> IF f = Active THEN r ELSE None]]

\* MemoryX::new (a base in use is refused), the state, the listener and the
\* token, and the descriptor's temporary file.
StartServer(p, r, port) ==
    /\ ~Serving(p) /\ owner[r] = None /\ starts < MaxStarts
    /\ owner' = [owner EXCEPT ![r] = p]
    /\ \A q \in Owners : Serving(q) => server[q].port # port
    /\ starts' = starts + 1
    /\ server' = [server EXCEPT ![p] = McpServerState(r, port)]
    /\ UNCHANGED <<desc, conn, tries>>

Descriptor(s) == [secret |-> s.secret, port |-> s.port, base |-> s.root]
Phase(p, from, to) ==
    server[p].phase = from /\ server' = [server EXCEPT ![p].phase = to]

\* write_control_descriptor removes what is there and renames its own in.
RemoveOld(p) ==
    /\ Phase(p, "binding", "unlinked")
    /\ desc' = [desc EXCEPT ![server[p].root] = NoDesc]
    /\ UNCHANGED <<owner, conn, starts, tries>>

Publish(p) ==
    /\ Phase(p, "unlinked", "serving")
    /\ desc' = [desc EXCEPT ![server[p].root] = Descriptor(server[p])]
    /\ UNCHANGED <<owner, conn, starts, tries>>

\* An error before the guard exists ends cmd_serve.
StartFails(p) ==
    /\ Phase(p, "binding", "stopping") \/ Phase(p, "unlinked", "stopping")
    /\ UNCHANGED <<owner, desc, conn, starts, tries>>

\* The end of stdin: the accept loop is aborted, the connections are not.
Close(p) ==
    /\ Phase(p, "serving", "closing")
    /\ UNCHANGED <<owner, desc, conn, starts, tries>>

\* ControlDescriptorGuard::drop reads the file, and removes it if it is its own.
ReadGuard(p) ==
    /\ \/ /\ Phase(p, "closing", "unguarding")
          /\ desc[server[p].root].secret = server[p].secret
       \/ /\ Phase(p, "closing", "stopping")
          /\ desc[server[p].root].secret # server[p].secret
    /\ UNCHANGED <<owner, desc, conn, starts, tries>>

RemoveGuard(p) ==
    /\ Phase(p, "unguarding", "stopping")
    /\ desc' = [desc EXCEPT ![server[p].root] = NoDesc]
    /\ UNCHANGED <<owner, conn, starts, tries>>

\* The runtime is dropped with its connections when their requests are done;
\* the stores and their leases go after it.
StopServer(p) ==
    /\ server[p].phase = "stopping"
    /\ server' = [server EXCEPT ![p] = NoServer]
    /\ owner' = [r \in Bases |-> IF owner[r] = p THEN None ELSE owner[r]]
    /\ UNCHANGED <<desc, conn, starts, tries>>

-----------------------------------------------------------------------------
(* The client: connect_control, run_stdio_control_proxy, cmd_client *)

\* The process at the other end still runs the connection.
Alive(c) ==
    /\ conn[c].peer # None
    /\ Serving(conn[c].peer) /\ server[conn[c].peer].secret = conn[c].secret

\* Mutant: any well-formed descriptor will do.
MutAnyBase(base, d) == d # NoDesc

\* The descriptor is there and describes the base it was found in.
validate_control_descriptor(base, d) == d # NoDesc /\ d.base = base

\* Mutant: every line is waited for.
MutAlwaysExpects(q) == TRUE

mcp_request_expects_response(q) == ~q.note

\* read_control_descriptor: an absent or foreign one ends the attempt.
ReadDescriptor(c) ==
    LET d == desc[Target[c]] IN
    /\ conn[c].st = "idle" /\ conn[c].at <= Len(Script[c]) /\ tries < MaxTries
    /\ tries' = tries + 1
    /\ conn' = [conn EXCEPT ![c] =
          IF validate_control_descriptor(Target[c], d)
            THEN [@ EXCEPT !.st = "found", !.secret = d.secret, !.port = d.port]
            ELSE @]
    /\ UNCHANGED <<owner, server, desc, starts>>

\* TcpStream::connect reaches whoever listens on the port now, and sends the
\* token; nobody there, or a timeout, ends the attempt.
Dial(c) ==
    /\ conn[c].st = "found"
    /\ \E p \in Owners :
          /\ server[p].phase \in {"binding", "unlinked", "serving"}
          /\ server[p].port = conn[c].port
          /\ conn' = [conn EXCEPT ![c] = [@ EXCEPT !.st = "dialed", !.peer = p]]
    /\ UNCHANGED <<owner, server, desc, starts, tries>>

\* The connection is refused, times out, is closed before the acknowledgement,
\* or its owner is gone: what was in flight may be lost.
Fails(c) ==
    /\ \/ conn[c].st \in {"found", "dialed"}
       \/ conn[c].st \in {"authed", "waiting"} /\ ~Alive(c)
    /\ conn' = [conn EXCEPT ![c] = NoConn(@.at)]
    /\ UNCHANGED <<owner, server, desc, starts, tries>>

\* A request is waited for, a notification is not.
SentBy(k, q) ==
    IF mcp_request_expects_response(q)
      THEN [k EXCEPT !.inbox = Append(@, q), !.st = "waiting"]
      ELSE [k EXCEPT !.inbox = Append(@, q), !.at = @ + 1]

\* One line to the owner.
SendRequest(c) ==
    /\ conn[c].st = "authed" /\ conn[c].at <= Len(Script[c])
    /\ conn' = [conn EXCEPT ![c] = SentBy(@, Script[c][@.at])]
    /\ UNCHANGED <<owner, server, desc, starts, tries>>

\* Line a is taken for the reply to q.
ReceivedBy(k, q, a) ==
    [k EXCEPT
       !.st = "authed", !.at = @ + 1, !.outbox = Tail(@),
       !.bound = IF a.ok /\ q.kind = "connect_base" THEN [@ EXCEPT ![q.ref] = a.base] ELSE @,
       !.wrong = \/ a.id # q.id
                 \/ a.ok /\ q.ref # None /\ k.bound[q.ref] \notin {None, a.base}]

\* The next line from the owner.
Receive(c) ==
    /\ conn[c].st = "waiting" /\ conn[c].outbox # <<>>
    /\ conn' = [conn EXCEPT ![c] = ReceivedBy(@, Script[c][@.at], Head(@.outbox))]
    /\ UNCHANGED <<owner, server, desc, starts, tries>>

-----------------------------------------------------------------------------
(* The owner's connection task: handle_control_connection *)

\* The token is the owner's, or the connection is over.
Authenticate(c) ==
    /\ conn[c].st = "dialed" /\ Serving(conn[c].peer)
    /\ server[conn[c].peer].phase \notin {"binding", "unlinked"}
    /\ conn' = [conn EXCEPT ![c] =
          IF server[@.peer].secret = @.secret
            THEN [@ EXCEPT !.st = "authed"] ELSE NoConn(@.at)]
    /\ UNCHANGED <<owner, server, desc, starts, tries>>

Reply(q, ok, base) == [id |-> q.id, ok |-> ok, base |-> base]

Connected(s, f) == f \in s.stores

\* connected_ref_for_path
Alias(s, f, r) == \E g \in s.stores \ {f} : s.bases[g] = r

\* base_for_args: a named base, else the active one.
RefOf(s, q) == IF q.ref = None THEN s.active ELSE q.ref

\* The root a request has to open first (connect_base, store_for_ref), or None.
ToOpen(s, q) ==
    LET f == RefOf(s, q)
        r == CASE q.kind = "connect_base" -> q.root
               [] q.kind \in {"tool", "switch_base"} -> s.bases[f]
               [] OTHER -> None
    IN IF Connected(s, f) \/ Alias(s, f, r) THEN None ELSE r

\* The server once root r is open under base_ref f.
Opened(s, f, r) == [s EXCEPT !.stores = @ \cup {f}, !.bases[f] = r]

\* Mutant: a connected base_ref answers for any root.
MutConnectBase(s, q) ==
    [s |-> s, reply |-> Reply(q, Connected(s, q.ref), q.root)]

\* connect_base once its root is open, or of a ref that is connected already,
\* or of a root connected as another.
connect_base(s, q) ==
    [s |-> s,
     reply |-> Reply(q, Connected(s, q.ref) /\ s.bases[q.ref] = q.root, s.bases[q.ref])]

\* switch_base sets the active base of every connection.
switch_base(s, q) == IF q.kind = "switch_base" THEN [s EXCEPT !.active = q.ref] ELSE s

\* list_bases and discover_scoped_bases: roots no ref has been given for yet.
list_bases(s) ==
    [s EXCEPT !.bases = [f \in Refs |-> IF @[f] = None THEN Scoped[f] ELSE @[f]]]

\* A tool on the selected base, or the error that there is none.
mcp_with_selected_store(s, q) ==
    IF Connected(s, RefOf(s, q))
      THEN [s |-> switch_base(s, q), reply |-> Reply(q, TRUE, s.bases[RefOf(s, q)])]
      ELSE [s |-> s, reply |-> Reply(q, FALSE, None)]

\* The arms of process_mcp_request, over the server with the base it needs
\* open if it could be opened: the server after it, and the response.
Processed(s, q) ==
    CASE q.kind = "connect_base" -> connect_base(s, q)
      [] q.kind = "list_bases" -> [s |-> list_bases(s), reply |-> Reply(q, TRUE, None)]
      [] q.kind \in {"tool", "switch_base"} -> mcp_with_selected_store(s, q)
      [] OTHER -> [s |-> s, reply |-> Reply(q, FALSE, None)]

\* A notification has no response line.
Response(q, reply) == IF q.note THEN <<>> ELSE <<reply>>

\* The server when it comes to the request: a base the request needs is opened
\* if nobody leases it and the store is sound; otherwise the request goes on
\* without it.
Ready(s, q) ==
    {s} \cup {Opened(s, RefOf(s, q), b) :
                b \in {ToOpen(s, q)} \cap {a \in Bases : owner[a] = None}}

\* The client's connection once its next line q is taken and answered.
Taken(k, q, reply) == [k EXCEPT !.inbox = Tail(@), !.outbox = @ \o Response(q, reply)]

\* A connection's next line, under the mutex of the server's state.
ProcessRequest(c, p) ==
    LET s == server[p]
        q == Head(conn[c].inbox) IN
    /\ conn[c].st \in {"authed", "waiting"} /\ conn[c].inbox # <<>>
    /\ Alive(c) /\ p = conn[c].peer
    /\ \E t \in Ready(s, q) :
          LET done == Processed(t, q) IN
          /\ owner' = IF t = s THEN owner ELSE [owner EXCEPT ![ToOpen(s, q)] = p]
          /\ server' = [server EXCEPT ![p] = done.s]
          /\ conn' = [conn EXCEPT ![c] = Taken(@, q, done.reply)]
    /\ UNCHANGED <<desc, starts, tries>>

-----------------------------------------------------------------------------
(* Leases outside a server, deaths, and copies of a base *)

\* MemoryX::new or acquire_compaction_lease of a command, and its end.
OpenBase(r) ==
    /\ owner[r] = None
    /\ owner' = [owner EXCEPT ![r] = Other]
    /\ UNCHANGED <<server, desc, conn, starts, tries>>

CloseBase(r) ==
    /\ owner[r] = Other
    /\ owner' = [owner EXCEPT ![r] = None]
    /\ UNCHANGED <<server, desc, conn, starts, tries>>

ProcessDies(p) ==
    /\ Serving(p)
    /\ owner' = [r \in Bases |-> IF owner[r] = p THEN None ELSE owner[r]]
    /\ server' = [server EXCEPT ![p] = NoServer]
    /\ UNCHANGED <<desc, conn, starts, tries>>

\* A base is copied, with its descriptor, to a root that nobody has open.
CopyBase(r, q) ==
    /\ owner[q] = None /\ desc[q] = NoDesc /\ desc[r] # NoDesc
    /\ desc' = [desc EXCEPT ![q] = desc[r]]
    /\ UNCHANGED <<owner, server, conn, starts, tries>>

Starting(p) == RemoveOld(p) \/ Publish(p)
Stopping(p) == ReadGuard(p) \/ RemoveGuard(p) \/ StopServer(p)

LNext ==
    \/ \E p \in Owners :
          \/ \E r \in Served, port \in Ports : StartServer(p, r, port)
          \/ Starting(p) \/ StartFails(p) \/ Close(p) \/ Stopping(p)
          \/ \E c \in Clients : ProcessRequest(c, p)
          \/ ProcessDies(p)
    \/ \E c \in Clients :
          \/ ReadDescriptor(c) \/ Dial(c) \/ Fails(c) \/ Authenticate(c)
          \/ SendRequest(c) \/ Receive(c)
    \/ \E r \in Served : OpenBase(r) \/ CloseBase(r)
    \/ \E r, q \in Served : CopyBase(r, q)

LSpec == LInit /\ [][LNext]_ctl

\* The tasks of a server and the clients with a line to read run on, and the
\* mutex of the server's state (tokio's, first come first served) is fair.
\* Nobody has to open, start, close, send, copy or die.
ControlFairness ==
    \A c \in Clients :
        /\ WF_ctl(Receive(c)) /\ WF_ctl(Fails(c) /\ ~Alive(c))
        /\ \A p \in Owners : WF_ctl(ProcessRequest(c, p))

-----------------------------------------------------------------------------
(* Properties *)

\* The descriptor of a base leads to its owner and to nobody else: while a
\* server runs its descriptor is in place, whatever earlier owners did before
\* they crashed or closed, and an authenticated connection is one with the
\* process that leases the very base the client named, though descriptors
\* outlive crashes, ports are reused and bases are copied.
ControlReachesOwner ==
    /\ \A p \in Owners : server[p].phase = "serving" =>
          desc[server[p].root] = Descriptor(server[p])
    /\ \A c \in Clients : conn[c].st \in {"authed", "waiting"} /\ Alive(c) =>
          LET p == conn[c].peer
          IN server[p].root = Target[c] /\ owner[Target[c]] = p

\* The line a client reads answers the request it waits for, also when
\* notifications went before it, and a base_ref it was told is connected to a
\* root still names that root, whatever other clients connect and switch.
RepliesTrue == \A c \in Clients : ~conn[c].wrong

\* A client that waits for a reply gets it, or learns that its owner is gone.
RequestsSettle ==
    \A c \in Clients : (conn[c].st = "waiting") ~> (conn[c].st # "waiting")
=============================================================================
