---------------------------- MODULE MCLiveOwner ----------------------------
(* BaseLease and LiveOwner for TLC: a behaviour is one of threads that     *)
(* contend for leases, or one of owners and their clients.                 *)
EXTENDS BaseLease, LiveOwner, TLC

CONSTANTS x1, x2, y1, proc1, proc2, r1, r2, r3, c1, c2

VARIABLE part    \* which of the two the behaviour is about

\* Two threads of one process and a second process.
MCProcOf == x1 :> proc1 @@ x2 :> proc1 @@ y1 :> proc2

\* Both clients name r1: one connects r3 as "b" and calls a tool on it, the
\* other has the bases listed, as a notification (so that "b" may come to name
\* r2), and switches to "b".
MCTarget == c1 :> r1 @@ c2 :> r1
Req(id, kind, note, ref, rt) ==
    [id |-> id, kind |-> kind, note |-> note, ref |-> ref, root |-> rt]
MCScript ==
    c1 :> <<Req(1, "connect_base", FALSE, "b", r3), Req(2, "tool", FALSE, "b", None)>> @@
    c2 :> <<Req(3, "list_bases", TRUE, None, None), Req(4, "switch_base", FALSE, "b", None)>>
MCScoped == "active" :> None @@ "b" :> r2

allvars == <<registry, mutex, lock, pc, root, token, answer, owner, server, desc, conn, starts, tries, part>>

OwnersInit == part \in {"leases", "control"} /\ Init /\ LInit

OwnersNext ==
    \/ /\ part = "leases" /\ Next
       /\ UNCHANGED <<owner, server, desc, conn, starts, tries, part>>
    \/ /\ part = "control" /\ LNext
       /\ UNCHANGED <<registry, mutex, lock, pc, root, token, answer, part>>

OwnersSpec == OwnersInit /\ [][OwnersNext]_allvars /\ LeaseFairness /\ ControlFairness
============================================================================
