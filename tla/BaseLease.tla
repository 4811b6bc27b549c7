----------------------------- MODULE BaseLease -----------------------------
(***************************************************************************)
(* store/base_lease.rs: who may write a base.  A process keeps a registry  *)
(* of the roots it leases (LEASED_ROOTS, under a mutex that acquire holds  *)
(* to its end) and, per lease, an OS lock on <root>/.memoryx.writer.lock.  *)
(* The compaction command of bin/memoryx.rs takes the OS lock alone.       *)
(* An owner lends one quiescence token at a time to its operations.        *)
(***************************************************************************)
EXTENDS Integers, FiniteSets

CONSTANTS
    Threads, Procs,
    ProcOf,     \* the process a thread runs in
    Roots,      \* canonical roots
    Nobody

ASSUME ProcOfAssumption == ProcOf \in [Threads -> Procs]
ASSUME NobodyAssumption == Nobody \notin Threads \cup Roots

VARIABLES
    registry,  \* per process: LEASED_ROOTS
    mutex,     \* per process: the thread inside LEASED_ROOTS.lock()
    lock,      \* per root: the thread whose file handle holds the OS lock
    pc, root,  \* per thread: phase and the root it is about
    token,     \* per thread: production_transaction_active of its authority
    answer     \* per thread: result of its last acquire

vars == <<registry, mutex, lock, pc, root, token, answer>>

\* Phases in which a thread's lease has its registry entry.
Registered == {"file", "pin", "held", "dropping"}
\* Phases in which a thread's handle holds the OS lock.
Locked == {"pin", "held", "compact"}

Init ==
    /\ registry = [p \in Procs |-> {}]
    /\ mutex = [p \in Procs |-> Nobody]
    /\ lock = [r \in Roots |-> Nobody]
    /\ pc = [t \in Threads |-> "idle"] /\ root = [t \in Threads |-> Nobody]
    /\ token = [t \in Threads |-> FALSE]
    /\ answer = [t \in Threads |-> "none"]

-----------------------------------------------------------------------------
(* BaseLease::acquire *)

\* The thread leaves acquire without a lease.
Refused(t, why) ==
    /\ pc' = [pc EXCEPT ![t] = "idle"] /\ root' = [root EXCEPT ![t] = Nobody]
    /\ answer' = [answer EXCEPT ![t] = why]

\* Mutant: the entry stays when acquire fails.
MutUnregister(t) ==
    /\ mutex' = [mutex EXCEPT ![ProcOf[t]] = Nobody]
    /\ UNCHANGED registry

\* Mutant: a failing acquire keeps the mutex.
MutKeepMutex(t) ==
    /\ registry' = [registry EXCEPT ![ProcOf[t]] = @ \ {root[t]}]
    /\ UNCHANGED mutex

Unregister(t) ==
    /\ registry' = [registry EXCEPT ![ProcOf[t]] = @ \ {root[t]}]
    /\ mutex' = [mutex EXCEPT ![ProcOf[t]] = Nobody]

\* leased_roots.insert, with the mutex kept when the root was not there.
Register(t, r) ==
    /\ pc[t] = "idle" /\ mutex[ProcOf[t]] = Nobody
    /\ IF r \in registry[ProcOf[t]]
         THEN Refused(t, "busy") /\ UNCHANGED <<registry, mutex>>
         ELSE /\ registry' = [registry EXCEPT ![ProcOf[t]] = @ \cup {r}]
              /\ mutex' = [mutex EXCEPT ![ProcOf[t]] = t]
              /\ pc' = [pc EXCEPT ![t] = "file"] /\ root' = [root EXCEPT ![t] = r]
              /\ UNCHANGED answer
    /\ UNCHANGED <<lock, token>>

\* Mutant: the result of the lock call is ignored.
MutLockFile(t) ==
    /\ pc[t] = "file"
    /\ lock' = [lock EXCEPT ![root[t]] = t]
    /\ pc' = [pc EXCEPT ![t] = "pin"]
    /\ UNCHANGED <<registry, mutex, root, token, answer>>

\* try_lock_exclusive on the opened lock file.
LockFile(t) ==
    /\ pc[t] = "file" /\ lock[root[t]] = Nobody
    /\ lock' = [lock EXCEPT ![root[t]] = t]
    /\ pc' = [pc EXCEPT ![t] = "pin"]
    /\ UNCHANGED <<registry, mutex, root, token, answer>>

\* The lock is contended, or the file cannot be opened or locked.
LockFails(t) ==
    /\ pc[t] = "file" /\ Unregister(t)
    /\ \/ lock[root[t]] # Nobody /\ Refused(t, "busy")
       \/ Refused(t, "io")
    /\ UNCHANGED <<lock, token>>

\* open_root_directory and physical_root_identity succeed: the lease exists
\* and the mutex is released.
Pin(t) ==
    /\ pc[t] = "pin"
    /\ mutex' = [mutex EXCEPT ![ProcOf[t]] = Nobody]
    /\ pc' = [pc EXCEPT ![t] = "held"] /\ answer' = [answer EXCEPT ![t] = "ok"]
    /\ UNCHANGED <<registry, lock, root, token>>

\* One of them fails: unlock, unregister.
PinFails(t) ==
    /\ pc[t] = "pin"
    /\ lock' = [lock EXCEPT ![root[t]] = Nobody]
    /\ Unregister(t) /\ Refused(t, "io")
    /\ UNCHANGED token

-----------------------------------------------------------------------------
(* Holding and releasing *)

\* LiveOwnerAuthority::borrow_quiescence; a nested borrow is refused.
Borrow(t) ==
    /\ pc[t] = "held" /\ ~token[t]
    /\ token' = [token EXCEPT ![t] = TRUE]
    /\ UNCHANGED <<registry, mutex, lock, pc, root, answer>>

ReturnToken(t) ==
    /\ token[t]
    /\ token' = [token EXCEPT ![t] = FALSE]
    /\ UNCHANGED <<registry, mutex, lock, pc, root, answer>>

\* Mutant: the authority may go while its token is lent.
MutDropUnlock(t) ==
    /\ pc[t] = "held"
    /\ lock' = [lock EXCEPT ![root[t]] = Nobody]
    /\ pc' = [pc EXCEPT ![t] = "dropping"]
    /\ UNCHANGED <<registry, mutex, root, token, answer>>

\* BaseLease::drop: first the OS lock, then the registry under its mutex.  A
\* lent token keeps the authority alive.
DropUnlock(t) ==
    /\ pc[t] = "held" /\ ~token[t]
    /\ lock' = [lock EXCEPT ![root[t]] = Nobody]
    /\ pc' = [pc EXCEPT ![t] = "dropping"]
    /\ UNCHANGED <<registry, mutex, root, token, answer>>

DropUnregister(t) ==
    /\ pc[t] = "dropping" /\ mutex[ProcOf[t]] = Nobody
    /\ registry' = [registry EXCEPT ![ProcOf[t]] = @ \ {root[t]}]
    /\ pc' = [pc EXCEPT ![t] = "idle"] /\ root' = [root EXCEPT ![t] = Nobody]
    /\ UNCHANGED <<mutex, lock, token, answer>>

-----------------------------------------------------------------------------
(* acquire_compaction_lease and CompactionLease::drop: no registry *)

Compact(t, r) ==
    /\ pc[t] = "idle"
    /\ IF lock[r] = Nobody
         THEN /\ lock' = [lock EXCEPT ![r] = t]
              /\ pc' = [pc EXCEPT ![t] = "compact"] /\ root' = [root EXCEPT ![t] = r]
              /\ answer' = [answer EXCEPT ![t] = "ok"]
         ELSE Refused(t, "busy") /\ UNCHANGED lock
    /\ UNCHANGED <<registry, mutex, token>>

CompactDone(t) ==
    /\ pc[t] = "compact"
    /\ lock' = [lock EXCEPT ![root[t]] = Nobody]
    /\ pc' = [pc EXCEPT ![t] = "idle"] /\ root' = [root EXCEPT ![t] = Nobody]
    /\ UNCHANGED <<registry, mutex, token, answer>>

\* The process dies: the OS drops its locks, and its memory is gone.
Die(p) ==
    LET dead == {t \in Threads : ProcOf[t] = p} IN
    /\ registry' = [registry EXCEPT ![p] = {}]
    /\ mutex' = [mutex EXCEPT ![p] = Nobody]
    /\ lock' = [r \in Roots |-> IF lock[r] \in dead THEN Nobody ELSE lock[r]]
    /\ pc' = [t \in Threads |-> IF t \in dead THEN "idle" ELSE pc[t]]
    /\ root' = [t \in Threads |-> IF t \in dead THEN Nobody ELSE root[t]]
    /\ token' = [t \in Threads |-> IF t \in dead THEN FALSE ELSE token[t]]
    /\ answer' = [t \in Threads |-> IF t \in dead THEN "none" ELSE answer[t]]

-----------------------------------------------------------------------------
(* Specification *)

Acquire(t) == LockFile(t) \/ LockFails(t) \/ Pin(t) \/ PinFails(t)

Next ==
    \/ \E t \in Threads :
          \/ \E r \in Roots : Register(t, r) \/ Compact(t, r)
          \/ Acquire(t)
          \/ Borrow(t) \/ ReturnToken(t)
          \/ DropUnlock(t) \/ DropUnregister(t)
          \/ CompactDone(t)
    \/ \E p \in Procs : Die(p)

Spec == Init /\ [][Next]_vars

\* A thread inside acquire runs on, and one that waits for the registry's
\* mutex gets it (parking_lot's mutex is eventually fair).  Nobody has to
\* open, close, borrow or die.
LeaseFairness ==
    \A t \in Threads : WF_vars(Acquire(t)) /\ SF_vars(DropUnregister(t))

FairSpec == Spec /\ LeaseFairness

-----------------------------------------------------------------------------
(* Properties *)

\* The shape of the registry, the locks and the threads.
TypeOK ==
    /\ registry \in [Procs -> SUBSET Roots]
    /\ mutex \in [Procs -> Threads \cup {Nobody}]
    /\ lock \in [Roots -> Threads \cup {Nobody}]
    /\ pc \in [Threads -> {"idle", "file", "pin", "held", "dropping", "compact"}]
    /\ root \in [Threads -> Roots \cup {Nobody}]
    /\ \A t \in Threads : (root[t] = Nobody) <=> (pc[t] = "idle")
    /\ token \in [Threads -> BOOLEAN]
    /\ answer \in [Threads -> {"none", "ok", "busy", "io"}]

\* One exclusive writer per physical base: two threads, of one process or of
\* two, never hold the same base, for a store or for compaction.
OneWriter ==
    \A t, u \in Threads :
        pc[t] \in Locked /\ pc[u] \in Locked /\ root[t] = root[u] => t = u

\* A process's registry lists exactly the bases its threads lease, are
\* acquiring or are letting go of: no failed acquire leaves an entry that
\* would make the base unusable for the rest of the process's life, and no
\* entry is missing while its lease lives.
RegistryExact ==
    \A p \in Procs :
        registry[p] = {root[t] : t \in {u \in Threads : ProcOf[u] = p /\ pc[u] \in Registered}}

\* While a transaction runs on a lent token, its base is locked and
\* registered by this very lease.
WritesUnderLock ==
    \A t \in Threads : token[t] =>
        /\ pc[t] = "held"
        /\ lock[root[t]] = t
        /\ root[t] \in registry[ProcOf[t]]

\* A lease that is being dropped leaves the registry, whatever other threads
\* of the process do with the registry meanwhile.
DropCompletes ==
    \A t \in Threads : (pc[t] = "dropping") ~> (pc[t] = "idle")
=============================================================================
