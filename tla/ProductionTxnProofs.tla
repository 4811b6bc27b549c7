------------------------ MODULE ProductionTxnProofs ------------------------
(***************************************************************************)
(* Proofs about ProductionTxn, for every set of transactions, requests,    *)
(* bodies and bounds.                                                      *)
(***************************************************************************)
EXTENDS ProductionTxn, FiniteSetTheorems, TLAPS

OpenPhases == {"check", "remove", "replay", "install", "opened"}
Running == pc \in {"decide", "stage", "reply"} \/ (pc \in OpenPhases /\ cont # "startup")

\* Which phases the owner can be in with which continuation, and how far the
\* replay and the runtime have got in each.
PhaseInv ==
    /\ cont = "commit" => pc = "install"
    /\ pc = "decide" => cont = "begin"
    /\ pc = "opened" => cont \in {"startup", "begin", "finish"} /\ fold.n = Len(gens)
    /\ pc \in {"check", "remove", "replay", "install"} =>
          cont \in {"startup", "begin", "commit", "finish"}
    /\ pc \in {"decide", "stage", "reply"} => rt.n = Len(gens)
    /\ pc = "install" => gens # << >> /\ (cont # "commit" => fold.n + 1 = Len(gens))
    /\ Running => op \in [tx : TxIds, req : Requests]

PendIsRecord == pend = [gen |-> pend.gen, components |-> pend.components,
                         files |-> pend.files, torn |-> pend.torn]

\* A staged transaction is the running one, and its identity is unused.
StageInv ==
    pc = "stage" => /\ \A i \in 1..Len(gens) : gens[i].tx # op.tx
                    /\ step # 1 => /\ PendIsRecord
                                   /\ pend.gen.tx = op.tx /\ pend.gen.req = op.req
                    /\ ol[op.tx] # NoReceipt => ol[op.tx].result # "unchanged"

\* What the owner remembers it has answered; an update is never answered with
\* "unchanged", which is why its lookup may skip the owner-lifetime map.
RememberedInv ==
    /\ ol = [tx \in TxIds |-> ol[tx]]
    /\ \A tx \in TxIds : ol[tx] # NoReceipt =>
          /\ ol[tx] \in acked
          /\ ol[tx].result = "unchanged" => ol[tx].req.kind # "update"

LedgerInv ==
    /\ gens \in Seq(Elems(gens))
    /\ rt.n \in 0..Len(gens) /\ fold.n \in 0..Len(gens)
    /\ PhaseInv
    /\ StageInv
    /\ RememberedInv
    /\ OneGenerationPerTx
    /\ AckedDurable
    /\ UnchangedStaysUnchanged

LEMMA LedgerInit == Init => LedgerInv
  BY DEF Init, LedgerInv, PhaseInv, StageInv, RememberedInv, OneGenerationPerTx, AckedDurable,
         UnchangedStaysUnchanged, EmptyState, Elems, Running, OpenPhases

\* A step that commits nothing, acknowledges nothing and only moves through
\* the phases keeps the ledger facts.
Quiet == UNCHANGED <<gens, acked, ol>>

LEMMA QuietStep ==
  ASSUME LedgerInv, Quiet, PhaseInv', StageInv',
         rt'.n \in 0..Len(gens'), fold'.n \in 0..Len(gens')
  PROVE  LedgerInv'
  BY DEF LedgerInv, RememberedInv, OneGenerationPerTx, AckedDurable, UnchangedStaysUnchanged,
         Receipt, Elems, Quiet

\* A receipt may be handed out for a commit the runtime serves, or for none.
LEMMA AckStep ==
  ASSUME LedgerInv, NEW r, ReturnReceipt(r), UNCHANGED <<gens, rt>>, RememberedInv',
         UnchangedStaysUnchanged',
         r.result = "committed" => r.n \in 1..Len(gens) /\ r = Receipt(r.n)
  PROVE  LedgerInv'
<1>1. OneGenerationPerTx' /\ AckedDurable'
  BY DEF LedgerInv, ReturnReceipt, OneGenerationPerTx, AckedDurable, Receipt
<1>2. PhaseInv' /\ StageInv' /\ fold'.n = 0
  BY DEF LedgerInv, ReturnReceipt, Return, EmptyState, PhaseInv, StageInv, Running, OpenPhases
<1>3. QED
  BY <1>1, <1>2 DEF LedgerInv, Elems

LEMMA ApplyCounts == \A s, g : Apply(s, g).n = s.n + 1
  BY DEF Apply

LEMMA FunctionIsSeq ==
  ASSUME NEW S, NEW n \in Nat, NEW f \in [1..n -> S]
  PROVE  f \in Seq(S)
  OBVIOUS

\* Every staging plan begins with the pending directory.
LEMMA FirstStep ==
  ASSUME NEW kind \in Kinds, NEW m \in Nat
  PROVE  StageSteps(kind, m)[1] = Do("mkdir")
<1> DEFINE Names == {"mkdir", "components", "append", "publish", "create", "record", "orphan",
                     "part", "prepare", "commit"}
<1> DEFINE Steps == {Do(x) : x \in Names} \cup {Write(x, k) : x \in Names, k \in Int}
<1>0. /\ \A x \in Names : Do(x) \in Steps
      /\ \A x \in Names, k \in Int : Write(x, k) \in Steps
  OBVIOUS
<1> HIDE DEF Steps
<1>1. ASSUME NEW k \in Nat PROVE Appends(k) \in Seq(Steps)
  <2>1. 2 * k \in Nat
    OBVIOUS
  <2>2. Appends(k) \in [1..2 * k -> Steps]
    BY <1>0 DEF Appends
  <2>3. QED
    BY <2>1, <2>2, FunctionIsSeq
<1>2. RecordPairs(m) \in Seq(Steps)
  <2>1. 2 * m \in Nat /\ \A i \in 1..2 * m : (i - 1) \div 2 \in Int
    OBVIOUS
  <2>2. RecordPairs(m) \in [1..2 * m -> Steps]
    BY <1>0, <2>1 DEF RecordPairs
  <2>3. QED
    BY <2>1, <2>2, FunctionIsSeq
<1>3. DirectSteps[1] = Do("mkdir")
  BY <1>0, <1>1 DEF DirectSteps
<1>4. BatchSteps(m)[1] = Do("mkdir")
  BY <1>0, <1>1, <1>2 DEF BatchSteps
<1>5. UpdateSteps[1] = Do("mkdir")
  BY DEF UpdateSteps
<1>6. QED
  BY <1>3, <1>4, <1>5 DEF StageSteps, Kinds

\* A plan is made for the transaction it is asked for.
LEMMA PlanIdentity ==
  \A tx, req : Plan(tx, req).tx = tx /\ Plan(tx, req).req = req
  BY DEF Plan, IngestPlan, UpdatePlan

\* Staging always starts by making the pending directory.
LEMMA NotFirst ==
  ASSUME LedgerInv, pc = "stage", step = 1, NEW what, Staging(what)
  PROVE  what = "mkdir"
<1>1. op.req.kind \in Kinds
  BY RequestsAssumption DEF RequestType, LedgerInv, PhaseInv, Running
<1>2. StageNow = Do("mkdir")
  BY <1>1, FirstStep DEF StageNow
<1>3. QED
  BY <1>2 DEF Staging, Do

LEMMA LedgerStep == LedgerInv /\ [Next]_vars => LedgerInv'
<1> SUFFICES ASSUME LedgerInv, [Next]_vars PROVE LedgerInv'
  OBVIOUS
<1> USE DEF LedgerInv, PhaseInv, StageInv, Running, OpenPhases, disk, owner, history, Quiet
<1>1. CASE UNCHANGED vars
  BY <1>1, QuietStep DEF vars, PendIsRecord
<1>2. CASE \E tx \in TxIds, req \in Requests : Begin(tx, req)
  BY <1>2, QuietStep DEF Begin
<1>3. CASE Start
  BY <1>3, QuietStep DEF Start
<1>4. CASE CheckNoPending
  BY <1>4, QuietStep DEF CheckNoPending, EmptyState
<1>5. CASE RollbackCas
  BY <1>5, QuietStep DEF RollbackCas
<1>6. CASE CheckRefuses
  BY <1>6, QuietStep DEF CheckRefuses, Refuse, Return, EmptyState
<1>7. CASE \E f \in (IF pc = "remove" THEN pend.files ELSE {}) :
             RemoveComponentFile(f) \/ RemoveControlFile(f)
  BY <1>7, QuietStep DEF RemoveComponentFile, RemoveControlFile
<1>8. CASE RemoveComponents
  BY <1>8, QuietStep DEF RemoveComponents
<1>9. CASE RemovePending
  BY <1>9, QuietStep DEF RemovePending, EmptyState
<1>10. CASE ReplayEmpty
  BY <1>10, QuietStep DEF ReplayEmpty, Refuse, Return, EmptyState
<1>11. CASE ReplayGeneration
  BY <1>11, QuietStep, ApplyCounts, SMTT(60) DEF ReplayGeneration, Refuse, Return, EmptyState
<1>12. CASE ReplayHead
  BY <1>12, QuietStep, SMTT(60) DEF ReplayHead, AtHead, Refuse, Return, EmptyState
<1>13. CASE Opened
  BY <1>13, QuietStep, SMTT(60) DEF Opened, EmptyState
<1>14. CASE InstallCas
  BY <1>14, QuietStep, SMTT(60) DEF InstallCas, Installing, Refuse, Return, EmptyState
<1>15. CASE InstallSkip
  BY <1>15, QuietStep DEF InstallSkip, Installing
<1>16. CASE InstallTemp
  BY <1>16, QuietStep DEF InstallTemp, Installing
<1>17. CASE InstallRename
  BY <1>17, QuietStep DEF InstallRename, Installing
<1>18. CASE InstallRefuses
  BY <1>18, QuietStep DEF InstallRefuses, Installing, Refuse, Return, EmptyState
<1>19. CASE InstallDone
  BY <1>19, QuietStep, ApplyCounts DEF InstallDone, Refuse, Return, EmptyState
<1>20. CASE DecideOtherKind
  BY <1>20, QuietStep DEF DecideOtherKind, Fail, Return, EmptyState
<1>21. CASE DecideMalformed
  BY <1>21, QuietStep DEF DecideMalformed, Fail, Return, EmptyState
<1>22. CASE DecideRemembered
  <2>1. op.tx \in TxIds /\ ol[op.tx] # NoReceipt
    BY <1>22 DEF DecideRemembered, Looking, Deciding, Remembered
  <2>2. CASE ol[op.tx].req = op.req
    <3>1. ReturnReceipt(ol[op.tx]) /\ UNCHANGED <<gens, rt, ol>>
      BY <1>22, <2>2 DEF DecideRemembered, Succeed
    <3>2. RememberedInv' /\ UnchangedStaysUnchanged'
      BY <3>1 DEF RememberedInv, UnchangedStaysUnchanged, ReturnReceipt
    <3>3. QED
      BY <2>1, <3>1, <3>2, AckStep DEF RememberedInv, AckedDurable
  <2>3. CASE ol[op.tx].req # op.req
    BY <1>22, <2>3, QuietStep DEF DecideRemembered, Fail, Return, EmptyState
  <2>4. QED
    BY <2>2, <2>3
<1>23. CASE DecideRetry
  <2>1. PICK i \in Hits : IF RetryAgrees(i) THEN Succeed(Receipt(i)) /\ UNCHANGED ol
                                            ELSE Fail("conflict")
    BY <1>23 DEF DecideRetry
  <2>2. CASE RetryAgrees(i)
    <3>1. ReturnReceipt(Receipt(i)) /\ UNCHANGED <<gens, rt, ol>>
      BY <2>1, <2>2 DEF Succeed
    <3>2. RememberedInv' /\ UnchangedStaysUnchanged'
      BY <3>1 DEF RememberedInv, UnchangedStaysUnchanged, ReturnReceipt
    <3>3. i \in 1..Len(gens) /\ Receipt(i) = Receipt(Receipt(i).n) /\ Receipt(i).n = i
      BY <1>23 DEF Hits, Receipt, DecideRetry, Looking, Deciding
    <3>4. QED
      BY <3>1, <3>2, <3>3, AckStep
  <2>3. CASE ~RetryAgrees(i)
    BY <1>23, <2>1, <2>3, QuietStep DEF DecideRetry, Fail, Return, EmptyState
  <2>4. QED
    BY <2>2, <2>3
<1>24. CASE DecideUnchanged
  <2> DEFINE r == HeadReceipt(BatchOutcomes(rt.atoms, op.req.items))
  <2>1. op.tx \in TxIds
    BY <1>24 DEF DecideUnchanged, Fresh, Looking, Deciding
  <2>2. ReturnReceipt(r) /\ UNCHANGED <<gens, rt>> /\ ol' = [ol EXCEPT ![op.tx] = r]
    BY <1>24 DEF DecideUnchanged, Succeed
  <2>3. r.result = "unchanged" /\ r.req.kind # "update"
    BY <1>24 DEF HeadReceipt, DecideUnchanged, DirectReuses, BatchUnchanged, BatchAdmitted
  <2>4. \A i \in 1..Len(gens) : gens[i].tx # op.tx
    BY <1>24 DEF DecideUnchanged, Looking, Deciding, Fresh, Hits
  <2> HIDE DEF r
  <2>5. RememberedInv' /\ UnchangedStaysUnchanged'
    BY <2>1, <2>2, <2>3, <2>4 DEF RememberedInv, UnchangedStaysUnchanged, ReturnReceipt
  <2>6. QED
    BY <2>2, <2>3, <2>5, AckStep
<1>25. CASE DecideStage
  BY <1>25, QuietStep DEF DecideStage, Looking, Deciding, Fresh, Hits, OtherKind, Remembered, RememberedInv
<1>26. CASE DecideReject
  BY <1>26, QuietStep DEF DecideReject, Fail, Return, EmptyState
<1>27. CASE StageMkdir
  BY <1>27, QuietStep, PlanIdentity DEF StageMkdir, StageRest, Staging, PendIsRecord
<1>28. CASE StageComponents
  <2>1. pc = "stage" /\ step # 1
    BY <1>28, NotFirst DEF StageComponents, Staging
  <2>2. QED
    BY <1>28, <2>1, QuietStep DEF StageComponents, StageRest, PendIsRecord
<1>29. CASE StageWrite
  <2>1. pc = "stage" /\ step # 1
    BY <1>29, NotFirst DEF StageWrite, Staging
  <2>2. QED
    BY <1>29, <2>1, QuietStep DEF StageWrite, StageRest, PendIsRecord
<1>30. CASE StageAppend
  <2>1. pc = "stage" /\ step # 1
    BY <1>30, NotFirst DEF StageAppend, Staging
  <2>2. QED
    BY <1>30, <2>1, QuietStep DEF StageAppend, StageRest, PendIsRecord
<1>31. CASE StageCreate
  <2>1. pc = "stage" /\ step # 1
    BY <1>31, NotFirst DEF StageCreate, Staging
  <2>2. QED
    BY <1>31, <2>1, QuietStep DEF StageCreate, StageRest, PendIsRecord
<1>32. CASE StagePublish
  <2>1. pc = "stage" /\ step # 1
    BY <1>32, NotFirst DEF StagePublish, Staging
  <2>2. /\ gens' = Append(gens, pend.gen) /\ pend.gen.tx = op.tx
        /\ UNCHANGED <<op, fold, rt, ol, acked>>
        /\ pc' = "install" /\ cont' = "commit"
    BY <1>32, <2>1 DEF StagePublish
  <2>3. /\ Len(gens') = Len(gens) + 1 /\ gens'[Len(gens')] = pend.gen
        /\ \A i \in 1..Len(gens) : gens'[i] = gens[i]
        /\ gens' # << >> /\ Len(gens) \in Nat
    BY <2>2
  <2>4. gens' \in Seq(Elems(gens'))
    BY <2>2, <2>3, SMTT(60) DEF Elems
  <2>5. OneGenerationPerTx'
    BY <2>1, <2>2, <2>3 DEF OneGenerationPerTx
  <2>6. AckedDurable'
    BY <2>2, <2>3 DEF AckedDurable, Receipt
  <2>7. UnchangedStaysUnchanged'
    BY <2>1, <2>2, <2>3 DEF UnchangedStaysUnchanged
  <2>8. PhaseInv' /\ StageInv'
    BY <2>1, <2>2, <2>3
  <2>9. QED
    BY <2>2, <2>3, <2>4, <2>5, <2>6, <2>7, <2>8 DEF RememberedInv
<1>33. CASE Finish
  <2>1. PICK i \in Hits :
          /\ Succeed(Receipt(i))
          /\ ol' = IF op.req.kind = "update" THEN [ol EXCEPT ![op.tx] = Receipt(i)] ELSE ol
    BY <1>33 DEF Finish
  <2>2. ReturnReceipt(Receipt(i)) /\ UNCHANGED <<gens, rt>>
    BY <2>1 DEF Succeed
  <2>3. i \in 1..Len(gens) /\ Receipt(i) = Receipt(Receipt(i).n) /\ Receipt(i).n = i
    BY <1>33 DEF Hits, Receipt, Finish
  <2>4. Receipt(i).result = "committed" /\ op.tx \in TxIds
    BY <1>33 DEF Receipt, Finish
  <2>5. RememberedInv' /\ UnchangedStaysUnchanged'
    BY <2>1, <2>2, <2>4 DEF RememberedInv, UnchangedStaysUnchanged, ReturnReceipt
  <2>6. QED
    BY <2>2, <2>3, <2>5, AckStep
<1>34. CASE Fault
  <2>1. CASE IoError
    BY <1>34, <2>1, QuietStep DEF IoError, MayFault, Return, EmptyState
  <2>2. CASE ~IoError
    <3>1. UNCHANGED <<gens, acked>> /\ Die
      BY <1>34, <2>2 DEF Fault, Crash, CrashInStageWrite, CrashInStageCreate, CrashInInstallTemp, Die
    <3>2. QED
      BY <3>1 DEF Die, EmptyState, RememberedInv, OneGenerationPerTx, AckedDurable,
                   UnchangedStaysUnchanged, Receipt, Elems
  <2>3. QED
    BY <2>1, <2>2
<1>35. QED
  BY <1>1, <1>2, <1>3, <1>4, <1>5, <1>6, <1>7, <1>8, <1>9, <1>10, <1>11, <1>12, <1>13, <1>14,
     <1>15, <1>16, <1>17, <1>18, <1>19, <1>20, <1>21, <1>22, <1>23, <1>24, <1>25, <1>26, <1>27,
     <1>28, <1>29, <1>30, <1>31, <1>32, <1>33, <1>34
     DEF Next, Progress, Open, Install, Decide, Stage

\* Whatever is retried after whatever crash, a transaction identity is
\* committed by at most one generation.
THEOREM CommittedOnce == Spec => []OneGenerationPerTx
<1>1. LedgerInv => OneGenerationPerTx
  BY DEF LedgerInv
<1>2. QED
  BY LedgerInit, LedgerStep, <1>1, PTL DEF Spec

\* An acknowledged commit keeps its generation, request and outcomes.
THEOREM AcknowledgedStaysDurable == Spec => []AckedDurable
<1>1. LedgerInv => AckedDurable
  BY DEF LedgerInv
<1>2. QED
  BY LedgerInit, LedgerStep, <1>1, PTL DEF Spec

\* An identity remembered as having committed nothing commits nothing while
\* the owner lives, although update_atom does not look it up.
THEOREM UnchangedNeverCommits == Spec => []UnchangedStaysUnchanged
<1>1. LedgerInv => UnchangedStaysUnchanged
  BY DEF LedgerInv
<1>2. QED
  BY LedgerInit, LedgerStep, <1>1, PTL DEF Spec

-----------------------------------------------------------------------------
(* The engine implements CommitLedger *)

Entries == [i \in 1..Len(gens) |-> [tx |-> gens[i].tx, req |-> gens[i].req]]
Acks == {[tx |-> r.tx, req |-> r.req, n |-> r.n] : r \in {q \in acked : q.result = "committed"}}

\* Only a commit, an open, a death and an answer concern the ledger.
LEMMA OtherSteps ==
  ASSUME [Next]_vars
  PROVE  \/ UNCHANGED <<gens, rt, acked>>
         \/ Opened
         \/ DecideRemembered \/ DecideRetry \/ DecideUnchanged \/ Finish
         \/ StagePublish
         \/ UNCHANGED <<gens, acked>> /\ rt' = EmptyState
<1> USE DEF disk, owner, history
<1>1. CASE UNCHANGED vars
  BY <1>1 DEF vars
<1>2. CASE \E tx \in TxIds, req \in Requests : Begin(tx, req)
  BY <1>2 DEF Begin
<1>3. CASE Open
  BY <1>3 DEF Open, Start, CheckNoPending, RollbackCas, CheckRefuses, RemoveComponentFile,
              RemoveControlFile, RemoveComponents, RemovePending, ReplayEmpty,
              ReplayGeneration, ReplayHead, Refuse
<1>4. CASE Install
  BY <1>4 DEF Install, InstallCas, InstallSkip, InstallTemp, InstallRename, InstallRefuses,
              InstallDone, Refuse
<1>5. CASE Decide
  BY <1>5 DEF Decide, DecideOtherKind, DecideMalformed, DecideStage, DecideReject, Fail
<1>6. CASE Stage
  BY <1>6 DEF Stage, StageMkdir, StageComponents, StageWrite, StageAppend, StageCreate, StageRest
<1>7. CASE Fault
  BY <1>7 DEF Fault, Crash, CrashInStageWrite, CrashInStageCreate, CrashInInstallTemp, IoError, Die
<1>8. QED
  BY <1>1, <1>2, <1>3, <1>4, <1>5, <1>6, <1>7 DEF Next, Progress

LEMMA LedgerStepMaps == LedgerInv /\ [Next]_vars => [Ledger!LedgerNext]_(Ledger!lvars)
<1> SUFFICES ASSUME LedgerInv, [Next]_vars
             PROVE  Ledger!LedgerNext \/ UNCHANGED <<Entries, rt.n, Acks>>
  BY DEF Ledger!lvars, Entries, Acks
<1>1. CASE UNCHANGED <<gens, rt, acked>>
  BY <1>1 DEF Entries, Acks
<1>2. CASE Opened
  <2>1. rt'.n = Len(gens) /\ UNCHANGED <<gens, acked>>
    BY <1>2 DEF Opened, LedgerInv, PhaseInv, disk, history
  <2>2. Len(Entries) = Len(gens)
    BY DEF LedgerInv, Entries
  <2>3. Ledger!Serve
    BY <2>1, <2>2 DEF Ledger!Serve, Entries, Acks
  <2>4. QED
    BY <2>3 DEF Ledger!LedgerNext
<1>3. CASE DecideRemembered
  <2>1. UNCHANGED <<gens, rt>>
    BY <1>3 DEF DecideRemembered, Succeed, Fail, disk
  <2>2. acked' = acked
    BY <1>3 DEF DecideRemembered, Succeed, Fail, ReturnReceipt, LedgerInv, RememberedInv, PhaseInv,
                Running, Looking, Deciding, Remembered
  <2>3. QED
    BY <2>1, <2>2 DEF Entries, Acks
<1>4. ASSUME NEW i \in Hits, rt.n = Len(gens), UNCHANGED <<gens, rt>>,
             acked' = acked \cup {Receipt(i)}
      PROVE  Ledger!LedgerNext
  <2>1. i \in 1..Len(gens)
    BY <1>4 DEF Hits
  <2>2. Acks' = Acks \cup {[tx |-> Entries[i].tx, req |-> Entries[i].req, n |-> i]}
    <3> DEFINE R == Receipt(i)
    <3>1. /\ R.result = "committed"
          /\ [tx |-> R.tx, req |-> R.req, n |-> R.n]
               = [tx |-> Entries[i].tx, req |-> Entries[i].req, n |-> i]
      BY <2>1 DEF Receipt, Entries
    <3>2. acked' = acked \cup {R}
      BY <1>4
    <3> HIDE DEF R
    <3>3. QED
      BY <3>1, <3>2 DEF Acks
  <2>3. Ledger!Acknowledge(i)
    BY <1>4, <2>1, <2>2 DEF Ledger!Acknowledge, Entries, Acks
  <2>4. QED
    BY <1>4, <2>1, <2>3 DEF Ledger!LedgerNext
<1>5. CASE DecideRetry
  <2>1. PICK i \in Hits : IF RetryAgrees(i) THEN Succeed(Receipt(i)) /\ UNCHANGED ol
                                            ELSE Fail("conflict")
    BY <1>5 DEF DecideRetry
  <2>2. rt.n = Len(gens) /\ UNCHANGED <<gens, rt>>
    BY <1>5, <2>1 DEF DecideRetry, Looking, Deciding, LedgerInv, PhaseInv, Succeed, Fail, disk
  <2>3. acked' = acked \/ acked' = acked \cup {Receipt(i)}
    BY <2>1 DEF Succeed, Fail, ReturnReceipt
  <2>4. QED
    BY <2>2, <2>3, <1>4, <1>1
<1>6. CASE DecideUnchanged
  <2> DEFINE r == HeadReceipt(BatchOutcomes(rt.atoms, op.req.items))
  <2>1. UNCHANGED <<gens, rt>> /\ acked' = acked \cup {r}
    BY <1>6 DEF DecideUnchanged, Succeed, ReturnReceipt, disk
  <2>2. r.result # "committed"
    BY DEF HeadReceipt
  <2> HIDE DEF r
  <2>3. QED
    BY <2>1, <2>2 DEF Entries, Acks
<1>7. CASE Finish
  <2>1. PICK i \in Hits : Succeed(Receipt(i))
    BY <1>7 DEF Finish
  <2>2. rt.n = Len(gens)
    BY <1>7 DEF Finish, LedgerInv, PhaseInv
  <2>3. UNCHANGED <<gens, rt>> /\ acked' = acked \cup {Receipt(i)}
    BY <2>1 DEF Succeed, ReturnReceipt, disk
  <2>4. QED
    BY <2>2, <2>3, <1>4
<1>8. CASE StagePublish
  <2>1. pc = "stage" /\ step # 1 /\ op \in [tx : TxIds, req : Requests]
    BY <1>8, NotFirst DEF StagePublish, Staging, LedgerInv, PhaseInv, Running
  <2>2. /\ gens' = Append(gens, pend.gen) /\ UNCHANGED <<rt, acked>>
        /\ pend.gen.tx = op.tx /\ pend.gen.req = op.req
        /\ \A i \in 1..Len(gens) : gens[i].tx # op.tx
    BY <1>8, <2>1 DEF StagePublish, LedgerInv, StageInv, history
  <2>3. Entries' = Append(Entries, [tx |-> op.tx, req |-> op.req])
    BY <2>2 DEF LedgerInv, Entries
  <2>4. Ledger!Commit(op.tx, op.req)
    <3>1. \A i \in 1..Len(Entries) : Entries[i].tx # op.tx
      BY <2>2 DEF Entries, LedgerInv
    <3>2. rt'.n = rt.n /\ Acks' = Acks
      BY <2>2 DEF Acks
    <3> QED
      BY <2>3, <3>1, <3>2 DEF Ledger!Commit, Entries, Acks
  <2>5. op.tx \in TxIds /\ op.req \in Requests
    BY <2>1
  <2>6. \E tx \in TxIds, req \in Requests : Ledger!Commit(tx, req)
    BY <2>4, <2>5 DEF Ledger!Commit
  <2>7. QED
    BY <2>6, Zenon DEF Ledger!LedgerNext
<1>9. CASE UNCHANGED <<gens, acked>> /\ rt' = EmptyState
  BY <1>9 DEF Ledger!LedgerNext, Ledger!Stop, Entries, Acks, EmptyState
<1>10. QED
  BY OtherSteps, <1>1, <1>2, <1>3, <1>5, <1>6, <1>7, <1>8, <1>9

\* The engine with all its files, crashes and recoveries implements the
\* abstract ledger.
THEOREM EngineImplementsLedger == Spec => ImplementsLedger
<1>1. Init => Ledger!LedgerInit
  BY DEF Init, Ledger!LedgerInit, EmptyState
<1>2. QED
  BY LedgerInit, LedgerStep, LedgerStepMaps, <1>1, PTL DEF Spec, ImplementsLedger, Ledger!LedgerSpec

-----------------------------------------------------------------------------
(* Numbers *)

LEMMA LeastNat ==
  ASSUME NEW T \in SUBSET Nat, T # {}
  PROVE  \E m \in T : \A k \in T : m <= k
<1> DEFINE R == OpToRel(<, Nat)
<1>1. IsWellFoundedOn(R, Nat)
  BY NatLessThanWellFounded
<1>2. \A x, y \in Nat : <<y, x>> \in R <=> y < x
  BY DEF OpToRel
<1> HIDE DEF R
<1>3. PICK x \in T : \A y \in T : ~(<<y, x>> \in R)
  BY <1>1, WFMin
<1>4. ASSUME NEW y \in T PROVE x <= y
  <2>1. x \in Nat /\ y \in Nat /\ ~(<<y, x>> \in R)
    BY <1>3
  <2>2. ~(y < x)
    BY <1>2, <2>1
  <2>3. QED
    BY <2>1, <2>2
<1>5. QED
  BY <1>4

\* A non-empty set of numbers up to n has a largest element.
LEMMA LargestBelow ==
  ASSUME NEW T \in SUBSET Int, T # {}, NEW n \in Int, \A k \in T : k <= n
  PROVE  \E m \in T : \A k \in T : k <= m
<1> DEFINE D == {n - k : k \in T}
<1>0. \A k \in T : n - k \in Nat
  OBVIOUS
<1>1. D \in SUBSET Nat /\ D # {}
  BY <1>0, Zenon
<1>2. PICK d \in D : \A e \in D : d <= e
  BY <1>1, LeastNat
<1>3. PICK m \in T : d = n - m
  BY <1>2
<1>4. ASSUME NEW k \in T PROVE k <= m
  <2>1. n - k \in D
    OBVIOUS
  <2>2. d <= n - k
    BY <1>2, <2>1
  <2>3. k \in Int /\ m \in Int /\ n - m <= n - k
    BY <1>3, <2>2
  <2> HIDE DEF D
  <2>4. QED
    BY <2>3
<1>5. QED
  BY <1>4

\* The numbers of a sequence are bounded.
LEMMA Bounded ==
  ASSUME NEW n \in Nat, NEW f \in [1..n -> Nat]
  PROVE  \E b \in Nat : \A i \in 1..n : f[i] <= b
<1> DEFINE P(k) == \E b \in Nat : \A i \in 1..k : f[i] <= b
<1> DEFINE T == {k \in 0..n : ~P(k)}
<1>1. P(0)
  OBVIOUS
<1>2. ASSUME NEW k \in 1..n, P(k - 1) PROVE P(k)
  <2>1. PICK b \in Nat : \A i \in 1..(k - 1) : f[i] <= b
    BY <1>2
  <2>2. f[k] \in Nat /\ b + f[k] \in Nat
    OBVIOUS
  <2>3. ASSUME NEW i \in 1..k PROVE f[i] <= b + f[k]
    <3>1. CASE i = k
      BY <2>2, <3>1
    <3>2. CASE i # k
      <4>1. i \in 1..(k - 1) /\ f[i] \in Nat
        BY <3>2
      <4>2. QED
        BY <2>1, <2>2, <4>1
    <3>3. QED
      BY <3>1, <3>2
  <2>4. QED
    BY <2>2, <2>3
<1>3. n \in 0..n /\ T \in SUBSET Nat /\ \A k \in 0..n : k \notin T => P(k)
  OBVIOUS
<1>4. ASSUME T # {} PROVE FALSE
  <2>1. PICK k \in T : \A j \in T : k <= j
    BY <1>3, <1>4, LeastNat
  <2>2. k \in 0..n /\ ~P(k)
    OBVIOUS
  <2> HIDE DEF P, T
  <2>3. k # 0
    BY <1>1, <2>2
  <2>4. k - 1 \in 0..n /\ ~(k <= k - 1)
    BY <2>2, <2>3
  <2>5. P(k - 1)
    BY <1>3, <2>1, <2>4
  <2>6. QED
    BY <1>2, <2>2, <2>3, <2>5
<1>5. P(n)
  BY <1>3, <1>4
<1>6. QED
  BY <1>5

\* The k-th smallest element of a finite set of numbers exists.
LEMMA RankExists ==
  ASSUME NEW n \in Nat, NEW C \in SUBSET (1..n), NEW r \in Nat, r < Cardinality(C)
  PROVE  \E j \in C : Cardinality({i \in C : i < j}) = r
<1> DEFINE Below(j) == {i \in C : i < j}
<1>0. IsFiniteSet(C) /\ Cardinality(C) \in Nat
  <2>1. IsFiniteSet(1..n)
    BY FS_Interval
  <2>2. QED
    BY <2>1, FS_Subset, FS_CardinalityType
<1>1. ASSUME NEW j \in Int PROVE IsFiniteSet(Below(j)) /\ Cardinality(Below(j)) \in Nat
  BY <1>0, FS_Subset, FS_CardinalityType
<1>2. ASSUME NEW S \in SUBSET C, S # {}
      PROVE  \E m \in S : /\ \A k \in S : k <= m
                          /\ Cardinality(S) = Cardinality({k \in S : k < m}) + 1
  <2>0. n \in Int /\ S \in SUBSET Int /\ \A k \in S : k <= n
    OBVIOUS
  <2>1. PICK m \in S : \A k \in S : k <= m
    BY <1>2, <2>0, LargestBelow
  <2>2. {k \in S : k < m} = S \ {m}
    <3>1. \A k \in S : k < m <=> k # m
      BY <2>0, <2>1
    <3>2. QED
      BY <3>1
  <2>3. IsFiniteSet(S) /\ Cardinality(S) \in Nat
    BY <1>0, FS_Subset, FS_CardinalityType
  <2>4. Cardinality(S \ {m}) = Cardinality(S) - 1
    BY <2>3, FS_RemoveElement
  <2>5. Cardinality(S) = Cardinality({k \in S : k < m}) + 1
    BY <2>2, <2>3, <2>4
  <2>6. QED
    BY <2>1, <2>5
<1> DEFINE T == {j \in C : Cardinality(Below(j)) >= r}
<1>3. T # {}
  <2>1. C # {}
    BY <1>0, FS_EmptySet
  <2>2. PICK m \in C : Cardinality(C) = Cardinality(Below(m)) + 1
    BY <1>2, <2>1
  <2>3. m \in T
    BY <1>0, <1>1, <2>2
  <2>4. QED
    BY <2>3
<1>4. T \in SUBSET Nat
  <2>1. C \in SUBSET Nat
    OBVIOUS
  <2>2. QED
    BY <2>1, Zenon
<1>5. PICK j \in T : \A k \in T : j <= k
  <2> HIDE DEF T
  <2>1. QED
    BY <1>3, <1>4, LeastNat
<1>6. CASE Cardinality(Below(j)) = r
  BY <1>6
<1>7. CASE Cardinality(Below(j)) # r
  <2>1. Cardinality(Below(j)) > r /\ Below(j) \in SUBSET C
    BY <1>1, <1>5, <1>7
  <2>2. Below(j) # {}
    BY <2>1, FS_EmptySet
  <2>3. PICK m \in Below(j) :
          Cardinality(Below(j)) = Cardinality({k \in Below(j) : k < m}) + 1
    BY <1>2, <2>1, <2>2
  <2>4. m \in C /\ m < j /\ m \in Int /\ j \in Int
    BY <2>3
  <2>5. {k \in Below(j) : k < m} = Below(m)
    <3>1. \A k \in C : k < m => k < j
      BY <2>4
    <3>2. QED
      BY <3>1
  <2>6. Cardinality(Below(m)) >= r
    BY <1>1, <2>1, <2>3, <2>4, <2>5
  <2>7. m \in T
    BY <2>4, <2>6
  <2>8. QED
    BY <1>5, <2>4, <2>7
<1>8. QED
  BY <1>6, <1>7

-----------------------------------------------------------------------------
(* Planning *)

LEMMA NextNodeType ==
  ASSUME NEW atoms \in Seq(AtomRecs)
  PROVE  NextNode(atoms) \in Nat
<1> SUFFICES ASSUME atoms # << >> PROVE NextNode(atoms) \in Nat
  BY DEF NextNode
<1> DEFINE f == [i \in 1..Len(atoms) |-> atoms[i].node]
<1>1. Len(atoms) \in Nat /\ f \in [1..Len(atoms) -> Nat]
  <2>1. ASSUME NEW i \in 1..Len(atoms) PROVE atoms[i].node \in Nat
    <3>1. atoms[i] \in AtomRecs
      OBVIOUS
    <3>2. QED
      BY <3>1 DEF AtomRecs
  <2>2. QED
    BY <2>1
<1>2. PICK b \in Nat : \A i \in 1..Len(atoms) : f[i] <= b
  <2> HIDE DEF f
  <2>1. QED
    BY <1>1, Bounded
<1>3. \A i \in 1..Len(atoms) : f[i] = atoms[i].node
  OBVIOUS
<1>4. Nodes(atoms) \in SUBSET Nat /\ Nodes(atoms) # {} /\ \A k \in Nodes(atoms) : k <= b
  <2> HIDE DEF f
  <2>1. 1 \in 1..Len(atoms)
    OBVIOUS
  <2>2. QED
    BY <1>1, <1>2, <1>3, <2>1 DEF Nodes
<1>5. \E m \in Nodes(atoms) : \A k \in Nodes(atoms) : k <= m
  <2>1. b \in Int /\ Nodes(atoms) \in SUBSET Int
    BY <1>4
  <2>2. QED
    BY <1>4, <2>1, LargestBelow
<1>6. (CHOOSE m \in Nodes(atoms) : \A k \in Nodes(atoms) : k <= m) \in Nodes(atoms)
  BY <1>5
<1>7. QED
  BY <1>4, <1>6 DEF NextNode

LEMMA LookupType ==
  ASSUME NEW atoms \in Seq(AtomRecs), NEW a \in AtomIds(atoms)
  PROVE  Lookup(atoms, a) \in AtomRecs
<1>1. \E i \in 1..Len(atoms) : atoms[i].atom = a
  BY DEF AtomIds
<1>2. QED
  BY <1>1 DEF Lookup

LEMMA ItemResultType ==
  ASSUME NEW atoms, NEW items \in Seq(Bodies), NEW i \in 1..Len(items)
  PROVE  /\ ItemResult(atoms, items, i) \in {"created", "reused", "refused"}
         /\ ItemResult(atoms, items, i) = "created" => AtomOf[items[i]] \in Atoms
         /\ ItemResult(atoms, items, i) = "reused" => AtomOf[items[i]] \in AtomIds(atoms)
<1>1. items[i] \in Bodies
  OBVIOUS
<1>2. AtomOf[items[i]] \in Atoms \cup {NoAtom}
  BY <1>1, AtomOfAssumption
<1>3. QED
  BY <1>2 DEF ItemResult, ValidItem

LEMMA CreatedType ==
  ASSUME NEW atoms, NEW items \in Seq(Bodies)
  PROVE  /\ CreatedIn(atoms, items) \in SUBSET (1..Len(items))
         /\ IsFiniteSet(CreatedIn(atoms, items))
         /\ Cardinality(CreatedIn(atoms, items)) \in Nat
         /\ CreatedIn(atoms, items) # {} => Cardinality(CreatedIn(atoms, items)) >= 1
         /\ \A i \in Int : Rank(atoms, items, i) \in Nat
<1> DEFINE C == CreatedIn(atoms, items)
<1>1. C \in SUBSET (1..Len(items))
  BY DEF CreatedIn
<1> HIDE DEF C
<1>2. IsFiniteSet(C) /\ Cardinality(C) \in Nat
  <2>1. IsFiniteSet(1..Len(items))
    BY FS_Interval
  <2>2. QED
    BY <1>1, <2>1, FS_Subset, FS_CardinalityType
<1>3. C # {} => Cardinality(C) >= 1
  BY <1>2, FS_EmptySet
<1>4. ASSUME NEW i \in Int PROVE Cardinality({j \in C : j < i}) \in Nat
  BY <1>2, FS_Subset, FS_CardinalityType
<1>5. QED
  BY <1>1, <1>2, <1>3, <1>4 DEF C, Rank

LEMMA OutcomesType ==
  ASSUME NEW atoms \in Seq(AtomRecs), NEW items \in Seq(Bodies)
  PROVE  BatchOutcomes(atoms, items) \in Seq(Outcomes)
<1> DEFINE Entry(i) ==
       LET r == ItemResult(atoms, items, i) IN
       [result |-> r,
        node |-> CASE r = "created" -> NextNode(atoms) + Rank(atoms, items, i)
                   [] r = "reused"  -> Lookup(atoms, AtomOf[items[i]]).node
                   [] r = "refused" -> -1]
<1>1. ASSUME NEW i \in 1..Len(items) PROVE Entry(i) \in Outcomes
  <2> DEFINE res == ItemResult(atoms, items, i)
  <2>1. NextNode(atoms) + Rank(atoms, items, i) \in Int
    <3>1. NextNode(atoms) \in Nat
      BY NextNodeType
    <3>2. \A j \in Int : Rank(atoms, items, j) \in Nat
      BY CreatedType, Zenon
    <3>3. i \in Int
      OBVIOUS
    <3>4. QED
      BY <3>1, <3>2, <3>3
  <2>2. /\ res \in {"created", "reused", "refused"}
        /\ res = "reused" => AtomOf[items[i]] \in AtomIds(atoms)
    BY ItemResultType
  <2>3. res = "reused" => Lookup(atoms, AtomOf[items[i]]).node \in Int
    <3>1. res = "reused" => Lookup(atoms, AtomOf[items[i]]) \in AtomRecs
      BY <2>2, LookupType
    <3>2. QED
      BY <3>1 DEF AtomRecs
  <2> HIDE DEF res
  <2>4. Entry(i) = [result |-> res,
                    node |-> CASE res = "created" -> NextNode(atoms) + Rank(atoms, items, i)
                               [] res = "reused"  -> Lookup(atoms, AtomOf[items[i]]).node
                               [] res = "refused" -> -1]
    BY DEF res
  <2> HIDE DEF Entry
  <2>5. QED
    BY <2>1, <2>2, <2>3, <2>4 DEF Outcomes
<1> HIDE DEF Entry
<1>2. Len(items) \in Nat /\ [i \in 1..Len(items) |-> Entry(i)] \in [1..Len(items) -> Outcomes]
  BY <1>1
<1>3. BatchOutcomes(atoms, items) = [i \in 1..Len(items) |-> Entry(i)]
  BY DEF BatchOutcomes, Entry
<1>4. QED
  BY <1>2, <1>3, FunctionIsSeq

LEMMA NewAtomsType ==
  ASSUME NEW atoms \in Seq(AtomRecs), NEW items \in Seq(Bodies)
  PROVE  /\ NewAtoms(atoms, items) \in Seq(AtomRecs)
         /\ Len(NewAtoms(atoms, items)) = Cardinality(CreatedIn(atoms, items))
<1> DEFINE C == CreatedIn(atoms, items)
           N == Cardinality(C)
           Item(k) == CHOOSE j \in C : Rank(atoms, items, j) = k - 1
           Rec(k) == [atom |-> AtomOf[items[Item(k)]], body |-> items[Item(k)],
                      node |-> NextNode(atoms) + k - 1, prov |-> ZeroProv]
<1>1. N \in Nat /\ C \in SUBSET (1..Len(items))
  BY CreatedType
<1>2. ASSUME NEW k \in 1..N PROVE Item(k) \in C
  <2>1. k - 1 \in Nat /\ k - 1 < N /\ Len(items) \in Nat
    BY <1>1
  <2> HIDE DEF C
  <2>2. \E j \in C : Cardinality({i \in C : i < j}) = k - 1
    BY <1>1, <2>1, RankExists
  <2>3. \E j \in C : Rank(atoms, items, j) = k - 1
    BY <2>2 DEF Rank, C
  <2>4. QED
    BY <2>3
<1>3. ASSUME NEW k \in 1..N PROVE Rec(k) \in AtomRecs
  <2>1. Item(k) \in 1..Len(items) /\ ItemResult(atoms, items, Item(k)) = "created"
    BY <1>2 DEF CreatedIn
  <2>2. AtomOf[items[Item(k)]] \in Atoms /\ items[Item(k)] \in Bodies
    <3>1. PICK j \in 1..Len(items) : j = Item(k)
      BY <2>1
    <3> HIDE DEF Item
    <3>2. ItemResult(atoms, items, j) = "created" => AtomOf[items[j]] \in Atoms
      BY ItemResultType
    <3>3. QED
      BY <2>1, <3>1, <3>2
  <2> HIDE DEF Item
  <2>3. NextNode(atoms) + k - 1 \in Nat
    <3>1. NextNode(atoms) \in Nat /\ k \in Nat /\ k >= 1
      BY <1>1, NextNodeType
    <3>2. QED
      BY <3>1
  <2>4. QED
    BY <2>2, <2>3 DEF AtomRecs
<1>4. NewAtoms(atoms, items) = [k \in 1..N |-> Rec(k)]
  BY DEF NewAtoms
<1> HIDE DEF C, N, Rec
<1>5. [k \in 1..N |-> Rec(k)] \in [1..N -> AtomRecs]
  BY <1>3
<1>6. [k \in 1..N |-> Rec(k)] \in Seq(AtomRecs)
  BY <1>1, <1>5, FunctionIsSeq
<1>7. Len([k \in 1..N |-> Rec(k)]) = N
  BY <1>1
<1>8. QED
  BY <1>4, <1>6, <1>7 DEF N, C

LEMMA ChunksType ==
  ASSUME NEW new \in Seq(AtomRecs)
  PROVE  Chunks(new) \in Seq(Halves) /\ Len(Chunks(new)) = 2 * Len(new)
<1> DEFINE Half(i) == [body |-> new[(i + 1) \div 2].body, half |-> i % 2]
           N == 2 * Len(new)
<1>1. N \in Nat
  OBVIOUS
<1>2. ASSUME NEW i \in 1..N PROVE Half(i) \in Halves
  <2>1. (i + 1) \div 2 \in 1..Len(new) /\ i % 2 \in 0..1
    OBVIOUS
  <2>2. new[(i + 1) \div 2] \in AtomRecs
    BY <2>1
  <2>3. QED
    BY <2>1, <2>2 DEF Halves, AtomRecs
<1>3. Chunks(new) = [i \in 1..N |-> Half(i)]
  BY DEF Chunks
<1> HIDE DEF Half, N
<1>4. [i \in 1..N |-> Half(i)] \in [1..N -> Halves]
  BY <1>2
<1>5. [i \in 1..N |-> Half(i)] \in Seq(Halves) /\ Len([i \in 1..N |-> Half(i)]) = N
  BY <1>1, <1>4, FunctionIsSeq
<1>6. QED
  BY <1>3, <1>5 DEF N

LEMMA RequestParts ==
  ASSUME NEW req \in Requests
  PROVE  /\ req.kind \in Kinds /\ req.items \in Seq(Bodies) /\ req.items # << >>
         /\ req.old \in Atoms \cup {NoAtom} /\ req.prov \in Provs \cup {ZeroProv}
         /\ req.kind # "batch" => Len(req.items) = 1
         /\ req.kind = "update" => req.old \in Atoms
  BY RequestsAssumption DEF RequestType

\* What a plan is made from.
Plannable(req) ==
    /\ rt \in States /\ seg \in Seq(Halves) /\ live \in LiveFiles
    /\ req.kind = "update" => /\ req.old \in AtomIds(rt.atoms)
                              /\ AtomOf[req.items[1]] \in Atoms

LEMMA IngestPlanType ==
  ASSUME NEW tx \in TxIds, NEW req \in Requests, Plannable(req)
  PROVE  IngestPlan(tx, req) \in Generations
<1> DEFINE n == rt.n + 1
           new == NewAtoms(rt.atoms, req.items)
           atoms == rt.atoms \o new
           event == Event(tx, n)
           outs == BatchOutcomes(rt.atoms, req.items)
<1>1. /\ rt.n \in Nat /\ rt.atoms \in Seq(AtomRecs) /\ rt.edges \in Seq(Edges)
      /\ rt.history \in Seq(Events) /\ live.history \in Seq(Events)
  BY DEF Plannable, States, LiveFiles
<1>2. req.items \in Seq(Bodies)
  BY RequestParts
<1>3. new \in Seq(AtomRecs) /\ outs \in Seq(Outcomes)
  BY <1>1, <1>2, NewAtomsType, OutcomesType
<1>4. event \in Events /\ n \in Nat
  BY <1>1 DEF Event, Events
<1>5. IngestPlan(tx, req) =
       [tx |-> tx, req |-> req, new |-> new, old |-> NoAtom,
        base |-> Len(rt.atoms), pre |-> seg, outcomes |-> outs,
        comp |-> [index |-> atoms, history |-> Append(live.history, event),
                  sources |-> << >>, current |-> << >>, graph |-> << >>],
        digest |-> Digest(n, atoms, rt.edges, Append(rt.history, event), << >>)]
  BY DEF IngestPlan
<1> HIDE DEF n, new, event, outs
<1>6. atoms \in Seq(AtomRecs) /\ Len(rt.atoms) \in Nat
  BY <1>1, <1>3
<1> HIDE DEF atoms
<1>7. /\ Append(live.history, event) \in Seq(Events)
      /\ Append(rt.history, event) \in Seq(Events)
  BY <1>1, <1>4
<1>8. Digest(n, atoms, rt.edges, Append(rt.history, event), << >>) \in Digests
  BY <1>1, <1>4, <1>6, <1>7 DEF Digest, Digests
<1>9. [index |-> atoms, history |-> Append(live.history, event), sources |-> << >>,
       current |-> << >>, graph |-> << >>] \in Components
  BY <1>6, <1>7 DEF Components
<1>10. seg \in Seq(Halves)
  BY DEF Plannable
<1>11. QED
  BY <1>3, <1>5, <1>6, <1>8, <1>9, <1>10 DEF Generations

LEMMA UpdatePlanType ==
  ASSUME NEW tx \in TxIds, NEW req \in Requests, Plannable(req), req.kind = "update"
  PROVE  UpdatePlan(tx, req) \in Generations
<1> DEFINE n == rt.n + 1
           body == req.items[1]
           succ == [atom |-> AtomOf[body], body |-> body, node |-> NextNode(rt.atoms),
                    prov |-> req.prov]
           spv == [atom |-> succ.atom, prov |-> succ.prov]
           edges == Append(rt.edges, [old |-> req.old, new |-> succ.atom])
           atoms == Append(rt.atoms, succ)
           event == Event(tx, n)
           old == Lookup(rt.atoms, req.old)
           outs == <<[result |-> "updated", node |-> succ.node]>>
<1>1. /\ rt.n \in Nat /\ rt.atoms \in Seq(AtomRecs) /\ rt.edges \in Seq(Edges)
      /\ rt.history \in Seq(Events) /\ seg \in Seq(Halves)
      /\ req.old \in AtomIds(rt.atoms) /\ AtomOf[body] \in Atoms
  BY DEF Plannable, States
<1>2. body \in Bodies /\ req.old \in Atoms /\ req.prov \in Provs \cup {ZeroProv}
  BY RequestParts
<1>3. NextNode(rt.atoms) \in Nat /\ old \in AtomRecs
  BY <1>1, NextNodeType, LookupType
<1>4. succ \in AtomRecs
  BY <1>1, <1>2, <1>3 DEF AtomRecs
<1>5. spv \in Links /\ outs \in Seq(Outcomes) /\ <<succ>> \in Seq(AtomRecs)
  BY <1>1, <1>2, <1>3, <1>4 DEF Links, Outcomes
<1>6. [old |-> req.old, new |-> succ.atom] \in Edges
  BY <1>1, <1>2 DEF Edges
<1>7. event \in Events /\ n \in Nat
  BY <1>1 DEF Event, Events
<1>8. UpdatePlan(tx, req) =
       [tx |-> tx, req |-> req, new |-> <<succ>>, old |-> old,
        base |-> Len(rt.atoms), pre |-> seg, outcomes |-> outs,
        comp |-> [index |-> atoms, history |-> <<event>>, sources |-> <<spv>>,
                  current |-> edges, graph |-> edges],
        digest |-> Digest(n, atoms, edges, Append(rt.history, event), Append(Sources, spv))]
  BY DEF UpdatePlan
<1>9. atoms \in Seq(AtomRecs) /\ edges \in Seq(Edges)
  <2> HIDE DEF succ
  <2>1. QED
    BY <1>1, <1>4, <1>6
<1> HIDE DEF n, succ, spv, edges, atoms, event, old, outs
<1>10. Sources \in Seq(Links)
  BY DEF Sources, Plannable, LiveFiles
<1>11. Digest(n, atoms, edges, Append(rt.history, event), Append(Sources, spv)) \in Digests
  <2>1. Append(rt.history, event) \in Seq(Events) /\ Append(Sources, spv) \in Seq(Links)
    BY <1>1, <1>5, <1>7, <1>10
  <2>2. QED
    BY <1>7, <1>9, <2>1 DEF Digest, Digests
<1>12. [index |-> atoms, history |-> <<event>>, sources |-> <<spv>>, current |-> edges,
        graph |-> edges] \in Components
  BY <1>5, <1>7, <1>9 DEF Components
<1>13. QED
  BY <1>1, <1>3, <1>5, <1>8, <1>11, <1>12 DEF Generations

-----------------------------------------------------------------------------
(* Staging plans *)

\* Where the appends of a plan begin, and how long the plan is.
AppendFrom(kind, m) == IF kind = "direct" THEN 6 ELSE 2 * m + 3
PlanLen(kind, m) == CASE kind = "direct" -> 10
                      [] kind = "batch"  -> 4 * m + 6
                      [] kind = "update" -> 8

Marks == {"mkdir", "components", "append", "publish", "create"}
Names == {"prepare", "commit", "record", "orphan", "part"}
StepSet == [do : Marks \cup {"write"}, file : (Marks \cup Names) \X Int]

LEMMA DoIn ==
  ASSUME NEW x \in Marks
  PROVE  Do(x) \in StepSet /\ Do(x).do = x
  BY DEF Do, StepSet

LEMMA WriteIn ==
  ASSUME NEW x \in Names, NEW k \in Nat
  PROVE  Write(x, k) \in StepSet /\ Write(x, k).do = "write" /\ Write(x, k).file \in FileNames
<1>1. <<x, k>> \in FileNames /\ <<x, k>> \in (Marks \cup Names) \X Int
  BY DEF FileNames, Names
<1>2. QED
  BY <1>1 DEF Write, StepSet

LEMMA AppendsAt ==
  ASSUME NEW m \in Nat
  PROVE  /\ Appends(m) \in Seq(StepSet) /\ Len(Appends(m)) = 2 * m
         /\ \A i \in 1..2 * m : Appends(m)[i].do = "append"
<1>1. 2 * m \in Nat /\ Do("append") \in StepSet
  BY DoIn DEF Marks
<1>2. Appends(m) \in [1..2 * m -> StepSet]
  BY <1>1 DEF Appends
<1>3. Appends(m) \in Seq(StepSet) /\ Len(Appends(m)) = 2 * m
  BY <1>1, <1>2, FunctionIsSeq
<1>4. QED
  BY <1>3 DEF Appends, Do

LEMMA RecordPairsAt ==
  ASSUME NEW m \in Nat
  PROVE  /\ RecordPairs(m) \in Seq(StepSet) /\ Len(RecordPairs(m)) = 2 * m
         /\ \A i \in 1..2 * m : /\ RecordPairs(m)[i].do = "write"
                                /\ RecordPairs(m)[i].file \in FileNames
         /\ \A k \in 0..(m - 1) : /\ RecordPairs(m)[2 * k + 1] = Write("record", k)
                                  /\ RecordPairs(m)[2 * k + 2] = Write("orphan", k)
<1> DEFINE W(i) == Write(IF i % 2 = 1 THEN "record" ELSE "orphan", (i - 1) \div 2)
<1>1. ASSUME NEW i \in 1..2 * m
      PROVE  W(i) \in StepSet /\ W(i).do = "write" /\ W(i).file \in FileNames
  <2>1. (i - 1) \div 2 \in Nat
    OBVIOUS
  <2>2. (IF i % 2 = 1 THEN "record" ELSE "orphan") \in Names
    BY DEF Names
  <2>3. QED
    BY <2>1, <2>2, WriteIn
<1>2. RecordPairs(m) = [i \in 1..2 * m |-> W(i)] /\ 2 * m \in Nat
  BY DEF RecordPairs
<1>6. ASSUME NEW k \in 0..(m - 1)
      PROVE  W(2 * k + 1) = Write("record", k) /\ W(2 * k + 2) = Write("orphan", k)
  <2>1. /\ (2 * k + 1) % 2 = 1 /\ ((2 * k + 1) - 1) \div 2 = k
        /\ (2 * k + 2) % 2 = 0 /\ ((2 * k + 2) - 1) \div 2 = k
    OBVIOUS
  <2>2. QED
    BY <2>1
<1>7. \A k \in 0..(m - 1) : 2 * k + 1 \in 1..2 * m /\ 2 * k + 2 \in 1..2 * m
  OBVIOUS
<1> HIDE DEF W
<1>8. ASSUME NEW k \in 0..(m - 1)
      PROVE  /\ RecordPairs(m)[2 * k + 1] = Write("record", k)
             /\ RecordPairs(m)[2 * k + 2] = Write("orphan", k)
  BY <1>2, <1>6, <1>7
<1>3. RecordPairs(m) \in [1..2 * m -> StepSet]
  BY <1>1, <1>2
<1>4. RecordPairs(m) \in Seq(StepSet) /\ Len(RecordPairs(m)) = 2 * m
  BY <1>2, <1>3, FunctionIsSeq
<1>5. QED
  BY <1>1, <1>2, <1>4, <1>8

\* What the s-th step of a plan is.
StepKnown(kind, m, s, st) ==
    /\ st.do = "mkdir" <=> s = 1
    /\ st.do = "components" <=> s = 2
    /\ st.do = "write" => st.file \in FileNames
    /\ st.do = "append" <=> /\ kind # "update"
                            /\ AppendFrom(kind, m) <= s /\ s < AppendFrom(kind, m) + 2 * m
    /\ st.do = "publish" <=> s = PlanLen(kind, m)

\* Where the k-th record and its orphan descriptor are written, and from where
\* on a step may touch the CAS.
RecordAt(kind, k) == CASE kind = "direct" -> 4
                       [] kind = "batch"  -> 2 * k + 3
                       [] kind = "update" -> 3
OrphanAt(kind, k) == IF kind = "direct" THEN 5 ELSE 2 * k + 4
EffectFrom(kind, m) == IF kind = "update" THEN 5 ELSE AppendFrom(kind, m)

\* What the s-th step of a plan writes.
StepWrites(kind, m, s, st) ==
    /\ st.do = "create" <=> kind = "update" /\ s = 5
    /\ \A k \in 0..(m - 1) :
          /\ s = RecordAt(kind, k) => st = Write("record", k)
          /\ kind # "update" /\ s = OrphanAt(kind, k) => st = Write("orphan", k)
    /\ st.do = "write" /\ EffectFrom(kind, m) <= s =>
          st.file \in {<<"part", 0>>, <<"prepare", 0>>, <<"commit", 0>>}

LEMMA BatchStepAt ==
  ASSUME NEW m \in Nat, NEW s \in 1..PlanLen("batch", m)
  PROVE  /\ StepKnown("batch", m, s, BatchSteps(m)[s])
         /\ StepWrites("batch", m, s, BatchSteps(m)[s])
<1> DEFINE P == <<Do("mkdir"), Do("components")>>
           R == RecordPairs(m)
           A == Appends(m)
           E == <<Write("part", 0), Write("prepare", 0), Write("commit", 0), Do("publish")>>
           PR == P \o R
           PRA == PR \o A
<1>0. /\ \A x \in Marks : Do(x) \in StepSet /\ Do(x).do = x
      /\ \A x \in Names : /\ Write(x, 0) \in StepSet /\ Write(x, 0).do = "write"
                          /\ Write(x, 0).file \in FileNames
  BY DoIn, WriteIn
<1>1. P \in Seq(StepSet) /\ Len(P) = 2 /\ P[1].do = "mkdir" /\ P[2].do = "components"
  BY <1>0 DEF Marks
<1>2. /\ E \in Seq(StepSet) /\ Len(E) = 4 /\ E[4].do = "publish"
      /\ \A i \in 1..3 : E[i].do = "write" /\ E[i].file \in FileNames
  BY <1>0 DEF Marks, Names
<1>e. \A i \in 1..3 : E[i].file \in {<<"part", 0>>, <<"prepare", 0>>, <<"commit", 0>>}
  BY DEF Write
<1>3. /\ R \in Seq(StepSet) /\ Len(R) = 2 * m
      /\ \A i \in 1..2 * m : R[i].do = "write" /\ R[i].file \in FileNames
      /\ \A k \in 0..(m - 1) : R[2 * k + 1] = Write("record", k) /\ R[2 * k + 2] = Write("orphan", k)
  BY RecordPairsAt
<1>4. A \in Seq(StepSet) /\ Len(A) = 2 * m /\ \A i \in 1..2 * m : A[i].do = "append"
  BY AppendsAt
<1>5. BatchSteps(m) = PRA \o E
  BY DEF BatchSteps
<1> HIDE DEF P, R, A, E
<1>6. /\ PR \in Seq(StepSet) /\ Len(PR) = 2 * m + 2
      /\ \A i \in 1..2 : PR[i] = P[i]
      /\ \A i \in 1..2 * m : PR[2 + i] = R[i]
  <2>0. P \in Seq(StepSet) /\ R \in Seq(StepSet)
    BY <1>1, <1>3
  <2>1. /\ PR \in Seq(StepSet) /\ Len(PR) = Len(P) + Len(R)
        /\ \A i \in 1..Len(P) : PR[i] = P[i]
        /\ \A i \in 1..Len(R) : PR[Len(P) + i] = R[i]
    BY <2>0
  <2> HIDE DEF PR
  <2>2. QED
    BY <1>1, <1>3, <2>1
<1> HIDE DEF PR
<1>7. /\ PRA \in Seq(StepSet) /\ Len(PRA) = 4 * m + 2
      /\ \A i \in 1..(2 * m + 2) : PRA[i] = PR[i]
      /\ \A i \in 1..2 * m : PRA[(2 * m + 2) + i] = A[i]
  <2>0. PR \in Seq(StepSet) /\ A \in Seq(StepSet)
    BY <1>4, <1>6
  <2>1. /\ PRA \in Seq(StepSet) /\ Len(PRA) = Len(PR) + Len(A)
        /\ \A i \in 1..Len(PR) : PRA[i] = PR[i]
        /\ \A i \in 1..Len(A) : PRA[Len(PR) + i] = A[i]
    BY <2>0
  <2> HIDE DEF PRA
  <2>2. QED
    BY <1>4, <1>6, <2>1
<1> HIDE DEF PRA
<1>8. /\ \A i \in 1..(4 * m + 2) : BatchSteps(m)[i] = PRA[i]
      /\ \A i \in 1..4 : BatchSteps(m)[(4 * m + 2) + i] = E[i]
  <2>0. PRA \in Seq(StepSet) /\ E \in Seq(StepSet)
    BY <1>2, <1>7
  <2>1. /\ \A i \in 1..Len(PRA) : BatchSteps(m)[i] = PRA[i]
        /\ \A i \in 1..Len(E) : BatchSteps(m)[Len(PRA) + i] = E[i]
    BY <1>5, <2>0
  <2>2. QED
    BY <1>2, <1>7, <2>1
<1> DEFINE W(st) == StepWrites("batch", m, s, st)
<1>w. ASSUME NEW st, st.do # "create", s < 2 * m + 3 \/ st.do # "write",
             \A k \in 0..(m - 1) : s # 2 * k + 3 /\ s # 2 * k + 4
      PROVE  W(st)
  BY <1>w DEF StepWrites, RecordAt, OrphanAt, EffectFrom, AppendFrom
<1> HIDE DEF W
<1> USE DEF StepKnown, AppendFrom, PlanLen
<1>9. CASE s \in 1..2
  <2>1. BatchSteps(m)[s] = P[s]
    BY <1>6, <1>7, <1>8, <1>9, SMTT(60)
  <2>2. \A k \in 0..(m - 1) : s # 2 * k + 3 /\ s # 2 * k + 4
    BY <1>9
  <2>3. P[s].do # "create" /\ s < 2 * m + 3
    BY <1>1, <1>9
  <2>4. W(BatchSteps(m)[s])
    BY <1>w, <2>1, <2>2, <2>3
  <2>5. QED
    BY <1>1, <1>9, <2>1, <2>4 DEF W
<1>10. CASE s \in 3..(2 * m + 2)
  <2>1. PICK i \in 1..2 * m : s = 2 + i
    <3>1. s - 2 \in 1..2 * m /\ s = 2 + (s - 2)
      BY <1>10
    <3>2. QED
      BY <3>1
  <2>2. BatchSteps(m)[s] = R[i]
    <3>1. s \in 1..(4 * m + 2) /\ s \in 1..(2 * m + 2)
      BY <1>10
    <3>2. BatchSteps(m)[s] = PR[s]
      BY <1>7, <1>8, <3>1
    <3>3. QED
      BY <1>6, <2>1, <3>2
  <2>3. ASSUME NEW k \in 0..(m - 1)
        PROVE  /\ s = 2 * k + 3 => R[i] = Write("record", k)
               /\ s = 2 * k + 4 => R[i] = Write("orphan", k)
    <3>1. /\ s = 2 * k + 3 => i = 2 * k + 1
          /\ s = 2 * k + 4 => i = 2 * k + 2
      BY <2>1
    <3>2. QED
      BY <1>3, <3>1
  <2>4. R[i].do = "write" /\ ~(2 * m + 3 <= s)
    BY <1>3, <1>10
  <2>5. StepWrites("batch", m, s, R[i])
    BY <2>3, <2>4 DEF StepWrites, RecordAt, OrphanAt, EffectFrom
  <2>6. QED
    BY <1>3, <1>10, <2>2, <2>5
<1>11. CASE s \in (2 * m + 3)..(4 * m + 2)
  <2>1. PICK i \in 1..2 * m : s = (2 * m + 2) + i
    <3>1. s - (2 * m + 2) \in 1..2 * m /\ s = (2 * m + 2) + (s - (2 * m + 2))
      BY <1>11
    <3>2. QED
      BY <3>1
  <2>2. BatchSteps(m)[s] = A[i]
    <3>1. s \in 1..(4 * m + 2)
      BY <1>11
    <3>2. BatchSteps(m)[s] = PRA[s]
      BY <1>8, <3>1
    <3>3. QED
      BY <1>7, <2>1, <3>2
  <2>3. \A k \in 0..(m - 1) : s # 2 * k + 3 /\ s # 2 * k + 4
    BY <1>11
  <2>6. PICK st : st = BatchSteps(m)[s]
    OBVIOUS
  <2>7. st.do = "append"
    BY <1>4, <2>2, <2>6
  <2>8. st.do # "create" /\ st.do # "write"
    BY <2>7
  <2>9. W(st)
    BY <1>w, <2>3, <2>8
  <2>4. W(BatchSteps(m)[s])
    BY <2>6, <2>9
  <2>5. QED
    BY <1>4, <1>11, <2>2, <2>4 DEF W
<1>12. CASE s \in (4 * m + 3)..(4 * m + 6)
  <2>1. PICK i \in 1..4 : s = (4 * m + 2) + i
    <3>1. s - (4 * m + 2) \in 1..4 /\ s = (4 * m + 2) + (s - (4 * m + 2))
      BY <1>12
    <3>2. QED
      BY <3>1
  <2>2. BatchSteps(m)[s] = E[i]
    BY <1>8, <2>1
  <2>3. \A k \in 0..(m - 1) : s # 2 * k + 3 /\ s # 2 * k + 4
    BY <1>12
  <2>4. /\ E[i].do # "create"
        /\ E[i].do = "write" => E[i].file \in {<<"part", 0>>, <<"prepare", 0>>, <<"commit", 0>>}
    BY <1>2, <1>e
  <2>5. StepWrites("batch", m, s, E[i])
    BY <2>3, <2>4 DEF StepWrites, RecordAt, OrphanAt, EffectFrom
  <2>6. QED
    BY <1>2, <1>12, <2>1, <2>2, <2>5, SMTT(60)
<1>13. QED
  BY <1>9, <1>10, <1>11, <1>12

LEMMA DirectStepAt ==
  ASSUME NEW s \in 1..PlanLen("direct", 1)
  PROVE  /\ StepKnown("direct", 1, s, DirectSteps[s])
         /\ StepWrites("direct", 1, s, DirectSteps[s])
<1> DEFINE P == <<Do("mkdir"), Do("components"), Write("prepare", 0), Write("record", 0),
                  Write("orphan", 0)>>
           A == Appends(1)
           E == <<Write("part", 0), Write("commit", 0), Do("publish")>>
           PA == P \o A
<1>0. /\ \A x \in Marks : Do(x) \in StepSet /\ Do(x).do = x
      /\ \A x \in Names : /\ Write(x, 0) \in StepSet /\ Write(x, 0).do = "write"
                          /\ Write(x, 0).file \in FileNames
  BY DoIn, WriteIn
<1>1. /\ P \in Seq(StepSet) /\ Len(P) = 5 /\ P[1].do = "mkdir" /\ P[2].do = "components"
      /\ \A i \in 3..5 : P[i].do = "write" /\ P[i].file \in FileNames
  BY <1>0 DEF Marks, Names
<1>2. /\ E \in Seq(StepSet) /\ Len(E) = 3 /\ E[3].do = "publish"
      /\ \A i \in 1..2 : E[i].do = "write" /\ E[i].file \in FileNames
  BY <1>0 DEF Marks, Names
<1>p. /\ P[4] = Write("record", 0) /\ P[5] = Write("orphan", 0)
      /\ \A i \in 1..2 : E[i].file \in {<<"part", 0>>, <<"prepare", 0>>, <<"commit", 0>>}
  BY DEF Write
<1>3. A \in Seq(StepSet) /\ Len(A) = 2 /\ \A i \in 1..2 : A[i].do = "append"
  <2>1. 1 \in Nat /\ 2 * 1 = 2
    OBVIOUS
  <2>2. /\ A \in Seq(StepSet) /\ Len(A) = 2 * 1
        /\ \A i \in 1..2 * 1 : A[i].do = "append"
    BY <2>1, AppendsAt, Zenon
  <2>3. QED
    BY <2>1, <2>2
<1>4. DirectSteps = PA \o E
  BY DEF DirectSteps
<1> HIDE DEF P, A, E
<1>5. /\ PA \in Seq(StepSet) /\ Len(PA) = 7
      /\ \A i \in 1..5 : PA[i] = P[i]
      /\ \A i \in 1..2 : PA[5 + i] = A[i]
  <2>0. P \in Seq(StepSet) /\ A \in Seq(StepSet)
    BY <1>1, <1>3
  <2>1. /\ PA \in Seq(StepSet) /\ Len(PA) = Len(P) + Len(A)
        /\ \A i \in 1..Len(P) : PA[i] = P[i]
        /\ \A i \in 1..Len(A) : PA[Len(P) + i] = A[i]
    BY <2>0
  <2> HIDE DEF PA
  <2>2. QED
    BY <1>1, <1>3, <2>1
<1> HIDE DEF PA
<1>6. /\ \A i \in 1..7 : DirectSteps[i] = PA[i]
      /\ \A i \in 1..3 : DirectSteps[7 + i] = E[i]
  <2>0. PA \in Seq(StepSet) /\ E \in Seq(StepSet)
    BY <1>2, <1>5
  <2>1. /\ \A i \in 1..Len(PA) : DirectSteps[i] = PA[i]
        /\ \A i \in 1..Len(E) : DirectSteps[Len(PA) + i] = E[i]
    BY <1>4, <2>0
  <2>2. QED
    BY <1>2, <1>5, <2>1
<1>7. /\ \A i \in 1..5 : DirectSteps[i] = P[i]
      /\ DirectSteps[6] = A[1] /\ DirectSteps[7] = A[2]
      /\ DirectSteps[8] = E[1] /\ DirectSteps[9] = E[2] /\ DirectSteps[10] = E[3]
  BY <1>5, <1>6
<1>8. StepWrites("direct", 1, s, DirectSteps[s])
  <2>1. s \in 1..10 /\ \A k \in 0..(1 - 1) : k = 0
    BY DEF PlanLen
  <2>2. CASE s \in 1..5
    BY <1>1, <1>7, <1>p, <2>1, <2>2 DEF StepWrites, RecordAt, OrphanAt, EffectFrom, AppendFrom
  <2>3. CASE s \in 6..7
    BY <1>3, <1>7, <2>1, <2>3 DEF StepWrites, RecordAt, OrphanAt
  <2>4. CASE s \in 8..10
    BY <1>2, <1>7, <1>p, <2>1, <2>4 DEF StepWrites, RecordAt, OrphanAt
  <2>5. QED
    BY <2>1, <2>2, <2>3, <2>4
<1>9. QED
  BY <1>1, <1>2, <1>3, <1>7, <1>8, SMTT(60) DEF StepKnown, AppendFrom, PlanLen

LEMMA UpdateStepAt ==
  ASSUME NEW s \in 1..PlanLen("update", 1)
  PROVE  /\ StepKnown("update", 1, s, UpdateSteps[s])
         /\ StepWrites("update", 1, s, UpdateSteps[s])
<1>1. StepKnown("update", 1, s, UpdateSteps[s])
  BY DEF UpdateSteps, StepKnown, AppendFrom, PlanLen, Do, Write, FileNames
<1>2. s \in 1..8 /\ \A k \in 0..(1 - 1) : k = 0
  BY DEF PlanLen
<1>3. StepWrites("update", 1, s, UpdateSteps[s])
  BY <1>2 DEF UpdateSteps, StepWrites, RecordAt, EffectFrom, Do, Write
<1>4. QED
  BY <1>1, <1>3

LEMMA StepAt ==
  ASSUME NEW kind \in Kinds, NEW m \in Nat, kind # "batch" => m = 1,
         NEW s \in 1..PlanLen(kind, m)
  PROVE  /\ StepKnown(kind, m, s, StageSteps(kind, m)[s])
         /\ StepWrites(kind, m, s, StageSteps(kind, m)[s])
  BY BatchStepAt, DirectStepAt, UpdateStepAt DEF StageSteps, Kinds

-----------------------------------------------------------------------------
(* The inductive invariant *)

\* Every generation creates an atom, and exactly one unless it is a batch.
WellMade(g) == Len(g.new) >= 1 /\ (g.req.kind # "batch" => Len(g.new) = 1)

\* How many halves are in the segment before step s of a plan.
AppendedBy(kind, m, s) ==
    IF s < AppendFrom(kind, m) THEN 0
    ELSE IF s <= AppendFrom(kind, m) + 2 * m THEN s - AppendFrom(kind, m)
    ELSE 2 * m

\* The staging position fits the plan and the segment.
StageTypes ==
    pc = "stage" =>
        /\ Len(gens) < MaxGenerations
        /\ step = 1 => Stages /\ ~Malformed
        /\ step # 1 =>
              /\ pend \in Pendings /\ WellMade(pend.gen)
              /\ step \in 2..PlanLen(op.req.kind, Len(pend.gen.new))
              /\ op.req.kind # "update" =>
                    Len(seg) = Len(pend.gen.pre)
                               + AppendedBy(op.req.kind, Len(pend.gen.new), step)

DiskTypes ==
    /\ gens \in Seq(Generations) /\ Len(gens) <= MaxGenerations
    /\ pend = NoFile \/ pend \in Pendings
    /\ seg \in Seq(Halves)
    /\ segs \in [1..MaxGenerations -> AtomRecs \cup {NoFile, TornFile}]
    /\ live \in LiveFiles /\ DOMAIN temp = Targets
    /\ \A i \in 1..Len(gens) : WellMade(gens[i])

OwnerTypes ==
    /\ pc \in Phases /\ cont \in {"startup", "begin", "commit", "finish"}
    /\ op = NoOp \/ op \in [tx : TxIds, req : Requests]
    /\ step \in Nat \ {0} /\ fold \in States /\ rt \in States
    /\ ol \in [TxIds -> Receipts \cup {NoReceipt}]
    /\ pc = "remove" => pend \in Pendings
    /\ fold.n = 0 => fold.atoms = << >>
    /\ rt.n = 0 => rt.atoms = << >>

HistoryTypes ==
    /\ reply = NoReceipt \/ reply \in Replies
    /\ acked \subseteq Receipts
    /\ faults \in 0..MaxFaults

TypeInv == DiskTypes /\ OwnerTypes /\ HistoryTypes /\ StageTypes

LEMMA TypeInvImplies == TypeInv => TypeOK
  BY DEF TypeInv, DiskTypes, OwnerTypes, HistoryTypes, TypeOK

LEMMA EmptyType == EmptyState \in States /\ EmptyState.n = 0 /\ EmptyState.atoms = << >>
  BY DEF EmptyState, States

LEMMA TypeInit == Init => TypeInv
<1> SUFFICES ASSUME Init PROVE TypeInv
  OBVIOUS
<1>1. DiskTypes
  <2>1. live \in LiveFiles
    BY DEF Init, BaselineLive, LiveFiles
  <2>2. QED
    BY <2>1, BoundsAssumption DEF Init, DiskTypes
<1>2. OwnerTypes
  BY EmptyType DEF Init, OwnerTypes, Phases
<1>3. HistoryTypes /\ StageTypes
  BY BoundsAssumption DEF Init, HistoryTypes, StageTypes
<1>4. QED
  BY <1>1, <1>2, <1>3 DEF TypeInv

LEMMA ApplyType ==
  ASSUME NEW s \in States, NEW g \in Generations, WellMade(g)
  PROVE  Apply(s, g) \in States /\ Apply(s, g).n # 0
<1>1. /\ s.n \in Nat /\ s.atoms \in Seq(AtomRecs) /\ s.edges \in Seq(Edges)
      /\ s.history \in Seq(Events) /\ s.atom \in Atoms \cup {NoAtom}
  BY DEF States
<1>2. g.tx \in TxIds /\ g.req \in Requests /\ g.new \in Seq(AtomRecs)
  BY DEF Generations
<1>3. g.new[1] \in AtomRecs
  BY <1>2 DEF WellMade
<1>4. g.new[1].atom \in Atoms /\ (g.req.kind = "update" => g.req.old \in Atoms)
  BY <1>2, <1>3, RequestParts DEF AtomRecs
<1>5. s.n + 1 \in Nat /\ s.n + 1 # 0 /\ Event(g.tx, s.n + 1) \in Events
  BY <1>1, <1>2 DEF Event, Events
<1>6. s.atoms \o g.new \in Seq(AtomRecs) /\ Append(s.history, Event(g.tx, s.n + 1)) \in Seq(Events)
  BY <1>1, <1>2, <1>5
<1>7. g.req.kind = "update" =>
        Append(s.edges, [old |-> g.req.old, new |-> g.new[1].atom]) \in Seq(Edges)
  BY <1>1, <1>4 DEF Edges
<1>8. QED
  BY <1>1, <1>4, <1>5, <1>6, <1>7 DEF Apply, States

LEMMA ReceiptType ==
  ASSUME TypeInv, NEW i \in 1..Len(gens)
  PROVE  Receipt(i) \in Receipts
<1>1. gens[i] \in Generations
  BY DEF TypeInv, DiskTypes
<1>2. QED
  BY <1>1 DEF Receipt, Receipts, Generations

-----------------------------------------------------------------------------
(* Steps that only move through the phases *)

LEMMA DiskKept == DiskTypes /\ UNCHANGED disk => DiskTypes'
  BY DEF DiskTypes, disk, WellMade

LEMMA HistoryKept == HistoryTypes /\ UNCHANGED history => HistoryTypes'
  BY DEF HistoryTypes, history

\* An operation returns: whatever it leaves on disk, its owner is idle.
LEMMA ReturnTypes ==
  ASSUME TypeInv, op \in [tx : TxIds, req : Requests], UNCHANGED rt,
         ol' \in [TxIds -> Receipts \cup {NoReceipt}],
         NEW code \in {"ok", "conflict", "rejected", "recovery"}, Return(code)
  PROVE  OwnerTypes' /\ StageTypes' /\ reply' \in Replies
<1>1. reply' \in Replies
  BY DEF Return, Replies
<1>2. StageTypes'
  BY DEF Return, StageTypes
<1>3. OwnerTypes'
  BY EmptyType DEF TypeInv, OwnerTypes, Return, Phases
<1>4. QED
  BY <1>1, <1>2, <1>3

LEMMA RefuseTypes ==
  ASSUME TypeInv, LedgerInv, pc \in OpenPhases, NEW cause, Refuse(cause)
  PROVE  TypeInv'
<1>1. UNCHANGED <<disk, rt, ol, acked, faults>>
  BY DEF Refuse
<1>2. DiskTypes'
  BY <1>1, DiskKept DEF TypeInv
<1>3. CASE cont = "startup"
  <2>1. /\ pc' = "down" /\ step' = 1 /\ fold' = EmptyState
        /\ UNCHANGED <<cont, op, reply, rt, ol, acked, faults>>
    BY <1>1, <1>3 DEF Refuse
  <2>2. OwnerTypes'
    BY <2>1, EmptyType DEF TypeInv, OwnerTypes, Phases
  <2>3. StageTypes' /\ HistoryTypes'
    BY <2>1 DEF TypeInv, StageTypes, HistoryTypes
  <2>4. QED
    BY <1>2, <2>2, <2>3 DEF TypeInv
<1>4. CASE cont # "startup"
  <2>1. Return("recovery") /\ op \in [tx : TxIds, req : Requests]
    BY <1>4 DEF Refuse, LedgerInv, PhaseInv, Running
  <2>2. OwnerTypes' /\ StageTypes' /\ reply' \in Replies
    <3>1. ol' \in [TxIds -> Receipts \cup {NoReceipt}]
      BY <1>1 DEF TypeInv, OwnerTypes
    <3>2. QED
      BY <1>1, <2>1, <3>1, ReturnTypes
  <2>3. HistoryTypes'
    BY <1>1, <2>2 DEF TypeInv, HistoryTypes
  <2>4. QED
    BY <1>2, <2>2, <2>3 DEF TypeInv
<1>5. QED
  BY <1>3, <1>4

LEMMA FailTypes ==
  ASSUME TypeInv, LedgerInv, pc = "decide", NEW code \in {"conflict", "rejected"}, Fail(code)
  PROVE  TypeInv'
<1>1. Return(code) /\ UNCHANGED <<disk, rt, ol, acked, faults>>
  BY DEF Fail
<1>2. op \in [tx : TxIds, req : Requests]
  BY DEF LedgerInv, PhaseInv, Running
<1>3. OwnerTypes' /\ StageTypes' /\ reply' \in Replies
  <2>1. ol' \in [TxIds -> Receipts \cup {NoReceipt}]
    BY <1>1 DEF TypeInv, OwnerTypes
  <2>2. QED
    BY <1>1, <1>2, <2>1, ReturnTypes
<1>4. DiskTypes' /\ HistoryTypes'
  BY <1>1, <1>3, DiskKept DEF TypeInv, HistoryTypes
<1>5. QED
  BY <1>3, <1>4 DEF TypeInv

LEMMA SucceedTypes ==
  ASSUME TypeInv, LedgerInv, pc \in {"decide", "reply"}, NEW r \in Receipts, Succeed(r),
         ol' \in [TxIds -> Receipts \cup {NoReceipt}]
  PROVE  TypeInv'
<1>1. Return("ok") /\ acked' = acked \cup {r} /\ UNCHANGED <<disk, rt, faults>>
  BY DEF Succeed, ReturnReceipt
<1>2. op \in [tx : TxIds, req : Requests]
  BY DEF LedgerInv, PhaseInv, Running
<1>3. OwnerTypes' /\ StageTypes' /\ reply' \in Replies
  BY <1>1, <1>2, ReturnTypes
<1>4. acked' \subseteq Receipts
  BY <1>1 DEF TypeInv, HistoryTypes
<1>5. DiskTypes' /\ HistoryTypes'
  BY <1>1, <1>3, <1>4, DiskKept DEF TypeInv, HistoryTypes
<1>6. QED
  BY <1>3, <1>5 DEF TypeInv

LEMMA DieTypes ==
  ASSUME TypeInv, Die
  PROVE  OwnerTypes' /\ HistoryTypes' /\ StageTypes'
<1>1. OwnerTypes'
  BY EmptyType DEF Die, OwnerTypes, Phases
<1>2. faults' \in 0..MaxFaults
  BY BoundsAssumption DEF TypeInv, HistoryTypes, Die, MayFault
<1>3. HistoryTypes' /\ StageTypes'
  BY <1>2 DEF TypeInv, HistoryTypes, StageTypes, Die
<1>4. QED
  BY <1>1, <1>3

-----------------------------------------------------------------------------
(* Opening and replaying *)

LEMMA BeginTypes ==
  ASSUME TypeInv, LedgerInv, NEW tx \in TxIds, NEW req \in Requests, Begin(tx, req)
  PROVE  TypeInv'
<1>1. DiskTypes'
  BY DiskKept DEF TypeInv, Begin
<1>2. OwnerTypes'
  BY DEF TypeInv, OwnerTypes, Begin, Phases
<1>3. HistoryTypes' /\ StageTypes'
  BY DEF TypeInv, HistoryTypes, StageTypes, Begin, history
<1>4. QED
  BY <1>1, <1>2, <1>3 DEF TypeInv

LEMMA OpenTypes ==
  ASSUME TypeInv, LedgerInv, Start \/ CheckNoPending \/ RemovePending \/ Opened
  PROVE  TypeInv'
<1>1. CASE Start
  <2>1. DiskTypes' /\ HistoryTypes'
    BY <1>1, DiskKept DEF TypeInv, Start, HistoryTypes
  <2>2. OwnerTypes' /\ StageTypes'
    BY <1>1, EmptyType DEF TypeInv, OwnerTypes, StageTypes, Start, Phases
  <2>3. QED
    BY <2>1, <2>2 DEF TypeInv
<1>2. CASE CheckNoPending
  <2>1. DiskTypes' /\ HistoryTypes'
    BY <1>2, DiskKept, HistoryKept DEF TypeInv, CheckNoPending
  <2>2. OwnerTypes' /\ StageTypes'
    BY <1>2, EmptyType DEF TypeInv, OwnerTypes, StageTypes, CheckNoPending, Phases
  <2>3. QED
    BY <2>1, <2>2 DEF TypeInv
<1>3. CASE RemovePending
  <2>1. DiskTypes' /\ HistoryTypes'
    BY <1>3, HistoryKept DEF TypeInv, RemovePending, DiskTypes, WellMade
  <2>2. OwnerTypes' /\ StageTypes'
    BY <1>3, EmptyType DEF TypeInv, OwnerTypes, StageTypes, RemovePending, Phases
  <2>3. QED
    BY <2>1, <2>2 DEF TypeInv
<1>4. CASE Opened
  <2>1. DiskTypes' /\ HistoryTypes'
    BY <1>4, DiskKept, HistoryKept DEF TypeInv, Opened
  <2>2. pc' \in {"idle", "decide", "reply"} /\ cont' \in {"startup", "begin", "commit", "finish"}
    BY <1>4 DEF Opened, LedgerInv, PhaseInv
  <2>3. OwnerTypes' /\ StageTypes'
    BY <1>4, <2>2, EmptyType DEF TypeInv, OwnerTypes, StageTypes, Opened, Phases
  <2>4. QED
    BY <2>1, <2>3 DEF TypeInv
<1>5. QED
  BY <1>1, <1>2, <1>3, <1>4

LEMMA CheckTypes ==
  ASSUME TypeInv, LedgerInv, RollbackCas
  PROVE  TypeInv'
<1>1. pend \in Pendings
  BY DEF TypeInv, DiskTypes, RollbackCas
<1>2. pend.gen.pre \in Seq(Halves)
  BY <1>1 DEF Pendings, Generations
<1>3. seg' \in Seq(Halves)
  BY <1>2 DEF TypeInv, DiskTypes, RollbackCas
<1>4. segs' \in [1..MaxGenerations -> AtomRecs \cup {NoFile, TornFile}]
  BY DEF TypeInv, DiskTypes, RollbackCas
<1>5. DiskTypes' /\ HistoryTypes'
  BY <1>3, <1>4, HistoryKept DEF TypeInv, DiskTypes, RollbackCas, WellMade
<1>6. OwnerTypes' /\ StageTypes'
  BY <1>1 DEF TypeInv, OwnerTypes, StageTypes, RollbackCas, Phases
<1>7. QED
  BY <1>5, <1>6 DEF TypeInv

LEMMA RemoveTypes ==
  ASSUME TypeInv, LedgerInv, pc = "remove", pend' \in Pendings,
         UNCHANGED <<gens, seg, segs, live, temp, owner, history>>
  PROVE  TypeInv'
<1>1. DiskTypes' /\ HistoryTypes'
  BY HistoryKept DEF TypeInv, DiskTypes, WellMade
<1>2. OwnerTypes' /\ StageTypes'
  BY DEF TypeInv, OwnerTypes, StageTypes, owner
<1>3. QED
  BY <1>1, <1>2 DEF TypeInv

LEMMA RemoveFileTypes ==
  ASSUME TypeInv, LedgerInv, NEW f,
         RemoveComponentFile(f) \/ RemoveControlFile(f) \/ RemoveComponents
  PROVE  TypeInv'
<1>1. pc = "remove" /\ UNCHANGED <<gens, seg, segs, live, temp, owner, history>>
  BY DEF RemoveComponentFile, RemoveControlFile, RemoveComponents
<1>2. pend \in Pendings
  BY <1>1 DEF TypeInv, OwnerTypes
<1>3. pend' \in Pendings
  BY <1>2 DEF RemoveComponentFile, RemoveControlFile, RemoveComponents, Pendings
<1>4. QED
  BY <1>1, <1>3, RemoveTypes

LEMMA FoldTypes ==
  ASSUME TypeInv, LedgerInv, fold.n + 1 \in 1..Len(gens), NEW g, g = gens[fold.n + 1]
  PROVE  /\ Apply(fold, g) \in States
         /\ Apply(fold, g).n = 0 => Apply(fold, g).atoms = << >>
<1>1. g \in Generations /\ WellMade(g) /\ fold \in States
  BY DEF TypeInv, DiskTypes, OwnerTypes
<1>2. QED
  BY <1>1, ApplyType

LEMMA ReplayTypes ==
  ASSUME TypeInv, LedgerInv, ReplayEmpty \/ ReplayGeneration \/ ReplayHead
  PROVE  TypeInv'
<1>1. pc \in OpenPhases
  BY DEF ReplayEmpty, ReplayGeneration, ReplayHead, OpenPhases
<1>2. CASE \E cause : Refuse(cause)
  BY <1>1, <1>2, RefuseTypes
<1>3. CASE ~\E cause : Refuse(cause)
  <2>1. UNCHANGED <<disk, cont, op, rt, ol, history>>
    BY <1>3, Zenon DEF ReplayEmpty, ReplayGeneration, ReplayHead
  <2>2. /\ pc' \in {"opened", "replay", "install"} /\ step' \in {1, step}
        /\ (fold' = fold \/ (fold' = Apply(fold, Next1) /\ fold.n + 1 < Len(gens)))
    <3>1. CASE ReplayEmpty
      <4>1. pc' = "opened" /\ UNCHANGED <<step, fold>>
        BY <1>3, <3>1, Zenon DEF ReplayEmpty
      <4>2. QED
        BY <4>1
    <3>2. CASE ReplayGeneration
      <4>1. fold' = Apply(fold, Next1) /\ fold.n + 1 < Len(gens) /\ pc = "replay"
        BY <1>3, <3>2, Zenon DEF ReplayGeneration
      <4>2. UNCHANGED <<pc, step>>
        BY <1>3, <3>2, Zenon DEF ReplayGeneration
      <4>3. QED
        BY <4>1, <4>2
    <3>3. CASE ReplayHead
      <4>1. pc' = "install" /\ step' = 1 /\ UNCHANGED fold
        BY <1>3, <3>3, Zenon DEF ReplayHead
      <4>2. QED
        BY <4>1
    <3>4. QED
      BY <3>1, <3>2, <3>3
  <2>3. DiskTypes' /\ HistoryTypes'
    BY <2>1, DiskKept, HistoryKept DEF TypeInv
  <2>4. fold' \in States /\ (fold'.n = 0 => fold'.atoms = << >>)
    <3>1. CASE fold' = fold
      BY <3>1 DEF TypeInv, OwnerTypes
    <3>2. CASE fold' # fold
      <4>1. fold.n + 1 \in 1..Len(gens)
        BY <2>2, <3>2 DEF LedgerInv
      <4>2. QED
        BY <2>2, <3>2, <4>1, FoldTypes DEF Next1
    <3>3. QED
      BY <3>1, <3>2
  <2>5. OwnerTypes' /\ StageTypes'
    BY <2>1, <2>2, <2>4 DEF TypeInv, OwnerTypes, StageTypes, Phases
  <2>6. QED
    BY <2>3, <2>5 DEF TypeInv
<1>4. QED
  BY <1>2, <1>3

-----------------------------------------------------------------------------
(* Installing *)

LEMMA HeadTypes ==
  ASSUME TypeInv, LedgerInv, pc = "install"
  PROVE  /\ Len(gens) \in 1..MaxGenerations
         /\ HeadGen \in Generations /\ WellMade(HeadGen)
         /\ HeadGen.req \in Requests /\ HeadGen.comp \in Components
         /\ HeadGen.new[1] \in AtomRecs
<1>1. gens \in Seq(Generations) /\ gens # << >> /\ Len(gens) <= MaxGenerations
  BY DEF TypeInv, DiskTypes, LedgerInv, PhaseInv
<1>2. Len(gens) \in 1..MaxGenerations /\ Len(gens) \in 1..Len(gens)
  BY <1>1, BoundsAssumption
<1>3. HeadGen \in Generations /\ WellMade(HeadGen)
  BY <1>1, <1>2 DEF TypeInv, DiskTypes, HeadGen
<1>4. HeadGen.req \in Requests /\ HeadGen.comp \in Components /\ HeadGen.new \in Seq(AtomRecs)
  BY <1>3 DEF Generations
<1>5. QED
  BY <1>2, <1>3, <1>4 DEF WellMade

\* Every installation writes a live file or the CAS.
LEMMA TargetType ==
  ASSUME TypeInv, LedgerInv, Installing, Target # "cas"
  PROVE  Target \in Targets
<1>1. HeadGen.req.kind \in Kinds
  BY HeadTypes, RequestParts DEF Installing
<1>2. step \in Nat \ {0}
  BY DEF TypeInv, OwnerTypes
<1>3. QED
  BY <1>1, <1>2 DEF Installing, Target, InstallList, Targets, Kinds

\* What is installed is a version of its target.
LEMMA InstallBytesType ==
  ASSUME TypeInv, LedgerInv, pc = "install", NEW t \in Targets
  PROVE  [live EXCEPT ![t] = InstallBytes(t)] \in LiveFiles
<1> DEFINE c == HeadGen.comp
<1>1. /\ c.index \in Seq(AtomRecs) /\ c.history \in Seq(Events) /\ c.sources \in Seq(Links)
      /\ c.current \in Seq(Edges) /\ c.graph \in Seq(Edges)
  BY HeadTypes DEF Components
<1>2. live \in LiveFiles
  BY DEF TypeInv, DiskTypes
<1>3. live.history \in Seq(Events) /\ live.sources \in Seq(Links) \cup {NoFile}
  BY <1>2 DEF LiveFiles
<1>4. CASE t = "index"
  <2>1. InstallBytes(t) = c.index
    BY <1>4 DEF InstallBytes, Appended
  <2>2. QED
    BY <1>1, <1>2, <1>4, <2>1 DEF LiveFiles
<1>5. CASE t = "current"
  <2>1. InstallBytes(t) = c.current
    BY <1>5 DEF InstallBytes, Appended
  <2>2. QED
    BY <1>1, <1>2, <1>5, <2>1 DEF LiveFiles
<1>6. CASE t = "graph"
  <2>1. InstallBytes(t) = c.graph
    BY <1>6 DEF InstallBytes, Appended
  <2>2. QED
    BY <1>1, <1>2, <1>6, <2>1 DEF LiveFiles
<1>7. CASE t = "history"
  <2>1. LiveRecords(t) \in Seq(Events)
    BY <1>3, <1>7 DEF LiveRecords
  <2>2. LiveRecords(t) \o c.history \in Seq(Events)
    BY <1>1, <2>1
  <2>3. InstallBytes(t) \in Seq(Events)
    BY <1>1, <1>7, <2>2 DEF InstallBytes
  <2>4. QED
    BY <1>2, <1>7, <2>3 DEF LiveFiles
<1>8. CASE t = "sources"
  <2>1. LiveRecords(t) \in Seq(Links)
    BY <1>3, <1>8 DEF LiveRecords
  <2>2. LiveRecords(t) \o c.sources \in Seq(Links)
    BY <1>1, <2>1
  <2>3. InstallBytes(t) \in Seq(Links)
    BY <1>1, <1>8, <2>2 DEF InstallBytes
  <2>4. QED
    BY <1>2, <1>8, <2>3 DEF LiveFiles
<1>9. QED
  BY <1>4, <1>5, <1>6, <1>7, <1>8 DEF Targets

\* A step of the installation that keeps what is committed, pending and served.
LEMMA InstallKeeps ==
  ASSUME TypeInv, LedgerInv, pc = "install", step' \in {step, step + 1},
         segs' \in [1..MaxGenerations -> AtomRecs \cup {NoFile, TornFile}],
         live' \in LiveFiles, DOMAIN temp' = Targets,
         UNCHANGED <<gens, pend, seg, pc, cont, op, fold, rt, ol, history>>
  PROVE  TypeInv'
<1>1. DiskTypes' /\ HistoryTypes'
  BY HistoryKept DEF TypeInv, DiskTypes, WellMade
<1>2. step' \in Nat \ {0}
  BY DEF TypeInv, OwnerTypes
<1>3. OwnerTypes' /\ StageTypes'
  BY <1>2 DEF TypeInv, OwnerTypes, StageTypes
<1>4. QED
  BY <1>1, <1>3 DEF TypeInv

LEMMA InstallTypes ==
  ASSUME TypeInv, LedgerInv,
         InstallCas \/ InstallSkip \/ InstallTemp \/ InstallRename \/ InstallRefuses
  PROVE  TypeInv'
<1>0. pc = "install" /\ Installing
  BY DEF InstallCas, InstallSkip, InstallTemp, InstallRename, InstallRefuses, Installing
<1>1. /\ segs \in [1..MaxGenerations -> AtomRecs \cup {NoFile, TornFile}]
      /\ live \in LiveFiles /\ DOMAIN temp = Targets
  BY DEF TypeInv, DiskTypes
<1>2. CASE \E cause : Refuse(cause)
  BY <1>0, <1>2, RefuseTypes DEF OpenPhases
<1>3. CASE InstallCas /\ CasAdmits
  <2>1. segs' \in [1..MaxGenerations -> AtomRecs \cup {NoFile, TornFile}]
    BY <1>0, <1>1, <1>3, HeadTypes DEF InstallCas
  <2>2. /\ step' = step + 1
        /\ UNCHANGED <<gens, pend, seg, live, temp, pc, cont, op, fold, rt, ol, history>>
    BY <1>3 DEF InstallCas
  <2>3. QED
    BY <1>0, <1>1, <2>1, <2>2, InstallKeeps
<1>4. CASE InstallSkip
  <2>1. step' = step + 1 /\ UNCHANGED <<disk, pc, cont, op, fold, rt, ol, history>>
    BY <1>4 DEF InstallSkip
  <2>2. QED
    BY <1>0, <1>1, <2>1, InstallKeeps DEF disk
<1>5. CASE InstallTemp
  <2>1. DOMAIN temp' = Targets
    BY <1>1, <1>5 DEF InstallTemp
  <2>2. UNCHANGED <<gens, pend, seg, segs, live, owner, history>>
    BY <1>5 DEF InstallTemp
  <2>3. QED
    BY <1>0, <1>1, <2>1, <2>2, InstallKeeps DEF owner
<1>6. CASE InstallRename
  <2>1. Target \in Targets
    BY <1>6, TargetType DEF InstallRename
  <2>2. live' = [live EXCEPT ![Target] = InstallBytes(Target)] /\ DOMAIN temp' = Targets
    BY <1>1, <1>6 DEF InstallRename
  <2>3. live' \in LiveFiles
    BY <1>0, <2>1, <2>2, InstallBytesType
  <2>4. step' = step + 1 /\ UNCHANGED <<gens, pend, seg, segs, pc, cont, op, fold, rt, ol, history>>
    BY <1>6 DEF InstallRename
  <2>5. QED
    BY <1>0, <1>1, <2>2, <2>3, <2>4, InstallKeeps
<1>7. QED
  BY <1>2, <1>3, <1>4, <1>5, <1>6 DEF InstallCas, InstallRefuses

LEMMA InstallDoneTypes ==
  ASSUME TypeInv, LedgerInv, InstallDone
  PROVE  TypeInv'
<1>0. pc = "install"
  BY DEF InstallDone
<1>1. CASE \E cause : Refuse(cause)
  BY <1>0, <1>1, RefuseTypes DEF OpenPhases
<1>2. CASE cont = "commit"
  <2>1. /\ pc' = "check" /\ cont' = "finish" /\ step' = 1
        /\ UNCHANGED <<disk, op, fold, rt, ol, history>>
    BY <1>2 DEF InstallDone
  <2>2. DiskTypes' /\ HistoryTypes'
    BY <2>1, DiskKept, HistoryKept DEF TypeInv
  <2>3. OwnerTypes' /\ StageTypes'
    BY <2>1 DEF TypeInv, OwnerTypes, StageTypes, Phases
  <2>4. QED
    BY <2>2, <2>3 DEF TypeInv
<1>3. CASE cont # "commit" /\ ~\E cause : Refuse(cause)
  <2>1. /\ pc' = "opened" /\ step' = 1 /\ fold' = Apply(fold, HeadGen)
        /\ UNCHANGED <<disk, cont, op, rt, ol, history>>
    BY <1>3, Zenon DEF InstallDone
  <2>2. fold.n + 1 = Len(gens) /\ Len(gens) \in 1..Len(gens)
    BY <1>0, <1>3, HeadTypes DEF LedgerInv, PhaseInv
  <2>3. fold' \in States /\ (fold'.n = 0 => fold'.atoms = << >>)
    BY <2>1, <2>2, FoldTypes DEF HeadGen
  <2>4. DiskTypes' /\ HistoryTypes'
    BY <2>1, DiskKept, HistoryKept DEF TypeInv
  <2>5. OwnerTypes' /\ StageTypes'
    BY <2>1, <2>3 DEF TypeInv, OwnerTypes, StageTypes, Phases
  <2>6. QED
    BY <2>4, <2>5 DEF TypeInv
<1>4. QED
  BY <1>1, <1>2, <1>3

-----------------------------------------------------------------------------
(* Deciding *)

LEMMA OpType ==
  ASSUME LedgerInv, pc \in {"decide", "stage", "reply"}
  PROVE  op.tx \in TxIds /\ op.req \in Requests
  BY DEF LedgerInv, PhaseInv, Running

LEMMA HitType ==
  ASSUME TypeInv, LedgerInv, pc \in {"decide", "reply"}, NEW i \in Hits
  PROVE  Receipt(i) \in Receipts
<1>1. i \in 1..Len(gens)
  BY DEF Hits, LedgerInv, PhaseInv
<1>2. QED
  BY <1>1, ReceiptType

LEMMA DecideTypes ==
  ASSUME TypeInv, LedgerInv, Decide, ~DecideStage
  PROVE  TypeInv'
<1>0. pc = "decide"
  BY DEF Decide, DecideOtherKind, DecideMalformed, DecideRemembered, DecideRetry,
         DecideUnchanged, DecideReject, Fresh, Looking, Deciding
<1>1. ol \in [TxIds -> Receipts \cup {NoReceipt}] /\ op.tx \in TxIds /\ op.req \in Requests
  BY <1>0, OpType DEF TypeInv, OwnerTypes
<1>2. CASE Fail("conflict") \/ Fail("rejected")
  BY <1>0, <1>2, FailTypes
<1>3. CASE DecideRemembered /\ ~Fail("conflict")
  <2>1. Succeed(ol[op.tx]) /\ UNCHANGED ol /\ ol[op.tx] # NoReceipt
    BY <1>3 DEF DecideRemembered, Remembered
  <2>2. ol[op.tx] \in Receipts
    BY <1>1, <2>1
  <2>3. QED
    BY <1>0, <1>1, <2>1, <2>2, SucceedTypes
<1>4. CASE DecideRetry /\ ~Fail("conflict")
  <2>1. PICK i \in Hits : Succeed(Receipt(i)) /\ UNCHANGED ol
    BY <1>4 DEF DecideRetry
  <2>2. Receipt(i) \in Receipts
    BY <1>0, HitType
  <2>3. QED
    BY <1>0, <1>1, <2>1, <2>2, SucceedTypes
<1>5. CASE DecideUnchanged
  <2> DEFINE outs == BatchOutcomes(rt.atoms, op.req.items)
             r == HeadReceipt(outs)
  <2>1. Succeed(r) /\ ol' = [ol EXCEPT ![op.tx] = r]
    BY <1>5 DEF DecideUnchanged
  <2>2. rt.atoms \in Seq(AtomRecs) /\ rt.n \in Nat
    BY DEF TypeInv, OwnerTypes, States
  <2>3. outs \in Seq(Outcomes)
    BY <1>1, <2>2, RequestParts, OutcomesType
  <2> HIDE DEF outs
  <2>4. r \in Receipts
    BY <1>1, <2>2, <2>3 DEF HeadReceipt, Receipts
  <2> HIDE DEF r
  <2>5. ol' \in [TxIds -> Receipts \cup {NoReceipt}]
    BY <1>1, <2>1, <2>4
  <2>6. QED
    BY <1>0, <2>1, <2>4, <2>5, SucceedTypes
<1>6. QED
  BY <1>2, <1>3, <1>4, <1>5
     DEF Decide, DecideOtherKind, DecideMalformed, DecideReject

LEMMA DecideStageTypes ==
  ASSUME TypeInv, LedgerInv, DecideStage
  PROVE  TypeInv'
<1>0. /\ pc = "decide" /\ Stages /\ ~Malformed /\ pc' = "stage" /\ step' = 1
      /\ UNCHANGED <<disk, cont, op, fold, rt, ol, history>>
  BY DEF DecideStage, Fresh, Looking, Deciding
<1>1. op.req \in Requests /\ op.req.kind \in Kinds
  BY <1>0, OpType, RequestParts
<1>2. rt.n < MaxGenerations /\ rt.n = Len(gens)
  <2>1. rt.n = Len(gens)
    BY <1>0 DEF LedgerInv, PhaseInv
  <2>2. rt.n < MaxGenerations
    <3>1. CASE op.req.kind = "direct"
      BY <1>0, <3>1, BoundsAssumption DEF Stages
    <3>2. CASE op.req.kind = "batch"
      BY <1>0, <3>2 DEF Stages, BatchAdmitted
    <3>3. CASE op.req.kind = "update"
      BY <1>0, <3>3 DEF Stages
    <3>4. QED
      BY <1>1, <3>1, <3>2, <3>3 DEF Kinds
  <2>3. QED
    BY <2>1, <2>2
<1>3. Stages' /\ ~Malformed'
  BY <1>0 DEF Stages, Malformed, BatchAdmitted, BatchUnchanged, AnchorsAbsent, disk
<1>4. StageTypes'
  BY <1>0, <1>2, <1>3 DEF StageTypes, disk
<1>5. DiskTypes' /\ HistoryTypes'
  BY <1>0, DiskKept, HistoryKept DEF TypeInv
<1>6. OwnerTypes'
  BY <1>0 DEF TypeInv, OwnerTypes, Phases
<1>7. QED
  BY <1>4, <1>5, <1>6 DEF TypeInv

LEMMA FinishTypes ==
  ASSUME TypeInv, LedgerInv, Finish
  PROVE  TypeInv'
<1>1. pc = "reply"
  BY DEF Finish
<1>2. PICK i \in Hits :
        /\ Succeed(Receipt(i))
        /\ ol' = IF op.req.kind = "update" THEN [ol EXCEPT ![op.tx] = Receipt(i)] ELSE ol
  BY DEF Finish
<1>3. Receipt(i) \in Receipts
  BY <1>1, HitType
<1>4. ol' \in [TxIds -> Receipts \cup {NoReceipt}]
  BY <1>2, <1>3 DEF TypeInv, OwnerTypes
<1>5. QED
  BY <1>1, <1>2, <1>3, <1>4, SucceedTypes

-----------------------------------------------------------------------------
(* Staging *)

\* An admitted operation has a plan, which creates at least one atom.
LEMMA PlanTypes ==
  ASSUME TypeInv, LedgerInv, pc = "stage", step = 1
  PROVE  Plan(op.tx, op.req) \in Generations /\ WellMade(Plan(op.tx, op.req))
         /\ Plan(op.tx, op.req).pre = seg
<1>1. /\ Stages /\ ~Malformed /\ rt \in States /\ seg \in Seq(Halves) /\ live \in LiveFiles
      /\ rt.n = 0 => rt.atoms = << >>
  BY DEF TypeInv, StageTypes, DiskTypes, OwnerTypes
<1>2. /\ op.tx \in TxIds /\ op.req \in Requests /\ op.req.kind \in Kinds
      /\ op.req.items \in Seq(Bodies) /\ op.req.items # << >>
      /\ op.req.kind # "batch" => Len(op.req.items) = 1
  BY OpType, RequestParts
<1>3. rt.atoms \in Seq(AtomRecs)
  BY <1>1 DEF States
<1>4. op.req.kind # "batch" => AtomOf[op.req.items[1]] \in Atoms
  <2>1. op.req.items[1] \in Bodies
    BY <1>2
  <2>2. QED
    BY <1>1, <2>1, AtomOfAssumption DEF Malformed, ValidItem
<1>5. Plannable(op.req)
  BY <1>1, <1>2, <1>4 DEF Plannable, Stages, Kinds
<1>6. CASE op.req.kind = "update"
  <2>1. Plan(op.tx, op.req) = UpdatePlan(op.tx, op.req)
    BY <1>6 DEF Plan
  <2>2. UpdatePlan(op.tx, op.req) \in Generations
    BY <1>2, <1>5, <1>6, UpdatePlanType
  <2>3. /\ Len(UpdatePlan(op.tx, op.req).new) = 1
        /\ UpdatePlan(op.tx, op.req).pre = seg
    BY DEF UpdatePlan
  <2>4. QED
    BY <2>1, <2>2, <2>3 DEF WellMade
<1>7. CASE op.req.kind # "update"
  <2> DEFINE C == CreatedIn(rt.atoms, op.req.items)
  <2>1. Plan(op.tx, op.req) = IngestPlan(op.tx, op.req)
    BY <1>7 DEF Plan
  <2>2. IngestPlan(op.tx, op.req) \in Generations
    BY <1>2, <1>5, IngestPlanType
  <2>3. /\ IngestPlan(op.tx, op.req).new = NewAtoms(rt.atoms, op.req.items)
        /\ IngestPlan(op.tx, op.req).pre = seg /\ IngestPlan(op.tx, op.req).req = op.req
    BY DEF IngestPlan
  <2>4. Len(NewAtoms(rt.atoms, op.req.items)) = Cardinality(C)
    BY <1>2, <1>3, NewAtomsType
  <2>5. CASE op.req.kind = "batch"
    <3>1. C # {}
      BY <1>1, <2>5 DEF Stages, BatchUnchanged
    <3>2. Cardinality(C) >= 1
      BY <1>2, <3>1, CreatedType
    <3>3. QED
      BY <2>1, <2>2, <2>3, <2>4, <2>5, <3>2 DEF WellMade
  <2>6. CASE op.req.kind = "direct"
    <3>1. rt.atoms = << >>
      BY <1>1, <2>6 DEF Stages
    <3>2. AtomOf[op.req.items[1]] \in Atoms /\ Len(op.req.items) = 1
      BY <1>2, <1>4, <2>6
    <3>3. ItemResult(rt.atoms, op.req.items, 1) = "created"
      <4>1. ValidItem(op.req.items[1])
        BY <3>2, AtomOfAssumption DEF ValidItem
      <4>2. ~Duplicate(op.req.items, 1)
        BY DEF Duplicate
      <4>3. AtomOf[op.req.items[1]] \notin AtomIds(rt.atoms)
        BY <3>1 DEF AtomIds
      <4>4. QED
        BY <4>1, <4>2, <4>3 DEF ItemResult
    <3>4. C = {1}
      BY <3>2, <3>3 DEF CreatedIn
    <3>5. Cardinality(C) = 1
      BY <3>4, FS_Singleton
    <3>6. QED
      BY <2>1, <2>2, <2>3, <2>4, <3>5 DEF WellMade
  <2>7. QED
    BY <1>2, <1>7, <2>5, <2>6 DEF Kinds
<1>8. QED
  BY <1>6, <1>7

LEMMA PlanBounds ==
  ASSUME NEW kind \in Kinds, NEW m \in Nat, m >= 1
  PROVE  /\ PlanLen(kind, m) \in Nat /\ PlanLen(kind, m) > 2
         /\ AppendFrom(kind, m) \in Nat /\ AppendFrom(kind, m) > 2
  BY DEF PlanLen, AppendFrom, Kinds

\* The segment grows by a half with each append, and only then.
LEMMA AppendedNext ==
  ASSUME NEW kind, NEW m \in Nat, NEW s \in Nat, AppendFrom(kind, m) \in Nat
  PROVE  /\ AppendedBy(kind, m, s) \in Nat
         /\ s < AppendFrom(kind, m) => AppendedBy(kind, m, s) = 0
         /\ AppendFrom(kind, m) <= s /\ s < AppendFrom(kind, m) + 2 * m =>
              /\ AppendedBy(kind, m, s) = s - AppendFrom(kind, m)
              /\ AppendedBy(kind, m, s + 1) = AppendedBy(kind, m, s) + 1
         /\ ~(AppendFrom(kind, m) <= s /\ s < AppendFrom(kind, m) + 2 * m) =>
              AppendedBy(kind, m, s + 1) = AppendedBy(kind, m, s)
<1>1. PICK a \in Nat : a = AppendFrom(kind, m)
  OBVIOUS
<1> DEFINE F(t) == IF t < a THEN 0 ELSE IF t <= a + 2 * m THEN t - a ELSE 2 * m
<1>2. \A t \in Nat : AppendedBy(kind, m, t) = F(t)
  BY <1>1 DEF AppendedBy
<1>3. /\ F(s) \in Nat /\ (s < a => F(s) = 0)
      /\ a <= s /\ s < a + 2 * m => F(s) = s - a /\ F(s + 1) = F(s) + 1
      /\ ~(a <= s /\ s < a + 2 * m) => F(s + 1) = F(s)
  OBVIOUS
<1>4. s + 1 \in Nat
  OBVIOUS
<1> HIDE DEF F
<1>5. AppendedBy(kind, m, s) = F(s) /\ AppendedBy(kind, m, s + 1) = F(s + 1)
  BY <1>2, <1>4
<1>6. QED
  BY <1>1, <1>3, <1>5

\* The step the owner takes next is the step the plan has at this position.
LEMMA StageNowKnown ==
  ASSUME TypeInv, LedgerInv, pc = "stage", step # 1
  PROVE  /\ Len(pend.gen.new) \in Nat \ {0} /\ step \in 2..PlanLen(op.req.kind, Len(pend.gen.new))
         /\ op.req.kind \in Kinds /\ (op.req.kind # "batch" => Len(pend.gen.new) = 1)
         /\ StepKnown(op.req.kind, Len(pend.gen.new), step, StageNow)
         /\ StepWrites(op.req.kind, Len(pend.gen.new), step, StageNow)
<1> DEFINE m == Len(pend.gen.new)
           kind == op.req.kind
<1>1. /\ pend \in Pendings /\ WellMade(pend.gen) /\ step \in 2..PlanLen(kind, m)
      /\ pend.gen.req = op.req
  BY DEF TypeInv, StageTypes, LedgerInv, StageInv
<1>2. kind \in Kinds
  BY OpType, RequestParts
<1>3. pend.gen.new \in Seq(AtomRecs)
  BY <1>1 DEF Pendings, Generations
<1>4. m \in Nat \ {0} /\ (kind # "batch" => m = 1)
  BY <1>1, <1>3 DEF WellMade
<1>5. /\ PlanLen(kind, m) \in Nat /\ PlanLen(kind, m) > 2
      /\ AppendFrom(kind, m) \in Nat /\ AppendFrom(kind, m) > 2
  <2> HIDE DEF m, kind
  <2>1. m \in Nat /\ m >= 1
    BY <1>4
  <2>2. QED
    BY <1>2, <2>1, PlanBounds
<1>6. StepKnown(kind, m, step, StageNow) /\ StepWrites(kind, m, step, StageNow)
  <2>1. CASE step = 2
    <3>1. StageNow = StageSteps(kind, 1)[2]
      BY <2>1 DEF StageNow
    <3>2. 2 \in 1..PlanLen(kind, 1) /\ 1 \in Nat
      BY <1>2 DEF PlanLen, Kinds
    <3>3. StepKnown(kind, 1, 2, StageSteps(kind, 1)[2])
      BY <1>2, <3>2, StepAt
    <3>4. StageNow.do = "components"
      BY <3>1, <3>3 DEF StepKnown
    <3> HIDE DEF m, kind
    <3>5. ~(AppendFrom(kind, m) <= 2) /\ 2 # PlanLen(kind, m)
      BY <1>5
    <3>6. StepKnown(kind, m, step, StageNow)
      BY <2>1, <3>4, <3>5 DEF StepKnown
    <3>7. \A k \in 0..(m - 1) : RecordAt(kind, k) # 2 /\ OrphanAt(kind, k) # 2
      <4>1. m \in Nat
        BY <1>4
      <4>2. QED
        BY <1>2, <4>1 DEF RecordAt, OrphanAt, Kinds
    <3>8. StepWrites(kind, m, step, StageNow)
      BY <2>1, <3>4, <3>7 DEF StepWrites
    <3>9. QED
      BY <3>6, <3>8
  <2>2. CASE step # 2
    <3>1. step \in 1..PlanLen(kind, m) /\ ~(step <= 2)
      BY <1>1, <1>5, <2>2
    <3>2. StageNow = StageSteps(kind, m)[step]
      BY <3>1 DEF StageNow
    <3>3. m \in Nat
      BY <1>4
    <3> HIDE DEF m, kind
    <3>4. /\ StepKnown(kind, m, step, StageSteps(kind, m)[step])
          /\ StepWrites(kind, m, step, StageSteps(kind, m)[step])
      BY <1>2, <1>4, <3>1, <3>3, StepAt
    <3>5. QED
      BY <3>2, <3>4
  <2>3. QED
    BY <2>1, <2>2
<1>7. QED
  BY <1>1, <1>2, <1>4, <1>6

LEMMA StageMkdirTypes ==
  ASSUME TypeInv, LedgerInv, LedgerInv', StageMkdir
  PROVE  TypeInv'
<1> DEFINE g == Plan(op.tx, op.req)
<1>1. pc = "stage" /\ StageNow.do = "mkdir"
  BY DEF StageMkdir, Staging
<1>2. step = 1
  <2>1. SUFFICES ASSUME step # 1 PROVE FALSE
    OBVIOUS
  <2>2. StepKnown(op.req.kind, Len(pend.gen.new), step, StageNow)
    BY <1>1, <2>1, StageNowKnown
  <2>3. QED
    BY <1>1, <2>1, <2>2 DEF StepKnown
<1>3. g \in Generations /\ WellMade(g) /\ g.pre = seg
  BY <1>1, <1>2, PlanTypes
<1>4. /\ pend' = [gen |-> g, components |-> FALSE, files |-> {}, torn |-> {}]
      /\ step' = 2
      /\ UNCHANGED <<gens, seg, segs, live, temp, pc, cont, op, fold, rt, ol, history>>
  BY <1>2 DEF StageMkdir, StageRest
<1> HIDE DEF g
<1>5. pend' \in Pendings /\ pend'.gen = g
  BY <1>3, <1>4 DEF Pendings
<1>6. DiskTypes' /\ HistoryTypes'
  BY <1>4, <1>5, HistoryKept DEF TypeInv, DiskTypes, WellMade
<1>7. OwnerTypes'
  BY <1>4, <1>5 DEF TypeInv, OwnerTypes
<1>8. StageTypes'
  <2>1. Len(g.new) \in Nat \ {0} /\ Len(g.pre) \in Nat
    BY <1>3 DEF Generations, WellMade
  <2>2. op.req.kind \in Kinds
    BY <1>1, OpType, RequestParts
  <2>3. 2 \in 2..PlanLen(op.req.kind, Len(g.new)) /\ AppendedBy(op.req.kind, Len(g.new), 2) = 0
    <3>1. PICK k \in Kinds : k = op.req.kind
      BY <2>2
    <3>2. PICK m \in Nat : m >= 1 /\ m = Len(g.new)
      BY <2>1
    <3>3. 2 \in 2..PlanLen(k, m) /\ AppendedBy(k, m, 2) = 0
      <4>1. /\ PlanLen(k, m) \in Nat /\ PlanLen(k, m) > 2
            /\ AppendFrom(k, m) \in Nat /\ AppendFrom(k, m) > 2
        BY <3>2, PlanBounds
      <4>2. 2 < AppendFrom(k, m) /\ 2 \in 2..PlanLen(k, m) /\ 2 \in Nat
        BY <4>1
      <4>3. QED
        BY <4>1, <4>2, AppendedNext
    <3>4. QED
      BY <3>1, <3>2, <3>3
  <2>4. Len(seg) = Len(g.pre) + AppendedBy(op.req.kind, Len(g.new), 2)
    BY <1>3, <2>1, <2>3
  <2>5. Len(gens) < MaxGenerations
    BY <1>1 DEF TypeInv, StageTypes
  <2>6. QED
    BY <1>3, <1>4, <1>5, <2>3, <2>4, <2>5 DEF StageTypes
<1>9. QED
  BY <1>6, <1>7, <1>8 DEF TypeInv

\* The other staging steps advance along the plan, the appends with the segment.
LEMMA StageOn ==
  ASSUME TypeInv, LedgerInv, pc = "stage", step # 1, StageNow.do # "publish",
         step' = step + 1, pend' \in Pendings, pend'.gen = pend.gen,
         seg' \in Seq(Halves),
         Len(seg') = Len(seg) + (IF StageNow.do = "append" THEN 1 ELSE 0),
         segs' \in [1..MaxGenerations -> AtomRecs \cup {NoFile, TornFile}],
         UNCHANGED <<gens, live, temp, pc, cont, op, fold, rt, ol, history>>
  PROVE  TypeInv'
<1> DEFINE m == Len(pend.gen.new)
           kind == op.req.kind
<1>1. /\ m \in Nat \ {0} /\ step \in 2..PlanLen(kind, m) /\ kind \in Kinds
      /\ kind # "batch" => m = 1
      /\ StepKnown(kind, m, step, StageNow)
  BY StageNowKnown
<1>2. DiskTypes' /\ HistoryTypes'
  BY HistoryKept DEF TypeInv, DiskTypes, WellMade
<1>3. OwnerTypes'
  BY <1>1 DEF TypeInv, OwnerTypes
<1>4. /\ Len(gens) < MaxGenerations /\ WellMade(pend.gen)
      /\ kind # "update" => Len(seg) = Len(pend.gen.pre) + AppendedBy(kind, m, step)
  BY DEF TypeInv, StageTypes
<1>5. Len(pend.gen.pre) \in Nat /\ Len(seg) \in Nat /\ pend \in Pendings
  <2>1. pend \in Pendings
    BY DEF TypeInv, StageTypes
  <2>2. pend.gen.pre \in Seq(Halves)
    BY <2>1 DEF Pendings, Generations
  <2>3. QED
    BY <2>1, <2>2 DEF TypeInv, DiskTypes
<1> HIDE DEF m, kind
<1>6. step # PlanLen(kind, m) /\ PlanLen(kind, m) \in Nat
  BY <1>1 DEF StepKnown, PlanLen, Kinds
<1>7. step + 1 \in 2..PlanLen(kind, m) /\ step + 1 # 1
  BY <1>1, <1>6
<1>8. kind # "update" =>
        AppendedBy(kind, m, step + 1) = AppendedBy(kind, m, step)
                                        + (IF StageNow.do = "append" THEN 1 ELSE 0)
  <2>1. AppendFrom(kind, m) \in Nat /\ step \in Nat /\ m \in Nat
    BY <1>1, <1>6 DEF AppendFrom
  <2>2. kind # "update" =>
          (StageNow.do = "append" <=> /\ AppendFrom(kind, m) <= step
                                      /\ step < AppendFrom(kind, m) + 2 * m)
    BY <1>1 DEF StepKnown
  <2>3. /\ AppendFrom(kind, m) <= step /\ step < AppendFrom(kind, m) + 2 * m =>
             AppendedBy(kind, m, step + 1) = AppendedBy(kind, m, step) + 1
        /\ ~(AppendFrom(kind, m) <= step /\ step < AppendFrom(kind, m) + 2 * m) =>
             AppendedBy(kind, m, step + 1) = AppendedBy(kind, m, step)
        /\ AppendedBy(kind, m, step) \in Nat
    BY <2>1, AppendedNext
  <2>4. CASE StageNow.do = "append"
    BY <2>2, <2>3, <2>4
  <2>5. CASE StageNow.do # "append"
    BY <2>2, <2>3, <2>5
  <2>6. QED
    BY <2>4, <2>5
<1>9. kind # "update" => AppendedBy(kind, m, step) \in Nat
  BY <1>1, <1>6 DEF AppendedBy, AppendFrom
<1>10. kind # "update" => Len(seg') = Len(pend.gen.pre) + AppendedBy(kind, m, step + 1)
  <2> DEFINE one == IF StageNow.do = "append" THEN 1 ELSE 0
  <2>1. one \in Nat
    OBVIOUS
  <2>2. Len(seg') = Len(seg) + one
    OBVIOUS
  <2>3. kind # "update" => AppendedBy(kind, m, step + 1) = AppendedBy(kind, m, step) + one
    BY <1>8
  <2> HIDE DEF one
  <2>4. ASSUME kind # "update"
        PROVE  Len(seg') = Len(pend.gen.pre) + AppendedBy(kind, m, step + 1)
    <3>1. PICK a \in Nat : a = AppendedBy(kind, m, step)
      BY <1>9, <2>4
    <3>2. /\ Len(seg) = Len(pend.gen.pre) + a /\ AppendedBy(kind, m, step + 1) = a + one
      BY <1>4, <2>3, <2>4, <3>1
    <3>3. PICK q \in Nat : q = Len(pend.gen.pre)
      BY <1>5
    <3>4. Len(seg') = (q + a) + one /\ AppendedBy(kind, m, step + 1) = a + one
      BY <2>2, <3>2, <3>3
    <3>5. (q + a) + one = q + (a + one)
      BY <2>1
    <3>6. QED
      BY <3>3, <3>4, <3>5
  <2>5. QED
    BY <2>4
<1>11. StageTypes'
  BY <1>4, <1>7, <1>10 DEF StageTypes, m, kind
<1>12. QED
  BY <1>2, <1>3, <1>11 DEF TypeInv

LEMMA StageTypesStep ==
  ASSUME TypeInv, LedgerInv, StageComponents \/ StageWrite \/ StageAppend \/ StageCreate
  PROVE  TypeInv'
<1>1. pc = "stage" /\ step # 1 /\ StageNow.do # "publish"
  BY NotFirst DEF StageComponents, StageWrite, StageAppend, StageCreate, Staging
<1>2. /\ pend \in Pendings /\ seg \in Seq(Halves)
      /\ segs \in [1..MaxGenerations -> AtomRecs \cup {NoFile, TornFile}]
      /\ Len(seg) \in Nat /\ Len(seg) = Len(seg) + 0
  <2>1. pend \in Pendings
    BY <1>1 DEF TypeInv, StageTypes
  <2>2. QED
    BY <2>1 DEF TypeInv, DiskTypes
<1>3. /\ step' = step + 1
      /\ UNCHANGED <<gens, live, temp, pc, cont, op, fold, rt, ol, history>>
  BY DEF StageComponents, StageWrite, StageAppend, StageCreate, StageRest
<1>4. StepKnown(op.req.kind, Len(pend.gen.new), step, StageNow)
  BY <1>1, StageNowKnown
<1>5. CASE StageComponents
  <2>1. pend' \in Pendings /\ pend'.gen = pend.gen /\ UNCHANGED <<seg, segs>>
    BY <1>2, <1>5 DEF StageComponents, Pendings
  <2>2. StageNow.do # "append"
    BY <1>5 DEF StageComponents, Staging
  <2>3. QED
    BY <1>1, <1>2, <1>3, <2>1, <2>2, StageOn
<1>6. CASE StageWrite
  <2>1. StageNow.do = "write" /\ StageNow.file \in FileNames
    BY <1>4, <1>6 DEF StageWrite, Staging, StepKnown
  <2>2. pend' \in Pendings /\ pend'.gen = pend.gen /\ UNCHANGED <<seg, segs>>
    BY <1>2, <1>6, <2>1 DEF StageWrite, Pendings
  <2>3. QED
    BY <1>1, <1>2, <1>3, <2>1, <2>2, StageOn
<1>7. CASE StageAppend
  <2> DEFINE m == Len(pend.gen.new)
             kind == op.req.kind
             k == Len(seg) - Len(pend.gen.pre) + 1
             c == Chunks(pend.gen.new)
  <2>1. StageNow.do = "append" /\ UNCHANGED <<pend, segs>> /\ seg' = Append(seg, c[k])
    BY <1>7 DEF StageAppend, Staging
  <2>2. /\ kind # "update" /\ AppendFrom(kind, m) <= step
        /\ step < AppendFrom(kind, m) + 2 * m
    BY <1>4, <2>1 DEF StepKnown
  <2>3. /\ m \in Nat /\ m >= 1 /\ kind \in Kinds /\ step \in Nat
    BY <1>1, StageNowKnown DEF TypeInv, OwnerTypes
  <2>4. Len(seg) = Len(pend.gen.pre) + AppendedBy(kind, m, step)
    BY <1>1, <2>2 DEF TypeInv, StageTypes
  <2>5. pend.gen.pre \in Seq(Halves) /\ pend.gen.new \in Seq(AtomRecs)
    BY <1>2 DEF Pendings, Generations
  <2>6. c \in Seq(Halves) /\ Len(c) = 2 * m
    BY <2>5, ChunksType
  <2> HIDE DEF m, kind, c
  <2>7. AppendFrom(kind, m) \in Nat
    BY <2>3, PlanBounds
  <2>8. AppendedBy(kind, m, step) = step - AppendFrom(kind, m)
    BY <2>2, <2>3, <2>7, AppendedNext
  <2>9. k \in 1..2 * m
    <3>1. PICK a \in Nat : a = AppendFrom(kind, m)
      BY <2>7
    <3>2. PICK q \in Nat : q = Len(pend.gen.pre)
      BY <2>5
    <3>3. Len(seg) = q + (step - a) /\ a <= step /\ step < a + 2 * m
      BY <2>2, <2>4, <2>8, <3>1, <3>2
    <3>4. k = Len(seg) - q + 1
      BY <3>2
    <3> HIDE DEF k
    <3>5. QED
      BY <1>2, <2>3, <3>3, <3>4
  <2> HIDE DEF k
  <2>10. c[k] \in Halves
    BY <2>6, <2>9
  <2>11. seg' \in Seq(Halves) /\ Len(seg') = Len(seg) + 1
    BY <1>2, <2>1, <2>10
  <2>12. QED
    BY <1>1, <1>2, <1>3, <2>1, <2>11, StageOn
<1>8. CASE StageCreate
  <2>1. pend.gen.new[1] \in AtomRecs
    <3>1. Len(pend.gen.new) \in Nat \ {0}
      BY <1>1, StageNowKnown
    <3>2. pend.gen.new \in Seq(AtomRecs)
      BY <1>2 DEF Pendings, Generations
    <3>3. QED
      BY <3>1, <3>2
  <2>2. segs' \in [1..MaxGenerations -> AtomRecs \cup {NoFile, TornFile}]
    BY <1>2, <1>8, <2>1 DEF StageCreate
  <2>3. StageNow.do # "append" /\ UNCHANGED <<pend, seg>>
    BY <1>8 DEF StageCreate, Staging
  <2>4. QED
    BY <1>1, <1>2, <1>3, <2>2, <2>3, StageOn
<1>9. QED
  BY <1>5, <1>6, <1>7, <1>8

LEMMA StagePublishTypes ==
  ASSUME TypeInv, LedgerInv, StagePublish
  PROVE  TypeInv'
<1>1. pc = "stage" /\ step # 1
  BY NotFirst DEF StagePublish, Staging
<1>2. /\ gens' = Append(gens, pend.gen) /\ pend' = NoFile
      /\ pc' = "install" /\ cont' = "commit" /\ step' = 1
      /\ UNCHANGED <<seg, segs, live, temp, op, fold, rt, ol, history>>
  BY DEF StagePublish
<1>3. pend \in Pendings /\ WellMade(pend.gen) /\ Len(gens) < MaxGenerations
  BY <1>1 DEF TypeInv, StageTypes
<1>4. pend.gen \in Generations
  BY <1>3 DEF Pendings
<1>5. gens \in Seq(Generations) /\ \A i \in 1..Len(gens) : WellMade(gens[i])
  BY DEF TypeInv, DiskTypes
<1>6. /\ gens' \in Seq(Generations) /\ Len(gens') = Len(gens) + 1
      /\ gens'[Len(gens) + 1] = pend.gen
      /\ \A i \in 1..Len(gens) : gens'[i] = gens[i]
  BY <1>2, <1>4, <1>5
<1>7. Len(gens') <= MaxGenerations /\ \A i \in 1..Len(gens') : WellMade(gens'[i])
  <2>1. Len(gens) \in Nat
    BY <1>5
  <2>2. Len(gens') <= MaxGenerations
    BY <1>3, <1>6, <2>1, BoundsAssumption
  <2>3. ASSUME NEW i \in 1..Len(gens') PROVE WellMade(gens'[i])
    <3>1. CASE i = Len(gens) + 1
      BY <1>3, <1>6, <3>1
    <3>2. CASE i # Len(gens) + 1
      <4>1. i \in 1..Len(gens)
        BY <1>6, <2>1, <3>2
      <4>2. QED
        BY <1>5, <1>6, <4>1
    <3>3. QED
      BY <3>1, <3>2
  <2>4. QED
    BY <2>2, <2>3
<1>8. DiskTypes'
  <2>1. /\ seg \in Seq(Halves) /\ live \in LiveFiles /\ DOMAIN temp = Targets
        /\ segs \in [1..MaxGenerations -> AtomRecs \cup {NoFile, TornFile}]
    BY DEF TypeInv, DiskTypes
  <2>2. \A i \in 1..Len(gens') : WellMade(gens[i])'
    BY <1>7 DEF WellMade
  <2>3. QED
    BY <1>2, <1>6, <1>7, <2>1, <2>2 DEF DiskTypes
<1>9. OwnerTypes' /\ StageTypes' /\ HistoryTypes'
  BY <1>2, HistoryKept DEF TypeInv, OwnerTypes, StageTypes, Phases
<1>10. QED
  BY <1>8, <1>9 DEF TypeInv

-----------------------------------------------------------------------------
(* Faults *)

LEMMA FaultTypes ==
  ASSUME TypeInv, LedgerInv, Fault
  PROVE  TypeInv'
<1>1. CASE Crash
  BY <1>1, DiskKept, DieTypes DEF Crash, TypeInv
<1>2. CASE CrashInStageWrite
  <2>1. pc = "stage" /\ step # 1 /\ StageNow.do = "write"
    BY <1>2, NotFirst DEF CrashInStageWrite, Staging
  <2>2. StepKnown(op.req.kind, Len(pend.gen.new), step, StageNow) /\ pend \in Pendings
    BY <2>1, StageNowKnown DEF TypeInv, StageTypes
  <2>3. StageNow.file \in FileNames
    BY <2>1, <2>2 DEF StepKnown
  <2>4. pend' \in Pendings
    BY <1>2, <2>2, <2>3 DEF CrashInStageWrite, Pendings
  <2>5. DiskTypes'
    BY <1>2, <2>4 DEF CrashInStageWrite, TypeInv, DiskTypes, WellMade
  <2>6. QED
    BY <1>2, <2>5, DieTypes DEF CrashInStageWrite, TypeInv
<1>3. CASE CrashInStageCreate
  <2>1. segs' \in [1..MaxGenerations -> AtomRecs \cup {NoFile, TornFile}]
    BY <1>3 DEF CrashInStageCreate, TypeInv, DiskTypes
  <2>2. DiskTypes'
    BY <1>3, <2>1 DEF CrashInStageCreate, TypeInv, DiskTypes, WellMade
  <2>3. QED
    BY <1>3, <2>2, DieTypes DEF CrashInStageCreate, TypeInv
<1>4. CASE CrashInInstallTemp
  <2>1. DOMAIN temp' = Targets
    BY <1>4 DEF CrashInInstallTemp, TypeInv, DiskTypes
  <2>2. DiskTypes'
    BY <1>4, <2>1 DEF CrashInInstallTemp, TypeInv, DiskTypes, WellMade
  <2>3. QED
    BY <1>4, <2>2, DieTypes DEF CrashInInstallTemp, TypeInv
<1>5. CASE IoError
  <2>1. pc \in {"remove", "install", "stage"} /\ UNCHANGED <<disk, rt, ol, acked>>
    BY <1>5 DEF IoError
  <2>2. DiskTypes' /\ faults' \in 0..MaxFaults
    <3>1. faults < MaxFaults /\ faults' = faults + 1 /\ faults \in 0..MaxFaults
      BY <1>5 DEF IoError, MayFault, TypeInv, HistoryTypes
    <3>2. QED
      BY <2>1, <3>1, DiskKept, BoundsAssumption DEF TypeInv
  <2>3. CASE cont = "startup"
    <3>1. /\ pc' = "down" /\ step' = 1 /\ fold' = EmptyState
          /\ UNCHANGED <<cont, op, reply>>
      BY <1>5, <2>3 DEF IoError
    <3>2. OwnerTypes' /\ StageTypes' /\ HistoryTypes'
      BY <2>1, <2>2, <3>1, EmptyType DEF TypeInv, OwnerTypes, StageTypes, HistoryTypes, Phases
    <3>3. QED
      BY <2>2, <3>2 DEF TypeInv
  <2>4. CASE cont # "startup"
    <3>1. Return("recovery") /\ op \in [tx : TxIds, req : Requests]
      BY <1>5, <2>1, <2>4 DEF IoError, LedgerInv, PhaseInv, Running, OpenPhases
    <3>2. ol' \in [TxIds -> Receipts \cup {NoReceipt}]
      BY <2>1 DEF TypeInv, OwnerTypes
    <3>3. OwnerTypes' /\ StageTypes' /\ reply' \in Replies
      BY <2>1, <3>1, <3>2, ReturnTypes
    <3>4. HistoryTypes'
      BY <2>1, <2>2, <3>3 DEF TypeInv, HistoryTypes
    <3>5. QED
      BY <2>2, <3>3, <3>4 DEF TypeInv
  <2>5. QED
    BY <2>3, <2>4
<1>6. QED
  BY <1>1, <1>2, <1>3, <1>4, <1>5 DEF Fault

-----------------------------------------------------------------------------
(* Type correctness *)

LEMMA TypeStep == LedgerInv /\ LedgerInv' /\ TypeInv /\ [Next]_vars => TypeInv'
<1> SUFFICES ASSUME LedgerInv, LedgerInv', TypeInv, [Next]_vars PROVE TypeInv'
  OBVIOUS
<1>1. CASE UNCHANGED vars
  <2>1. UNCHANGED <<disk, owner, history>>
    BY <1>1 DEF vars, disk, owner, history
  <2>2. DiskTypes' /\ HistoryTypes'
    BY <2>1, DiskKept, HistoryKept DEF TypeInv
  <2>3. OwnerTypes'
    BY <1>1 DEF vars, TypeInv, OwnerTypes
  <2>4. StageTypes'
    <3>1. Stages' = Stages /\ Malformed' = Malformed
      BY <1>1 DEF vars, Stages, Malformed, BatchAdmitted, BatchUnchanged, AnchorsAbsent
    <3>2. QED
      BY <1>1, <3>1 DEF vars, TypeInv, StageTypes
  <2>5. QED
    BY <2>2, <2>3, <2>4 DEF TypeInv
<1>2. CASE \E tx \in TxIds, req \in Requests : Begin(tx, req)
  BY <1>2, BeginTypes
<1>3. CASE Open
  <2>1. CASE Start \/ CheckNoPending \/ RemovePending \/ Opened
    BY <2>1, OpenTypes
  <2>2. CASE RollbackCas
    BY <2>2, CheckTypes
  <2>3. CASE CheckRefuses
    <3>1. pc \in OpenPhases /\ \E cause : Refuse(cause)
      BY <2>3 DEF CheckRefuses, OpenPhases
    <3>2. QED
      BY <3>1, RefuseTypes
  <2>4. CASE (\E f \in (IF pc = "remove" THEN pend.files ELSE {}) :
                RemoveComponentFile(f) \/ RemoveControlFile(f)) \/ RemoveComponents
    BY <2>4, RemoveFileTypes
  <2>5. CASE ReplayEmpty \/ ReplayGeneration \/ ReplayHead
    BY <2>5, ReplayTypes
  <2>6. QED
    BY <1>3, <2>1, <2>2, <2>3, <2>4, <2>5 DEF Open
<1>4. CASE Install
  BY <1>4, InstallTypes, InstallDoneTypes DEF Install
<1>5. CASE Decide
  BY <1>5, DecideTypes, DecideStageTypes
<1>6. CASE Stage
  BY <1>6, StageMkdirTypes, StageTypesStep, StagePublishTypes DEF Stage
<1>7. CASE Finish
  BY <1>7, FinishTypes
<1>8. CASE Fault
  BY <1>8, FaultTypes
<1>9. QED
  BY <1>1, <1>2, <1>3, <1>4, <1>5, <1>6, <1>7, <1>8 DEF Next, Progress

\* Whatever is requested, retried, crashed and recovered, every file the engine
\* reads back and every value its owner holds has the shape the code gives it:
\* no plan, replay, installation or append reaches outside its inputs.
THEOREM EngineTypes == Spec => []TypeOK
<1>1. Spec => []LedgerInv
  BY LedgerInit, LedgerStep, PTL DEF Spec
<1>2. QED
  BY <1>1, TypeInit, TypeStep, TypeInvImplies, PTL DEF Spec
=============================================================================
