------------------------- MODULE OperationTxnV1Proofs -------------------------
(***************************************************************************)
(* Proofs about OperationTxnV1, for every set of transaction ids, intents  *)
(* and process ids and any number of generations, crashes and faults: a    *)
(* reported transaction is in one generation and once in the history, the  *)
(* live fixture and the record agree when a call returns, and what a crash *)
(* leaves can be recovered.                                                *)
(***************************************************************************)
EXTENDS OperationTxnV1, SequenceTheorems, FiniteSetTheorems, TLAPS

Names == {"components", "fixture", "state", "history", "prepare.tmp", "prepare", "commit.tmp",
          "commit", "stray"}

\* Where a transaction is, before it writes its commit record and in all.
Staging == {"cleanup", "create", "prepare", "stage"}
Transacting == Staging \cup {"finish", "undo"}

Pcs == Activating \cup Transacting \cup {"idle", "lease", "release"}

Fixture == [counter : Nat, history : Seq(Tx \cup {Torn})]
LiveFiles == [counter : Nat \cup {Torn}, history : Seq(Tx \cup {Torn})]
Generation ==
    [gen : Nat, tx : Tx, intent : Intent, files : SUBSET Names, fixture : Fixture,
     rotten : BOOLEAN]
Incomplete ==
    [at : {"pending", "publication", "cleanup"}, gen : Nat, tx : Tx, intent : Intent,
     files : SUBSET Names, fixture : Fixture]

\* The process before its first transaction, and with one.
Fresh == [pc : Pcs, born : Nat, pid : Pid \cup {1}]
Owner ==
    [pc : Pcs, born : Nat, pid : Pid \cup {1}, tx : Tx, intent : Intent, pre : Fixture,
     retry : BOOLEAN]

VType ==
    /\ live \in LiveFiles /\ copied \in Fixture
    /\ inc \in Incomplete \cup {None} /\ pub \in Seq(Generation)
    /\ p \in Fresh \cup Owner /\ (p.pc \in Transacting => p \in Owner)
    /\ faults \in Nat /\ moved \in BOOLEAN

\* The history a generation has to hold.
Committed(g) == [i \in 1 .. g |-> pub[i].tx]

Histories ==
    /\ copied.history = <<>>
    /\ \A g \in 1 .. Len(pub) : pub[g].fixture.history = Committed(g)
    /\ \A g, h \in 1 .. Len(pub) : pub[g].tx = pub[h].tx => g = h
    /\ \A tx \in acked : \E g \in 1 .. Len(pub) : pub[g].tx = tx

\* A base without a format: no transaction has touched the fixture, and what
\* was copied from it is still what it holds.
Unformatted ==
    /\ ctl # {} => "dir" \in ctl
    /\ p.pc \in Activating \ {"activate"} => "dir" \in ctl /\ "format.v1" \notin ctl
    /\ "format.v1" \notin ctl =>
          /\ live \in Fixture /\ live.history = <<>> /\ p.pc \notin Transacting
          /\ "baseline" \in ctl \/ At("copy") => live = copied

\* A transaction that has not published started from the last generation, is
\* not in one, and moved nothing unless it says so.
Started ==
    /\ p.pc \in Staging \/ (At("finish") /\ inc # None) =>
          /\ p.pre = Projection(Len(pub))
          /\ \A g \in 1 .. Len(pub) : pub[g].tx # p.tx
    /\ p.pc \in Staging /\ ~moved => live = p.pre
    /\ p.pc \in Staging \ {"create"} => inc # None /\ inc.tx = p.tx
    /\ p.pc \in Staging => ~p.retry

\* From the commit record on the live fixture is the one to publish, then the
\* one published.
Finishing ==
    /\ At("finish") /\ inc # None =>
          inc.tx = p.tx /\ live = inc.fixture /\ Transition(p.pre, inc.fixture, p.tx)
    /\ At("finish") /\ inc = None =>
          pub # <<>> /\ pub[Len(pub)].tx = p.tx /\ live = pub[Len(pub)].fixture
    /\ At("finish") \/ At("undo") => moved
    /\ At("finish") /\ p.retry => faults >= 1
    /\ At("undo") => faults >= 2

Settled ==
    p.pc \notin Transacting /\ "format.v1" \in ctl /\ ~moved /\ faults <= 1 =>
        live = Projection(Len(pub))

VInv == VType /\ Histories /\ Unformatted /\ Started /\ Finishing /\ Settled

LEMMA VInitInv == VInit => VInv
<1> SUFFICES ASSUME VInit PROVE VInv
  OBVIOUS
<1>1. Legacy(0) \in Fixture /\ Legacy(0).history = <<>>
  BY DEF Legacy, Fixture
<1>2. p \in Fresh /\ p.pc = "idle"
  BY DEF VInit, Idle, Fresh, Pcs
<1>a. Len(pub) = 0 /\ pub \in Seq(Generation)
  BY EmptySeq DEF VInit
<1>3. VType
  <2>1. live \in Fixture /\ copied \in Fixture /\ inc = None /\ faults = 0 /\ moved = FALSE
    BY <1>1 DEF VInit
  <2>2. p.pc \notin Transacting
    BY <1>2 DEF Transacting, Staging
  <2>3. live \in LiveFiles
    BY <2>1 DEF Fixture, LiveFiles
  <2>4. QED
    BY <1>2, <1>a, <2>1, <2>2, <2>3 DEF VType
<1>4. Histories /\ Settled
  <2>1. copied.history = <<>> /\ acked = {} /\ ctl = {}
    BY <1>1 DEF VInit
  <2>2. QED
    BY <1>a, <2>1 DEF Histories, Settled
<1>5. Unformatted /\ Started /\ Finishing
  BY <1>1, <1>2 DEF VInit, Unformatted, Started, Finishing, Activating, Transacting, Staging, At
<1>6. QED
  BY <1>3, <1>4, <1>5 DEF VInv

LEMMA GotoFacts ==
  ASSUME p \in Fresh \cup Owner, NEW pc \in Pcs, Goto(pc)
  PROVE  /\ p' \in Fresh \cup Owner /\ p'.pc = pc
         /\ p \in Owner =>
               p' \in Owner /\ p'.tx = p.tx /\ p'.intent = p.intent /\ p'.pre = p.pre /\ p'.retry = p.retry
  BY DEF Goto, Fresh, Owner

-----------------------------------------------------------------------------
(* The activation, and what happens around it: no transaction runs *)

\* Steps outside a transaction that leave the fixture, the generations and the
\* reports alone.
Outside ==
    /\ p.pc \notin Transacting /\ p'.pc \notin Transacting /\ p' \in Fresh \cup Owner
    /\ faults' \in Nat /\ faults' >= faults
    /\ inc' \in Incomplete \cup {None}
    /\ UNCHANGED <<live, pub, acked, moved>>

LEMMA OutsideStep ==
  ASSUME VInv, Outside, Unformatted', copied' \in Fixture, copied'.history = <<>>,
         "format.v1" \in ctl' =>
            \/ "format.v1" \in ctl /\ copied' = copied
            \/ live = Projection(Len(pub))'
  PROVE  VInv'
<1> USE DEF Outside
<1>1. VType'
  BY DEF VInv, VType
<1>2. Histories'
  BY DEF VInv, Histories, Committed
<1>3. Started' /\ Finishing'
  BY DEF Started, Finishing, At, Transacting, Staging
<1>4. Settled'
  BY DEF VInv, VType, Settled, Projection
<1>5. QED
  BY <1>1, <1>2, <1>3, <1>4 DEF VInv

\* Those of them that leave the directory's entries and the copy alone too.
LEMMA QuietStep ==
  ASSUME VInv, Outside, UNCHANGED <<ctl, copied>>,
         p'.pc \in Activating \ {"activate"} => "dir" \in ctl /\ "format.v1" \notin ctl,
         p'.pc = "copy" => p.pc = "copy"
  PROVE  VInv'
<1>1. Unformatted'
  BY DEF VInv, Unformatted, Outside, At
<1>2. QED
  BY <1>1, OutsideStep DEF VInv, VType, Histories

\* An activation step that leaves the copy alone and publishes no format.
LEMMA LayoutStep ==
  ASSUME VInv, Outside, UNCHANGED copied, "dir" \in ctl', "format.v1" \notin ctl', "format.v1" \notin ctl,
         "baseline" \in ctl' \/ p'.pc = "copy" => live = copied
  PROVE  VInv'
<1>1. Unformatted'
  BY DEF VInv, Unformatted, Outside, At
<1>2. QED
  BY <1>1, OutsideStep DEF VInv, VType, Histories

LEMMA OutsideGoto ==
  ASSUME VInv, p.pc \notin Transacting, NEW pc \in Pcs, pc \notin Transacting, Goto(pc),
         UNCHANGED <<live, inc, pub, acked, moved, faults>>
  PROVE  Outside /\ p'.pc = pc
<1>1. p \in Fresh \cup Owner /\ inc \in Incomplete \cup {None} /\ faults \in Nat
  BY DEF VInv, VType
<1>2. QED
  BY <1>1, GotoFacts DEF Outside

LEMMA OutsideSame ==
  ASSUME VInv, p.pc \notin Transacting, UNCHANGED <<p, live, inc, pub, acked, moved, faults>>
  PROVE  Outside
<1>1. p \in Fresh \cup Owner /\ inc \in Incomplete \cup {None} /\ faults \in Nat
  BY DEF VInv, VType
<1>2. QED
  BY <1>1 DEF Outside

\* The entries an interrupted activation left.
LEMMA ActivatingLayout ==
  ASSUME VInv, p.pc \in Activating \ {"activate"}
  PROVE  "dir" \in ctl /\ "format.v1" \notin ctl /\ ("baseline" \in ctl => live = copied)
  BY DEF VInv, Unformatted

LEMMA ActivateStep == ASSUME VInv, Activate PROVE VInv'
<1> USE DEF Unseen, disk
<1>0. \A pc \in Activating \cup {"idle", "lease", "release"} : pc \in Pcs /\ pc \notin Transacting
  BY DEF Activating, Transacting, Staging, Pcs
<1>1. CASE AcquireLease
  <2>1. Outside /\ p'.pc = "lease" /\ UNCHANGED <<ctl, copied>>
    BY <1>0, <1>1, OutsideGoto DEF AcquireLease, At
  <2>2. QED
    BY <2>1, QuietStep DEF Activating
<1>2. CASE SyncLease
  <2>1. Outside /\ p'.pc = "activate" /\ UNCHANGED <<ctl, copied>>
    BY <1>0, <1>2, OutsideGoto DEF SyncLease, At, Activating
  <2>2. QED
    BY <2>1, QuietStep DEF Activating
<1>3. CASE ReclaimLock
  <2>1. Outside /\ p'.pc = "idle" /\ UNCHANGED <<ctl, copied>>
    BY <1>0, <1>3, OutsideSame DEF ReclaimLock, At
  <2>2. QED
    BY <2>1, QuietStep DEF Activating
<1>4. CASE ReleaseLease
  <2>1. Outside /\ p'.pc = "idle" /\ UNCHANGED <<ctl, copied>>
    BY <1>0, <1>4, OutsideGoto DEF ReleaseLease, At
  <2>2. QED
    BY <2>1, QuietStep DEF Activating
<1>5. CASE AlreadyMigrated
  <2>1. Outside /\ p'.pc = "release" /\ UNCHANGED <<ctl, copied>>
    BY <1>0, <1>5, OutsideGoto DEF AlreadyMigrated, At, Activating
  <2>2. QED
    BY <2>1, QuietStep DEF Activating
<1>6. CASE ResumeCleanup
  <2>1. Outside /\ p'.pc = "activate" /\ UNCHANGED copied
    BY <1>0, <1>6, OutsideSame DEF ResumeCleanup, At, Activating
  <2>2. "format.v1" \notin ctl /\ "cleanup" \in ctl /\ ctl' \in {ctl, ctl \ {"cleanup"}}
    BY <1>6 DEF ResumeCleanup
  <2>3. "dir" \in ctl /\ ("baseline" \in ctl => live = copied)
    BY <2>2 DEF VInv, Unformatted
  <2>4. QED
    BY <2>1, <2>2, <2>3, LayoutStep
<1>7. CASE ResumeBaseline
  <2>1. Outside /\ p'.pc = "migration" /\ UNCHANGED <<ctl, copied>>
    BY <1>0, <1>7, OutsideGoto DEF ResumeBaseline, At, Activating
  <2>2. "format.v1" \notin ctl /\ "baseline" \in ctl
    BY <1>7 DEF ResumeBaseline
  <2>3. "dir" \in ctl
    BY <2>2 DEF VInv, Unformatted
  <2>4. QED
    BY <2>1, <2>2, <2>3, QuietStep
<1>8. CASE ScanSource
  <2>1. Outside /\ p'.pc = "preflight" /\ UNCHANGED copied
    BY <1>0, <1>8, OutsideGoto DEF ScanSource, Control, At, Activating
  <2>2. "format.v1" \notin ctl /\ "baseline" \notin ctl /\ ctl' = ctl \cup {"dir"}
    BY <1>8 DEF ScanSource, Control
  <2>3. QED
    BY <2>1, <2>2, LayoutStep
<1>9. CASE MigrationPreflight
  <2>1. Outside /\ p'.pc \in {"staging", "preflight sync"} /\ UNCHANGED copied
    BY <1>0, <1>9, OutsideGoto DEF MigrationPreflight, At, Activating
  <2>2. ctl' \in {ctl, ctl \cup {"migration.tmp"}} /\ p.pc \in Activating \ {"activate"}
    BY <1>9 DEF MigrationPreflight, At, Activating
  <2>3. QED
    BY <2>1, <2>2, ActivatingLayout, LayoutStep
<1>10. CASE SyncRecord("preflight sync", "staging") \/ SyncRecord("format sync", "format publish")
  <2>1. Outside /\ p'.pc \in {"staging", "format publish"} /\ UNCHANGED <<ctl, copied>>
    BY <1>0, <1>10, OutsideGoto DEF SyncRecord, At, Activating
  <2>2. p.pc \in Activating \ {"activate"}
    BY <1>10 DEF SyncRecord, At, Activating
  <2>3. QED
    BY <2>1, <2>2, ActivatingLayout, QuietStep
<1>11. CASE StageBaseline
  <2>0. p.pc = "staging" /\ p.pc \in Activating \ {"activate"} /\ p.pc \notin Transacting
    BY <1>0, <1>11 DEF StageBaseline, At, Activating
  <2>1. CASE UNCHANGED <<copied, p>>
    <3>1. Outside /\ p'.pc = "staging"
      BY <1>11, <2>0, <2>1, OutsideSame DEF StageBaseline
    <3>2. ctl' \in {ctl, ctl \ {"cleanup"}, Rename(ctl, "baseline.tmp", "cleanup"), ctl \cup {"baseline.tmp"}}
      BY <1>11 DEF StageBaseline
    <3>3. QED
      BY <2>0, <2>1, <3>1, <3>2, ActivatingLayout, LayoutStep DEF Rename
  <2>2. CASE ~UNCHANGED <<copied, p>>
    <3>1. ctl' = ctl \cup {"baseline.tmp"} /\ copied' = live /\ Goto("copy")
          /\ UNCHANGED <<live, inc, pub, acked, moved, faults>>
      BY <1>11, <2>2 DEF StageBaseline
    <3>2. Outside /\ p'.pc = "copy"
      BY <1>0, <2>0, <3>1, OutsideGoto DEF Activating
    <3>3. "dir" \in ctl /\ "format.v1" \notin ctl' /\ live.history = <<>> /\ live \in Fixture
      BY <2>0, <3>1 DEF VInv, Unformatted, VType
    <3>4. Unformatted'
      BY <3>1, <3>2, <3>3 DEF Unformatted, Outside
    <3>5. QED
      BY <3>1, <3>2, <3>3, <3>4, OutsideStep
  <2>3. QED
    BY <2>1, <2>2
<1>12. CASE CopyNext
  <2>1. /\ Outside /\ p.pc = "copy" /\ UNCHANGED <<ctl, copied>>
        /\ p.pc \in Activating \ {"activate"}
    BY <1>0, <1>12, OutsideSame DEF CopyNext, At, Activating
  <2>2. QED
    BY <2>1, ActivatingLayout, QuietStep
<1>13. CASE PublishBaseline
  <2>1. /\ Outside /\ p'.pc = "migration" /\ UNCHANGED copied /\ p.pc = "copy"
        /\ p.pc \in Activating \ {"activate"}
    BY <1>0, <1>13, OutsideGoto DEF PublishBaseline, Control, At, Activating
  <2>2. ctl' = Rename(ctl, "baseline.tmp", "baseline")
    BY <1>13 DEF PublishBaseline, Control
  <2>3. live = copied
    BY <2>1, ActivatingLayout DEF VInv, Unformatted, At
  <2>4. QED
    BY <2>1, <2>2, <2>3, ActivatingLayout, LayoutStep DEF Rename
<1>14. CASE PublishMigration \/ EnsureGenerations
  <2>1. /\ Outside /\ p'.pc \in {"generations", "format"} /\ UNCHANGED copied
        /\ p.pc \in Activating \ {"activate"}
    BY <1>0, <1>14, OutsideGoto DEF PublishMigration, EnsureGenerations, Control, At, Activating
  <2>2. ctl' \in {ctl, Rename(ctl, "migration.tmp", "migration"), ctl \cup {"generations"}}
    BY <1>14 DEF PublishMigration, EnsureGenerations, Control
  <2>3. QED
    BY <2>1, <2>2, ActivatingLayout, LayoutStep DEF Rename
<1>15. CASE WriteFormat
  <2>1. /\ Outside /\ p'.pc \in {"format sync", "format publish"} /\ UNCHANGED copied
        /\ p.pc \in Activating \ {"activate"}
    BY <1>0, <1>15, OutsideGoto DEF WriteFormat, Control, At, Activating
  <2>2. ctl' \in {ctl, ctl \cup {"format.tmp"}}
    BY <1>15 DEF WriteFormat, Control
  <2>3. QED
    BY <2>1, <2>2, ActivatingLayout, LayoutStep
<1>16. CASE PublishFormat
  <2>1. /\ Outside /\ p'.pc = "release" /\ UNCHANGED copied /\ p.pc \in Activating \ {"activate"}
    BY <1>0, <1>16, OutsideGoto DEF PublishFormat, Control, At, Activating
  <2>2. /\ ctl' = Rename(ctl, "format.tmp", "format.v1") /\ live = copied /\ pub = <<>>
    BY <1>16 DEF PublishFormat, Control, validate_ready_for_format_publication, validate_baseline
  <2>3. Unformatted'
    BY <2>1, <2>2, ActivatingLayout DEF Unformatted, Rename, Activating
  <2>4. live = Projection(Len(pub))'
    BY <2>1, <2>2 DEF Projection, Outside
  <2>5. QED
    BY <2>1, <2>3, <2>4, OutsideStep DEF VInv, VType, Histories
<1>17. QED
  BY <1>1, <1>2, <1>3, <1>4, <1>5, <1>6, <1>7, <1>8, <1>9, <1>10, <1>11, <1>12, <1>13, <1>14, <1>15,
     <1>16 DEF Activate

LEMMA ActivationFailsStep == ASSUME VInv, ActivationFails PROVE VInv'
<1>1. /\ p.pc \in Activating /\ Goto("release") /\ faults' = faults + 1
      /\ UNCHANGED <<ctl, copied, live, inc, pub, acked, moved>>
  BY DEF ActivationFails
<1>2. /\ p.pc \notin Transacting /\ "release" \in Pcs /\ "release" \notin Transacting
      /\ "release" \notin Activating /\ "release" # "copy"
  BY <1>1 DEF Activating, Transacting, Staging, Pcs
<1>3. p \in Fresh \cup Owner /\ inc \in Incomplete \cup {None} /\ faults \in Nat
  BY DEF VInv, VType
<1>4. p' \in Fresh \cup Owner /\ p'.pc = "release"
  BY <1>1, <1>2, <1>3, GotoFacts
<1>5. Outside
  BY <1>1, <1>2, <1>3, <1>4 DEF Outside
<1>6. QED
  BY <1>1, <1>2, <1>4, <1>5, QuietStep

LEMMA LegacyWriteStep == ASSUME VInv, LegacyWrite PROVE VInv'
<1>1. /\ p.pc = "idle" /\ "dir" \notin ctl /\ live' = Legacy(live.counter + 1)
      /\ UNCHANGED <<ctl, copied, inc, pub, p, faults, acked, moved>>
  BY DEF LegacyWrite, At, require_legacy_writer_compatible, Unseen
<1>2. ctl = {} /\ "idle" \notin Activating /\ "idle" \notin Transacting
  BY <1>1 DEF VInv, Unformatted, Activating, Transacting, Staging
<1>3. live' \in Fixture /\ live' \in LiveFiles /\ live'.history = <<>>
  <2>1. live.counter \in Nat
    BY <1>2 DEF VInv, Unformatted, Fixture
  <2>2. <<>> \in Seq(Tx \cup {Torn})
    BY EmptySeq
  <2>3. QED
    BY <1>1, <2>1, <2>2 DEF Fixture, LiveFiles, Legacy
<1>4. VType' /\ Histories'
  BY <1>1, <1>2, <1>3 DEF VInv, VType, Histories, Committed
<1>5. Unformatted' /\ Started' /\ Finishing' /\ Settled'
  BY <1>1, <1>2, <1>3 DEF Unformatted, Started, Finishing, Settled, At, Transacting, Staging
<1>6. QED
  BY <1>4, <1>5 DEF VInv

\* A step to "idle" that leaves what is durable alone, and reports only what is
\* published: nothing has moved, or it says so, or there was more than one fault.
LEMMA ToIdle ==
  ASSUME VInv, p' \in Fresh \cup Owner, p'.pc = "idle", faults' \in Nat, faults' >= faults,
         UNCHANGED <<ctl, copied, live, inc, pub>>, moved' \in BOOLEAN,
         \A tx \in acked' : \E g \in 1 .. Len(pub) : pub[g].tx = tx,
         "format.v1" \in ctl /\ ~moved' /\ faults' <= 1 => live = Projection(Len(pub))
  PROVE  VInv'
<1>1. "idle" \notin Activating /\ "idle" \notin Transacting
  BY DEF Activating, Transacting, Staging
<1>2. VType' /\ Histories'
  BY <1>1 DEF VInv, VType, Histories, Committed
<1>3. Unformatted' /\ Started' /\ Finishing'
  BY <1>1 DEF VInv, Unformatted, Started, Finishing, At, Transacting, Staging
<1>4. Settled'
  BY DEF Settled, Projection
<1>5. QED
  BY <1>2, <1>3, <1>4 DEF VInv

\* Unless it says that the files were moved, a transaction has them as the
\* last generation left them.
LEMMA Unmoved ==
  ASSUME VInv, "format.v1" \in ctl, ~moved, faults <= 1
  PROVE  live = Projection(Len(pub))
<1>1. CASE p.pc \notin Transacting
  BY <1>1 DEF VInv, Settled
<1>2. CASE p.pc \in Staging
  BY <1>2 DEF VInv, Started
<1>3. CASE p.pc \in {"finish", "undo"}
  BY <1>3 DEF VInv, Finishing, At
<1>4. QED
  BY <1>1, <1>2, <1>3 DEF Transacting

LEMMA CrashStep == ASSUME VInv, Crash PROVE VInv'
<1>1. PICK pid \in Pid : p' = [pc |-> "idle", born |-> p.born + 1, pid |-> pid]
  BY DEF Crash
<1>2. UNCHANGED <<ctl, copied, live, inc, pub, acked, moved, faults>>
  BY DEF Crash
<1>3. p.born \in Nat
  BY DEF VInv, VType, Fresh, Owner
<1>4. p' \in Fresh /\ p'.pc = "idle"
  BY <1>1, <1>3 DEF Fresh, Pcs
<1>5. faults \in Nat /\ moved \in BOOLEAN
  BY DEF VInv, VType
<1>6. \A tx \in acked' : \E g \in 1 .. Len(pub) : pub[g].tx = tx
  BY <1>2 DEF VInv, Histories
<1>7. QED
  BY <1>2, <1>4, <1>5, <1>6, Unmoved, ToIdle

LEMMA RotStep == ASSUME VInv, Rot PROVE VInv'
<1>1. /\ p.pc = "idle" /\ "format.v1" \in ctl /\ faults' = faults + 1
      /\ UNCHANGED <<copied, live, p, acked, moved>>
      /\ ctl' \in {ctl, ctl \cup {"stray"}}
  BY DEF Rot, At
<1>2. inc' \in Incomplete \cup {None}
  <2>1. inc \in Incomplete \cup {None}
    BY DEF VInv, VType
  <2>2. CASE inc' = inc
    BY <2>1, <2>2
  <2>3. CASE inc # None /\ inc' = AddFile("stray")
    BY <2>1, <2>3 DEF AddFile, Incomplete, Names
  <2>4. QED
    BY <2>2, <2>3 DEF Rot
<1>3. pub \in Seq(Generation) /\ faults \in Nat
  BY DEF VInv, VType
<1>4. /\ pub' \in Seq(Generation) /\ Len(pub') = Len(pub)
      /\ \A g \in 1 .. Len(pub) : pub'[g].tx = pub[g].tx /\ pub'[g].fixture = pub[g].fixture
  <2>1. CASE pub' = pub
    BY <1>3, <2>1
  <2>2. ASSUME NEW g \in 1 .. Len(pub), pub' = [pub EXCEPT ![g].rotten = TRUE]
        PROVE  /\ pub' \in Seq(Generation) /\ Len(pub') = Len(pub)
               /\ \A h \in 1 .. Len(pub) : pub'[h].tx = pub[h].tx /\ pub'[h].fixture = pub[h].fixture
    <3>1. pub[g] \in Generation
      BY <1>3, ElementOfSeq
    <3> DEFINE e == [pub[g] EXCEPT !.rotten = TRUE]
    <3>2. e \in Generation /\ e.tx = pub[g].tx /\ e.fixture = pub[g].fixture
      BY <3>1 DEF Generation
    <3>3. pub' = [pub EXCEPT ![g] = e]
      BY <2>2
    <3> HIDE DEF e
    <3>4. QED
      BY <1>3, <3>2, <3>3, ExceptSeq
  <2>3. QED
    BY <2>1, <2>2 DEF Rot
<1>5. "idle" \notin Activating /\ "idle" \notin Transacting
  BY DEF Activating, Transacting, Staging
<1>6. VType'
  BY <1>1, <1>2, <1>3, <1>4, <1>5 DEF VInv, VType
<1>7. Histories'
  <2>1. \A g \in 1 .. Len(pub) : Committed(g)' = Committed(g)
    BY <1>3, <1>4 DEF Committed
  <2>2. QED
    BY <1>1, <1>4, <2>1 DEF VInv, Histories
<1>8. Unformatted' /\ Started' /\ Finishing'
  BY <1>1, <1>5 DEF VInv, Unformatted, Started, Finishing, At, Transacting, Staging
<1>9. Settled'
  <2>1. Len(pub) \in Nat
    BY <1>3
  <2>2. Projection(Len(pub))' = Projection(Len(pub))
    BY <1>1, <1>4, <2>1 DEF Projection
  <2>3. QED
    BY <1>1, <1>3, <1>5, <2>2 DEF VInv, Settled
<1>10. QED
  BY <1>6, <1>7, <1>8, <1>9 DEF VInv

-----------------------------------------------------------------------------
(* A transaction *)

\* The process goes on with its transaction.
Continues ==
    /\ p \in Owner /\ p' \in Owner
    /\ p'.tx = p.tx /\ p'.pre = p.pre /\ p'.retry = p.retry

LEMMA ContinueGoto ==
  ASSUME VInv, p.pc \in Transacting, NEW pc \in Pcs, Goto(pc)
  PROVE  Continues /\ p'.pc = pc
  BY GotoFacts DEF VInv, VType, Continues

LEMMA ContinueSame ==
  ASSUME VInv, p.pc \in Transacting, UNCHANGED p PROVE Continues
  BY DEF VInv, VType, Continues

\* Before its commit record the transaction only builds its own directory.
LEMMA StagingStep ==
  ASSUME VInv, p.pc \in Staging, p'.pc \in Staging, Continues,
         UNCHANGED <<ctl, copied, live, pub, acked, moved, faults>>,
         inc' \in Incomplete \cup {None},
         p'.pc # "create" => inc' # None /\ inc'.tx = p.tx
  PROVE  VInv'
<1>1. "finish" \notin Staging /\ "undo" \notin Staging /\ Staging \subseteq Transacting
      /\ Staging \cap Activating = {} /\ "copy" \notin Staging
  BY DEF Staging, Transacting, Activating
<1>2. VType' /\ Histories'
  BY DEF VInv, VType, Histories, Committed, Continues
<1>3. "format.v1" \in ctl
  BY <1>1 DEF VInv, Unformatted
<1>4. Unformatted' /\ Finishing' /\ Settled'
  BY <1>1, <1>3 DEF VInv, Unformatted, Finishing, Settled, At
<1>5. Started'
  BY <1>1 DEF VInv, Started, Continues, Projection, At
<1>6. QED
  BY <1>2, <1>4, <1>5 DEF VInv

LEMMA BeginStep ==
  ASSUME VInv, NEW tx \in Tx, NEW intent \in Intent, Begin(tx, intent) PROVE VInv'
<1>1. /\ p.pc = "idle" /\ "format.v1" \in ctl /\ live = Projection(Len(pub))
      /\ UNCHANGED <<ctl, copied, live, inc, pub, faults, moved>>
  BY DEF Begin, At, disk, recover_scan, LiveMatches
<1>2. "idle" \notin Activating /\ "idle" \notin Transacting
  BY DEF Activating, Transacting, Staging
<1>3. CASE Status(tx) = "committed" /\ acked' = acked \cup {tx} /\ UNCHANGED p
  <2>1. \E g \in 1 .. Len(pub) : pub[g].tx = tx
    BY <1>3 DEF Status
  <2>2. VType' /\ Histories'
    BY <1>1, <1>3, <2>1 DEF VInv, VType, Histories, Committed
  <2>3. Unformatted' /\ Started' /\ Finishing' /\ Settled'
    BY <1>1, <1>3 DEF VInv, Unformatted, Started, Finishing, Settled, At, Projection
  <2>4. QED
    BY <2>2, <2>3 DEF VInv
<1>4. CASE Status(tx) # "committed" /\ UNCHANGED acked
           /\ p' = [pc |-> IF inc = None THEN "create" ELSE "cleanup", born |-> p.born,
                    pid |-> p.pid, tx |-> tx, intent |-> intent, pre |-> live, retry |-> FALSE]
  <2>1. \A g \in 1 .. Len(pub) : pub[g].tx # tx
    BY <1>4 DEF Status
  <2>2. p.born \in Nat /\ p.pid \in Pid \cup {1} /\ live \in Fixture
    <3>1. live \in LiveFiles /\ live.counter # Torn
      BY DEF Begin, recover_scan, LiveMatches, validate_component_bytes, parse_fixture_counter, VInv, VType
    <3>2. live \in Fixture
      BY <3>1 DEF Fixture, LiveFiles
    <3>3. QED
      BY <3>2 DEF VInv, VType, Fresh, Owner
  <2>3. {"create", "cleanup"} \subseteq Pcs /\ {"create", "cleanup"} \subseteq Staging
        /\ {"create", "cleanup"} \cap (Activating \cup {"prepare", "stage", "finish", "undo"}) = {}
    BY DEF Pcs, Transacting, Staging, Activating
  <2>4. p' \in Owner /\ p'.pc \in {"create", "cleanup"} /\ p'.tx = tx /\ p'.pre = live /\ ~p'.retry
    BY <1>4, <2>2, <2>3 DEF Owner
  <2>5. VType' /\ Histories'
    BY <1>1, <1>4, <2>4 DEF VInv, VType, Histories, Committed
  <2>6. Unformatted' /\ Finishing' /\ Settled'
    BY <1>1, <2>3, <2>4 DEF VInv, Unformatted, Finishing, Settled, At, Transacting
  <2>7. p'.pc = "cleanup" => inc # None /\ inc.tx = tx
    <3>1. inc # None => Status(tx) = "prepared"
      BY <1>4 DEF Begin
    <3>2. QED
      BY <1>4, <2>4, <3>1 DEF Status
  <2>8. Started'
    BY <1>1, <2>1, <2>3, <2>4, <2>7 DEF Started, Projection, At
  <2>9. QED
    BY <2>5, <2>6, <2>8 DEF VInv
<1>5. QED
  BY <1>3, <1>4 DEF Begin, Status

LEMMA RemoveStepType ==
  ASSUME inc \in Incomplete, NEW done, RemoveStep(done)
  PROVE  \/ inc' \in Incomplete /\ inc'.tx = inc.tx /\ UNCHANGED p
         \/ inc' = None /\ Goto(done)
<1>1. CASE inc' = [inc EXCEPT !.at = "cleanup"] /\ UNCHANGED p
  BY <1>1 DEF Incomplete
<1>2. CASE inc' = None /\ Goto(done)
  BY <1>2
<1>3. CASE inc' = [inc EXCEPT !.files = remove_tombstone_contents(inc.files)] /\ UNCHANGED p
  <2>1. remove_tombstone_contents(inc.files) \subseteq inc.files
    BY DEF remove_tombstone_contents
  <2>2. QED
    BY <1>3, <2>1 DEF Incomplete
<1>4. QED
  BY <1>1, <1>2, <1>3 DEF RemoveStep

LEMMA CleanupStep == ASSUME VInv, Cleanup PROVE VInv'
<1>1. /\ p.pc = "cleanup" /\ inc.tx = p.tx /\ RemoveStep("create")
      /\ UNCHANGED <<ctl, copied, live, pub, acked, moved, faults>>
  BY DEF Cleanup, At, Unseen
<1>2. {"cleanup", "create"} \subseteq Staging /\ {"cleanup", "create"} \subseteq Pcs /\ "cleanup" \in Transacting
  BY DEF Staging, Transacting, Pcs
<1>3. inc \in Incomplete
  BY <1>1, <1>2 DEF VInv, VType, Started
<1>4. CASE inc' \in Incomplete /\ inc'.tx = inc.tx /\ UNCHANGED p
  <2>1. Continues /\ inc' # None
    BY <1>1, <1>2, <1>4, ContinueSame DEF Incomplete, None
  <2>2. QED
    BY <1>1, <1>2, <1>4, <2>1, StagingStep
<1>5. CASE inc' = None /\ Goto("create")
  <2>1. Continues /\ p'.pc = "create"
    BY <1>1, <1>2, <1>5, ContinueGoto
  <2>2. QED
    BY <1>1, <1>2, <1>5, <2>1, StagingStep
<1>6. QED
  BY <1>1, <1>3, <1>4, <1>5, RemoveStepType

LEMMA StagingPhases ==
  /\ {"cleanup", "create", "prepare", "stage"} = Staging /\ Staging \subseteq Transacting
  /\ Transacting \subseteq Pcs /\ {"finish", "undo"} \subseteq Transacting
  /\ Transacting \cap (Activating \cup {"idle"}) = {} /\ "copy" \in Activating
  /\ {"idle", "finish", "undo"} \cap Staging = {} /\ "idle" \in Pcs
  BY DEF Staging, Transacting, Pcs, Activating

LEMMA CreatePendingStep == ASSUME VInv, CreatePending PROVE VInv'
<1>1. /\ p.pc = "create" /\ Goto("prepare")
      /\ inc' = [at |-> "pending", gen |-> Len(pub) + 1, tx |-> p.tx, intent |-> p.intent,
                 files |-> {}, fixture |-> p.pre]
      /\ UNCHANGED <<ctl, copied, live, pub, acked, moved, faults>>
  BY DEF CreatePending, OnlyInc, Unseen, At
<1>2. Continues /\ p'.pc = "prepare"
  BY <1>1, StagingPhases, ContinueGoto
<1>3. p \in Owner /\ Len(pub) \in Nat
  BY <1>1, StagingPhases DEF VInv, VType
<1>4. inc' \in Incomplete /\ inc' # None /\ inc'.tx = p.tx
  BY <1>1, <1>3 DEF Incomplete, Owner, None
<1>5. QED
  BY <1>1, <1>2, <1>4, StagingPhases, StagingStep

\* A file more, or one under another name, in the pending directory.
LEMMA FilesStep ==
  ASSUME VInv, p.pc \in {"prepare", "stage"}, p'.pc \in {"prepare", "stage"}, Continues,
         NEW files \in SUBSET Names, NEW fixture \in Fixture,
         inc' = [inc EXCEPT !.files = files, !.fixture = fixture],
         UNCHANGED <<ctl, copied, live, pub, acked, moved, faults>>
  PROVE  VInv'
<1>1. inc \in Incomplete /\ inc.tx = p.tx
  BY StagingPhases DEF VInv, VType, Started
<1>2. inc' \in Incomplete /\ inc' # None /\ inc'.tx = p.tx
  BY <1>1 DEF Incomplete, None
<1>3. QED
  BY <1>2, StagingPhases, StagingStep

LEMMA PrepareStep == ASSUME VInv, Prepare PROVE VInv'
<1>1. p.pc = "prepare" /\ UNCHANGED <<ctl, copied, live, pub, acked, moved, faults>>
  BY DEF Prepare, OnlyInc, Unseen, At
<1>2. inc \in Incomplete /\ inc.files \in SUBSET Names /\ inc.fixture \in Fixture
  BY <1>1, StagingPhases DEF VInv, VType, Started, Incomplete
<1>3. inc = [inc EXCEPT !.fixture = inc.fixture]
  BY <1>2 DEF Incomplete
<1>4. ASSUME NEW f \in {"components", "prepare.tmp"}, inc' = AddFile(f), UNCHANGED p PROVE VInv'
  <2>1. inc' = [inc EXCEPT !.files = inc.files \cup {f}, !.fixture = inc.fixture]
    BY <1>2, <1>4 DEF AddFile, Incomplete
  <2>2. inc.files \cup {f} \in SUBSET Names
    BY <1>2 DEF Names
  <2>3. Continues
    BY <1>1, <1>4, StagingPhases, ContinueSame
  <2>4. QED
    BY <1>1, <1>2, <1>4, <2>1, <2>2, <2>3, FilesStep
<1>5. ASSUME inc' = [inc EXCEPT !.files = Rename(inc.files, "prepare.tmp", "prepare")], Goto("stage")
      PROVE  VInv'
  <2>1. inc' = [inc EXCEPT !.files = Rename(inc.files, "prepare.tmp", "prepare"), !.fixture = inc.fixture]
    BY <1>2, <1>5 DEF Incomplete
  <2>2. Rename(inc.files, "prepare.tmp", "prepare") \in SUBSET Names
    BY <1>2 DEF Names, Rename
  <2>3. Continues /\ p'.pc = "stage"
    BY <1>1, <1>5, StagingPhases, ContinueGoto
  <2>4. QED
    BY <1>1, <1>2, <2>1, <2>2, <2>3, FilesStep
<1>6. QED
  BY <1>4, <1>5 DEF Prepare, OnlyInc

LEMMA StageStep == ASSUME VInv, NEW step \in {0, 1}, stage_component(step) PROVE VInv'
<1>1. p.pc = "stage" /\ UNCHANGED <<ctl, copied, live, pub, acked, moved, faults, p>>
  BY DEF stage_component, OnlyInc, Unseen, At
<1>2. /\ inc \in Incomplete /\ inc.files \in SUBSET Names /\ inc.fixture \in Fixture
      /\ p \in Owner /\ p.pre \in Fixture /\ p.tx \in Tx
  BY <1>1, StagingPhases DEF VInv, VType, Started, Incomplete, Owner
<1>3. Continues
  BY <1>1, StagingPhases, ContinueSame
<1>4. CASE inc' = AddFile("fixture")
  <2>1. inc' = [inc EXCEPT !.files = inc.files \cup {"fixture"}, !.fixture = inc.fixture]
    BY <1>2, <1>4 DEF AddFile, Incomplete
  <2>2. inc.files \cup {"fixture"} \in SUBSET Names
    BY <1>2 DEF Names
  <2>3. QED
    BY <1>1, <1>2, <1>3, <2>1, <2>2, FilesStep
<1>5. CASE inc' = [AddFile("state") EXCEPT !.fixture.counter = p.pre.counter + step]
  <2> DEFINE x == [inc.fixture EXCEPT !.counter = p.pre.counter + step]
  <2>1. inc' = [inc EXCEPT !.files = inc.files \cup {"state"}, !.fixture = x]
    BY <1>2, <1>5 DEF AddFile, Incomplete
  <2>2. inc.files \cup {"state"} \in SUBSET Names
    BY <1>2 DEF Names
  <2>3. x \in Fixture
    BY <1>2 DEF Fixture
  <2> HIDE DEF x
  <2>4. QED
    BY <1>1, <1>3, <2>1, <2>2, <2>3, FilesStep
<1>6. CASE inc' = [AddFile("history") EXCEPT !.fixture.history = Append(p.pre.history, p.tx)]
  <2> DEFINE x == [inc.fixture EXCEPT !.history = Append(p.pre.history, p.tx)]
  <2>1. inc' = [inc EXCEPT !.files = inc.files \cup {"history"}, !.fixture = x]
    BY <1>2, <1>6 DEF AddFile, Incomplete
  <2>2. inc.files \cup {"history"} \in SUBSET Names
    BY <1>2 DEF Names
  <2>3. p.pre.history \in Seq(Tx \cup {Torn})
    BY <1>2 DEF Fixture
  <2>4. Append(p.pre.history, p.tx) \in Seq(Tx \cup {Torn})
    BY <1>2, <2>3
  <2>5. x \in Fixture
    BY <1>2, <2>4 DEF Fixture
  <2> HIDE DEF x
  <2>6. QED
    BY <1>1, <1>3, <2>1, <2>2, <2>5, FilesStep
<1>7. QED
  BY <1>4, <1>5, <1>6 DEF stage_component, OnlyInc

\* What a staged transition says of the live fixture that was moved to it.
LEMMA MovedToStaged ==
  ASSUME VInv, p.pc = "stage", Staged, live = inc.fixture
  PROVE  moved /\ inc.tx = p.tx /\ inc \in Incomplete /\ Transition(p.pre, inc.fixture, p.tx)
<1>1. /\ inc \in Incomplete /\ inc.tx = p.tx /\ p.pre \in Fixture
      /\ (~moved => live = p.pre)
  BY StagingPhases DEF VInv, VType, Started, Owner
<1>2. inc.fixture.counter = p.pre.counter + 1 /\ p.pre.counter \in Nat
  BY <1>1 DEF Staged, Transition, Fixture
<1>3. live # p.pre
  BY <1>2
<1>4. QED
  BY <1>1, <1>3 DEF Staged

LEMMA MoveLiveStep == ASSUME VInv, MoveLive PROVE VInv'
<1>1. /\ p.pc = "stage" /\ moved'
      /\ UNCHANGED <<ctl, copied, inc, pub, acked, faults, p>>
      /\ live' = IF live.counter # inc.fixture.counter
                 THEN [live EXCEPT !.counter = inc.fixture.counter] ELSE inc.fixture
  BY DEF MoveLive, At
<1>2. inc \in Incomplete /\ live \in LiveFiles /\ "format.v1" \in ctl
  BY <1>1, StagingPhases DEF VInv, VType, Started, Unformatted
<1>3. live' \in LiveFiles
  BY <1>1, <1>2 DEF Fixture, LiveFiles, Incomplete
<1>4. moved' \in BOOLEAN
  BY DEF MoveLive
<1>5. VType' /\ Histories'
  BY <1>1, <1>3, <1>4 DEF VInv, VType, Histories, Committed
<1>6. Unformatted' /\ Finishing' /\ Settled'
  BY <1>1, <1>2, StagingPhases DEF VInv, Unformatted, Finishing, Settled, At
<1>7. Started'
  BY <1>1, StagingPhases DEF VInv, Started, Projection, At
<1>8. QED
  BY <1>5, <1>6, <1>7 DEF VInv

LEMMA AbandonStep == ASSUME VInv, Abandon PROVE VInv'
<1>1. /\ p.pc = "stage" /\ ~moved /\ Goto("idle")
      /\ UNCHANGED <<ctl, copied, live, inc, pub, acked, moved, faults>>
  BY DEF Abandon, At, disk, Unseen
<1>2. /\ p \in Fresh \cup Owner /\ faults \in Nat /\ moved \in BOOLEAN
      /\ \A tx \in acked : \E g \in 1 .. Len(pub) : pub[g].tx = tx
  BY DEF VInv, VType, Histories
<1>3. p' \in Fresh \cup Owner /\ p'.pc = "idle"
  BY <1>1, <1>2, StagingPhases, GotoFacts
<1>4. QED
  BY <1>1, <1>2, <1>3, Unmoved, ToIdle

LEMMA CommitFailsStep == ASSUME VInv, CommitFails PROVE VInv'
<1>1. /\ p.pc = "stage" /\ Staged /\ live = inc.fixture /\ Goto("idle") /\ faults' = faults + 1
      /\ UNCHANGED <<ctl, copied, live, inc, pub, acked, moved>>
  BY DEF CommitFails, At, disk
<1>2. /\ p \in Fresh \cup Owner /\ faults \in Nat /\ moved \in BOOLEAN
      /\ \A tx \in acked : \E g \in 1 .. Len(pub) : pub[g].tx = tx
  BY DEF VInv, VType, Histories
<1>3. p' \in Fresh \cup Owner /\ p'.pc = "idle"
  BY <1>1, <1>2, StagingPhases, GotoFacts
<1>4. moved'
  BY <1>1, MovedToStaged
<1>5. QED
  BY <1>1, <1>2, <1>3, <1>4, ToIdle

\* On the way to its number the pending generation keeps its transaction and
\* its fixture.
LEMMA FinishStep ==
  ASSUME VInv, Continues, p'.pc = "finish", inc' \in Incomplete, inc'.tx = p.tx, live = inc'.fixture,
         Transition(p.pre, inc'.fixture, p.tx), moved,
         p.pc = "stage" \/ (p.pc = "finish" /\ inc # None),
         UNCHANGED <<ctl, copied, live, pub, acked, moved, faults>>
  PROVE  VInv'
<1>1. VType' /\ Histories'
  BY DEF VInv, VType, Histories, Committed, Continues
<1>2. "format.v1" \in ctl /\ inc' # None
  BY StagingPhases DEF VInv, Unformatted, Incomplete, None
<1>3. Unformatted' /\ Settled'
  BY <1>2, StagingPhases DEF VInv, Unformatted, Settled, At
<1>4. Started'
  BY <1>2, StagingPhases DEF VInv, Started, Projection, At, Continues
<1>5. Finishing'
  <2>1. p'.pre = p.pre /\ p'.tx = p.tx /\ p'.retry = p.retry /\ (p.retry => faults >= 1)
    BY StagingPhases DEF VInv, Finishing, Started, Continues, At
  <2>2. Transition(p.pre, inc.fixture, p.tx)'
    BY <2>1 DEF Transition
  <2>3. QED
    BY <1>2, <2>1, <2>2 DEF Finishing, At
<1>6. QED
  BY <1>1, <1>3, <1>4, <1>5 DEF VInv

LEMMA WriteCommitStep == ASSUME VInv, WriteCommit PROVE VInv'
<1>1. /\ p.pc = "stage" /\ Staged /\ live = inc.fixture /\ Goto("finish")
      /\ inc' = AddFile("commit.tmp")
      /\ UNCHANGED <<ctl, copied, live, pub, acked, moved, faults>>
  BY DEF WriteCommit, At, OnlyInc, Unseen
<1>2. moved /\ inc.tx = p.tx /\ inc \in Incomplete /\ Transition(p.pre, inc.fixture, p.tx)
  BY <1>1, MovedToStaged
<1>3. inc' \in Incomplete /\ inc'.tx = inc.tx /\ inc'.fixture = inc.fixture
  BY <1>1, <1>2 DEF AddFile, Incomplete, Names
<1>4. Continues /\ p'.pc = "finish"
  BY <1>1, StagingPhases, ContinueGoto
<1>5. QED
  BY <1>1, <1>2, <1>3, <1>4, FinishStep

LEMMA CarrierStep == ASSUME VInv, RenameCommit \/ BindCarrier PROVE VInv'
<1>1. /\ p.pc = "finish" /\ inc # None /\ UNCHANGED p
      /\ UNCHANGED <<ctl, copied, live, pub, acked, moved, faults>>
  BY DEF RenameCommit, BindCarrier, At, OnlyInc, Unseen
<1>2. /\ inc \in Incomplete /\ moved /\ inc.tx = p.tx /\ live = inc.fixture
      /\ Transition(p.pre, inc.fixture, p.tx)
  BY <1>1 DEF VInv, VType, Finishing, At
<1>3. inc' \in Incomplete /\ inc'.tx = inc.tx /\ inc'.fixture = inc.fixture
  <2>1. CASE RenameCommit
    <3>1. inc' = [inc EXCEPT !.files = Rename(inc.files, "commit.tmp", "commit")]
      BY <2>1 DEF RenameCommit, OnlyInc
    <3>2. Rename(inc.files, "commit.tmp", "commit") \in SUBSET Names
      BY <1>2 DEF Incomplete, Rename, Names
    <3>3. QED
      BY <1>2, <3>1, <3>2 DEF Incomplete
  <2>2. CASE BindCarrier
    BY <1>2, <2>2 DEF BindCarrier, OnlyInc, Incomplete
  <2>3. QED
    BY <2>1, <2>2
<1>4. Continues
  BY <1>1, StagingPhases, ContinueSame
<1>5. QED
  BY <1>1, <1>2, <1>3, <1>4, FinishStep

\* The generation takes its number: its history is its parent's and itself.
LEMMA PublishGenerationStep == ASSUME VInv, PublishGeneration PROVE VInv'
<1> DEFINE g == [gen |-> inc.gen, tx |-> inc.tx, intent |-> inc.intent, files |-> inc.files,
                 fixture |-> inc.fixture, rotten |-> FALSE]
<1>0. PICK n \in Nat : n = Len(pub)
  BY DEF VInv, VType
<1>1. /\ p.pc = "finish" /\ inc # None /\ inc' = None /\ pub' = Append(pub, g)
      /\ UNCHANGED <<ctl, copied, live, p, acked, moved, faults>>
  BY DEF PublishGeneration, At, Unseen
<1>2. /\ inc \in Incomplete /\ inc.tx = p.tx /\ live = inc.fixture
      /\ Transition(p.pre, inc.fixture, p.tx) /\ moved
      /\ p.pre = Projection(n) /\ (\A h \in 1 .. n : pub[h].tx # p.tx)
      /\ pub \in Seq(Generation) /\ p \in Owner
  BY <1>0, <1>1, StagingPhases DEF VInv, VType, Finishing, Started, At
<1>3. g \in Generation /\ g.tx = p.tx /\ g.fixture = live /\ g.fixture.history = Append(p.pre.history, p.tx)
  BY <1>2 DEF Incomplete, Generation, Transition
<1> HIDE DEF g
<1>4. /\ pub' \in Seq(Generation) /\ Len(pub') = n + 1
      /\ \A h \in 1 .. n : pub'[h] = pub[h]
      /\ pub'[n + 1] = g
  BY <1>0, <1>1, <1>2, <1>3, AppendProperties
<1>5. p.pre.history = Committed(n)
  <2>1. CASE n = 0
    BY <1>0, <1>2, <2>1 DEF Projection, VInv, Histories, Committed
  <2>2. CASE n # 0
    BY <1>0, <1>2, <2>2 DEF Projection, VInv, Histories
  <2>3. QED
    BY <2>1, <2>2
<1>6. \A h \in 1 .. n : Committed(h)' = Committed(h)
  BY <1>4 DEF Committed
<1>7. Append(Committed(n), p.tx) = Committed(n + 1)'
  <2> DEFINE s == Committed(n)
             t == [i \in 1 .. n + 1 |-> pub'[i].tx]
  <2>1. s \in Seq(Tx) /\ Len(s) = n /\ \A i \in 1 .. n : s[i] = pub[i].tx
    <3>1. \A i \in 1 .. n : pub[i].tx \in Tx
      <4>1. \A e \in Generation : e.tx \in Tx
        BY DEF Generation
      <4>2. \A i \in 1 .. n : pub[i] \in Generation
        BY <1>0, <1>2
      <4>3. QED
        BY <4>1, <4>2
    <3>2. QED
      BY <3>1 DEF Committed
  <2>2. \A i \in 1 .. n : pub[i].tx = t[i]
    BY <1>4
  <2>3. t[n + 1] = p.tx
    BY <1>3, <1>4
  <2>4. Append(s, p.tx) = [i \in 1 .. n + 1 |-> IF i = n + 1 THEN p.tx ELSE s[i]]
    BY <1>4, <2>1
  <2>5. Append(s, p.tx) = t
    BY <1>4, <2>1, <2>2, <2>3, <2>4
  <2>6. t = Committed(n + 1)'
    BY DEF Committed
  <2>7. QED
    BY <2>5, <2>6
<1>8. VType'
  BY <1>1, <1>4 DEF VInv, VType
<1>9. Histories'
  <2>1. \A h \in 1 .. Len(pub') : h \in 1 .. n \/ h = n + 1
    BY <1>4
  <2>2. \A h \in 1 .. Len(pub') : pub'[h].fixture.history = Committed(h)'
    BY <1>0, <1>3, <1>4, <1>5, <1>6, <1>7, <2>1 DEF VInv, Histories
  <2>3. \A h, k \in 1 .. Len(pub') : pub'[h].tx = pub'[k].tx => h = k
    BY <1>0, <1>2, <1>3, <1>4, <2>1 DEF VInv, Histories
  <2>4. \A tx \in acked : \E h \in 1 .. Len(pub') : pub'[h].tx = tx
    <3>1. \A h \in 1 .. n : h \in 1 .. Len(pub') /\ pub'[h].tx = pub[h].tx
      BY <1>4
    <3>2. QED
      BY <1>0, <3>1 DEF VInv, Histories
  <2>5. QED
    BY <1>1, <2>2, <2>3, <2>4 DEF VInv, Histories
<1>10. Unformatted' /\ Started' /\ Settled'
  BY <1>1, StagingPhases DEF VInv, Unformatted, Started, Settled, At
<1>11. Finishing'
  <2>1. pub' # <<>> /\ pub'[Len(pub')].tx = p.tx /\ live = pub'[Len(pub')].fixture
    BY <1>3, <1>4
  <2>2. QED
    BY <1>1, <2>1 DEF VInv, Finishing, At
<1>12. QED
  BY <1>8, <1>9, <1>10, <1>11 DEF VInv

LEMMA CommitReturnsStep == ASSUME VInv, CommitReturns PROVE VInv'
<1>1. /\ p.pc = "finish" /\ inc = None /\ Goto("idle")
      /\ acked' \subseteq acked \cup {p.tx} /\ moved' \in BOOLEAN
      /\ UNCHANGED <<ctl, copied, live, inc, pub, faults>>
  BY DEF CommitReturns, At, disk
<1>2. p \in Fresh \cup Owner /\ faults \in Nat /\ pub \in Seq(Generation)
  BY DEF VInv, VType
<1>3. p' \in Fresh \cup Owner /\ p'.pc = "idle"
  BY <1>1, <1>2, StagingPhases, GotoFacts
<1>4. pub # <<>> /\ pub[Len(pub)].tx = p.tx /\ live = pub[Len(pub)].fixture
  BY <1>1 DEF VInv, Finishing, At
<1>5. Len(pub) \in 1 .. Len(pub) /\ Len(pub) # 0
  BY <1>2, <1>4, EmptySeq
<1>6. live = Projection(Len(pub))
  BY <1>4, <1>5 DEF Projection
<1>7. \A tx \in acked' : \E g \in 1 .. Len(pub) : pub[g].tx = tx
  BY <1>1, <1>4, <1>5 DEF VInv, Histories
<1>8. QED
  BY <1>1, <1>2, <1>3, <1>6, <1>7, ToIdle

LEMMA PublicationFailsStep == ASSUME VInv, PublicationFails PROVE VInv'
<1>1. /\ p.pc = "finish" /\ faults' = faults + 1
      /\ p' = [p EXCEPT !.retry = TRUE, !.pc = IF ~p.retry THEN "finish" ELSE "undo"]
      /\ UNCHANGED <<ctl, copied, live, inc, pub, acked, moved>>
  BY DEF PublicationFails, At, disk
<1>2. p \in Owner /\ faults \in Nat /\ moved /\ (p.retry => faults >= 1) /\ "format.v1" \in ctl
  BY <1>1, StagingPhases DEF VInv, VType, Finishing, Unformatted, At
<1>3. /\ p' \in Owner /\ p'.tx = p.tx /\ p'.pre = p.pre
      /\ p'.pc = IF ~p.retry THEN "finish" ELSE "undo"
  BY <1>1, <1>2, StagingPhases DEF Owner
<1>4. p'.pc \in {"finish", "undo"} /\ (p'.pc = "undo" => faults' >= 2) /\ faults' >= 1 /\ faults' \in Nat
  BY <1>1, <1>2, <1>3
<1>5. VType' /\ Histories'
  BY <1>1, <1>3, <1>4 DEF VInv, VType, Histories, Committed
<1>6. Unformatted' /\ Settled'
  BY <1>1, <1>2, <1>4, StagingPhases DEF VInv, Unformatted, Settled, At
<1>7. Started'
  BY <1>1, <1>3, <1>4, StagingPhases DEF VInv, Started, At, Projection
<1>8. Finishing'
  <2>1. Transition(p.pre, inc.fixture, p.tx) => Transition(p.pre, inc.fixture, p.tx)'
    BY <1>1, <1>3 DEF Transition
  <2>2. QED
    BY <1>1, <1>2, <1>3, <1>4, <2>1 DEF VInv, Finishing, At
<1>9. QED
  BY <1>5, <1>6, <1>7, <1>8 DEF VInv

\* Undoing a publication, after at least two faults.
LEMMA UndoStep ==
  ASSUME VInv, p.pc = "undo", p'.pc = "undo", p' \in Owner, inc' \in Incomplete \cup {None},
         live' \in LiveFiles, UNCHANGED <<ctl, copied, pub, acked, moved, faults>>
  PROVE  VInv'
<1>1. VType' /\ Histories'
  BY DEF VInv, VType, Histories, Committed
<1>2. "format.v1" \in ctl
  BY StagingPhases DEF VInv, Unformatted
<1>3. Unformatted' /\ Started' /\ Settled'
  BY <1>2, StagingPhases DEF VInv, Unformatted, Started, Settled, At
<1>4. Finishing'
  BY DEF VInv, Finishing, At
<1>5. QED
  BY <1>1, <1>3, <1>4 DEF VInv

LEMMA UndoCarrierStep == ASSUME VInv, UndoCarrier PROVE VInv'
<1>1. /\ p.pc = "undo" /\ inc # None /\ RemoveStep("undo")
      /\ UNCHANGED <<ctl, copied, live, pub, acked, moved, faults>>
  BY DEF UndoCarrier, At, Unseen
<1>2. inc \in Incomplete /\ p \in Owner /\ live \in LiveFiles
  BY <1>1, StagingPhases DEF VInv, VType
<1>3. inc' \in Incomplete \cup {None} /\ (UNCHANGED p \/ Goto("undo"))
  BY <1>1, <1>2, RemoveStepType
<1>4. p' \in Owner /\ p'.pc = "undo"
  BY <1>1, <1>2, <1>3, StagingPhases, GotoFacts
<1>5. QED
  BY <1>1, <1>2, <1>3, <1>4, UndoStep

LEMMA RestoreLiveStep == ASSUME VInv, RestoreLive PROVE VInv'
<1>1. p.pc = "undo" /\ UNCHANGED <<ctl, copied, inc, pub, acked, faults>>
  BY DEF RestoreLive, At
<1>2. /\ p \in Owner /\ live \in LiveFiles /\ inc \in Incomplete \cup {None} /\ faults \in Nat
      /\ faults >= 2 /\ p.pre \in Fixture
      /\ \A tx \in acked : \E g \in 1 .. Len(pub) : pub[g].tx = tx
  BY <1>1, StagingPhases DEF VInv, VType, Finishing, Histories, At, Owner
<1>3. <<Torn>> \in Seq(Tx \cup {Torn})
  OBVIOUS
<1>4. CASE live' = [live EXCEPT !.counter = IF @ = Torn THEN p.pre.counter ELSE Torn] /\ UNCHANGED <<p, moved>>
  <2>1. live' \in LiveFiles
    BY <1>2, <1>3, <1>4 DEF Fixture, LiveFiles
  <2>2. QED
    BY <1>1, <1>2, <1>4, <2>1, UndoStep
<1>5. CASE live' = [live EXCEPT !.history = IF @ = <<Torn>> THEN p.pre.history ELSE <<Torn>>]
           /\ UNCHANGED <<p, moved>>
  <2>1. live' \in LiveFiles
    BY <1>2, <1>3, <1>5 DEF Fixture, LiveFiles
  <2>2. QED
    BY <1>1, <1>2, <1>5, <2>1, UndoStep
<1>6. CASE moved' = FALSE /\ Goto("idle") /\ UNCHANGED live
  <2>1. p' \in Fresh \cup Owner /\ p'.pc = "idle"
    BY <1>2, <1>6, StagingPhases, GotoFacts
  <2>2. moved' \in BOOLEAN /\ faults' >= faults /\ ~(faults' <= 1)
    <3>1. \A f \in Nat : f >= 2 => f >= f /\ ~(f <= 1)
      OBVIOUS
    <3>2. QED
      BY <1>1, <1>2, <1>6, <3>1
  <2>3. QED
    BY <1>1, <1>2, <1>6, <2>1, <2>2, ToIdle
<1>7. QED
  BY <1>4, <1>5, <1>6 DEF RestoreLive

LEMMA VStep == ASSUME VInv, [VNext]_vvars PROVE VInv'
<1>1. CASE Transact
  BY <1>1, BeginStep, CleanupStep, CreatePendingStep, PrepareStep, StageStep, MoveLiveStep,
     AbandonStep, WriteCommitStep, CarrierStep, PublishGenerationStep, CommitReturnsStep,
     PublicationFailsStep, CommitFailsStep, UndoCarrierStep, RestoreLiveStep DEF Transact
<1>2. CASE UNCHANGED vvars
  BY <1>2 DEF vvars, disk, VInv, VType, Histories, Committed, Unformatted, Started, Finishing, Settled,
     At, Projection, Transition
<1>3. QED
  BY <1>1, <1>2, ActivateStep, ActivationFailsStep, LegacyWriteStep, CrashStep, RotStep DEF VNext

\* The inductive invariant of the transaction protocol of the first format.
THEOREM V1Inductive == VSpec => []VInv
  BY VInitInv, VStep, PTL DEF VSpec

\* A transaction that was reported committed is in exactly one generation, and
\* every generation's history is the list of the transactions up to it: nothing
\* that begin, cleanup_incomplete_generation or a second
\* finish_commit_publication does commits a transaction twice or loses it.
THEOREM V1CommittedOnce == VSpec => []CommittedOnce
<1>1. ASSUME VInv PROVE CommittedOnce
  <2>1. ASSUME NEW tx \in acked PROVE Cardinality({g \in 1 .. Len(pub) : pub[g].tx = tx}) = 1
    <3>1. PICK g \in 1 .. Len(pub) : pub[g].tx = tx
      BY <1>1, <2>1 DEF VInv, Histories
    <3>2. {h \in 1 .. Len(pub) : pub[h].tx = tx} = {g}
      BY <1>1, <3>1 DEF VInv, Histories
    <3>3. QED
      BY <3>2, FS_Singleton
  <2>2. \A g \in 1 .. Len(pub) : pub[g].fixture.history = [i \in 1 .. g |-> pub[i].tx]
    BY <1>1 DEF VInv, Histories, Committed
  <2>3. QED
    BY <2>1, <2>2 DEF CommittedOnce
<1>2. QED
  BY <1>1, V1Inductive, PTL

\* Until the format is published the baseline is the fixture; after it, with
\* at most one fault, the live files are those of the last generation whenever
\* no call is under way that moved them: a commit that fails once and whose
\* publication is tried again leaves the old fixture or the new one.
THEOREM V1OldOrNew == VSpec => []CommitLeavesOldOrNew
<1>1. VInv => CommitLeavesOldOrNew
  BY Unmoved DEF VInv, Unformatted, CommitLeavesOldOrNew
<1>2. QED
  BY <1>1, V1Inductive, PTL
-----------------------------------------------------------------------------
(* Between calls the base can be recovered.  While nothing failed and no    *)
(* file was damaged, the control directory is one that an interrupted       *)
(* activation or a finished one leaves, every generation is whole, and the  *)
(* one under way has the files its writer has got to.                      *)

BaseFiles == {"components", "fixture", "history", "state", "manifest"}
GenFiles == {"components", "fixture", "state", "history", "prepare", "commit"}
ControlFiles == {"dir", "baseline", "format.v1", "generations", "migration"}
InterruptedFiles ==
    {"dir", "migration.tmp", "migration", "baseline.tmp", "cleanup", "baseline", "generations",
     "format.tmp"}

\* What copying the baseline has got to.
CopiedSets ==
    {{}, {"components"}, {"components", "fixture"}, {"components", "fixture", "history"},
     {"components", "fixture", "history", "state"}, BaseFiles}

\* Only the file being written can be torn by a crash, and only a writer's own.
Dirty ==
    /\ dirty \in {"", "lock", "migration", "format.v1", "prepare", "commit"}
    /\ dirty = "migration" => At("preflight sync")
    /\ dirty = "format.v1" => At("format sync")
    /\ dirty = "prepare" => At("prepare") /\ "prepare.tmp" \in inc.files
    /\ dirty = "commit" => At("finish") /\ inc # None /\ "commit.tmp" \in inc.files
    /\ bad \subseteq {"migration", "format.v1", "prepare", "commit"}
    /\ base \subseteq BaseFiles

\* An activation that was interrupted, or is under way.
Interrupted ==
    "format.v1" \notin ctl =>
        /\ inc = None /\ pub = <<>>
        /\ ctl \subseteq InterruptedFiles
        /\ ~({"baseline.tmp", "baseline"} \subseteq ctl)
        /\ ~({"baseline.tmp", "cleanup"} \subseteq ctl)
        /\ ~({"baseline", "cleanup"} \subseteq ctl)
        /\ ~({"migration.tmp", "migration"} \subseteq ctl)
        /\ "migration" \in ctl => "baseline" \in ctl
        /\ "baseline.tmp" \in ctl => base \in CopiedSets
        /\ "baseline" \in ctl => base = BaseFiles
        /\ p.pc \in {"preflight", "preflight sync", "staging"} => "baseline" \notin ctl
        /\ At("copy") => "baseline.tmp" \in ctl
        /\ At("migration") => "baseline" \in ctl

Formatted ==
    "format.v1" \in ctl =>
        /\ ctl = ControlFiles /\ base = BaseFiles
        /\ bad \cap {"format.v1", "migration"} = {} /\ report = copied

\* Every generation is whole, and there is room for the one under way.
Generations ==
    /\ \A g \in 1 .. Len(pub) :
          /\ pub[g].files = GenFiles /\ pub[g].gen = g /\ ~pub[g].rotten
          /\ Transition(Projection(g - 1), pub[g].fixture, pub[g].tx)
    /\ Len(pub) <= MaxGenerations
    /\ inc # None \/ At("create") => Len(pub) < MaxGenerations

\* The files of the generation under way, by where its writer is.
Preparing ==
    /\ inc.files \subseteq {"components", "prepare.tmp"}
    /\ "prepare.tmp" \in inc.files => "components" \in inc.files /\ "prepare" \notin bad
StagingFiles ==
    /\ {"components", "prepare"} \subseteq inc.files
    /\ inc.files \subseteq GenFiles \ {"commit"}
    /\ "state" \in inc.files => "fixture" \in inc.files
    /\ "history" \in inc.files => "state" \in inc.files
Committing ==
    /\ GenFiles \ {"commit"} \subseteq inc.files
    /\ inc.files \subseteq GenFiles \cup {"commit.tmp"}
    /\ "commit" \in inc.files <=> "commit.tmp" \notin inc.files
    /\ "commit" \notin bad
    /\ inc.at = "publication" => "commit" \in inc.files

Pending ==
    inc # None =>
        /\ inc.gen = Len(pub) + 1 /\ \A g \in 1 .. Len(pub) : pub[g].tx # inc.tx
        /\ "stray" \notin inc.files
        /\ inc.at # "cleanup" => validate_pending_generation_layout(inc)
        /\ At("prepare") => inc.at = "pending" /\ Preparing
        /\ At("stage") => inc.at = "pending" /\ StagingFiles
        /\ At("finish") => inc.at # "cleanup" /\ Committing

Whole == Dirty /\ Interrupted /\ Formatted /\ Generations /\ Pending
WholeUnlessFault == faults = 0 => Whole
LEMMA WholeInit == VInit => Whole
<1> SUFFICES ASSUME VInit PROVE Whole
  OBVIOUS
<1>1. inc = None /\ ctl = {} /\ base = {} /\ bad = {} /\ dirty = "" /\ p.pc = "idle"
  BY DEF VInit, Idle
<1>2. Dirty /\ Formatted /\ Pending
  BY <1>1 DEF Dirty, Formatted, Pending
<1>3. Interrupted
  BY <1>1 DEF VInit, Interrupted, At
<1>4. Generations
  <2>0. Len(pub) = 0
    BY EmptySeq DEF VInit
  <2>1. \A g \in 1 .. Len(pub) : FALSE
    BY <2>0
  <2>2. Len(pub) <= MaxGenerations
    BY <2>0, LimitAssumption
  <2>3. inc = None /\ p.pc # "create"
    BY <1>1
  <2>4. QED
    BY <2>1, <2>2, <2>3 DEF Generations, At
<1>5. QED
  BY <1>2, <1>3, <1>4 DEF Whole

\* Where nothing is being written, nothing can be torn.
LEMMA NothingDirty ==
  ASSUME VInv, Whole, p.pc \notin {"preflight sync", "format sync", "prepare"},
         p.pc = "finish" => inc = None
  PROVE  dirty \in {"", "lock"}
  BY DEF Whole, Dirty, At

\* A step that changes no file of the control directory.
LEMMA QuietWhole ==
  ASSUME VInv, Whole, UNCHANGED <<ctl, base, copied, report, inc, pub>>, dirty' \in {"", "lock"},
         bad' \subseteq bad \cup {dirty},
         dirty \in {"", "lock"} => bad' = bad,
         p'.pc \notin {"prepare", "stage", "finish"},
         p'.pc = "create" => Len(pub) < MaxGenerations,
         p'.pc \in {"preflight", "preflight sync", "staging"} => p.pc = p'.pc \/ p.pc = "preflight sync",
         p'.pc = "copy" => p.pc = "copy",
         p'.pc = "migration" => p.pc = "migration" \/ "baseline" \in ctl
  PROVE  Whole'
<1>1. Dirty'
  BY DEF Whole, Dirty
<1>2. Interrupted'
  BY DEF Whole, Interrupted, At
<1>3. Formatted'
  <2>1. CASE bad' = bad
    BY <2>1 DEF Whole, Formatted
  <2>2. CASE dirty \in {"prepare", "commit"}
    BY <2>2 DEF Whole, Formatted
  <2>3. CASE dirty \in {"migration", "format.v1"}
    BY <2>3 DEF Whole, Dirty, At, VInv, Unformatted, Formatted, Activating
  <2>4. QED
    BY <2>1, <2>2, <2>3 DEF Whole, Dirty
<1>4. Generations'
  BY DEF Whole, Generations, Projection, At
<1>5. Pending'
  <2>1. ASSUME inc # None, inc.at # "cleanup" PROVE validate_pending_generation_layout(inc)'
    <3>1. CASE bad' = bad
      BY <2>1, <3>1 DEF Whole, Pending, validate_pending_generation_layout, decode_record,
         validate_uncommitted_component_tree
    <3>2. CASE dirty = "prepare"
      <4>1. "prepare" \notin inc.files /\ "commit" \notin inc.files
        BY <2>1, <3>2 DEF Whole, Dirty, Pending, Preparing
      <4>2. QED
        BY <2>1, <3>2, <4>1 DEF Whole, Pending, validate_pending_generation_layout, decode_record,
           validate_uncommitted_component_tree
    <3>3. CASE dirty = "commit"
      <4>1. "commit" \notin inc.files
        BY <2>1, <3>3 DEF Whole, Dirty, Pending, Committing
      <4>2. QED
        BY <2>1, <3>3, <4>1 DEF Whole, Pending, validate_pending_generation_layout, decode_record,
           validate_uncommitted_component_tree
    <3>4. CASE dirty \in {"migration", "format.v1"}
      BY <2>1, <3>4 DEF Whole, Pending, validate_pending_generation_layout, decode_record,
         validate_uncommitted_component_tree
    <3>5. QED
      BY <3>1, <3>2, <3>3, <3>4 DEF Whole, Dirty
  <2>2. QED
    BY <2>1 DEF Whole, Pending, At
<1>6. QED
  BY <1>1, <1>2, <1>3, <1>4, <1>5 DEF Whole

LEMMA CrashWhole == ASSUME VInv, Whole, Crash PROVE Whole'
<1>1. /\ UNCHANGED <<ctl, base, copied, report, inc, pub>> /\ dirty' = ""
      /\ bad' \subseteq bad \cup {dirty}
      /\ dirty \in {"", "lock"} => bad' = bad
  BY DEF Crash
<1>2. PICK pid \in Pid : p' = [pc |-> "idle", born |-> p.born + 1, pid |-> pid]
  BY DEF Crash
<1>3. QED
  BY <1>1, <1>2, QuietWhole

\* What keeps the files alone: the lease, a resumed activation, the syncs,
\* the beginning of a call and its end.
LEMMA QuietActions ==
  ASSUME VInv, Whole, faults = 0,
         \/ AcquireLease \/ SyncLease \/ ReclaimLock \/ ReleaseLease \/ AlreadyMigrated \/ ResumeBaseline
         \/ SyncRecord("preflight sync", "staging") \/ SyncRecord("format sync", "format publish")
         \/ LegacyWrite \/ (\E tx \in Tx, intent \in Intent : Begin(tx, intent))
         \/ Abandon \/ CommitReturns
  PROVE  Whole'
<1> USE DEF Unseen, disk, At
<1>0. p \in Fresh \cup Owner
  BY DEF VInv, VType
<1>1. ASSUME NEW pc, Goto(pc) PROVE p'.pc = pc
  BY <1>0, <1>1 DEF Goto, Fresh, Owner
<1>2. CASE AcquireLease \/ SyncLease \/ ReleaseLease \/ AlreadyMigrated \/ ResumeBaseline
  <2>1. /\ UNCHANGED <<ctl, base, copied, report, inc, pub, bad>>
        /\ p.pc \in {"idle", "lease", "release", "activate"}
        /\ dirty' \in {dirty, "", "lock"}
        /\ \/ Goto("lease") \/ Goto("activate") \/ Goto("idle") \/ Goto("release")
           \/ Goto("migration") /\ "baseline" \in ctl
    BY <1>2 DEF AcquireLease, SyncLease, ReleaseLease, AlreadyMigrated, ResumeBaseline
  <2>2. p'.pc \in {"lease", "activate", "idle", "release", "migration"} /\ (p'.pc = "migration" => "baseline" \in ctl)
    BY <1>1, <2>1
  <2>3. dirty' \in {"", "lock"}
    BY <2>1, NothingDirty
  <2>4. QED
    BY <2>1, <2>2, <2>3, QuietWhole
<1>3. CASE ReclaimLock \/ LegacyWrite
  <2>1. UNCHANGED <<ctl, base, copied, report, inc, pub, bad, p, dirty>> /\ p.pc = "idle"
    BY <1>3 DEF ReclaimLock, LegacyWrite
  <2>2. QED
    BY <2>1, NothingDirty, QuietWhole
<1>4. CASE SyncRecord("preflight sync", "staging") \/ SyncRecord("format sync", "format publish")
  <2>1. /\ UNCHANGED <<ctl, base, copied, report, inc, pub, bad>> /\ dirty' = ""
        /\ \/ p.pc = "preflight sync" /\ Goto("staging")
           \/ p.pc = "format sync" /\ Goto("format publish")
    BY <1>4 DEF SyncRecord
  <2>2. (p'.pc = "staging" /\ p.pc = "preflight sync") \/ p'.pc = "format publish"
    BY <1>1, <2>1
  <2>3. QED
    BY <2>1, <2>2, QuietWhole
<1>5. ASSUME NEW tx \in Tx, NEW intent \in Intent, Begin(tx, intent) PROVE Whole'
  <2>1. UNCHANGED <<ctl, base, copied, report, inc, pub, bad, dirty>> /\ p.pc = "idle"
    BY <1>5 DEF Begin
  <2>2. p'.pc \in {"idle", "create", "cleanup"} /\ (p'.pc = "create" => Len(pub) < MaxGenerations)
    <3>1. CASE UNCHANGED p
      BY <2>1, <3>1
    <3>2. CASE /\ p' = [pc |-> IF inc = None THEN "create" ELSE "cleanup", born |-> p.born,
                        pid |-> p.pid, tx |-> tx, intent |-> intent, pre |-> live, retry |-> FALSE]
               /\ Len(pub) < MaxGenerations
      BY <3>2
    <3>3. QED
      BY <1>5, <3>1, <3>2 DEF Begin
  <2>3. QED
    BY <2>1, <2>2, NothingDirty, QuietWhole
<1>6. CASE Abandon \/ CommitReturns
  <2>1. /\ UNCHANGED <<ctl, base, copied, report, inc, pub, bad, dirty>> /\ Goto("idle")
        /\ p.pc = "stage" \/ (p.pc = "finish" /\ inc = None)
    BY <1>6 DEF Abandon, CommitReturns
  <2>2. p'.pc = "idle"
    BY <1>1, <2>1
  <2>3. QED
    BY <2>1, <2>2, NothingDirty, QuietWhole
<1>7. QED
  BY <1>2, <1>3, <1>4, <1>5, <1>6
\* The manifest is the fifth entry, and the first four are those before it.
LEMMA CopyProgress ==
  ASSUME NEW S \in CopiedSets
  PROVE  /\ Cardinality(S) = 5 => S = BaseFiles
         /\ 5 > Cardinality(S) => S \cup {CopyOrder[Cardinality(S) + 1]} \in CopiedSets
<1> DEFINE A == {"components"}
           B == A \cup {"fixture"}
           C == B \cup {"history"}
           D == C \cup {"state"}
           E == D \cup {"manifest"}
<1>1. IsFiniteSet({}) /\ Cardinality({}) = 0
  BY FS_EmptySet
<1>2. IsFiniteSet(A) /\ Cardinality(A) = 1
  BY FS_Singleton
<1>3. IsFiniteSet(B) /\ Cardinality(B) = 2
  BY <1>2, FS_AddElement
<1>4. IsFiniteSet(C) /\ Cardinality(C) = 3
  <2>1. "history" \notin B
    OBVIOUS
  <2> HIDE DEF B
  <2>2. QED
    BY <1>3, <2>1, FS_AddElement
<1>5. IsFiniteSet(D) /\ Cardinality(D) = 4
  <2>1. "state" \notin C
    OBVIOUS
  <2> HIDE DEF C
  <2>2. QED
    BY <1>4, <2>1, FS_AddElement
<1>6. IsFiniteSet(E) /\ Cardinality(E) = 5
  <2>1. "manifest" \notin D
    OBVIOUS
  <2> HIDE DEF D
  <2>2. QED
    BY <1>5, <2>1, FS_AddElement
<1>7. S \in {{}, A, B, C, D, E} /\ E = BaseFiles /\ CopiedSets = {{}, A, B, C, D, E}
  BY DEF CopiedSets, BaseFiles
<1>8. /\ CopyOrder[1] = "components" /\ CopyOrder[2] = "fixture" /\ CopyOrder[3] = "history"
      /\ CopyOrder[4] = "state" /\ CopyOrder[5] = "manifest"
  BY DEF CopyOrder
<1>9. ASSUME NEW n \in 0 .. 4, NEW f, Cardinality(S) = n, CopyOrder[n + 1] = f, S \cup {f} \in CopiedSets
      PROVE  /\ Cardinality(S) = 5 => S = BaseFiles
             /\ 5 > Cardinality(S) => S \cup {CopyOrder[Cardinality(S) + 1]} \in CopiedSets
  <2>1. Cardinality(S) # 5
    BY <1>9
  <2>2. CopyOrder[Cardinality(S) + 1] = f
    BY <1>9
  <2>3. QED
    BY <1>9, <2>1, <2>2
<1>10. CASE S = {}
  <2>1. Cardinality(S) = 0 /\ CopyOrder[0 + 1] = "components" /\ S \cup {"components"} = A
    BY <1>1, <1>8, <1>10
  <2>2. QED
    BY <1>7, <1>9, <2>1
<1>11. CASE S = A
  <2>1. Cardinality(S) = 1 /\ CopyOrder[1 + 1] = "fixture" /\ S \cup {"fixture"} = B
    BY <1>2, <1>8, <1>11
  <2>2. QED
    BY <1>7, <1>9, <2>1
<1>12. CASE S = B
  <2>1. Cardinality(S) = 2 /\ CopyOrder[2 + 1] = "history" /\ S \cup {"history"} = C
    BY <1>3, <1>8, <1>12
  <2>2. QED
    BY <1>7, <1>9, <2>1
<1>13. CASE S = C
  <2>1. Cardinality(S) = 3 /\ CopyOrder[3 + 1] = "state" /\ S \cup {"state"} = D
    BY <1>4, <1>8, <1>13
  <2>2. QED
    BY <1>7, <1>9, <2>1
<1>14. CASE S = D
  <2>1. Cardinality(S) = 4 /\ CopyOrder[4 + 1] = "manifest" /\ S \cup {"manifest"} = E
    BY <1>5, <1>8, <1>14
  <2>2. QED
    BY <1>7, <1>9, <2>1
<1>15. CASE S = E
  <2>1. Cardinality(S) = 5 /\ S = BaseFiles
    BY <1>6, <1>7, <1>15
  <2>2. QED
    BY <2>1
<1>16. QED
  BY <1>7, <1>10, <1>11, <1>12, <1>13, <1>14, <1>15

LEMMA ActivatingPhases ==
  /\ Activating \cap {"idle", "lease", "release", "prepare", "stage", "finish", "create"} = {}
  /\ {"activate", "preflight", "preflight sync", "staging", "copy", "migration", "generations",
      "format", "format sync", "format publish"} = Activating
  BY DEF Activating

\* An activation step that has not published the format.
LEMMA LayoutWhole ==
  ASSUME VInv, Whole, "format.v1" \notin ctl, "format.v1" \notin ctl', UNCHANGED <<inc, pub>>,
         p'.pc \in Activating, Dirty', Interrupted'
  PROVE  Whole'
<1>1. inc = None /\ pub = <<>>
  BY DEF Whole, Interrupted
<1>2. Formatted' /\ Pending'
  BY <1>1 DEF Formatted, Pending
<1>3. Generations'
  <2>1. \A g \in 1 .. Len(pub) : FALSE
    <3>1. Len(pub) = 0
      BY <1>1, EmptySeq
    <3>2. QED
      BY <3>1
  <2>2. Len(pub) <= MaxGenerations
    BY DEF Whole, Generations
  <2>3. p'.pc # "create"
    BY ActivatingPhases
  <2>4. QED
    BY <1>1, <2>1, <2>2, <2>3 DEF Generations, At
<1>4. QED
  BY <1>2, <1>3 DEF Whole

\* Nothing is written, and files only removed from the directory of the copy.
LEMMA LayoutDirty ==
  ASSUME VInv, Whole, p.pc \in Activating \ {"preflight sync", "format sync"},
         UNCHANGED <<bad, dirty>>, base' \subseteq BaseFiles
  PROVE  Dirty'
<1>1. dirty \in {"", "lock"}
  BY NothingDirty, ActivatingPhases
<1>2. QED
  BY <1>1 DEF Whole, Dirty

LEMMA LayoutActions ==
  ASSUME VInv, Whole, faults = 0,
         \/ ResumeCleanup \/ ScanSource \/ MigrationPreflight \/ StageBaseline \/ CopyNext
         \/ PublishBaseline \/ PublishMigration \/ EnsureGenerations \/ WriteFormat
  PROVE  Whole'
<1> USE DEF Unseen
<1>0. p \in Fresh \cup Owner
  BY DEF VInv, VType
<1>1. ASSUME NEW pc, Goto(pc) PROVE p'.pc = pc
  BY <1>0, <1>1 DEF Goto, Fresh, Owner
<1>2. p.pc \in Activating /\ "format.v1" \notin ctl /\ UNCHANGED <<inc, pub>>
  <2>1. CASE ResumeCleanup \/ ScanSource
    BY <2>1 DEF ResumeCleanup, ScanSource, Control, At, Activating
  <2>2. CASE ~(ResumeCleanup \/ ScanSource)
    <3>1. p.pc \in Activating \ {"activate"} /\ UNCHANGED <<inc, pub>>
      BY <2>2, ActivatingPhases DEF MigrationPreflight, StageBaseline, CopyNext, PublishBaseline,
         PublishMigration, EnsureGenerations, WriteFormat, Control, At
    <3>2. QED
      BY <3>1, ActivatingLayout
  <2>3. QED
    BY <2>1, <2>2
<1>3. /\ inc = None /\ pub = <<>> /\ ctl \subseteq InterruptedFiles /\ base \subseteq BaseFiles
      /\ ~({"baseline.tmp", "baseline"} \subseteq ctl)
      /\ ~({"baseline.tmp", "cleanup"} \subseteq ctl)
      /\ ~({"baseline", "cleanup"} \subseteq ctl)
      /\ ~({"migration.tmp", "migration"} \subseteq ctl)
      /\ "migration" \in ctl => "baseline" \in ctl
      /\ "baseline.tmp" \in ctl => base \in CopiedSets
      /\ "baseline" \in ctl => base = BaseFiles
      /\ p.pc \in {"preflight", "preflight sync", "staging"} => "baseline" \notin ctl
      /\ p.pc = "copy" => "baseline.tmp" \in ctl
      /\ p.pc = "migration" => "baseline" \in ctl
  BY <1>2 DEF Whole, Dirty, Interrupted, At
<1>4. CASE ResumeCleanup
  <2>1. /\ p.pc = "activate" /\ UNCHANGED <<p, bad, dirty>> /\ "cleanup" \in ctl
        /\ base' \subseteq base /\ ctl' \in {ctl, ctl \ {"cleanup"}}
    BY <1>4 DEF ResumeCleanup, At, remove_tombstone_contents
  <2>2. Dirty'
    BY <1>2, <1>3, <2>1, LayoutDirty
  <2>3. Interrupted'
    <3>1. ctl' \subseteq ctl /\ {"baseline.tmp", "baseline", "migration"} \cap ctl = {}
      BY <1>3, <2>1
    <3>2. QED
      BY <1>2, <1>3, <2>1, <3>1 DEF Interrupted, At
  <2>4. QED
    BY <1>2, <2>1, <2>2, <2>3, LayoutWhole
<1>5. CASE ScanSource
  <2>1. /\ p.pc = "activate" /\ UNCHANGED <<base, bad, dirty>> /\ Goto("preflight")
        /\ "cleanup" \notin ctl /\ "baseline" \notin ctl /\ ctl' = ctl \cup {"dir"}
    BY <1>5 DEF ScanSource, Control, At
  <2>2. p'.pc = "preflight"
    BY <1>1, <2>1
  <2>3. Dirty'
    BY <1>2, <1>3, <2>1, LayoutDirty
  <2>4. Interrupted'
    BY <1>2, <1>3, <2>1, <2>2 DEF Interrupted, At, InterruptedFiles
  <2>5. QED
    BY <1>2, <2>1, <2>2, <2>3, <2>4, LayoutWhole, ActivatingPhases
<1>6. CASE MigrationPreflight
  <2>1. p.pc = "preflight" /\ UNCHANGED base
    BY <1>6 DEF MigrationPreflight, At
  <2>2. CASE UNCHANGED <<ctl, bad, dirty>> /\ Goto("staging")
    <3>1. p'.pc = "staging"
      BY <1>1, <2>2
    <3>2. Dirty'
      BY <1>2, <1>3, <2>1, <2>2, LayoutDirty
    <3>3. Interrupted'
      BY <1>2, <1>3, <2>1, <2>2, <3>1 DEF Interrupted, At, InterruptedFiles
    <3>4. QED
      BY <1>2, <2>2, <3>1, <3>2, <3>3, LayoutWhole, ActivatingPhases
  <2>3. CASE ctl' = ctl \cup {"migration.tmp"} /\ WriteNew("migration") /\ Goto("preflight sync")
    <3>1. p'.pc = "preflight sync"
      BY <1>1, <2>3
    <3>2. Dirty'
      BY <2>1, <2>3, <3>1 DEF Whole, Dirty, WriteNew, At
    <3>3. Interrupted'
      BY <1>2, <1>3, <2>1, <2>3, <3>1 DEF Interrupted, At, InterruptedFiles
    <3>4. QED
      BY <1>2, <2>3, <3>1, <3>2, <3>3, LayoutWhole, ActivatingPhases
  <2>4. QED
    BY <1>6, <2>2, <2>3 DEF MigrationPreflight
<1>7. CASE StageBaseline
  <2>1. p.pc = "staging" /\ UNCHANGED <<bad, dirty>>
    BY <1>7 DEF StageBaseline, At
  <2>2. CASE /\ ctl' = Rename(ctl, "baseline.tmp", "cleanup") /\ "baseline.tmp" \in ctl
             /\ UNCHANGED <<base, p>>
    <3>1. Dirty'
      BY <1>2, <1>3, <2>1, <2>2, LayoutDirty
    <3>2. Interrupted' /\ "format.v1" \notin ctl'
      BY <1>2, <1>3, <2>1, <2>2 DEF Interrupted, At, InterruptedFiles, Rename
    <3>3. QED
      BY <1>2, <2>2, <3>1, <3>2, LayoutWhole
  <2>3. CASE "cleanup" \in ctl /\ base' \subseteq base /\ ctl' \in {ctl, ctl \ {"cleanup"}} /\ UNCHANGED p
    <3>1. Dirty'
      BY <1>2, <1>3, <2>1, <2>3, LayoutDirty
    <3>2. Interrupted' /\ "format.v1" \notin ctl'
      BY <1>2, <1>3, <2>1, <2>3 DEF Interrupted, At, InterruptedFiles
    <3>3. QED
      BY <1>2, <2>3, <3>1, <3>2, LayoutWhole
  <2>4. CASE /\ ctl \cap {"baseline.tmp", "cleanup"} = {} /\ ctl' = ctl \cup {"baseline.tmp"}
             /\ base' = {} /\ Goto("copy")
    <3>1. p'.pc = "copy"
      BY <1>1, <2>4
    <3>2. Dirty'
      BY <1>2, <1>3, <2>1, <2>4, LayoutDirty
    <3>3. Interrupted' /\ "format.v1" \notin ctl'
      BY <1>2, <1>3, <2>1, <2>4, <3>1 DEF Interrupted, At, InterruptedFiles, CopiedSets
    <3>4. QED
      BY <1>2, <3>1, <3>2, <3>3, LayoutWhole, ActivatingPhases
  <2>5. QED
    BY <1>7, <2>2, <2>3, <2>4 DEF StageBaseline, remove_tombstone_contents
<1>8. CASE CopyNext
  <2>1. /\ p.pc = "copy" /\ UNCHANGED <<ctl, p, bad, dirty>> /\ 5 > Cardinality(base)
        /\ base' = base \cup {CopyOrder[Cardinality(base) + 1]}
    BY <1>8 DEF CopyNext, At, CopyOrder
  <2>2. base' \in CopiedSets
    BY <1>3, <2>1, CopyProgress
  <2>3. Dirty'
    <3>1. base' \subseteq BaseFiles
      BY <2>2 DEF CopiedSets, BaseFiles
    <3>2. QED
      BY <1>2, <2>1, <3>1, LayoutDirty
  <2>4. Interrupted'
    BY <1>2, <1>3, <2>1, <2>2 DEF Interrupted, At
  <2>5. QED
    BY <1>2, <2>1, <2>3, <2>4, LayoutWhole
<1>9. CASE PublishBaseline
  <2>1. /\ p.pc = "copy" /\ UNCHANGED <<base, bad, dirty>> /\ Cardinality(base) = 5
        /\ ctl' = Rename(ctl, "baseline.tmp", "baseline") /\ Goto("migration")
    BY <1>9 DEF PublishBaseline, Control, At, CopyOrder
  <2>2. p'.pc = "migration"
    BY <1>1, <2>1
  <2>3. base = BaseFiles
    BY <1>3, <2>1, CopyProgress
  <2>4. Dirty'
    BY <1>2, <1>3, <2>1, LayoutDirty
  <2>5. Interrupted' /\ "format.v1" \notin ctl'
    BY <1>2, <1>3, <2>1, <2>2, <2>3 DEF Interrupted, At, InterruptedFiles, Rename
  <2>6. QED
    BY <1>2, <2>2, <2>4, <2>5, LayoutWhole, ActivatingPhases
<1>10. CASE PublishMigration
  <2>1. /\ p.pc = "migration" /\ UNCHANGED <<base, bad, dirty>> /\ Goto("generations")
        /\ \/ ctl' = ctl
           \/ "migration" \notin ctl /\ ctl' = Rename(ctl, "migration.tmp", "migration")
    BY <1>10 DEF PublishMigration, Control, At
  <2>2. p'.pc = "generations"
    BY <1>1, <2>1
  <2>3. Dirty'
    BY <1>2, <1>3, <2>1, LayoutDirty
  <2>4. Interrupted' /\ "format.v1" \notin ctl'
    BY <1>2, <1>3, <2>1, <2>2 DEF Interrupted, At, InterruptedFiles, Rename
  <2>5. QED
    BY <1>2, <2>2, <2>3, <2>4, LayoutWhole, ActivatingPhases
<1>11. CASE EnsureGenerations
  <2>1. /\ p.pc = "generations" /\ UNCHANGED <<base, bad, dirty>> /\ Goto("format")
        /\ ctl' = ctl \cup {"generations"}
    BY <1>11 DEF EnsureGenerations, Control, At
  <2>2. p'.pc = "format"
    BY <1>1, <2>1
  <2>3. Dirty'
    BY <1>2, <1>3, <2>1, LayoutDirty
  <2>4. Interrupted' /\ "format.v1" \notin ctl'
    BY <1>2, <1>3, <2>1, <2>2 DEF Interrupted, At, InterruptedFiles
  <2>5. QED
    BY <1>2, <2>2, <2>3, <2>4, LayoutWhole, ActivatingPhases
<1>12. CASE WriteFormat
  <2>1. /\ p.pc = "format" /\ UNCHANGED base
        /\ \/ ctl' = ctl /\ Goto("format publish") /\ UNCHANGED <<bad, dirty>>
           \/ ctl' = ctl \cup {"format.tmp"} /\ Goto("format sync") /\ WriteNew("format.v1")
    BY <1>12 DEF WriteFormat, Control, At
  <2>2. \/ p'.pc = "format publish" /\ ctl' = ctl /\ UNCHANGED <<bad, dirty>>
        \/ p'.pc = "format sync" /\ ctl' = ctl \cup {"format.tmp"} /\ WriteNew("format.v1")
    BY <1>1, <2>1
  <2>3. Dirty'
    <3>1. CASE UNCHANGED <<bad, dirty>>
      BY <1>2, <1>3, <2>1, <3>1, LayoutDirty
    <3>2. CASE p'.pc = "format sync" /\ WriteNew("format.v1")
      BY <2>1, <3>2 DEF Whole, Dirty, WriteNew, At
    <3>3. QED
      BY <2>2, <3>1, <3>2
  <2>4. Interrupted' /\ "format.v1" \notin ctl'
    BY <1>2, <1>3, <2>1, <2>2 DEF Interrupted, At, InterruptedFiles
  <2>5. QED
    BY <1>2, <2>2, <2>3, <2>4, LayoutWhole, ActivatingPhases
<1>13. QED
  BY <1>4, <1>5, <1>6, <1>7, <1>8, <1>9, <1>10, <1>11, <1>12

\* The format is published over a complete and checked layout.
LEMMA PublishFormatWhole == ASSUME VInv, Whole, PublishFormat PROVE Whole'
<1> USE DEF Unseen
<1>1. /\ p.pc = "format publish" /\ Goto("release") /\ UNCHANGED <<base, copied, report, inc, pub, bad, dirty>>
      /\ ctl = {"dir", "baseline", "generations", "migration"} \cup {"format.tmp"}
      /\ ctl' = (ctl \ {"format.tmp"}) \cup {"format.v1"} /\ inc = None /\ pub = <<>>
      /\ "format.v1" \notin bad /\ "migration" \notin bad /\ report = copied
      /\ base = {"components", "fixture", "state", "history", "manifest"}
  BY DEF PublishFormat, Control, At, Rename, validate_ready_for_format_publication, validate_baseline,
     validate_migration_record, decode_record
<1>2. p'.pc = "release"
  BY <1>1, GotoFacts DEF VInv, VType, Pcs
<1>3. ctl' = ControlFiles /\ base = BaseFiles
  BY <1>1 DEF ControlFiles, BaseFiles
<1>4. dirty \in {"", "lock"}
  BY <1>1, NothingDirty
<1>5. Dirty'
  BY <1>1, <1>4 DEF Whole, Dirty
<1>a. Formatted' /\ Interrupted' /\ Pending'
  BY <1>1, <1>3 DEF Formatted, Interrupted, Pending, ControlFiles
<1>6. Generations'
  <2>1. \A g \in 1 .. Len(pub) : FALSE
    <3>1. Len(pub) = 0
      BY <1>1, EmptySeq
    <3>2. QED
      BY <3>1
  <2>2. Len(pub) <= MaxGenerations
    BY DEF Whole, Generations
  <2>3. QED
    BY <1>1, <1>2, <2>1, <2>2 DEF Generations, At
<1>7. QED
  BY <1>5, <1>a, <1>6 DEF Whole
\* A transaction at work on its own directory.
LEMMA TransactingWhole ==
  ASSUME VInv, Whole, p.pc \in Transacting, p'.pc \in Transacting, inc # None \/ p.pc = "create",
         UNCHANGED <<ctl, base, copied, report, pub>>, bad' \subseteq bad, Dirty', Pending'
  PROVE  Whole'
<1>1. "format.v1" \in ctl
  BY StagingPhases DEF VInv, Unformatted
<1>2. Interrupted' /\ Formatted'
  BY <1>1 DEF Whole, Interrupted, Formatted
<1>3. Generations'
  BY DEF Whole, Generations, Projection, At
<1>4. QED
  BY <1>2, <1>3 DEF Whole

\* The layout check of the pending and the publication directory, spelled out.
PendingLayout(files, damaged) ==
    /\ "stray" \notin files
    /\ files \cap {"state", "history"} # {} => "fixture" \in files
    /\ "fixture" \in files => "components" \in files
    /\ "prepare" \in files => "components" \in files /\ "prepare.tmp" \notin files
    /\ files \cap {"commit", "commit.tmp"} # {} => "prepare" \in files
    /\ {"commit", "commit.tmp"} \cap files # {"commit", "commit.tmp"}
    /\ "prepare" \in files => "prepare" \notin damaged
    /\ "commit" \in files => {"state", "history"} \subseteq files /\ "commit" \notin damaged

LEMMA PendingLayoutIs ==
  ASSUME NEW d PROVE PendingLayout(d.files, bad) <=> validate_pending_generation_layout(d)
  BY DEF PendingLayout, validate_pending_generation_layout, validate_uncommitted_component_tree, decode_record

\* The generation under way with other files under the same name.
LEMMA PendingFiles ==
  ASSUME VInv, Whole, inc \in Incomplete, inc'.gen = inc.gen, inc'.tx = inc.tx, UNCHANGED pub,
         PendingLayout(inc'.files, bad'),
         p'.pc = "prepare" => inc'.at = "pending" /\ Preparing',
         p'.pc = "stage" => inc'.at = "pending" /\ StagingFiles',
         p'.pc = "finish" => inc'.at # "cleanup" /\ Committing'
  PROVE  Pending'
<1>1. inc # None
  BY DEF Incomplete, None
<1>2. "stray" \notin inc'.files
  BY DEF PendingLayout
<1>3. validate_pending_generation_layout(inc)'
  BY DEF PendingLayout, validate_pending_generation_layout, validate_uncommitted_component_tree, decode_record
<1>4. QED
  BY <1>1, <1>2, <1>3 DEF Whole, Pending, At

LEMMA CleanupWhole == ASSUME VInv, Whole, Cleanup PROVE Whole'
<1>1. /\ p.pc = "cleanup" /\ RemoveStep("create") /\ UNCHANGED <<ctl, base, copied, report, pub, dirty>>
  BY DEF Cleanup, At, Unseen
<1>2. inc \in Incomplete /\ p \in Owner
  BY <1>1, StagingPhases DEF VInv, VType, Started
<1>3. inc # None /\ dirty \in {"", "lock"}
  <2>1. inc # None
    BY <1>2 DEF Incomplete, None
  <2>2. dirty \in {"", "lock"}
    BY <1>1, NothingDirty
  <2>3. QED
    BY <2>1, <2>2
<1>4. CASE inc' = [inc EXCEPT !.at = "cleanup"] /\ UNCHANGED <<p, bad>>
  <2>1. inc'.gen = inc.gen /\ inc'.tx = inc.tx /\ inc'.files = inc.files /\ inc'.at = "cleanup"
    BY <1>2, <1>4 DEF Incomplete
  <2>2. Pending'
    BY <1>1, <1>3, <1>4, <2>1 DEF Whole, Pending, At
  <2>3. Dirty'
    BY <1>1, <1>3, <1>4 DEF Whole, Dirty
  <2>4. QED
    BY <1>1, <1>3, <1>4, <2>2, <2>3, StagingPhases, TransactingWhole
<1>5. CASE inc' = None /\ bad' = bad \ {"prepare", "commit"} /\ Goto("create")
  <2>1. p'.pc = "create"
    BY <1>2, <1>5 DEF Goto, Owner
  <2>2. Pending' /\ Dirty'
    BY <1>1, <1>3, <1>5 DEF Whole, Pending, Dirty
  <2>3. QED
    BY <1>1, <1>3, <1>5, <2>1, <2>2, StagingPhases, TransactingWhole
<1>6. CASE /\ inc' = [inc EXCEPT !.files = remove_tombstone_contents(inc.files)] /\ inc.at = "cleanup"
           /\ UNCHANGED <<p, bad>>
  <2>1. remove_tombstone_contents(inc.files) \subseteq inc.files
    BY DEF remove_tombstone_contents
  <2>2. inc'.gen = inc.gen /\ inc'.tx = inc.tx /\ inc'.files \subseteq inc.files /\ inc'.at = "cleanup"
    BY <1>2, <1>6, <2>1 DEF Incomplete
  <2>3. Pending'
    BY <1>1, <1>3, <1>6, <2>2 DEF Whole, Pending, At
  <2>4. Dirty'
    BY <1>1, <1>3, <1>6 DEF Whole, Dirty
  <2>5. QED
    BY <1>1, <1>3, <1>6, <2>3, <2>4, StagingPhases, TransactingWhole
<1>7. QED
  BY <1>1, <1>4, <1>5, <1>6 DEF RemoveStep

LEMMA CreatePendingWhole == ASSUME VInv, Whole, CreatePending PROVE Whole'
<1>1. /\ p.pc = "create" /\ Goto("prepare")
      /\ inc' = [at |-> "pending", gen |-> Len(pub) + 1, tx |-> p.tx, intent |-> p.intent,
                 files |-> {}, fixture |-> p.pre]
      /\ UNCHANGED <<ctl, base, copied, report, pub, bad, dirty>>
  BY DEF CreatePending, OnlyInc, Unseen, At
<1>2. p \in Owner /\ \A g \in 1 .. Len(pub) : pub[g].tx # p.tx
  BY <1>1, StagingPhases DEF VInv, VType, Started
<1>3. p'.pc = "prepare" /\ dirty \in {"", "lock"}
  BY <1>1, <1>2, NothingDirty DEF Goto, Owner
<1>4. inc'.files = {} /\ inc'.at = "pending" /\ inc'.gen = Len(pub) + 1 /\ inc'.tx = p.tx
  BY <1>1
<1>5. Pending'
  <2>1. validate_pending_generation_layout(inc)' /\ Preparing'
    BY <1>4 DEF validate_pending_generation_layout, validate_uncommitted_component_tree, Preparing
  <2>2. QED
    BY <1>1, <1>2, <1>3, <1>4, <2>1 DEF Pending, At
<1>6. Dirty'
  BY <1>1, <1>3 DEF Whole, Dirty
<1>7. QED
  BY <1>1, <1>3, <1>5, <1>6, StagingPhases, TransactingWhole

LEMMA PrepareWhole == ASSUME VInv, Whole, Prepare PROVE Whole'
<1>1. p.pc = "prepare" /\ UNCHANGED <<ctl, base, copied, report, pub>>
  BY DEF Prepare, OnlyInc, Unseen, At
<1>2. inc \in Incomplete /\ inc # None /\ p \in Owner
  BY <1>1, StagingPhases DEF VInv, VType, Started
<1>3. inc.at = "pending" /\ Preparing /\ PendingLayout(inc.files, bad)
  BY <1>1, <1>2, PendingLayoutIs DEF Whole, Pending, At
<1>4. CASE inc' = AddFile("components") /\ UNCHANGED <<bad, dirty, p>>
  <2>1. inc'.gen = inc.gen /\ inc'.tx = inc.tx /\ inc'.at = "pending" /\ inc'.files = inc.files \cup {"components"}
    BY <1>2, <1>3, <1>4 DEF AddFile, Incomplete
  <2>2. Preparing' /\ PendingLayout(inc'.files, bad')
    BY <1>3, <1>4, <2>1 DEF Preparing, PendingLayout
  <2>3. Pending'
    BY <1>1, <1>2, <1>4, <2>1, <2>2, PendingFiles
  <2>4. Dirty'
    BY <1>1, <1>2, <1>4, <2>1 DEF Whole, Dirty, At
  <2>5. QED
    BY <1>1, <1>2, <1>4, <2>3, <2>4, StagingPhases, TransactingWhole
<1>5. CASE /\ "components" \in inc.files /\ inc' = AddFile("prepare.tmp") /\ WriteNew("prepare")
           /\ UNCHANGED p
  <2>1. inc'.gen = inc.gen /\ inc'.tx = inc.tx /\ inc'.at = "pending" /\ inc'.files = inc.files \cup {"prepare.tmp"}
    BY <1>2, <1>3, <1>5 DEF AddFile, Incomplete
  <2>2. Preparing' /\ PendingLayout(inc'.files, bad')
    BY <1>3, <1>5, <2>1 DEF Preparing, PendingLayout, WriteNew
  <2>3. Pending'
    BY <1>1, <1>2, <1>5, <2>1, <2>2, PendingFiles
  <2>4. Dirty' /\ bad' \subseteq bad
    BY <1>1, <1>5, <2>1 DEF Whole, Dirty, At, WriteNew
  <2>5. QED
    BY <1>1, <1>2, <1>5, <2>3, <2>4, StagingPhases, TransactingWhole
<1>6. CASE /\ "prepare.tmp" \in inc.files /\ inc' = [inc EXCEPT !.files = Rename(inc.files, "prepare.tmp", "prepare")]
           /\ dirty' = "" /\ Goto("stage") /\ UNCHANGED bad
  <2>1. /\ inc'.gen = inc.gen /\ inc'.tx = inc.tx /\ inc'.at = "pending"
        /\ inc'.files = (inc.files \ {"prepare.tmp"}) \cup {"prepare"}
    BY <1>2, <1>3, <1>6 DEF Rename, Incomplete
  <2>2. p'.pc = "stage"
    BY <1>2, <1>6 DEF Goto, Owner
  <2>3. StagingFiles' /\ PendingLayout(inc'.files, bad')
    BY <1>3, <1>6, <2>1 DEF Preparing, StagingFiles, PendingLayout, GenFiles
  <2>4. Pending'
    BY <1>1, <1>2, <2>1, <2>2, <2>3, PendingFiles
  <2>5. Dirty'
    BY <1>1, <1>6 DEF Whole, Dirty
  <2>6. QED
    BY <1>1, <1>2, <1>6, <2>2, <2>4, <2>5, StagingPhases, TransactingWhole
<1>7. QED
  BY <1>4, <1>5, <1>6 DEF Prepare, OnlyInc

LEMMA StageWhole == ASSUME VInv, Whole, NEW step \in {0, 1}, stage_component(step) PROVE Whole'
<1>1. p.pc = "stage" /\ UNCHANGED <<ctl, base, copied, report, pub, bad, dirty, p>>
  BY DEF stage_component, OnlyInc, Unseen, At
<1>2. inc \in Incomplete /\ inc # None
  BY <1>1, StagingPhases DEF VInv, VType, Started
<1>3. inc.at = "pending" /\ StagingFiles /\ PendingLayout(inc.files, bad) /\ dirty \in {"", "lock"}
  BY <1>1, <1>2, PendingLayoutIs, NothingDirty DEF Whole, Pending, At
<1>4. PICK f \in {"fixture", "state", "history"} :
         /\ inc'.gen = inc.gen /\ inc'.tx = inc.tx /\ inc'.at = "pending" /\ inc'.files = inc.files \cup {f}
         /\ f = "state" => "fixture" \in inc.files
         /\ f = "history" => "state" \in inc.files
  <2>1. CASE inc' = AddFile("fixture")
    <3>1. inc'.gen = inc.gen /\ inc'.tx = inc.tx /\ inc'.at = "pending" /\ inc'.files = inc.files \cup {"fixture"}
      BY <1>2, <1>3, <2>1 DEF AddFile, Incomplete
    <3>2. QED
      BY <3>1
  <2>2. CASE "fixture" \in inc.files /\ inc' = [AddFile("state") EXCEPT !.fixture.counter = p.pre.counter + step]
    <3>1. inc'.gen = inc.gen /\ inc'.tx = inc.tx /\ inc'.at = "pending" /\ inc'.files = inc.files \cup {"state"}
      BY <1>2, <1>3, <2>2 DEF AddFile, Incomplete
    <3>2. QED
      BY <2>2, <3>1
  <2>3. CASE "state" \in inc.files /\ inc' = [AddFile("history") EXCEPT !.fixture.history = Append(p.pre.history, p.tx)]
    <3>1. inc'.gen = inc.gen /\ inc'.tx = inc.tx /\ inc'.at = "pending" /\ inc'.files = inc.files \cup {"history"}
      BY <1>2, <1>3, <2>3 DEF AddFile, Incomplete
    <3>2. QED
      BY <2>3, <3>1
  <2>4. QED
    BY <2>1, <2>2, <2>3 DEF stage_component, OnlyInc
<1>5. StagingFiles' /\ PendingLayout(inc'.files, bad')
  BY <1>1, <1>3, <1>4 DEF StagingFiles, PendingLayout, GenFiles
<1>6. Pending'
  BY <1>1, <1>2, <1>4, <1>5, PendingFiles
<1>7. Dirty'
  BY <1>1, <1>3 DEF Whole, Dirty
<1>8. QED
  BY <1>1, <1>2, <1>6, <1>7, StagingPhases, TransactingWhole

LEMMA MoveLiveWhole == ASSUME VInv, Whole, MoveLive PROVE Whole'
<1>1. p.pc = "stage" /\ UNCHANGED <<ctl, base, copied, report, inc, pub, bad, dirty, p>>
  BY DEF MoveLive, At
<1>2. inc # None
  BY <1>1, StagingPhases DEF VInv, Started
<1>3. Dirty'
  BY <1>1 DEF Whole, Dirty, At
<1>4. Pending'
  BY <1>1 DEF Whole, Pending, validate_pending_generation_layout, decode_record,
     validate_uncommitted_component_tree, Preparing, StagingFiles, Committing, At
<1>5. QED
  BY <1>1, <1>2, <1>3, <1>4, StagingPhases, TransactingWhole

LEMMA WriteCommitWhole == ASSUME VInv, Whole, WriteCommit PROVE Whole'
<1>1. /\ p.pc = "stage" /\ {"state", "history"} \subseteq inc.files /\ Goto("finish")
      /\ inc' = AddFile("commit.tmp") /\ WriteNew("commit")
      /\ UNCHANGED <<ctl, base, copied, report, pub>>
  BY DEF WriteCommit, Staged, At, OnlyInc, Unseen
<1>2. inc \in Incomplete /\ inc # None /\ p \in Owner
  BY <1>1, StagingPhases DEF VInv, VType, Started
<1>3. inc.at = "pending" /\ StagingFiles /\ PendingLayout(inc.files, bad)
  BY <1>1, <1>2, PendingLayoutIs DEF Whole, Pending, At
<1>4. inc'.gen = inc.gen /\ inc'.tx = inc.tx /\ inc'.at = "pending" /\ inc'.files = inc.files \cup {"commit.tmp"}
  BY <1>1, <1>2, <1>3 DEF AddFile, Incomplete
<1>5. p'.pc = "finish" /\ inc' # None
  BY <1>1, <1>2, <1>4 DEF Goto, Owner, AddFile, Incomplete, None
<1>6. Committing' /\ PendingLayout(inc'.files, bad')
  BY <1>1, <1>3, <1>4 DEF StagingFiles, Committing, PendingLayout, GenFiles, WriteNew
<1>7. Pending'
  BY <1>1, <1>2, <1>4, <1>5, <1>6, PendingFiles
<1>8. Dirty' /\ bad' \subseteq bad
  BY <1>1, <1>4, <1>5 DEF Whole, Dirty, At, WriteNew
<1>9. QED
  BY <1>1, <1>2, <1>5, <1>7, <1>8, StagingPhases, TransactingWhole

LEMMA CarrierWhole == ASSUME VInv, Whole, RenameCommit \/ BindCarrier PROVE Whole'
<1>1. p.pc = "finish" /\ inc # None /\ UNCHANGED <<ctl, base, copied, report, pub, bad, p>>
  BY DEF RenameCommit, BindCarrier, At, OnlyInc, Unseen
<1>2. inc \in Incomplete
  BY <1>1 DEF VInv, VType
<1>3. inc.at # "cleanup" /\ Committing /\ PendingLayout(inc.files, bad)
  BY <1>1, PendingLayoutIs DEF Whole, Pending, At
<1>4. CASE RenameCommit
  <2>1. /\ inc' = [inc EXCEPT !.files = Rename(inc.files, "commit.tmp", "commit")]
        /\ "commit.tmp" \in inc.files /\ dirty' = ""
    BY <1>4 DEF RenameCommit, OnlyInc, CanRename
  <2>2. /\ inc'.gen = inc.gen /\ inc'.tx = inc.tx /\ inc'.at = inc.at
        /\ inc'.files = (inc.files \ {"commit.tmp"}) \cup {"commit"}
    BY <1>2, <2>1 DEF Rename, Incomplete
  <2>3. Committing'
    BY <1>1, <1>3, <2>1, <2>2 DEF Committing, GenFiles
  <2>4. PendingLayout(inc'.files, bad')
    BY <1>1, <1>3, <2>1, <2>2, ZenonT(60) DEF Committing, PendingLayout, GenFiles
  <2>5. Pending'
    BY <1>1, <1>2, <1>3, <2>2, <2>3, <2>4, PendingFiles
  <2>6. Dirty'
    BY <1>1, <2>1 DEF Whole, Dirty
  <2>7. QED
    BY <1>1, <2>5, <2>6, StagingPhases, TransactingWhole
<1>5. CASE BindCarrier
  <2>1. inc' = [inc EXCEPT !.at = "publication"] /\ "commit" \in inc.files /\ UNCHANGED dirty
    BY <1>5 DEF BindCarrier, OnlyInc
  <2>2. inc'.gen = inc.gen /\ inc'.tx = inc.tx /\ inc'.at = "publication" /\ inc'.files = inc.files
    BY <1>2, <2>1 DEF Incomplete
  <2>3. Committing' /\ PendingLayout(inc'.files, bad')
    BY <1>1, <1>3, <2>1, <2>2 DEF Committing
  <2>4. Pending'
    BY <1>1, <1>2, <2>2, <2>3, PendingFiles
  <2>5. Dirty'
    <3>1. inc' # None
      BY <1>2, <2>1 DEF Incomplete, None
    <3>2. QED
      BY <1>1, <2>1, <2>2, <3>1 DEF Whole, Dirty, At
  <2>6. QED
    BY <1>1, <2>4, <2>5, StagingPhases, TransactingWhole
<1>6. QED
  BY <1>4, <1>5

\* The carrier that takes its number is a whole generation, one step on.
LEMMA PublishGenerationWhole == ASSUME VInv, Whole, PublishGeneration PROVE Whole'
<1> DEFINE g == [gen |-> inc.gen, tx |-> inc.tx, intent |-> inc.intent, files |-> inc.files,
                 fixture |-> inc.fixture, rotten |-> FALSE]
<1>0. PICK n \in Nat : n = Len(pub)
  BY DEF VInv, VType
<1>1. /\ p.pc = "finish" /\ inc # None /\ inc.at = "publication" /\ inc' = None /\ pub' = Append(pub, g)
      /\ UNCHANGED <<ctl, base, copied, report, bad, dirty, p>>
  BY DEF PublishGeneration, At, Unseen
<1>2. /\ inc \in Incomplete /\ inc.tx = p.tx /\ Transition(p.pre, inc.fixture, p.tx)
      /\ p.pre = Projection(n) /\ pub \in Seq(Generation)
  BY <1>0, <1>1 DEF VInv, VType, Finishing, Started, At
<1>3. inc.gen = n + 1 /\ Committing /\ n < MaxGenerations
  BY <1>0, <1>1 DEF Whole, Pending, Generations, At
<1>4. inc.files = GenFiles
  BY <1>1, <1>3 DEF Committing, GenFiles
<1>5. /\ g \in Generation /\ g.files = GenFiles /\ g.gen = n + 1 /\ ~g.rotten /\ g.tx = p.tx
      /\ Transition(Projection(n), g.fixture, g.tx)
  BY <1>2, <1>3, <1>4 DEF Incomplete, Generation
<1> HIDE DEF g
<1>6. /\ Len(pub') = n + 1 /\ \A h \in 1 .. n : pub'[h] = pub[h]
      /\ pub'[n + 1] = g
  BY <1>0, <1>1, <1>2, <1>5, AppendProperties
<1>7. \A h \in 0 .. n : Projection(h)' = Projection(h)
  BY <1>1, <1>6 DEF Projection
<1>8. Generations'
  <2>1. ASSUME NEW h \in 1 .. n
        PROVE  /\ pub'[h].files = GenFiles /\ pub'[h].gen = h /\ ~pub'[h].rotten
               /\ Transition(Projection(h - 1)', pub'[h].fixture, pub'[h].tx)
    <3>1. h - 1 \in 0 .. n
      OBVIOUS
    <3>2. Projection(h - 1)' = Projection(h - 1)
      BY <1>7, <3>1
    <3>3. QED
      BY <1>0, <1>6, <3>2 DEF Whole, Generations
  <2>2. /\ pub'[n + 1].files = GenFiles /\ pub'[n + 1].gen = n + 1 /\ ~pub'[n + 1].rotten
        /\ Transition(Projection(n)', pub'[n + 1].fixture, pub'[n + 1].tx)
    BY <1>5, <1>6, <1>7
  <2>3. \A h \in 1 .. Len(pub') :
           /\ pub'[h].files = GenFiles /\ pub'[h].gen = h /\ ~pub'[h].rotten
           /\ Transition(Projection(h - 1)', pub'[h].fixture, pub'[h].tx)
    <3>1. ASSUME NEW h \in 1 .. Len(pub')
          PROVE  h \in 1 .. n \/ (h = n + 1 /\ h - 1 = n)
      BY <1>6
    <3>2. QED
      BY <2>1, <2>2, <3>1
  <2>4. Len(pub') <= MaxGenerations /\ inc' = None /\ p'.pc # "create"
    BY <1>1, <1>3, <1>6, LimitAssumption
  <2>5. QED
    BY <2>3, <2>4 DEF Generations, At, Transition
<1>9. Dirty'
  <2>1. dirty # "commit"
    BY <1>1, <1>4 DEF Whole, Dirty, GenFiles
  <2>2. dirty \in {"", "lock"}
    BY <1>1, <2>1 DEF Whole, Dirty, At
  <2>3. QED
    BY <1>1, <2>2 DEF Whole, Dirty
<1>10. "format.v1" \in ctl
  BY <1>1, StagingPhases DEF VInv, Unformatted
<1>11. Interrupted' /\ Formatted' /\ Pending'
  BY <1>1, <1>10 DEF Whole, Interrupted, Formatted, Pending
<1>12. QED
  BY <1>8, <1>9, <1>11 DEF Whole

\* A step that is a fault is not one of a history without faults, and nothing
\* is undone before two of them.
LEMMA WholeStep ==
  ASSUME VInv, WholeUnlessFault, [VNext]_vvars PROVE WholeUnlessFault'
<1>0. faults \in Nat /\ faults' \in Nat
  BY VStep DEF VInv, VType
<1> SUFFICES ASSUME faults' = 0 PROVE Whole'
  BY DEF WholeUnlessFault
<1>1. CASE UNCHANGED vvars
  <2>1. Whole
    BY <1>1 DEF WholeUnlessFault, vvars
  <2>2. Dirty'
    BY <1>1, <2>1 DEF vvars, disk, Whole, Dirty, At
  <2>3. Interrupted' /\ Formatted'
    BY <1>1, <2>1 DEF vvars, disk, Whole, Interrupted, Formatted, At
  <2>4. Generations'
    BY <1>1, <2>1, Zenon DEF vvars, disk, Whole, Generations, At, Projection, Transition
  <2>5. Preparing' = Preparing /\ StagingFiles' = StagingFiles /\ Committing' = Committing
    BY <1>1, Zenon DEF vvars, disk, Preparing, StagingFiles, Committing, At, GenFiles
  <2>6. validate_pending_generation_layout(inc)' = validate_pending_generation_layout(inc)
    BY <1>1, Zenon DEF vvars, disk, validate_pending_generation_layout, decode_record,
       validate_uncommitted_component_tree
  <2>7. Pending'
    BY <1>1, <2>1, <2>5, <2>6, Zenon DEF vvars, disk, Whole, Pending, At
  <2>8. QED
    BY <2>2, <2>3, <2>4, <2>7 DEF Whole
<1>2. CASE ActivationFails \/ Rot \/ PublicationFails \/ CommitFails
  <2>1. faults' = faults + 1
    BY <1>2 DEF ActivationFails, Rot, PublicationFails, CommitFails
  <2>2. QED
    BY <1>0, <2>1
<1>3. CASE UndoCarrier \/ RestoreLive
  <2>1. p.pc = "undo" /\ faults' = faults
    BY <1>3 DEF UndoCarrier, RestoreLive, At, Unseen
  <2>2. faults >= 2
    BY <2>1 DEF VInv, Finishing, At
  <2>3. QED
    BY <1>0, <2>1, <2>2
<1>4. CASE Activate \/ LegacyWrite \/ Crash \/ (Transact /\ ~(PublicationFails \/ CommitFails \/ UndoCarrier \/ RestoreLive))
  <2>1. faults' = faults
    BY <1>4 DEF Activate, Transact, AcquireLease, SyncLease, ReclaimLock, ReleaseLease, AlreadyMigrated,
       ResumeCleanup, ResumeBaseline, ScanSource, MigrationPreflight, SyncRecord, StageBaseline, CopyNext,
       PublishBaseline, PublishMigration, EnsureGenerations, WriteFormat, PublishFormat, Control, Unseen,
       LegacyWrite, Crash, Begin, Cleanup, CreatePending, Prepare, stage_component, OnlyInc, MoveLive, Abandon,
       WriteCommit, RenameCommit, BindCarrier, PublishGeneration, CommitReturns
  <2>2. Whole /\ faults = 0
    BY <2>1 DEF WholeUnlessFault
  <2>3. CASE Activate
    BY <2>2, <2>3, QuietActions, LayoutActions, PublishFormatWhole DEF Activate
  <2>4. CASE LegacyWrite \/ Crash
    BY <2>2, <2>4, QuietActions, CrashWhole
  <2>5. CASE Transact /\ ~(PublicationFails \/ CommitFails \/ UndoCarrier \/ RestoreLive)
    BY <2>2, <2>5, QuietActions, CleanupWhole, CreatePendingWhole, PrepareWhole, StageWhole, MoveLiveWhole,
       WriteCommitWhole, CarrierWhole, PublishGenerationWhole DEF Transact
  <2>6. QED
    BY <1>4, <2>3, <2>4, <2>5
<1>5. QED
  BY <1>1, <1>2, <1>3, <1>4 DEF VNext, Transact
\* Bounds on the sizes of sets of names.
AtMost(S, n) == IsFiniteSet(S) /\ Cardinality(S) <= n

LEMMA OneMore ==
  ASSUME NEW S, NEW x, NEW n \in Nat, AtMost(S, n) PROVE AtMost(S \cup {x}, n + 1)
<1>1. PICK c \in Nat : c = Cardinality(S)
  BY FS_CardinalityType DEF AtMost
<1>2. c <= n /\ c <= n + 1 /\ c + 1 <= n + 1
  BY <1>1 DEF AtMost
<1>3. IsFiniteSet(S \cup {x}) /\ Cardinality(S \cup {x}) \in {c, c + 1}
  BY <1>1, FS_AddElement DEF AtMost
<1>4. QED
  BY <1>2, <1>3 DEF AtMost

LEMMA FourMore ==
  ASSUME NEW S, NEW n \in Nat, AtMost(S, n), NEW a, NEW b, NEW c, NEW d
  PROVE  /\ AtMost(S \cup {a, b, c}, n + 3) /\ AtMost(S \cup {a, b, c, d}, n + 4)
<1> DEFINE A == S \cup {a}
           B == A \cup {b}
           C == B \cup {c}
           D == C \cup {d}
<1>1. PICK i, j, k \in Nat : i = n + 1 /\ j = i + 1 /\ k = j + 1
  <2>1. n + 1 \in Nat /\ (n + 1) + 1 \in Nat /\ ((n + 1) + 1) + 1 \in Nat
    OBVIOUS
  <2>2. QED
    BY <2>1
<1>2. AtMost(A, i)
  BY <1>1, OneMore
<1> HIDE DEF A
<1>3. AtMost(B, j)
  BY <1>1, <1>2, OneMore
<1> HIDE DEF B
<1>4. AtMost(C, k)
  BY <1>1, <1>3, OneMore
<1> HIDE DEF C
<1>5. AtMost(D, k + 1)
  BY <1>4, OneMore
<1>6. C = S \cup {a, b, c} /\ D = S \cup {a, b, c, d}
  BY DEF A, B, C
<1>7. n + 3 = k /\ n + 4 = k + 1
  BY <1>1
<1> HIDE DEF D
<1>8. QED
  BY <1>4, <1>5, <1>6, <1>7

LEMMA SmallSets ==
  /\ AtMost(ControlFiles, 5) /\ AtMost(BaseFiles, 5) /\ AtMost(GenFiles, 6)
  /\ AtMost(InterruptedFiles, 8) /\ AtMost(Names, 9)
<1>0. PICK zero, four, five \in Nat : zero = 0 /\ four = 4 /\ five = 5
  OBVIOUS
<1>1. ASSUME NEW a, NEW b, NEW c, NEW d, NEW e PROVE AtMost({a, b, c, d, e}, five)
  <2>1. AtMost({}, zero)
    BY <1>0, FS_EmptySet DEF AtMost
  <2>2. AtMost({} \cup {a, b, c, d}, zero + 4)
    BY <2>1, FourMore
  <2>3. AtMost({a, b, c, d}, four)
    BY <1>0, <2>2 DEF AtMost
  <2>4. AtMost({a, b, c, d} \cup {e}, four + 1)
    BY <2>3, OneMore
  <2>5. {a, b, c, d} \cup {e} = {a, b, c, d, e}
    OBVIOUS
  <2>6. QED
    BY <1>0, <2>4, <2>5 DEF AtMost
<1>2. AtMost(ControlFiles, 5) /\ AtMost(BaseFiles, 5)
  BY <1>0, <1>1 DEF ControlFiles, BaseFiles
<1>3. ASSUME NEW S, AtMost(S, five)
      PROVE  /\ \A f : AtMost(S \cup {f}, 6)
             /\ \A f, g, h : AtMost(S \cup {f, g, h}, 8)
             /\ \A f, g, h, i : AtMost(S \cup {f, g, h, i}, 9)
  <2>1. ASSUME NEW f PROVE AtMost(S \cup {f}, 6)
    <3>1. AtMost(S \cup {f}, five + 1)
      BY <1>3, OneMore
    <3>2. QED
      BY <1>0, <3>1 DEF AtMost
  <2>2. ASSUME NEW f, NEW g, NEW h, NEW i
        PROVE  AtMost(S \cup {f, g, h}, 8) /\ AtMost(S \cup {f, g, h, i}, 9)
    <3>1. AtMost(S \cup {f, g, h}, five + 3) /\ AtMost(S \cup {f, g, h, i}, five + 4)
      BY <1>3, FourMore
    <3> DEFINE T == S \cup {f, g, h}
               U == S \cup {f, g, h, i}
    <3>2. AtMost(T, five + 3) /\ AtMost(U, five + 4)
      BY <3>1
    <3> HIDE DEF T, U
    <3>3. AtMost(T, 8) /\ AtMost(U, 9)
      BY <1>0, <3>2 DEF AtMost
    <3>4. QED
      BY <3>3 DEF T, U
  <2>3. QED
    BY <2>1, <2>2
<1>4. AtMost(GenFiles, 6)
  <2> DEFINE S == {"components", "fixture", "state", "history", "prepare"}
  <2>1. AtMost(S, five) /\ GenFiles = S \cup {"commit"}
    BY <1>1 DEF GenFiles
  <2> HIDE DEF S
  <2>2. QED
    BY <1>3, <2>1
<1>5. AtMost(InterruptedFiles, 8)
  <2> DEFINE S == {"dir", "migration.tmp", "migration", "baseline.tmp", "cleanup"}
  <2>1. AtMost(S, five) /\ InterruptedFiles = S \cup {"baseline", "generations", "format.tmp"}
    BY <1>1 DEF InterruptedFiles
  <2> HIDE DEF S
  <2>2. QED
    BY <1>3, <2>1
<1>6. AtMost(Names, 9)
  <2> DEFINE S == {"components", "fixture", "state", "history", "prepare.tmp"}
  <2>1. AtMost(S, five) /\ Names = S \cup {"prepare", "commit.tmp", "commit", "stray"}
    BY <1>1 DEF Names
  <2> HIDE DEF S
  <2>2. QED
    BY <1>3, <2>1
<1>7. QED
  BY <1>2, <1>4, <1>5, <1>6

\* A subset of a small set is no larger.
LEMMA NoLarger ==
  ASSUME NEW S, NEW T, NEW n \in Nat, AtMost(T, n), S \subseteq T
  PROVE  Cardinality(S) \in Nat /\ Cardinality(S) <= n
<1>1. IsFiniteSet(S) /\ Cardinality(S) <= Cardinality(T)
  BY FS_Subset DEF AtMost
<1>2. Cardinality(S) \in Nat /\ Cardinality(T) \in Nat
  BY <1>1, FS_CardinalityType DEF AtMost
<1>3. QED
  BY <1>1, <1>2 DEF AtMost

\* The tree of a base that nothing damaged is within its budget, however many
\* generations there are.
LEMMA WithinBudget == ASSUME VInv, Whole PROVE validate_cumulative_tree_budget
<1> DEFINE pairs == UNION {{g} \X pub[g].files : g \in 1 .. Len(pub)}
<1>1. PICK n \in Nat : n = Len(pub)
  BY DEF VInv, VType
<1>2. n <= MaxGenerations /\ MaxGenerations \in Nat /\ (inc # None => n + 1 <= MaxGenerations)
  BY <1>1, LimitAssumption DEF Whole, Generations
<1>3. Cardinality(ctl) \in Nat /\ Cardinality(ctl) <= 8 /\ (inc # None => Cardinality(ctl) <= 5)
  <2>1. CASE "format.v1" \in ctl
    <3>1. ctl = ControlFiles
      BY <2>1 DEF Whole, Formatted
    <3>2. Cardinality(ctl) \in Nat /\ Cardinality(ctl) <= 5
      BY <3>1, SmallSets, NoLarger
    <3>3. \A c \in Nat : c <= 5 => c <= 8
      OBVIOUS
    <3>4. QED
      BY <3>2, <3>3
  <2>2. CASE "format.v1" \notin ctl
    <3>1. ctl \subseteq InterruptedFiles /\ inc = None
      BY <2>2 DEF Whole, Interrupted
    <3>2. QED
      BY <3>1, SmallSets, NoLarger
  <2>3. QED
    BY <2>1, <2>2
<1>4. Cardinality(base) \in Nat /\ Cardinality(base) <= 5
  BY SmallSets, NoLarger DEF Whole, Dirty
<1>5. Cardinality(pairs) \in Nat /\ Cardinality(pairs) <= n * 6
  <2>1. pairs \subseteq (1 .. n) \X GenFiles
    BY <1>1 DEF Whole, Generations
  <2>2. IsFiniteSet(1 .. n) /\ Cardinality(1 .. n) = n
    BY FS_Interval
  <2>3. Cardinality(GenFiles) \in Nat
    BY SmallSets, FS_CardinalityType DEF AtMost
  <2>4. /\ IsFiniteSet((1 .. n) \X GenFiles)
        /\ Cardinality((1 .. n) \X GenFiles) = n * Cardinality(GenFiles)
    BY <2>2, SmallSets, FS_Product DEF AtMost
  <2>5. n * Cardinality(GenFiles) <= n * 6
    <3>1. \A c \in Nat : c <= 6 => n * c <= n * 6
      OBVIOUS
    <3>2. QED
      BY <2>3, <3>1, SmallSets DEF AtMost
  <2>6. n * 6 \in Nat
    OBVIOUS
  <2> HIDE DEF pairs
  <2>7. QED
    BY <2>1, <2>4, <2>5, <2>6, NoLarger DEF AtMost
<1>6. inc # None => Cardinality(inc.files) \in Nat /\ Cardinality(inc.files) <= 9
  <2>1. inc # None => inc.files \subseteq Names
    BY DEF VInv, VType, Incomplete
  <2>2. QED
    BY <2>1, SmallSets, NoLarger
<1>7. TreeEntries <= MaxTreeEntries
  <2>1. /\ TreeEntries = Cardinality(ctl) + Cardinality(base) + n + Cardinality(pairs)
                           + (IF inc = None THEN 1 ELSE 2 + Cardinality(inc.files))
        /\ MaxTreeEntries = 16 + 7 * MaxGenerations
    BY <1>1 DEF TreeEntries, MaxTreeEntries
  <2> HIDE DEF pairs
  <2>2. PICK a, b, c \in Nat :
           /\ a = Cardinality(ctl) /\ b = Cardinality(base) /\ c = Cardinality(pairs)
           /\ a <= 8 /\ (inc # None => a <= 5) /\ b <= 5 /\ c <= n * 6
    BY <1>3, <1>4, <1>5
  <2>3. CASE inc = None
    BY <1>2, <2>1, <2>2, <2>3
  <2>4. CASE inc # None
    <3>1. PICK f \in Nat : f = Cardinality(inc.files) /\ f <= 9
      BY <1>6, <2>4
    <3>2. n + 1 <= MaxGenerations
      BY <1>2, <2>4
    <3>3. TreeEntries = a + b + n + c + (2 + f)
      BY <2>1, <2>2, <2>4, <3>1
    <3>4. QED
      BY <1>2, <2>1, <2>2, <3>1, <3>2, <3>3
  <2>5. QED
    BY <2>3, <2>4
<1>8. QED
  BY <1>7 DEF validate_cumulative_tree_budget
\* The scan of a formatted base whose live files are the last generation's.
LEMMA ScanSucceeds ==
  ASSUME VInv, Whole, "format.v1" \in ctl, p.pc = "idle", ~moved, faults = 0
  PROVE  recover_scan
<1>1. PICK n \in Nat : n = Len(pub)
  BY DEF VInv, VType
<1>2. /\ ctl = ControlFiles /\ base = BaseFiles /\ report = copied
      /\ bad \cap {"format.v1", "migration"} = {} /\ bad \subseteq {"migration", "format.v1", "prepare", "commit"}
  BY DEF Whole, Formatted, Dirty
<1>3. validate_formatted_control_layout
  BY <1>2, WithinBudget DEF validate_formatted_control_layout, ControlFiles
<1>4. validate_format /\ validate_baseline(FALSE) /\ validate_migration_record("migration")
  BY <1>2 DEF validate_format, validate_baseline, validate_migration_record, decode_record, ControlFiles,
     BaseFiles
<1>5. n + (IF inc = None THEN 0 ELSE 1) <= MaxGenerations
  <2>1. n <= MaxGenerations /\ (inc # None => n < MaxGenerations)
    BY <1>1 DEF Whole, Generations
  <2>2. QED
    BY <2>1, LimitAssumption
<1>6. ASSUME NEW g \in 1 .. n PROVE validate_commit(g)
  <2>1. /\ pub[g].files = GenFiles /\ pub[g].gen = g /\ ~pub[g].rotten
        /\ Transition(Projection(g - 1), pub[g].fixture, pub[g].tx)
    BY <1>1 DEF Whole, Generations
  <2>2. \A h \in 1 .. (g - 1) : pub[h].tx # pub[g].tx
    <3>1. \A h \in 1 .. (g - 1) : h \in 1 .. n /\ h # g
      OBVIOUS
    <3>2. QED
      BY <1>1, <3>1 DEF VInv, Histories
  <2>3. QED
    BY <2>1, <2>2 DEF validate_commit, GenFiles
<1>7. ScanIncomplete
  <2>1. SUFFICES ASSUME inc # None
                 PROVE  /\ inc.gen = Len(pub) + 1
                        /\ inc.at = "cleanup" => validate_cleanup_tree_subset(inc.files, "generation")
                        /\ inc.at # "cleanup" => validate_pending_generation_layout(inc)
                        /\ \A g \in 1 .. Len(pub) : pub[g].tx # inc.tx
    BY DEF ScanIncomplete
  <2>2. inc.files \subseteq Names \ {"stray"}
    BY <2>1 DEF VInv, VType, Incomplete, Whole, Pending
  <2>3. validate_cleanup_tree_subset(inc.files, "generation")
    BY <2>2 DEF validate_cleanup_tree_subset, Names
  <2>4. QED
    BY <2>1, <2>3 DEF Whole, Pending
<1>8. LiveMatches
  <2>1. live = Projection(n)
    BY <1>1, Unmoved
  <2>2. live.counter \in Nat /\ live.history = Committed(n)
    <3>1. CASE n = 0
      <4>1. Committed(n) = <<>>
        BY <3>1 DEF Committed
      <4>2. QED
        BY <2>1, <3>1, <4>1 DEF Projection, VInv, VType, Histories, Fixture
    <3>2. CASE n # 0
      <4>1. n \in 1 .. Len(pub) /\ pub[n] \in Generation
        BY <1>1, <3>2, ElementOfSeq DEF VInv, VType
      <4>2. live = pub[n].fixture /\ live \in Fixture
        BY <2>1, <3>2, <4>1 DEF Projection, Generation
      <4>3. QED
        BY <4>1, <4>2 DEF VInv, Histories, Fixture
    <3>3. QED
      BY <3>1, <3>2
  <2>3. parse_fixture_counter(live.counter)
    BY <2>2, TornAssumption DEF parse_fixture_counter
  <2>4. parse_fixture_history(live.history)
    <3>1. \A g \in 1 .. n : pub[g].tx \in Tx
      <4>1. \A g \in 1 .. n : pub[g] \in Generation
        BY <1>1, ElementOfSeq DEF VInv, VType
      <4>2. QED
        BY <4>1 DEF Generation
    <3>2. DOMAIN Committed(n) = 1 .. n /\ \A g \in 1 .. n : Committed(n)[g] = pub[g].tx
      BY DEF Committed
    <3>3. IsInjective(Committed(n))
      BY <1>1, <3>2 DEF IsInjective, VInv, Histories
    <3>4. Committed(n) # <<Torn>>
      <4>1. ASSUME Committed(n) = <<Torn>> PROVE FALSE
        <5>1. DOMAIN Committed(n) = 1 .. 1 /\ Committed(n)[1] = Torn
          BY <4>1
        <5>2. 1 \in 1 .. n
          BY <3>2, <5>1
        <5>3. QED
          BY <3>1, <3>2, <5>1, <5>2, TornAssumption
      <4>2. QED
        BY <4>1
    <3>5. QED
      BY <2>2, <3>3, <3>4 DEF parse_fixture_history
  <2>5. QED
    BY <1>1, <2>1, <2>3, <2>4 DEF LiveMatches, validate_component_bytes
<1>9. QED
  BY <1>1, <1>3, <1>4, <1>5, <1>6, <1>7, <1>8 DEF recover_scan

\* The layout that an interrupted activation left can be gone on from.
LEMMA LayoutResumes ==
  ASSUME VInv, Whole, "format.v1" \notin ctl PROVE validate_interrupted_activation_layout
<1>1. /\ ctl \subseteq InterruptedFiles
      /\ ~({"baseline.tmp", "baseline"} \subseteq ctl)
      /\ ~({"baseline.tmp", "cleanup"} \subseteq ctl)
      /\ ~({"baseline", "cleanup"} \subseteq ctl)
      /\ ~({"migration.tmp", "migration"} \subseteq ctl)
      /\ "migration" \in ctl => "baseline" \in ctl
      /\ "baseline.tmp" \in ctl => base \in CopiedSets
      /\ "baseline" \in ctl => base = BaseFiles
      /\ base \subseteq BaseFiles /\ bad \subseteq {"migration", "format.v1", "prepare", "commit"}
  BY DEF Whole, Interrupted, Dirty
<1>2. "stray" \notin ctl
  BY <1>1 DEF InterruptedFiles
<1>3. base \in CopiedSets => validate_baseline_temp_layout
  BY DEF CopiedSets, BaseFiles, validate_baseline_temp_layout, validate_uncommitted_component_tree
<1>4. validate_cleanup_tree_subset(base, "baseline")
  BY <1>1 DEF validate_cleanup_tree_subset, BaseFiles
<1>5. "baseline" \in ctl => validate_baseline(TRUE)
  BY <1>1 DEF validate_baseline, decode_record, BaseFiles, VInv, Unformatted
<1>6. Cardinality(ctl \cap {"baseline.tmp", "baseline", "cleanup"}) <= 1
  <2>1. PICK f : ctl \cap {"baseline.tmp", "baseline", "cleanup"} \subseteq {f}
    <3>1. CASE "baseline.tmp" \in ctl
      <4>1. ctl \cap {"baseline.tmp", "baseline", "cleanup"} \subseteq {"baseline.tmp"}
        BY <1>1, <3>1
      <4>2. QED
        BY <4>1
    <3>2. CASE "baseline" \in ctl
      <4>1. ctl \cap {"baseline.tmp", "baseline", "cleanup"} \subseteq {"baseline"}
        BY <1>1, <3>2
      <4>2. QED
        BY <4>1
    <3>3. CASE "baseline.tmp" \notin ctl /\ "baseline" \notin ctl
      <4>1. ctl \cap {"baseline.tmp", "baseline", "cleanup"} \subseteq {"cleanup"}
        BY <3>3
      <4>2. QED
        BY <4>1
    <3>4. QED
      BY <3>1, <3>2, <3>3
  <2>2. IsFiniteSet({f}) /\ Cardinality({f}) = 1
    BY FS_Singleton
  <2> DEFINE S == ctl \cap {"baseline.tmp", "baseline", "cleanup"}
  <2> HIDE DEF S
  <2>3. S \in SUBSET {f}
    BY <2>1 DEF S
  <2>4. Cardinality(S) <= 1
    BY <2>2, <2>3, FS_Subset
  <2>5. QED
    BY <2>4 DEF S
<1>7. QED
  BY <1>1, <1>2, <1>3, <1>4, <1>5, <1>6, WithinBudget DEF validate_interrupted_activation_layout

\* While nothing failed and nothing was damaged, every crash leaves a base
\* that recover accepts, at every step of an activation and of a transaction
\* and for any number of generations, unless the live files were moved for a
\* commit that never happened: no check of recover_scan or of the interrupted
\* layout, the tree budget among them, refuses what the code itself wrote.
THEOREM V1Recoverable == VSpec => []RecoverableUnlessMoved
<1>1. ASSUME VInv, WholeUnlessFault PROVE RecoverableUnlessMoved
  <2> SUFFICES ASSUME p.pc = "idle", faults = 0, ~moved PROVE recover
    BY DEF RecoverableUnlessMoved, At
  <2>1. Whole
    BY <1>1 DEF WholeUnlessFault
  <2>2. QED
    BY <1>1, <2>1, ScanSucceeds, LayoutResumes DEF recover
<1>2. VInit => WholeUnlessFault
  BY WholeInit DEF WholeUnlessFault
<1>3. QED
  BY <1>1, <1>2, VInitInv, VStep, WholeStep, PTL DEF VSpec
===============================================================================
