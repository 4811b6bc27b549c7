---------------------------- MODULE OperationTxnV1 ----------------------------
(***************************************************************************)
(* The first transaction format (store/operation_txn.rs, lines 1-7140): a  *)
(* typed fixture, a counter and a history of transaction ids, is put under *)
(* an immutable baseline by an activation, and every later transaction     *)
(* publishes one numbered generation.  The caller moves the live fixture   *)
(* itself, between staging and committing.  The process may stop at any    *)
(* step; a file written and not yet synced may then be torn.               *)
(***************************************************************************)
EXTENDS Naturals, Sequences, FiniteSets, SequencesExt

CONSTANTS Tx, Intent,   \* transaction ids; operation and intent of a call
          Pid,          \* process ids, reused by later processes
          Torn,         \* what a half-written fixture file reads as
          MaxGenerations,   \* ResourceLimits::max_generations
          MaxCrashes, MaxFaults, MaxCalls   \* bounds of the instance

ASSUME TornAssumption == Torn \notin Nat /\ Torn \notin Tx
ASSUME LimitAssumption == MaxGenerations \in Nat

VARIABLES lock,     \* the activation lock file
          ctl,      \* entries of the transaction control directory
          base,     \* entries of the baseline directory, under any of its names
          copied,   \* the fixture the baseline holds
          report,   \* the fixture the migration report is about
          live,     \* the live fixture files
          inc,      \* the generation that is not published, under any name
          pub,      \* the numbered generations
          bad,      \* files whose bytes do not read back
          dirty,    \* the file written and not synced, or ""
          p,        \* the process that holds the writer lease
          crashes, faults, calls,
          acked,    \* transactions whose commit was reported to the caller
          moved     \* the live fixture was moved and not yet committed

disk == <<lock, ctl, base, copied, report, live, inc, pub, bad>>
vvars == <<disk, dirty, p, crashes, faults, calls, acked, moved>>

None == [at |-> "none"]
Idle(born) == [pc |-> "idle", born |-> born, pid |-> 1]

\* FixtureProjection of the files before any transaction.
Legacy(n) == [counter |-> n, history |-> <<>>]

VInit ==
    /\ lock = None /\ ctl = {} /\ base = {} /\ copied = Legacy(0) /\ report = Legacy(0)
    /\ live = Legacy(0) /\ inc = None /\ pub = <<>> /\ bad = {} /\ dirty = ""
    /\ p = Idle(0) /\ crashes = 0 /\ faults = 0 /\ calls = 0
    /\ acked = {} /\ moved = FALSE

Unseen == UNCHANGED <<crashes, faults, calls, acked, moved>>
Goto(pc) == p' = [p EXCEPT !.pc = pc]
At(pc) == p.pc = pc

-----------------------------------------------------------------------------
(* Records and trees.  A record reads back when its bytes were synced; its  *)
(* magic, version, codec and CRC are then what its constructor wrote.      *)

\* read_record_under, decode_record: canonical bytes of the right type.
decode_record(file) == file \notin bad

\* FormatRecord, format_crc.
validate_format == decode_record("format.v1")

\* registry_kind and validate_uncommitted_component_tree: a component tree
\* holds the fixture's directory and in it the two registered files.
validate_uncommitted_component_tree(files) ==
    /\ "stray" \notin files
    /\ files \cap {"state", "history"} # {} => "fixture" \in files
    /\ "fixture" \in files => "components" \in files

\* validate_component_bytes: parse_fixture_counter and parse_fixture_history
\* reject anything but a whole number and distinct ids.
parse_fixture_counter(v) == v # Torn
parse_fixture_history(h) == h # <<Torn>> /\ IsInjective(h)
validate_component_bytes(f) == parse_fixture_counter(f.counter) /\ parse_fixture_history(f.history)

\* validate_fixture_transition, validate_staged_fixture_transition.
Transition(before, after, tx) ==
    /\ after.counter = before.counter + 1
    /\ after.history = Append(before.history, tx)
    /\ tx \notin ToSet(before.history)

MutCleanupSubset(files, kind) ==
    files \subseteq {"components", "fixture", "state", "history"} \cup
        (IF kind = "generation" THEN {"prepare", "commit.tmp", "commit"} ELSE {"manifest"})

\* validate_cleanup_tree_subset: what a tombstone may still hold.
validate_cleanup_tree_subset(files, kind) ==
    files \subseteq {"components", "fixture", "state", "history"} \cup
        (IF kind = "generation" THEN {"prepare.tmp", "prepare", "commit.tmp", "commit"}
         ELSE {"manifest"})

\* remove_tombstone_contents_by_handle removes the entries in name order, a
\* directory after what is in it.
RemovalOrder == <<"commit", "commit.tmp", "history", "state", "fixture", "components",
                  "manifest", "prepare", "prepare.tmp">>
remove_tombstone_contents(files) ==
    files \ {RemovalOrder[Min({i \in DOMAIN RemovalOrder : RemovalOrder[i] \in files})]}

\* create_new_file_guarded and write_new_record_with_failpoints: a new file
\* whose bytes are not yet durable; its sync is the writer's next step.
WriteNew(file) == bad' = bad \ {file} /\ dirty' = file

\* atomic_rename_under: the source is there, the target is not.
Rename(entries, from, to) == (entries \ {from}) \cup {to}
CanRename(entries, from, to) == from \in entries /\ to \notin entries

-----------------------------------------------------------------------------
(* The control directory.                                                  *)

\* The entries below the control directory, the publication namespace one
\* of them.
TreeEntries ==
    Cardinality(ctl) + Cardinality(base)
      + Len(pub) + Cardinality(UNION {{g} \X pub[g].files : g \in 1..Len(pub)})
      + (IF inc = None THEN 1 ELSE 2 + Cardinality(inc.files))

\* MAX_TREE_ENTRIES: a fixed part, and seven entries for each generation.
MaxTreeEntries == 16 + 7 * MaxGenerations

\* TreeBudget::observe over the whole tree.
validate_cumulative_tree_budget == TreeEntries <= MaxTreeEntries

\* future_generation_tree_budget: the same tree with the pending directory
\* under its number, which must be free.
validate_future_generation_tree_budget ==
    TreeEntries <= MaxTreeEntries /\ inc.gen > Len(pub)

\* validate_baseline_temp_layout.
validate_baseline_temp_layout ==
    /\ validate_uncommitted_component_tree(base)
    /\ base \subseteq {"components", "fixture", "state", "history", "manifest"}

\* validate_baseline: the exact entries, a manifest that reads back, the
\* components its descriptors describe, and the live files if asked.
validate_baseline(compare_live) ==
    /\ "baseline" \in ctl
    /\ base = {"components", "fixture", "state", "history", "manifest"}
    /\ decode_record("manifest") /\ decode_record("baseline state")
    /\ compare_live => live = copied

\* validate_migration, validate_migration_record: the report reads back and
\* names the baseline's digest, count and bytes.
validate_migration_record(file) ==
    file \in ctl /\ decode_record("migration") /\ report = copied

\* validate_interrupted_activation_layout.
validate_interrupted_activation_layout ==
    \/ ctl = {}
    \/ /\ validate_cumulative_tree_budget /\ "stray" \notin ctl
       /\ "baseline.tmp" \in ctl => validate_baseline_temp_layout
       /\ "cleanup" \in ctl => validate_cleanup_tree_subset(base, "baseline")
       /\ "baseline" \in ctl => validate_baseline(TRUE)
       /\ "migration" \in ctl => "baseline" \in ctl
       /\ Cardinality(ctl \cap {"baseline.tmp", "baseline", "cleanup"}) <= 1
       /\ {"migration.tmp", "migration"} \cap ctl # {"migration.tmp", "migration"}

\* validate_ready_for_format_publication.
validate_ready_for_format_publication(allow_format_temp) ==
    /\ ctl = {"dir", "baseline", "generations", "migration"} \cup
             (IF allow_format_temp THEN {"format.tmp"} ELSE {})
    /\ inc = None /\ pub = <<>>
    /\ validate_baseline(TRUE) /\ validate_migration_record("migration")
    /\ allow_format_temp => decode_record("format.v1")

\* validate_formatted_control_layout.
validate_formatted_control_layout ==
    /\ validate_cumulative_tree_budget
    /\ ctl = {"dir", "baseline", "format.v1", "generations", "migration"}

\* require_legacy_writer_compatible.
require_legacy_writer_compatible == "dir" \notin ctl

-----------------------------------------------------------------------------
(* The scan of a formatted base.                                           *)

\* The fixture after g generations; overlay_component_sources.
Projection(g) == IF g = 0 THEN copied ELSE pub[g].fixture

\* validate_generation_layout, validate_prepare and validate_commit of a
\* numbered generation: exact files that read back, the next number, the
\* parent's hash, and the fixture one step on.
validate_commit(g) ==
    /\ pub[g].files = {"components", "fixture", "state", "history", "prepare", "commit"}
    /\ pub[g].gen = g
    /\ g \notin {n \in 1..Len(pub) : pub[n].rotten}
    /\ Transition(Projection(g - 1), pub[g].fixture, pub[g].tx)
    /\ \A n \in 1..(g - 1) : pub[n].tx # pub[g].tx

\* validate_pending_generation_layout of the pending or publication carrier.
validate_pending_generation_layout(d) ==
    /\ validate_uncommitted_component_tree(d.files)
    /\ "prepare" \in d.files => "components" \in d.files /\ "prepare.tmp" \notin d.files
    /\ d.files \cap {"commit", "commit.tmp"} # {} => "prepare" \in d.files
    /\ {"commit", "commit.tmp"} \cap d.files # {"commit", "commit.tmp"}
    /\ "prepare" \in d.files => decode_record("prepare")
    /\ "commit" \in d.files => {"state", "history"} \subseteq d.files /\ decode_record("commit")

\* The scan's treatment of the one directory that is not numbered.
ScanIncomplete ==
    inc # None =>
        /\ inc.gen = Len(pub) + 1
        /\ IF inc.at = "cleanup" THEN validate_cleanup_tree_subset(inc.files, "generation")
           ELSE validate_pending_generation_layout(inc)
        /\ \A g \in 1..Len(pub) : pub[g].tx # inc.tx

\* TransactionIdStatus of an id after the scan.
Status(tx) == IF \E g \in 1..Len(pub) : pub[g].tx = tx THEN "committed"
              ELSE IF inc # None /\ inc.tx = tx THEN "prepared" ELSE "absent"

\* validate_baseline_backed_live_state.
LiveMatches == validate_component_bytes(live) /\ live = Projection(Len(pub))

\* recover_scan_with_failpoint of a formatted base.
recover_scan ==
    /\ validate_formatted_control_layout
    /\ validate_format
    /\ validate_baseline(FALSE) /\ validate_migration_record("migration")
    /\ Len(pub) + (IF inc = None THEN 0 ELSE 1) <= MaxGenerations
    /\ \A g \in 1..Len(pub) : validate_commit(g)
    /\ ScanIncomplete
    /\ LiveMatches

\* recover: a base without format.v1 is a legacy base.
recover == IF "format.v1" \in ctl THEN recover_scan ELSE validate_interrupted_activation_layout
-----------------------------------------------------------------------------
(* The activation lease.                                                   *)

MutProcessAlive(l) == l.pid = p.pid

\* process_is_alive: the process of that id was created when the lock says.
process_is_alive(l) == l.pid = p.pid /\ l.born = p.born

\* acquire_disposable_inner, create_activation_lock and
\* bind_activation_lock_to_current_process: the lock file is created and
\* its record written.
AcquireLease ==
    /\ At("idle") /\ lock = None
    /\ lock' = [at |-> "file", pid |-> p.pid, born |-> p.born, whole |-> FALSE]
    /\ dirty' = "lock" /\ Goto("lease")
    /\ UNCHANGED <<ctl, base, copied, report, live, inc, pub, bad>> /\ Unseen

\* The rest of acquire_disposable_inner: the record is synced.
SyncLease ==
    /\ At("lease") /\ dirty' = "" /\ Goto("activate")
    /\ lock' = [lock EXCEPT !.whole = TRUE]
    /\ UNCHANGED <<ctl, base, copied, report, live, inc, pub, bad>> /\ Unseen

\* reclaim_dead_activation_lock: a record that reads back, of a dead owner.
ReclaimLock ==
    /\ At("idle") /\ lock # None /\ lock.whole /\ ~process_is_alive(lock)
    /\ lock' = None
    /\ UNCHANGED <<ctl, base, copied, report, live, inc, pub, bad, dirty, p>> /\ Unseen

\* ExclusiveBaselineLease::verify and drop: the holder removes its own lock.
ReleaseLease ==
    /\ At("release") /\ process_is_alive(lock)
    /\ lock' = None /\ Goto("idle")
    /\ UNCHANGED <<ctl, base, copied, report, live, inc, pub, bad, dirty>> /\ Unseen

-----------------------------------------------------------------------------
(* create_legacy_baseline_with_options.  A failed check or call returns its *)
(* error, and the lease is released.                                       *)

Control(pc, entries) ==
    /\ ctl' = entries /\ Goto(pc)
    /\ UNCHANGED <<lock, base, copied, report, live, inc, pub>> /\ Unseen

\* A base with a format is only recovered: AlreadyMigrated, or the error.
AlreadyMigrated ==
    /\ At("activate") /\ "format.v1" \in ctl
    /\ Goto("release") /\ UNCHANGED <<disk, dirty>> /\ Unseen

\* The interrupted layout is checked, and a tombstone's removal resumed.
ResumeCleanup ==
    /\ At("activate") /\ "format.v1" \notin ctl
    /\ validate_interrupted_activation_layout /\ "cleanup" \in ctl
    /\ IF base = {} THEN ctl' = ctl \ {"cleanup"} /\ UNCHANGED base
       ELSE base' = remove_tombstone_contents(base) /\ UNCHANGED ctl
    /\ UNCHANGED <<lock, copied, report, live, inc, pub, bad, dirty, p>> /\ Unseen

\* A published baseline is resumed from: the final report, or the preflight
\* report reused (validate_and_reuse_migration_preflight).
ResumeBaseline ==
    /\ At("activate") /\ "format.v1" \notin ctl
    /\ validate_interrupted_activation_layout /\ "baseline" \in ctl
    /\ \/ validate_migration_record("migration")
       \/ "migration" \notin ctl /\ validate_migration_record("migration.tmp")
    /\ Goto("migration") /\ UNCHANGED <<disk, dirty>> /\ Unseen

\* collect_registered_inventory: both files, and nothing else, that parse;
\* then the control directory is created.
ScanSource ==
    /\ At("activate") /\ "format.v1" \notin ctl
    /\ validate_interrupted_activation_layout /\ {"cleanup", "baseline"} \cap ctl = {}
    /\ validate_component_bytes(live)
    /\ Control("preflight", ctl \cup {"dir"}) /\ UNCHANGED <<bad, dirty>>

\* ensure_migration_preflight: a report already there must read back and be
\* about these files; otherwise it is written.
MigrationPreflight ==
    /\ At("preflight")
    /\ \/ /\ "migration.tmp" \in ctl /\ decode_record("migration") /\ report = live
          /\ Goto("staging") /\ UNCHANGED <<ctl, report, bad, dirty>>
       \/ /\ "migration.tmp" \notin ctl
          /\ ctl' = ctl \cup {"migration.tmp"} /\ report' = live
          /\ WriteNew("migration") /\ Goto("preflight sync")
    /\ UNCHANGED <<lock, base, copied, live, inc, pub>> /\ Unseen

\* write_new_record_with_failpoints: the sync after the write.
SyncRecord(pc, next) ==
    /\ At(pc) /\ dirty' = "" /\ Goto(next) /\ UNCHANGED disk /\ Unseen

\* A staging directory left behind is renamed to its tombstone and removed;
\* then the new one is created.
StageBaseline ==
    /\ At("staging")
    /\ \/ /\ "baseline.tmp" \in ctl /\ validate_baseline_temp_layout
          /\ ctl' = Rename(ctl, "baseline.tmp", "cleanup") /\ UNCHANGED <<base, copied, p>>
       \/ /\ "cleanup" \in ctl /\ base # {}
          /\ base' = remove_tombstone_contents(base) /\ UNCHANGED <<ctl, copied, p>>
       \/ /\ "cleanup" \in ctl /\ base = {}
          /\ ctl' = ctl \ {"cleanup"} /\ UNCHANGED <<base, copied, p>>
       \/ /\ ctl \cap {"baseline.tmp", "cleanup"} = {}
          /\ ctl' = ctl \cup {"baseline.tmp"} /\ base' = {}
          /\ copied' = live /\ Goto("copy")
    /\ UNCHANGED <<lock, report, live, inc, pub, bad, dirty>> /\ Unseen

\* The components in order, by copy_verified_component, then the manifest.
\* What a crash tears here is removed unread.
CopyOrder == <<"components", "fixture", "history", "state", "manifest">>
CopyNext ==
    /\ At("copy") /\ Len(CopyOrder) > Cardinality(base)
    /\ base' = base \cup {CopyOrder[Cardinality(base) + 1]}
    /\ UNCHANGED <<lock, ctl, copied, report, live, inc, pub, bad, dirty, p>> /\ Unseen

\* atomic_rename_under of the staging directory, and validate_baseline.
PublishBaseline ==
    /\ At("copy") /\ Len(CopyOrder) = Cardinality(base)
    /\ CanRename(ctl, "baseline.tmp", "baseline")
    /\ Control("migration", Rename(ctl, "baseline.tmp", "baseline"))
    /\ UNCHANGED <<bad, dirty>>

\* publish_migration_record.
PublishMigration ==
    /\ At("migration")
    /\ \/ validate_migration_record("migration") /\ Control("generations", ctl)
       \/ /\ "migration" \notin ctl /\ validate_migration_record("migration.tmp")
          /\ Control("generations", Rename(ctl, "migration.tmp", "migration"))
    /\ UNCHANGED <<bad, dirty>>

\* ensure_generation_directory.
EnsureGenerations ==
    /\ At("generations") /\ Control("format", ctl \cup {"generations"})
    /\ UNCHANGED <<bad, dirty>>

\* publish_format_record: the temporary record, unless one is there.
WriteFormat ==
    /\ At("format") /\ validate_ready_for_format_publication("format.tmp" \in ctl)
    /\ IF "format.tmp" \in ctl THEN Control("format publish", ctl) /\ UNCHANGED <<bad, dirty>>
       ELSE /\ Control("format sync", ctl \cup {"format.tmp"})
            /\ WriteNew("format.v1")
PublishFormat ==
    /\ At("format publish") /\ validate_ready_for_format_publication(TRUE)
    /\ Control("release", Rename(ctl, "format.tmp", "format.v1"))
    /\ UNCHANGED <<bad, dirty>>

Activating == {"activate", "preflight", "preflight sync", "staging", "copy", "migration",
               "generations", "format", "format sync", "format publish"}

\* A check or a call of the activation fails.
ActivationFails ==
    /\ p.pc \in Activating /\ faults < MaxFaults /\ faults' = faults + 1
    /\ \E torn \in SUBSET ({dirty} \ {""}) : bad' = bad \cup torn
    /\ dirty' = "" /\ Goto("release")
    /\ UNCHANGED <<lock, ctl, base, copied, report, live, inc, pub, crashes, calls, acked, moved>>

Activate ==
    \/ AcquireLease \/ SyncLease \/ ReclaimLock \/ ReleaseLease \/ AlreadyMigrated
    \/ ResumeCleanup \/ ResumeBaseline \/ ScanSource \/ MigrationPreflight
    \/ SyncRecord("preflight sync", "staging") \/ StageBaseline \/ CopyNext \/ PublishBaseline
    \/ PublishMigration \/ EnsureGenerations \/ WriteFormat
    \/ SyncRecord("format sync", "format publish") \/ PublishFormat

-----------------------------------------------------------------------------
(* A transaction.                                                          *)

OnlyInc(next) ==
    /\ inc' = next /\ UNCHANGED <<lock, ctl, base, copied, report, live, pub>> /\ Unseen
AddFile(f) == [inc EXCEPT !.files = @ \cup {f}]

\* begin_with_options, its scan and its admission by the id's status:
\* AlreadyCommitted, a retry of what was prepared, or a new generation
\* (admitted_next_generation).  Every other case is an error.
Begin(tx, intent) ==
    /\ At("idle") /\ calls < MaxCalls /\ calls' = calls + 1
    /\ "format.v1" \in ctl /\ recover_scan
    /\ \/ /\ Status(tx) = "committed" /\ \E g \in 1..Len(pub) : pub[g].tx = tx /\ pub[g].intent = intent
          /\ acked' = acked \cup {tx} /\ UNCHANGED p
       \/ /\ \/ Status(tx) = "prepared" /\ inc.intent = intent
             \/ Status(tx) = "absent" /\ inc = None
          /\ Len(pub) < MaxGenerations
          /\ p' = [pc |-> IF inc = None THEN "create" ELSE "cleanup", born |-> p.born,
                   pid |-> p.pid, tx |-> tx, intent |-> intent, pre |-> live, retry |-> FALSE]
          /\ UNCHANGED acked
    /\ UNCHANGED <<disk, dirty, crashes, faults, moved>>

\* remove_verified_directory_tree_guarded, one step of it: rename to the
\* tombstone, remove an entry, remove the directory.
RemoveStep(done) ==
    \/ inc.at # "cleanup" /\ inc' = [inc EXCEPT !.at = "cleanup"] /\ UNCHANGED <<p, bad>>
    \/ /\ inc.at = "cleanup" /\ validate_cleanup_tree_subset(inc.files, "generation")
       /\ IF inc.files = {} THEN inc' = None /\ bad' = bad \ {"prepare", "commit"} /\ Goto(done)
          ELSE inc' = [inc EXCEPT !.files = remove_tombstone_contents(@)] /\ UNCHANGED <<p, bad>>

\* cleanup_incomplete_generation: the retry removes what it left.
Cleanup ==
    /\ At("cleanup") /\ inc.tx = p.tx /\ inc.intent = p.intent
    /\ RemoveStep("create")
    /\ UNCHANGED <<lock, ctl, base, copied, report, live, pub, dirty>> /\ Unseen

\* The pending directory, its components directory, and the prepare record
\* written, synced and renamed.
CreatePending ==
    /\ At("create")
    /\ OnlyInc([at |-> "pending", gen |-> Len(pub) + 1, tx |-> p.tx, intent |-> p.intent,
                files |-> {}, fixture |-> p.pre])
    /\ Goto("prepare") /\ UNCHANGED <<bad, dirty>>
Prepare ==
    /\ At("prepare")
    /\ \/ "components" \notin inc.files /\ OnlyInc(AddFile("components"))
          /\ UNCHANGED <<bad, dirty, p>>
       \/ /\ "components" \in inc.files /\ "prepare.tmp" \notin inc.files
          /\ OnlyInc(AddFile("prepare.tmp"))
          /\ WriteNew("prepare") /\ UNCHANGED p
       \/ /\ "prepare.tmp" \in inc.files
          /\ OnlyInc([inc EXCEPT !.files = Rename(@, "prepare.tmp", "prepare")])
          /\ dirty' = "" /\ Goto("stage") /\ UNCHANGED bad

\* stage_component: each of the two components once, after its directory.
stage_component(step) ==
    /\ At("stage")
    /\ \/ "fixture" \notin inc.files /\ OnlyInc(AddFile("fixture"))
       \/ /\ {"fixture", "state"} \cap inc.files = {"fixture"}
          /\ OnlyInc([AddFile("state") EXCEPT !.fixture.counter = p.pre.counter + step])
       \/ /\ {"state", "history"} \cap inc.files = {"state"}
          /\ OnlyInc([AddFile("history") EXCEPT !.fixture.history = Append(p.pre.history, p.tx)])
    /\ UNCHANGED <<bad, dirty, p>>

\* validate_staged_fixture_transition.
Staged == {"state", "history"} \subseteq inc.files /\ Transition(p.pre, inc.fixture, p.tx)

\* The caller (external) moves the live files, one after the other.
MoveLive ==
    /\ At("stage") /\ Staged /\ live # inc.fixture
    /\ live' = IF live.counter # inc.fixture.counter THEN [live EXCEPT !.counter = inc.fixture.counter]
               ELSE inc.fixture
    /\ moved' = TRUE
    /\ UNCHANGED <<lock, ctl, base, copied, report, inc, pub, bad, dirty, p, crashes, faults, calls, acked>>

\* abandon, drop, and a commit refused for what was staged: the pending
\* generation stays.
Abandon ==
    /\ At("stage") /\ ~moved /\ Goto("idle") /\ UNCHANGED <<disk, dirty>> /\ Unseen

\* commit up to the temporary commit record.
WriteCommit ==
    /\ At("stage") /\ Staged /\ live = inc.fixture
    /\ OnlyInc(AddFile("commit.tmp"))
    /\ WriteNew("commit") /\ Goto("finish")

\* finish_commit_publication: the commit record gets its name.
RenameCommit ==
    /\ At("finish") /\ inc # None /\ CanRename(inc.files, "commit.tmp", "commit")
    /\ OnlyInc([inc EXCEPT !.files = Rename(@, "commit.tmp", "commit")])
    /\ dirty' = "" /\ UNCHANGED <<bad, p>>

\* publish_generation_directory_guarded: the validated pending directory is
\* renamed to its private carrier ...
BindCarrier ==
    /\ At("finish") /\ inc # None /\ inc.at = "pending" /\ "commit" \in inc.files
    /\ validate_pending_generation_layout(inc) /\ validate_future_generation_tree_budget
    /\ OnlyInc([inc EXCEPT !.at = "publication"]) /\ UNCHANGED <<bad, dirty, p>>

\* ... and, its tree checked again (PinnedGenerationTree), moved to its
\* number (move_directory_write_through).
PublishGeneration ==
    /\ At("finish") /\ inc # None /\ inc.at = "publication"
    /\ validate_pending_generation_layout(inc)
    /\ pub' = Append(pub, [gen |-> inc.gen, tx |-> inc.tx, intent |-> inc.intent,
                           files |-> inc.files, fixture |-> inc.fixture, rotten |-> FALSE])
    /\ inc' = None
    /\ UNCHANGED <<lock, ctl, base, copied, report, live, bad, dirty, p>> /\ Unseen

MutCommitReturns ==
    /\ At("finish") /\ (inc # None => inc.at = "publication")
    /\ acked' = IF p.retry THEN acked ELSE acked \cup {p.tx}
    /\ moved' = FALSE /\ Goto("idle")
    /\ UNCHANGED <<disk, dirty, crashes, faults, calls>>

\* The published directory holds this commit: the call returns, with the
\* first error if it needed its second attempt.
CommitReturns ==
    /\ At("finish") /\ inc = None /\ pub # <<>> /\ Last(pub).tx = p.tx
    /\ acked' = IF p.retry THEN acked ELSE acked \cup {p.tx}
    /\ moved' = FALSE /\ Goto("idle")
    /\ UNCHANGED <<disk, dirty, crashes, faults, calls>>

MutPublicationFails ==
    /\ At("finish") /\ faults < MaxFaults /\ faults' = faults + 1
    /\ p' = [p EXCEPT !.retry = TRUE, !.pc = "undo"]
    /\ UNCHANGED <<disk, dirty, crashes, calls, acked, moved>>

\* An error in the publication: tried again once, then undone.
PublicationFails ==
    /\ At("finish") /\ faults < MaxFaults /\ faults' = faults + 1
    /\ p' = [p EXCEPT !.retry = TRUE, !.pc = IF ~p.retry THEN "finish" ELSE "undo"]
    /\ UNCHANGED <<disk, dirty, crashes, calls, acked, moved>>

\* An error before the publication is returned as it is.
CommitFails ==
    /\ At("stage") /\ Staged /\ live = inc.fixture
    /\ faults < MaxFaults /\ faults' = faults + 1
    /\ Goto("idle") /\ UNCHANGED <<disk, dirty, crashes, calls, acked, moved>>

\* cleanup_failed_publication_carrier.
UndoCarrier ==
    /\ At("undo") /\ inc # None /\ inc.at # "pending"
    /\ RemoveStep("undo")
    /\ UNCHANGED <<lock, ctl, base, copied, report, live, pub, dirty>> /\ Unseen

\* restore_fixture_projection, rewrite_fixture_component: each file is cut
\* and written again.
RestoreLive ==
    /\ At("undo") /\ (inc = None \/ inc.at = "pending")
    /\ \/ /\ live.counter # p.pre.counter
          /\ live' = [live EXCEPT !.counter = IF @ = Torn THEN p.pre.counter ELSE Torn]
          /\ UNCHANGED <<p, moved>>
       \/ /\ live.counter = p.pre.counter /\ live.history # p.pre.history
          /\ live' = [live EXCEPT !.history = IF @ = <<Torn>> THEN p.pre.history ELSE <<Torn>>]
          /\ UNCHANGED <<p, moved>>
       \/ /\ live = p.pre /\ moved' = FALSE /\ Goto("idle") /\ UNCHANGED live
    /\ UNCHANGED <<lock, ctl, base, copied, report, inc, pub, bad, dirty, crashes, faults, calls, acked>>

Transact ==
    \/ \E tx \in Tx, intent \in Intent : Begin(tx, intent)
    \/ Cleanup \/ CreatePending \/ Prepare \/ (\E step \in {0, 1} : stage_component(step))
    \/ MoveLive \/ Abandon \/ WriteCommit \/ RenameCommit \/ BindCarrier \/ PublishGeneration
    \/ CommitReturns \/ PublicationFails \/ CommitFails \/ UndoCarrier \/ RestoreLive

-----------------------------------------------------------------------------
(* The environment.                                                        *)

\* A legacy writer changes the fixture of a base it may write.
LegacyWrite ==
    /\ At("idle") /\ require_legacy_writer_compatible /\ live.counter < 1
    /\ live' = Legacy(live.counter + 1)
    /\ UNCHANGED <<lock, ctl, base, copied, report, inc, pub, bad, dirty, p>> /\ Unseen

\* The process stops; what it had not synced may be torn.
Crash ==
    /\ ~At("idle") /\ crashes < MaxCrashes /\ crashes' = crashes + 1
    /\ \E torn \in SUBSET ({dirty} \ {"", "lock"}) : bad' = bad \cup torn
    /\ dirty' = ""
    /\ \E pid \in Pid : p' = [pc |-> "idle", born |-> p.born + 1, pid |-> pid]
    /\ UNCHANGED <<lock, ctl, base, copied, report, live, inc, pub, faults, calls, acked, moved>>

\* A file at rest stops reading back, or a foreign file appears.
Rot ==
    /\ At("idle") /\ "format.v1" \in ctl /\ faults < MaxFaults /\ faults' = faults + 1
    /\ \/ \E f \in {"format.v1", "manifest", "baseline state", "migration"} :
             bad' = bad \cup {f} /\ UNCHANGED <<ctl, pub, inc>>
       \/ ctl' = ctl \cup {"stray"} /\ UNCHANGED <<bad, pub, inc>>
       \/ \E g \in 1..Len(pub) :
             pub' = [pub EXCEPT ![g].rotten = TRUE] /\ UNCHANGED <<bad, ctl, inc>>
       \/ inc # None /\ inc' = AddFile("stray") /\ UNCHANGED <<bad, ctl, pub>>
    /\ UNCHANGED <<lock, base, copied, report, live, dirty, p, crashes, calls, acked, moved>>

VNext == Activate \/ ActivationFails \/ Transact \/ LegacyWrite \/ Crash \/ Rot
VSpec == VInit /\ [][VNext]_vvars /\ WF_vvars(Activate)

-----------------------------------------------------------------------------
(* Properties.                                                             *)

\* A transaction that was reported committed is in exactly one generation
\* and in the history once, whatever was retried, cleaned up or
\* interrupted (commit, cleanup_incomplete_generation).
CommittedOnce ==
    /\ \A tx \in acked : Cardinality({g \in 1..Len(pub) : pub[g].tx = tx}) = 1
    /\ \A g \in 1..Len(pub) : pub[g].fixture.history = [i \in 1..g |-> pub[i].tx]

\* Between calls the base can be recovered, unless the live files were
\* moved for a commit that never happened, or something was damaged.
RecoverableUnlessMoved ==
    At("idle") /\ faults = 0 => recover \/ moved

\* The live files agree with the record.  Before the format is published the
\* baseline is the fixture as the last legacy writer left it
\* (require_legacy_writer_compatible); after it, a commit whose publication
\* failed once returns its error with live files and generations agreeing (the
\* second finish_commit_publication of commit).  A second error after the
\* generation was published does not keep this: the live files are put back
\* and the generation stays.
CommitLeavesOldOrNew ==
    /\ "baseline" \in ctl /\ "format.v1" \notin ctl => live = copied
    /\ At("idle") /\ ~moved /\ faults <= 1 /\ "format.v1" \in ctl => live = Projection(Len(pub))

\* An activation interrupted at any step is completed by the next ones,
\* unless the crash tore the lock, report or format record it had to reuse.
ActivationCompletes ==
    <>("format.v1" \in ctl \/ bad # {} \/ (At("idle") /\ lock # None /\ ~lock.whole))
=============================================================================
