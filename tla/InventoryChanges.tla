--------------------------- MODULE InventoryChanges ---------------------------
(***************************************************************************)
(* The management commands that change what the host archive says of an    *)
(* existing inventory, besides a single deletion and a rename:             *)
(*   - the save of an adaptive template update, and its one recovery       *)
(*     (run_user_catacomb_sync);                                           *)
(*   - pruning a finger another system deleted, and the recovery of that   *)
(*     (run_external_delete_reconciliation, run_external_delete_recovery); *)
(*   - the purge, an ordered batch of single deletions (run_delete_batch). *)
(*                                                                         *)
(* The operation lock lets one command run at a time; it may be killed at  *)
(* every step.  A single deletion appears by what IdentityDelete shows of  *)
(* it: it succeeds, changes nothing, or is interrupted with the host never *)
(* ahead of the SEP, and its recovery decides it.  The connection of every *)
(* command is new, as the journals demand.                                 *)
(***************************************************************************)
EXTENDS Naturals, Sequences, SequencesExt, FiniteSets

CONSTANTS Order,        \* the fingers, in the order of FINGER_NAMES
          None, Torn,   \* no value; a file whose bytes do not decode
          MaxFailures, MaxBoots, MaxGen, MaxOps

ASSUME InventoryAssumption ==
    /\ IsInjective(Order) /\ Len(Order) > 0
    /\ {MaxFailures, MaxBoots, MaxGen, MaxOps} \subseteq Nat

Fingers == Range(Order)
Content == [ids : SUBSET Fingers, gen : 0..MaxGen]
Archive == [ids : SUBSET Fingers, blob : Content, save : Nat]

ASSUME AbsentAssumption ==
    /\ None \notin Archive \cup (Archive \X Nat) \cup Nat \cup {Torn}
    /\ Torn \notin Archive \cup Nat

VARIABLES mode,     \* "native" or "compat"
          sep,      \* identities, template generation, needs_save of both components, loaded
          store,    \* committed user and master archives, the transaction in flight
          j,        \* the journal of the last command, replayed
          child,    \* the interrupted deletion of a purge item
          backups,  \* archives saved before a prune
          step, boot, failures, ops,
          saves,    \* exports so far: no two have equal bytes
          foreign   \* fingers another system deleted

inventoryVars == <<mode, sep, store, j, child, backups, step, boot, failures, ops, saves, foreign>>

rest == <<mode, child, backups, boot, ops, foreign>>
Fails == failures < MaxFailures /\ failures' = failures + 1

-----------------------------------------------------------------------------
(* Journals, registry and inventory. *)

NoJournal == [kind |-> "none", phase |-> "NONE",
              commit |-> None, attempted |-> FALSE,   \* sync: host_commit, recovery_attempted
              before |-> None, staged |-> None,       \* external: the archives of its intent
              names |-> <<>>, done |-> 0, pending |-> FALSE]

\* The records: when a history takes them, and what they make of it.
Rule(legal, next) == [legal |-> legal, next |-> next]
Phase(from, to) == Rule(j.phase \in from, [j EXCEPT !.phase = to])

SYNC_INTENT == Phase({"BASELINE"}, "INTENT")
SYNC_HOST_COMMITTED == Rule(j.phase = "INTENT", [j EXCEPT !.phase = "HOST_COMMITTED",
                                                          !.commit = <<store.user, store.master>>])
SYNC_RECONCILED == Rule(j.phase = "HOST_COMMITTED" /\ j.commit # None,
                        [j EXCEPT !.phase = "RECONCILED"])
SYNC_ABORTED_BEFORE_DISPATCH == Phase({"INTENT"}, "ABORTED")
SYNC_OUTCOME_UNKNOWN == Phase({"INTENT", "HOST_COMMITTED"}, "OUTCOME_UNKNOWN")

\* The binding of both recovery records to what the first attempt committed.
Exact == /\ j.phase = "OUTCOME_UNKNOWN" /\ ~j.attempted
         /\ j.commit = <<store.user, store.master>>

\* A mutant: the second attempt keeps the first one's commit.
RecoveryIntentKeeps == Rule(Exact, [j EXCEPT !.phase = "INTENT", !.attempted = TRUE])

SYNC_RECOVERY_INTENT == Rule(Exact, [j EXCEPT !.phase = "INTENT", !.attempted = TRUE,
                                              !.commit = None])
SYNC_RECOVERED_CLEAN == Rule(Exact, [j EXCEPT !.phase = "RECONCILED", !.attempted = TRUE])

EXTERNAL_DELETE_BASELINE(before, staged) ==
    [NoJournal EXCEPT !.kind = "external", !.phase = "BASELINE", !.before = before,
                      !.staged = staged]
EXTERNAL_DELETE_INTENT == Phase({"BASELINE"}, "INTENT")
EXTERNAL_DELETE_HOST_COMMITTED == Phase({"INTENT", "OUTCOME_UNKNOWN"}, "HOST_COMMITTED")
EXTERNAL_DELETE_RECONCILED == Phase({"HOST_COMMITTED"}, "RECONCILED")
EXTERNAL_DELETE_ABORTED == Phase({"BASELINE", "INTENT", "OUTCOME_UNKNOWN"}, "ABORTED")
EXTERNAL_DELETE_OUTCOME_UNKNOWN == Phase({"INTENT", "HOST_COMMITTED"}, "OUTCOME_UNKNOWN")

\* The phase INTENT of a batch is STARTED with an item pending.
BATCH_STARTED == Phase({"BASELINE"}, "STARTED")
BATCH_ITEM_INTENT == Rule(j.phase = "STARTED" /\ ~j.pending /\ j.done < Len(j.names),
                          [j EXCEPT !.pending = TRUE])
BATCH_ITEM_RECONCILED == Rule(j.phase = "STARTED" /\ j.pending,
                              [j EXCEPT !.done = @ + 1, !.pending = FALSE])
BATCH_RECONCILED == Rule(j.phase = "STARTED" /\ ~j.pending /\ j.done = Len(j.names),
                         [j EXCEPT !.phase = "RECONCILED"])

\* append_checked refuses an illegal record by raising.
AppendChecked(rule, to) == IF rule.legal THEN j' = rule.next /\ step' = to
                                         ELSE j' = j /\ step' = "idle"

\* t2_mutation_registry: the phases that let another mutation begin.
Complete == [none |-> {"NONE"}, sync |-> {"RECONCILED", "ABORTED"},
             external |-> {"BASELINE", "RECONCILED", "ABORTED"},
             batch |-> {"BASELINE", "RECONCILED"}]
Blocks == j.phase \notin Complete[j.kind] \/ child # None

Startable == step = "idle" /\ ~Blocks /\ store.txn = "none" /\ ops < MaxOps

Clean == ~sep.dirty /\ ~sep.mdirty

\* t2_identity_inventory.summarize
LocalLiveEqual == /\ sep.loaded /\ sep.ids = store.user.ids
                  /\ sep.ids = {} => Clean

\* t2_fprint_projection.project: the fingers present, in their fixed order.
Projection(ids) == SelectSeq(Order, LAMBDA f : f \in ids)
Secure == [ids |-> sep.ids, gen |-> sep.gen]

InventoryInit ==
        /\ mode \in {"native", "compat"}
        /\ sep = [ids |-> Fingers, gen |-> 0, dirty |-> FALSE, mdirty |-> FALSE, loaded |-> TRUE]
        /\ store = [user |-> [ids |-> Fingers, blob |-> Secure, save |-> 0], master |-> 0,
                    txn |-> "none", files |-> [user |-> None, master |-> None]]
        /\ j = NoJournal /\ child = None /\ backups = {} /\ step = "idle"
        /\ boot = 0 /\ failures = 0 /\ ops = 0 /\ saves = 0 /\ foreign = {}

-----------------------------------------------------------------------------
(* The local transaction both archive commands go through. *)

\* A mutant: an error is recorded as if nothing had been sent.
AbortedInstead == j' = [j EXCEPT !.phase = "ABORTED"] /\ step' = "idle"

\* Every error after the intent, and what the handler still records of it.
OutcomeUnknown ==
    AppendChecked(IF j.kind = "sync" THEN SYNC_OUTCOME_UNKNOWN
                                     ELSE EXTERNAL_DELETE_OUTCOME_UNKNOWN, "idle")

BeginStage == /\ step = "begin_stage" /\ store' = [store EXCEPT !.txn = "prepare"]
              /\ step' = "stage_user"
              /\ UNCHANGED <<rest, sep, j, failures, saves>>

\* The directory may have been made when the error is raised.
BeginStageFails ==
    /\ step = "begin_stage" /\ Fails
    /\ \E txn \in {"none", "prepare"} : store' = [store EXCEPT !.txn = txn]
    /\ IF j.kind = "sync" /\ ~j.attempted
       THEN AppendChecked(SYNC_ABORTED_BEFORE_DISPATCH, "idle") ELSE OutcomeUnknown
    /\ UNCHANGED <<rest, sep, saves>>

\* A mutant: the staged file is not written.
StageCreateOnly ==
    /\ step \in {"stage_user", "stage_master"}
    /\ store' = [store EXCEPT !.files.user = Torn] /\ step' = "cross"
    /\ UNCHANGED <<rest, sep, j, failures, saves>>

StageCreate ==
    /\ step \in {"stage_user", "stage_master"}
    /\ store' = IF step = "stage_user" THEN [store EXCEPT !.files.user = Torn]
                                     ELSE [store EXCEPT !.files.master = Torn]
    /\ step' = IF step = "stage_user" THEN "write_user" ELSE "write_master"
    /\ UNCHANGED <<rest, sep, j, failures, saves>>

\* A mutant: a prune stages another encoding than the one it journaled.
StageWriteAnew ==
    /\ step = "write_user" /\ j.kind = "external" /\ saves' = saves + 1
    /\ store' = [store EXCEPT !.files.user = [j.staged EXCEPT !.save = saves + 1]]
    /\ step' = "cross"
    /\ UNCHANGED <<rest, sep, j, failures>>

\* A sync wraps what the SEP exports now; a prune keeps the bytes it journaled.
StageWrite ==
    /\ step \in {"write_user", "write_master"} /\ saves' = saves + 1
    /\ CASE step = "write_master" ->
              store' = [store EXCEPT !.files.master = saves + 1] /\ step' = "cross"
         [] step = "write_user" /\ j.kind = "sync" ->
              /\ store' = [store EXCEPT !.files.user =
                              [store.user EXCEPT !.blob = Secure, !.save = saves + 1]]
              /\ step' = "confirm_user"
         [] OTHER -> store' = [store EXCEPT !.files.user = j.staged] /\ step' = "cross"
    /\ UNCHANGED <<rest, sep, j, failures>>

\* The user's save is acknowledged before the batch is committed, because the
\* master export that follows depends on it.  External: which may dirty the master.
ConfirmUser ==
    /\ step = "confirm_user"
    /\ \E m \in BOOLEAN : sep' = [sep EXCEPT !.dirty = FALSE, !.mdirty = m]
    /\ step' = "stage_master"
    /\ UNCHANGED <<rest, store, j, failures, saves>>

Cross == /\ step = "cross" /\ store' = [store EXCEPT !.txn = "commit"] /\ step' = "roll_forward"
         /\ UNCHANGED <<rest, sep, j, failures, saves>>

NoFiles == [user |-> None, master |-> None]
Discarded == [store EXCEPT !.txn = "none", !.files = NoFiles]
RolledForward ==
    [Discarded EXCEPT !.user = IF store.files.user = None THEN @ ELSE store.files.user,
                      !.master = IF store.files.master = None THEN @ ELSE store.files.master]

RollForward == /\ step = "roll_forward" /\ store' = RolledForward /\ step' = "HOST_COMMITTED"
               /\ UNCHANGED <<rest, sep, j, failures, saves>>

SyncHostCommitted ==
    /\ step = "HOST_COMMITTED" /\ j.kind = "sync"
    /\ AppendChecked(SYNC_HOST_COMMITTED, "confirm_master")
    /\ UNCHANGED <<rest, sep, store, failures, saves>>

ExternalHostCommitted ==
    /\ step = "HOST_COMMITTED" /\ j.kind = "external"
    /\ AppendChecked(EXTERNAL_DELETE_HOST_COMMITTED, "readback")
    /\ UNCHANGED <<rest, sep, store, failures, saves>>

ConfirmMaster == /\ step = "confirm_master" /\ sep' = [sep EXCEPT !.mdirty = FALSE]
                 /\ step' = "readback"
                 /\ UNCHANGED <<rest, store, j, failures, saves>>

\* An export, an encoding, a staging, a commit, a confirmation or the readback fails.
\* A reply lost after its call took effect is the failure of the step after it.
StepFails == /\ step \in {"stage_user", "write_user", "confirm_user", "stage_master",
                        "write_master", "cross", "roll_forward", "confirm_master", "readback"}
             /\ Fails /\ OutcomeUnknown
             /\ UNCHANGED <<rest, sep, store, saves>>

SyncReadsBack == LocalLiveEqual /\ Clean /\ <<store.user, store.master>> = j.commit

\* t2_external_delete_reconcile.verify, on the archive its intent named.
PruneVerified == LocalLiveEqual /\ store.user.ids = j.staged.ids

\* A mutant: the readback trusts the store.
ExternalReadsStore == store.user = j.staged

ExternalReadsBack == store.user = j.staged /\ PruneVerified

SyncReadback == /\ step = "readback" /\ j.kind = "sync"
                /\ IF SyncReadsBack THEN AppendChecked(SYNC_RECONCILED, "idle")
                   ELSE OutcomeUnknown
                /\ UNCHANGED <<rest, sep, store, failures, saves>>

ExternalReadback == /\ step = "readback" /\ j.kind = "external"
                    /\ IF ExternalReadsBack THEN AppendChecked(EXTERNAL_DELETE_RECONCILED, "idle")
                       ELSE OutcomeUnknown
                    /\ UNCHANGED <<rest, sep, store, failures, saves>>

-----------------------------------------------------------------------------
(* The save of an adaptive update. *)

OnlyUserDirty == sep.dirty /\ ~sep.mdirty

RunSync ==
    /\ mode = "compat" /\ Startable /\ LocalLiveEqual /\ OnlyUserDirty
    /\ j' = [NoJournal EXCEPT !.kind = "sync", !.phase = "BASELINE"] /\ step' = "SYNC_INTENT"
    /\ ops' = ops + 1
    /\ UNCHANGED <<mode, sep, store, child, backups, boot, failures, saves, foreign>>

SyncIntent == /\ step = "SYNC_INTENT" /\ AppendChecked(SYNC_INTENT, "begin_stage")
              /\ UNCHANGED <<rest, sep, store, failures, saves>>

\* pending_catacomb_sync_recovery: only an ambiguous sync is taken up.
Ambiguous == j.kind = "sync" /\ j.phase = "OUTCOME_UNKNOWN"

RecoverSync ==
    /\ step = "idle" /\ Ambiguous /\ store.txn = "none" /\ LocalLiveEqual /\ Exact
    /\ \/ Clean /\ AppendChecked(SYNC_RECOVERED_CLEAN, "idle")
       \/ OnlyUserDirty /\ AppendChecked(SYNC_RECOVERY_INTENT, "begin_stage")
    /\ UNCHANGED <<rest, sep, store, failures, saves>>

-----------------------------------------------------------------------------
(* Pruning one externally deleted finger. *)

\* A mutant: an inventory that still needs a save is taken at its word.
PlannedDirty(gone) == sep.loaded /\ gone = store.user.ids \ sep.ids /\ Cardinality(gone) = 1
                      /\ sep.ids \subseteq store.user.ids

\* t2_external_delete_reconcile.plan: exactly one local-only identity.
Planned(gone) == /\ sep.loaded /\ Clean
                 /\ sep.ids \subseteq store.user.ids
                 /\ gone = store.user.ids \ sep.ids /\ Cardinality(gone) = 1

\* At service start a native installation prunes only to an empty inventory:
\* other differences may be another installation's.
Admitted(if_needed) == if_needed /\ mode = "native" => sep.ids = {}

RunExternal(if_needed, gone) ==
    /\ Startable /\ Planned(gone) /\ Admitted(if_needed)
    /\ step' = "backup" /\ ops' = ops + 1
    /\ UNCHANGED <<mode, sep, store, j, child, backups, boot, failures, saves, foreign>>

\* At service start, when no journal is pending; another mode never comes here.
StartupReconciles(gone) == mode = "native" /\ RunExternal(TRUE, gone)

CreateBackup == /\ step = "backup" /\ backups' = backups \cup {store.user}
                /\ step' = "EXTERNAL_BASELINE"
                /\ UNCHANGED <<mode, sep, store, j, child, boot, failures, ops, saves, foreign>>

ExternalBaseline ==
    /\ step = "EXTERNAL_BASELINE" /\ step' = "EXTERNAL_INTENT"
    /\ j' = EXTERNAL_DELETE_BASELINE(store.user, [store.user EXCEPT !.ids = sep.ids])
    /\ UNCHANGED <<rest, sep, store, failures, saves>>

ExternalIntent ==
    /\ step = "EXTERNAL_INTENT" /\ AppendChecked(EXTERNAL_DELETE_INTENT, "begin_stage")
    /\ UNCHANGED <<rest, sep, store, failures, saves>>

\* discard_prepare takes only a complete file with the journaled bytes.
Discardable == store.files.user \in {None, j.staged}

ExternalDirection == CASE store.txn = "prepare" -> Discarded
                       [] store.txn = "commit" -> RolledForward
                       [] OTHER -> store

RecoverExternal ==
    /\ step = "idle" /\ j.kind = "external" /\ Blocks
    /\ store.txn = "prepare" => j.phase # "HOST_COMMITTED" /\ Discardable
    /\ store' = ExternalDirection
    /\ step' = IF store.txn = "prepare" THEN "EXTERNAL_ABORTED" ELSE "external_classify"
    /\ UNCHANGED <<rest, sep, j, failures, saves>>

ExternalAborted == /\ step = "EXTERNAL_ABORTED" /\ AppendChecked(EXTERNAL_DELETE_ABORTED, "idle")
                   /\ UNCHANGED <<rest, sep, store, failures, saves>>

ExternalClassify ==
    /\ step = "external_classify"
    /\ CASE store.user = j.before /\ j.phase # "HOST_COMMITTED" ->
              AppendChecked(EXTERNAL_DELETE_ABORTED, "idle")
         [] store.user = j.staged ->
              IF j.phase = "HOST_COMMITTED" THEN j' = j /\ step' = "external_readback"
              ELSE AppendChecked(EXTERNAL_DELETE_HOST_COMMITTED, "external_readback")
         [] OTHER -> j' = j /\ step' = "idle"
    /\ UNCHANGED <<rest, sep, store, failures, saves>>

RecoveredReadback ==
    /\ step = "external_readback"
    /\ IF ExternalReadsBack THEN AppendChecked(EXTERNAL_DELETE_RECONCILED, "idle")
       ELSE j' = j /\ step' = "idle"
    /\ UNCHANGED <<rest, sep, store, failures, saves>>

-----------------------------------------------------------------------------
(* The purge. *)

Remaining == SubSeq(j.names, j.done + 1, Len(j.names))
Purging == j.kind = "batch" /\ j.phase = "STARTED"   \* INTENT when an item is pending

RunPurge ==
    /\ mode = "native" /\ Startable /\ LocalLiveEqual /\ sep.ids # {}
    /\ j' = [NoJournal EXCEPT !.kind = "batch", !.phase = "BASELINE",
                              !.names = Projection(store.user.ids)]
    /\ step' = "BATCH_STARTED" /\ ops' = ops + 1
    /\ UNCHANGED <<mode, sep, store, child, backups, boot, failures, saves, foreign>>

BatchStarted == /\ step = "BATCH_STARTED" /\ AppendChecked(BATCH_STARTED, "loop")
                /\ UNCHANGED <<rest, sep, store, failures, saves>>

ItemIntent == /\ step = "loop" /\ Remaining # <<>>
              /\ AppendChecked(BATCH_ITEM_INTENT, "delete")
              /\ UNCHANGED <<rest, sep, store, failures, saves>>

Target == Head(Remaining)
Deletable == child = None /\ store.txn = "none" /\ LocalLiveEqual /\ Target \in sep.ids
SepWithout(dirty) == [sep EXCEPT !.ids = @ \ {Target}, !.dirty = dirty, !.mdirty = dirty]
HostWithout == [store EXCEPT !.user.ids = @ \ {Target}, !.user.save = saves + 1,
                             !.user.blob = [ids |-> sep.ids \ {Target}, gen |-> sep.gen]]

\* run_delete of one item: reconciled,
ItemDeleted ==
    /\ step = "delete" /\ Deletable
    /\ sep' = SepWithout(FALSE) /\ store' = HostWithout /\ saves' = saves + 1
    /\ step' = "ITEM_RECONCILED"
    /\ UNCHANGED <<rest, j, failures>>

\* refused or not deleted,
ItemRefused == /\ step = "delete" /\ (Fails \/ (~Deletable /\ UNCHANGED failures)) /\ step' = "idle"
               /\ UNCHANGED <<rest, sep, store, j, saves>>

\* or interrupted: before or after the SEP deleted it, or the host committed it.
ItemInterrupted ==
    /\ step = "delete" /\ Deletable /\ Fails /\ step' = "idle"
    /\ child' = [name |-> Target, count |-> Cardinality(store.user.ids)]
    /\ \/ UNCHANGED <<sep, store, saves>>
       \/ sep' = SepWithout(TRUE) /\ UNCHANGED <<store, saves>>
       \/ sep' = SepWithout(FALSE) /\ store' = HostWithout /\ saves' = saves + 1
    /\ UNCHANGED <<mode, j, backups, boot, ops, foreign>>

\* A mutant: an item is closed before its deletion.
ItemReconciledEarly ==
    /\ step \in {"delete", "ITEM_RECONCILED"} /\ step' = "loop"
    /\ j' = [j EXCEPT !.done = @ + 1, !.pending = FALSE]
    /\ UNCHANGED <<rest, sep, store, failures, saves>>

ItemReconciled == /\ step = "ITEM_RECONCILED" /\ AppendChecked(BATCH_ITEM_RECONCILED, "loop")
                  /\ UNCHANGED <<rest, sep, store, failures, saves>>

BatchReconciled ==
    /\ step = "loop" /\ Remaining = <<>>
    /\ IF LocalLiveEqual /\ sep.ids = {} THEN AppendChecked(BATCH_RECONCILED, "idle")
       ELSE j' = j /\ step' = "idle"
    /\ UNCHANGED <<rest, sep, store, failures, saves>>

\* The interrupted deletion belongs to the pending item.
Bound == /\ Purging /\ j.pending /\ child.name = Target
         /\ child.count = Len(Remaining)

ResumePurge == /\ step = "idle" /\ mode = "native" /\ Purging
               /\ child # None => Bound
               /\ step' = IF child # None THEN "resume_child" ELSE "resume_inventory"
               /\ UNCHANGED <<rest, sep, store, j, failures, saves>>

\* run_delete_recovery: present means it was not deleted, absent is pruned from
\* the archive.
DeleteRecovered ==
    /\ child # None /\ sep.loaded /\ child' = None
    /\ IF Target \in sep.ids \/ Target \notin store.user.ids
       THEN UNCHANGED <<sep, store, saves>>
       ELSE sep' = SepWithout(FALSE) /\ store' = HostWithout /\ saves' = saves + 1
    /\ UNCHANGED <<mode, j, backups, boot, failures, ops, foreign>>

RecoverChild == step = "resume_child" /\ step' = "resume_inventory" /\ DeleteRecovered

\* What the reconciler at service start takes up: the interrupted deletion, if it
\* belongs to the purge; the purge itself only awaits its resumption.
PendingNativeCandidate == CASE child # None /\ Bound -> "delete-recovery"
                            [] child = None /\ Purging -> "delete-batch"
                            [] OTHER -> "none"

ReconcilerRecovers == /\ step = "idle" /\ mode = "native"
                      /\ PendingNativeCandidate = "delete-recovery"
                      /\ DeleteRecovered /\ UNCHANGED step

\* A mutant: the purge resumes with the next item, whatever is left.
ResumeInventoryUnchecked ==
    /\ step = "resume_inventory" /\ LocalLiveEqual
    /\ step' = IF j.pending THEN "ITEM_RECONCILED" ELSE "loop"
    /\ UNCHANGED <<rest, sep, store, j, failures, saves>>

ResumeInventory ==
    /\ step = "resume_inventory"
    /\ LET current == Projection(store.user.ids) IN
       step' = CASE LocalLiveEqual /\ j.pending /\ current = Tail(Remaining) -> "ITEM_RECONCILED"
               [] LocalLiveEqual /\ current = Remaining -> IF j.pending THEN "delete" ELSE "loop"
               [] OTHER -> "idle"
    /\ UNCHANGED <<rest, sep, store, j, failures, saves>>

-----------------------------------------------------------------------------
(* The rest of the system. *)

\* External: a match refines a template, which then needs a save.
TemplateUpdated ==
    /\ step = "idle" /\ mode = "compat" /\ sep.loaded /\ sep.ids # {} /\ sep.gen < MaxGen
    /\ sep' = [sep EXCEPT !.gen = @ + 1, !.dirty = TRUE]
    /\ UNCHANGED <<rest, store, j, step, failures, saves>>

\* restore_for_enrollment on a cold T2; what the SEP makes of a pruned archive
\* over an older export is its own affair.
RestoreState ==
    /\ step = "idle" /\ ~sep.loaded /\ store.txn = "none"
    /\ \E ids \in {store.user.ids, store.user.blob.ids} :
          sep' = [ids |-> ids, gen |-> store.user.blob.gen,
                  dirty |-> FALSE, mdirty |-> FALSE, loaded |-> TRUE]
    /\ UNCHANGED <<rest, store, j, step, failures, saves>>

Crash == /\ step # "idle" /\ Fails /\ step' = "idle"
         /\ UNCHANGED <<rest, sep, store, j, saves>>

\* Another system may have deleted a finger, or left the T2 cold, or left an
\* emptied user component that needs a save.
Reboot ==
    /\ boot < MaxBoots /\ boot' = boot + 1 /\ step' = "idle"
    /\ \/ UNCHANGED <<sep, foreign>>
       \/ sep' = [sep EXCEPT !.ids = {}, !.loaded = FALSE, !.dirty = FALSE, !.mdirty = FALSE]
          /\ UNCHANGED foreign
       \/ sep.loaded /\ sep' = [sep EXCEPT !.ids = {}, !.dirty = TRUE] /\ UNCHANGED foreign
       \/ \E f \in sep.ids : /\ sep' = [sep EXCEPT !.ids = @ \ {f}, !.dirty = FALSE, !.mdirty = FALSE]
                             /\ foreign' = foreign \cup {f}
    /\ UNCHANGED <<mode, store, j, child, backups, failures, ops, saves>>

InventoryNext == \/ BeginStage \/ BeginStageFails \/ StageCreate \/ StageWrite \/ ConfirmUser \/ Cross
        \/ RollForward \/ SyncHostCommitted \/ ExternalHostCommitted \/ ConfirmMaster \/ StepFails
        \/ SyncReadback \/ ExternalReadback
        \/ RunSync \/ SyncIntent \/ RecoverSync
        \/ \E gone \in SUBSET Fingers : RunExternal(FALSE, gone) \/ StartupReconciles(gone)
        \/ CreateBackup \/ ExternalBaseline \/ ExternalIntent \/ RecoverExternal
        \/ ExternalAborted \/ ExternalClassify \/ RecoveredReadback
        \/ RunPurge \/ BatchStarted \/ ItemIntent \/ ItemDeleted \/ ItemRefused \/ ItemInterrupted
        \/ ItemReconciled \/ BatchReconciled \/ ResumePurge \/ RecoverChild \/ ReconcilerRecovers
        \/ ResumeInventory
        \/ TemplateUpdated \/ RestoreState \/ Crash \/ Reboot

InventorySpec == InventoryInit /\ [][InventoryNext]_inventoryVars

-----------------------------------------------------------------------------
(* Properties. *)

\* The types of the variables.
InventoryTypeOK ==
    /\ sep \in [ids : SUBSET Fingers, gen : 0..MaxGen, dirty : BOOLEAN, mdirty : BOOLEAN,
                loaded : BOOLEAN]
    /\ store \in [user : Archive, master : Nat, txn : {"none", "prepare", "commit"},
                  files : [user : Archive \cup {None, Torn}, master : Nat \cup {None, Torn}]]
    /\ j.kind \in DOMAIN Complete /\ j.attempted \in BOOLEAN /\ j.pending \in BOOLEAN
    /\ {j.before, j.staged} \subseteq Archive \cup {None} /\ saves \in Nat
    /\ backups \subseteq Archive /\ foreign \subseteq Fingers

\* A template the SEP holds as saved, and no other system saved, is in the
\* committed archive.  The user's save
\* is acknowledged before the commit, so until then the gap belongs to a sync
\* whose journal keeps every other mutation out.
SavedOrOwned ==
    step = "idle" /\ sep.loaded /\ ~sep.dirty /\ sep.gen # store.user.blob.gen /\ foreign = {}
    => j.kind = "sync" /\ Blocks

\* A journal is closed as reconciled only while the archive it speaks of and the
\* SEP agree on the fingers, and nothing needs a save after a sync or a prune.
ClosesOnTruth ==
    j'.phase = "RECONCILED" /\ j.phase # "RECONCILED"
        => LocalLiveEqual' /\ store.txn' = "none" /\ (j.kind = "sync" => Clean')

\* A prune takes from the archive only a finger another system deleted, and only
\* after the whole archive was backed up, also when recovery rolls it forward.
PruneSound ==
    j.kind = "external" /\ store'.user # store.user
        => /\ store.user.ids \ store'.user.ids \subseteq foreign
           /\ store'.user.ids \subseteq store.user.ids
           /\ store.user \in backups

\* Every interrupted prune is one that its recovery decides: the local
\* transaction or the committed archive is one its journal names, unless a crash
\* tore the staged file.
PruneDecided ==
    step = "idle" /\ j.kind = "external" /\ Blocks /\ store.files.user # Torn =>
        CASE store.txn = "prepare" -> j.phase # "HOST_COMMITTED" /\ Discardable
          [] store.txn = "commit" -> store.files.user = j.staged
          [] OTHER -> \/ store.user = j.staged
                      \/ store.user = j.before /\ j.phase # "HOST_COMMITTED"

\* The items a purge records as done are gone from the archive, and everything
\* it has not reached is still there, across crashes, reboots and cold restores.
PurgeMatchesArchive ==
    j.kind = "batch" =>
        /\ j.done \in 0..Len(j.names)
        /\ step # "ITEM_RECONCILED" =>
             \/ store.user.ids = Range(Remaining)
             \/ j.pending /\ store.user.ids = Range(Tail(Remaining))

\* A purge can be resumed whenever no other system deleted a finger and the SEP
\* holds the archive: its recovery of an interrupted item is bound to it and the
\* inventory is the one it expects.
PurgeResumable ==
    step = "idle" /\ Purging =>
        /\ child # None => Bound
        /\ child = None /\ LocalLiveEqual =>
             Projection(sep.ids) \in {Remaining} \cup
                 (IF j.pending THEN {Tail(Remaining)} ELSE {})

\* A sync that stopped after its commit can be taken up: no other command has
\* changed the archive it committed.
SyncStaysExact ==
    j.kind = "sync" /\ j.commit # None => j.commit = <<store.user, store.master>>

\* The archive and the journals that change it agree at rest.
ArchiveHolds == InventoryTypeOK /\ SavedOrOwned /\ SyncStaysExact /\ PruneDecided

\* A purge's journal and the archive agree, and the purge can go on.
PurgeHolds == PurgeMatchesArchive /\ PurgeResumable

\* No step closes a journal on a difference, or takes a finger nobody deleted
\* from the archive.
ChangesSound == [][ClosesOnTruth /\ PruneSound]_inventoryVars
=============================================================================
