--------------------------- MODULE IdentityRename ---------------------------
(***************************************************************************)
(* Renaming one enrolled finger.  The SEP knows no names: a rename exports *)
(* the user component again, wraps it with the new label and commits it    *)
(* (t2_identity_rename_operation), a recovery settles what an interrupted  *)
(* one left (run_recovery of t2-touchid-manage), and the proof that closes *)
(* it needs another boot (the two post-reboot reconcilers).  A rename      *)
(* blocks every other mutation until then.                                 *)
(*                                                                         *)
(* The archive is its label, the template generation in its secure blob    *)
(* and the export it came from; two exports never have equal bytes.  The   *)
(* identities and the other components never change here.  The store and   *)
(* the journal appear by what CatacombStore and MutationJournal show.      *)
(***************************************************************************)
EXTENDS Naturals, Sequences, FiniteSets, PersistenceTracker

CONSTANTS Names,        \* labels a finger can have
          None, Torn,   \* no file; a file whose bytes do not decode
          MaxFailures, MaxOps, MaxBoots,
          MaxGen        \* bound on template updates by matches

\* What the user component's archive is.
Archive == [name : Names, gen : 0..MaxGen, save : Nat]

\* What a recovery resolves.
Actions == {"prepare-discarded", "commit-rolled-forward", "no-local-transaction"}

ASSUME RenameAssumption == /\ Cardinality(Names) > 1
                           /\ {MaxFailures, MaxOps, MaxBoots, MaxGen} \subseteq Nat
                           /\ {None, Torn} \cap Archive = {} /\ None # Torn /\ None \notin Actions

VARIABLES sep,       \* the user component: template generation, needs_save, loaded
          store,     \* the committed archive and the transaction in flight
          j,         \* the rename journal, replayed
          pc,        \* where the process holding the operation lock is
          boot, failures, ops, saves,
          crossed,   \* this rename's transaction crossed its commit boundary
          rec        \* what the automatic reconciler read, outside the lock

vars == <<sep, store, j, pc, boot, failures, ops, saves, crossed, rec>>

-----------------------------------------------------------------------------
(* The journal: t2_identity_rename_journal.validate_history. *)

NoRename == [phase |-> "NONE", old |-> None, new |-> None, baseline |-> None,
             gen |-> 0, boot |-> 0, action |-> None,
             tracker |-> NewTracker("identity-metadata", FALSE)]

\* The phases run_recovery takes up.
Recoverable == {"INTENT", "PERSISTING", "PERSISTENCE_READY", "OUTCOME_UNKNOWN"}

\* t2_mutation_registry: what keeps other mutations out.
Blocks == j.phase \notin {"NONE", "ABORTED", "POST_REBOOT_VERIFIED"}

PhaseOf(t) == CASE t.phase = "COMPLETE" -> "PERSISTENCE_READY"
                [] t.phase = "OUTCOME_UNKNOWN" -> "OUTCOME_UNKNOWN"
                [] OTHER -> "PERSISTING"

RecordTracker(t) == [j EXCEPT !.tracker = t, !.phase = PhaseOf(t)]
Persists == j.phase \in {"INTENT", "PERSISTING"}

\* The other records: when the history takes them, and what they make of it.
Rule(legal, next) == [legal |-> legal, next |-> next]

RENAME_INTENT == Rule(j.phase = "BASELINE", [j EXCEPT !.phase = "INTENT"])

RENAME_ABORTED_BEFORE_PERSISTENCE ==
    Rule(j.phase = "PERSISTING" /\ j.tracker.phase = "COMPONENT_READY",
         [j EXCEPT !.phase = "ABORTED"])

RENAME_RECONCILED == Rule(j.phase = "PERSISTENCE_READY", [j EXCEPT !.phase = "RECONCILED"])

\* One recovery intent in the life of a rename; a retry repeats its action.
RENAME_RECOVERY_INTENT(action) ==
    Rule(j.phase \in Recoverable /\ j.action = None,
         [j EXCEPT !.action = action, !.phase = "OUTCOME_UNKNOWN"])

\* A rename that was rolled forward cannot be closed as unchanged.
RENAME_RECOVERY_RECONCILED(committed) ==
    Rule(/\ j.phase = "OUTCOME_UNKNOWN" /\ j.action # None
         /\ committed \/ j.action # "commit-rolled-forward",
         [j EXCEPT !.phase = IF committed THEN "RECONCILED" ELSE "ABORTED"])

RENAME_POST_REBOOT_VERIFIED(proof) ==
    Rule(j.phase = "RECONCILED" /\ proof.boot # j.boot,
         [j EXCEPT !.phase = "POST_REBOOT_VERIFIED"])

\* append_checked refuses an illegal record by raising.
AppendChecked(rule, to) == IF rule.legal THEN j' = rule.next /\ pc' = to
                                         ELSE j' = j /\ pc' = "idle"

\* _freeze swallows a refused record; either way the operation stops.
Freeze == /\ j' = IF Persists /\ AcceptsFreeze(j.tracker)
                  THEN RecordTracker(ConsumeFreeze(j.tracker)) ELSE j
          /\ pc' = "idle"

Fails == failures < MaxFailures /\ failures' = failures + 1
world == <<sep, store, boot, ops, saves, crossed, rec>>

-----------------------------------------------------------------------------
(* run_rename, run_rename_native and t2_identity_rename_operation.run. *)

Init == /\ \E n \in Names :
              store = [user |-> [name |-> n, gen |-> 0, save |-> 0], txn |-> "none", file |-> None]
        /\ sep = [gen |-> 0, dirty |-> FALSE, loaded |-> TRUE]
        /\ j = NoRename /\ pc = "idle"
        /\ boot = 0 /\ failures = 0 /\ ops = 0 /\ saves = 0 /\ crossed = FALSE
        /\ rec = None

\* t2_identity_rename.plan, after no other mutation is unfinished.
Startable(n) == /\ ~Blocks /\ store.txn = "none" /\ sep.loaded
                /\ n # store.user.name

Baseline(n) == [NoRename EXCEPT !.phase = "BASELINE", !.old = store.user.name, !.new = n,
                                !.baseline = store.user, !.gen = sep.gen, !.boot = boot]

RunRename(n) ==
    /\ pc = "idle" /\ ops < MaxOps /\ Startable(n)
    /\ j' = Baseline(n) /\ pc' = "RENAME_INTENT" /\ ops' = ops + 1 /\ crossed' = FALSE
    /\ UNCHANGED <<sep, store, boot, failures, saves, rec>>

RenameIntent ==
    /\ pc = "RENAME_INTENT"
    /\ AppendChecked(RENAME_INTENT, "plan")
    /\ UNCHANGED <<world, failures>>

PersistPlan ==
    /\ pc = "plan"
    /\ AppendChecked(Rule(Persists /\ AcceptsPlan(j.tracker, <<<<"user">>>>),
                          RecordTracker(ConsumePlan(j.tracker, <<<<"user">>>>))), "begin_stage")
    /\ UNCHANGED <<world, failures>>

BeginStage ==
    /\ pc = "begin_stage" /\ store' = [store EXCEPT !.txn = "prepare"]
    /\ pc' = "PREPARE_INTENT"
    /\ UNCHANGED <<sep, j, boot, failures, ops, saves, crossed, rec>>

\* The directory may have been made when the error is raised.
BeginStageFails ==
    /\ pc = "begin_stage" /\ Fails
    /\ \E txn \in {"none", "prepare"} : store' = [store EXCEPT !.txn = txn]
    /\ AppendChecked(RENAME_ABORTED_BEFORE_PERSISTENCE, "idle")
    /\ UNCHANGED <<sep, boot, ops, saves, crossed, rec>>

Encoded == [name |-> j.new, gen |-> sep.gen, save |-> saves + 1]

\* A mutant: the export is confirmed before the archive is committed.
ThenConfirmFirst ==
    [PREPARE_INTENT |-> "PREPARED", PREPARED |-> "COMPLETE_INTENT",
     COMPLETE_INTENT |-> "SECURE_BLOB_CAPTURED", SECURE_BLOB_CAPTURED |-> "stage",
     HOST_STAGED |-> "confirm", BATCH_COMMIT_INTENT |-> "cross",
     BATCH_COMMITTED |-> "FINAL_CONFIRM_INTENT", FINAL_CONFIRM_INTENT |-> "FINAL_CONFIRMED",
     FINAL_CONFIRMED |-> "readback", ATTESTED |-> "RENAME_RECONCILED"]

\* A mutant: the component is not staged.
ThenUnstaged == [ThenConfirmFirst EXCEPT !["SECURE_BLOB_CAPTURED"] = "HOST_STAGED",
                                         !["HOST_STAGED"] = "BATCH_COMMIT_INTENT",
                                         !["FINAL_CONFIRM_INTENT"] = "confirm"]

\* What follows a CATACOMB_ record: the next one, or a call.
Then == [PREPARE_INTENT |-> "PREPARED", PREPARED |-> "COMPLETE_INTENT",
         COMPLETE_INTENT |-> "SECURE_BLOB_CAPTURED", SECURE_BLOB_CAPTURED |-> "stage",
         HOST_STAGED |-> "BATCH_COMMIT_INTENT", BATCH_COMMIT_INTENT |-> "cross",
         BATCH_COMMITTED |-> "FINAL_CONFIRM_INTENT", FINAL_CONFIRM_INTENT |-> "confirm",
         FINAL_CONFIRMED |-> "readback", ATTESTED |-> "RENAME_RECONCILED"]

PersistMilestone ==
    /\ pc \in DOMAIN Then
    /\ AppendChecked(Rule(Persists /\ Accepts(j.tracker, pc),
                          RecordTracker(Consume(j.tracker, pc, store.file))), Then[pc])
    /\ UNCHANGED <<world, failures>>

\* prepare, complete or the readback fail, or the blob does not encode.
CallFails == /\ pc \in {"PREPARED", "SECURE_BLOB_CAPTURED", "stage", "stage_write", "readback"}
             /\ Fails /\ Freeze /\ UNCHANGED world

StageCreate == /\ pc = "stage" /\ store' = [store EXCEPT !.file = Torn] /\ pc' = "stage_write"
               /\ UNCHANGED <<sep, j, boot, failures, ops, saves, crossed, rec>>

StageWrite == /\ pc = "stage_write" /\ store' = [store EXCEPT !.file = Encoded]
              /\ saves' = saves + 1 /\ pc' = "HOST_STAGED"
              /\ UNCHANGED <<sep, j, boot, failures, ops, crossed, rec>>

Cross == /\ pc = "cross" /\ store' = [store EXCEPT !.txn = "commit"]
         /\ crossed' = TRUE /\ pc' = "roll_forward"
         /\ UNCHANGED <<sep, j, boot, failures, ops, saves, rec>>

RolledForward == [user |-> store.file, txn |-> "none", file |-> None]
Discarded == [store EXCEPT !.txn = "none", !.file = None]

RollForward == /\ pc = "roll_forward" /\ store' = RolledForward /\ pc' = "BATCH_COMMITTED"
               /\ UNCHANGED <<sep, j, boot, failures, ops, saves, crossed, rec>>

CrossFails == /\ pc \in {"cross", "roll_forward"} /\ Fails /\ Freeze /\ UNCHANGED world

Confirm == /\ pc = "confirm" /\ sep' = [sep EXCEPT !.dirty = FALSE]
           /\ pc' = IF j.tracker.phase = "HOST_STAGED" THEN "BATCH_COMMIT_INTENT"
                    ELSE "FINAL_CONFIRMED"
           /\ UNCHANGED <<store, j, boot, failures, ops, saves, crossed, rec>>

ConfirmFails == /\ pc = "confirm" /\ Fails /\ Freeze
                /\ \E d \in {FALSE, sep.dirty} : sep' = [sep EXCEPT !.dirty = d]
                /\ UNCHANGED <<store, boot, ops, saves, crossed, rec>>

Staged == IF "user" \in StagedNames(j.tracker) THEN j.tracker.staged["user"] ELSE None
SepReady == sep.loaded /\ ~sep.dirty

\* t2_identity_rename_reconciliation.classify
Readback ==
    /\ pc = "readback"
    /\ IF store.user = Staged /\ store.user # j.baseline /\ SepReady
       THEN pc' = "ATTESTED" /\ j' = j ELSE Freeze
    /\ UNCHANGED <<world, failures>>

Reconciled ==
    /\ pc = "RENAME_RECONCILED"
    /\ AppendChecked(RENAME_RECONCILED, "idle")
    /\ UNCHANGED <<world, failures>>

-----------------------------------------------------------------------------
(* run_recovery. *)

Observed == CASE store.txn = "prepare" -> "prepare-discarded"
              [] store.txn = "commit" -> "commit-rolled-forward"
              [] OTHER -> "no-local-transaction"

\* _recovery_component_expectations, and a commit's journaled boundary.
ExpectationsMet ==
    /\ store.txn # "none" => j.tracker.batches # <<>>
    /\ store.txn = "commit" => Staged # None /\ j.tracker.phase = "BATCH_COMMIT_INTENT"

Recover ==
    /\ pc = "idle" /\ j.phase \in Recoverable /\ ExpectationsMet
    /\ IF j.action = None
       THEN AppendChecked(RENAME_RECOVERY_INTENT(Observed), "resolve")
       ELSE Observed \in {j.action, "no-local-transaction"} /\ j' = j /\ pc' = "resolve"
    /\ UNCHANGED <<world, failures>>

\* discard_prepare takes only a file that decodes and, once staged, the staged one.
Discardable == store.file # Torn /\ (store.file # None /\ Staged # None => store.file = Staged)

\* A mutant: a pending commit is discarded as well.
ResolveDiscards ==
    /\ pc = "resolve" /\ pc' = "classify"
    /\ store' = IF store.txn = "none" THEN store ELSE Discarded
    /\ UNCHANGED <<sep, j, boot, failures, ops, saves, crossed, rec>>

\* A mutant: the transaction is left for later.
ResolveLater == pc = "resolve" /\ pc' = "classify" /\ UNCHANGED <<world, j, failures>>

Resolve ==
    /\ pc = "resolve"
    /\ CASE store.txn = "none" -> store' = store /\ pc' = "classify"
         [] j.action = "prepare-discarded" /\ store.txn = "prepare" /\ Discardable ->
              store' = Discarded /\ pc' = "classify"
         [] j.action = "commit-rolled-forward" /\ store.txn = "commit" ->
              store' = RolledForward /\ pc' = "classify"
         [] OTHER -> store' = store /\ pc' = "idle"
    /\ UNCHANGED <<sep, j, boot, failures, ops, saves, crossed, rec>>

\* t2_identity_rename_recovery.classify, on the archive as it would be resolved.
Unchanged(user, action) == /\ user = j.baseline /\ sep.gen = j.gen
                           /\ action # "commit-rolled-forward"

Committed(user, action) == user = Staged /\ action # "prepare-discarded"

\* The outcome names the record.
AppendReconciled(committed) == AppendChecked(RENAME_RECOVERY_RECONCILED(committed), "idle")

\* A mutant: the direction of the recovery decides, not what is read back.
ClassifyByAction ==
    /\ pc = "classify"
    /\ SepReady
    /\ AppendChecked(RENAME_RECOVERY_RECONCILED(j.action = "commit-rolled-forward"), "idle")
    /\ UNCHANGED <<world, failures>>

Classify ==
    /\ pc = "classify"
    /\ LET unchanged == Unchanged(store.user, j.action)
           committed == Committed(store.user, j.action) IN
       IF SepReady /\ unchanged # committed THEN AppendReconciled(committed)
       ELSE j' = j /\ pc' = "idle"
    /\ UNCHANGED <<world, failures>>

-----------------------------------------------------------------------------
(* verify_post_reboot: from the command line, which holds the operation lock,  *)
(* or from the compatibility reconciler at service start, which does not.      *)

\* What the proof compares: the archive, the SEP and the boot.
Material == [user |-> store.user, ready |-> SepReady, boot |-> boot]

Survived(seen) == /\ seen.boot # j.boot /\ seen.ready
                  /\ seen.user = Staged /\ seen.user.name = j.new

\* append_post_reboot_verified proves the history it reads before it appends.
AppendPostRebootVerified(seen) ==
    IF Survived(seen) /\ RENAME_POST_REBOOT_VERIFIED(seen).legal
    THEN RENAME_POST_REBOOT_VERIFIED(seen).next ELSE j

PostRebootVerify ==
    /\ pc = "idle" /\ j.phase = "RECONCILED"
    /\ j' = AppendPostRebootVerified(Material)
    /\ UNCHANGED <<pc, world, failures>>

\* _pending_candidate: the one journal that awaits its proof.
ReconcilerReads ==
    /\ rec = None /\ j.phase = "RECONCILED"
    /\ rec' = [history |-> j, material |-> Material]
    /\ UNCHANGED <<sep, store, j, pc, boot, failures, ops, saves, crossed>>

UnchangedHistory == rec.history = j

ReconcilerAppends ==
    /\ rec # None /\ rec' = None
    /\ j' = IF UnchangedHistory THEN AppendPostRebootVerified(rec.material) ELSE j
    /\ UNCHANGED <<sep, store, pc, boot, failures, ops, saves, crossed>>

-----------------------------------------------------------------------------
(* The rest of the system. *)

\* External: a match refines a template, which then needs a save.
TemplateUpdated ==
    /\ pc = "idle" /\ sep.loaded /\ sep.gen < MaxGen
    /\ sep' = [sep EXCEPT !.gen = @ + 1, !.dirty = TRUE]
    /\ UNCHANGED <<store, j, pc, boot, failures, ops, saves, crossed, rec>>

\* A mutant: the save does not wait for an unfinished rename.
SavedAnyway ==
    /\ pc = "idle" /\ sep.loaded /\ sep.dirty /\ store.txn = "none"
    /\ store' = [store EXCEPT !.user.gen = sep.gen, !.user.save = saves + 1]
    /\ saves' = saves + 1 /\ sep' = [sep EXCEPT !.dirty = FALSE]
    /\ UNCHANGED <<j, pc, boot, failures, ops, crossed, rec>>

\* The save of InventoryChanges, which nothing unfinished may precede.
TemplateSaved ==
    /\ pc = "idle" /\ ~Blocks /\ sep.loaded /\ sep.dirty /\ store.txn = "none"
    /\ store' = [store EXCEPT !.user.gen = sep.gen, !.user.save = saves + 1]
    /\ saves' = saves + 1 /\ sep' = [sep EXCEPT !.dirty = FALSE]
    /\ UNCHANGED <<j, pc, boot, failures, ops, crossed, rec>>

\* restore_for_enrollment: a cold T2 is given the committed archive.
RestoreState ==
    /\ pc = "idle" /\ ~sep.loaded /\ store.txn = "none"
    /\ sep' = [gen |-> store.user.gen, dirty |-> FALSE, loaded |-> TRUE]
    /\ UNCHANGED <<store, j, pc, boot, failures, ops, saves, crossed, rec>>

Crash == /\ pc # "idle" /\ Fails /\ pc' = "idle" /\ UNCHANGED <<world, j>>

Reboot == /\ boot < MaxBoots /\ boot' = boot + 1 /\ pc' = "idle" /\ rec' = None
          /\ \E l \in {FALSE, sep.loaded} : sep' = [sep EXCEPT !.loaded = l]
          /\ UNCHANGED <<store, j, failures, ops, saves, crossed>>

Next == \/ \E n \in Names : RunRename(n)
        \/ RenameIntent \/ PersistPlan \/ BeginStage \/ BeginStageFails \/ PersistMilestone
        \/ CallFails \/ StageCreate \/ StageWrite \/ Cross \/ RollForward \/ CrossFails
        \/ Confirm \/ ConfirmFails \/ Readback \/ Reconciled
        \/ Recover \/ Resolve \/ Classify \/ PostRebootVerify \/ ReconcilerReads \/ ReconcilerAppends
        \/ TemplateUpdated \/ TemplateSaved \/ RestoreState \/ Crash \/ Reboot

Spec == Init /\ [][Next]_vars

-----------------------------------------------------------------------------
(* Properties. *)

\* The types of the variables.
TypeOK ==
    /\ sep \in [gen : 0..MaxGen, dirty : BOOLEAN, loaded : BOOLEAN]
    /\ store.user \in Archive /\ store.txn \in {"none", "prepare", "commit"}
    /\ store.file \in Archive \cup {None, Torn}
    /\ j.phase \in Recoverable \cup {"NONE", "BASELINE", "ABORTED", "RECONCILED",
                                     "POST_REBOOT_VERIFIED"}
    /\ j.tracker.phase \in TrackerPhases /\ boot \in 0..MaxBoots /\ ops \in 0..MaxOps

\* A rename that is reported done is on disk under its new label, with the very
\* bytes its journal staged, whether it finished, was recovered or verified.
RenameSound ==
    /\ j.phase = "RECONCILED" => store.user = Staged /\ store.user.name = j.new
    /\ j.phase = "POST_REBOOT_VERIFIED" => store.user.name = j.new

\* A rename that is reported as not performed left the old label, and its
\* transaction never crossed the commit boundary.
AbortSound == j.phase = "ABORTED" => store.user.name = j.old /\ ~crossed

\* A transaction left in the store belongs to a rename that recovery takes up.
\* The exception is an empty prepare directory whose creation reported an error:
\* its rename is closed, and no command owns the directory.
TransactionOwned ==
    pc = "idle" /\ store.txn # "none" =>
        \/ j.phase \in Recoverable
        \/ j.phase = "ABORTED" /\ store.txn = "prepare" /\ store.file = None

\* A component the SEP holds as saved is the archive's: the export is only
\* confirmed once the archive that wraps it is committed.
CleanMeansSaved == pc = "idle" /\ SepReady => store.user.gen = sep.gen

Resolved == CASE store.txn = "commit" -> store.file [] OTHER -> store.user

\* Recovery of an interrupted rename always finds exactly one outcome, once the
\* SEP is loaded and clean and started from a saved template, however often
\* recovery itself was interrupted.  The exceptions: a commit frozen by an error
\* of its own, and a staged file that was torn.
InterruptedIsDecided ==
    pc = "idle" /\ j.phase \in Recoverable /\ SepReady /\ j.baseline.gen = j.gen
    /\ sep.gen = j.gen /\ ExpectationsMet /\ store.file # Torn
    => LET action == IF j.action = None THEN Observed ELSE j.action IN
       /\ Observed \in {action, "no-local-transaction"}
       /\ Unchanged(Resolved, action) # Committed(Resolved, action)

\* What a rename reports is so, its transaction has an owner, and the SEP counts
\* as saved only what the archive holds.
RenameHolds == TypeOK /\ RenameSound /\ AbortSound /\ TransactionOwned /\ CleanMeansSaved
=============================================================================
