--------------------------- MODULE IdentityDelete ---------------------------
(***************************************************************************)
(* Deleting one enrolled finger, SEP first: the command of                 *)
(* t2_identity_delete_operation, the paired persistence of                 *)
(* t2_identity_delete_persistence and the recovery owner of                *)
(* t2-touchid-manage, run by processes that may die between any two steps  *)
(* on a machine that may lose power, against an SEP whose replies may be   *)
(* lost.                                                                   *)
(*                                                                         *)
(* The mutation journal and the component store appear here by what        *)
(* MutationJournal and CatacombStore show of them: an append is atomic and *)
(* durable, a crossed transaction only rolls forward, an uncrossed one is  *)
(* only discarded.                                                         *)
(***************************************************************************)
EXTENDS Naturals, Sequences, FiniteSets, DeleteJournal

CONSTANTS Ids,          \* enrolled finger identities
          Absent,       \* no such file in the transaction directory
          Torn,         \* a file whose bytes do not decode
          MaxFailures,  \* bound on failures of a behaviour
          MaxOps        \* bound on deletions started

Components == {"user", "master"}

\* A user archive lists identities, a master archive counts them.
Files == [ids : SUBSET Ids, save : Nat] \cup [count : Nat, save : Nat]

ASSUME IdsAssumption == Ids # {} /\ IsFiniteSet(Ids)
ASSUME BoundsAssumption == MaxFailures \in Nat /\ MaxOps \in Nat

ASSUME NamesAssumption == /\ None \notin Actions \cup Nat \cup Files
                          /\ Absent \notin Files \cup {Torn} /\ Torn \notin Files

VARIABLES sep,       \* the SEP's templates and its components that need a save
          store,     \* committed root files and the transaction in flight
          j,         \* the deletion journal, replayed
          pc,        \* where the process holding the operation lock is
          reply,     \* the status its delete command returned
          boot, failures, ops,
          saves,     \* save attempts so far: two saves never have equal bytes
          sent,      \* delete commands sent on behalf of the journal
          committedIn \* the boot in which the deletion reached the root

vars == <<sep, store, j, pc, reply, boot, failures, ops, saves, sent, committedIn>>

NoFiles == [n \in Components |-> Absent]

Survivors == j.baseline["user"].ids \ {j.target}

-----------------------------------------------------------------------------
(* Journal access: append_checked refuses an illegal record by raising. *)

AppendChecked(legal, next, to) == IF legal THEN j' = next /\ pc' = to
                                           ELSE j' = j /\ pc' = "idle"

\* _freeze swallows a refused record; either way the operation stops.
Freeze == /\ j' = IF LegalFreeze(j) THEN RecordFreeze(j) ELSE j
          /\ pc' = "idle"

FreezePersistence ==
    /\ j' = IF LegalPersistence(j) /\ AcceptsFreeze(j.tracker)
            THEN RecordTracker(j, ConsumeFreeze(j.tracker)) ELSE j
    /\ pc' = "idle"

\* An error is one of the boundedly many failures of a behaviour.
Fails == failures < MaxFailures /\ failures' = failures + 1

world == <<sep, store, reply, boot, ops, saves, sent, committedIn>>

-----------------------------------------------------------------------------
(* run_delete up to the readback. *)

Archive(users, ids) == [n \in Components |->
                          IF n = "user" THEN users
                                        ELSE [count |-> Cardinality(ids), save |-> 0]]

\* What an earlier version, which saved the user component alone, left behind
\* when its readback failed.
OldHistory(ids, target, user) ==
    [NewHistory(Archive([ids |-> ids, save |-> 0], ids), target, 0) EXCEPT
        !.phase = "OUTCOME_UNKNOWN",
        !.tracker = [ConsumeFreeze(ConsumePlan(@, <<<<"user">>>>)) EXCEPT
                        !.staged = [n \in {"user"} |-> user]]]

\* A journal that only holds its baseline stands for none: neither blocks.
Init == /\ \E ids \in (SUBSET Ids) \ {{}} : \E target \in ids :
              \/ /\ sep = [ids |-> ids, dirty |-> {}]
                 /\ store = [root |-> Archive([ids |-> ids, save |-> 0], ids),
                             txn |-> "none", files |-> NoFiles]
                 /\ j = NewHistory(store.root, target, 0)
              \/ /\ sep = [ids |-> ids \ {target}, dirty |-> {"master"}]
                 /\ store = [root |-> Archive([ids |-> ids \ {target}, save |-> 0], ids),
                             txn |-> "none", files |-> NoFiles]
                 /\ j = OldHistory(ids, target, store.root["user"])
        /\ pc = "idle" /\ reply = None
        /\ boot = 0 /\ failures = 0 /\ ops = 0 /\ saves = 0 /\ sent = 0
        /\ committedIn = None

\* The registry admits the operation, no transaction is pending, the host
\* archive and the SEP agree, and the baseline is journaled.
RunDelete(target) == /\ pc = "idle" /\ ops < MaxOps
                     /\ j.phase \in Complete
                     /\ store.txn = "none"
                     /\ store.root["user"].ids = sep.ids
                     /\ target \in sep.ids
                     /\ j' = NewHistory(store.root, target, boot)
                     /\ pc' = "DELETE_INTENT"
                     /\ ops' = ops + 1
                     /\ sent' = 0
                     /\ committedIn' = None
                     /\ UNCHANGED <<sep, store, reply, boot, failures, saves>>

\* The milestones that only say how far the process has come, and what it
\* does after them.
Then == [DELETE_INTENT |-> "DELETE_DISPATCH_INTENT", DELETE_DISPATCH_INTENT |-> "send"]

Milestone == /\ pc \in DOMAIN Then
             /\ AppendChecked(Legal(j, pc), RecordMilestone(j, pc), Then[pc])
             /\ UNCHANGED <<world, failures>>

\* bridge.delete returns a status, which the code does not take for the truth.
SendDelete ==
    /\ pc = "send"
    /\ sent' = sent + 1
    /\ reply' \in {"status-zero", "status-error"}
    /\ \/ sep' = [ids |-> sep.ids \ {j.target}, dirty |-> Components]
       \/ sep' = sep
    /\ pc' = "observed"
    /\ UNCHANGED <<store, j, boot, failures, ops, saves, committedIn>>

\* The command is lost, or executed and its reply lost.
SendDeleteFails ==
    /\ pc = "send" /\ Fails
    /\ sent' = sent + 1
    /\ \/ sep' = [ids |-> sep.ids \ {j.target}, dirty |-> Components]
       \/ sep' = sep
    /\ Freeze
    /\ UNCHANGED <<store, reply, boot, ops, saves, committedIn>>

CommandObserved ==
    /\ pc = "observed"
    /\ AppendChecked(Legal(j, "DELETE_COMMAND_OBSERVED"),
                     [RecordMilestone(j, "DELETE_COMMAND_OBSERVED")
                         EXCEPT !.failedStatus = (reply = "status-error")],
                     "read_inventory")
    /\ UNCHANGED <<world, failures>>

InventoryFails == /\ pc = "read_inventory" /\ Fails
                  /\ Freeze
                  /\ UNCHANGED world

\* Mutant: a zero status is taken for the absence of the target.
ReadAbsenceByStatus ==
    /\ pc = "read_inventory"
    /\ ~j.failedStatus
    /\ AppendChecked(Legal(j, "DELETE_SEP_ABSENCE_OBSERVED"),
                     RecordMilestone(j, "DELETE_SEP_ABSENCE_OBSERVED"), "persist")
    /\ UNCHANGED <<world, failures>>

\* Whatever the status, a stable inventory of exactly the survivors decides.
ReadAbsence ==
    /\ pc = "read_inventory"
    /\ sep.ids = Survivors
    /\ AppendChecked(Legal(j, "DELETE_SEP_ABSENCE_OBSERVED"),
                     RecordMilestone(j, "DELETE_SEP_ABSENCE_OBSERVED"), "persist")
    /\ UNCHANGED <<world, failures>>

ExactNoChange == sep.ids = j.baseline["user"].ids /\ sep.ids = store.root["user"].ids

\* Mutant: a failed status alone closes the journal.
ReadUnchangedByStatus ==
    /\ pc = "read_inventory"
    /\ IF j.failedStatus
       THEN AppendChecked(Legal(j, "DELETE_NOT_PERFORMED"),
                          RecordMilestone(j, "DELETE_NOT_PERFORMED"), "idle")
       ELSE Freeze
    /\ UNCHANGED <<world, failures>>

ReadUnchanged ==
    /\ pc = "read_inventory"
    /\ sep.ids # Survivors
    /\ IF j.failedStatus /\ ExactNoChange
       THEN AppendChecked(Legal(j, "DELETE_NOT_PERFORMED"),
                          RecordMilestone(j, "DELETE_NOT_PERFORMED"), "idle")
       ELSE Freeze
    /\ UNCHANGED <<world, failures>>

-----------------------------------------------------------------------------
(* Persistence: pipeline.persist and persistence.run. *)

MasterOnly == j.recoveryUser # None

Batch == IF MasterOnly THEN <<"master">> ELSE <<"user", "master">>

PersistPlan ==
    /\ pc = "persist"
    /\ IF /\ j.phase = "SEP_DELETED"
          /\ store.txn = "none"
          /\ store.root["master"].count = j.baseline["master"].count
       THEN AppendChecked(AcceptsPlan(j.tracker, <<Batch>>),
                          RecordTracker(j, ConsumePlan(j.tracker, <<Batch>>)), "begin_stage")
       ELSE j' = j /\ pc' = "idle"
    /\ saves' = IF j' = j THEN saves ELSE saves + 1
    /\ UNCHANGED <<sep, store, reply, boot, failures, ops, sent, committedIn>>

BeginStage == /\ pc = "begin_stage"
              /\ store' = [store EXCEPT !.txn = "prepare"]
              /\ pc' = "PREPARE_INTENT"
              /\ UNCHANGED <<sep, j, reply, boot, failures, ops, saves, sent, committedIn>>

\* The directory may or may not have been made when the error is raised.
BeginStageFails == /\ pc = "begin_stage" /\ Fails
                   /\ \E txn \in {"none", "prepare"} : store' = [store EXCEPT !.txn = txn]
                   /\ Freeze
                   /\ UNCHANGED <<sep, reply, boot, ops, saves, sent, committedIn>>

\* The clock is behind the committed master: the freeze record, whose reason
\* the journal does not know, is refused and swallowed.
ClockBehind == /\ pc = "PREPARE_INTENT" /\ j.tracker.comp = 1 /\ Fails
               /\ pc' = "idle"
               /\ UNCHANGED <<world, j>>

Encoded(n) == IF n = "user" THEN [ids |-> Survivors, save |-> saves]
              ELSE [count |-> j.baseline["master"].count - 1, save |-> saves]

\* What follows a CATACOMB_ record: the next one, or a call.
ThenPersist ==
    [PREPARE_INTENT       |-> "PREPARED",
     PREPARED             |-> "COMPLETE_INTENT",
     COMPLETE_INTENT      |-> "SECURE_BLOB_CAPTURED",
     SECURE_BLOB_CAPTURED |-> "stage",
     HOST_STAGED          |-> IF FinalComponent(j.tracker) THEN "BATCH_COMMIT_INTENT"
                                                           ELSE "CONFIRM_INTENT",
     CONFIRM_INTENT       |-> "early_confirm",
     CONFIRMED            |-> "PREPARE_INTENT",
     BATCH_COMMIT_INTENT  |-> "cross",
     BATCH_COMMITTED      |-> "FINAL_CONFIRM_INTENT",
     FINAL_CONFIRM_INTENT |-> "final_confirm",
     FINAL_CONFIRMED      |-> "readback",
     ATTESTED             |-> "DELETE_RECONCILED"]

PersistMilestone ==
    /\ pc \in ComponentMilestones
    /\ AppendChecked(LegalPersistence(j) /\ Accepts(j.tracker, pc),
                     RecordTracker(j, Consume(j.tracker, pc, Encoded(Current(j.tracker)))),
                     ThenPersist[pc])
    /\ UNCHANGED <<world, failures>>

\* prepare or complete answers with an error or not at all, the blob does not
\* encode, or the inventory cannot be read.
PersistCallFails == /\ pc \in {"PREPARED", "SECURE_BLOB_CAPTURED", "stage", "readback"}
                    /\ Fails
                    /\ FreezePersistence
                    /\ UNCHANGED world

StageCreate == /\ pc = "stage"
               /\ store' = [store EXCEPT !.files[Current(j.tracker)] = Torn]
               /\ pc' = "stage_write"
               /\ UNCHANGED <<sep, j, reply, boot, failures, ops, saves, sent, committedIn>>

StageWrite == /\ pc = "stage_write"
              /\ store' = [store EXCEPT !.files[Current(j.tracker)] = Encoded(Current(j.tracker))]
              /\ pc' = "HOST_STAGED"
              /\ UNCHANGED <<sep, j, reply, boot, failures, ops, saves, sent, committedIn>>

StageWriteFails == /\ pc = "stage_write" /\ Fails
                   /\ FreezePersistence
                   /\ UNCHANGED world

Confirm == /\ pc \in {"early_confirm", "final_confirm"}
           /\ sep' = [sep EXCEPT !.dirty = @ \ {Current(j.tracker)}]
           /\ pc' = IF pc = "early_confirm" THEN "CONFIRMED" ELSE "FINAL_CONFIRMED"
           /\ UNCHANGED <<store, j, reply, boot, failures, ops, saves, sent, committedIn>>

ConfirmFails == /\ pc \in {"early_confirm", "final_confirm"} /\ Fails
                /\ \/ sep' = [sep EXCEPT !.dirty = @ \ {Current(j.tracker)}]
                   \/ sep' = sep
                /\ FreezePersistence
                /\ UNCHANGED <<store, reply, boot, ops, saves, sent, committedIn>>

\* cross_commit_boundary renames prepare to commit...
Cross == /\ pc = "cross"
         /\ store' = [store EXCEPT !.txn = "commit"]
         /\ pc' = "roll_forward"
         /\ UNCHANGED <<sep, j, reply, boot, failures, ops, saves, sent, committedIn>>

RolledForward(s) ==
    [root |-> [n \in Components |-> IF s.files[n] = Absent THEN s.root[n] ELSE s.files[n]],
     txn |-> "none", files |-> NoFiles]

\* ... and rolls it forward.
RollForward == /\ pc = "roll_forward"
               /\ store' = RolledForward(store)
               /\ committedIn' = boot
               /\ pc' = "BATCH_COMMITTED"
               /\ UNCHANGED <<sep, j, reply, boot, failures, ops, saves, sent>>

CrossFails == /\ pc \in {"cross", "roll_forward"} /\ Fails
              /\ FreezePersistence
              /\ UNCHANGED world

SepClean == sep.dirty = {}

\* t2_identity_delete_reconciliation.classify
Reconciles ==
    /\ store.txn = "none"
    /\ sep.ids = Survivors /\ store.root["user"].ids = Survivors
    /\ store.root["master"].count = j.baseline["master"].count - 1
    /\ IF MasterOnly THEN /\ StagedNames(j.tracker) = {"master"}
                          /\ store.root["user"] = j.recoveryUser
                     ELSE /\ StagedNames(j.tracker) = Components
                          /\ store.root["user"] = j.tracker.staged["user"]
    /\ store.root["master"] = j.tracker.staged["master"]
    /\ SepClean

Readback == /\ pc = "readback"
            /\ IF Reconciles THEN pc' = "ATTESTED" /\ j' = j ELSE FreezePersistence
            /\ UNCHANGED <<world, failures>>

Reconciled == /\ pc = "DELETE_RECONCILED"
              /\ AppendChecked(Legal(j, pc), RecordReconciled(j), "idle")
              /\ UNCHANGED <<world, failures>>

-----------------------------------------------------------------------------
(* run_delete_recovery. *)

\* Mutant: recovery sends a delete that was about to be sent again.
RecoverResends == /\ pc = "idle"
                  /\ j.phase \in Interrupted
                  /\ pc' = IF j.phase = "DISPATCH_INTENT" THEN "send" ELSE "inspect"
                  /\ UNCHANGED <<world, j, failures>>

\* Mutant: a stranded forward recovery is not made retryable.
RecoverUnnormalized == /\ pc = "idle"
                       /\ j.phase \in Interrupted
                       /\ pc' = "inspect"
                       /\ UNCHANGED <<world, j, failures>>

StrandedBeforePersistence == /\ j.phase = "SEP_DELETED"
                             /\ j.action # None
                             /\ j.tracker.phase = "NOT_STARTED"
                             /\ j.tracker.recovered

\* One interrupted deletion is selected and made retryable.
Recover == /\ pc = "idle"
           /\ j.phase \in Interrupted
           /\ j' = IF StrandedBeforePersistence THEN RecordFreeze(j) ELSE j
           /\ pc' = "inspect"
           /\ UNCHANGED <<world, failures>>

ObservedAction == CASE store.txn = "prepare" -> "prepare-discarded"
                    [] store.txn = "commit" -> "commit-rolled-forward"
                    [] OTHER -> "no-local-transaction"

\* _recovery_component_expectations, and the commit's journaled boundary.
BatchNames == {j.tracker.batches[1][i] : i \in 1..Len(j.tracker.batches[1])}

ExpectationsMet ==
    store.txn # "none" =>
        /\ j.tracker.batches # <<>>
        /\ StagedNames(j.tracker) \subseteq BatchNames
        /\ store.txn = "commit" => /\ StagedNames(j.tracker) = BatchNames
                                   /\ j.tracker.phase = "BATCH_COMMIT_INTENT"

Inspect == /\ pc = "inspect"
           /\ IF ~ExpectationsMet THEN j' = j /\ pc' = "idle"
              ELSE IF j.action = None \/ RetryingForward(j)
              THEN AppendChecked(LegalRecoveryIntent(j),
                                 RecordRecoveryIntent(j, ObservedAction, boot), "resolve")
              ELSE /\ j' = j
                   /\ pc' = IF ObservedAction \in {j.action, "no-local-transaction"}
                            THEN "resolve" ELSE "idle"
           /\ UNCHANGED <<world, failures>>

Discardable ==
    \A n \in Components : store.files[n] # Absent =>
        /\ n \in BatchNames
        /\ store.files[n] # Torn
        /\ n \in StagedNames(j.tracker) => store.files[n] = j.tracker.staged[n]

ResolveRefused == /\ pc = "resolve"
                  /\ store.txn = "prepare" /\ ~Discardable
                  /\ pc' = "idle"
                  /\ UNCHANGED <<world, j, failures>>

ResolvePrepare == /\ pc = "resolve"
                  /\ store.txn = "prepare" /\ Discardable
                  /\ store' = [store EXCEPT !.txn = "none", !.files = NoFiles]
                  /\ pc' = "classify"
                  /\ UNCHANGED <<sep, j, reply, boot, failures, ops, saves, sent, committedIn>>

ResolveCommit == /\ pc = "resolve"
                 /\ store.txn = "commit"
                 /\ store' = RolledForward(store)
                 /\ committedIn' = boot
                 /\ pc' = "classify"
                 /\ UNCHANGED <<sep, j, reply, boot, failures, ops, saves, sent>>

ResolveNothing == /\ pc = "resolve"
                  /\ store.txn = "none"
                  /\ pc' = "classify"
                  /\ UNCHANGED <<world, j, failures>>

\* t2_identity_delete_recovery.classify
HostUnchanged == store.root = j.baseline

\* Mutant: the host archive alone proves that nothing changed.
UnchangedHost == HostUnchanged

Unchanged == /\ HostUnchanged
             /\ sep.ids = store.root["user"].ids
             /\ SepClean
             /\ j.action # "commit-rolled-forward"

HostHasSurvivors == store.root["user"].ids = Survivors /\ sep.ids = Survivors

\* Mutant: a committed host pair is enough.
CommittedDirty == /\ HostHasSurvivors
                  /\ StagedNames(j.tracker) = Components
                  /\ store.root = j.tracker.staged

Committed == /\ HostHasSurvivors
             /\ StagedNames(j.tracker) = Components
             /\ store.root = j.tracker.staged
             /\ SepClean

ForwardRequired == /\ HostUnchanged
                   /\ sep.ids = Survivors
                   /\ sep.dirty = Components
                   /\ j.action # "commit-rolled-forward"

MasterForwardRequired == /\ HostHasSurvivors
                         /\ "user" \in StagedNames(j.tracker)
                         /\ store.root["user"] = j.tracker.staged["user"]
                         /\ sep.dirty = {"master"}
                         /\ j.action # "prepare-discarded"

\* classify, append_observed and, for a forward repair, on to persistence.
\* No two outcomes can hold at once; without any, classify raises.
Classify ==
    /\ pc = "classify"
    /\ IF ~Recovering(j) THEN j' = j /\ pc' = "idle"
       ELSE \/ Unchanged /\ AppendChecked(LegalNoChange(j), RecordNoChange(j), "idle")
            \/ Committed /\ AppendChecked(LegalCommitted(j), RecordCommitted(j), "idle")
            \/ ForwardRequired /\ AppendChecked(LegalForward(j), RecordForward(j), "persist")
            \/ /\ MasterForwardRequired
               /\ AppendChecked(LegalMasterForward(j, store.root["user"]),
                                RecordMasterForward(j, store.root["user"]), "persist")
            \/ /\ ~(Unchanged \/ Committed \/ ForwardRequired \/ MasterForwardRequired)
               /\ j' = j /\ pc' = "idle"
    /\ UNCHANGED <<world, failures>>

\* Mutant: any boot verifies.
SurvivedSoFar == /\ HostHasSurvivors
                 /\ store.root["master"] = j.tracker.staged["master"]
                 /\ store.root["user"] = IF MasterOnly THEN j.recoveryUser
                                         ELSE j.tracker.staged["user"]
                 /\ SepClean

\* t2_identity_delete_reconciliation.verify_post_reboot, in a later boot.
Survived == /\ boot # j.reconciledBoot /\ HostHasSurvivors
            /\ store.root["master"] = j.tracker.staged["master"]
            /\ store.root["user"] = IF MasterOnly THEN j.recoveryUser
                                    ELSE j.tracker.staged["user"]
            /\ SepClean

AppendPostRebootVerified == Survived /\ j' = RecordMilestone(j, "DELETE_POST_REBOOT_VERIFIED")

\* run_delete_post_reboot_verification, on a connection of its own.
VerifyPostReboot ==
    /\ pc = "idle" /\ j.phase = "RECONCILED" /\ store.txn = "none"
    /\ AppendPostRebootVerified
    /\ UNCHANGED <<world, pc, failures>>

-----------------------------------------------------------------------------
(* Failures of the host. *)

ProcessExit == /\ pc # "idle" /\ Fails
               /\ pc' = "idle"
               /\ UNCHANGED <<world, j>>

\* A power loss may take back the directory operation not yet synced.  The
\* SEP keeps its state: it is not powered down with the host.
Reboot == /\ Fails
          /\ boot' = boot + 1
          /\ store' \in {store} \cup
                (IF pc = "roll_forward" THEN {[store EXCEPT !.txn = "prepare"]} ELSE {})
          /\ pc' = "idle"
          /\ UNCHANGED <<sep, j, reply, ops, saves, sent, committedIn>>

Operate == \/ Milestone \/ SendDelete \/ CommandObserved
           \/ ReadAbsence \/ ReadUnchanged

Persist == \/ PersistPlan \/ BeginStage \/ PersistMilestone \/ StageCreate
           \/ StageWrite \/ Confirm \/ Cross \/ RollForward \/ Readback \/ Reconciled

RecoverStep == \/ Recover \/ Inspect \/ ResolveRefused \/ ResolvePrepare
               \/ ResolveCommit \/ ResolveNothing \/ Classify

Failure == \/ SendDeleteFails \/ InventoryFails \/ BeginStageFails \/ ClockBehind
           \/ PersistCallFails \/ StageWriteFails \/ ConfirmFails \/ CrossFails
           \/ ProcessExit \/ Reboot

Next == \/ \E target \in Ids : RunDelete(target)
        \/ Operate \/ Persist \/ RecoverStep
        \/ VerifyPostReboot
        \/ Failure

Spec == Init /\ [][Next]_vars

\* A running process is scheduled, and the recovery owner, which every start
\* of the service dispatches, is run again after it stopped.
FairSpec == Spec /\ WF_vars(Operate) /\ WF_vars(Persist) /\ WF_vars(RecoverStep)

-----------------------------------------------------------------------------
(* Properties. *)

PCs == {"idle", "send", "observed", "read_inventory", "persist", "begin_stage",
        "stage", "stage_write", "early_confirm", "cross", "roll_forward",
        "final_confirm", "readback", "inspect", "resolve", "classify"}
       \cup DOMAIN Then \cup ComponentMilestones \cup {"DELETE_RECONCILED"}

IsRoot(r) == /\ DOMAIN r = Components
             /\ r["user"] \in [ids : SUBSET Ids, save : Nat]
             /\ r["master"] \in [count : Nat, save : Nat]

\* The types of the variables.
TypeOK ==
    /\ sep.ids \subseteq Ids /\ sep.dirty \subseteq Components
    /\ IsRoot(store.root) /\ IsRoot(j.baseline)
    /\ store.txn \in {"none", "prepare", "commit"}
    /\ store.files \in [Components -> Files \cup {Absent, Torn}]
    /\ j.phase \in DeletePhases
    /\ j.action \in Actions \cup {None}
    /\ j.tracker.phase \in TrackerPhases
    /\ j.tracker.batches # <<>> => j.tracker.comp \in 1..Len(j.tracker.batches[1])
    /\ StagedNames(j.tracker) \subseteq Components
    /\ j.target \in j.baseline["user"].ids
    /\ pc \in PCs
    /\ {boot, failures, ops, saves, sent} \subseteq Nat

\* A deletion reported complete is complete everywhere: the SEP and the host
\* archive hold exactly the survivors, the SEP has nothing left to save and no
\* transaction is pending, whichever path through recovery closed the journal.
ReconciledSound ==
    j.phase \in {"RECONCILED", "POST_REBOOT_VERIFIED"} =>
        /\ sep.ids = Survivors /\ sep.dirty = {}
        /\ store.root["user"].ids = Survivors
        /\ store.root["master"].count = j.baseline["master"].count - 1
        /\ store.txn = "none"

\* A deletion reported as not performed left the SEP and the host as they were.
AbortedSound ==
    j.phase = "ABORTED" => /\ sep.ids = j.baseline["user"].ids /\ sep.dirty = {}
                           /\ store.root = j.baseline
                           /\ store.txn = "none"

\* SEP first: the host archive, as any later recovery will read it, never
\* forgets a finger the SEP still accepts.
HostNeverAhead ==
    sep.ids \subseteq (IF store.txn = "commit" THEN RolledForward(store) ELSE store).root["user"].ids

\* While the SEP and the host disagree, a component waits to be saved or a
\* transaction is pending, the journal keeps the registry closed.
InconsistencyIsOwned ==
    \/ sep.ids # store.root["user"].ids
    \/ sep.dirty # {}
    \/ store.txn # "none"
    => j.phase \in Interrupted

\* The delete command is sent once for a journal, and never by recovery.
NoResend == sent' > sent => sent = 0 /\ j.action = None

\* The environment has done its worst.
Settled == failures = MaxFailures

\* A deletion interrupted before its persistence began is closed by recovery,
\* also when an earlier recovery stopped at the same point.  Excepted: the master
\* save of an old user-only commit, for which classify wants the staged user that
\* the record of the requirement has taken from the tracker.
EarlyRecoveryCompletes ==
    (Settled /\ j.phase \in Interrupted /\ j.tracker.phase = "NOT_STARTED" /\ ~MasterOnly)
        ~> (j.phase \in Complete)

\* The boot that verifies a deletion is not the boot in which it reached the
\* root ("prove a completed biometric mutation survived a fresh boot").
\* Excepted: a recovery that another boot resumed, whose journal keeps the boot
\* of its first run.
VerifiedAfterReboot ==
    j.phase = "RECONCILED" /\ j'.phase = "POST_REBOOT_VERIFIED"
        => boot # committedIn \/ (j.action # None /\ j.recoveryBoot # committedIn)

\* Whatever a closed deletion journal reports, as done or as aborted, is so in
\* the SEP and in the archive (reconcile, classify).
ReportsHold == TypeOK /\ ReconciledSound /\ AbortedSound

\* The archive never runs ahead of the SEP, and a journal owns every difference
\* between them.
ArchiveOwned == HostNeverAhead /\ InconsistencyIsOwned

\* No step of a recovery sends the command again or takes the committing boot
\* for the verifying one.
RecoverySteps == [][NoResend /\ VerifiedAfterReboot]_vars
============================================================================
