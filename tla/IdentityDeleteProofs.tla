------------------------ MODULE IdentityDeleteProofs ------------------------
(***************************************************************************)
(* Proofs about IdentityDelete: what a deletion reports is so, the archive *)
(* is never ahead of the SEP and a journal owns every difference, and no   *)
(* recovery sends the command again, for any set of fingers and any number *)
(* of deletions, failures, reboots and restarts.                           *)
(***************************************************************************)
EXTENDS IdentityDelete, FiniteSetTheorems, TLAPS

-----------------------------------------------------------------------------
(* The inductive invariant. *)

HistoryFields == {"phase", "action", "recoveryUser", "tracker", "baseline", "target",
                  "failedStatus", "boot", "recoveryBoot", "reconciledBoot"}
TrackerFields == {"kind", "recovered", "phase", "batches", "batch", "comp", "staged", "stage"}

Users == [ids : SUBSET Ids, save : Nat]
Masters == [count : Nat, save : Nat]

\* The SEP before the deletion, and without the target.
BaseIds == j.baseline["user"].ids
Before == sep.ids = BaseIds /\ sep.dirty = {}
Gone == sep.ids = Survivors

\* Files that hold the survivors, and the host with both or only the first of them.
SurvivingUser(f) == f \in Users /\ f.ids = Survivors
SurvivingMaster(f) == f \in Masters /\ f.count = j.baseline["master"].count - 1
HostAfter == SurvivingUser(store.root["user"]) /\ SurvivingMaster(store.root["master"])
UserAhead == SurvivingUser(store.root["user"]) /\ store.root["master"] = j.baseline["master"]

\* The component being saved is the last of the plan.
AtLast == j.tracker.comp = IF MasterOnly THEN 1 ELSE 2
Plans == {<<>>, <<<<"user", "master">>>>, <<<<"master">>>>, <<<<"user">>>>}

\* Where the process is, from the transaction's directory to its commit, from
\* there to the readback, and in recovery.
Staging == {"PREPARE_INTENT", "PREPARED", "COMPLETE_INTENT", "SECURE_BLOB_CAPTURED", "stage",
            "stage_write", "HOST_STAGED", "CONFIRM_INTENT", "early_confirm", "CONFIRMED",
            "BATCH_COMMIT_INTENT", "cross"}
Closing == {"BATCH_COMMITTED", "FINAL_CONFIRM_INTENT", "final_confirm", "FINAL_CONFIRMED",
            "readback", "ATTESTED"}
Recovery == {"idle", "inspect", "resolve", "classify"}

\* The journal: its fields, one plan at most, and staged files that hold the
\* survivors and their number.
JournalType ==
    /\ DOMAIN j = HistoryFields /\ DOMAIN j.tracker = TrackerFields
    /\ IsRoot(j.baseline) /\ j.target \in BaseIds
    /\ j.phase \in DeletePhases /\ j.action \in Actions \cup {None}
    /\ j.failedStatus \in BOOLEAN /\ j.recoveryUser \in Users \cup {None}
    /\ j.boot \in Nat /\ j.recoveryBoot \in Nat \cup {None}
    /\ j.tracker.phase \in TrackerPhases
    /\ j.tracker.batches \in Plans /\ j.tracker.batch = 1 /\ j.tracker.comp \in {1, 2}
    /\ j.tracker.batches # <<>> => j.tracker.comp \in 1..Len(j.tracker.batches[1])
    /\ StagedNames(j.tracker) \subseteq Components
    /\ "user" \in StagedNames(j.tracker) => SurvivingUser(j.tracker.staged["user"])
    /\ "master" \in StagedNames(j.tracker) => SurvivingMaster(j.tracker.staged["master"])

SepType == DOMAIN sep = {"ids", "dirty"} /\ sep.ids \subseteq Ids /\ sep.dirty \subseteq Components

StoreType == /\ DOMAIN store = {"root", "txn", "files"} /\ IsRoot(store.root)
             /\ store.txn \in {"none", "prepare", "commit"}
             /\ store.files \in [Components -> Files \cup {Absent, Torn}]

CounterType == {boot, failures, ops, saves, sent} \subseteq Nat

TypeInv == JournalType /\ SepType /\ StoreType /\ CounterType /\ pc \in PCs

\* The master counts what the user component lists.
CountInv ==
    j.baseline["master"].count = Cardinality(BaseIds)

\* On which side of the deletion the SEP, the host and a pending transaction are.
\* The host is past it only when the SEP is.
SideInv ==
    /\ Before \/ Gone
    /\ HostUnchanged \/ (Gone /\ (HostAfter \/ UserAhead))
    /\ store.txn = "none" => store.files = NoFiles
    /\ store.txn = "commit" => /\ Gone /\ SurvivingMaster(store.files["master"])
                               /\ \/ SurvivingUser(store.files["user"])
                                  \/ store.files["user"] = Absent /\ UserAhead
    /\ store.txn # "none" => j.phase \in {"PERSISTING", "OUTCOME_UNKNOWN"}
    /\ store.txn = "commit" \/ HostAfter => "master" \in StagedNames(j.tracker)
    /\ j.recoveryUser # None => SurvivingUser(store.root["user"])

\* What each phase of the journal promises.
PhaseInv ==
    /\ j.phase \in {"BASELINE", "INTENT", "ABORTED"} => Before /\ HostUnchanged
    /\ j.phase \in {"BASELINE", "INTENT", "DISPATCH_INTENT", "COMMAND_OBSERVED"} =>
           /\ HostUnchanged /\ j.action = None /\ j.recoveryUser = None
           /\ j.tracker = NewTracker("identity-delete", FALSE)
    /\ j.phase \in {"SEP_DELETED", "PERSISTING", "PERSISTENCE_READY"} => Gone
    /\ j.phase = "SEP_DELETED" => /\ j.recoveryUser = None => HostUnchanged
                                  /\ j.recoveryUser # None => UserAhead
                                  /\ j.tracker.comp = 1 /\ StagedNames(j.tracker) = {}
    /\ j.phase \in {"PERSISTENCE_READY", "RECONCILED", "POST_REBOOT_VERIFIED"} =>
           Gone /\ sep.dirty = {} /\ HostAfter

\* What has happened when the process is at a place.
PlaceInv ==
    /\ pc = "DELETE_INTENT" => j.phase = "BASELINE" /\ sent = 0
    /\ pc = "DELETE_DISPATCH_INTENT" => j.phase = "INTENT" /\ sent = 0
    /\ pc = "send" => j.phase = "DISPATCH_INTENT" /\ Before /\ sent = 0
    /\ pc = "observed" => j.phase = "DISPATCH_INTENT"
    /\ pc = "read_inventory" => j.phase = "COMMAND_OBSERVED"
    /\ pc = "persist" => j.phase = "SEP_DELETED"
    /\ pc \in Staging \cup Closing \cup {"begin_stage", "roll_forward"} =>
           j.phase = "PERSISTING" /\ j.tracker.batches = <<Batch>>
    /\ pc = "begin_stage" => /\ store.txn = "none" /\ j.tracker.comp = 1
                             /\ StagedNames(j.tracker) = {}
    /\ pc \in Staging => store.txn = "prepare"
    /\ pc \in Staging \cup {"begin_stage"} => IF MasterOnly THEN UserAhead ELSE HostUnchanged
    /\ pc = "roll_forward" => store.txn = "commit"
    /\ pc \in Closing => store.txn = "none" /\ HostAfter
    /\ pc = "ATTESTED" => sep.dirty = {}
    /\ pc = "DELETE_RECONCILED" => j.phase = "PERSISTENCE_READY"
    /\ pc \in {"resolve", "classify"} => j.action # None
    /\ pc = "classify" => store.txn = "none"

\* What is staged when the process is at a place.
FileInv ==
    /\ pc \in {"CONFIRM_INTENT", "early_confirm", "CONFIRMED"} => ~AtLast
    /\ pc \in {"BATCH_COMMIT_INTENT", "cross", "roll_forward"} => AtLast
    /\ pc \in Staging => IF MasterOnly THEN store.files["user"] = Absent
                         ELSE \/ j.tracker.comp = 2
                              \/ pc \in {"HOST_STAGED", "CONFIRM_INTENT", "early_confirm", "CONFIRMED"}
                              => SurvivingUser(store.files["user"])
    /\ \/ pc = "HOST_STAGED" /\ AtLast
       \/ pc \in {"BATCH_COMMIT_INTENT", "cross"}
       => SurvivingMaster(store.files["master"])
    /\ pc \in {"BATCH_COMMIT_INTENT", "cross"} => "master" \in StagedNames(j.tracker)

\* The boot a deletion committed in is the one its journal names, unless a recovery
\* took over.
BootInv ==
    /\ (j.action = None) <=> (j.recoveryBoot = None)
    /\ pc \notin Recovery /\ j.action = None => boot = j.boot
    /\ pc \in Closing /\ j.action = None => committedIn = boot
    /\ j.phase \in {"PERSISTENCE_READY", "RECONCILED"} /\ j.action = None => committedIn = j.boot
    /\ j.phase = "RECONCILED" =>
           j.reconciledBoot = IF j.action = None THEN j.boot ELSE j.recoveryBoot

Inv == TypeInv /\ CountInv /\ SideInv /\ PhaseInv /\ PlaceInv /\ FileInv /\ BootInv

-----------------------------------------------------------------------------
(* The journal's records, field by field. *)

\* The fields no record after the baseline changes.
Bound == /\ DOMAIN j' = HistoryFields
         /\ j'.baseline = j.baseline /\ j'.target = j.target /\ j'.boot = j.boot

\* ... and those only a record of recovery changes.
Led == /\ j'.action = j.action /\ j'.recoveryUser = j.recoveryUser
       /\ j'.recoveryBoot = j.recoveryBoot

\* ... and those only a record of persistence or recovery changes.
Kept == Bound /\ Led /\ j'.tracker = j.tracker

LEMMA MilestoneRecorded ==
    ASSUME TypeInv, NEW m \in DOMAIN MilestoneAfter, j' = RecordMilestone(j, m)
    PROVE  /\ Kept /\ j'.phase = PhaseOf[m] /\ j'.failedStatus = j.failedStatus
           /\ j'.reconciledBoot = j.reconciledBoot
BY DEF TypeInv, JournalType, RecordMilestone, Kept, Bound, Led, HistoryFields

LEMMA FreezeRecorded ==
    ASSUME TypeInv, j' = RecordFreeze(j)
    PROVE  Kept /\ j'.phase = "OUTCOME_UNKNOWN" /\ j'.failedStatus = j.failedStatus
BY DEF TypeInv, JournalType, RecordFreeze, Kept, Bound, Led, HistoryFields

LEMMA TrackerRecorded ==
    ASSUME TypeInv, NEW t, j' = RecordTracker(j, t)
    PROVE  /\ Bound /\ Led /\ j'.tracker = t /\ j'.failedStatus = j.failedStatus
           /\ j'.phase = IF t.phase = "COMPLETE" THEN "PERSISTENCE_READY"
                         ELSE IF t.phase = "OUTCOME_UNKNOWN" THEN "OUTCOME_UNKNOWN"
                         ELSE "PERSISTING"
BY DEF TypeInv, JournalType, RecordTracker, Bound, Led, HistoryFields

LEMMA NothingStaged == DOMAIN << >> = {} /\ << >> # <<Batch>>
<1>1. Len(<< >>) = 0 /\ Len(<<Batch>>) = 1
  OBVIOUS
<1>2. DOMAIN << >> = {}
  OBVIOUS
<1> QED BY <1>1, <1>2

-----------------------------------------------------------------------------
(* The tracker's position in its one batch. *)

LEMMA PlanPosition ==
    ASSUME TypeInv, j.tracker.batches = <<Batch>>
    PROVE  /\ FinalComponent(j.tracker) <=> AtLast
           /\ FinalBatch(j.tracker)
           /\ Current(j.tracker) = IF ~MasterOnly /\ j.tracker.comp = 1 THEN "user" ELSE "master"
           /\ ~AtLast => ~MasterOnly /\ j.tracker.comp = 1
<1>1. FinalComponent(j.tracker) <=> AtLast
  BY DEF TypeInv, JournalType, FinalComponent, Batch, AtLast
<1>2. FinalBatch(j.tracker)
  BY DEF TypeInv, JournalType, FinalBatch
<1>3. Current(j.tracker) = IF ~MasterOnly /\ j.tracker.comp = 1 THEN "user" ELSE "master"
  BY DEF TypeInv, JournalType, Current, Batch
<1>4. ~AtLast => ~MasterOnly /\ j.tracker.comp = 1
  BY DEF TypeInv, JournalType, AtLast, Batch
<1> QED BY <1>1, <1>2, <1>3, <1>4

LEMMA HostStagedTracker ==
    ASSUME TypeInv, NEW file, NEW t, t = Consume(j.tracker, "HOST_STAGED", file),
           NEW n, n = Current(j.tracker)
    PROVE  /\ DOMAIN t = TrackerFields /\ t.phase = "HOST_STAGED"
           /\ t.batches = j.tracker.batches /\ t.batch = 1 /\ t.comp = j.tracker.comp
           /\ StagedNames(t) = StagedNames(j.tracker) \cup {n} /\ t.staged[n] = file
           /\ \A k \in StagedNames(j.tracker) : k # n => t.staged[k] = j.tracker.staged[k]
BY
   DEF TypeInv, JournalType, SepType, StoreType, CounterType, Consume, TrackerFields,
       StagedNames

\* Every other record moves the phase, and CONFIRMED the component.
LEMMA MovedTracker ==
    ASSUME TypeInv, FinalBatch(j.tracker), NEW m \in ComponentMilestones, m # "HOST_STAGED",
           NEW file, NEW t, t = Consume(j.tracker, m, file)
    PROVE  /\ DOMAIN t = TrackerFields /\ t.staged = j.tracker.staged
           /\ t.phase = IF m = "CONFIRMED" THEN "COMPONENT_READY"
                        ELSE IF m = "FINAL_CONFIRMED" THEN "ATTESTATION_READY"
                        ELSE IF m = "ATTESTED" THEN "COMPLETE" ELSE m
           /\ t.batches = j.tracker.batches /\ t.batch = 1
           /\ t.comp = IF m = "CONFIRMED" THEN j.tracker.comp + 1 ELSE j.tracker.comp
<1>1. CASE m = "CONFIRMED"
  BY <1>1 DEF TypeInv, JournalType, SepType, StoreType, CounterType, Consume, TrackerFields
<1>2. CASE m = "FINAL_CONFIRMED"
  BY <1>2 DEF TypeInv, JournalType, Consume, TrackerFields
<1>3. CASE m = "ATTESTED"
  BY <1>3 DEF TypeInv, JournalType, Consume, TrackerFields
<1>4. CASE m \notin {"CONFIRMED", "FINAL_CONFIRMED", "ATTESTED"}
  BY <1>4 DEF TypeInv, JournalType, Consume, TrackerFields
<1> QED BY <1>1, <1>2, <1>3, <1>4

LEMMA PlanTracker ==
    ASSUME TypeInv, NEW batches, NEW t, t = ConsumePlan(j.tracker, batches)
    PROVE  /\ DOMAIN t = TrackerFields /\ t.staged = j.tracker.staged
           /\ t.phase = "COMPONENT_READY" /\ t.batches = batches /\ t.batch = 1
           /\ t.comp = j.tracker.comp
BY DEF TypeInv, JournalType, ConsumePlan, TrackerFields

LEMMA FrozenTracker ==
    ASSUME TypeInv, NEW t, t = ConsumeFreeze(j.tracker)
    PROVE  /\ DOMAIN t = TrackerFields /\ t.staged = j.tracker.staged
           /\ t.phase = "OUTCOME_UNKNOWN" /\ t.batches = j.tracker.batches
           /\ t.batch = 1 /\ t.comp = j.tracker.comp
BY DEF TypeInv, JournalType, ConsumeFreeze, TrackerFields

-----------------------------------------------------------------------------
(* Counting: a deletion takes one identity from the baseline. *)

LEMMA Counting ==
    ASSUME TypeInv, CountInv
    PROVE  /\ Cardinality(Survivors) = j.baseline["master"].count - 1
           /\ j.baseline["master"].count - 1 \in Nat
           /\ Survivors \subseteq Ids /\ Survivors # BaseIds
<1>1. IsFiniteSet(BaseIds) /\ j.target \in BaseIds /\ BaseIds \subseteq Ids
  BY IdsAssumption, FS_Subset DEF TypeInv, JournalType, IsRoot, BaseIds
<1>2. Survivors = BaseIds \ {j.target}
  BY DEF Survivors, BaseIds
<1>3. Cardinality(Survivors) = Cardinality(BaseIds) - 1
  BY <1>1, <1>2, FS_RemoveElement
<1>4. IsFiniteSet(Survivors)
  BY <1>1, <1>2, FS_RemoveElement
<1>5. Cardinality(Survivors) \in Nat
  BY <1>4, FS_CardinalityType
<1> QED BY <1>1, <1>2, <1>3, <1>5 DEF CountInv

-----------------------------------------------------------------------------
(* Steps that stop the process. *)

LEMMA AtRest ==
    ASSUME pc' \in {"idle", "inspect"}
    PROVE  PlaceInv' /\ FileInv'
BY DEF PlaceInv, FileInv, Staging, Closing

LEMMA StopKeeps ==
    ASSUME Inv, j' = j, pc' \in {"idle", "inspect"}, UNCHANGED <<sep, store, committedIn>>,
           CounterType'
    PROVE  Inv'
<1> USE DEF Inv
<1>p. pc' \in PCs
  BY DEF PCs
<1>1. TypeInv'
  <2>1. JournalType'
    BY <1>p DEF TypeInv, JournalType, SurvivingUser, SurvivingMaster, Survivors, BaseIds
  <2>2. SepType'
    BY <1>p DEF TypeInv, SepType
  <2>3. StoreType'
    BY <1>p DEF TypeInv, StoreType
  <2>4. CounterType'
    OBVIOUS
  <2>5. pc' \in PCs
    BY <1>p
  <2> QED BY <2>1, <2>2, <2>3, <2>4, <2>5 DEF TypeInv
<1>2. CountInv' /\ SideInv' /\ PhaseInv'
  <2>1. CountInv'
    BY DEF CountInv, BaseIds
  <2>2. SideInv'
    BY
       DEF SideInv, BaseIds, Before, Gone, Survivors, SurvivingUser, SurvivingMaster, HostAfter,
           UserAhead, HostUnchanged
  <2>3. PhaseInv'
    BY
       DEF CountInv, SideInv, PhaseInv, BaseIds, Before, Gone, Survivors, SurvivingUser,
           SurvivingMaster, HostAfter, UserAhead, HostUnchanged
  <2> QED BY <2>1, <2>2, <2>3
<1>3. BootInv'
  BY DEF BootInv, Recovery, Closing
<1> QED BY <1>1, <1>2, <1>3, AtRest

LEMMA FreezeKeeps ==
    ASSUME Inv, LegalFreeze(j), j' = RecordFreeze(j), pc' \in {"idle", "inspect"},
           UNCHANGED <<sep, store, committedIn>>,
           CounterType'
    PROVE  Inv'
<1> USE DEF Inv
<1>0. Kept /\ j'.phase = "OUTCOME_UNKNOWN" /\ j'.failedStatus = j.failedStatus
  BY FreezeRecorded
<1>1. TypeInv'
  <2>1. JournalType'
    BY <1>0
       DEF TypeInv, JournalType, Kept, Bound, Led, BaseIds, SurvivingUser, SurvivingMaster,
           Survivors, DeletePhases, TrackerPhases
  <2>2. SepType'
    BY <1>0 DEF TypeInv, SepType
  <2>3. StoreType'
    BY <1>0 DEF TypeInv, StoreType
  <2>4. CounterType'
    OBVIOUS
  <2>5. pc' \in PCs
    BY <1>0 DEF Then, ComponentMilestones, After, PCs
  <2> QED BY <2>1, <2>2, <2>3, <2>4, <2>5 DEF TypeInv
<1>2. CountInv' /\ SideInv' /\ PhaseInv'
  <2>1. CountInv'
    BY <1>0 DEF CountInv, BaseIds, Kept, Bound
  <2>2. SideInv'
    BY <1>0
       DEF SideInv, BaseIds, Before, Gone, Survivors, SurvivingUser, SurvivingMaster, HostAfter,
           UserAhead, HostUnchanged, Kept, Bound, Led
  <2>3. PhaseInv'
    BY <1>0 DEF PhaseInv, Gone, SurvivingUser, HostUnchanged, Bound
  <2> QED BY <2>1, <2>2, <2>3
<1>3. BootInv'
  BY <1>0 DEF BootInv, Recovery, Closing, Kept, Bound, Led
<1> QED BY <1>1, <1>2, <1>3, AtRest

LEMMA FreezePersistenceKeeps ==
    ASSUME Inv, FreezePersistence, UNCHANGED <<store, committedIn>>,
           sep' = sep \/ (Gone /\ sep'.ids = sep.ids /\ sep'.dirty \subseteq sep.dirty /\ DOMAIN sep' = DOMAIN sep),
           CounterType'
    PROVE  Inv'
<1> USE DEF Inv
<1>a. pc' = "idle"
  BY DEF FreezePersistence
<1>1. CASE sep' = sep /\ j' = j
  BY <1>1, <1>a, StopKeeps
<1>2. CASE j' # j
  <2> DEFINE t == ConsumeFreeze(j.tracker)
  <2>1. LegalPersistence(j) /\ j' = RecordTracker(j, t)
    BY <1>2 DEF FreezePersistence
  <2> HIDE DEF t
  <2>2. /\ DOMAIN t = TrackerFields /\ t.staged = j.tracker.staged
        /\ t.phase = "OUTCOME_UNKNOWN" /\ t.batches = j.tracker.batches
        /\ t.batch = 1 /\ t.comp = j.tracker.comp
    BY FrozenTracker DEF t
  <2>3. /\ Bound /\ Led /\ j'.tracker = t /\ j'.failedStatus = j.failedStatus
        /\ j'.phase = "OUTCOME_UNKNOWN"
    BY <2>1, <2>2, TrackerRecorded
  <2>4. TypeInv'
    <3>1. JournalType'
      BY <2>2, <2>3, <1>a
         DEF TypeInv, JournalType, Bound, Led, PCs, SurvivingUser, SurvivingMaster, Survivors,
             StagedNames, DeletePhases, TrackerPhases, BaseIds
    <3>2. SepType'
      BY <2>2, <2>3 DEF TypeInv, SepType
    <3>3. StoreType'
      BY <2>2, <2>3 DEF TypeInv, StoreType
    <3>4. CounterType'
      OBVIOUS
    <3>5. pc' \in PCs
      BY <2>2, <2>3, <1>a DEF PCs
    <3> QED BY <3>1, <3>2, <3>3, <3>4, <3>5 DEF TypeInv
  <2>5. CountInv' /\ SideInv' /\ PhaseInv'
    <3>1. CountInv'
      BY <2>1, <2>2, <2>3 DEF CountInv, BaseIds, Bound
    <3>2. SideInv'
      BY ZenonT(60), <2>1, <2>2, <2>3
         DEF LegalPersistence, CountInv, SideInv, PhaseInv, BaseIds, Before, Gone, Survivors,
             SurvivingUser, SurvivingMaster, HostAfter, UserAhead, HostUnchanged, Bound, Led,
             TypeInv, JournalType, SepType, StoreType, CounterType, StagedNames
    <3>3. PhaseInv'
      BY <2>1, <2>2, <2>3
         DEF LegalPersistence, PhaseInv, Gone, SurvivingUser, HostUnchanged, Bound
    <3> QED BY <3>1, <3>2, <3>3
  <2>6. BootInv'
    BY <2>1, <2>3, <1>a DEF BootInv, Recovery, Closing, Bound, Led
  <2> QED BY <2>4, <2>5, <2>6, <1>a, AtRest
<1>3. CASE j' = j /\ sep' # sep
  <2>4. TypeInv'
    <3>1. JournalType'
      BY <1>3, <1>a
         DEF TypeInv, JournalType, BaseIds, SurvivingUser, SurvivingMaster, Survivors,
             DeletePhases, TrackerPhases
    <3>2. SepType'
      BY <1>3, <1>a DEF TypeInv, SepType
    <3>3. StoreType'
      BY <1>3, <1>a DEF TypeInv, StoreType
    <3>4. CounterType'
      OBVIOUS
    <3>5. pc' \in PCs
      BY <1>3, <1>a DEF Then, ComponentMilestones, After, PCs
    <3> QED BY <3>1, <3>2, <3>3, <3>4, <3>5 DEF TypeInv
  <2>5. CountInv' /\ SideInv' /\ PhaseInv'
    <3>1. CountInv'
      BY <1>3 DEF CountInv, BaseIds
    <3>2. SideInv'
      BY <1>3
         DEF SideInv, Gone, Survivors, SurvivingUser, SurvivingMaster, HostAfter, UserAhead,
             HostUnchanged
    <3>3. PhaseInv'
      BY <1>3
         DEF CountInv, SideInv, PhaseInv, BaseIds, Before, Gone, Survivors, SurvivingUser,
             SurvivingMaster, HostAfter, UserAhead, HostUnchanged, TypeInv, JournalType,
             SepType, StoreType, CounterType
    <3> QED BY <3>1, <3>2, <3>3
  <2>6. BootInv'
    BY <1>3, <1>a DEF BootInv, Recovery, Closing
  <2> QED BY <2>4, <2>5, <2>6, <1>a, AtRest
<1> QED BY <1>1, <1>2, <1>3

-----------------------------------------------------------------------------
(* run_delete up to the readback. *)

LEMMA RunDeleteKeeps ==
    ASSUME Inv, NEW target \in Ids, RunDelete(target)
    PROVE  Inv'
<1> USE DEF Inv
<1>1. /\ DOMAIN j' = HistoryFields
      /\ j'.phase = "BASELINE" /\ j'.action = None /\ j'.recoveryUser = None
      /\ j'.tracker = NewTracker("identity-delete", FALSE)
      /\ j'.baseline = store.root /\ j'.target = target /\ j'.failedStatus = FALSE
      /\ j'.boot = boot /\ j'.recoveryBoot = None
  BY DEF RunDelete, NewHistory, HistoryFields
<1>2. /\ DOMAIN j'.tracker = TrackerFields /\ j'.tracker.phase = "NOT_STARTED"
      /\ j'.tracker.batches = << >> /\ j'.tracker.batch = 1 /\ j'.tracker.comp = 1
      /\ StagedNames(j'.tracker) = {}
  BY <1>1, NothingStaged DEF NewTracker, TrackerFields, StagedNames
<1>3. /\ pc' = "DELETE_INTENT" /\ UNCHANGED <<sep, store, boot, failures, saves>>
      /\ j.phase \in Complete /\ store.txn = "none" /\ store.root["user"].ids = sep.ids
      /\ target \in sep.ids /\ ops' = ops + 1 /\ sent' = 0
  BY DEF RunDelete
<1>4. /\ store.root["master"].count = Cardinality(sep.ids) /\ sep.dirty = {}
  <2>1. CASE j.phase \in {"BASELINE", "ABORTED"}
    BY <2>1, <1>3 DEF PhaseInv, Before, HostUnchanged, CountInv
  <2>2. CASE j.phase \in {"RECONCILED", "POST_REBOOT_VERIFIED"}
    BY <2>2, <1>3, Counting DEF PhaseInv, Gone, HostAfter, SurvivingMaster
  <2> QED BY <2>1, <2>2, <1>3 DEF Complete
<1>c. CounterType'
  BY <1>3 DEF TypeInv, CounterType
<1>p. pc' \in PCs
  BY <1>3 DEF PCs, Then
<1>5. TypeInv'
  <2>1. JournalType'
    BY <1>1, <1>2, <1>3, <1>c, <1>p
       DEF TypeInv, JournalType, SepType, StoreType, CounterType, IsRoot, SurvivingUser,
           SurvivingMaster, Survivors, StagedNames, DeletePhases, TrackerPhases, Plans, BaseIds
  <2>2. SepType'
    BY <1>1, <1>2, <1>3, <1>c, <1>p DEF TypeInv, SepType
  <2>3. StoreType'
    BY <1>1, <1>2, <1>3, <1>c, <1>p DEF TypeInv, StoreType
  <2>4. CounterType'
    BY <1>1, <1>2, <1>3, <1>c, <1>p DEF TypeInv, CounterType
  <2>5. pc' \in PCs
    BY <1>1, <1>2, <1>3, <1>c, <1>p
  <2> QED BY <2>1, <2>2, <2>3, <2>4, <2>5 DEF TypeInv
<1>6. CountInv' /\ SideInv' /\ PhaseInv'
  <2>1. CountInv'
    BY <1>1, <1>2, <1>3, <1>4 DEF CountInv, BaseIds
  <2>2. SideInv'
    BY <1>1, <1>2, <1>3, <1>4
       DEF CountInv, SideInv, PhaseInv, BaseIds, Before, Gone, Survivors, SurvivingUser,
           SurvivingMaster, HostAfter, UserAhead, HostUnchanged, TypeInv, JournalType, SepType,
           StoreType, CounterType, StagedNames
  <2>3. PhaseInv'
    BY <1>1, <1>2, <1>3, <1>4 DEF PhaseInv, BaseIds, Before, Gone, SurvivingUser, HostUnchanged
  <2> QED BY <2>1, <2>2, <2>3
<1>7. PlaceInv' /\ FileInv'
  BY <1>1, <1>3 DEF PlaceInv, FileInv, Staging, Closing
<1>8. BootInv'
  BY <1>1, <1>3 DEF BootInv, Closing
<1> QED BY <1>5, <1>6, <1>7, <1>8

LEMMA MilestoneKeeps ==
    ASSUME Inv, Milestone
    PROVE  Inv'
<1> USE DEF Inv
<1>a. UNCHANGED <<sep, store, boot, failures, ops, saves, sent, committedIn>>
  BY DEF Milestone, world
<1>1. CASE j' = j /\ pc' = "idle"
  BY <1>1, <1>a, StopKeeps DEF TypeInv, JournalType, CounterType
<1>2. ASSUME Legal(j, pc), j' = RecordMilestone(j, pc), pc' = Then[pc]
      PROVE  Inv'
  <2>1. /\ pc = "DELETE_INTENT" /\ j.phase = "BASELINE" /\ j'.phase = "INTENT"
           /\ pc' = "DELETE_DISPATCH_INTENT"
        \/ /\ pc = "DELETE_DISPATCH_INTENT" /\ j.phase = "INTENT"
           /\ j'.phase = "DISPATCH_INTENT" /\ pc' = "send"
    BY <1>2, MilestoneRecorded DEF Milestone, Then, Legal, MilestoneAfter, PhaseOf
  <2>2. Kept /\ j'.failedStatus = j.failedStatus
    BY <1>2, MilestoneRecorded DEF Legal
  <2>p. pc' \in PCs
    BY <2>1 DEF PCs, Then
  <2>3. TypeInv'
    <3>1. JournalType'
      BY <1>a, <2>p, <2>1, <2>2
         DEF TypeInv, JournalType, SurvivingUser, SurvivingMaster, Survivors, DeletePhases,
             TrackerPhases, Kept, Bound, Led, BaseIds
    <3>2. SepType'
      BY <1>a, <2>p DEF TypeInv, SepType
    <3>3. StoreType'
      BY <1>a, <2>p DEF TypeInv, StoreType
    <3>4. CounterType'
      BY <1>a, <2>p DEF TypeInv, CounterType
    <3>5. pc' \in PCs
      BY <1>a, <2>p
    <3> QED BY <3>1, <3>2, <3>3, <3>4, <3>5 DEF TypeInv
  <2>4. CountInv' /\ SideInv' /\ PhaseInv'
    <3>1. CountInv'
      BY <1>a, <2>1, <2>2 DEF CountInv, BaseIds, Kept, Bound
    <3>2. SideInv'
      BY <1>a, <2>1, <2>2
         DEF SideInv, BaseIds, Before, Gone, Survivors, SurvivingUser, SurvivingMaster,
             HostAfter, UserAhead, HostUnchanged, Kept, Bound, Led
    <3>3. PhaseInv'
      BY <1>a, <2>1, <2>2
         DEF CountInv, SideInv, PhaseInv, BaseIds, Before, Gone, Survivors, SurvivingUser,
             SurvivingMaster, HostAfter, UserAhead, HostUnchanged, TypeInv, JournalType,
             SepType, StoreType, CounterType, StagedNames, Kept, Bound, Led
    <3> QED BY <3>1, <3>2, <3>3
  <2>5. PlaceInv' /\ FileInv'
    BY <1>a, <2>1, <2>2
       DEF PlaceInv, FileInv, Staging, Closing, PhaseInv, Before, BaseIds, Kept, Bound
  <2>6. BootInv'
    BY <1>a, <2>1, <2>2 DEF BootInv, Closing, Recovery, Kept, Bound, Led
  <2> QED BY <2>3, <2>4, <2>5, <2>6
<1> QED BY <1>1, <1>2 DEF Milestone, AppendChecked

\* The command removes the target or does nothing.
LEMMA CommandOutcome ==
    ASSUME Inv, pc = "send",
           \/ sep' = [ids |-> sep.ids \ {j.target}, dirty |-> Components]
           \/ sep' = sep
    PROVE  /\ DOMAIN sep' = {"ids", "dirty"} /\ sep'.ids \subseteq Ids
           /\ sep'.dirty \subseteq Components
           /\ \/ sep'.ids = BaseIds /\ sep'.dirty = {}
              \/ sep'.ids = Survivors
BY DEF Inv, PlaceInv, TypeInv, SepType, Before, BaseIds, Survivors

LEMMA SendDeleteKeeps ==
    ASSUME Inv, SendDelete
    PROVE  Inv'
<1> USE DEF Inv
<1>1. /\ pc = "send" /\ pc' = "observed" /\ sent' = sent + 1
      /\ UNCHANGED <<store, j, boot, failures, ops, saves, committedIn>>
  BY DEF SendDelete
<1>2. /\ DOMAIN sep' = {"ids", "dirty"} /\ sep'.ids \subseteq Ids
      /\ sep'.dirty \subseteq Components
      /\ (sep'.ids = BaseIds /\ sep'.dirty = {}) \/ sep'.ids = Survivors
  BY CommandOutcome DEF SendDelete
<1>3. j.phase = "DISPATCH_INTENT"
  BY <1>1 DEF PlaceInv
<1>c. CounterType'
  BY <1>1 DEF TypeInv, CounterType
<1>4. TypeInv'
  <2>1. JournalType'
    BY <1>1, <1>2 DEF TypeInv, JournalType, SurvivingUser, SurvivingMaster, Survivors, BaseIds
  <2>2. SepType'
    BY <1>1, <1>2 DEF TypeInv, SepType
  <2>3. StoreType'
    BY <1>1, <1>2 DEF TypeInv, StoreType
  <2>4. CounterType'
    BY <1>1, <1>2 DEF TypeInv, CounterType
  <2>5. pc' \in PCs
    BY <1>1, <1>2 DEF PCs
  <2> QED BY <2>1, <2>2, <2>3, <2>4, <2>5 DEF TypeInv
<1>5. CountInv' /\ SideInv' /\ PhaseInv'
  <2>1. CountInv'
    BY <1>1, <1>2 DEF CountInv, BaseIds
  <2>2. SideInv'
    BY <1>1, <1>2, <1>3
       DEF SideInv, PhaseInv, BaseIds, Before, Gone, Survivors, SurvivingUser, SurvivingMaster,
           HostAfter, HostUnchanged
  <2>3. PhaseInv'
    BY <1>1, <1>2, <1>3
       DEF CountInv, SideInv, PhaseInv, BaseIds, Before, Gone, Survivors, SurvivingUser,
           SurvivingMaster, HostAfter, UserAhead, HostUnchanged, TypeInv, JournalType, SepType,
           StoreType, CounterType, StagedNames
  <2> QED BY <2>1, <2>2, <2>3
<1>6. PlaceInv' /\ FileInv'
  BY <1>1, <1>3 DEF PlaceInv, FileInv, Staging, Closing
<1>7. BootInv'
  BY <1>1, <1>3 DEF BootInv, Closing, Recovery
<1> QED BY <1>4, <1>5, <1>6, <1>7

LEMMA SendDeleteFailsKeeps ==
    ASSUME Inv, SendDeleteFails
    PROVE  Inv'
<1> USE DEF Inv
<1>1. /\ pc = "send" /\ pc' = "idle" /\ sent' = sent + 1 /\ failures' = failures + 1
      /\ UNCHANGED <<store, boot, ops, saves, committedIn>>
  BY DEF SendDeleteFails, Fails, Freeze
<1>2. /\ DOMAIN sep' = {"ids", "dirty"} /\ sep'.ids \subseteq Ids
      /\ sep'.dirty \subseteq Components
      /\ (sep'.ids = BaseIds /\ sep'.dirty = {}) \/ sep'.ids = Survivors
  BY CommandOutcome DEF SendDeleteFails
<1>3. j.phase = "DISPATCH_INTENT"
  BY <1>1 DEF PlaceInv
<1>4. Kept /\ j'.phase = "OUTCOME_UNKNOWN" /\ j'.failedStatus = j.failedStatus
  BY <1>3, FreezeRecorded DEF SendDeleteFails, Freeze, LegalFreeze
<1>c. CounterType'
  BY <1>1 DEF TypeInv, CounterType
<1>5. TypeInv'
  <2>1. JournalType'
    BY <1>1, <1>2, <1>4, <1>c
       DEF TypeInv, JournalType, SurvivingUser, SurvivingMaster, Survivors, DeletePhases,
           TrackerPhases, Kept, Bound, Led, BaseIds
  <2>2. SepType'
    BY <1>1, <1>2 DEF TypeInv, SepType
  <2>3. StoreType'
    BY <1>1, <1>2 DEF TypeInv, StoreType
  <2>4. CounterType'
    BY <1>1, <1>2 DEF TypeInv, CounterType
  <2>5. pc' \in PCs
    BY <1>1, <1>2 DEF PCs
  <2> QED BY <2>1, <2>2, <2>3, <2>4, <2>5 DEF TypeInv
<1>6. CountInv' /\ SideInv' /\ PhaseInv'
  <2>1. CountInv'
    BY <1>1, <1>2, <1>3, <1>4 DEF CountInv, BaseIds, Kept, Bound
  <2>2. SideInv'
    BY <1>1, <1>2, <1>3, <1>4
       DEF SideInv, PhaseInv, BaseIds, Before, Gone, Survivors, SurvivingUser, SurvivingMaster,
           HostAfter, HostUnchanged, Kept, Bound, Led
  <2>3. PhaseInv'
    BY <1>1, <1>2, <1>3, <1>4 DEF PhaseInv, Gone, SurvivingUser, HostUnchanged
  <2> QED BY <2>1, <2>2, <2>3
<1>7. BootInv'
  BY <1>1, <1>3, <1>4 DEF BootInv, Closing, Recovery, Kept, Bound, Led
<1> QED BY <1>1, <1>5, <1>6, <1>7, AtRest

LEMMA CommandObservedKeeps ==
    ASSUME Inv, CommandObserved
    PROVE  Inv'
<1> USE DEF Inv
<1> DEFINE m == "DELETE_COMMAND_OBSERVED"
<1>a. pc = "observed" /\ UNCHANGED <<sep, store, boot, failures, ops, saves, sent, committedIn>>
  BY DEF CommandObserved, world
<1>1. CASE j' = j /\ pc' = "idle"
  BY <1>1, <1>a, StopKeeps DEF TypeInv, JournalType, CounterType
<1>2. ASSUME j' = [RecordMilestone(j, m) EXCEPT !.failedStatus = (reply = "status-error")],
             pc' = "read_inventory"
      PROVE  Inv'
  <2>1. j.phase = "DISPATCH_INTENT"
    BY <1>a DEF PlaceInv
  <2>2. Kept /\ j'.phase = "COMMAND_OBSERVED" /\ j'.failedStatus \in BOOLEAN
    BY <1>2 DEF RecordMilestone, PhaseOf, Kept, Bound, Led, TypeInv, JournalType, HistoryFields
  <2>3. TypeInv'
    <3>1. JournalType'
      BY <1>a, <1>2, <2>2
         DEF TypeInv, JournalType, SurvivingUser, SurvivingMaster, Survivors, DeletePhases,
             TrackerPhases, Kept, Bound, Led, BaseIds
    <3>2. SepType'
      BY <1>a, <1>2 DEF TypeInv, SepType
    <3>3. StoreType'
      BY <1>a, <1>2 DEF TypeInv, StoreType
    <3>4. CounterType'
      BY <1>a, <1>2 DEF TypeInv, CounterType
    <3>5. pc' \in PCs
      BY <1>a, <1>2 DEF PCs
    <3> QED BY <3>1, <3>2, <3>3, <3>4, <3>5 DEF TypeInv
  <2>4. CountInv' /\ SideInv' /\ PhaseInv'
    <3>1. CountInv'
      BY <1>a, <2>1, <2>2 DEF CountInv, BaseIds, Kept, Bound
    <3>2. SideInv'
      BY <1>a, <2>1, <2>2
         DEF SideInv, BaseIds, Before, Gone, Survivors, SurvivingUser, SurvivingMaster,
             HostAfter, UserAhead, HostUnchanged, Kept, Bound, Led
    <3>3. PhaseInv'
      BY <1>a, <2>1, <2>2
         DEF CountInv, SideInv, PhaseInv, BaseIds, Before, Gone, Survivors, SurvivingUser,
             SurvivingMaster, HostAfter, UserAhead, HostUnchanged, TypeInv, JournalType,
             SepType, StoreType, CounterType, StagedNames, Kept, Bound, Led
    <3> QED BY <3>1, <3>2, <3>3
  <2>5. PlaceInv' /\ FileInv'
    BY <1>a, <1>2, <2>2 DEF PlaceInv, FileInv, Staging, Closing
  <2>6. BootInv'
    BY <1>a, <1>2, <2>1, <2>2 DEF BootInv, Closing, Recovery, Kept, Bound, Led
  <2> QED BY <2>3, <2>4, <2>5, <2>6
<1> QED BY <1>1, <1>2 DEF CommandObserved, AppendChecked

LEMMA InventoryFailsKeeps ==
    ASSUME Inv, InventoryFails
    PROVE  Inv'
<1>1. /\ pc' = "idle" /\ UNCHANGED <<sep, store, committedIn>>
      /\ CounterType'
  BY DEF InventoryFails, Fails, Freeze, world, Inv, TypeInv, CounterType
<1> QED BY <1>1, StopKeeps, FreezeKeeps DEF InventoryFails, Freeze

LEMMA ReadAbsenceKeeps ==
    ASSUME Inv, ReadAbsence
    PROVE  Inv'
<1> USE DEF Inv
<1> DEFINE m == "DELETE_SEP_ABSENCE_OBSERVED"
<1>a. /\ pc = "read_inventory" /\ sep.ids = Survivors
      /\ UNCHANGED <<sep, store, boot, failures, ops, saves, sent, committedIn>>
  BY DEF ReadAbsence, world
<1>1. CASE j' = j /\ pc' = "idle"
  BY <1>1, <1>a, StopKeeps DEF TypeInv, JournalType, CounterType
<1>2. ASSUME j' = RecordMilestone(j, m), pc' = "persist"
      PROVE  Inv'
  <2>1. j.phase = "COMMAND_OBSERVED"
    BY <1>a DEF PlaceInv
  <2>2. Kept /\ j'.phase = "SEP_DELETED" /\ j'.failedStatus = j.failedStatus
    BY <1>2, MilestoneRecorded DEF PhaseOf, MilestoneAfter
  <2>x. StagedNames(j.tracker) = {} /\ j.tracker.comp = 1
    BY <2>1, NothingStaged DEF PhaseInv, NewTracker, StagedNames
  <2>3. TypeInv'
    <3>1. JournalType'
      BY <1>a, <1>2, <2>2
         DEF TypeInv, JournalType, SurvivingUser, SurvivingMaster, Survivors, DeletePhases,
             TrackerPhases, Kept, Bound, Led, BaseIds
    <3>2. SepType'
      BY <1>a, <1>2 DEF TypeInv, SepType
    <3>3. StoreType'
      BY <1>a, <1>2 DEF TypeInv, StoreType
    <3>4. CounterType'
      BY <1>a, <1>2 DEF TypeInv, CounterType
    <3>5. pc' \in PCs
      BY <1>a, <1>2 DEF PCs
    <3> QED BY <3>1, <3>2, <3>3, <3>4, <3>5 DEF TypeInv
  <2>4. CountInv' /\ SideInv' /\ PhaseInv'
    <3>1. CountInv'
      BY <1>a, <2>1, <2>2, <2>x DEF CountInv, BaseIds, Kept, Bound
    <3>2. SideInv'
      BY <1>a, <2>1, <2>2, <2>x
         DEF SideInv, Gone, Survivors, SurvivingUser, SurvivingMaster, HostAfter, UserAhead,
             HostUnchanged, Kept, Bound, Led
    <3>3. PhaseInv'
      BY <1>a, <2>1, <2>2, <2>x
         DEF PhaseInv, Gone, Survivors, SurvivingUser, HostUnchanged, Kept, Bound, Led
    <3> QED BY <3>1, <3>2, <3>3
  <2>5. PlaceInv' /\ FileInv'
    BY <1>a, <1>2, <2>2 DEF PlaceInv, FileInv, Staging, Closing
  <2>6. BootInv'
    BY <1>a, <1>2, <2>1, <2>2 DEF BootInv, Closing, Recovery, Kept, Bound, Led
  <2> QED BY <2>3, <2>4, <2>5, <2>6
<1> QED BY <1>1, <1>2 DEF ReadAbsence, AppendChecked

LEMMA ReadUnchangedKeeps ==
    ASSUME Inv, ReadUnchanged
    PROVE  Inv'
<1> USE DEF Inv
<1> DEFINE m == "DELETE_NOT_PERFORMED"
<1>a. /\ pc = "read_inventory" /\ sep.ids # Survivors /\ pc' = "idle"
      /\ UNCHANGED <<sep, store, boot, failures, ops, saves, sent, committedIn>>
  BY DEF ReadUnchanged, AppendChecked, Freeze, world
<1>b. CounterType'
  BY <1>a DEF TypeInv, CounterType
<1>1. CASE j' = j
  BY <1>1, <1>a, <1>b, StopKeeps
<1>2. CASE LegalFreeze(j) /\ j' = RecordFreeze(j)
  BY <1>2, <1>a, <1>b, FreezeKeeps
<1>3. CASE j' = RecordMilestone(j, m)
  <2>1. j.phase = "COMMAND_OBSERVED"
    BY <1>a DEF PlaceInv
  <2>2. Kept /\ j'.phase = "ABORTED" /\ j'.failedStatus = j.failedStatus
    BY <1>3, MilestoneRecorded DEF PhaseOf, MilestoneAfter
  <2>3. TypeInv'
    <3>1. JournalType'
      BY <1>a, <2>2
         DEF TypeInv, JournalType, SurvivingUser, SurvivingMaster, Survivors, DeletePhases,
             TrackerPhases, Kept, Bound, Led, BaseIds
    <3>2. SepType'
      BY <1>a, <2>2 DEF TypeInv, SepType
    <3>3. StoreType'
      BY <1>a, <2>2 DEF TypeInv, StoreType
    <3>4. CounterType'
      BY <1>a, <2>2 DEF TypeInv, CounterType
    <3>5. pc' \in PCs
      BY <1>a, <2>2 DEF PCs
    <3> QED BY <3>1, <3>2, <3>3, <3>4, <3>5 DEF TypeInv
  <2>4. CountInv' /\ SideInv' /\ PhaseInv'
    <3>1. CountInv'
      BY <1>a, <2>1, <2>2 DEF CountInv, BaseIds, Kept, Bound
    <3>2. SideInv'
      BY <1>a, <2>1, <2>2
         DEF SideInv, BaseIds, Before, Gone, Survivors, SurvivingUser, HostAfter, HostUnchanged,
             Kept, Bound, Led
    <3>3. PhaseInv'
      BY <1>a, <2>1, <2>2
         DEF SideInv, PhaseInv, BaseIds, Before, Gone, SurvivingUser, HostUnchanged, Kept, Bound
    <3> QED BY <3>1, <3>2, <3>3
  <2>6. BootInv'
    BY <1>a, <2>1, <2>2 DEF BootInv, Closing, Recovery, Kept, Bound, Led
  <2> QED BY <1>a, <2>3, <2>4, <2>6, AtRest
<1> QED BY <1>1, <1>2, <1>3 DEF ReadUnchanged, AppendChecked, Freeze

-----------------------------------------------------------------------------
(* Persistence. *)

\* One lemma per step: it keeps the invariant.
LEMMA PersistPlanKeeps ==
    ASSUME Inv, PersistPlan
    PROVE  Inv'
<1> USE DEF Inv
<1> DEFINE t == ConsumePlan(j.tracker, <<Batch>>)
<1>a. /\ pc = "persist" /\ saves' \in {saves, saves + 1}
      /\ UNCHANGED <<sep, store, boot, failures, ops, sent, committedIn>>
  BY DEF PersistPlan
<1>b. CounterType'
  BY <1>a DEF TypeInv, CounterType
<1>1. CASE j' = j /\ pc' = "idle"
  BY <1>1, <1>a, <1>b, StopKeeps
<1>2. ASSUME store.txn = "none", j' = RecordTracker(j, t), pc' = "begin_stage"
      PROVE  Inv'
  <2> HIDE DEF t
  <2>1. j.phase = "SEP_DELETED"
    BY <1>a DEF PlaceInv
  <2>2. /\ DOMAIN t = TrackerFields /\ t.staged = j.tracker.staged
        /\ t.phase = "COMPONENT_READY" /\ t.batches = <<Batch>> /\ t.batch = 1
        /\ t.comp = j.tracker.comp
    BY PlanTracker DEF t
  <2>3. /\ Bound /\ Led /\ j'.tracker = t /\ j'.failedStatus = j.failedStatus
        /\ j'.phase = "PERSISTING"
    BY <1>2, <2>2, TrackerRecorded
  <2>4. StagedNames(j'.tracker) = {} /\ j'.tracker.comp = 1
    BY <2>1, <2>2, <2>3 DEF PhaseInv, StagedNames
  <2>5. j'.tracker.batches = <<Batch>>' /\ Batch' = Batch /\ MasterOnly' = MasterOnly
    BY <2>2, <2>3 DEF Batch, MasterOnly, Led
  <2>6. <<Batch>> \in Plans /\ 1 \in 1 .. Len(<<Batch>>[1])
    BY DEF Plans, Batch
  <2>7. TypeInv'
    <3>1. JournalType'
      BY <1>a, <1>b, <1>2, <2>2, <2>3, <2>4, <2>6
         DEF TypeInv, JournalType, SurvivingUser, DeletePhases, TrackerPhases, Bound, Led,
             BaseIds
    <3>2. SepType'
      BY <1>a, <1>b DEF TypeInv, SepType
    <3>3. StoreType'
      BY <1>a, <1>b DEF TypeInv, StoreType
    <3>4. CounterType'
      BY <1>a, <1>b DEF TypeInv, CounterType
    <3>5. pc' \in PCs
      BY <1>a, <1>b, <1>2, <2>2, <2>3, <2>4, <2>6 DEF PCs
    <3> QED BY <3>1, <3>2, <3>3, <3>4, <3>5 DEF TypeInv
  <2>8. CountInv' /\ SideInv' /\ PhaseInv'
    <3>1. CountInv'
      BY <1>a, <1>2, <2>1, <2>2, <2>3, <2>4 DEF CountInv, BaseIds, Bound
    <3>2. SideInv'
      BY <1>a, <1>2, <2>1, <2>2, <2>3, <2>4
         DEF SideInv, BaseIds, Before, Gone, Survivors, SurvivingUser, SurvivingMaster,
             HostAfter, UserAhead, HostUnchanged, StagedNames, Bound, Led
    <3>3. PhaseInv'
      BY <1>a, <1>2, <2>1, <2>2, <2>3, <2>4
         DEF PhaseInv, Gone, Survivors, SurvivingUser, HostUnchanged, Bound
    <3> QED BY <3>1, <3>2, <3>3
  <2>9. PlaceInv' /\ FileInv'
    <3>1. IF MasterOnly THEN UserAhead ELSE HostUnchanged
      BY <2>1 DEF PhaseInv, MasterOnly
    <3> QED BY <1>a, <1>2, <2>3, <2>4, <2>5, <3>1
       DEF PlaceInv, FileInv, Staging, Closing, Bound, UserAhead, HostUnchanged, SurvivingUser,
           Survivors
  <2>10. BootInv'
    BY <1>a, <1>2, <2>1, <2>3 DEF BootInv, Closing, Recovery, Kept, Bound, Led
  <2> QED BY <2>7, <2>8, <2>9, <2>10
<1> QED BY <1>1, <1>2 DEF PersistPlan, AppendChecked

LEMMA BeginStageKeeps ==
    ASSUME Inv, BeginStage
    PROVE  Inv'
<1> USE DEF Inv
<1>1. /\ pc = "begin_stage" /\ pc' = "PREPARE_INTENT"
      /\ UNCHANGED <<sep, j, boot, failures, ops, saves, sent, committedIn>>
  BY DEF BeginStage
<1>2. /\ DOMAIN store' = {"root", "txn", "files"} /\ store'.root = store.root
      /\ store'.txn = "prepare" /\ store'.files = store.files
  BY DEF BeginStage, TypeInv, StoreType
<1>3. /\ j.phase = "PERSISTING" /\ j.tracker.batches = <<Batch>> /\ store.txn = "none"
      /\ j.tracker.comp = 1 /\ StagedNames(j.tracker) = {}
      /\ IF MasterOnly THEN UserAhead ELSE HostUnchanged
  BY <1>1 DEF PlaceInv
<1>4. TypeInv'
  <2>1. JournalType'
    BY <1>1, <1>2 DEF TypeInv, JournalType, SurvivingUser, SurvivingMaster, Survivors, BaseIds
  <2>2. SepType'
    BY <1>1, <1>2 DEF TypeInv, SepType
  <2>3. StoreType'
    BY <1>1, <1>2 DEF TypeInv, StoreType
  <2>4. CounterType'
    BY <1>1, <1>2 DEF TypeInv, CounterType
  <2>5. pc' \in PCs
    BY <1>1, <1>2 DEF PCs, ComponentMilestones, After
  <2> QED BY <2>1, <2>2, <2>3, <2>4, <2>5 DEF TypeInv
<1>5. CountInv' /\ SideInv' /\ PhaseInv'
  <2>1. CountInv'
    BY <1>1, <1>2 DEF CountInv, BaseIds
  <2>2. SideInv'
    BY <1>1, <1>2, <1>3
       DEF SideInv, BaseIds, Before, Gone, Survivors, SurvivingUser, SurvivingMaster, HostAfter,
           UserAhead, HostUnchanged
  <2>3. PhaseInv'
    BY <1>1, <1>2, <1>3 DEF PhaseInv, Gone, Survivors, SurvivingUser, HostUnchanged
  <2> QED BY <2>1, <2>2, <2>3
<1>6. PlaceInv' /\ FileInv'
  BY <1>1, <1>2, <1>3
     DEF PlaceInv, FileInv, Closing, SideInv, UserAhead, HostUnchanged, SurvivingUser,
         Survivors, MasterOnly, Batch, NoFiles, Components
<1>7. BootInv'
  BY <1>1 DEF BootInv, Closing, Recovery
<1> QED BY <1>4, <1>5, <1>6, <1>7

LEMMA BeginStageFailsKeeps ==
    ASSUME Inv, BeginStageFails
    PROVE  Inv'
<1> USE DEF Inv
<1>1. /\ pc = "begin_stage" /\ pc' = "idle" /\ failures' = failures + 1
      /\ UNCHANGED <<sep, boot, ops, saves, sent, committedIn>>
  BY DEF BeginStageFails, Fails, Freeze
<1>2. /\ DOMAIN store' = {"root", "txn", "files"} /\ store'.root = store.root
      /\ store'.txn \in {"none", "prepare"} /\ store'.files = store.files
  BY DEF BeginStageFails, TypeInv, StoreType
<1>3. j.phase = "PERSISTING" /\ store.txn = "none"
  BY <1>1 DEF PlaceInv
<1>4. Kept /\ j'.phase = "OUTCOME_UNKNOWN" /\ j'.failedStatus = j.failedStatus
  BY <1>3, FreezeRecorded DEF BeginStageFails, Freeze, LegalFreeze
<1>c. CounterType'
  BY <1>1 DEF TypeInv, CounterType
<1>5. TypeInv'
  <2>1. JournalType'
    BY <1>1, <1>2, <1>4, <1>c
       DEF TypeInv, JournalType, SurvivingUser, SurvivingMaster, Survivors, DeletePhases,
           TrackerPhases, Kept, Bound, Led, BaseIds
  <2>2. SepType'
    BY <1>1, <1>2 DEF TypeInv, SepType
  <2>3. StoreType'
    BY <1>1, <1>2 DEF TypeInv, StoreType
  <2>4. CounterType'
    BY <1>1, <1>2 DEF TypeInv, CounterType
  <2>5. pc' \in PCs
    BY <1>1, <1>2 DEF PCs
  <2> QED BY <2>1, <2>2, <2>3, <2>4, <2>5 DEF TypeInv
<1>6. CountInv' /\ SideInv' /\ PhaseInv'
  <2>1. CountInv'
    BY <1>1, <1>2, <1>3, <1>4 DEF CountInv, BaseIds, Kept, Bound
  <2>2. SideInv'
    BY <1>1, <1>2, <1>3, <1>4
       DEF SideInv, BaseIds, Before, Gone, Survivors, SurvivingUser, SurvivingMaster, HostAfter,
           UserAhead, HostUnchanged, Kept, Bound, Led
  <2>3. PhaseInv'
    BY <1>1, <1>2, <1>3, <1>4 DEF PhaseInv, Gone, SurvivingUser, HostUnchanged
  <2> QED BY <2>1, <2>2, <2>3
<1>7. BootInv'
  BY <1>1, <1>3, <1>4 DEF BootInv, Closing, Recovery, Kept, Bound, Led
<1> QED BY <1>1, <1>5, <1>6, <1>7, AtRest

\* The failures whose freeze the journal refuses, or accepts as it should.
LEMMA QuietFailuresKeep ==
    ASSUME Inv, ClockBehind \/ ProcessExit \/ PersistCallFails \/ StageWriteFails \/ CrossFails
    PROVE  Inv'
<1>1. UNCHANGED <<sep, store, committedIn>> /\ CounterType'
  BY
     DEF ClockBehind, ProcessExit, PersistCallFails, StageWriteFails, CrossFails, Fails, world,
         Inv, TypeInv, CounterType
<1>2. CASE ClockBehind \/ ProcessExit
  BY <1>1, <1>2, StopKeeps DEF ClockBehind, ProcessExit
<1>3. CASE PersistCallFails \/ StageWriteFails \/ CrossFails
  BY <1>1, <1>3, FreezePersistenceKeeps DEF PersistCallFails, StageWriteFails, CrossFails
<1> QED BY <1>2, <1>3

LEMMA ConfirmFailsKeeps ==
    ASSUME Inv, ConfirmFails
    PROVE  Inv'
<1> USE DEF Inv
<1>1. /\ pc \in {"early_confirm", "final_confirm"} /\ failures' = failures + 1
      /\ UNCHANGED <<store, boot, ops, saves, sent, committedIn>>
  BY DEF ConfirmFails, Fails
<1>2. Gone
  BY <1>1 DEF PlaceInv, PhaseInv, Staging, Closing
<1>3. \/ sep' = sep
      \/ sep'.ids = sep.ids /\ sep'.dirty \subseteq sep.dirty /\ DOMAIN sep' = DOMAIN sep
  BY DEF ConfirmFails, TypeInv, SepType
<1>4. CounterType'
  BY <1>1 DEF TypeInv, CounterType
<1> QED BY <1>1, <1>2, <1>3, <1>4, FreezePersistenceKeeps DEF ConfirmFails

LEMMA RebootKeeps ==
    ASSUME Inv, Reboot
    PROVE  Inv'
<1> USE DEF Inv
<1>1. /\ pc' = "idle" /\ UNCHANGED <<sep, j, ops, saves, sent, committedIn>>
      /\ boot' = boot + 1 /\ failures' = failures + 1
  BY DEF Reboot, Fails
<1>2. CounterType'
  BY <1>1 DEF TypeInv, CounterType
<1>3. CASE store' = store
  BY <1>1, <1>2, <1>3, StopKeeps
<1>4. CASE pc = "roll_forward" /\ store' = [store EXCEPT !.txn = "prepare"]
  <2>1. /\ DOMAIN store' = {"root", "txn", "files"} /\ store'.root = store.root
        /\ store'.txn = "prepare" /\ store'.files = store.files
    BY <1>4 DEF TypeInv, JournalType, StoreType
  <2>2. j.phase = "PERSISTING"
    BY <1>4 DEF PlaceInv
  <2>3. TypeInv'
    <3>1. JournalType'
      BY <1>1, <1>2 DEF TypeInv, JournalType, SurvivingUser, SurvivingMaster, Survivors, BaseIds
    <3>2. SepType'
      BY <1>1, <1>2 DEF TypeInv, SepType
    <3>3. StoreType'
      BY <1>1, <1>2, <2>1 DEF TypeInv, StoreType
    <3>4. CounterType'
      BY <1>1, <1>2 DEF TypeInv, CounterType
    <3>5. pc' \in PCs
      BY <1>1, <1>2 DEF PCs
    <3> QED BY <3>1, <3>2, <3>3, <3>4, <3>5 DEF TypeInv
  <2>4. CountInv' /\ SideInv' /\ PhaseInv'
    <3>1. CountInv'
      BY <1>1, <2>1 DEF CountInv, BaseIds
    <3>2. SideInv'
      BY <1>1, <2>1, <2>2
         DEF SideInv, BaseIds, Before, Gone, Survivors, SurvivingUser, SurvivingMaster,
             HostAfter, UserAhead, HostUnchanged
    <3>3. PhaseInv'
      BY <1>1, <2>1, <2>2 DEF PhaseInv, Gone, Survivors, SurvivingUser, HostUnchanged
    <3> QED BY <3>1, <3>2, <3>3
  <2>5. BootInv'
    BY <1>1 DEF BootInv, Recovery, Closing
  <2> QED BY <1>1, <2>3, <2>4, <2>5, AtRest
<1> QED BY <1>3, <1>4 DEF Reboot

LEMMA EncodedSurvives ==
    ASSUME TypeInv, CountInv
    PROVE  SurvivingUser(Encoded("user")) /\ SurvivingMaster(Encoded("master"))
<1>1. saves \in Nat
  BY DEF TypeInv, JournalType, CounterType
<1> QED BY <1>1, Counting DEF Encoded, SurvivingUser, SurvivingMaster, Users, Masters

\* What a component's place in the plan says of the transaction's files.
LEMMA StageKeeps ==
    ASSUME Inv, StageCreate \/ StageWrite
    PROVE  Inv'
<1> USE DEF Inv
<1> DEFINE n == Current(j.tracker)
           f == IF StageCreate THEN Torn ELSE Encoded(n)
<1>1. /\ pc = "stage" /\ pc' = "stage_write" /\ store' = [store EXCEPT !.files[n] = Torn]
      \/ /\ pc = "stage_write" /\ pc' = "HOST_STAGED"
         /\ store' = [store EXCEPT !.files[n] = Encoded(n)]
  BY DEF StageCreate, StageWrite
<1>2. UNCHANGED <<sep, j, boot, failures, ops, saves, sent, committedIn>>
  BY DEF StageCreate, StageWrite
<1>3. /\ j.phase = "PERSISTING" /\ j.tracker.batches = <<Batch>> /\ store.txn = "prepare"
      /\ IF MasterOnly THEN UserAhead ELSE HostUnchanged
      /\ IF MasterOnly THEN store.files["user"] = Absent
         ELSE j.tracker.comp = 2 => SurvivingUser(store.files["user"])
  BY <1>1 DEF PlaceInv, FileInv, Staging
<1>4. /\ n = IF ~MasterOnly /\ j.tracker.comp = 1 THEN "user" ELSE "master"
      /\ ~AtLast => ~MasterOnly /\ j.tracker.comp = 1
  BY <1>3, PlanPosition
<1>5. SurvivingUser(Encoded("user")) /\ SurvivingMaster(Encoded("master"))
  BY EncodedSurvives
<1> HIDE DEF n
<1>6. /\ DOMAIN store' = {"root", "txn", "files"} /\ store'.root = store.root
      /\ store'.txn = store.txn /\ DOMAIN store'.files = Components
      /\ \A k \in Components : k # n => store'.files[k] = store.files[k]
      /\ store'.files[n] = IF pc = "stage" THEN Torn ELSE Encoded(n)
  BY <1>1, <1>4 DEF TypeInv, StoreType, Components
<1>7. store'.files \in [Components -> Files \cup {Absent, Torn}]
  <2>1. store'.files[n] \in Files \cup {Torn}
    BY <1>4, <1>5, <1>6 DEF SurvivingUser, SurvivingMaster, Users, Masters, Files
  <2>2. \A k \in Components : store'.files[k] \in Files \cup {Absent, Torn}
    BY <1>6, <2>1 DEF TypeInv, JournalType, StoreType
  <2>3. store'.files = [k \in Components |-> store'.files[k]]
    BY <1>1, <1>4 DEF TypeInv, StoreType, Components
  <2> QED BY <2>2, <2>3
<1>8. TypeInv'
  <2>1. JournalType'
    BY <1>1, <1>2 DEF TypeInv, JournalType, SurvivingUser, SurvivingMaster, Survivors, BaseIds
  <2>2. SepType'
    BY <1>1, <1>2 DEF TypeInv, SepType
  <2>3. StoreType'
    BY <1>1, <1>2, <1>6, <1>7 DEF TypeInv, StoreType
  <2>4. CounterType'
    BY <1>1, <1>2 DEF TypeInv, CounterType
  <2>5. pc' \in PCs
    BY <1>1, <1>2 DEF PCs, ComponentMilestones, After
  <2> QED BY <2>1, <2>2, <2>3, <2>4, <2>5 DEF TypeInv
<1>9. CountInv' /\ SideInv' /\ PhaseInv'
  <2>1. CountInv'
    BY <1>2, <1>3 DEF CountInv, BaseIds
  <2>2. SideInv'
    BY <1>2, <1>3, <1>6
       DEF SideInv, BaseIds, Before, Gone, Survivors, SurvivingUser, SurvivingMaster, HostAfter,
           UserAhead, HostUnchanged
  <2>3. PhaseInv'
    BY <1>2, <1>3, <1>6 DEF PhaseInv, Gone, Survivors, SurvivingUser, HostUnchanged
  <2> QED BY <2>1, <2>2, <2>3
<1>10. PlaceInv'
  BY <1>1, <1>2, <1>3, <1>6
     DEF PlaceInv, Closing, UserAhead, HostUnchanged, SurvivingUser, Survivors, MasterOnly,
         Batch
<1>11. FileInv'
  BY <1>1, <1>2, <1>3, <1>4, <1>5, <1>6
     DEF FileInv, SurvivingUser, SurvivingMaster, Survivors, MasterOnly, AtLast, Components
<1>12. BootInv'
  BY <1>1, <1>2 DEF BootInv, Closing, Recovery
<1> QED BY <1>8, <1>9, <1>10, <1>11, <1>12

LEMMA ConfirmKeeps ==
    ASSUME Inv, Confirm
    PROVE  Inv'
<1> USE DEF Inv
<1>1. \/ pc = "early_confirm" /\ pc' = "CONFIRMED"
      \/ pc = "final_confirm" /\ pc' = "FINAL_CONFIRMED"
  BY DEF Confirm
<1>2. UNCHANGED <<store, j, boot, failures, ops, saves, sent, committedIn>>
  BY DEF Confirm
<1>3. sep'.ids = sep.ids /\ sep'.dirty \subseteq sep.dirty /\ DOMAIN sep' = DOMAIN sep
  BY DEF Confirm
<1>4. j.phase = "PERSISTING" /\ Gone
  BY <1>1 DEF PlaceInv, Staging, Closing, PhaseInv
<1>p. pc' \in PCs
  BY <1>1 DEF PCs, ComponentMilestones, After
<1>5. TypeInv'
  <2>1. JournalType'
    BY <1>p, <1>2 DEF TypeInv, JournalType, SurvivingUser, SurvivingMaster, Survivors, BaseIds
  <2>2. SepType'
    BY <1>p, <1>2, <1>3 DEF TypeInv, SepType
  <2>3. StoreType'
    BY <1>p, <1>2 DEF TypeInv, StoreType
  <2>4. CounterType'
    BY <1>p, <1>2 DEF TypeInv, CounterType
  <2>5. pc' \in PCs
    BY <1>p, <1>2
  <2> QED BY <2>1, <2>2, <2>3, <2>4, <2>5 DEF TypeInv
<1>6. CountInv' /\ SideInv' /\ PhaseInv'
  <2>1. CountInv'
    BY <1>2, <1>3 DEF CountInv, BaseIds
  <2>2. SideInv'
    BY <1>2, <1>3, <1>4
       DEF SideInv, Gone, Survivors, SurvivingUser, SurvivingMaster, HostAfter, UserAhead,
           HostUnchanged
  <2>3. PhaseInv'
    BY <1>2, <1>3, <1>4 DEF PhaseInv, Gone, Survivors, SurvivingUser, HostUnchanged
  <2> QED BY <2>1, <2>2, <2>3
<1>7. PlaceInv'
  BY <1>1, <1>2, <1>3
     DEF PlaceInv, Staging, Closing, UserAhead, HostUnchanged, HostAfter, SurvivingUser,
         SurvivingMaster, Survivors, MasterOnly, Batch
<1>8. FileInv'
  BY <1>1, <1>2 DEF FileInv, Staging, SurvivingUser, Survivors, MasterOnly, AtLast
<1>9. BootInv'
  BY <1>1, <1>2 DEF BootInv, Closing, Recovery
<1> QED BY <1>5, <1>6, <1>7, <1>8, <1>9

LEMMA CrossKeeps ==
    ASSUME Inv, Cross
    PROVE  Inv'
<1> USE DEF Inv
<1>1. /\ pc = "cross" /\ pc' = "roll_forward"
      /\ UNCHANGED <<sep, j, boot, failures, ops, saves, sent, committedIn>>
  BY DEF Cross
<1>2. /\ DOMAIN store' = {"root", "txn", "files"} /\ store'.root = store.root
      /\ store'.txn = "commit" /\ store'.files = store.files
  BY DEF Cross, TypeInv, StoreType
<1>3. /\ j.phase = "PERSISTING" /\ j.tracker.batches = <<Batch>> /\ AtLast
      /\ SurvivingMaster(store.files["master"]) /\ "master" \in StagedNames(j.tracker)
  BY <1>1 DEF PlaceInv, FileInv, Staging
<1>4. \/ SurvivingUser(store.files["user"])
      \/ store.files["user"] = Absent /\ UserAhead
  BY <1>1, <1>3 DEF PlaceInv, FileInv, Staging, AtLast
<1>5. TypeInv'
  <2>1. JournalType'
    BY <1>1, <1>2 DEF TypeInv, JournalType, SurvivingUser, SurvivingMaster, Survivors, BaseIds
  <2>2. SepType'
    BY <1>1, <1>2 DEF TypeInv, SepType
  <2>3. StoreType'
    BY <1>1, <1>2 DEF TypeInv, StoreType
  <2>4. CounterType'
    BY <1>1, <1>2 DEF TypeInv, CounterType
  <2>5. pc' \in PCs
    BY <1>1, <1>2 DEF PCs
  <2> QED BY <2>1, <2>2, <2>3, <2>4, <2>5 DEF TypeInv
<1>6. CountInv' /\ SideInv' /\ PhaseInv'
  <2>1. CountInv'
    BY <1>1, <1>2 DEF CountInv, BaseIds
  <2>2. SideInv'
    BY <1>1, <1>2, <1>3, <1>4
       DEF CountInv, SideInv, PhaseInv, BaseIds, Before, Gone, Survivors, SurvivingUser,
           SurvivingMaster, HostAfter, UserAhead, HostUnchanged, TypeInv, JournalType, SepType,
           StoreType, CounterType, StagedNames
  <2>3. PhaseInv'
    BY <1>1, <1>2, <1>3, <1>4 DEF PhaseInv, Gone, Survivors, SurvivingUser, HostUnchanged
  <2> QED BY <2>1, <2>2, <2>3
<1>7. PlaceInv' /\ FileInv'
  BY <1>1, <1>2, <1>3 DEF PlaceInv, FileInv, Staging, Closing, MasterOnly, Batch, AtLast
<1>8. BootInv'
  BY <1>1 DEF BootInv, Closing, Recovery
<1> QED BY <1>5, <1>6, <1>7, <1>8

\* Rolling a crossed transaction forward brings the host to the survivors.
LEMMA RolledForwardHost ==
    ASSUME Inv, store.txn = "commit", store' = RolledForward(store), j' = j
    PROVE  /\ DOMAIN store' = {"root", "txn", "files"} /\ store'.txn = "none"
           /\ store'.files = NoFiles /\ IsRoot(store'.root) /\ HostAfter'
<1> USE DEF Inv
<1>1. /\ DOMAIN store' = {"root", "txn", "files"} /\ store'.txn = "none"
      /\ store'.files = NoFiles /\ DOMAIN store'.root = Components
      /\ store'.root["user"] = IF store.files["user"] = Absent THEN store.root["user"]
                               ELSE store.files["user"]
      /\ store'.root["master"] = IF store.files["master"] = Absent THEN store.root["master"]
                                 ELSE store.files["master"]
  BY DEF RolledForward, Components
<1>2. Absent \notin Users /\ Absent \notin Masters
  BY NamesAssumption DEF Files, Users, Masters
<1>3. SurvivingUser(store'.root["user"]) /\ SurvivingMaster(store'.root["master"])
  BY <1>1, <1>2 DEF SideInv, SurvivingUser, SurvivingMaster, UserAhead
<1> QED BY <1>1, <1>3
   DEF IsRoot, HostAfter, SurvivingUser, SurvivingMaster, Users, Masters, Survivors

LEMMA RollForwardKeeps ==
    ASSUME Inv, RollForward \/ ResolveCommit
    PROVE  Inv'
<1> USE DEF Inv
<1>1. /\ \/ pc = "roll_forward" /\ pc' = "BATCH_COMMITTED"
         \/ pc = "resolve" /\ pc' = "classify"
      /\ store.txn = "commit" /\ store' = RolledForward(store) /\ committedIn' = boot
      /\ UNCHANGED <<sep, j, boot, failures, ops, saves, sent>>
  BY DEF RollForward, ResolveCommit, PlaceInv
<1>2. /\ DOMAIN store' = {"root", "txn", "files"} /\ store'.txn = "none"
      /\ store'.files = NoFiles /\ IsRoot(store'.root) /\ HostAfter'
  BY <1>1, RolledForwardHost
<1>3. NoFiles \in [Components -> Files \cup {Absent, Torn}]
  BY DEF NoFiles
<1>4. /\ j.phase \in {"PERSISTING", "OUTCOME_UNKNOWN"} /\ Gone
      /\ "master" \in StagedNames(j.tracker)
  BY <1>1 DEF SideInv
<1>5. TypeInv'
  <2>1. JournalType'
    BY <1>1, <1>2 DEF TypeInv, JournalType, SurvivingUser, SurvivingMaster, Survivors, BaseIds
  <2>2. SepType'
    BY <1>1, <1>2 DEF TypeInv, SepType
  <2>3. StoreType'
    BY <1>1, <1>2, <1>3 DEF TypeInv, StoreType
  <2>4. CounterType'
    BY <1>1, <1>2 DEF TypeInv, CounterType
  <2>5. pc' \in PCs
    BY <1>1, <1>2 DEF PCs, ComponentMilestones, After
  <2> QED BY <2>1, <2>2, <2>3, <2>4, <2>5 DEF TypeInv
<1>6. CountInv' /\ SideInv' /\ PhaseInv'
  <2>1. CountInv'
    BY <1>1, <1>2 DEF CountInv, BaseIds
  <2>2. SideInv'
    BY <1>1, <1>2, <1>4
       DEF SideInv, Gone, Survivors, SurvivingUser, HostAfter, HostUnchanged, NoFiles
  <2>3. PhaseInv'
    BY <1>1, <1>2, <1>4
       DEF CountInv, SideInv, PhaseInv, BaseIds, Before, Gone, Survivors, SurvivingUser,
           SurvivingMaster, HostAfter, UserAhead, HostUnchanged, TypeInv, JournalType, SepType,
           StoreType, CounterType, StagedNames, NoFiles
  <2> QED BY <2>1, <2>2, <2>3
<1>7. PlaceInv' /\ FileInv'
  BY <1>1, <1>2 DEF PlaceInv, FileInv, Staging, Closing, MasterOnly, Batch
<1>8. BootInv'
  BY <1>1, <1>4 DEF BootInv, Closing, Recovery
<1> QED BY <1>5, <1>6, <1>7, <1>8

\* A record of persistence that stages nothing and leaves the component: the
\* process moves to the next call.
Moves == {<<"PREPARE_INTENT", "PREPARED">>, <<"PREPARED", "COMPLETE_INTENT">>,
          <<"COMPLETE_INTENT", "SECURE_BLOB_CAPTURED">>, <<"SECURE_BLOB_CAPTURED", "stage">>,
          <<"CONFIRM_INTENT", "early_confirm">>, <<"BATCH_COMMIT_INTENT", "cross">>,
          <<"BATCH_COMMITTED", "FINAL_CONFIRM_INTENT">>,
          <<"FINAL_CONFIRM_INTENT", "final_confirm">>, <<"FINAL_CONFIRMED", "readback">>}

LEMMA MilestonePlaces ==
    ASSUME pc \in ComponentMilestones, pc' = ThenPersist[pc]
    PROVE  \/ <<pc, pc'>> \in Moves
           \/ /\ pc = "HOST_STAGED"
              /\ pc' = IF FinalComponent(j.tracker) THEN "BATCH_COMMIT_INTENT"
                                                    ELSE "CONFIRM_INTENT"
           \/ pc = "CONFIRMED" /\ pc' = "PREPARE_INTENT"
           \/ pc = "ATTESTED" /\ pc' = "DELETE_RECONCILED"
BY DEF ComponentMilestones, After, ThenPersist, Moves

LEMMA PersistMilestoneKeeps ==
    ASSUME Inv, PersistMilestone
    PROVE  Inv'
<1> USE DEF Inv
<1> DEFINE n == Current(j.tracker)
           t == Consume(j.tracker, pc, Encoded(n))
<1>a. /\ pc \in ComponentMilestones
      /\ UNCHANGED <<sep, store, boot, failures, ops, saves, sent, committedIn>>
  BY DEF PersistMilestone, world
<1>1. CASE j' = j /\ pc' = "idle"
  BY <1>1, <1>a, StopKeeps DEF TypeInv, JournalType, CounterType
<1>2. ASSUME j' = RecordTracker(j, t), pc' = ThenPersist[pc]
      PROVE  Inv'
  <2>1. /\ j.phase = "PERSISTING" /\ j.tracker.batches = <<Batch>>
        /\ pc \in Staging \cup Closing
    BY <1>a DEF PlaceInv, Staging, Closing, ComponentMilestones, After
  <2>2. /\ FinalComponent(j.tracker) <=> AtLast
        /\ FinalBatch(j.tracker)
        /\ n = IF ~MasterOnly /\ j.tracker.comp = 1 THEN "user" ELSE "master"
        /\ ~AtLast => ~MasterOnly /\ j.tracker.comp = 1
    BY <2>1, PlanPosition
  <2>3. Bound /\ Led /\ j'.tracker = t /\ j'.failedStatus = j.failedStatus
    BY <1>2, TrackerRecorded
  <2>x. j'.phase = IF t.phase = "COMPLETE" THEN "PERSISTENCE_READY"
                   ELSE IF t.phase = "OUTCOME_UNKNOWN" THEN "OUTCOME_UNKNOWN"
                   ELSE "PERSISTING"
    BY <1>2, TrackerRecorded
  <2>4. pc' \in PCs
    BY <1>a, <1>2, MilestonePlaces DEF Moves, PCs, ComponentMilestones, After
  <2>5. CASE <<pc, pc'>> \in Moves
    <3>0. pc \notin {"HOST_STAGED", "CONFIRMED", "ATTESTED"}
      BY <2>5 DEF Moves
    <3>1. /\ DOMAIN t = TrackerFields /\ t.staged = j.tracker.staged
          /\ t.batches = j.tracker.batches /\ t.batch = 1 /\ t.comp = j.tracker.comp
      BY <1>a, <2>2, <3>0, MovedTracker
    <3>2. t.phase \in TrackerPhases /\ t.phase \notin {"COMPLETE", "OUTCOME_UNKNOWN"}
      <4>1. t.phase = IF pc = "FINAL_CONFIRMED" THEN "ATTESTATION_READY" ELSE pc
        BY <1>a, <2>2, <3>0, MovedTracker
      <4> QED BY <4>1, <2>5 DEF Moves, TrackerPhases
    <3> HIDE DEF t
    <3>3. j'.phase = "PERSISTING"
      BY <2>x, <3>2
    <3>4. TypeInv'
      <4>1. JournalType'
        BY <1>a, <2>3, <2>4, <3>1, <3>2, <3>3
           DEF TypeInv, JournalType, SurvivingUser, SurvivingMaster, Survivors, StagedNames,
               DeletePhases, Bound, Led, BaseIds
      <4>2. SepType'
        BY <1>a, <2>3 DEF TypeInv, SepType
      <4>3. StoreType'
        BY <1>a, <2>3 DEF TypeInv, StoreType
      <4>4. CounterType'
        BY <1>a, <2>3 DEF TypeInv, CounterType
      <4>5. pc' \in PCs
        BY <1>a, <2>3, <2>4, <3>1, <3>2, <3>3
      <4> QED BY <4>1, <4>2, <4>3, <4>4, <4>5 DEF TypeInv
    <3>5. CountInv' /\ SideInv' /\ PhaseInv'
      <4>1. CountInv'
        BY <1>a, <2>1, <2>3, <3>1, <3>3 DEF CountInv, BaseIds, Bound
      <4>2. SideInv'
        BY <1>a, <2>1, <2>3, <3>1, <3>3
           DEF SideInv, BaseIds, Before, Gone, Survivors, SurvivingUser, SurvivingMaster,
               HostAfter, UserAhead, HostUnchanged, StagedNames, Bound, Led
      <4>3. PhaseInv'
        BY <1>a, <2>1, <2>3, <3>1, <3>3
           DEF PhaseInv, Gone, Survivors, SurvivingUser, HostUnchanged, Bound
      <4> QED BY <4>1, <4>2, <4>3
    <3>6. PlaceInv'
      BY <1>a, <2>1, <2>3, <2>5, <3>1, <3>3
         DEF PlaceInv, Staging, Closing, Moves, Kept, Bound, Led, UserAhead, HostUnchanged,
             HostAfter, SurvivingUser, SurvivingMaster, Survivors, MasterOnly, Batch
    <3>7. FileInv'
      BY <1>a, <2>1, <2>3, <2>5, <3>1
         DEF FileInv, Staging, Moves, Kept, Bound, Led, SurvivingUser, SurvivingMaster,
             Survivors, MasterOnly, AtLast, StagedNames
    <3>8. BootInv'
      BY <1>a, <2>1, <2>3, <2>5, <3>3 DEF BootInv, Closing, Recovery, Moves, Kept, Bound, Led
    <3> QED BY <3>4, <3>5, <3>6, <3>7, <3>8
  <2>6. CASE pc = "HOST_STAGED"
    <3>1. SurvivingUser(Encoded("user")) /\ SurvivingMaster(Encoded("master"))
      BY EncodedSurvives
    <3>2. /\ DOMAIN t = TrackerFields /\ t.phase = "HOST_STAGED"
          /\ t.batches = j.tracker.batches /\ t.batch = 1 /\ t.comp = j.tracker.comp
          /\ StagedNames(t) = StagedNames(j.tracker) \cup {n} /\ t.staged[n] = Encoded(n)
          /\ \A k \in StagedNames(j.tracker) : k # n => t.staged[k] = j.tracker.staged[k]
      BY <2>6, HostStagedTracker
    <3> HIDE DEF t, n
    <3>3. /\ StagedNames(t) \subseteq Components
          /\ "user" \in StagedNames(t) => SurvivingUser(t.staged["user"])
          /\ "master" \in StagedNames(t) => SurvivingMaster(t.staged["master"])
      BY <2>2, <3>1, <3>2 DEF TypeInv, JournalType, Components
    <3>4. /\ j'.phase = "PERSISTING"
          /\ pc' = IF AtLast THEN "BATCH_COMMIT_INTENT" ELSE "CONFIRM_INTENT"
      BY <1>a, <1>2, <2>2, <2>x, <2>6, <3>2, MilestonePlaces DEF Moves
    <3>5. TypeInv'
      <4>1. JournalType'
        BY <1>a, <2>3, <2>4, <3>2, <3>3, <3>4
           DEF TypeInv, JournalType, SurvivingUser, SurvivingMaster, Survivors, DeletePhases,
               TrackerPhases, Bound, Led, BaseIds
      <4>2. SepType'
        BY <1>a, <2>3 DEF TypeInv, SepType
      <4>3. StoreType'
        BY <1>a, <2>3 DEF TypeInv, StoreType
      <4>4. CounterType'
        BY <1>a, <2>3 DEF TypeInv, CounterType
      <4>5. pc' \in PCs
        BY <1>a, <2>3, <2>4, <3>2, <3>3, <3>4
      <4> QED BY <4>1, <4>2, <4>3, <4>4, <4>5 DEF TypeInv
    <3>6. CountInv' /\ SideInv' /\ PhaseInv'
      <4>1. CountInv'
        BY <1>a, <2>1, <2>3, <3>2, <3>4 DEF CountInv, BaseIds, Bound
      <4>2. SideInv'
        BY <1>a, <2>1, <2>3, <3>2, <3>4
           DEF SideInv, BaseIds, Before, Gone, Survivors, SurvivingUser, SurvivingMaster,
               HostAfter, UserAhead, HostUnchanged, Bound, Led
      <4>3. PhaseInv'
        BY <1>a, <2>1, <2>3, <3>2, <3>4
           DEF PhaseInv, Gone, Survivors, SurvivingUser, HostUnchanged, Bound
      <4> QED BY <4>1, <4>2, <4>3
    <3>7. PlaceInv'
      BY <1>a, <2>1, <2>3, <2>6, <3>2, <3>4
         DEF PlaceInv, Closing, Kept, Bound, Led, UserAhead, HostUnchanged, SurvivingUser,
             Survivors, MasterOnly, Batch
    <3>8. FileInv'
      BY <1>a, <2>1, <2>2, <2>3, <2>6, <3>2, <3>4
         DEF FileInv, Staging, Kept, Bound, Led, SurvivingUser, SurvivingMaster, Survivors,
             MasterOnly, AtLast
    <3>9. BootInv'
      BY <1>a, <2>3, <2>6, <3>4 DEF BootInv, Closing, Recovery, Kept, Bound, Led
    <3> QED BY <3>5, <3>6, <3>7, <3>8, <3>9
  <2>7. CASE pc = "CONFIRMED"
    <3>1. /\ DOMAIN t = TrackerFields /\ t.staged = j.tracker.staged
          /\ t.phase = "COMPONENT_READY"
          /\ t.batches = j.tracker.batches /\ t.batch = 1 /\ t.comp = j.tracker.comp + 1
      BY <1>a, <2>2, <2>7, MovedTracker
    <3> HIDE DEF t, n
    <3>2. ~MasterOnly /\ j.tracker.comp = 1 /\ SurvivingUser(store.files["user"])
      BY <2>2, <2>7 DEF PlaceInv, FileInv, Staging
    <3>3. /\ t.comp = 2 /\ 2 \in 1 .. Len(t.batches[1])
          /\ j'.phase = "PERSISTING" /\ pc' = "PREPARE_INTENT"
      <4>1. t.comp = 2 /\ j'.phase = "PERSISTING"
        BY <2>x, <3>1, <3>2
      <4>2. 2 \in 1 .. Len(t.batches[1])
        BY <2>1, <3>1, <3>2 DEF Batch
      <4>3. pc' = "PREPARE_INTENT"
        BY <1>a, <1>2, <2>7, MilestonePlaces DEF Moves
      <4> QED BY <4>1, <4>2, <4>3
    <3>5. TypeInv'
      <4>1. JournalType'
        BY <1>a, <2>3, <2>4, <3>1, <3>3
           DEF TypeInv, JournalType, SurvivingUser, SurvivingMaster, Survivors, StagedNames,
               DeletePhases, TrackerPhases, Bound, Led, BaseIds
      <4>2. SepType'
        BY <1>a, <2>3 DEF TypeInv, SepType
      <4>3. StoreType'
        BY <1>a, <2>3 DEF TypeInv, StoreType
      <4>4. CounterType'
        BY <1>a, <2>3 DEF TypeInv, CounterType
      <4>5. pc' \in PCs
        BY <1>a, <2>3, <2>4, <3>1, <3>3
      <4> QED BY <4>1, <4>2, <4>3, <4>4, <4>5 DEF TypeInv
    <3>6. CountInv' /\ SideInv' /\ PhaseInv'
      <4>1. CountInv'
        BY <1>a, <2>1, <2>3, <3>1, <3>3 DEF CountInv, BaseIds, Bound
      <4>2. SideInv'
        BY <1>a, <2>1, <2>3, <3>1, <3>3
           DEF SideInv, BaseIds, Before, Gone, Survivors, SurvivingUser, SurvivingMaster,
               HostAfter, UserAhead, HostUnchanged, StagedNames, Bound, Led
      <4>3. PhaseInv'
        BY <1>a, <2>1, <2>3, <3>1, <3>3
           DEF PhaseInv, Gone, Survivors, SurvivingUser, HostUnchanged, Bound
      <4> QED BY <4>1, <4>2, <4>3
    <3>7. PlaceInv'
      BY <1>a, <2>1, <2>3, <2>7, <3>1, <3>3
         DEF PlaceInv, Closing, Bound, Led, HostUnchanged, SurvivingUser, MasterOnly, Batch
    <3>8. FileInv'
      BY <1>a, <2>3, <3>1, <3>2, <3>3
         DEF FileInv, Kept, Bound, Led, SurvivingUser, Survivors, MasterOnly
    <3>9. BootInv'
      BY <1>a, <2>3, <2>7, <3>3 DEF BootInv, Closing, Recovery, Kept, Bound, Led
    <3> QED BY <3>5, <3>6, <3>7, <3>8, <3>9
  <2>8. CASE pc = "ATTESTED"
    <3>1. /\ DOMAIN t = TrackerFields /\ t.staged = j.tracker.staged
          /\ t.phase = "COMPLETE"
          /\ t.batches = j.tracker.batches /\ t.batch = 1 /\ t.comp = j.tracker.comp
      BY <1>a, <2>2, <2>8, MovedTracker
    <3> HIDE DEF t, n
    <3>2. sep.dirty = {} /\ HostAfter /\ store.txn = "none"
      BY <2>8 DEF PlaceInv, FileInv, Closing
    <3>3. j'.phase = "PERSISTENCE_READY" /\ pc' = "DELETE_RECONCILED"
      BY <1>a, <1>2, <2>x, <2>8, <3>1, MilestonePlaces DEF Moves
    <3>5. TypeInv'
      <4>1. JournalType'
        BY <1>a, <2>3, <2>4, <3>1, <3>3
           DEF TypeInv, JournalType, SurvivingUser, SurvivingMaster, Survivors, StagedNames,
               DeletePhases, TrackerPhases, Bound, Led, BaseIds
      <4>2. SepType'
        BY <1>a, <2>3 DEF TypeInv, SepType
      <4>3. StoreType'
        BY <1>a, <2>3 DEF TypeInv, StoreType
      <4>4. CounterType'
        BY <1>a, <2>3 DEF TypeInv, CounterType
      <4>5. pc' \in PCs
        BY <1>a, <2>3, <2>4, <3>1, <3>3
      <4> QED BY <4>1, <4>2, <4>3, <4>4, <4>5 DEF TypeInv
    <3>6. CountInv' /\ SideInv' /\ PhaseInv'
      <4>1. CountInv'
        BY <1>a, <2>1, <2>3, <3>1, <3>2, <3>3 DEF CountInv, BaseIds, Bound
      <4>2. SideInv'
        BY <1>a, <2>1, <2>3, <3>1, <3>2, <3>3
           DEF SideInv, BaseIds, Before, Gone, Survivors, SurvivingUser, SurvivingMaster,
               HostAfter, HostUnchanged, StagedNames, Bound
      <4>3. PhaseInv'
        BY <1>a, <2>1, <2>3, <3>1, <3>2, <3>3
           DEF PhaseInv, Gone, Survivors, SurvivingUser, SurvivingMaster, HostAfter,
               HostUnchanged, Bound
      <4> QED BY <4>1, <4>2, <4>3
    <3>7. PlaceInv' /\ FileInv'
      BY <3>3 DEF PlaceInv, FileInv, Staging, Closing
    <3>9. BootInv'
      BY <1>a, <2>1, <2>3, <2>8, <3>3 DEF BootInv, Closing, Recovery, Kept, Bound, Led
    <3> QED BY <3>5, <3>6, <3>7, <3>9
  <2> QED BY <1>a, <1>2, <2>5, <2>6, <2>7, <2>8, MilestonePlaces
<1> QED BY <1>1, <1>2 DEF PersistMilestone, AppendChecked

LEMMA ReadbackKeeps ==
    ASSUME Inv, Readback
    PROVE  Inv'
<1> USE DEF Inv
<1>1. pc = "readback" /\ UNCHANGED <<sep, store, boot, failures, ops, saves, sent, committedIn>>
  BY DEF Readback, world
<1>2. CASE FreezePersistence
  BY <1>1, <1>2, FreezePersistenceKeeps DEF TypeInv, JournalType, CounterType
<1>3. CASE Reconciles /\ pc' = "ATTESTED" /\ j' = j
  <2>1. sep.dirty = {}
    BY <1>3 DEF Reconciles, SepClean
  <2>2. pc' \in PCs
    BY <1>3 DEF PCs, ComponentMilestones, After
  <2>3. TypeInv'
    <3>1. JournalType'
      BY <1>1, <1>3 DEF TypeInv, JournalType, SurvivingUser, SurvivingMaster, Survivors, BaseIds
    <3>2. SepType'
      BY <1>1, <1>3 DEF TypeInv, SepType
    <3>3. StoreType'
      BY <1>1, <1>3 DEF TypeInv, StoreType
    <3>4. CounterType'
      BY <1>1, <1>3 DEF TypeInv, CounterType
    <3>5. pc' \in PCs
      BY <1>1, <1>3, <2>2
    <3> QED BY <3>1, <3>2, <3>3, <3>4, <3>5 DEF TypeInv
  <2>4. CountInv' /\ SideInv' /\ PhaseInv'
    <3>1. CountInv'
      BY <1>1, <1>3 DEF CountInv, BaseIds
    <3>2. SideInv'
      BY <1>1, <1>3
         DEF SideInv, BaseIds, Before, Gone, Survivors, SurvivingUser, SurvivingMaster,
             HostAfter, UserAhead, HostUnchanged
    <3>3. PhaseInv'
      BY <1>1, <1>3
         DEF CountInv, SideInv, PhaseInv, BaseIds, Before, Gone, Survivors, SurvivingUser,
             SurvivingMaster, HostAfter, UserAhead, HostUnchanged, TypeInv, JournalType,
             SepType, StoreType, CounterType, StagedNames
    <3> QED BY <3>1, <3>2, <3>3
  <2>5. PlaceInv' /\ FileInv'
    BY <1>1, <1>3, <2>1
       DEF PlaceInv, FileInv, Staging, Closing, HostAfter, SurvivingUser, SurvivingMaster,
           Survivors, MasterOnly, Batch
  <2>6. BootInv'
    BY <1>1, <1>3 DEF BootInv, Closing, Recovery
  <2> QED BY <2>3, <2>4, <2>5, <2>6
<1> QED BY <1>2, <1>3 DEF Readback

LEMMA ReconciledKeeps ==
    ASSUME Inv, Reconciled
    PROVE  Inv'
<1> USE DEF Inv
<1>1. /\ pc = "DELETE_RECONCILED" /\ pc' = "idle"
      /\ UNCHANGED <<sep, store, boot, failures, ops, saves, sent, committedIn>>
  BY DEF Reconciled, AppendChecked, world
<1>2. CASE j' = j
  BY <1>1, <1>2, StopKeeps DEF TypeInv, JournalType, CounterType
<1>3. CASE j' = RecordReconciled(j)
  <2>1. /\ Kept /\ j'.phase = "RECONCILED" /\ j'.failedStatus = j.failedStatus
        /\ j'.reconciledBoot = IF j.recoveryBoot = None THEN j.boot ELSE j.recoveryBoot
    BY <1>3 DEF RecordReconciled, TypeInv, JournalType, HistoryFields, Kept, Bound, Led
  <2>2. j.phase = "PERSISTENCE_READY"
    BY <1>1 DEF PlaceInv
  <2>3. TypeInv'
    <3>1. JournalType'
      BY <1>1, <2>1
         DEF TypeInv, JournalType, SurvivingUser, SurvivingMaster, Survivors, DeletePhases,
             TrackerPhases, Kept, Bound, Led, BaseIds
    <3>2. SepType'
      BY <1>1, <2>1 DEF TypeInv, SepType
    <3>3. StoreType'
      BY <1>1, <2>1 DEF TypeInv, StoreType
    <3>4. CounterType'
      BY <1>1, <2>1 DEF TypeInv, CounterType
    <3>5. pc' \in PCs
      BY <1>1, <2>1 DEF PCs
    <3> QED BY <3>1, <3>2, <3>3, <3>4, <3>5 DEF TypeInv
  <2>4. CountInv' /\ SideInv' /\ PhaseInv'
    <3>1. CountInv'
      BY <1>1, <2>1 DEF CountInv, BaseIds, Kept, Bound
    <3>2. SideInv'
      BY <1>1, <2>1, <2>2
         DEF SideInv, BaseIds, Before, Gone, Survivors, SurvivingUser, SurvivingMaster,
             HostAfter, UserAhead, HostUnchanged, Kept, Bound, Led
    <3>3. PhaseInv'
      BY <1>1, <2>1, <2>2
         DEF PhaseInv, Gone, Survivors, SurvivingUser, SurvivingMaster, HostAfter,
             HostUnchanged, Kept, Bound
    <3> QED BY <3>1, <3>2, <3>3
  <2>5. BootInv'
    BY <1>1, <2>1, <2>2 DEF BootInv, Recovery, Kept, Bound, Led
  <2> QED BY <1>1, <2>3, <2>4, <2>5, AtRest
<1> QED BY <1>2, <1>3 DEF Reconciled, AppendChecked

-----------------------------------------------------------------------------
(* run_delete_recovery and verify_post_reboot. *)

LEMMA RecoverKeeps ==
    ASSUME Inv, Recover
    PROVE  Inv'
<1>1. /\ pc' = "inspect" /\ UNCHANGED <<sep, store, committedIn>>
      /\ CounterType'
  BY DEF Recover, world, Inv, TypeInv, CounterType
<1>2. CASE j' = j
  BY <1>1, <1>2, StopKeeps
<1>3. CASE StrandedBeforePersistence /\ j' = RecordFreeze(j)
  BY <1>1, <1>3, FreezeKeeps DEF StrandedBeforePersistence, LegalFreeze
<1> QED BY <1>2, <1>3 DEF Recover

LEMMA InspectKeeps ==
    ASSUME Inv, Inspect
    PROVE  Inv'
<1> USE DEF Inv
<1>1. UNCHANGED <<sep, store, boot, failures, ops, saves, sent, committedIn>>
  BY DEF Inspect, world
<1>2. CASE j' = j /\ pc' = "idle"
  BY <1>1, <1>2, StopKeeps DEF TypeInv, JournalType, CounterType
<1>3. CASE j' = j /\ pc' = "resolve" /\ j.action # None
  <2>1. TypeInv'
    <3>1. JournalType'
      BY <1>1, <1>3 DEF TypeInv, JournalType, SurvivingUser, SurvivingMaster, Survivors, BaseIds
    <3>2. SepType'
      BY <1>1, <1>3 DEF TypeInv, SepType
    <3>3. StoreType'
      BY <1>1, <1>3 DEF TypeInv, StoreType
    <3>4. CounterType'
      BY <1>1, <1>3 DEF TypeInv, CounterType
    <3>5. pc' \in PCs
      BY <1>1, <1>3 DEF PCs
    <3> QED BY <3>1, <3>2, <3>3, <3>4, <3>5 DEF TypeInv
  <2>2. CountInv' /\ SideInv' /\ PhaseInv'
    <3>1. CountInv'
      BY <1>1, <1>3 DEF CountInv, BaseIds
    <3>2. SideInv'
      BY <1>1, <1>3
         DEF SideInv, BaseIds, Before, Gone, Survivors, SurvivingUser, SurvivingMaster,
             HostAfter, UserAhead, HostUnchanged
    <3>3. PhaseInv'
      BY <1>1, <1>3
         DEF CountInv, SideInv, PhaseInv, BaseIds, Before, Gone, Survivors, SurvivingUser,
             SurvivingMaster, HostAfter, UserAhead, HostUnchanged, TypeInv, JournalType,
             SepType, StoreType, CounterType, StagedNames
    <3> QED BY <3>1, <3>2, <3>3
  <2>3. PlaceInv' /\ FileInv'
    BY <1>1, <1>3 DEF PlaceInv, FileInv, Staging, Closing
  <2>4. BootInv'
    BY <1>1, <1>3 DEF BootInv, Closing, Recovery
  <2> QED BY <2>1, <2>2, <2>3, <2>4
<1>4. CASE /\ j' = RecordRecoveryIntent(j, ObservedAction, boot) /\ pc' = "resolve"
           /\ LegalRecoveryIntent(j)
  <2>1. ObservedAction \in Actions
    BY DEF ObservedAction, Actions
  <2>2. /\ Bound /\ j'.action = ObservedAction /\ j'.recoveryBoot = boot
        /\ j'.phase = "OUTCOME_UNKNOWN" /\ j'.recoveryUser = j.recoveryUser
        /\ j'.tracker = j.tracker /\ j'.failedStatus = j.failedStatus
    BY <1>4 DEF RecordRecoveryIntent, TypeInv, JournalType, HistoryFields, Bound
  <2>3. j'.action # None /\ j'.recoveryBoot # None
    BY <2>1, <2>2, NamesAssumption DEF TypeInv, JournalType, CounterType
  <2>4. j.phase \in Interrupted
    BY <1>4 DEF LegalRecoveryIntent, RetryingForward, Interrupted
  <2>5. TypeInv'
    <3>1. JournalType'
      BY <1>1, <1>4, <2>1, <2>2
         DEF TypeInv, JournalType, SepType, CounterType, PCs, SurvivingUser, SurvivingMaster,
             Survivors, DeletePhases, TrackerPhases, Bound, BaseIds
    <3>2. SepType'
      BY <1>1, <1>4 DEF TypeInv, SepType
    <3>3. StoreType'
      BY <1>1, <1>4 DEF TypeInv, StoreType
    <3>4. CounterType'
      BY <1>1, <1>4 DEF TypeInv, CounterType
    <3>5. pc' \in PCs
      BY <1>1, <1>4 DEF PCs
    <3> QED BY <3>1, <3>2, <3>3, <3>4, <3>5 DEF TypeInv
  <2>6. CountInv' /\ SideInv' /\ PhaseInv'
    <3>1. CountInv'
      BY <1>1, <2>2 DEF CountInv, BaseIds, Bound
    <3>2. SideInv'
      BY <1>1, <2>2, <2>4
         DEF SideInv, BaseIds, Before, Gone, Survivors, SurvivingUser, SurvivingMaster,
             HostAfter, UserAhead, HostUnchanged, Bound, Interrupted
    <3>3. PhaseInv'
      BY <1>1, <2>2, <2>4 DEF PhaseInv, Gone, SurvivingUser, HostUnchanged
    <3> QED BY <3>1, <3>2, <3>3
  <2>7. PlaceInv' /\ FileInv'
    BY <1>1, <1>4, <2>3 DEF PlaceInv, FileInv, Staging, Closing
  <2>8. BootInv'
    BY <1>1, <1>4, <2>2, <2>3 DEF BootInv, Closing, Recovery
  <2> QED BY <2>5, <2>6, <2>7, <2>8
<1> QED BY <1>2, <1>3, <1>4 DEF Inspect, AppendChecked

LEMMA ResolveKeeps ==
    ASSUME Inv, ResolvePrepare \/ ResolveNothing
    PROVE  Inv'
<1> USE DEF Inv
<1>1. /\ pc = "resolve" /\ pc' = "classify"
      /\ UNCHANGED <<sep, j, boot, failures, ops, saves, sent, committedIn>>
  BY DEF ResolvePrepare, ResolveNothing, world
<1>2. /\ DOMAIN store' = {"root", "txn", "files"} /\ store'.root = store.root
      /\ store'.txn = "none" /\ store'.files = NoFiles
  BY ZenonT(60)
     DEF ResolvePrepare, ResolveNothing, world, TypeInv, JournalType, SepType, StoreType,
         CounterType, SideInv
<1>3. NoFiles \in [Components -> Files \cup {Absent, Torn}]
  BY DEF NoFiles
<1>4. TypeInv'
  <2>1. JournalType'
    BY <1>1, <1>2 DEF TypeInv, JournalType, SurvivingUser, SurvivingMaster, Survivors, BaseIds
  <2>2. SepType'
    BY <1>1, <1>2 DEF TypeInv, SepType
  <2>3. StoreType'
    BY <1>1, <1>2, <1>3 DEF TypeInv, StoreType
  <2>4. CounterType'
    BY <1>1, <1>2 DEF TypeInv, CounterType
  <2>5. pc' \in PCs
    BY <1>1, <1>2 DEF PCs
  <2> QED BY <2>1, <2>2, <2>3, <2>4, <2>5 DEF TypeInv
<1>5. CountInv' /\ SideInv' /\ PhaseInv'
  <2>1. CountInv'
    BY <1>1, <1>2 DEF CountInv, BaseIds
  <2>2. SideInv'
    BY <1>1, <1>2
       DEF SideInv, BaseIds, Before, Gone, Survivors, SurvivingUser, SurvivingMaster, HostAfter,
           UserAhead, HostUnchanged, NoFiles
  <2>3. PhaseInv'
    BY <1>1, <1>2
       DEF CountInv, SideInv, PhaseInv, BaseIds, Before, Gone, Survivors, SurvivingUser,
           SurvivingMaster, HostAfter, UserAhead, HostUnchanged, TypeInv, JournalType, SepType,
           StoreType, CounterType, StagedNames, NoFiles
  <2> QED BY <2>1, <2>2, <2>3
<1>6. PlaceInv' /\ FileInv'
  BY <1>1, <1>2 DEF PlaceInv, FileInv, Staging, Closing
<1>7. BootInv'
  BY <1>1 DEF BootInv, Closing, Recovery
<1> QED BY <1>4, <1>5, <1>6, <1>7

\* A host that still is the baseline has not lost the target.
LEMMA HostNotAhead ==
    ASSUME TypeInv, CountInv, HostUnchanged
    PROVE  /\ store.root["user"].ids = BaseIds /\ store.root["user"].ids # Survivors
           /\ ~SurvivingUser(store.root["user"]) /\ ~HostAfter
BY Counting DEF HostUnchanged, BaseIds, SurvivingUser, HostAfter

LEMMA ClassifyKeeps ==
    ASSUME Inv, Classify
    PROVE  Inv'
<1> USE DEF Inv
<1>1. /\ pc = "classify"
      /\ UNCHANGED <<sep, store, boot, failures, ops, saves, sent, committedIn>>
  BY DEF Classify, world
<1>2. store.txn = "none" /\ j.action # None
  BY <1>1 DEF PlaceInv
<1>3. CASE j' = j /\ pc' = "idle"
  BY <1>1, <1>3, StopKeeps DEF TypeInv, JournalType, CounterType
<1>4. CASE Unchanged /\ j' = RecordNoChange(j) /\ pc' = "idle"
  <2>1. Kept /\ j'.phase = "ABORTED" /\ j'.failedStatus = j.failedStatus
    BY <1>4 DEF RecordNoChange, TypeInv, JournalType, HistoryFields, Kept, Bound, Led
  <2>2. HostUnchanged /\ Before
    BY <1>4, HostNotAhead DEF Unchanged, SepClean, Before
  <2>3. TypeInv'
    <3>1. JournalType'
      BY <1>1, <1>4, <2>1
         DEF TypeInv, JournalType, SurvivingUser, SurvivingMaster, Survivors, DeletePhases,
             TrackerPhases, Kept, Bound, Led, BaseIds
    <3>2. SepType'
      BY <1>1, <1>4 DEF TypeInv, SepType
    <3>3. StoreType'
      BY <1>1, <1>4 DEF TypeInv, StoreType
    <3>4. CounterType'
      BY <1>1, <1>4 DEF TypeInv, CounterType
    <3>5. pc' \in PCs
      BY <1>1, <1>4 DEF PCs
    <3> QED BY <3>1, <3>2, <3>3, <3>4, <3>5 DEF TypeInv
  <2>4. CountInv' /\ SideInv' /\ PhaseInv'
    <3>1. CountInv'
      BY <1>1, <1>2, <2>1, <2>2 DEF CountInv, BaseIds, Kept, Bound
    <3>2. SideInv'
      BY <1>1, <1>2, <2>1, <2>2
         DEF SideInv, BaseIds, Before, Gone, Survivors, SurvivingUser, SurvivingMaster,
             HostAfter, HostUnchanged, Kept, Bound, Led
    <3>3. PhaseInv'
      BY <1>1, <1>2, <2>1, <2>2
         DEF PhaseInv, BaseIds, Before, Gone, SurvivingUser, HostUnchanged, Kept, Bound
    <3> QED BY <3>1, <3>2, <3>3
  <2>5. BootInv'
    BY <1>1, <1>4, <2>1 DEF BootInv, Closing, Recovery, Kept, Bound, Led
  <2> QED BY <1>4, <2>3, <2>4, <2>5, AtRest
<1>5. CASE Committed /\ j' = RecordCommitted(j) /\ pc' = "idle"
  <2>1. /\ Kept /\ j'.phase = "RECONCILED" /\ j'.failedStatus = j.failedStatus
        /\ j'.reconciledBoot = j.recoveryBoot
    BY <1>5 DEF RecordCommitted, TypeInv, JournalType, HistoryFields, Kept, Bound, Led
  <2>2. Gone /\ sep.dirty = {} /\ HostAfter
    BY <1>5
       DEF Committed, HostHasSurvivors, SepClean, Gone, HostAfter, TypeInv, JournalType,
           Components
  <2>3. TypeInv'
    <3>1. JournalType'
      BY <1>1, <1>5, <2>1
         DEF TypeInv, JournalType, SurvivingUser, SurvivingMaster, Survivors, DeletePhases,
             TrackerPhases, Kept, Bound, Led, BaseIds
    <3>2. SepType'
      BY <1>1, <1>5 DEF TypeInv, SepType
    <3>3. StoreType'
      BY <1>1, <1>5 DEF TypeInv, StoreType
    <3>4. CounterType'
      BY <1>1, <1>5 DEF TypeInv, CounterType
    <3>5. pc' \in PCs
      BY <1>1, <1>5 DEF PCs
    <3> QED BY <3>1, <3>2, <3>3, <3>4, <3>5 DEF TypeInv
  <2>4. CountInv' /\ SideInv' /\ PhaseInv'
    <3>1. CountInv'
      BY <1>1, <1>2, <2>1, <2>2 DEF CountInv, BaseIds, Kept, Bound
    <3>2. SideInv'
      BY <1>1, <1>2, <2>1, <2>2
         DEF SideInv, Gone, Survivors, SurvivingUser, SurvivingMaster, HostAfter, HostUnchanged,
             Kept, Bound
    <3>3. PhaseInv'
      BY <1>1, <1>2, <2>1, <2>2
         DEF PhaseInv, Gone, Survivors, SurvivingUser, SurvivingMaster, HostAfter,
             HostUnchanged, Kept, Bound
    <3> QED BY <3>1, <3>2, <3>3
  <2>5. BootInv'
    BY <1>1, <1>2, <1>5, <2>1 DEF BootInv, Kept, Bound, Led
  <2> QED BY <1>5, <2>3, <2>4, <2>5, AtRest
<1>6. CASE ForwardRequired /\ j' = RecordForward(j) /\ pc' = "persist"
  <2>1. /\ Bound /\ Led /\ j'.phase = "SEP_DELETED" /\ j'.failedStatus = j.failedStatus
        /\ j'.tracker = NewTracker("identity-delete", TRUE)
    BY <1>6 DEF RecordForward, TypeInv, JournalType, HistoryFields, Bound, Led
  <2>2. /\ DOMAIN j'.tracker = TrackerFields /\ j'.tracker.phase = "NOT_STARTED"
        /\ j'.tracker.batches = << >> /\ j'.tracker.batch = 1 /\ j'.tracker.comp = 1
        /\ StagedNames(j'.tracker) = {}
    BY <2>1, NothingStaged DEF NewTracker, TrackerFields, StagedNames
  <2>3. Gone /\ HostUnchanged /\ ~HostAfter /\ j.recoveryUser = None
    BY <1>6, HostNotAhead DEF ForwardRequired, Gone, SideInv
  <2>4. TypeInv'
    <3>1. JournalType'
      BY <1>1, <1>6, <2>1, <2>2
         DEF TypeInv, JournalType, SepType, StoreType, CounterType, IsRoot, PCs, DeletePhases,
             TrackerPhases, Plans, Bound, Led, BaseIds
    <3>2. SepType'
      BY <1>1, <1>6 DEF TypeInv, SepType
    <3>3. StoreType'
      BY <1>1, <1>6 DEF TypeInv, StoreType
    <3>4. CounterType'
      BY <1>1, <1>6 DEF TypeInv, CounterType
    <3>5. pc' \in PCs
      BY <1>1, <1>6 DEF PCs
    <3> QED BY <3>1, <3>2, <3>3, <3>4, <3>5 DEF TypeInv
  <2>5. CountInv' /\ SideInv' /\ PhaseInv'
    <3>1. CountInv'
      BY <1>1, <1>2, <2>1, <2>2, <2>3 DEF CountInv, BaseIds, Bound
    <3>2. SideInv'
      BY <1>1, <1>2, <2>1, <2>2, <2>3
         DEF CountInv, SideInv, PhaseInv, BaseIds, Before, Gone, Survivors, SurvivingUser,
             SurvivingMaster, HostAfter, UserAhead, HostUnchanged, Bound, Led
    <3>3. PhaseInv'
      BY <1>1, <1>2, <2>1, <2>2, <2>3
         DEF CountInv, SideInv, PhaseInv, BaseIds, Before, Gone, Survivors, SurvivingUser,
             SurvivingMaster, HostAfter, UserAhead, HostUnchanged, Bound, Led
    <3> QED BY <3>1, <3>2, <3>3
  <2>6. PlaceInv' /\ FileInv'
    BY <1>6, <2>1 DEF PlaceInv, FileInv, Staging, Closing
  <2>7. BootInv'
    BY <1>1, <1>2, <1>6, <2>1 DEF BootInv, Bound, Led
  <2> QED BY <2>4, <2>5, <2>6, <2>7
<1>7. CASE /\ MasterForwardRequired /\ LegalMasterForward(j, store.root["user"])
           /\ j' = RecordMasterForward(j, store.root["user"]) /\ pc' = "persist"
  <2>1. /\ Bound /\ j'.phase = "SEP_DELETED" /\ j'.failedStatus = j.failedStatus
        /\ j'.action = j.action /\ j'.recoveryBoot = j.recoveryBoot
        /\ j'.recoveryUser = store.root["user"]
        /\ j'.tracker = NewTracker("identity-delete-master-recovery", TRUE)
    BY <1>7 DEF RecordMasterForward, TypeInv, JournalType, HistoryFields, Bound
  <2>2. /\ DOMAIN j'.tracker = TrackerFields /\ j'.tracker.phase = "NOT_STARTED"
        /\ j'.tracker.batches = << >> /\ j'.tracker.batch = 1 /\ j'.tracker.comp = 1
        /\ StagedNames(j'.tracker) = {}
    BY <2>1, NothingStaged DEF NewTracker, TrackerFields, StagedNames
  <2>3. store.root["user"] \in Users /\ store.root["user"] # None
    BY NamesAssumption DEF TypeInv, StoreType, IsRoot, Users, Files
  <2>4. /\ Gone /\ SurvivingUser(store.root["user"])
    BY <1>7, <2>3 DEF MasterForwardRequired, HostHasSurvivors, Gone, SurvivingUser
  <2>5. UserAhead /\ ~HostAfter
    <3>1. "master" \notin StagedNames(j.tracker)
      BY <1>7 DEF LegalMasterForward
    <3>2. ~HostAfter
      BY <3>1 DEF SideInv
    <3> QED BY <2>4, <3>2, HostNotAhead DEF SideInv
  <2>6. TypeInv'
    <3>1. JournalType'
      BY <1>1, <1>7, <2>1, <2>2, <2>3
         DEF TypeInv, JournalType, SepType, StoreType, CounterType, IsRoot, PCs, DeletePhases,
             TrackerPhases, Plans, Bound, BaseIds
    <3>2. SepType'
      BY <1>1, <1>7 DEF TypeInv, SepType
    <3>3. StoreType'
      BY <1>1, <1>7 DEF TypeInv, StoreType
    <3>4. CounterType'
      BY <1>1, <1>7 DEF TypeInv, CounterType
    <3>5. pc' \in PCs
      BY <1>1, <1>7 DEF PCs
    <3> QED BY <3>1, <3>2, <3>3, <3>4, <3>5 DEF TypeInv
  <2>7. CountInv' /\ SideInv' /\ PhaseInv'
    <3>1. CountInv'
      BY <1>1, <1>2, <2>1, <2>2, <2>3, <2>4, <2>5 DEF CountInv, BaseIds, Bound
    <3>2. SideInv'
      BY <1>1, <1>2, <2>1, <2>2, <2>3, <2>4, <2>5
         DEF CountInv, SideInv, PhaseInv, BaseIds, Before, Gone, Survivors, SurvivingUser,
             SurvivingMaster, HostAfter, UserAhead, HostUnchanged, Bound
    <3>3. PhaseInv'
      BY <1>1, <1>2, <2>1, <2>2, <2>3, <2>4, <2>5
         DEF CountInv, SideInv, PhaseInv, BaseIds, Before, Gone, Survivors, SurvivingUser,
             SurvivingMaster, HostAfter, UserAhead, HostUnchanged, Bound
    <3> QED BY <3>1, <3>2, <3>3
  <2>8. PlaceInv' /\ FileInv'
    BY <1>7, <2>1 DEF PlaceInv, FileInv, Staging, Closing
  <2>9. BootInv'
    BY <1>1, <1>2, <1>7, <2>1 DEF BootInv, Closing, Bound
  <2> QED BY <2>6, <2>7, <2>8, <2>9
<1> QED BY <1>3, <1>4, <1>5, <1>6, <1>7 DEF Classify, AppendChecked

LEMMA VerifyPostRebootKeeps ==
    ASSUME Inv, VerifyPostReboot
    PROVE  Inv'
<1> USE DEF Inv
<1>1. /\ pc = "idle" /\ pc' = "idle" /\ j.phase = "RECONCILED"
      /\ UNCHANGED <<sep, store, boot, failures, ops, saves, sent, committedIn>>
      /\ j' = RecordMilestone(j, "DELETE_POST_REBOOT_VERIFIED")
  BY DEF VerifyPostReboot, AppendPostRebootVerified, world
<1>2. Kept /\ j'.phase = "POST_REBOOT_VERIFIED" /\ j'.failedStatus = j.failedStatus
  BY <1>1, MilestoneRecorded DEF PhaseOf, MilestoneAfter
<1>3. TypeInv'
  <2>1. JournalType'
    BY <1>1, <1>2
       DEF TypeInv, JournalType, SurvivingUser, SurvivingMaster, Survivors, DeletePhases,
           TrackerPhases, Kept, Bound, Led, BaseIds
  <2>2. SepType'
    BY <1>1, <1>2 DEF TypeInv, SepType
  <2>3. StoreType'
    BY <1>1, <1>2 DEF TypeInv, StoreType
  <2>4. CounterType'
    BY <1>1, <1>2 DEF TypeInv, CounterType
  <2>5. pc' \in PCs
    BY <1>1, <1>2 DEF PCs
  <2> QED BY <2>1, <2>2, <2>3, <2>4, <2>5 DEF TypeInv
<1>4. CountInv' /\ SideInv' /\ PhaseInv'
  <2>1. CountInv'
    BY <1>1, <1>2 DEF CountInv, BaseIds, Kept, Bound
  <2>2. SideInv'
    BY <1>1, <1>2
       DEF SideInv, BaseIds, Before, Gone, Survivors, SurvivingUser, SurvivingMaster, HostAfter,
           UserAhead, HostUnchanged, Kept, Bound, Led
  <2>3. PhaseInv'
    BY <1>1, <1>2
       DEF CountInv, SideInv, PhaseInv, BaseIds, Before, Gone, Survivors, SurvivingUser,
           SurvivingMaster, HostAfter, UserAhead, HostUnchanged, TypeInv, JournalType, SepType,
           StoreType, CounterType, StagedNames, Kept, Bound, Led
  <2> QED BY <2>1, <2>2, <2>3
<1>5. BootInv'
  BY <1>1, <1>2 DEF BootInv, Kept, Bound, Led
<1> QED BY <1>1, <1>3, <1>4, <1>5, AtRest

-----------------------------------------------------------------------------
(* The invariant holds of every behaviour. *)

LEMMA InitInv == ASSUME Init PROVE Inv
<1>1. PICK ids \in (SUBSET Ids) \ {{}} : \E target \in ids :
         \/ /\ sep = [ids |-> ids, dirty |-> {}]
            /\ store = [root |-> Archive([ids |-> ids, save |-> 0], ids),
                        txn |-> "none", files |-> NoFiles]
            /\ j = NewHistory(store.root, target, 0)
         \/ /\ sep = [ids |-> ids \ {target}, dirty |-> {"master"}]
            /\ store = [root |-> Archive([ids |-> ids \ {target}, save |-> 0], ids),
                        txn |-> "none", files |-> NoFiles]
            /\ j = OldHistory(ids, target, store.root["user"])
  BY DEF Init
<1>t. PICK target \in ids :
         \/ /\ sep = [ids |-> ids, dirty |-> {}]
            /\ store = [root |-> Archive([ids |-> ids, save |-> 0], ids),
                        txn |-> "none", files |-> NoFiles]
            /\ j = NewHistory(store.root, target, 0)
         \/ /\ sep = [ids |-> ids \ {target}, dirty |-> {"master"}]
            /\ store = [root |-> Archive([ids |-> ids \ {target}, save |-> 0], ids),
                        txn |-> "none", files |-> NoFiles]
            /\ j = OldHistory(ids, target, store.root["user"])
  BY <1>1
<1> DEFINE baseline == Archive([ids |-> ids, save |-> 0], ids)
<1>2. Cardinality(ids) \in Nat
  BY IdsAssumption, FS_Subset, FS_CardinalityType
<1>3. /\ DOMAIN baseline = Components /\ baseline["user"] = [ids |-> ids, save |-> 0]
      /\ baseline["master"] = [count |-> Cardinality(ids), save |-> 0]
      /\ IsRoot(baseline)
  BY <1>2 DEF Archive, IsRoot, Components
<1>4. /\ DOMAIN sep = {"ids", "dirty"} /\ DOMAIN store = {"root", "txn", "files"}
      /\ store.txn = "none" /\ store.files = NoFiles
  BY <1>t
<1>5. NoFiles \in [Components -> Files \cup {Absent, Torn}]
  BY DEF NoFiles
<1>6. /\ pc = "idle" /\ boot = 0 /\ failures = 0 /\ ops = 0 /\ saves = 0 /\ sent = 0
  BY DEF Init
<1>p. pc \in PCs
  BY <1>6 DEF PCs
<1>7. CASE /\ sep = [ids |-> ids, dirty |-> {}] /\ store.root = baseline
           /\ j = NewHistory(store.root, target, 0)
  <2>1. /\ DOMAIN j = HistoryFields
        /\ j.phase = "BASELINE" /\ j.action = None /\ j.recoveryUser = None
        /\ j.baseline = baseline /\ j.target = target /\ j.failedStatus \in BOOLEAN
        /\ j.boot = 0 /\ j.recoveryBoot = None
    BY <1>7 DEF NewHistory, HistoryFields
  <2>n. j.tracker = NewTracker("identity-delete", FALSE)
    BY <1>7 DEF NewHistory
  <2>2. /\ DOMAIN j.tracker = TrackerFields /\ j.tracker.phase = "NOT_STARTED"
        /\ j.tracker.batches = << >> /\ j.tracker.batch = 1 /\ j.tracker.comp = 1
        /\ StagedNames(j.tracker) = {}
    BY <2>n, NothingStaged DEF NewTracker, TrackerFields, StagedNames
  <2>x. sep.ids = ids /\ sep.dirty = {} /\ store.root = baseline
    BY <1>7
  <2> HIDE DEF baseline
  <2>3. TypeInv
    <3>1. JournalType
      BY <1>3, <2>1, <2>2 DEF JournalType, BaseIds, DeletePhases, TrackerPhases, Plans
    <3>2. SepType /\ StoreType
      BY <1>3, <1>4, <1>5, <2>x DEF SepType, StoreType
    <3> QED BY <3>1, <3>2, <1>6, <1>p DEF TypeInv, CounterType
  <2>z. CountInv /\ HostUnchanged /\ Before
    BY <1>3, <2>x, <2>1 DEF CountInv, BaseIds, Before, HostUnchanged
  <2>w. ~HostAfter
    BY <2>3, <2>z, HostNotAhead
  <2>4. SideInv /\ PhaseInv
    BY <1>4, <2>1, <2>n, <2>z, <2>w DEF SideInv, PhaseInv
  <2>5. PlaceInv /\ FileInv /\ BootInv
    BY <1>6, <2>1 DEF PlaceInv, FileInv, Staging, Closing, BootInv
  <2> QED BY <2>3, <2>4, <2>5, <2>z DEF Inv
<1>8. CASE /\ sep = [ids |-> ids \ {target}, dirty |-> {"master"}]
           /\ store.root = Archive([ids |-> ids \ {target}, save |-> 0], ids)
           /\ j = OldHistory(ids, target, store.root["user"])
  <2>0. /\ DOMAIN store.root = Components
        /\ store.root["user"] = [ids |-> ids \ {target}, save |-> 0]
        /\ store.root["master"] = baseline["master"]
        /\ IsRoot(store.root)
    BY <1>2, <1>8 DEF Archive, IsRoot, Components
  <2>1. /\ DOMAIN j = HistoryFields
        /\ j.phase = "OUTCOME_UNKNOWN" /\ j.action = None /\ j.recoveryUser = None
        /\ j.baseline = baseline /\ j.target = target /\ j.failedStatus \in BOOLEAN
        /\ j.boot = 0 /\ j.recoveryBoot = None
    BY <1>8 DEF OldHistory, NewHistory, HistoryFields
  <2>2. /\ DOMAIN j.tracker = TrackerFields /\ j.tracker.phase = "OUTCOME_UNKNOWN"
        /\ j.tracker.batches = <<<<"user">>>> /\ j.tracker.batch = 1 /\ j.tracker.comp = 1
        /\ StagedNames(j.tracker) = {"user"} /\ j.tracker.staged["user"] = store.root["user"]
    BY <1>8
       DEF OldHistory, NewHistory, NewTracker, ConsumePlan, ConsumeFreeze, TrackerFields,
           StagedNames
  <2>x. sep.ids = ids \ {target} /\ sep.dirty = {"master"}
    BY <1>8
  <2> HIDE DEF baseline
  <2>3. 1 \in 1 .. Len(<<<<"user">>>>[1])
    OBVIOUS
  <2>4. SurvivingUser(store.root["user"]) /\ Survivors = ids \ {target}
    BY <1>3, <2>0, <2>1 DEF SurvivingUser, Survivors, Users
  <2>5. TypeInv
    <3>1. JournalType
      BY <1>3, <2>1, <2>2, <2>3, <2>4
         DEF JournalType, BaseIds, DeletePhases, TrackerPhases, Plans, Components
    <3>2. SepType /\ StoreType
      BY <1>4, <1>5, <2>0, <2>x DEF SepType, StoreType, Components
    <3> QED BY <3>1, <3>2, <1>6, <1>p DEF TypeInv, CounterType
  <2>z. CountInv
    BY <1>3, <2>1 DEF CountInv, BaseIds
  <2>w. Gone /\ UserAhead
    BY <2>x, <2>0, <2>1, <2>4 DEF Gone, UserAhead
  <2>v. ~HostAfter
    BY <1>2, <1>3, <2>0, <2>1 DEF HostAfter, SurvivingMaster
  <2>6. SideInv /\ PhaseInv
    BY <1>4, <2>1, <2>w, <2>v DEF SideInv, PhaseInv
  <2>7. PlaceInv /\ FileInv /\ BootInv
    BY <1>6, <2>1 DEF PlaceInv, FileInv, Staging, Closing, BootInv
  <2> QED BY <2>5, <2>6, <2>7, <2>z DEF Inv
<1> QED BY <1>t, <1>7, <1>8

LEMMA NextInv == ASSUME Inv, [Next]_vars PROVE Inv'
<1>1. CASE \E target \in Ids : RunDelete(target)
  BY <1>1, RunDeleteKeeps
<1>2. CASE Operate
  BY <1>2, MilestoneKeeps, SendDeleteKeeps, CommandObservedKeeps, ReadAbsenceKeeps,
         ReadUnchangedKeeps
     DEF Operate
<1>3. CASE Persist
  BY <1>3, PersistPlanKeeps, BeginStageKeeps, PersistMilestoneKeeps, StageKeeps, ConfirmKeeps,
         CrossKeeps, RollForwardKeeps, ReadbackKeeps, ReconciledKeeps
     DEF Persist
<1>4. CASE ResolveRefused
  <2>1. /\ j' = j /\ pc' = "idle" /\ UNCHANGED <<sep, store, committedIn>>
        /\ CounterType'
    BY <1>4 DEF ResolveRefused, world, Inv, TypeInv, CounterType
  <2> QED BY <2>1, StopKeeps
<1>5. CASE RecoverStep
  BY <1>4, <1>5, RecoverKeeps, InspectKeeps, ResolveKeeps, RollForwardKeeps, ClassifyKeeps
     DEF RecoverStep
<1>6. CASE VerifyPostReboot
  BY <1>6, VerifyPostRebootKeeps
<1>7. CASE Failure
  BY <1>7, SendDeleteFailsKeeps, InventoryFailsKeeps, BeginStageFailsKeeps, QuietFailuresKeep,
         ConfirmFailsKeeps, RebootKeeps
     DEF Failure
<1>8. CASE UNCHANGED vars
  <2>1. TypeInv'
    <3>1. JournalType'
      BY <1>8
         DEF vars, Inv, TypeInv, JournalType, SurvivingUser, SurvivingMaster, Survivors, BaseIds
    <3>2. SepType'
      BY <1>8 DEF vars, Inv, TypeInv, SepType
    <3>3. StoreType'
      BY <1>8 DEF vars, Inv, TypeInv, StoreType
    <3>4. CounterType'
      BY <1>8 DEF vars, Inv, TypeInv, CounterType, SurvivingUser
    <3>5. pc' \in PCs
      BY <1>8 DEF vars, Inv, TypeInv
    <3> QED BY <3>1, <3>2, <3>3, <3>4, <3>5 DEF TypeInv
  <2>2. CountInv' /\ SideInv' /\ PhaseInv'
    <3>1. CountInv'
      BY <1>8 DEF vars, Inv, CountInv, BaseIds, Gone, SurvivingUser, HostUnchanged
    <3>2. SideInv'
      BY <1>8
         DEF vars, Inv, SideInv, BaseIds, Before, Gone, Survivors, SurvivingUser,
             SurvivingMaster, HostAfter, UserAhead, HostUnchanged
    <3>3. PhaseInv'
      BY <1>8
         DEF vars, Inv, CountInv, SideInv, PhaseInv, BaseIds, Before, Gone, Survivors,
             SurvivingUser, SurvivingMaster, HostAfter, UserAhead, HostUnchanged, TypeInv,
             JournalType, SepType, StoreType, CounterType, StagedNames
    <3> QED BY <3>1, <3>2, <3>3
  <2>3. PlaceInv'
    BY <1>8
       DEF vars, Inv, PlaceInv, Before, BaseIds, HostAfter, UserAhead, HostUnchanged,
           SurvivingUser, SurvivingMaster, Survivors, MasterOnly, Batch
  <2>4. FileInv'
    BY <1>8
       DEF vars, Inv, FileInv, SurvivingUser, SurvivingMaster, Survivors, MasterOnly, AtLast
  <2>5. BootInv'
    BY <1>8 DEF vars, Inv, BootInv
  <2> QED BY <2>1, <2>2, <2>3, <2>4, <2>5 DEF Inv
<1> QED BY <1>1, <1>2, <1>3, <1>5, <1>6, <1>7, <1>8 DEF Next

\* Every state a deletion can reach, in any number of failures, reboots and
\* restarts, satisfies the invariant.
THEOREM Invariance == Spec => []Inv
BY InitInv, NextInv, PTL DEF Spec

-----------------------------------------------------------------------------
(* What follows. *)

LEMMA ReportsFromInv == ASSUME Inv PROVE ReportsHold
<1> USE DEF Inv
<1>1. TypeOK
  BY DEF TypeInv, JournalType, SepType, StoreType, CounterType, TypeOK, BaseIds
<1>2. ReconciledSound
  BY DEF ReconciledSound, PhaseInv, SideInv, Gone, HostAfter, SurvivingUser, SurvivingMaster
<1>3. AbortedSound
  BY DEF AbortedSound, PhaseInv, SideInv, Before, BaseIds, HostUnchanged
<1> QED BY <1>1, <1>2, <1>3 DEF ReportsHold

\* What a closed deletion journal reports is so in the SEP and in the archive,
\* whichever path through persistence or recovery closed it.
THEOREM ReportsAlwaysHold == Spec => []ReportsHold
<1>1. Inv => ReportsHold
  BY ReportsFromInv
<1> QED BY <1>1, Invariance, PTL

LEMMA OwnedFromInv == ASSUME Inv PROVE ArchiveOwned
<1> USE DEF Inv
<1>1. sep.ids \subseteq store.root["user"].ids
  BY Counting
     DEF SideInv, Before, Gone, BaseIds, HostUnchanged, HostAfter, UserAhead, SurvivingUser,
         Survivors
<1>2. HostNeverAhead
  <2>1. CASE store.txn # "commit"
    BY <1>1, <2>1 DEF HostNeverAhead
  <2>2. CASE store.txn = "commit"
    <3>1. sep.ids \subseteq RolledForward(store).root["user"].ids
      BY <1>1, <2>2 DEF SideInv, Gone, SurvivingUser, RolledForward, Components
    <3> QED BY <2>2, <3>1 DEF HostNeverAhead
  <2> QED BY <2>1, <2>2
<1>3. InconsistencyIsOwned
  <2>1. CASE j.phase \in {"BASELINE", "ABORTED"}
    BY <2>1 DEF InconsistencyIsOwned, PhaseInv, SideInv, Before, BaseIds, HostUnchanged
  <2>2. CASE j.phase \in {"RECONCILED", "POST_REBOOT_VERIFIED"}
    BY <2>2 DEF InconsistencyIsOwned, PhaseInv, SideInv, Gone, HostAfter, SurvivingUser
  <2>3. CASE j.phase \in Interrupted
    BY <2>3 DEF InconsistencyIsOwned
  <2> QED BY <2>1, <2>2, <2>3 DEF TypeInv, JournalType, DeletePhases, Interrupted
<1> QED BY <1>2, <1>3 DEF ArchiveOwned

\* SEP first: the archive never forgets a finger the SEP still accepts, also when
\* a crossed transaction is still to be rolled forward, and an open journal owns
\* every difference between the two.
THEOREM ArchiveAlwaysOwned == Spec => []ArchiveOwned
<1>1. Inv => ArchiveOwned
  BY OwnedFromInv
<1> QED BY <1>1, Invariance, PTL

LEMMA NoStepResends == ASSUME Inv, [Next]_vars PROVE NoResend
<1> USE DEF Inv
<1>1. sent \in Nat
  BY DEF TypeInv, JournalType, CounterType
<1>2. CASE SendDelete \/ SendDeleteFails
  <2>1. pc = "send"
    BY <1>2 DEF SendDelete, SendDeleteFails
  <2> QED BY <2>1 DEF NoResend, PlaceInv, PhaseInv
<1>3. CASE \E target \in Ids : RunDelete(target)
  BY <1>1, <1>3 DEF RunDelete, NoResend
<1>4. CASE sent' = sent
  BY <1>1, <1>4 DEF NoResend
<1>5. \/ SendDelete \/ SendDeleteFails \/ \E target \in Ids : RunDelete(target)
      \/ sent' = sent
  BY
     DEF Next, Operate, Persist, RecoverStep, Failure, vars, world, Milestone, CommandObserved,
         ReadAbsence, ReadUnchanged, PersistPlan, BeginStage, PersistMilestone, StageCreate,
         StageWrite, Confirm, Cross, RollForward, Readback, Reconciled, Recover, Inspect,
         ResolveRefused, ResolvePrepare, ResolveCommit, ResolveNothing, Classify,
         InventoryFails, BeginStageFails, ClockBehind, PersistCallFails, StageWriteFails,
         ConfirmFails, CrossFails, ProcessExit, Reboot, VerifyPostReboot
<1> QED BY <1>2, <1>3, <1>4, <1>5

LEMMA OnlyVerifies ==
    ASSUME Inv, [Next]_vars, j.phase = "RECONCILED", j'.phase = "POST_REBOOT_VERIFIED"
    PROVE  VerifyPostReboot
<1> USE DEF Inv
<1>1. j' # j
  OBVIOUS
<1>2. pc \in {"idle", "inspect", "resolve", "classify"}
  BY DEF PlaceInv, Staging, Closing, TypeInv, PCs, Then, ComponentMilestones, After
<1>3. CASE RecoverStep
  <2>1. Recover \/ Inspect \/ Classify
    BY <1>1, <1>3 DEF RecoverStep, ResolveRefused, ResolvePrepare, ResolveCommit, ResolveNothing
  <2>2. ~Recover
    BY DEF Recover, Interrupted
  <2>3. ~Inspect
    BY <1>1 DEF Inspect, AppendChecked, LegalRecoveryIntent, RetryingForward, Interrupted
  <2>4. ~Classify
    BY <1>1 DEF Classify, Recovering
  <2> QED BY <2>1, <2>2, <2>3, <2>4
<1>4. CASE \E target \in Ids : RunDelete(target)
  BY <1>4 DEF RunDelete, NewHistory
<1>5. CASE ProcessExit \/ Reboot
  BY <1>1, <1>5 DEF ProcessExit, Reboot
<1>6. \/ RecoverStep \/ VerifyPostReboot \/ ProcessExit \/ Reboot \/ UNCHANGED vars
      \/ \E target \in Ids : RunDelete(target)
  BY <1>2
     DEF Next, Operate, Persist, Failure, vars, Milestone, SendDelete, CommandObserved,
         ReadAbsence, ReadUnchanged, PersistPlan, BeginStage, PersistMilestone, StageCreate,
         StageWrite, Confirm, Cross, RollForward, Readback, Reconciled, SendDeleteFails,
         InventoryFails, BeginStageFails, ClockBehind, PersistCallFails, StageWriteFails,
         ConfirmFails, CrossFails, Then, ComponentMilestones, After
<1> QED BY <1>1, <1>3, <1>4, <1>5, <1>6 DEF vars

LEMMA VerifiedInLaterBoot == ASSUME Inv, [Next]_vars PROVE VerifiedAfterReboot
<1> SUFFICES ASSUME j.phase = "RECONCILED", j'.phase = "POST_REBOOT_VERIFIED"
             PROVE  boot # committedIn \/ (j.action # None /\ j.recoveryBoot # committedIn)
  BY DEF VerifiedAfterReboot
<1>1. boot # j.reconciledBoot
  BY OnlyVerifies DEF VerifyPostReboot, AppendPostRebootVerified, Survived
<1> QED BY <1>1 DEF Inv, BootInv

\* No step sends the delete command a second time or on behalf of a recovery, and
\* none takes the boot that committed a deletion for the one that verifies it.
THEOREM RecoveryStepsSound == Spec => RecoverySteps
<1>1. Inv /\ [Next]_vars => [NoResend /\ VerifiedAfterReboot]_vars
  BY NoStepResends, VerifiedInLaterBoot
<1> QED BY <1>1, Invariance, PTL DEF Spec, RecoverySteps

=============================================================================
