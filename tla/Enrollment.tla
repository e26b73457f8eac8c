----------------------------- MODULE Enrollment -----------------------------
(***************************************************************************)
(* Enrolling one finger: the capture of t2_enrollment_operation driven by  *)
(* the events of the sensor, the finalizer and its component batches, and  *)
(* the owners that pick up an enrollment whose outcome is unknown, run by  *)
(* processes that may die at any step on a machine that may lose power.    *)
(*                                                                         *)
(* As in IdentityDelete, a journal append is atomic and durable and the    *)
(* component store crosses or discards a transaction as a whole.  The SEP  *)
(* adds a finger on its own, while events are still on their way; closing  *)
(* the connection ends a capture, with or without a finger.                *)
(***************************************************************************)
EXTENDS Naturals, Sequences, FiniteSets, FiniteSetsExt, EnrollmentJournal

CONSTANTS Ids,          \* fingers that may be enrolled; their number is the capacity
          Absent,       \* no such file
          Torn,         \* a file whose bytes do not decode
          EventLimit,   \* events one capture may take (512 in the code)
          MaxFailures,  \* bound on failures of a behaviour
          MaxOps        \* bound on enrollments started

ASSUME IdsAssumption == Ids # {} /\ IsFiniteSet(Ids)
ASSUME EnrollmentBounds == {EventLimit, MaxFailures, MaxOps} \subseteq Nat
ASSUME EnrollmentNames == /\ Unset \notin Ids \cup Statuses \cup LocalStages
                          /\ Absent \notin [ids : SUBSET Ids, save : Nat]

VARIABLES sep,      \* templates, components to save, capture running, Catacomb UUID set
          wire,     \* events sent and not yet read
          store,    \* committed root files and the transaction in flight
          j,        \* the enrollment journal, replayed
          native,   \* Linux-native authority, or the compatibility one
          authority,\* the published runtime authority and its temporary files
          saved,    \* an accepted match of the new finger is on file
          pc,       \* where the process holding the operation lock is
          stage,    \* the stage a failing capture is about to report
          events,   \* events this capture has taken
          boot, failures, ops,
          saves,    \* save attempts so far: two saves never have equal bytes
          starts    \* start commands sent on behalf of the journal

held == <<native, authority, saved>>

enrollVars == <<sep, wire, store, j, held, pc, stage, events, boot, failures, ops, saves, starts>>

Components == {"user", "master", "biolockout"}
NoFiles == [n \in Components |-> Absent]

HostIds(root) == IF root["user"] = Absent THEN {} ELSE root["user"].ids
HostCount(root) == IF root["master"] = Absent THEN 0 ELSE root["master"].count

-----------------------------------------------------------------------------
(* Journal access, and leaving the connection. *)

\* The connection closes: a capture still running ends, with or without its
\* finger, and events not read are gone.
WithFinger(s, id) == [s EXCEPT !.ids = @ \cup {id}, !.dirty = {"user", "master"},
                               !.capture = FALSE, !.uuid = TRUE]

Closed(s) == {[s EXCEPT !.capture = FALSE]} \cup
             (IF s.capture THEN {WithFinger(s, id) : id \in Ids \ s.ids} ELSE {})

Disconnect == sep' \in Closed(sep) /\ wire' = <<>>

Leave == pc' = "idle" /\ Disconnect

AppendChecked(legal, next, to) ==
    IF legal THEN j' = next /\ pc' = to /\ UNCHANGED <<sep, wire>>
             ELSE j' = j /\ Leave

\* _outcome_unknown without the cleanup cancel
Unknown(s) == /\ j' = IF LegalUnknown(j, s) THEN RecordUnknown(j, s) ELSE j
              /\ Leave

\* _outcome_unknown for a protocol error: a capture the journal says is active
\* is cancelled first.
ProtocolError(s) == IF j.phase = "ACTIVE"
                    THEN /\ stage' = s /\ pc' = "cleanup"
                         /\ UNCHANGED <<sep, wire, j>>
                    ELSE Unknown(s) /\ UNCHANGED stage

Fails == failures < MaxFailures /\ failures' = failures + 1

counters == <<boot, ops, saves, starts, events>>

-----------------------------------------------------------------------------
(* Start: the baseline, and the command. *)

EmptyRoot == [n \in Components |-> Absent]

RootOf(ids) == [n \in Components |->
                   CASE n = "user" -> [ids |-> ids, save |-> 0]
                     [] n = "master" -> [count |-> Cardinality(ids), save |-> 0]
                     [] OTHER -> [save |-> 0]]

\* What publish keeps for the user: a copy of the verified journal, the
\* manifest being written, and whether the manifest names the copy.
NoAuthority == [copy |-> Absent, temp |-> Absent, published |-> FALSE]

Published(a) == [copy |-> "journal", temp |-> Absent, published |-> TRUE]

\* Either no finger was ever enrolled or one is; the empty Catacomb of a first
\* enrollment may or may not have its UUID yet.
EnrollInit == /\ \/ \E uuid \in BOOLEAN :
                       /\ sep = [ids |-> {}, dirty |-> {}, capture |-> FALSE, uuid |-> uuid]
                       /\ store = [root |-> EmptyRoot, txn |-> "none", files |-> NoFiles]
                       /\ native = TRUE /\ authority = NoAuthority
                 \/ \E id \in Ids :
                       /\ sep = [ids |-> {id}, dirty |-> {}, capture |-> FALSE, uuid |-> TRUE]
                       /\ store = [root |-> RootOf({id}), txn |-> "none", files |-> NoFiles]
                       /\ native \in BOOLEAN
                       /\ authority = IF native THEN Published(NoAuthority) ELSE NoAuthority
              /\ wire = <<>>
              /\ j = NewEnrollment(1, store.root, sep.ids, 0)
              /\ saved = FALSE /\ pc = "idle" /\ stage = Unset
              /\ boot = 0 /\ failures = 0 /\ ops = 0 /\ saves = 0 /\ starts = 0 /\ events = 0

Version == IF store.root = EmptyRoot THEN 2 ELSE 1

\* A first finger needs an empty state, journals included
\* (_require_fresh_enrollment_state); a further one the published authority.
AuthorityAdmits == IF Version = 2 THEN native /\ ops = 0
                                  ELSE native => authority.published

\* The registry admits the operation, the host archive and the SEP agree and
\* the baseline is journaled.  sepUuid: the Catacomb had its UUID.
RunEnrollment ==
    /\ pc = "idle" /\ ops < MaxOps
    /\ CompletePhase(j)
    /\ AuthorityAdmits
    /\ store.txn = "none"
    /\ HostIds(store.root) = sep.ids
    /\ Cardinality(sep.ids) < Cardinality(Ids)
    /\ j' = NewEnrollment(Version, store.root, sep.ids, boot)
    /\ saved' = FALSE
    /\ pc' = "dispatch"
    /\ ops' = ops + 1 /\ starts' = 0 /\ events' = 0
    /\ UNCHANGED <<sep, wire, store, native, authority, stage, boot, failures, saves>>

\* The caller went away or the sleep inhibitor did.
AbortBeforeStart ==
    /\ pc = "dispatch" /\ Fails
    /\ AppendChecked(LegalCapture(j, "ABORTED_BEFORE_START"),
                     RecordCapture(j, "ABORTED_BEFORE_START"), "idle")
    /\ UNCHANGED <<store, held, stage, counters>>

\* Mutant: the start is sent before its intent is journaled.
DispatchFirst ==
    /\ pc = "dispatch"
    /\ j.phase = "BASELINE"
    /\ starts' = starts + 1
    /\ sep' = [sep EXCEPT !.capture = TRUE]
    /\ pc' = "start"
    /\ UNCHANGED <<wire, store, j, held, stage, boot, failures, ops, saves, events>>

Dispatch ==
    /\ pc = "dispatch"
    /\ AppendChecked(LegalCapture(j, "START_INTENT"), RecordCapture(j, "START_INTENT"), "start")
    /\ UNCHANGED <<store, held, stage, failures, counters>>

SendStart ==
    /\ pc = "start"
    /\ starts' = starts + 1
    /\ \/ sep' = [sep EXCEPT !.capture = TRUE] /\ pc' = "START_OBSERVED"
       \/ sep' = sep /\ pc' = "START_REJECTED"
    /\ UNCHANGED <<wire, store, j, held, stage, boot, failures, ops, saves, events>>

\* Mutant: a start whose reply is lost is sent again.
SendStartRetries ==
    /\ pc = "start" /\ Fails
    /\ starts' = starts + 1
    /\ sep' \in {sep, [sep EXCEPT !.capture = TRUE]}
    /\ UNCHANGED <<wire, j, pc, store, held, stage, boot, ops, saves, events>>

\* The command or its reply is lost.
SendStartFails ==
    /\ pc = "start" /\ Fails
    /\ starts' = starts + 1
    /\ \E s \in {sep, [sep EXCEPT !.capture = TRUE]} : sep' \in Closed(s)
    /\ wire' = <<>>
    /\ j' = IF LegalUnknown(j, "start") THEN RecordUnknown(j, "start") ELSE j
    /\ pc' = "idle"
    /\ UNCHANGED <<store, held, stage, boot, ops, saves, events>>

StartRejected ==
    /\ pc = "START_REJECTED"
    /\ AppendChecked(LegalCapture(j, pc), RecordTerminalFailure(j, "rejected"), "finalize")
    /\ UNCHANGED <<store, held, stage, failures, counters>>

StartObserved ==
    /\ pc = "START_OBSERVED"
    /\ AppendChecked(LegalCapture(j, pc), RecordCapture(j, pc), "loop")
    /\ UNCHANGED <<store, held, stage, failures, counters>>

-----------------------------------------------------------------------------
(* The capture. *)

\* What the sensor reports of a running capture.  A witness is a result whose
\* identity the event does not establish; the finger appears when the
\* connection closes.
SensorReports ==
    /\ sep.capture /\ pc # "idle" /\ wire = <<>>
    /\ \/ \E e \in {"progress", "feedback", "witness", "bad"} : wire' = <<e>> /\ sep' = sep
       \/ \E id \in Ids \ sep.ids :
             wire' = <<"identity">> /\ sep' = WithFinger(sep, id)
       \/ \E e \in {"failed", "timed-out"} :
             wire' = <<e>> /\ sep' = [sep EXCEPT !.capture = FALSE]
    /\ UNCHANGED <<store, j, held, pc, stage, failures, counters>>

\* The finger whose identity the event at the head of the wire carries.
NewFinger == sep.ids \ j.ids

RequestCancel ==
    /\ pc = "loop" /\ j.phase = "ACTIVE"
    /\ AppendChecked(LegalCapture(j, "CANCEL_INTENT"), RecordCapture(j, "CANCEL_INTENT"), "cancel")
    /\ UNCHANGED <<store, held, stage, failures, counters>>

\* A cancel that arrives in time ends the capture.
CancelCapture == IF sep.capture THEN /\ sep' = [sep EXCEPT !.capture = FALSE]
                                     /\ wire' = Append(wire, "cancelled")
                                ELSE UNCHANGED <<sep, wire>>

SendCancel == /\ pc = "cancel"
              /\ CancelCapture
              /\ pc' = "CANCEL_DISPATCH_OBSERVED"
              /\ UNCHANGED <<store, j, held, stage, failures, counters>>

\* No reply, or one that is not zero.
SendCancelFails == /\ pc = "cancel" /\ Fails
                   /\ Unknown("cancel")
                   /\ UNCHANGED <<store, held, stage, counters>>

CancelObserved ==
    /\ pc = "CANCEL_DISPATCH_OBSERVED"
    /\ AppendChecked(LegalCapture(j, pc), RecordCapture(j, pc), "loop")
    /\ UNCHANGED <<store, held, stage, failures, counters>>

ConnectionLost == /\ pc = "loop" /\ Fails
                  /\ Unknown("active")
                  /\ UNCHANGED <<store, held, stage, counters>>

\* A callback fails, or the event limit is reached.
CallbackFails == /\ pc = "loop" /\ Fails
                 /\ ProtocolError("active")
                 /\ UNCHANGED <<store, held, counters>>

EventLimitReached == /\ pc = "loop" /\ events = EventLimit
                     /\ ProtocolError("active")
                     /\ UNCHANGED <<store, held, failures, counters>>

Takes(e) == /\ pc = "loop" /\ events < EventLimit
            /\ wire # <<>> /\ Head(wire) = e

Took == events' = events + 1 /\ UNCHANGED <<store, held, boot, ops, saves, starts, failures>>

\* An undecodable, repeated or stale event, or a nonterminal one once cancel
\* was requested, freezes the reducer.
TakeBad ==
    /\ pc = "loop" /\ events < EventLimit /\ wire # <<>>
    /\ \/ Head(wire) = "bad"
       \/ Head(wire) \in {"progress", "feedback"} /\ j.phase = "CANCEL_REQUESTED"
    /\ IF j.phase = "ACTIVE"
       THEN stage' = "terminal" /\ pc' = "cleanup" /\ wire' = Tail(wire) /\ UNCHANGED <<sep, j>>
       ELSE Unknown("terminal") /\ UNCHANGED stage
    /\ Took

TakeFeedback == /\ Takes("feedback") /\ j.phase = "ACTIVE"
                /\ wire' = Tail(wire)
                /\ UNCHANGED <<sep, j, pc, stage>> /\ Took

\* Progress asks for the next capture, unless the operator has just asked to
\* cancel: the loop then comes back to RequestCancel.
TakeProgress ==
    /\ Takes("progress") /\ j.phase = "ACTIVE"
    /\ wire' = Tail(wire)
    /\ \/ j' = RecordCapture(j, "CONTINUE_INTENT") /\ pc' = "continue"
       \/ UNCHANGED <<j, pc>>
    /\ UNCHANGED <<sep, stage>> /\ Took

\* The status of a continue is not authoritative.
SendContinue == /\ pc = "continue"
                /\ pc' = "CONTINUE_OBSERVED"
                /\ UNCHANGED <<sep, wire, store, j, held, stage, failures, counters>>

SendContinueFails == /\ pc = "continue" /\ Fails
                     /\ Unknown("continue")
                     /\ UNCHANGED <<store, held, stage, counters>>

ContinueObserved ==
    /\ pc = "CONTINUE_OBSERVED"
    /\ AppendChecked(LegalCapture(j, pc), RecordCapture(j, pc), "loop")
    /\ UNCHANGED <<store, held, stage, failures, counters>>

TakeIdentity ==
    /\ Takes("identity")
    /\ \E id \in NewFinger : j' = RecordTerminalIdentity(j, id)
    /\ wire' = Tail(wire) /\ pc' = "finalize"
    /\ UNCHANGED <<sep, stage>> /\ Took

TakeWitness ==
    /\ Takes("witness")
    /\ j' = RecordCapture(j, "TERMINAL_WITNESS")
    /\ wire' = Tail(wire) /\ pc' = "reconnect"
    /\ UNCHANGED <<sep, stage>> /\ Took

TakeFailure ==
    /\ \E e \in {"cancelled", "failed", "timed-out"} :
          Takes(e) /\ j' = RecordTerminalFailure(j, e)
    /\ wire' = Tail(wire) /\ pc' = "finalize"
    /\ UNCHANGED <<sep, stage>> /\ Took

\* _cancel_after_primary_failure; none of its own failures masks the first.
Cleanup == /\ pc = "cleanup"
           /\ j' = RecordCapture(j, "CANCEL_INTENT") /\ pc' = "cleanup_cancel"
           /\ UNCHANGED <<sep, wire, store, held, stage, failures, counters>>

CleanupCancel == /\ pc = "cleanup_cancel"
                 /\ CancelCapture
                 /\ j' = RecordCapture(j, "CANCEL_DISPATCH_OBSERVED") /\ pc' = "report"
                 /\ UNCHANGED <<store, held, stage, failures, counters>>

CleanupCancelFails == /\ pc = "cleanup_cancel" /\ Fails
                      /\ CancelCapture \/ UNCHANGED <<sep, wire>>
                      /\ pc' = "report"
                      /\ UNCHANGED <<store, j, held, stage, counters>>

ReportUnknown == /\ pc = "report"
                 /\ Unknown(stage)
                 /\ stage' = Unset
                 /\ UNCHANGED <<store, held, failures, counters>>

-----------------------------------------------------------------------------
(* The finalizer. *)

\* _classify_observed_identity: the SEP has exactly one finger more than the
\* baseline and the host archive is the baseline's.
OneFingerAdded == /\ store.txn = "none" /\ store.root = j.base
                  /\ j.ids \subseteq sep.ids /\ Cardinality(NewFinger) = 1

\* The witnessed result counts only once the connection that carried it is
\* closed: the lease is dropped and a fresh one taken.
Reconnect == /\ pc = "reconnect"
             /\ Disconnect
             /\ pc' = "witness_readback"
             /\ UNCHANGED <<store, j, held, stage, failures, counters>>

ReconnectFails == /\ pc \in {"reconnect", "witness_readback"} /\ Fails
                  /\ Unknown("terminal")
                  /\ UNCHANGED <<store, held, stage, counters>>

WitnessReadback ==
    /\ pc = "witness_readback"
    /\ IF OneFingerAdded
       THEN AppendChecked(LegalWitnessReadback(j),
                          RecordReadback(j, CHOOSE id \in NewFinger : TRUE), "plan")
       ELSE Unknown("terminal")
    /\ UNCHANGED <<store, held, stage, failures, counters>>

\* classify's view of a first Catacomb: without a UUID it must have got one.
\* (baseline UUID zero: the current one must differ; else it must be equal.)
BootstrapUuidValid == j.version = 2 => sep.uuid

NoIdentityDelta == /\ store.txn = "none"
                   /\ HostIds(store.root) = sep.ids
                   /\ sep.ids = j.ids

\* classify without persistence: nothing changed.
NoChange == NoIdentityDelta /\ store.root = j.base /\ BootstrapUuidValid

\* A cancelled capture, and a failed first one, save nothing.  classify raises
\* unless nothing changed, and the journal stays where it is.
FinalizeUnchanged ==
    /\ pc = "finalize" /\ j.identity = Unset
    /\ j.version = 2 \/ j.status = "cancelled"
    /\ IF NoChange
       THEN /\ j' = IF LegalReconciled(j, FALSE) THEN RecordReconciled(j, FALSE, store.root) ELSE j
            /\ Leave
       ELSE j' = j /\ Leave
    /\ UNCHANGED <<store, held, stage, failures, counters>>

FinalizeSave == /\ pc = "finalize"
                /\ j.identity # Unset \/ (j.version = 1 /\ j.status # "cancelled")
                /\ pc' = "plan"
                /\ UNCHANGED <<sep, wire, store, j, held, stage, failures, counters>>

Batches == IF Failed(j) THEN <<<<"biolockout">>>> ELSE <<<<"user", "master">>, <<"biolockout">>>>

Resuming == j.tracker.phase = "COMPONENT_READY" /\ j.tracker.comp = 2

\* collect_builtin_save_components, and the plan record.
Plan ==
    /\ pc = "plan"
    /\ IF Resuming THEN j' = j /\ pc' = "PREPARE_INTENT" /\ UNCHANGED <<sep, wire>>
       ELSE IF /\ store.txn = "none"
               /\ store.root = j.base
               /\ j.identity # Unset => {"user", "master"} \subseteq sep.dirty
       THEN AppendChecked(LegalPersistence(j) /\ AcceptsEnrollPlan(j, Batches),
                          RecordTracker(j, ConsumePlan(j.tracker, Batches)), "begin_stage")
       ELSE j' = j /\ Leave
    /\ saves' = IF pc' = "idle" THEN saves ELSE saves + 1
    /\ UNCHANGED <<store, held, stage, failures, boot, ops, starts, events>>

\* The inventory cannot be read or the clock is behind the committed master.
FinalizeFails == /\ pc \in {"finalize", "plan"} /\ Fails
                 /\ j' = j /\ Leave
                 /\ UNCHANGED <<store, held, stage, counters>>

-----------------------------------------------------------------------------
(* t2_enrollment_persistence_operation.run *)

FreezePersistence(s) ==
    /\ j' = IF LegalPersistence(j) /\ AcceptsFreeze(j.tracker)
            THEN RecordTracker(j, ConsumeFreezeAt(j.tracker, s)) ELSE j
    /\ Leave

BeginStage == /\ pc = "begin_stage"
              /\ store' = [store EXCEPT !.txn = "prepare"]
              /\ pc' = "PREPARE_INTENT"
              /\ UNCHANGED <<sep, wire, j, held, stage, failures, counters>>

BeginStageFails == /\ pc = "begin_stage" /\ Fails
                   /\ \E txn \in {"none", "prepare"} : store' = [store EXCEPT !.txn = txn]
                   /\ j' = j /\ Leave
                   /\ UNCHANGED <<held, stage, counters>>

Encoded(n) == CASE n = "user" -> [ids |-> j.ids \cup {j.identity}, save |-> saves]
                [] n = "master" -> [count |-> HostCount(j.base) + 1, save |-> saves]
                [] OTHER -> [save |-> saves]

\* What follows a CATACOMB_ record: the next one, or a call.
ThenPersist(m) ==
    CASE m = "PREPARE_INTENT" -> "PREPARED"
      [] m = "PREPARED" -> "COMPLETE_INTENT"
      [] m = "COMPLETE_INTENT" -> "SECURE_BLOB_CAPTURED"
      [] m = "SECURE_BLOB_CAPTURED" -> "stage"
      [] m = "HOST_STAGED" -> IF FinalComponent(j.tracker) THEN "BATCH_COMMIT_INTENT"
                                                           ELSE "CONFIRM_INTENT"
      [] m = "CONFIRM_INTENT" -> "early_confirm"
      [] m = "CONFIRMED" -> "PREPARE_INTENT"
      [] m = "BATCH_COMMIT_INTENT" -> "cross"
      [] m = "BATCH_COMMITTED" -> "FINAL_CONFIRM_INTENT"
      [] m = "FINAL_CONFIRM_INTENT" -> "final_confirm"
      [] m = "FINAL_CONFIRMED" -> IF FinalBatch(j.tracker) THEN "readback" ELSE "begin_stage"
      [] m = "ATTESTED" -> "E3"

PersistMilestone ==
    /\ pc \in ComponentMilestones
    /\ AppendChecked(LegalPersistence(j) /\ Accepts(j.tracker, pc),
                     RecordTracker(j, Consume(j.tracker, pc, Encoded(Current(j.tracker)))),
                     ThenPersist(pc))
    /\ UNCHANGED <<store, held, stage, failures, counters>>

\* The stage a failing call names.
StageOf == [PREPARED |-> "prepare", SECURE_BLOB_CAPTURED |-> "complete", stage |-> "encode",
            stage_write |-> "host-stage", cross |-> "host-commit",
            roll_forward |-> "host-commit", readback |-> "readback"]

PersistCallFails == /\ pc \in DOMAIN StageOf /\ Fails
                    /\ FreezePersistence(StageOf[pc])
                    /\ UNCHANGED <<store, held, stage, counters>>

StageCreate == /\ pc = "stage"
               /\ store' = [store EXCEPT !.files[Current(j.tracker)] = Torn]
               /\ pc' = "stage_write"
               /\ UNCHANGED <<sep, wire, j, held, stage, failures, counters>>

StageWrite == /\ pc = "stage_write"
              /\ store' = [store EXCEPT !.files[Current(j.tracker)] = Encoded(Current(j.tracker))]
              /\ pc' = "HOST_STAGED"
              /\ UNCHANGED <<sep, wire, j, held, stage, failures, counters>>

Confirmed == [sep EXCEPT !.dirty = @ \ {Current(j.tracker)}]

ConfirmComponent == /\ pc \in {"early_confirm", "final_confirm"}
                    /\ sep' = Confirmed
                    /\ pc' = IF pc = "early_confirm" THEN "CONFIRMED" ELSE "FINAL_CONFIRMED"
                    /\ UNCHANGED <<wire, store, j, held, stage, failures, counters>>

ConfirmFails ==
    /\ pc \in {"early_confirm", "final_confirm"} /\ Fails
    /\ sep' \in {sep, Confirmed} /\ wire' = <<>>
    /\ j' = IF LegalPersistence(j) /\ AcceptsFreeze(j.tracker)
            THEN RecordTracker(j, ConsumeFreezeAt(j.tracker,
                     IF pc = "early_confirm" THEN "early-confirm" ELSE "final-confirm"))
            ELSE j
    /\ pc' = "idle"
    /\ UNCHANGED <<store, held, stage, counters>>

Cross == /\ pc = "cross"
         /\ store' = [store EXCEPT !.txn = "commit"]
         /\ pc' = "roll_forward"
         /\ UNCHANGED <<sep, wire, j, held, stage, failures, counters>>

RolledForward(s) ==
    [root |-> [n \in Components |-> IF s.files[n] = Absent THEN s.root[n] ELSE s.files[n]],
     txn |-> "none", files |-> NoFiles]

RollForward == /\ pc = "roll_forward"
               /\ store' = RolledForward(store)
               /\ pc' = "BATCH_COMMITTED"
               /\ UNCHANGED <<sep, wire, j, held, stage, failures, counters>>

\* classify with persistence behind it: the finger and every component are new.
IdentityPersisted == /\ store.txn = "none"
                     /\ HostIds(store.root) = sep.ids
                     /\ j.ids \subseteq sep.ids /\ NewFinger = {j.identity}
                     /\ \A n \in Components : store.root[n] \notin {j.base[n], Absent}
                     /\ HostCount(store.root) > HostCount(j.base)
                     /\ sep.uuid

\* failure_biolockout_sync: only that component may be new.
BiolockoutPersisted == /\ NoIdentityDelta
                       /\ \A n \in {"user", "master"} : store.root[n] = j.base[n]

ReadsBack == IF Failed(j) THEN BiolockoutPersisted ELSE IdentityPersisted

Readback == /\ pc = "readback"
            /\ IF ReadsBack THEN pc' = "ATTESTED" /\ UNCHANGED <<sep, wire, j>>
                            ELSE FreezePersistence("readback")
            /\ UNCHANGED <<store, held, stage, failures, counters>>

\* The D-Bus worker verifies a first finger at once, the command line does not.
AfterE3 == {"idle"} \cup (IF j.version = 2 /\ j.identity # Unset THEN {"verify"} ELSE {})

Reconcile == /\ pc = "E3"
             /\ j' = IF LegalReconciled(j, j.identity # Unset)
                     THEN RecordReconciled(j, j.identity # Unset, store.root) ELSE j
             /\ pc' \in AfterE3
             /\ Disconnect
             /\ UNCHANGED <<store, held, stage, failures, counters>>

-----------------------------------------------------------------------------
(* Recovery: each owner selects the one unfinished enrollment. *)

\* Mutant: the fresh inventory is trusted without the host archive.
ReconcileUnknownBlindly ==
    /\ pc = "idle" /\ j.phase = "OUTCOME_UNKNOWN"
    /\ sep.ids = j.ids
    /\ j' = RecordReconciled(j, FALSE, store.root)
    /\ UNCHANGED <<sep, wire, pc, store, held, stage, failures, counters>>

\* --reconcile-outcome-unknown: append_reconciled on a fresh connection.  A
\* finger that persistence did not account for refuses it.
ReconcileUnknown ==
    /\ pc = "idle" /\ j.phase = "OUTCOME_UNKNOWN"
    /\ \/ /\ ReadbackUnknown(j) /\ j.identity # Unset /\ IdentityPersisted
          /\ LegalRecovered(j, TRUE)
          /\ j' = RecordReconciled(j, TRUE, store.root)
       \/ /\ IF ReadbackUnknown(j) /\ Failed(j) THEN BiolockoutPersisted ELSE NoChange
          /\ ~(ReadbackUnknown(j) /\ j.identity # Unset)
          /\ LegalRecovered(j, FALSE)
          /\ j' = RecordReconciled(j, FALSE, store.root)
    /\ UNCHANGED <<sep, wire, pc, store, held, stage, failures, counters>>

\* Mutant: the one finger is looked for beside the baseline's only.
RecoverAddition ==
    /\ pc = "idle"
    /\ LegalIdentityRecovery(j) /\ (native => boot = j.boot) /\ OneFingerAdded /\ j.ids # {}
    /\ j' = RecordReadback(j, CHOOSE id \in NewFinger : TRUE)
    /\ pc' = "plan"
    /\ UNCHANGED <<sep, wire, store, held, stage, failures, counters>>

\* --recover-observed-identity: adopt the one finger and finish its save.  The
\* native owner does so on the boot of the enrollment only.
SelectsIdentity == /\ LegalIdentityRecovery(j)
                   /\ native => boot = j.boot

RecoverIdentity ==
    /\ pc = "idle"
    /\ SelectsIdentity /\ OneFingerAdded
    /\ j' = RecordReadback(j, CHOOSE id \in NewFinger : TRUE)
    /\ pc' = "plan"
    /\ UNCHANGED <<sep, wire, store, held, stage, failures, counters>>

\* The compatibility owner when only the reply to an early confirm was lost: the staged
\* file is the journaled one, its component is clean and the next is dirty.
RecoverEarlyConfirm ==
    /\ pc = "idle" /\ ~native
    /\ LegalEarlyConfirm(j) /\ j.stage = "terminal"
    /\ store.txn = "prepare" /\ store.root = j.base
    /\ \A n \in Components :
          store.files[n] = IF n \in StagedNames(j.tracker) THEN j.tracker.staged[n] ELSE Absent
    /\ j.ids \subseteq sep.ids /\ NewFinger = {j.identity}
    /\ sep.dirty = {"master"}
    /\ j' = RecordEarlyConfirm(j)
    /\ pc' = "plan"
    /\ UNCHANGED <<sep, wire, store, held, stage, failures, counters>>

BatchNames == LET b == j.tracker.batches[j.tracker.batch] IN {b[i] : i \in DOMAIN b}

LocalDirection == IF store.txn = "prepare" THEN "local-prepare-discarded"
                                           ELSE "local-commit-rolled-forward"

\* --recover-local-transaction of the compatibility owner: the direction is journaled before any file is
\* touched, and an earlier run's direction is only resumed.
RecoverLocal ==
    /\ pc = "idle" /\ ~native /\ store.txn # "none"
    /\ j.tracker.batches # <<>>
    /\ StagedNames(j.tracker) \subseteq BatchNames
    /\ store.txn = "commit" => /\ StagedNames(j.tracker) = BatchNames
                               /\ j.tracker.phase = "BATCH_COMMIT_INTENT"
    /\ \/ /\ LegalUnknown(j, LocalDirection) /\ j' = RecordUnknown(j, LocalDirection)
       \/ j.phase = "OUTCOME_UNKNOWN" /\ j.stage = LocalDirection /\ j' = j
    /\ pc' = "local"
    /\ UNCHANGED <<sep, wire, store, held, stage, failures, counters>>

\* discard_prepare
Discardable ==
    \A n \in Components : store.files[n] # Absent =>
        /\ n \in BatchNames
        /\ store.files[n] # Torn
        /\ n \in StagedNames(j.tracker) => store.files[n] = j.tracker.staged[n]

\* Mutant: a commit is discarded like a prepare.
ApplyLocalDiscards == /\ pc = "local"
                      /\ store' = [store EXCEPT !.txn = "none", !.files = NoFiles]
                      /\ pc' = "idle"
                      /\ UNCHANGED <<sep, wire, j, held, stage, failures, counters>>

ApplyLocal == /\ pc = "local"
              /\ store' = CASE store.txn = "commit" -> RolledForward(store)
                            [] store.txn = "prepare" /\ Discardable ->
                                   [store EXCEPT !.txn = "none", !.files = NoFiles]
                            [] OTHER -> store
              /\ pc' = "idle"
              /\ UNCHANGED <<sep, wire, j, held, stage, failures, counters>>

-----------------------------------------------------------------------------
(* Verification and rollback of a reconciled finger. *)

ReproducesE3 == IdentityPersisted /\ store.root = j.snapshot

\* Mutant: the authority is published on the reproduced inventory alone.
VerifyRuntimeUnrecorded ==
    /\ pc = "verify"
    /\ pc' = IF LegalVerified(j) /\ ReproducesE3 THEN "publish_copy" ELSE "idle"
    /\ UNCHANGED <<sep, wire, j, store, held, stage, failures, counters>>

\* E4 of a first finger, in the session that enrolled it.
VerifyRuntime ==
    /\ pc = "verify"
    /\ IF LegalVerified(j) /\ ReproducesE3
       THEN j' = RecordFinal(j, "POST_REBOOT_VERIFIED") /\ pc' = "publish_copy"
       ELSE j' = j /\ pc' = "idle"
    /\ UNCHANGED <<sep, wire, store, held, stage, failures, counters>>

\* _pending_post_reboot_journal: natively only a first finger.
PendingPostReboot == LegalVerified(j) /\ (native <=> j.version = 2)

\* E4 on a later boot; the native owner publishes.
VerifyPostReboot ==
    /\ pc = "idle" /\ PendingPostReboot
    /\ boot # j.boot
    /\ ReproducesE3
    /\ j' = RecordFinal(j, "POST_REBOOT_VERIFIED")
    /\ pc' = IF native THEN "publish_copy" ELSE "idle"
    /\ UNCHANGED <<sep, wire, store, held, stage, failures, counters>>

-----------------------------------------------------------------------------
(* t2_user_authority.publish, and the owner of an interrupted publication. *)

\* A file that is there already must have the bytes about to be written: what
\* a process left half written refuses every later publication.
WriteExclusive(field, at, writing, next) ==
    /\ pc = at
    /\ CASE authority[field] = Absent ->
              authority' = [authority EXCEPT ![field] = Torn] /\ pc' = writing
         [] authority[field] = Torn -> authority' = authority /\ pc' = "idle"
         [] OTHER -> authority' = authority /\ pc' = next

FinishWrite(field, whole, writing, next) ==
    /\ pc = writing
    /\ authority' = [authority EXCEPT ![field] = whole] /\ pc' = next

Publish ==
    /\ \/ WriteExclusive("copy", "publish_copy", "copy_write", "publish_temp")
       \/ FinishWrite("copy", "journal", "copy_write", "publish_temp")
       \/ WriteExclusive("temp", "publish_temp", "temp_write", "publish_replace")
       \/ FinishWrite("temp", "manifest", "temp_write", "publish_replace")
       \/ pc = "publish_replace" /\ authority' = Published(authority) /\ pc' = "idle"
    /\ UNCHANGED <<sep, wire, store, j, native, saved, stage, failures, counters>>

\* An error removes the file being written.
PublishFails ==
    /\ pc \in {"copy_write", "temp_write", "publish_replace"} /\ Fails
    /\ authority' = [authority EXCEPT ![IF pc = "copy_write" THEN "copy" ELSE "temp"] = Absent]
    /\ pc' = "idle"
    /\ UNCHANGED <<sep, wire, store, j, native, saved, stage, counters>>

\* _pending_native_candidate and _pending_authority_publication_journal: the
\* first finger's journal is verified and no manifest names it.
PendingPublication == /\ native /\ ~authority.published
                      /\ j.phase = "POST_REBOOT_VERIFIED" /\ j.version = 2

\* Mutant: the copy of an interrupted publication is taken for another one's.
RecoverPublicationAfresh ==
    /\ pc = "idle" /\ PendingPublication /\ authority.copy = Absent
    /\ pc' = "publish_copy"
    /\ UNCHANGED <<sep, wire, store, j, held, stage, failures, counters>>

RecoverPublication ==
    /\ pc = "idle" /\ PendingPublication
    /\ pc' = "publish_copy"
    /\ UNCHANGED <<sep, wire, store, j, held, stage, failures, counters>>

-----------------------------------------------------------------------------
(* The match of an additional finger, or its rollback. *)

\* The new finger is matched, which saves BioLockout and leaves the result on
\* file...
AdditionMatch ==
    /\ pc = "idle" /\ native /\ LegalAdditionVerified(j, boot)
    /\ j.identity \in sep.ids /\ store.txn = "none"
    /\ saves' = saves + 1
    /\ store' = [store EXCEPT !.root["biolockout"] = [save |-> saves + 1]]
    /\ saved' = TRUE
    /\ pc' = "matched"
    /\ UNCHANGED <<sep, wire, j, native, authority, stage, failures, boot, ops, starts, events>>

\* ... and the result is bound to its enrollment.
AdditionVerified ==
    /\ pc = "matched"
    /\ AppendChecked(LegalAdditionVerified(j, boot), RecordFinal(j, "ADDITION_VERIFIED"), "idle")
    /\ UNCHANGED <<store, held, stage, failures, counters>>

\* --reconcile-addition-match-result binds a result whose process died before
\* it could.  It holds no lock and reads no inventory.
ReconcileSavedMatch ==
    /\ saved /\ LegalAdditionVerified(j, boot)
    /\ j' = RecordFinal(j, "ADDITION_VERIFIED")
    /\ UNCHANGED <<sep, wire, pc, store, held, stage, failures, counters>>

\* A finger that does not match is deleted again (IdentityDelete)...
RollbackDelete ==
    /\ pc = "idle" /\ native /\ LegalRolledBack(j)
    /\ j.identity \in sep.ids /\ sep.dirty = {} /\ store.txn = "none"
    /\ HostIds(store.root) = sep.ids
    /\ sep' = [sep EXCEPT !.ids = @ \ {j.identity}]
    /\ saves' = saves + 1
    /\ store' = [store EXCEPT !.root["user"] = [ids |-> sep.ids \ {j.identity}, save |-> saves + 1],
                              !.root["master"] = [count |-> @.count - 1, save |-> saves + 1]]
    /\ UNCHANGED <<wire, j, held, pc, stage, failures, boot, ops, starts, events>>

RolledBack == j.identity # Unset /\ j.identity \notin sep.ids /\ sep.ids = j.ids

\* ... and the reconciled deletion closes the enrollment.
CloseRollback ==
    /\ pc = "idle" /\ native /\ LegalRolledBack(j) /\ j.added /\ RolledBack
    /\ j' = RecordFinal(j, "ADDITION_ROLLED_BACK")
    /\ UNCHANGED <<sep, wire, pc, store, held, stage, failures, counters>>

-----------------------------------------------------------------------------
ProcessExit == /\ pc # "idle" /\ Fails
               /\ Leave
               /\ UNCHANGED <<store, j, held, stage, counters>>

\* A power loss may take back directory operations not yet synced.
LostEntries == IF authority.published THEN {authority}
               ELSE {[authority EXCEPT !.copy = c, !.temp = t] :
                        c \in {authority.copy, Absent}, t \in {authority.temp, Absent}}

Reboot == /\ Fails
          /\ boot' = boot + 1
          /\ store' \in {store} \cup
                (IF pc = "roll_forward" THEN {[store EXCEPT !.txn = "prepare"]} ELSE {})
          /\ authority' \in LostEntries
          /\ Leave
          /\ UNCHANGED <<j, native, saved, stage, ops, saves, starts, events>>

Capture == \/ Dispatch \/ SendStart \/ StartRejected \/ StartObserved
           \/ RequestCancel \/ SendCancel \/ CancelObserved \/ EventLimitReached
           \/ TakeBad \/ TakeFeedback \/ TakeProgress \/ SendContinue \/ ContinueObserved
           \/ TakeIdentity \/ TakeWitness \/ TakeFailure
           \/ Cleanup \/ CleanupCancel \/ ReportUnknown

Persist == \/ Reconnect \/ WitnessReadback \/ FinalizeUnchanged \/ FinalizeSave \/ Plan
           \/ BeginStage \/ PersistMilestone \/ StageCreate \/ StageWrite \/ ConfirmComponent
           \/ Cross \/ RollForward \/ Readback \/ Reconcile

Recovery == \/ ReconcileUnknown \/ RecoverIdentity \/ RecoverEarlyConfirm
            \/ RecoverLocal \/ ApplyLocal \/ RecoverPublication

Verification == VerifyRuntime \/ VerifyPostReboot \/ Publish

Failure == \/ AbortBeforeStart \/ SendStartFails \/ SendCancelFails \/ ConnectionLost
           \/ CallbackFails \/ SendContinueFails \/ CleanupCancelFails
           \/ ReconnectFails \/ FinalizeFails \/ BeginStageFails \/ PersistCallFails
           \/ ConfirmFails \/ PublishFails \/ ProcessExit \/ Reboot

EnrollNext == \/ RunEnrollment \/ SensorReports
              \/ Capture \/ Persist \/ Recovery \/ Verification
              \/ AdditionMatch \/ AdditionVerified \/ ReconcileSavedMatch \/ RollbackDelete \/ CloseRollback
              \/ Failure

EnrollSpec == EnrollInit /\ [][EnrollNext]_enrollVars

\* A running process and a running capture go on, and the recovery commands
\* and the verification are run again until they apply.
EnrollFairSpec == /\ EnrollSpec
                  /\ WF_enrollVars(SensorReports) /\ WF_enrollVars(Capture) /\ WF_enrollVars(Persist)
                  /\ WF_enrollVars(Recovery) /\ WF_enrollVars(Verification)

-----------------------------------------------------------------------------
(* Properties. *)

PCs == {"idle", "dispatch", "start", "START_OBSERVED", "START_REJECTED", "loop", "cancel",
        "CANCEL_DISPATCH_OBSERVED", "continue", "CONTINUE_OBSERVED", "cleanup",
        "cleanup_cancel", "report", "finalize", "reconnect", "witness_readback", "plan",
        "begin_stage", "stage", "stage_write", "early_confirm", "final_confirm", "cross",
        "roll_forward", "readback", "E3", "local", "matched", "verify", "publish_copy",
        "copy_write", "publish_temp", "temp_write", "publish_replace"} \cup ComponentMilestones

\* The types of the variables.
EnrollTypeOK ==
    /\ sep.ids \subseteq Ids /\ sep.dirty \subseteq Components
    /\ Len(wire) <= 2
    /\ store.txn \in {"none", "prepare", "commit"}
    /\ j.phase \in EnrollPhases /\ j.version \in {1, 2}
    /\ j.identity \in Ids \cup {Unset} /\ j.status \in Statuses \cup {Unset}
    /\ j.tracker.phase \in TrackerPhases
    /\ j.tracker.batches # <<>> =>
          /\ j.tracker.batch \in DOMAIN j.tracker.batches
          /\ j.tracker.comp \in DOMAIN j.tracker.batches[j.tracker.batch]
    /\ {native, saved, authority.published} \subseteq BOOLEAN
    /\ authority.copy \in {Absent, Torn, "journal"} /\ authority.temp \in {Absent, Torn, "manifest"}
    /\ pc \in PCs
    /\ events \in 0..EventLimit
    /\ {boot, failures, ops, saves, starts} \subseteq Nat

\* An enrollment reported complete is complete everywhere, whichever owner
\* closed it: with its finger, the SEP and the host archive hold exactly the
\* baseline's fingers and the new one and nothing is left to save; without,
\* both hold the baseline's.  (A saved match may still be bound to a finger
\* that a rollback has deleted: ReconcileSavedMatch reads no inventory.)
ReconciledSound ==
    /\ \/ j.phase = "RECONCILED" /\ j.added /\ ~RolledBack
       \/ j.phase = "ADDITION_VERIFIED" /\ ~RolledBack
       \/ j.phase = "POST_REBOOT_VERIFIED"
       => /\ sep.ids = j.ids \cup {j.identity} /\ sep.dirty = {}
          /\ HostIds(store.root) = sep.ids /\ store.txn = "none"
    /\ j.phase = "RECONCILED" /\ ~j.added
       => /\ sep.ids = j.ids /\ sep.dirty = {} /\ ~sep.capture
          /\ store.root["user"] = j.base["user"] /\ store.root["master"] = j.base["master"]
          /\ store.txn = "none"

\* While the SEP and the host disagree, a component waits to be saved, a
\* transaction is pending or a capture is running, the journal keeps the
\* registry closed.
InconsistencyIsOwned ==
    \/ sep.ids # HostIds(store.root)
    \/ sep.dirty # {}
    \/ store.txn # "none"
    \/ sep.capture
    => ~CompletePhase(j)

BatchCommitted ==
    \/ j.tracker.batch > 1
    \/ j.tracker.phase \in {"BATCH_COMMITTED", "FINAL_CONFIRM_INTENT", "COMPLETE"}
    \/ j.stage = "local-commit-rolled-forward"

\* The batch that the journal says is committed, or rolled forward by a
\* recovery, is in the host archive or still in a commit no one may discard:
\* the finger it saves is not lost however often the process or the machine
\* stops in between.
CommittedIsDurable ==
    j.identity # Unset /\ BatchCommitted /\ ~RolledBack =>
        \/ j.identity \in HostIds(store.root)
        \/ store.txn = "commit" /\ j.identity \in HostIds(RolledForward(store).root)

\* The start command is sent once for a journal, after its intent is durable.
OneStart == starts' > starts => starts = 0 /\ j.phase = "START_INTENT"

\* The environment has done its worst.
Settled == failures = MaxFailures

\* Once failures stop, an enrollment whose terminal event was rejected or not
\* read is closed by the recovery commands, with the finger if the SEP has one
\* (natively: if the machine was not restarted since) and without it otherwise.
TerminalUnknownRecovers ==
    (/\ Settled /\ pc = "idle"
     /\ j.phase = "OUTCOME_UNKNOWN" /\ j.stage = "terminal"
     /\ j.tracker.phase = "NOT_STARTED" /\ sep.uuid
     /\ native => boot = j.boot \/ NewFinger = {})
        ~> (j.phase = "RECONCILED")

\* The authority under which fingers are matched and added names a verified
\* journal whose copy is whole, and a finger both the SEP and the host hold.
PublishedIsBacked ==
    authority.published =>
        /\ authority.copy = "journal"
        /\ j.version = 2 => j.phase = "POST_REBOOT_VERIFIED"
        /\ sep.ids \cap HostIds(store.root) # {}

\* Once failures stop, a verified first finger becomes the authority, wherever
\* its publication was interrupted, as long as no file was left half written.
PublicationCompletes ==
    (/\ Settled /\ PendingPublication
     /\ Torn \notin {authority.copy, authority.temp})
        ~> authority.published

\* What a closed enrollment reports, and what is published to the matcher, is in
\* the SEP and in the archive.
OutcomesHold == EnrollTypeOK /\ ReconciledSound /\ PublishedIsBacked

\* The finger under enrollment is asked for once, a journal owns it until it is
\* saved, and once saved it is not lost.
FingerOwned == [][InconsistencyIsOwned' /\ CommittedIsDurable' /\ OneStart]_enrollVars
=============================================================================
