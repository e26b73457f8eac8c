------------------------- MODULE EnrollmentJournal -------------------------
(***************************************************************************)
(* validate_history of t2_enrollment_journal: what the records of an       *)
(* enrollment amount to, and which record may come next.  A history h      *)
(* keeps                                                                   *)
(*   phase, version (1: fingers are enrolled, 2: the first finger),        *)
(*   base (host archive) and ids (fingers) of the baseline, boot,          *)
(*   identity (terminal_identity_uuid), status (terminal_status), stage    *)
(*   (outcome_unknown_stage), tracker, added (whether E3 recorded the      *)
(*   identity) and snapshot (what E3 recorded of the host archive).        *)
(* Generations are told apart as the baseline's or a fresh one; evidence   *)
(* fields that a record's writer computes are the guards of Enrollment.    *)
(***************************************************************************)
EXTENDS Naturals, Sequences, PersistenceTracker

CONSTANTS Unset  \* a field no record has set

EnrollPhases ==
    {"BASELINE", "ABORTED_BEFORE_START", "START_INTENT", "ACTIVE", "CONTINUE_INTENT",
     "CANCEL_INTENT", "CANCEL_REQUESTED", "TERMINAL_IDENTITY", "TERMINAL_WITNESS",
     "TERMINAL_FAILURE", "PERSISTING", "PERSISTENCE_READY", "RECONCILED",
     "POST_REBOOT_VERIFIED", "ADDITION_VERIFIED", "ADDITION_ROLLED_BACK",
     "OUTCOME_UNKNOWN"}

Statuses == {"rejected", "cancelled", "failed", "timed-out"}

NewEnrollment(version, base, ids, boot) ==
    [phase |-> "BASELINE", version |-> version, base |-> base, ids |-> ids,
     boot |-> boot, identity |-> Unset, status |-> Unset, stage |-> Unset,
     tracker |-> NewTracker("enrollment", FALSE), added |-> FALSE, snapshot |-> Unset]

\* The mutation registry admits a new operation beside such a journal.
CompletePhase(h) ==
    \/ h.phase \in {"BASELINE", "ABORTED_BEFORE_START", "ADDITION_VERIFIED",
                    "ADDITION_ROLLED_BACK", "POST_REBOOT_VERIFIED"}
    \/ h.phase = "RECONCILED" /\ h.identity = Unset

-----------------------------------------------------------------------------
(* Records of the capture: the phase each is accepted in and the one it    *)
(* leads to.                                                               *)

CaptureAfter == [ABORTED_BEFORE_START     |-> {"BASELINE"},
                 START_INTENT             |-> {"BASELINE"},
                 START_OBSERVED           |-> {"START_INTENT"},
                 START_REJECTED           |-> {"START_INTENT"},
                 CONTINUE_INTENT          |-> {"ACTIVE"},
                 CONTINUE_OBSERVED        |-> {"CONTINUE_INTENT"},
                 CANCEL_INTENT            |-> {"ACTIVE"},
                 CANCEL_DISPATCH_OBSERVED |-> {"CANCEL_INTENT"},
                 TERMINAL_IDENTITY        |-> {"ACTIVE", "CANCEL_REQUESTED"},
                 TERMINAL_WITNESS         |-> {"ACTIVE", "CANCEL_REQUESTED"},
                 TERMINAL_FAILURE         |-> {"ACTIVE", "CANCEL_REQUESTED"}]

CapturePhase(m) == CASE m \in {"START_OBSERVED", "CONTINUE_OBSERVED"} -> "ACTIVE"
                     [] m = "START_REJECTED" -> "TERMINAL_FAILURE"
                     [] m = "CANCEL_DISPATCH_OBSERVED" -> "CANCEL_REQUESTED"
                     [] OTHER -> m

LegalCapture(h, m) == m \in DOMAIN CaptureAfter /\ h.phase \in CaptureAfter[m]

RecordCapture(h, m) == [h EXCEPT !.phase = CapturePhase(m)]

RecordTerminalIdentity(h, id) ==
    [h EXCEPT !.phase = "TERMINAL_IDENTITY", !.identity = id]

RecordTerminalFailure(h, status) ==
    [h EXCEPT !.phase = "TERMINAL_FAILURE", !.status = status]

\* The stages the recovery of a local transaction names.
LocalStages == {"local-prepare-discarded", "local-commit-rolled-forward"}

\* ENROLL_OUTCOME_UNKNOWN.  Once persistence has begun only the recovery of a
\* local transaction may append it.
LegalUnknown(h, stage) ==
    IF stage \in LocalStages
    THEN h.phase = "PERSISTING"
    ELSE h.phase \in {"START_INTENT", "ACTIVE", "CONTINUE_INTENT", "CANCEL_INTENT",
                      "CANCEL_REQUESTED", "TERMINAL_WITNESS"}

RecordUnknown(h, stage) == [h EXCEPT !.phase = "OUTCOME_UNKNOWN", !.stage = stage]

-----------------------------------------------------------------------------
(* Identities found by readback, persistence and reconciliation. *)

\* E2_WITNESS_IDENTITY_READBACK_OBSERVED on the fresh connection.
LegalWitnessReadback(h) == h.phase = "TERMINAL_WITNESS" /\ h.tracker.phase = "NOT_STARTED"

\* E2_RECOVERY_IDENTITY_READBACK_OBSERVED
LegalIdentityRecovery(h) == /\ h.phase = "OUTCOME_UNKNOWN" /\ h.stage = "terminal"
                            /\ h.tracker.phase = "NOT_STARTED"

RecordReadback(h, id) == [h EXCEPT !.phase = "TERMINAL_IDENTITY", !.identity = id,
                                   !.tracker = [@ EXCEPT !.recovered = TRUE]]

Failed(h) == h.identity = Unset /\ h.status # Unset

LegalPersistence(h) == /\ h.phase \in {"TERMINAL_IDENTITY", "TERMINAL_FAILURE", "PERSISTING"}
                       /\ h.identity # Unset \/ Failed(h)

AcceptsEnrollPlan(h, batches) ==
    IF Failed(h) THEN AcceptsFailurePlan(h.tracker, batches) ELSE AcceptsPlan(h.tracker, batches)

RecordTracker(h, t) ==
    [h EXCEPT !.tracker = t,
              !.phase = CASE t.phase = "COMPLETE" -> "PERSISTENCE_READY"
                          [] t.phase = "OUTCOME_UNKNOWN" -> "OUTCOME_UNKNOWN"
                          [] OTHER -> "PERSISTING"]

LegalEarlyConfirm(h) == /\ h.phase = "OUTCOME_UNKNOWN" /\ h.identity # Unset
                        /\ AcceptsEarlyConfirm(h.tracker)

RecordEarlyConfirm(h) == [h EXCEPT !.tracker = ConsumeEarlyConfirm(@),
                                   !.phase = "TERMINAL_IDENTITY"]

\* E3_RECONCILED
LegalReconciled(h, added) ==
    /\ h.phase \in {"PERSISTENCE_READY", "TERMINAL_FAILURE"}
    /\ added = (h.phase = "PERSISTENCE_READY" /\ h.identity # Unset)

\* E3_PERSISTENCE_READBACK_RECOVERED and E3_RECOVERY_NO_CHANGE_RECONCILED
ReadbackUnknown(h) == /\ h.tracker.phase = "OUTCOME_UNKNOWN" /\ h.tracker.stage = "readback"
                      /\ HostCommitPossible(h.tracker)

LegalRecovered(h, added) ==
    /\ h.phase = "OUTCOME_UNKNOWN"
    /\ added => ReadbackUnknown(h) /\ h.identity # Unset

RecordReconciled(h, added, snapshot) ==
    [h EXCEPT !.phase = "RECONCILED", !.added = added, !.snapshot = snapshot]

\* E4_RUNTIME_VERIFIED, E4_POST_REBOOT_VERIFIED
LegalVerified(h) == h.phase = "RECONCILED" /\ h.identity # Unset

\* ADDITION_MATCH_VERIFIED
LegalAdditionVerified(h, boot) == /\ h.phase = "RECONCILED" /\ h.identity # Unset
                                  /\ h.version = 1 /\ boot = h.boot

LegalRolledBack(h) == h.phase = "RECONCILED" /\ h.identity # Unset /\ h.version = 1

RecordFinal(h, phase) == [h EXCEPT !.phase = phase]
============================================================================
