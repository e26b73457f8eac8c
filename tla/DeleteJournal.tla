--------------------------- MODULE DeleteJournal ---------------------------
(***************************************************************************)
(* validate_history of t2_identity_delete_journal: what a deletion         *)
(* journal's records amount to, and which record may come next.  A history *)
(* h keeps                                                                 *)
(*   phase, action (recovery action), tracker, recoveryUser (the committed *)
(*   user file a master-only recovery is bound to), baseline, target,      *)
(*   failedStatus (the command reported an error) and the boot identifiers *)
(*   recoveryBoot and reconciledBoot.                                      *)
(* append_checked reads the history, refuses a record Legal rejects and    *)
(* appends it durably otherwise; MutationJournal models that append.       *)
(***************************************************************************)
EXTENDS Naturals, Sequences, PersistenceTracker

CONSTANTS None  \* a field no record has set

DeletePhases ==
    {"BASELINE", "INTENT", "DISPATCH_INTENT", "COMMAND_OBSERVED", "SEP_DELETED",
     "ABORTED", "PERSISTING", "PERSISTENCE_READY", "RECONCILED",
     "POST_REBOOT_VERIFIED", "OUTCOME_UNKNOWN"}

Actions == {"prepare-discarded", "commit-rolled-forward", "no-local-transaction"}

\* Phases run_delete_recovery takes over.
Interrupted == {"INTENT", "DISPATCH_INTENT", "COMMAND_OBSERVED", "SEP_DELETED",
                "PERSISTING", "PERSISTENCE_READY", "OUTCOME_UNKNOWN"}

\* Phases that let the mutation registry admit a new operation.
Complete == {"BASELINE", "ABORTED", "RECONCILED", "POST_REBOOT_VERIFIED"}

NewHistory(baseline, target, boot) ==
    [phase |-> "BASELINE", action |-> None, recoveryUser |-> None,
     tracker |-> NewTracker("identity-delete", FALSE),
     baseline |-> baseline, target |-> target, failedStatus |-> FALSE,
     boot |-> boot, recoveryBoot |-> None, reconciledBoot |-> None]

-----------------------------------------------------------------------------
(* Records of the operation itself. *)

\* The order in which the uninterrupted operation records its milestones.
MilestoneAfter == [DELETE_INTENT               |-> "BASELINE",
                   DELETE_DISPATCH_INTENT      |-> "INTENT",
                   DELETE_COMMAND_OBSERVED     |-> "DISPATCH_INTENT",
                   DELETE_SEP_ABSENCE_OBSERVED |-> "COMMAND_OBSERVED",
                   DELETE_NOT_PERFORMED        |-> "COMMAND_OBSERVED",
                   DELETE_RECONCILED           |-> "PERSISTENCE_READY",
                   DELETE_POST_REBOOT_VERIFIED |-> "RECONCILED"]

PhaseOf == [DELETE_INTENT               |-> "INTENT",
            DELETE_DISPATCH_INTENT      |-> "DISPATCH_INTENT",
            DELETE_COMMAND_OBSERVED     |-> "COMMAND_OBSERVED",
            DELETE_SEP_ABSENCE_OBSERVED |-> "SEP_DELETED",
            DELETE_NOT_PERFORMED        |-> "ABORTED",
            DELETE_RECONCILED           |-> "RECONCILED",
            DELETE_POST_REBOOT_VERIFIED |-> "POST_REBOOT_VERIFIED"]

Legal(h, m) == /\ m \in DOMAIN MilestoneAfter
               /\ h.phase = MilestoneAfter[m]
               /\ m = "DELETE_NOT_PERFORMED" => h.failedStatus

RecordMilestone(h, m) == [h EXCEPT !.phase = PhaseOf[m]]

RecordReconciled(h) ==
    [h EXCEPT !.phase = "RECONCILED",
              !.reconciledBoot = IF h.recoveryBoot = None THEN h.boot ELSE h.recoveryBoot]

\* DELETE_OUTCOME_UNKNOWN
LegalFreeze(h) == h.phase \in {"DISPATCH_INTENT", "COMMAND_OBSERVED", "SEP_DELETED",
                               "PERSISTING", "PERSISTENCE_READY"}

RecordFreeze(h) == [h EXCEPT !.phase = "OUTCOME_UNKNOWN"]

-----------------------------------------------------------------------------
(* CATACOMB_* records. *)

LegalPersistence(h) == h.phase \in {"SEP_DELETED", "PERSISTING"}

RecordTracker(h, t) ==
    [h EXCEPT !.tracker = t,
              !.phase = IF t.phase = "COMPLETE" THEN "PERSISTENCE_READY"
                        ELSE IF t.phase = "OUTCOME_UNKNOWN" THEN "OUTCOME_UNKNOWN"
                        ELSE "PERSISTING"]

-----------------------------------------------------------------------------
(* Records of recovery. *)

RetryingForward(h) == /\ h.action # None
                      /\ h.phase = "OUTCOME_UNKNOWN"
                      /\ h.tracker.recovered

LegalRecoveryIntent(h) == \/ h.action = None /\ h.phase \in Interrupted
                          \/ RetryingForward(h)

RecordRecoveryIntent(h, action, boot) ==
    [h EXCEPT !.action = action, !.recoveryBoot = boot, !.phase = "OUTCOME_UNKNOWN"]

Recovering(h) == h.phase = "OUTCOME_UNKNOWN" /\ h.action # None

\* DELETE_RECOVERY_SEP_ABSENCE_OBSERVED, on a host archive equal to the baseline.
LegalForward(h) == Recovering(h) /\ h.action # "commit-rolled-forward"

RecordForward(h) == [h EXCEPT !.phase = "SEP_DELETED",
                              !.tracker = NewTracker("identity-delete", TRUE)]

\* DELETE_RECOVERY_MASTER_SAVE_REQUIRED
LegalMasterForward(h, user) == /\ Recovering(h)
                               /\ StagedNames(h.tracker) = {"user"}
                               /\ h.tracker.staged["user"] = user

RecordMasterForward(h, user) ==
    [h EXCEPT !.phase = "SEP_DELETED", !.recoveryUser = user,
              !.tracker = NewTracker("identity-delete-master-recovery", TRUE)]

LegalNoChange(h) == Recovering(h) /\ h.action # "commit-rolled-forward"

RecordNoChange(h) == [h EXCEPT !.phase = "ABORTED"]

LegalCommitted(h) == Recovering(h) /\ StagedNames(h.tracker) = {"user", "master"}

RecordCommitted(h) ==
    [h EXCEPT !.phase = "RECONCILED", !.reconciledBoot = h.recoveryBoot]
============================================================================
