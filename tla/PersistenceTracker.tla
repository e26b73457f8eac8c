------------------------- MODULE PersistenceTracker -------------------------
(***************************************************************************)
(* The replay of CATACOMB_* records by t2_enrollment_persistence_journal:  *)
(* a tracker is what a sequence of accepted records amounts to.  A record  *)
(* is accepted only if Accepts holds of the tracker so far; Consume is the *)
(* tracker after it.  The typed journals (deletion, rename, enrollment)    *)
(* each embed one tracker.                                                 *)
(*                                                                         *)
(* Digests stand for themselves: a component's file hash is its content.   *)
(* Milestones are named without their CATACOMB_ prefix.                    *)
(***************************************************************************)
EXTENDS Naturals, Sequences

TrackerPhases ==
    {"NOT_STARTED", "COMPONENT_READY", "PREPARE_INTENT", "PREPARED",
     "COMPLETE_INTENT", "SECURE_BLOB_CAPTURED", "HOST_STAGED",
     "CONFIRM_INTENT", "BATCH_COMMIT_INTENT", "BATCH_COMMITTED",
     "FINAL_CONFIRM_INTENT", "ATTESTATION_READY", "COMPLETE", "OUTCOME_UNKNOWN"}

\* recovered: the tracker is bound to the lease of a recovery rather than to
\* the connection generation of the baseline.
NewTracker(kind, recovered) ==
    [kind |-> kind, recovered |-> recovered, phase |-> "NOT_STARTED",
     batches |-> <<>>, batch |-> 1, comp |-> 1, staged |-> << >>, stage |-> "none"]

Current(t) == t.batches[t.batch][t.comp]

FinalComponent(t) == t.comp = Len(t.batches[t.batch])

FinalBatch(t) == t.batch = Len(t.batches)

StagedNames(t) == DOMAIN t.staged

\* The component lists a plan of each kind may name, master always last.
PlanAllowed(kind, batches) ==
    CASE kind = "identity-delete" ->
             batches \in {<<<<"user">>>>, <<<<"user", "master">>>>}
      [] kind = "identity-delete-master-recovery" -> batches = <<<<"master">>>>
      [] kind = "identity-metadata" -> batches = <<<<"user">>>>
      [] kind = "enrollment" ->
             batches = <<<<"user", "master">>, <<"biolockout">>>>

\* The phase a record of each kind is accepted in.
After == [PREPARE_INTENT        |-> "COMPONENT_READY",
          PREPARED              |-> "PREPARE_INTENT",
          COMPLETE_INTENT       |-> "PREPARED",
          SECURE_BLOB_CAPTURED  |-> "COMPLETE_INTENT",
          HOST_STAGED           |-> "SECURE_BLOB_CAPTURED",
          CONFIRM_INTENT        |-> "HOST_STAGED",
          CONFIRMED             |-> "CONFIRM_INTENT",
          BATCH_COMMIT_INTENT   |-> "HOST_STAGED",
          BATCH_COMMITTED       |-> "BATCH_COMMIT_INTENT",
          FINAL_CONFIRM_INTENT  |-> "BATCH_COMMITTED",
          FINAL_CONFIRMED       |-> "FINAL_CONFIRM_INTENT",
          ATTESTED              |-> "ATTESTATION_READY"]

ComponentMilestones == DOMAIN After

AcceptsPlan(t, batches) == t.phase = "NOT_STARTED" /\ PlanAllowed(t.kind, batches)

\* allow_biolockout_only: what an enrollment that ended in failure may save.
AcceptsFailurePlan(t, batches) == /\ t.phase = "NOT_STARTED" /\ t.kind = "enrollment"
                                  /\ batches = <<<<"biolockout">>>>

Accepts(t, m) ==
    /\ m \in ComponentMilestones
    /\ t.phase = After[m]
    /\ m = "CONFIRM_INTENT" => ~FinalComponent(t)
    /\ m = "BATCH_COMMIT_INTENT" => FinalComponent(t)

\* PERSISTENCE_OUTCOME_UNKNOWN
AcceptsFreeze(t) ==
    t.phase \notin {"NOT_STARTED", "COMPONENT_READY", "COMPLETE", "OUTCOME_UNKNOWN"}

ConsumePlan(t, batches) == [t EXCEPT !.phase = "COMPONENT_READY", !.batches = batches]

ConsumeFreeze(t) == [t EXCEPT !.phase = "OUTCOME_UNKNOWN"]

\* The stage a freeze names, for the journals whose recovery looks at it.
ConsumeFreezeAt(t, stage) == [ConsumeFreeze(t) EXCEPT !.stage = stage]

\* host_commit_possible
HostCommitPossible(t) == t.stage \in {"host-commit", "final-confirm", "readback"}

\* EARLY_CONFIRM_RECOVERED: persistence resumes at the next component.
AcceptsEarlyConfirm(t) == /\ t.phase = "OUTCOME_UNKNOWN"
                          /\ t.stage = "early-confirm"
                          /\ Current(t) \in StagedNames(t)
                          /\ ~FinalComponent(t)

ConsumeEarlyConfirm(t) == [t EXCEPT !.phase = "COMPONENT_READY", !.comp = @ + 1,
                                    !.stage = "none", !.recovered = TRUE]

\* Mutant: an early confirm moves on by two components.
ConsumeSkipping(t, m, file) ==
    IF m = "CONFIRMED" THEN [t EXCEPT !.phase = "COMPONENT_READY", !.comp = @ + 2]
    ELSE [t EXCEPT !.phase = m]

\* file: the content whose hash HOST_STAGED records.
Consume(t, m, file) ==
    CASE m = "HOST_STAGED" ->
             [t EXCEPT !.phase = m,
                       !.staged = [n \in DOMAIN @ \cup {Current(t)} |->
                                      IF n = Current(t) THEN file ELSE @[n]]]
      [] m = "CONFIRMED" -> [t EXCEPT !.phase = "COMPONENT_READY", !.comp = @ + 1]
      [] m = "FINAL_CONFIRMED" /\ FinalBatch(t) -> [t EXCEPT !.phase = "ATTESTATION_READY"]
      [] m = "FINAL_CONFIRMED" /\ ~FinalBatch(t) ->
             [t EXCEPT !.phase = "COMPONENT_READY", !.batch = @ + 1,
                       !.comp = 1, !.staged = << >>]
      [] m = "ATTESTED" -> [t EXCEPT !.phase = "COMPLETE"]
      [] OTHER -> [t EXCEPT !.phase = m]
============================================================================
