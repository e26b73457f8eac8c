------------------------ MODULE IdentityRenameProofs ------------------------
(***************************************************************************)
(* Proofs about IdentityRename: what a rename reports is what the archive  *)
(* says, and an interrupted one has exactly one outcome, for any labels    *)
(* and any number of failures, reboots, matches and renames.               *)
(***************************************************************************)
EXTENDS IdentityRename, TLAPS

-----------------------------------------------------------------------------
(* The inductive invariant. *)

Phases == Recoverable \cup {"NONE", "BASELINE", "ABORTED", "RECONCILED", "POST_REBOOT_VERIFIED"}

UserOnly == <<<<"user">>>>

TrackerType ==
    [kind : {"identity-metadata"}, recovered : {FALSE}, phase : TrackerPhases,
     batches : {<<>>, UserOnly}, batch : {1}, comp : {1},
     staged : {<< >>} \cup [{"user"} -> Archive], stage : {"none"}]

JournalType ==
    [phase : Phases, old : Names \cup {None}, new : Names \cup {None},
     baseline : Archive \cup {None}, gen : 0 .. MaxGen, boot : 0 .. MaxBoots,
     action : Actions \cup {None}, tracker : TrackerType]

StoreType ==
    [user : Archive, txn : {"none", "prepare", "commit"}, file : Archive \cup {None, Torn}]

SepType == [gen : 0 .. MaxGen, dirty : BOOLEAN, loaded : BOOLEAN]

Types == /\ j \in JournalType /\ store \in StoreType /\ sep \in SepType
         /\ boot \in 0 .. MaxBoots /\ ops \in 0 .. MaxOps /\ saves \in Nat
         /\ crossed \in BOOLEAN

\* What the journal of a rename says of itself.
JournalInv ==
    /\ j.phase # "NONE" => /\ j.old \in Names /\ j.new \in Names
                           /\ j.baseline \in Archive /\ j.baseline.name = j.old
    /\ j.tracker.phase # "NOT_STARTED" => j.tracker.batches = UserOnly
    /\ j.phase \in {"NONE", "BASELINE", "INTENT", "PERSISTING", "PERSISTENCE_READY"} =>
          j.action = None

\* While a rename is unfinished, the archive is the one it started from or the one it
\* staged, and the transaction in between holds the staged one.
Unfinished == j.phase \in Recoverable \cup {"BASELINE", "RECONCILED"}

BeforeCommit == store.user = j.baseline /\ ~crossed /\ j.action # "commit-rolled-forward"
AfterCommit == store.user = Staged /\ crossed /\ j.action # "prepare-discarded"

New(archive) == archive.name = j.new /\ archive.save > j.baseline.save

StoreInv ==
    /\ store.txn = "none" => store.file = None
    /\ store.user.save <= saves /\ (store.file \in Archive => store.file.save <= saves)
    /\ Unfinished =>
          /\ store.txn = "none" => BeforeCommit \/ AfterCommit
          /\ store.txn = "prepare" =>
                /\ BeforeCommit /\ j.action # "no-local-transaction"
                /\ j.phase \in {"PERSISTING", "OUTCOME_UNKNOWN"}
                /\ Staged # None => store.file = Staged
          /\ store.txn = "commit" =>
                /\ store.user = j.baseline /\ crossed
                /\ store.file = Staged /\ Staged \in Archive
                /\ j.action \in {None, "commit-rolled-forward"}
                /\ j.phase \in {"PERSISTING", "OUTCOME_UNKNOWN"}
          /\ store.file \in Archive => New(store.file)
          /\ Staged # None => New(Staged)
    /\ j.phase = "RECONCILED" => store.txn = "none" /\ store.user = Staged
    /\ j.phase = "ABORTED" =>
          /\ store.user.name = j.old /\ ~crossed
          /\ store.txn # "none" => store.txn = "prepare" /\ store.file = None
    /\ j.phase = "POST_REBOOT_VERIFIED" => store.txn = "none" /\ store.user.name = j.new
    /\ j.phase = "NONE" => store.txn = "none"

\* A SEP that is loaded and clean holds the generation of the archive, and of the one
\* that is staged.
SavedInv ==
    SepReady => /\ store.user.gen = sep.gen
                /\ store.file \in Archive => store.file.gen = sep.gen

\* Where the process is in the operation.
Captures == {"PREPARE_INTENT", "PREPARED", "COMPLETE_INTENT", "SECURE_BLOB_CAPTURED", "stage"}
Closing == {"BATCH_COMMITTED", "FINAL_CONFIRM_INTENT", "confirm", "FINAL_CONFIRMED",
            "readback", "ATTESTED", "RENAME_RECONCILED"}

PcInv ==
    /\ pc \in {"idle", "RENAME_INTENT", "plan", "begin_stage", "stage_write", "HOST_STAGED",
               "BATCH_COMMIT_INTENT", "cross", "roll_forward", "resolve", "classify"}
              \cup Captures \cup Closing
    /\ pc = "RENAME_INTENT" => j.phase = "BASELINE"
    /\ pc = "plan" => j.phase = "INTENT"
    /\ pc \in {"RENAME_INTENT", "plan", "begin_stage"} =>
          store.txn = "none" /\ ~crossed /\ Staged = None
    /\ pc \in {"begin_stage", "stage_write", "HOST_STAGED", "BATCH_COMMIT_INTENT", "cross",
               "roll_forward"} \cup Captures => j.phase = "PERSISTING"
    /\ pc \in {"stage_write", "HOST_STAGED", "BATCH_COMMIT_INTENT", "cross"} \cup Captures =>
          store.txn = "prepare"
    /\ pc \in Captures => store.file = None /\ Staged = None
    /\ pc = "stage_write" => Staged = None
    /\ pc = "HOST_STAGED" => store.file \in Archive /\ store.file.gen = sep.gen /\ Staged = None
    /\ pc \in {"BATCH_COMMIT_INTENT", "cross"} =>
          store.file = Staged /\ Staged \in Archive /\ Staged.gen = sep.gen
    /\ pc = "roll_forward" => store.txn = "commit" /\ Staged.gen = sep.gen
    /\ pc \in Closing =>
          /\ j.phase \in {"PERSISTING", "PERSISTENCE_READY"}
          /\ store.txn = "none" /\ store.user = Staged /\ crossed /\ store.user.gen = sep.gen
    /\ pc = "confirm" => j.tracker.phase = "FINAL_CONFIRM_INTENT"
    /\ pc \in {"resolve", "classify"} => j.phase = "OUTCOME_UNKNOWN" /\ j.action # None
    /\ pc = "classify" => store.txn = "none"

Inv == Types /\ JournalInv /\ StoreInv /\ SavedInv /\ PcInv

-----------------------------------------------------------------------------
(* The tracker and the journal's records. *)

StagedBy(t) == IF "user" \in StagedNames(t) THEN t.staged["user"] ELSE None

Milestones == {"PREPARE_INTENT", "PREPARED", "COMPLETE_INTENT", "SECURE_BLOB_CAPTURED",
               "HOST_STAGED", "BATCH_COMMIT_INTENT", "BATCH_COMMITTED",
               "FINAL_CONFIRM_INTENT", "FINAL_CONFIRMED", "ATTESTED"}

LEMMA MilestonesThen == DOMAIN Then = Milestones
BY DEF Then, Milestones

LEMMA NothingStaged == DOMAIN << >> = {} /\ << >> # UserOnly
<1>1. Len(<< >>) = 0 /\ Len(UserOnly) = 1
  BY DEF UserOnly
<1>2. DOMAIN << >> = {}
  OBVIOUS
<1> QED BY <1>1, <1>2

LEMMA StagedType ==
    ASSUME NEW t \in TrackerType
    PROVE  /\ StagedBy(t) \in Archive \cup {None}
           /\ StagedNames(t) \in {{}, {"user"}}
<1>1. t.staged \in {<< >>} \cup [{"user"} -> Archive]
  BY DEF TrackerType
<1>2. CASE t.staged = << >>
  BY <1>2, NothingStaged DEF StagedBy, StagedNames
<1>3. CASE t.staged \in [{"user"} -> Archive]
  BY <1>3 DEF StagedBy, StagedNames
<1> QED BY <1>1, <1>2, <1>3

\* What a record makes of the tracker: only HOST_STAGED changes what is staged.
LEMMA ConsumeFields ==
    ASSUME NEW t \in TrackerType, t.batches = UserOnly, NEW m \in Milestones, NEW file,
           m = "HOST_STAGED" => file \in Archive
    PROVE  LET u == Consume(t, m, file)
           IN  /\ u \in TrackerType /\ u.batches = UserOnly
               /\ StagedBy(u) = IF m = "HOST_STAGED" THEN file ELSE StagedBy(t)
               /\ u.phase = CASE m = "FINAL_CONFIRMED" -> "ATTESTATION_READY"
                              [] m = "ATTESTED" -> "COMPLETE"
                              [] OTHER -> m
<1> DEFINE u == Consume(t, m, file)
           p == CASE m = "FINAL_CONFIRMED" -> "ATTESTATION_READY"
                  [] m = "ATTESTED" -> "COMPLETE"
                  [] OTHER -> m
<1>1. Current(t) = "user" /\ FinalBatch(t)
  BY DEF Current, FinalBatch, TrackerType, UserOnly
<1>2. p \in TrackerPhases
  BY DEF Milestones, TrackerPhases
<1>3. CASE m # "HOST_STAGED"
  <2>1. u = [t EXCEPT !.phase = p]
    BY <1>1, <1>3 DEF Consume, Milestones
  <2> HIDE DEF u, p
  <2>2. u \in TrackerType /\ u.batches = UserOnly /\ u.phase = p /\ u.staged = t.staged
    BY <1>2, <2>1 DEF TrackerType
  <2>3. StagedBy(u) = StagedBy(t)
    BY <2>2 DEF StagedBy, StagedNames
  <2>4. u \in TrackerType /\ u.batches = UserOnly /\ StagedBy(u) = StagedBy(t) /\ u.phase = p
    BY <2>2, <2>3
  <2> QED BY <1>3, <2>4 DEF u, p
<1>4. CASE m = "HOST_STAGED"
  <2> DEFINE s == [n \in StagedNames(t) \cup {"user"} |->
                      IF n = "user" THEN file ELSE t.staged[n]]
  <2>1. StagedNames(t) \cup {"user"} = {"user"}
    BY StagedType
  <2>2. s \in [{"user"} -> Archive] /\ s["user"] = file
    BY <1>4, <2>1
  <2>3. u = [t EXCEPT !.phase = m, !.staged = s]
    BY <1>1, <1>4 DEF Consume, StagedNames, TrackerType
  <2>4. p = m
    BY <1>4
  <2> HIDE DEF u, p, s
  <2>5. u \in TrackerType /\ u.batches = UserOnly /\ u.phase = p /\ u.staged = s
    BY <1>2, <2>2, <2>3, <2>4 DEF TrackerType
  <2>6. StagedBy(u) = file
    BY <2>2, <2>5 DEF StagedBy, StagedNames
  <2> QED BY <1>4, <2>5, <2>6 DEF u, p
<1> QED BY <1>3, <1>4

\* The journal i continues the rename of j.
SameRename(i) == /\ i.old = j.old /\ i.new = j.new /\ i.baseline = j.baseline
                 /\ i.gen = j.gen /\ i.boot = j.boot

LEMMA PhaseFields ==
    ASSUME j \in JournalType, NEW p \in Phases
    PROVE  LET i == [j EXCEPT !.phase = p]
           IN  /\ i \in JournalType /\ SameRename(i) /\ i.phase = p /\ i.action = j.action
               /\ i.tracker = j.tracker
BY DEF JournalType, SameRename

LEMMA TrackerFields ==
    ASSUME j \in JournalType, NEW t \in TrackerType
    PROVE  LET i == RecordTracker(t)
           IN  /\ i \in JournalType /\ SameRename(i) /\ i.phase = PhaseOf(t)
               /\ i.action = j.action /\ i.tracker = t
<1>1. PhaseOf(t) \in Phases
  BY DEF PhaseOf, Phases, Recoverable
<1> QED BY <1>1 DEF JournalType, SameRename, RecordTracker

\* A freeze leaves the rename to recovery, or the journal as it is.
LEMMA FreezeFields ==
    ASSUME Types, JournalInv, Freeze
    PROVE  /\ pc' = "idle" /\ j' \in JournalType /\ SameRename(j') /\ j'.action = j.action
           /\ Staged' = Staged
           /\ j'.tracker.phase # "NOT_STARTED" => j'.tracker.batches = UserOnly
           /\ \/ j'.phase = j.phase
              \/ j.phase \in {"INTENT", "PERSISTING"} /\ j'.phase = "OUTCOME_UNKNOWN"
<1>1. j \in JournalType /\ j.tracker \in TrackerType
  BY DEF Types, JournalType
<1>2. CASE ~(Persists /\ AcceptsFreeze(j.tracker))
  BY <1>1, <1>2 DEF Freeze, SameRename, Staged, StagedNames, JournalInv
<1>3. CASE Persists /\ AcceptsFreeze(j.tracker)
  <2> DEFINE t == ConsumeFreeze(j.tracker)
  <2>1. /\ t \in TrackerType /\ t.phase = "OUTCOME_UNKNOWN" /\ t.staged = j.tracker.staged
        /\ t.batches = j.tracker.batches
    BY <1>1 DEF ConsumeFreeze, TrackerType, TrackerPhases
  <2>2. j.tracker.batches = UserOnly
    BY <1>3 DEF AcceptsFreeze, JournalInv
  <2>3. j' = RecordTracker(t)
    BY <1>3 DEF Freeze
  <2> HIDE DEF t
  <2>4. PhaseOf(t) = "OUTCOME_UNKNOWN"
    BY <2>1 DEF PhaseOf
  <2> QED BY <1>1, <1>3, <2>1, <2>2, <2>3, <2>4, TrackerFields
          DEF Persists, Staged, StagedNames, Freeze
<1> QED BY <1>2, <1>3

-----------------------------------------------------------------------------
(* The steps of the operation. *)

LEMMA InitInv == Init => Inv
<1> SUFFICES ASSUME Init PROVE Inv
  OBVIOUS
<1>1. PICK n \in Names :
         store = [user |-> [name |-> n, gen |-> 0, save |-> 0], txn |-> "none", file |-> None]
  BY DEF Init
<1>2. 0 \in 0 .. MaxGen /\ 0 \in 0 .. MaxBoots /\ 0 \in 0 .. MaxOps /\ 0 \in Nat
  BY RenameAssumption
<1>3. store \in StoreType /\ store.txn = "none" /\ store.file = None /\ store.user.gen = 0
      /\ store.user.save = 0 /\ None \notin Archive
  BY <1>1, <1>2, RenameAssumption DEF StoreType, Archive
<1>4. sep \in SepType /\ sep.gen = 0
  BY <1>2 DEF Init, SepType
<1>5. NewTracker("identity-metadata", FALSE) \in TrackerType
  BY DEF NewTracker, TrackerType, TrackerPhases
<1>6. j \in JournalType /\ j.phase = "NONE" /\ j.action = None /\ j.tracker.phase = "NOT_STARTED"
  <2>1. NewTracker("identity-metadata", FALSE).phase = "NOT_STARTED"
    BY DEF NewTracker
  <2> QED BY <1>2, <1>5, <2>1 DEF Init, NoRename, JournalType, Phases
<1>7. Types
  BY <1>2, <1>3, <1>4, <1>6 DEF Init, Types
<1>8. JournalInv /\ StoreInv /\ SavedInv
  BY <1>3, <1>4, <1>6 DEF Init, JournalInv, StoreInv, SavedInv, Unfinished, Recoverable
<1>9. PcInv
  BY DEF Init, PcInv, Captures, Closing
<1> QED BY <1>7, <1>8, <1>9 DEF Inv

LEMMA RunRenameInv == ASSUME Inv, NEW n \in Names, RunRename(n) PROVE Inv'
<1> DEFINE i == Baseline(n)
<1>1. /\ j' = i /\ pc' = "RENAME_INTENT" /\ ops' = ops + 1 /\ ops < MaxOps /\ crossed' = FALSE
      /\ store.txn = "none" /\ sep' = sep /\ store' = store /\ boot' = boot /\ saves' = saves
  BY DEF RunRename, Startable
<1>2. /\ store \in StoreType /\ sep \in SepType /\ store.user \in Archive
      /\ sep.gen \in 0 .. MaxGen /\ boot \in 0 .. MaxBoots
      /\ store.user.name \in Names /\ None \notin Archive
  BY RenameAssumption DEF Inv, Types, StoreType, SepType, Archive
<1>3. NewTracker("identity-metadata", FALSE) \in TrackerType
  BY DEF NewTracker, TrackerType, TrackerPhases
<1>4. /\ i \in JournalType /\ i.phase = "BASELINE" /\ i.action = None
      /\ i.baseline = store.user /\ i.old = store.user.name /\ i.new = n
      /\ i.tracker = NewTracker("identity-metadata", FALSE)
  BY <1>2, <1>3 DEF Baseline, NoRename, JournalType, Phases
<1>5. i.tracker.phase = "NOT_STARTED" /\ i.tracker.staged = << >>
  BY <1>4 DEF NewTracker
<1> HIDE DEF i
<1>6. Staged' = None
  BY <1>1, <1>5, NothingStaged DEF Staged, StagedNames
<1>7. ops' \in 0 .. MaxOps
  BY <1>1, RenameAssumption DEF Inv, Types
<1>8. Types' /\ JournalInv'
  BY <1>1, <1>2, <1>4, <1>5, <1>7 DEF Inv, Types, JournalInv
<1>9. StoreInv'
  <2>1. i.action # "commit-rolled-forward" /\ store.file = None
    BY <1>1, <1>4, RenameAssumption DEF Actions, Inv, StoreInv
  <2> QED BY <1>1, <1>2, <1>4, <1>6, <2>1
          DEF Inv, StoreInv, Unfinished, BeforeCommit, New, Recoverable
<1>10. SavedInv'
  BY <1>1 DEF Inv, SavedInv, SepReady
<1>11. PcInv'
  BY <1>1, <1>4, <1>6 DEF PcInv, Captures, Closing
<1> QED BY <1>8, <1>9, <1>10, <1>11 DEF Inv

\* A step that changes only the journal's phase and the process's place.
LEMMA RenameIntentInv == ASSUME Inv, RenameIntent PROVE Inv'
<1>1. /\ pc = "RENAME_INTENT" /\ UNCHANGED <<sep, store, boot, ops, saves, crossed>>
      /\ j.phase = "BASELINE" /\ store.txn = "none"
  BY DEF RenameIntent, world, Inv, PcInv
<1>2. j' = [j EXCEPT !.phase = "INTENT"] /\ pc' = "plan"
  BY <1>1 DEF RenameIntent, AppendChecked, RENAME_INTENT, Rule
<1>3. /\ j' \in JournalType /\ SameRename(j') /\ j'.phase = "INTENT" /\ j'.action = j.action
      /\ j'.tracker = j.tracker
  BY <1>2, PhaseFields DEF Inv, Types, Phases, Recoverable
<1>4. Staged' = Staged
  BY <1>3 DEF Staged, StagedNames
<1>5. Types' /\ JournalInv'
  BY <1>1, <1>3 DEF Inv, Types, JournalInv, SameRename
<1>6. StoreInv'
  BY <1>1, <1>3, <1>4
     DEF Inv, StoreInv, Unfinished, Recoverable, BeforeCommit, AfterCommit, New, SameRename
<1>7. SavedInv' /\ PcInv'
  BY <1>1, <1>2, <1>3, <1>4 DEF Inv, SavedInv, SepReady, PcInv, Captures, Closing
<1> QED BY <1>5, <1>6, <1>7 DEF Inv

\* An operation that stops leaves a state that recovery can take up.
LEMMA StopsInv ==
    ASSUME Inv, pc' = "idle", UNCHANGED <<j, sep, store, boot, ops, saves, crossed>>
    PROVE  Inv'
<1>1. Types' /\ JournalInv' /\ StoreInv' /\ SavedInv'
  BY DEF Inv, Types, JournalInv, StoreInv, SavedInv, SepReady, Unfinished, BeforeCommit,
         AfterCommit, New, Staged, StagedNames
<1>2. PcInv'
  BY DEF PcInv, Captures, Closing
<1> QED BY <1>1, <1>2 DEF Inv

\* And so does one that freezes, whatever a confirm has made of the SEP.
LEMMA FreezesInv ==
    ASSUME Inv, Freeze, UNCHANGED <<store, boot, ops, saves, crossed>>,
           sep' \in SepType, SavedInv'
    PROVE  Inv'
<1>1. /\ pc' = "idle" /\ j' \in JournalType /\ SameRename(j') /\ j'.action = j.action
      /\ Staged' = Staged
      /\ j'.tracker.phase # "NOT_STARTED" => j'.tracker.batches = UserOnly
      /\ \/ j'.phase = j.phase
         \/ j.phase \in {"INTENT", "PERSISTING"} /\ j'.phase = "OUTCOME_UNKNOWN"
  BY FreezeFields DEF Inv
<1>2. Types' /\ JournalInv'
  BY <1>1 DEF Inv, Types, JournalInv, SameRename
<1>3. StoreInv'
  BY <1>1
     DEF Inv, StoreInv, Unfinished, Recoverable, BeforeCommit, AfterCommit, New, SameRename
<1>4. PcInv'
  BY <1>1 DEF PcInv, Captures, Closing
<1> QED BY <1>2, <1>3, <1>4 DEF Inv

LEMMA SavedKept ==
    ASSUME Inv, UNCHANGED <<sep, store>>
    PROVE  SavedInv'
BY DEF Inv, SavedInv, SepReady

LEMMA PersistPlanInv == ASSUME Inv, PersistPlan PROVE Inv'
<1> DEFINE t == ConsumePlan(j.tracker, UserOnly)
<1>1. /\ pc = "plan" /\ UNCHANGED <<sep, store, boot, ops, saves, crossed>>
      /\ j.phase = "INTENT" /\ store.txn = "none" /\ ~crossed /\ Staged = None
  BY DEF PersistPlan, world, Inv, PcInv
<1>2. \/ j' = RecordTracker(t) /\ pc' = "begin_stage"
      \/ j' = j /\ pc' = "idle"
  BY DEF PersistPlan, AppendChecked, Rule, UserOnly
<1>3. CASE j' = j /\ pc' = "idle"
  BY <1>1, <1>3, StopsInv
<1>4. CASE j' = RecordTracker(t) /\ pc' = "begin_stage"
  <2>1. j \in JournalType /\ j.tracker \in TrackerType
    BY DEF Inv, Types, JournalType
  <2>2. /\ t \in TrackerType /\ t.phase = "COMPONENT_READY" /\ t.staged = j.tracker.staged
        /\ t.batches = UserOnly
    BY <2>1 DEF ConsumePlan, TrackerType, TrackerPhases
  <2> HIDE DEF t
  <2>3. PhaseOf(t) = "PERSISTING"
    BY <2>2 DEF PhaseOf
  <2>4. /\ j' \in JournalType /\ SameRename(j') /\ j'.phase = "PERSISTING"
        /\ j'.action = j.action /\ j'.tracker = t
    BY <1>4, <2>1, <2>2, <2>3, TrackerFields
  <2>5. Staged' = Staged
    BY <2>2, <2>4 DEF Staged, StagedNames
  <2>6. Types' /\ JournalInv'
    BY <1>1, <2>2, <2>4 DEF Inv, Types, JournalInv, SameRename
  <2>7. StoreInv'
    BY <1>1, <2>4, <2>5
       DEF Inv, StoreInv, Unfinished, Recoverable, BeforeCommit, AfterCommit, New, SameRename
  <2>8. PcInv'
    BY <1>1, <1>4, <2>4, <2>5 DEF Inv, PcInv, Captures, Closing
  <2> QED BY <1>1, <2>6, <2>7, <2>8, SavedKept DEF Inv
<1> QED BY <1>2, <1>3, <1>4

LEMMA BeginStageInv == ASSUME Inv, BeginStage PROVE Inv'
<1>1. /\ pc = "begin_stage" /\ pc' = "PREPARE_INTENT" /\ store' = [store EXCEPT !.txn = "prepare"]
      /\ UNCHANGED <<sep, j, boot, ops, saves, crossed>>
      /\ j.phase = "PERSISTING" /\ store.txn = "none" /\ ~crossed /\ Staged = None
  BY DEF BeginStage, Inv, PcInv
<1>2. /\ store' \in StoreType /\ store'.txn = "prepare" /\ store'.user = store.user
      /\ store'.file = store.file
  BY <1>1 DEF Inv, Types, StoreType
<1>3. Staged' = Staged
  BY <1>1 DEF Staged, StagedNames
<1>4. store.file = None /\ j.action = None /\ None \notin Actions
  BY <1>1, RenameAssumption DEF Inv, StoreInv, JournalInv
<1>5. Types' /\ JournalInv'
  BY <1>1, <1>2 DEF Inv, Types, JournalInv
<1>6. StoreInv'
  BY <1>1, <1>2, <1>3, <1>4
     DEF Inv, StoreInv, Unfinished, Recoverable, BeforeCommit, AfterCommit, New, Actions
<1>7. SavedInv'
  BY <1>1, <1>2 DEF Inv, SavedInv, SepReady
<1>8. PcInv'
  BY <1>1, <1>2, <1>3, <1>4 DEF PcInv, Captures, Closing
<1> QED BY <1>5, <1>6, <1>7, <1>8 DEF Inv

LEMMA BeginStageFailsInv == ASSUME Inv, BeginStageFails PROVE Inv'
<1>1. /\ pc = "begin_stage" /\ UNCHANGED <<sep, boot, ops, saves, crossed>>
      /\ j.phase = "PERSISTING" /\ store.txn = "none" /\ ~crossed /\ Staged = None
  BY DEF BeginStageFails, Inv, PcInv
<1>2. PICK txn \in {"none", "prepare"} : store' = [store EXCEPT !.txn = txn]
  BY DEF BeginStageFails
<1>3. /\ store' \in StoreType /\ store'.txn = txn /\ store'.user = store.user
      /\ store'.file = store.file
  BY <1>2 DEF Inv, Types, StoreType
<1>4. pc' = "idle" /\ (j' = j \/ j' = [j EXCEPT !.phase = "ABORTED"])
  BY DEF BeginStageFails, AppendChecked, RENAME_ABORTED_BEFORE_PERSISTENCE, Rule
<1>5. /\ j' \in JournalType /\ SameRename(j') /\ j'.phase \in {"PERSISTING", "ABORTED"}
      /\ j'.action = j.action /\ j'.tracker = j.tracker
  BY ZenonT(60), <1>1, <1>4, "ABORTED" \in Phases, PhaseFields DEF Inv, Types, Phases, SameRename
<1>6. Staged' = Staged
  BY <1>5 DEF Staged, StagedNames
<1>7. /\ store.file = None /\ j.action = None /\ None \notin Actions /\ store.user = j.baseline
      /\ j.baseline.name = j.old
  BY <1>1, RenameAssumption
     DEF Inv, StoreInv, JournalInv, Unfinished, Recoverable, BeforeCommit, AfterCommit
<1>8. Types' /\ JournalInv'
  BY <1>1, <1>3, <1>5, <1>7 DEF Inv, Types, JournalInv, SameRename
<1>9. StoreInv'
  BY <1>1, <1>3, <1>5, <1>6, <1>7
     DEF Inv, StoreInv, Unfinished, Recoverable, BeforeCommit, AfterCommit, New, Actions, SameRename
<1>10. SavedInv'
  BY <1>1, <1>3 DEF Inv, SavedInv, SepReady
<1>11. PcInv'
  BY <1>4 DEF PcInv, Captures, Closing
<1> QED BY <1>8, <1>9, <1>10, <1>11 DEF Inv

LEMMA PersistMilestoneInv == ASSUME Inv, PersistMilestone PROVE Inv'
<1> DEFINE t == Consume(j.tracker, pc, store.file)
<1>1. /\ pc \in Milestones /\ UNCHANGED <<sep, store, boot, ops, saves, crossed>>
      /\ j \in JournalType /\ j.tracker \in TrackerType
  BY MilestonesThen DEF PersistMilestone, world, Inv, Types, JournalType
<1>2. \/ /\ Persists /\ Accepts(j.tracker, pc) /\ j' = RecordTracker(t) /\ pc' = Then[pc]
      \/ j' = j /\ pc' = "idle"
  BY DEF PersistMilestone, AppendChecked, Rule
<1>3. CASE j' = j /\ pc' = "idle"
  BY <1>1, <1>3, StopsInv
<1>4. CASE Persists /\ Accepts(j.tracker, pc) /\ j' = RecordTracker(t) /\ pc' = Then[pc]
  <2>1. j.tracker.phase = After[pc] /\ pc \in DOMAIN After
    BY <1>4 DEF Accepts, ComponentMilestones
  <2>2. j.tracker.batches = UserOnly
    BY <2>1 DEF After, Inv, JournalInv
  <2>3. /\ pc = "HOST_STAGED" => store.file \in Archive
        /\ j.phase \in {"PERSISTING", "PERSISTENCE_READY"}
    BY <1>1 DEF Inv, PcInv, Milestones, Captures, Closing
  <2>4. j.phase = "PERSISTING"
    BY <1>4, <2>3 DEF Persists
  <2>5. /\ t \in TrackerType /\ t.batches = UserOnly
        /\ StagedBy(t) = IF pc = "HOST_STAGED" THEN store.file ELSE StagedBy(j.tracker)
        /\ t.phase = CASE pc = "FINAL_CONFIRMED" -> "ATTESTATION_READY"
                       [] pc = "ATTESTED" -> "COMPLETE"
                       [] OTHER -> pc
    BY <1>1, <2>2, <2>3, ConsumeFields
  <2> HIDE DEF t
  <2>6. PhaseOf(t) = IF pc = "ATTESTED" THEN "PERSISTENCE_READY" ELSE "PERSISTING"
    BY <1>1, <2>5 DEF PhaseOf, Milestones
  <2>7. /\ j' \in JournalType /\ SameRename(j') /\ j'.phase = PhaseOf(t)
        /\ j'.action = j.action /\ j'.tracker = t
    BY <1>1, <1>4, <2>5, TrackerFields
  <2>8. Staged' = IF pc = "HOST_STAGED" THEN store.file ELSE Staged
    BY <2>5, <2>7 DEF Staged, StagedBy
  <2>9. j'.phase \in {"PERSISTING", "PERSISTENCE_READY"}
    BY <2>6, <2>7
  <2>10. Types' /\ JournalInv'
    BY <1>1, <2>4, <2>5, <2>7, <2>9 DEF Inv, Types, JournalInv, SameRename
  <2>11. pc = "ATTESTED" => store.txn = "none"
    BY DEF Inv, PcInv, Closing
  <2>12. None \notin Archive
    BY RenameAssumption
  <2>13. StoreInv'
    <3>1. CASE pc # "HOST_STAGED"
      <4>1. Staged' = Staged /\ (pc # "ATTESTED" => j'.phase = j.phase)
        BY <2>4, <2>6, <2>7, <2>8, <3>1
      <4> QED BY <1>1, <2>4, <2>7, <2>9, <2>11, <4>1
              DEF Inv, StoreInv, Unfinished, Recoverable, BeforeCommit, AfterCommit, New, SameRename
    <3>2. CASE pc = "HOST_STAGED"
      <4>1. /\ Staged' = store.file /\ store.file \in Archive /\ store.txn = "prepare"
            /\ j'.phase = "PERSISTING"
        BY <2>3, <2>6, <2>7, <2>8, <3>2 DEF Inv, PcInv
      <4> QED BY <1>1, <2>4, <2>7, <2>12, <4>1
              DEF Inv, StoreInv, Unfinished, Recoverable, BeforeCommit, AfterCommit, New, SameRename
    <3> QED BY <3>1, <3>2
  <2>14. PcInv'
    <3>1. CASE pc \in {"PREPARE_INTENT", "PREPARED", "COMPLETE_INTENT", "SECURE_BLOB_CAPTURED"}
      <4>1. pc' \in {"PREPARED", "COMPLETE_INTENT", "SECURE_BLOB_CAPTURED", "stage"}
        BY <1>4, <3>1 DEF Then
      <4>2. Staged' = Staged /\ j'.phase = "PERSISTING"
        BY <2>6, <2>7, <2>8, <3>1
      <4> QED BY <1>1, <3>1, <4>1, <4>2 DEF Inv, PcInv, Captures, Closing
    <3>2. CASE pc = "HOST_STAGED"
      <4>1. pc' = "BATCH_COMMIT_INTENT"
        BY <1>4, <3>2 DEF Then
      <4>2. Staged' = store.file /\ j'.phase = "PERSISTING"
        BY <2>6, <2>7, <2>8, <3>2
      <4> QED BY <1>1, <3>2, <4>1, <4>2 DEF Inv, PcInv, Captures, Closing
    <3>3. CASE pc = "BATCH_COMMIT_INTENT"
      <4>1. pc' = "cross"
        BY <1>4, <3>3 DEF Then
      <4>2. Staged' = Staged /\ j'.phase = "PERSISTING"
        BY <2>6, <2>7, <2>8, <3>3
      <4> QED BY <1>1, <3>3, <4>1, <4>2 DEF Inv, PcInv, Captures, Closing
    <3>4. CASE pc \in {"BATCH_COMMITTED", "FINAL_CONFIRM_INTENT", "FINAL_CONFIRMED", "ATTESTED"}
      <4>1. pc' \in {"FINAL_CONFIRM_INTENT", "confirm", "readback", "RENAME_RECONCILED"}
        BY <1>4, <3>4 DEF Then
      <4>2. pc' = "confirm" => pc = "FINAL_CONFIRM_INTENT"
        BY <1>4, <3>4 DEF Then
      <4>3. Staged' = Staged
        BY <2>8, <3>4
      <4>4. pc' = "confirm" => j'.tracker.phase = "FINAL_CONFIRM_INTENT"
        BY <2>5, <2>7, <4>2
      <4> QED BY <1>1, <2>9, <3>4, <4>1, <4>3, <4>4 DEF Inv, PcInv, Captures, Closing
    <3> QED BY <1>1, <3>1, <3>2, <3>3, <3>4 DEF Milestones
  <2> QED BY <1>1, <2>10, <2>13, <2>14, SavedKept DEF Inv
<1> QED BY <1>2, <1>3, <1>4

\* What a step that leaves the journal alone keeps.
LEMMA JournalKept ==
    ASSUME Inv, j' = j
    PROVE  /\ Staged' = Staged /\ JournalInv'
           /\ j \in JournalType /\ StagedBy(j.tracker) \in Archive \cup {None}
BY StagedType DEF Inv, JournalInv, Staged, StagedNames, Types, JournalType

LEMMA CallFailsInv == ASSUME Inv, CallFails PROVE Inv'
BY FreezesInv, SavedKept DEF CallFails, world, Inv, Types

LEMMA CrossFailsInv == ASSUME Inv, CrossFails PROVE Inv'
BY FreezesInv, SavedKept DEF CrossFails, world, Inv, Types

LEMMA StageCreateInv == ASSUME Inv, StageCreate PROVE Inv'
<1>1. /\ pc = "stage" /\ pc' = "stage_write" /\ store' = [store EXCEPT !.file = Torn]
      /\ UNCHANGED <<sep, j, boot, ops, saves, crossed>>
      /\ j.phase = "PERSISTING" /\ store.txn = "prepare" /\ Staged = None
  BY DEF StageCreate, Inv, PcInv, Captures
<1>2. /\ store' \in StoreType /\ store'.txn = "prepare" /\ store'.user = store.user
      /\ store'.file = Torn /\ Torn \notin Archive
  BY <1>1, RenameAssumption DEF Inv, Types, StoreType
<1>3. Types'
  BY <1>1, <1>2 DEF Inv, Types
<1>4. StoreInv'
  BY <1>1, <1>2, JournalKept
     DEF Inv, StoreInv, Unfinished, Recoverable, BeforeCommit, AfterCommit, New
<1>5. SavedInv'
  BY <1>1, <1>2 DEF Inv, SavedInv, SepReady
<1>6. PcInv'
  BY <1>1, <1>2, JournalKept DEF PcInv, Captures, Closing
<1> QED BY <1>1, <1>3, <1>4, <1>5, <1>6, JournalKept DEF Inv

LEMMA StageWriteInv == ASSUME Inv, StageWrite PROVE Inv'
<1>1. /\ pc = "stage_write" /\ pc' = "HOST_STAGED" /\ store' = [store EXCEPT !.file = Encoded]
      /\ saves' = saves + 1 /\ UNCHANGED <<sep, j, boot, ops, crossed>>
      /\ j.phase = "PERSISTING" /\ store.txn = "prepare" /\ Staged = None
  BY DEF StageWrite, Inv, PcInv
<1>2. /\ saves \in Nat /\ j.new \in Names /\ sep.gen \in 0 .. MaxGen
      /\ store.user.save <= saves /\ store.user.save \in Nat /\ store.user = j.baseline
  BY <1>1 DEF Inv, Types, JournalInv, SepType, StoreInv, StoreType, Archive, Unfinished,
              Recoverable, BeforeCommit
<1>3. /\ Encoded \in Archive /\ Encoded.name = j.new /\ Encoded.gen = sep.gen
      /\ Encoded.save = saves + 1
  BY <1>2 DEF Encoded, Archive
<1>4. /\ store' \in StoreType /\ store'.txn = "prepare" /\ store'.user = store.user
      /\ store'.file = Encoded
  BY <1>1, <1>3 DEF Inv, Types, StoreType
<1>5. New(Encoded)
  BY <1>2, <1>3 DEF New
<1>6. Types'
  BY <1>1, <1>2, <1>4 DEF Inv, Types
<1>7. StoreInv'
  <2>1. store'.user.save <= saves' /\ Encoded.save <= saves'
    BY <1>1, <1>2, <1>3, <1>4
  <2>2. New(store.file)'
    BY <1>1, <1>4, <1>5 DEF New
  <2> QED BY <1>1, <1>2, <1>3, <1>4, <2>1, <2>2, JournalKept
          DEF Inv, StoreInv, Unfinished, Recoverable, BeforeCommit, AfterCommit, New
<1>8. SavedInv'
  BY <1>1, <1>3, <1>4 DEF Inv, SavedInv, SepReady
<1>9. PcInv'
  BY <1>1, <1>3, <1>4, JournalKept DEF PcInv, Captures, Closing
<1> QED BY <1>1, <1>6, <1>7, <1>8, <1>9, JournalKept DEF Inv

LEMMA CrossInv == ASSUME Inv, Cross PROVE Inv'
<1>1. /\ pc = "cross" /\ pc' = "roll_forward" /\ store' = [store EXCEPT !.txn = "commit"]
      /\ crossed' = TRUE /\ UNCHANGED <<sep, j, boot, ops, saves>>
      /\ j.phase = "PERSISTING" /\ store.txn = "prepare"
      /\ store.file = Staged /\ Staged \in Archive /\ Staged.gen = sep.gen
  BY DEF Cross, Inv, PcInv
<1>2. /\ store' \in StoreType /\ store'.txn = "commit" /\ store'.user = store.user
      /\ store'.file = store.file
  BY <1>1 DEF Inv, Types, StoreType
<1>3. store.user = j.baseline /\ j.action = None
  BY <1>1 DEF Inv, StoreInv, JournalInv, Unfinished, Recoverable, BeforeCommit
<1>4. Types'
  BY <1>1, <1>2 DEF Inv, Types
<1>5. StoreInv'
  BY <1>1, <1>2, <1>3, JournalKept
     DEF Inv, StoreInv, Unfinished, Recoverable, BeforeCommit, AfterCommit, New
<1>6. SavedInv'
  BY <1>1, <1>2 DEF Inv, SavedInv, SepReady
<1>7. PcInv'
  BY <1>1, <1>2, JournalKept DEF PcInv, Captures, Closing
<1> QED BY <1>1, <1>4, <1>5, <1>6, <1>7, JournalKept DEF Inv

\* Rolling forward makes the staged archive the committed one.
LEMMA RollsForward ==
    ASSUME Inv, UNCHANGED <<sep, j, boot, ops, saves, crossed>>, store' = RolledForward,
           store.txn = "commit", j.phase \in {"PERSISTING", "OUTCOME_UNKNOWN"}
    PROVE  /\ Types' /\ JournalInv' /\ StoreInv' /\ SavedInv' /\ Staged' = Staged
           /\ store'.txn = "none" /\ store'.user = Staged /\ crossed'
<1>1. /\ store.file = Staged /\ Staged \in Archive /\ crossed
      /\ j.action \in {None, "commit-rolled-forward"} /\ New(Staged) /\ None \notin Archive
      /\ store.file.save <= saves /\ j.action # "prepare-discarded"
  BY RenameAssumption DEF Inv, StoreInv, Unfinished, Recoverable, Actions
<1>2. store' \in StoreType /\ store'.txn = "none" /\ store'.user = Staged /\ store'.file = None
  BY <1>1 DEF RolledForward, StoreType
<1>3. Types'
  BY <1>2 DEF Inv, Types
<1>4. StoreInv'
  BY <1>1, <1>2, JournalKept
     DEF Inv, StoreInv, Unfinished, Recoverable, BeforeCommit, AfterCommit, New
<1>5. SavedInv'
  BY <1>1, <1>2 DEF Inv, SavedInv, SepReady
<1> QED BY <1>1, <1>2, <1>3, <1>4, <1>5, JournalKept

LEMMA RollForwardInv == ASSUME Inv, RollForward PROVE Inv'
<1>1. /\ pc = "roll_forward" /\ pc' = "BATCH_COMMITTED" /\ store' = RolledForward
      /\ UNCHANGED <<sep, j, boot, ops, saves, crossed>>
      /\ j.phase = "PERSISTING" /\ store.txn = "commit" /\ Staged.gen = sep.gen
  BY DEF RollForward, Inv, PcInv
<1>2. /\ Types' /\ JournalInv' /\ StoreInv' /\ SavedInv' /\ Staged' = Staged
      /\ store'.txn = "none" /\ store'.user = Staged /\ crossed'
  BY <1>1, RollsForward
<1>3. PcInv'
  BY <1>1, <1>2 DEF PcInv, Captures, Closing
<1> QED BY <1>2, <1>3 DEF Inv

LEMMA ConfirmInv == ASSUME Inv, Confirm PROVE Inv'
<1>1. /\ pc = "confirm" /\ pc' = "FINAL_CONFIRMED" /\ sep' = [sep EXCEPT !.dirty = FALSE]
      /\ UNCHANGED <<store, j, boot, ops, saves, crossed>>
      /\ store.txn = "none" /\ store.user.gen = sep.gen /\ store.file = None
      /\ None \notin Archive
  BY RenameAssumption DEF Confirm, Inv, PcInv, Closing, StoreInv
<1>2. sep' \in SepType /\ sep'.gen = sep.gen
  BY <1>1 DEF Inv, Types, SepType
<1>3. Types' /\ SavedInv'
  BY <1>1, <1>2 DEF Inv, Types, SavedInv
<1>4. StoreInv'
  BY <1>1, JournalKept
     DEF Inv, StoreInv, Unfinished, Recoverable, BeforeCommit, AfterCommit, New
<1>5. PcInv'
  BY <1>1, <1>2, JournalKept DEF Inv, PcInv, Captures, Closing
<1> QED BY <1>1, <1>3, <1>4, <1>5, JournalKept DEF Inv

LEMMA ConfirmFailsInv == ASSUME Inv, ConfirmFails PROVE Inv'
<1>1. PICK d \in {FALSE, sep.dirty} : sep' = [sep EXCEPT !.dirty = d]
  BY DEF ConfirmFails
<1>2. /\ pc = "confirm" /\ Freeze /\ UNCHANGED <<store, boot, ops, saves, crossed>>
      /\ store.txn = "none" /\ store.user.gen = sep.gen /\ store.file = None
      /\ None \notin Archive
  BY RenameAssumption DEF ConfirmFails, Inv, PcInv, Closing, StoreInv
<1>3. sep' \in SepType /\ sep'.gen = sep.gen
  BY <1>1 DEF Inv, Types, SepType
<1>4. SavedInv'
  BY <1>2, <1>3 DEF SavedInv
<1> QED BY <1>2, <1>3, <1>4, FreezesInv

LEMMA ReadbackInv == ASSUME Inv, Readback PROVE Inv'
<1>1. pc = "readback" /\ UNCHANGED <<sep, store, boot, ops, saves, crossed>>
  BY DEF Readback, world
<1>2. CASE Freeze
  BY <1>1, <1>2, FreezesInv, SavedKept DEF Inv, Types
<1>3. CASE pc' = "ATTESTED" /\ j' = j
  <2>1. PcInv'
    BY <1>1, <1>3, JournalKept DEF Inv, PcInv, Captures, Closing
  <2>2. StoreInv'
    BY <1>1, <1>3, JournalKept
       DEF Inv, StoreInv, Unfinished, BeforeCommit, AfterCommit, New
  <2> QED BY <1>1, <1>3, <2>1, <2>2, JournalKept, SavedKept DEF Inv, Types
<1> QED BY <1>2, <1>3 DEF Readback

\* A rename that is closed as done has its staged archive in place.
LEMMA ClosesDone ==
    ASSUME Inv, UNCHANGED <<sep, store, boot, ops, saves, crossed>>, pc' = "idle",
           j' = [j EXCEPT !.phase = "RECONCILED"], Unfinished,
           store.txn = "none", store.user = Staged
    PROVE  Inv'
<1>1. /\ j' \in JournalType /\ SameRename(j') /\ j'.phase = "RECONCILED"
      /\ j'.action = j.action /\ j'.tracker = j.tracker
  BY "RECONCILED" \in Phases, PhaseFields DEF Inv, Types, Phases
<1>2. Staged' = Staged
  BY <1>1 DEF Staged, StagedNames
<1>3. Types' /\ JournalInv'
  BY <1>1 DEF Inv, Types, JournalInv, SameRename, Unfinished, Recoverable
<1>4. StoreInv'
  BY <1>1, <1>2
     DEF Inv, StoreInv, Unfinished, Recoverable, BeforeCommit, AfterCommit, New, SameRename
<1>5. PcInv'
  BY DEF PcInv, Captures, Closing
<1> QED BY <1>3, <1>4, <1>5, SavedKept DEF Inv

LEMMA ReconciledInv == ASSUME Inv, Reconciled PROVE Inv'
<1>1. /\ pc = "RENAME_RECONCILED" /\ pc' = "idle"
      /\ UNCHANGED <<sep, store, boot, ops, saves, crossed>>
      /\ j.phase \in {"PERSISTING", "PERSISTENCE_READY"} /\ store.txn = "none"
      /\ store.user = Staged
      /\ j' = j \/ j' = [j EXCEPT !.phase = "RECONCILED"]
  BY DEF Reconciled, world, AppendChecked, RENAME_RECONCILED, Rule, Inv, PcInv, Closing
<1> QED BY <1>1, StopsInv, ClosesDone DEF Unfinished, Recoverable

-----------------------------------------------------------------------------
(* The recovery, and the proof after another boot. *)

LEMMA RecoverInv == ASSUME Inv, Recover PROVE Inv'
<1>1. /\ UNCHANGED <<sep, store, boot, ops, saves, crossed>> /\ j.phase \in Recoverable
      /\ j \in JournalType
  BY DEF Recover, world, Inv, Types
<1>2. CASE j' = j /\ pc' = "idle"
  BY <1>1, <1>2, StopsInv
<1>3. CASE j.action # None /\ j' = j /\ pc' = "resolve"
  <2>1. j.phase = "OUTCOME_UNKNOWN"
    BY <1>1, <1>3 DEF Inv, JournalInv, Recoverable
  <2>2. PcInv'
    BY <1>1, <1>3, <2>1, JournalKept DEF PcInv, Captures, Closing
  <2>3. StoreInv'
    BY <1>1, <1>3, JournalKept
       DEF Inv, StoreInv, Unfinished, BeforeCommit, AfterCommit, New
  <2> QED BY <1>1, <1>3, <2>2, <2>3, JournalKept, SavedKept DEF Inv, Types
<1>4. CASE /\ j.action = None /\ pc' = "resolve"
           /\ j' = [j EXCEPT !.action = Observed, !.phase = "OUTCOME_UNKNOWN"]
  <2>1. Observed \in Actions /\ None \notin Actions /\ "OUTCOME_UNKNOWN" \in Phases
    BY RenameAssumption DEF Observed, Actions, Phases, Recoverable
  <2>2. /\ j' \in JournalType /\ SameRename(j') /\ j'.phase = "OUTCOME_UNKNOWN"
        /\ j'.action = Observed /\ j'.tracker = j.tracker
    BY <1>1, <1>4, <2>1 DEF JournalType, SameRename
  <2>3. Staged' = Staged
    BY <2>2 DEF Staged, StagedNames
  <2>4. Types' /\ JournalInv'
    BY <1>1, <2>2 DEF Inv, Types, JournalInv, SameRename, Recoverable
  <2>5. StoreInv'
    BY <1>1, <1>4, <2>1, <2>2, <2>3
       DEF Inv, StoreInv, Unfinished, Recoverable, BeforeCommit, AfterCommit, New, SameRename,
           Observed, Types, StoreType, Actions
  <2>6. PcInv'
    BY <1>4, <2>1, <2>2 DEF PcInv, Captures, Closing
  <2> QED BY <1>1, <2>4, <2>5, <2>6, SavedKept DEF Inv
<1> QED BY <1>2, <1>3, <1>4 DEF Recover, AppendChecked, RENAME_RECOVERY_INTENT, Rule

LEMMA ResolveInv == ASSUME Inv, Resolve PROVE Inv'
<1>1. /\ pc = "resolve" /\ UNCHANGED <<sep, j, boot, ops, saves, crossed>>
      /\ j.phase = "OUTCOME_UNKNOWN" /\ j.action # None
  BY DEF Resolve, Inv, PcInv
<1>2. CASE store' = store /\ pc' = "idle"
  BY <1>1, <1>2, StopsInv
<1>3. CASE store.txn = "none" /\ store' = store /\ pc' = "classify"
  <2>1. PcInv'
    BY <1>1, <1>3, JournalKept DEF PcInv, Captures, Closing
  <2>2. StoreInv'
    BY <1>1, <1>3, JournalKept
       DEF Inv, StoreInv, Unfinished, BeforeCommit, AfterCommit, New
  <2> QED BY <1>1, <1>3, <2>1, <2>2, JournalKept, SavedKept DEF Inv, Types
<1>4. CASE /\ j.action = "prepare-discarded" /\ store.txn = "prepare"
           /\ store' = Discarded /\ pc' = "classify"
  <2>1. /\ store' \in StoreType /\ store'.txn = "none" /\ store'.user = store.user
        /\ store'.file = None /\ None \notin Archive
    BY <1>4, RenameAssumption DEF Inv, Types, StoreType, Discarded
  <2>2. Types' /\ SavedInv'
    BY <1>1, <2>1 DEF Inv, Types, SavedInv, SepReady
  <2>3. StoreInv'
    BY <1>1, <1>4, <2>1, JournalKept
       DEF Inv, StoreInv, Unfinished, Recoverable, BeforeCommit, AfterCommit, New
  <2>4. PcInv'
    BY <1>1, <1>4, <2>1, JournalKept DEF PcInv, Captures, Closing
  <2> QED BY <1>1, <2>2, <2>3, <2>4, JournalKept DEF Inv
<1>5. CASE store.txn = "commit" /\ store' = RolledForward /\ pc' = "classify"
  <2>1. Types' /\ JournalInv' /\ StoreInv' /\ SavedInv' /\ store'.txn = "none"
    BY <1>1, <1>5, RollsForward
  <2>2. PcInv'
    BY <1>1, <1>5, <2>1 DEF PcInv, Captures, Closing
  <2> QED BY <2>1, <2>2 DEF Inv
<1> QED BY <1>2, <1>3, <1>4, <1>5 DEF Resolve

LEMMA ClassifyInv == ASSUME Inv, Classify PROVE Inv'
<1>1. /\ pc = "classify" /\ UNCHANGED <<sep, store, boot, ops, saves, crossed>>
      /\ j.phase = "OUTCOME_UNKNOWN" /\ j.action # None /\ store.txn = "none"
  BY DEF Classify, world, Inv, PcInv
<1>2. CASE j' = j /\ pc' = "idle"
  BY <1>1, <1>2, StopsInv
<1>3. CASE Committed(store.user, j.action) /\ AppendReconciled(TRUE)
  <2>1. pc' = "idle" /\ (j' = j \/ j' = [j EXCEPT !.phase = "RECONCILED"])
    BY <1>3 DEF AppendReconciled, AppendChecked, RENAME_RECOVERY_RECONCILED, Rule
  <2>2. store.user = Staged
    BY <1>3 DEF Committed
  <2> QED BY <1>1, <1>2, <2>1, <2>2, ClosesDone DEF Unfinished, Recoverable
<1>4. CASE Unchanged(store.user, j.action) /\ AppendReconciled(FALSE)
  <2>1. pc' = "idle" /\ (j' = j \/ j' = [j EXCEPT !.phase = "ABORTED"])
    BY <1>4 DEF AppendReconciled, AppendChecked, RENAME_RECOVERY_RECONCILED, Rule
  <2>2. CASE j' = [j EXCEPT !.phase = "ABORTED"]
    <3>1. /\ j' \in JournalType /\ SameRename(j') /\ j'.phase = "ABORTED"
          /\ j'.action = j.action /\ j'.tracker = j.tracker
      BY <2>2, "ABORTED" \in Phases, PhaseFields DEF Inv, Types, Phases
    <3>2. /\ store.user = j.baseline /\ j.baseline \in Archive /\ j.baseline.name = j.old
          /\ store.user.save \in Nat
      BY <1>1, <1>4 DEF Unchanged, Inv, Types, StoreType, Archive, JournalInv
    <3>3. ~crossed
      <4>1. Staged # None => New(Staged)
        BY <1>1 DEF Inv, StoreInv, Unfinished, Recoverable
      <4>2. store.user # Staged
        BY <3>2, <4>1, RenameAssumption DEF New
      <4> QED BY <1>1, <4>2 DEF Inv, StoreInv, Unfinished, Recoverable, BeforeCommit, AfterCommit
    <3>4. Types' /\ JournalInv'
      BY <1>1, <3>1 DEF Inv, Types, JournalInv, SameRename
    <3>5. StoreInv'
      BY <1>1, <3>1, <3>2, <3>3 DEF Inv, StoreInv, Unfinished, Recoverable, SameRename
    <3>6. PcInv'
      BY <2>1 DEF PcInv, Captures, Closing
    <3> QED BY <1>1, <3>4, <3>5, <3>6, SavedKept DEF Inv
  <2> QED BY <1>2, <2>1, <2>2
<1> QED
  <2>1. Unchanged(store.user, j.action) \in BOOLEAN /\ Committed(store.user, j.action) \in BOOLEAN
    BY DEF Unchanged, Committed
  <2> QED BY <1>2, <1>3, <1>4, <2>1 DEF Classify

\* The proof after another boot reads, and closes a rename whose archive is in place.
LEMMA ProvesInv ==
    ASSUME Inv, UNCHANGED <<pc, sep, store, boot, ops, saves, crossed>>,
           NEW seen, j' = AppendPostRebootVerified(seen)
    PROVE  Inv'
<1>1. \/ j' = j
      \/ j.phase = "RECONCILED" /\ j' = [j EXCEPT !.phase = "POST_REBOOT_VERIFIED"]
  BY DEF AppendPostRebootVerified, RENAME_POST_REBOOT_VERIFIED, Rule
<1>2. CASE j' = j
  <2>1. Types' /\ StoreInv' /\ PcInv'
    BY <1>2, JournalKept
       DEF Inv, Types, StoreInv, Unfinished, BeforeCommit, AfterCommit, New, PcInv
  <2> QED BY <1>2, <2>1, JournalKept, SavedKept DEF Inv
<1>3. CASE j.phase = "RECONCILED" /\ j' = [j EXCEPT !.phase = "POST_REBOOT_VERIFIED"]
  <2>1. /\ j' \in JournalType /\ SameRename(j') /\ j'.phase = "POST_REBOOT_VERIFIED"
        /\ j'.action = j.action /\ j'.tracker = j.tracker
    BY <1>3, "POST_REBOOT_VERIFIED" \in Phases, PhaseFields DEF Inv, Types, Phases
  <2>2. store.txn = "none" /\ store.user = Staged /\ store.user \in Archive
    BY <1>3 DEF Inv, StoreInv, Types, StoreType
  <2>3. store.user.name = j.new
    BY <1>3, <2>2, RenameAssumption DEF Inv, StoreInv, Unfinished, New
  <2>4. Types' /\ JournalInv'
    BY <1>3, <2>1 DEF Inv, Types, JournalInv, SameRename
  <2>5. StoreInv'
    BY <2>1, <2>2, <2>3 DEF Inv, StoreInv, Unfinished, Recoverable, SameRename
  <2>6. pc = "idle"
    BY <1>3 DEF Inv, PcInv, Captures, Closing
  <2>7. PcInv'
    BY <2>6 DEF PcInv, Captures, Closing
  <2> QED BY <2>4, <2>5, <2>7, SavedKept DEF Inv
<1> QED BY <1>1, <1>2, <1>3

\* The reconciler that runs outside the operation lock.
LEMMA ReconcilerInv ==
    ASSUME Inv, PostRebootVerify \/ ReconcilerReads \/ ReconcilerAppends
    PROVE  Inv'
<1>1. CASE PostRebootVerify
  BY <1>1, ProvesInv DEF PostRebootVerify, world
<1>2. CASE ReconcilerReads
  BY <1>2, JournalKept, SavedKept
     DEF ReconcilerReads, Inv, Types, StoreInv, Unfinished, BeforeCommit, AfterCommit, New, PcInv
<1>3. CASE ReconcilerAppends
  <2>1. CASE j' = j
    BY <1>3, <2>1, JournalKept, SavedKept
       DEF ReconcilerAppends, Inv, Types, StoreInv, Unfinished, BeforeCommit, AfterCommit, New, PcInv
  <2>2. CASE j' = AppendPostRebootVerified(rec.material)
    BY <1>3, <2>2, ProvesInv DEF ReconcilerAppends
  <2> QED BY <1>3, <2>1, <2>2 DEF ReconcilerAppends
<1> QED BY <1>1, <1>2, <1>3

-----------------------------------------------------------------------------
(* The rest of the system. *)

LEMMA TemplateUpdatedInv == ASSUME Inv, TemplateUpdated PROVE Inv'
<1>1. /\ pc = "idle" /\ sep' = [sep EXCEPT !.gen = @ + 1, !.dirty = TRUE] /\ sep.gen < MaxGen
      /\ UNCHANGED <<store, j, pc, boot, ops, saves, crossed>>
  BY DEF TemplateUpdated
<1>2. sep' \in SepType /\ sep'.dirty
  <2>1. sep \in SepType /\ sep.gen + 1 \in 0 .. MaxGen
    BY <1>1, RenameAssumption DEF Inv, Types, SepType
  <2> QED BY <1>1, <2>1 DEF SepType
<1>3. Types' /\ SavedInv'
  BY <1>1, <1>2 DEF Inv, Types, SavedInv, SepReady
<1>4. StoreInv'
  BY <1>1, JournalKept DEF Inv, StoreInv, Unfinished, BeforeCommit, AfterCommit, New
<1>5. PcInv'
  BY <1>1 DEF PcInv, Captures, Closing
<1> QED BY <1>1, <1>3, <1>4, <1>5, JournalKept DEF Inv

LEMMA TemplateSavedInv == ASSUME Inv, TemplateSaved PROVE Inv'
<1> DEFINE user == [store.user EXCEPT !.gen = sep.gen, !.save = saves + 1]
<1>1. /\ pc = "idle" /\ ~Blocks /\ store.txn = "none" /\ saves' = saves + 1
      /\ store' = [store EXCEPT !.user = user] /\ sep' = [sep EXCEPT !.dirty = FALSE]
      /\ UNCHANGED <<j, pc, boot, ops, crossed>>
  <2>1. [store EXCEPT !.user.gen = sep.gen, !.user.save = saves + 1] = [store EXCEPT !.user = user]
    BY DEF Inv, Types, StoreType, Archive
  <2> QED BY <2>1 DEF TemplateSaved
<1>2. /\ store \in StoreType /\ store.user \in Archive /\ sep \in SepType /\ saves \in Nat
      /\ j.phase \in {"NONE", "ABORTED", "POST_REBOOT_VERIFIED"} /\ store.file = None
      /\ None \notin Archive
  BY <1>1, RenameAssumption DEF Inv, Types, StoreType, StoreInv, Blocks
<1>3. /\ user \in Archive /\ user.name = store.user.name /\ user.gen = sep.gen
      /\ user.save = saves + 1
  <2>1. saves + 1 \in Nat /\ sep.gen \in 0 .. MaxGen
    BY <1>2 DEF SepType
  <2> QED BY <1>2, <2>1 DEF Archive
<1> HIDE DEF user
<1>4. /\ store' \in StoreType /\ store'.user = user /\ store'.txn = "none" /\ store'.file = None
  BY <1>1, <1>2, <1>3 DEF StoreType
<1>5. sep' \in SepType /\ sep'.gen = sep.gen
  BY <1>1, <1>2 DEF SepType
<1>6. Types' /\ SavedInv'
  BY <1>1, <1>2, <1>3, <1>4, <1>5 DEF Inv, Types, SavedInv
<1>7. StoreInv'
  <2>1. user.save <= saves'
    BY <1>1, <1>2, <1>3
  <2> QED BY <1>1, <1>2, <1>3, <1>4, <2>1 DEF Inv, StoreInv, Unfinished, Recoverable
<1>8. PcInv'
  BY <1>1 DEF PcInv, Captures, Closing
<1> QED BY <1>1, <1>6, <1>7, <1>8, JournalKept DEF Inv

LEMMA RestoreStateInv == ASSUME Inv, RestoreState PROVE Inv'
<1>1. /\ pc = "idle" /\ store.txn = "none" /\ UNCHANGED <<store, j, pc, boot, ops, saves, crossed>>
      /\ sep' = [gen |-> store.user.gen, dirty |-> FALSE, loaded |-> TRUE]
  BY DEF RestoreState
<1>2. /\ store.user.gen \in 0 .. MaxGen /\ store.file = None /\ None \notin Archive
  BY <1>1, RenameAssumption DEF Inv, Types, StoreType, Archive, StoreInv
<1>3. Types' /\ SavedInv'
  BY <1>1, <1>2 DEF Inv, Types, SavedInv, SepType
<1>4. StoreInv'
  BY <1>1, JournalKept DEF Inv, StoreInv, Unfinished, BeforeCommit, AfterCommit, New
<1>5. PcInv'
  BY <1>1 DEF PcInv, Captures, Closing
<1> QED BY <1>1, <1>3, <1>4, <1>5, JournalKept DEF Inv

LEMMA RebootInv == ASSUME Inv, Reboot PROVE Inv'
<1>1. PICK l \in {FALSE, sep.loaded} : sep' = [sep EXCEPT !.loaded = l]
  BY DEF Reboot
<1>2. /\ pc' = "idle" /\ boot < MaxBoots /\ boot' = boot + 1
      /\ UNCHANGED <<store, j, ops, saves, crossed>>
  BY DEF Reboot
<1>3. sep' \in SepType /\ sep'.gen = sep.gen /\ sep'.dirty = sep.dirty /\ (sep'.loaded => sep.loaded)
  BY <1>1 DEF Inv, Types, SepType
<1>4. boot' \in 0 .. MaxBoots
  BY <1>2, RenameAssumption DEF Inv, Types
<1>5. Types' /\ SavedInv'
  BY <1>2, <1>3, <1>4 DEF Inv, Types, SavedInv, SepReady
<1>6. StoreInv'
  BY <1>2, JournalKept DEF Inv, StoreInv, Unfinished, BeforeCommit, AfterCommit, New
<1>7. PcInv'
  BY <1>2 DEF PcInv, Captures, Closing
<1> QED BY <1>2, <1>5, <1>6, <1>7, JournalKept DEF Inv

-----------------------------------------------------------------------------
(* The theorems. *)

LEMMA NextInv == Inv /\ [Next]_vars => Inv'
<1> SUFFICES ASSUME Inv, [Next]_vars PROVE Inv'
  OBVIOUS
<1>1. CASE \E n \in Names : RunRename(n)
  BY <1>1, RunRenameInv
<1>2. CASE RenameIntent \/ PersistPlan \/ BeginStage \/ BeginStageFails \/ PersistMilestone
  BY <1>2, RenameIntentInv, PersistPlanInv, BeginStageInv, BeginStageFailsInv, PersistMilestoneInv
<1>3. CASE CallFails \/ StageCreate \/ StageWrite \/ Cross \/ RollForward \/ CrossFails
  BY <1>3, CallFailsInv, StageCreateInv, StageWriteInv, CrossInv, RollForwardInv, CrossFailsInv
<1>4. CASE Confirm \/ ConfirmFails \/ Readback \/ Reconciled
  BY <1>4, ConfirmInv, ConfirmFailsInv, ReadbackInv, ReconciledInv
<1>5. CASE Recover \/ Resolve \/ Classify
  BY <1>5, RecoverInv, ResolveInv, ClassifyInv
<1>6. CASE PostRebootVerify \/ ReconcilerReads \/ ReconcilerAppends
  BY <1>6, ReconcilerInv
<1>7. CASE TemplateUpdated \/ TemplateSaved \/ RestoreState
  BY <1>7, TemplateUpdatedInv, TemplateSavedInv, RestoreStateInv
<1>8. CASE Crash
  BY <1>8, StopsInv DEF Crash, world
<1>9. CASE Reboot
  BY <1>9, RebootInv
<1>10. CASE UNCHANGED vars
  BY <1>10, JournalKept, SavedKept
     DEF vars, Inv, Types, StoreInv, Unfinished, BeforeCommit, AfterCommit, New, PcInv
<1> QED BY <1>1, <1>2, <1>3, <1>4, <1>5, <1>6, <1>7, <1>8, <1>9, <1>10 DEF Next

\* The archive, the transaction, the journal and the SEP keep step through every step of a
\* rename and its recovery, every failure, crash, reboot and match.
THEOREM Invariance == Spec => []Inv
BY InitInv, NextInv, PTL DEF Spec

\* What t2_identity_rename_journal reports of a rename is so: done means its label is on
\* disk, not performed means the old one is and nothing crossed the commit boundary; a
\* transaction left behind has an owner, and the SEP counts as saved what the archive holds.
THEOREM RenameAlwaysHolds == Spec => []RenameHolds
<1>1. Inv => RenameHolds
  <2> SUFFICES ASSUME Inv PROVE RenameHolds
    OBVIOUS
  <2>1. TypeOK
    BY DEF Inv, Types, TypeOK, JournalType, StoreType, SepType, TrackerType, Phases
  <2>2. RenameSound
    BY RenameAssumption DEF RenameSound, Inv, StoreInv, Unfinished, New, Types, StoreType
  <2>3. AbortSound
    BY DEF AbortSound, Inv, StoreInv
  <2>4. TransactionOwned
    <3>1. j.phase \in Phases /\ store.txn \in {"none", "prepare", "commit"}
      BY DEF Inv, Types, JournalType, StoreType
    <3> QED BY <3>1 DEF TransactionOwned, Inv, StoreInv, Unfinished, Phases, Recoverable
  <2>5. CleanMeansSaved
    BY DEF CleanMeansSaved, Inv, SavedInv
  <2> QED BY <2>1, <2>2, <2>3, <2>4, <2>5 DEF RenameHolds
<1> QED BY <1>1, Invariance, PTL

\* t2_identity_rename_recovery.classify finds exactly one outcome for an interrupted rename
\* once the SEP is clean, wherever it stopped and however often recovery stopped as well.
THEOREM InterruptedAlwaysDecided == Spec => []InterruptedIsDecided
<1>1. Inv => InterruptedIsDecided
  <2> DEFINE action == IF j.action = None THEN Observed ELSE j.action
  <2> SUFFICES ASSUME Inv, j.phase \in Recoverable, SepReady, sep.gen = j.gen, ExpectationsMet
               PROVE  /\ Observed \in {action, "no-local-transaction"}
                      /\ Unchanged(Resolved, action) # Committed(Resolved, action)
    BY DEF InterruptedIsDecided
  <2>1. /\ store.txn \in {"none", "prepare", "commit"} /\ store.user \in Archive
        /\ store.user.save \in Nat /\ Unfinished /\ None \notin Archive /\ None \notin Actions
    BY RenameAssumption DEF Inv, Types, StoreType, Archive, Unfinished
  <2>2. Staged # None => Staged # j.baseline
    <3>1. j.baseline \in Archive /\ j.baseline.save \in Nat
      BY DEF Inv, JournalInv, Recoverable, Archive
    <3> QED BY <2>1, <3>1 DEF Inv, StoreInv, New
  <2>3. CASE store.txn = "none"
    <3>1. Observed = "no-local-transaction" /\ Resolved = store.user
      BY <2>3 DEF Observed, Resolved
    <3>2. BeforeCommit \/ AfterCommit
      BY <2>1, <2>3 DEF Inv, StoreInv
    <3> QED BY <2>1, <2>2, <3>1, <3>2 DEF BeforeCommit, AfterCommit, Unchanged, Committed
  <2>4. CASE store.txn = "prepare"
    <3>1. Observed = "prepare-discarded" /\ Resolved = store.user
      BY <2>4 DEF Observed, Resolved
    <3>2. BeforeCommit /\ j.action # "no-local-transaction" /\ j.action \in Actions \cup {None}
      BY <2>1, <2>4 DEF Inv, StoreInv, Types, JournalType
    <3> QED BY <2>1, <2>2, <3>1, <3>2 DEF BeforeCommit, Unchanged, Committed, Actions
  <2>5. CASE store.txn = "commit"
    <3>1. Observed = "commit-rolled-forward" /\ Resolved = store.file
      BY <2>5 DEF Observed, Resolved
    <3>2. store.file = Staged /\ j.action \in {None, "commit-rolled-forward"}
      BY <2>1, <2>5 DEF Inv, StoreInv
    <3> QED BY <2>1, <2>2, <3>1, <3>2 DEF Unchanged, Committed
  <2> QED BY <2>1, <2>3, <2>4, <2>5
<1> QED BY <1>1, Invariance, PTL
=============================================================================
