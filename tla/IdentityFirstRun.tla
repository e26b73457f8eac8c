--------------------------- MODULE IdentityFirstRun ---------------------------
(***************************************************************************)
(* t2-native-first-run: the identity of a Linux user in the SEP, from its  *)
(* creation to an enabled mapping.  The service runs one owner after the   *)
(* other: provisioning creates the first identity and its mapping, a       *)
(* verification enables it, a replacement deletes the identity, creates    *)
(* the one whose activation secret is kept, and maps it disabled, and an   *)
(* activation proves that secret and enables the mapping.                  *)
(*                                                                         *)
(* Every owner may die at any step, the driver may be bound again and      *)
(* the machine may lose power.  A command whose reply is lost may have     *)
(* been applied, may never be, or may be applied while this boot lasts.    *)
(* The SEP runs on its own: over a host reboot it may keep or lose its     *)
(* loaded identity and its alias, or come back with an alias of another    *)
(* system.  A journal append is atomic and durable (MutationJournal).      *)
(***************************************************************************)
EXTENDS AksJournals, FiniteSets

CONSTANT MaxFailures  \* bound on failures of a behaviour

ASSUME FailuresAssumption == MaxFailures \in Nat

\* Nobody's value, phase or owner is taken for a written one.
ASSUME NoneAssumption ==
    /\ None \notin Owners \cup ProvisionPhases \cup ReplacementPhases \cup ActivationPhases
    /\ None \notin {"old", "new", "old-disabled", "new-disabled", "absent", "torn", "whole",
                     "staged", "linked", "renamed", "final", "provision", "delete", "create"}
    /\ None \notin ProvisionJournal \cup ReplacementJournal \cup ActivationJournal

VARIABLES sep,       \* loaded identity, open handle, alias, command still on its way, poisoned
          disk,      \* saved keybag, mapping, its files, and the activation bundle
          p, r, a,   \* the provisioning, replacement and activation journals
          pc,        \* where the running owner is
          sent,      \* deletes and creates dispatched on behalf of r
          failures

vars == <<sep, disk, p, r, a, pc, sent, failures>>

Mappings == {None, "old-disabled", "old", "new-disabled", "new"}
Legacy == {"old-disabled", "old"}
Published == {"new-disabled", "new"}
Enabled == {"old", "new"}

NoCalls == [delete |-> 0, create |-> 0]

Init == /\ sep = [primary |-> None, handle |-> FALSE, alias |-> "absent", late |-> None,
                  poisoned |-> FALSE]
        /\ disk = [keybag |-> FALSE, mapping |-> None, before |-> None, archive |-> None,
                   temp |-> None, enable |-> None, bundle |-> None]
        /\ p = None /\ r = None /\ a = None
        /\ pc = "idle" /\ sent = NoCalls /\ failures = 0

-----------------------------------------------------------------------------
(* Owners start on a descriptor of their own and stop by closing it. *)

\* The kernel unloads the handle of a descriptor that closes, or poisons itself.
Closed(s) == {[s EXCEPT !.handle = FALSE, !.poisoned = @ \/ bad] :
                 bad \in IF s.handle THEN BOOLEAN ELSE {FALSE}}

Stop == pc' = "idle" /\ sep' \in Closed(sep)

Opens == pc = "idle" /\ ~sep.poisoned

Fails == failures < MaxFailures /\ failures' = failures + 1

journals == <<p, r, a>>

AppendP(legal, next, to) == IF legal THEN p' = next /\ pc' = to /\ UNCHANGED sep
                                     ELSE p' = p /\ Stop
AppendR(legal, next, to) == IF legal THEN r' = next /\ pc' = to /\ UNCHANGED sep
                                     ELSE r' = r /\ Stop
AppendA(legal, next, to) == IF legal THEN a' = next /\ pc' = to /\ UNCHANGED sep
                                     ELSE a' = a /\ Stop

\* A command whose reply is lost: applied, never applied, or on its way.
Lost(command, applied) == \E s \in {applied, sep, [sep EXCEPT !.late = command]} :
                             sep' \in Closed(s)

-----------------------------------------------------------------------------
(* Provisioning: t2-native-provision, t2_aks_provisioning_operation. *)

Provision ==
    /\ Opens /\ p = None /\ disk.mapping = None /\ ~disk.keybag
    /\ sep.primary = None
    /\ p' = NewProvision /\ pc' = "p_create"
    /\ UNCHANGED <<sep, disk, r, a, sent, failures>>

ProvisionCreate ==
    /\ pc = "p_create"
    /\ sep' = [sep EXCEPT !.primary = "old", !.handle = TRUE]
    /\ pc' = "p_record"
    /\ UNCHANGED <<disk, journals, sent, failures>>

\* _freeze: an ambiguous create or export is recorded and never tried again.
ProvisionUnknown ==
    /\ pc \in {"p_create", "p_export"} /\ Fails
    /\ IF pc = "p_create" THEN Lost("provision", [sep EXCEPT !.primary = "old"])
                          ELSE sep' \in Closed(sep)
    /\ p' = IF LegalProvisionUnknown(p) THEN RecordProvision(p, "outcome-unknown") ELSE p
    /\ pc' = "idle"
    /\ UNCHANGED <<disk, r, a, sent>>

\* Where run_to_mapping goes on after each record.
AfterProvision ==
    [ph \in ProvisionPhases |->
        CASE ph = "export-intent" -> "p_export"
          [] ph = "export-succeeded" -> "p_keybag"
          [] ph = "live-uuid-verified" -> "publish"
          [] ph = "mapping-committed" -> "close"
          [] OTHER -> "p_record"]

ProvisionRecord ==
    /\ pc \in {"p_record", "p_export"}
    /\ LET next == NextProvision(p) IN p' = next /\ pc' = AfterProvision[next.phase]
    /\ UNCHANGED <<sep, disk, r, a, sent, failures>>

SaveKeybag == /\ pc = "p_keybag"
              /\ disk' = [disk EXCEPT !.keybag = TRUE]
              /\ pc' = "p_record"
              /\ UNCHANGED <<sep, journals, sent, failures>>

CloseOwner == /\ pc = "close"
              /\ Stop
              /\ UNCHANGED <<disk, journals, sent, failures>>

\* verify_after_owner_change, or verify_after_reboot once a verification is
\* recorded: the saved keybag is loaded by a fresh owner, and unloaded.
Verify ==
    /\ Opens /\ p # None
    /\ \/ /\ p.phase = "mapping-committed"
          /\ AppendP(LegalVerified(p, "AKS_RUNTIME_VERIFIED"), RecordVerified(p), "publish")
       \/ /\ p.phase = "reboot-verified" /\ ~SameBoot(p.verified)
          /\ AppendP(LegalVerified(p, "AKS_REBOOT_REVERIFIED"), RecordVerified(p), "publish")
       \/ /\ p.phase = "reboot-verified" /\ SameBoot(p.verified)
          /\ pc' = "publish" /\ UNCHANGED <<p, sep>>
    /\ UNCHANGED <<disk, r, a, sent, failures>>

-----------------------------------------------------------------------------
(* t2_user_mapping_store: the four publications of the mapping. *)

Replacing == r # None /\ r.phase \in {"bundle-committed", "mapping-committed"}
Enabling == (p # None /\ p.phase = "reboot-verified") \/ (a # None /\ a.phase = "enable-intent")

\* Mutant: a replacement publishes its mapping enabled.
TargetEnabled == IF Replacing \/ a # None THEN "new"
                 ELSE IF p.phase = "live-uuid-verified" THEN "old-disabled" ELSE "old"

Target == IF Replacing THEN "new-disabled"
          ELSE IF a # None THEN "new"
          ELSE IF p.phase = "live-uuid-verified" THEN "old-disabled" ELSE "old"

\* The mapping is already what it should be; a replacement also wants the
\* archived old mapping.
AlreadyPublished == disk.mapping = Target /\ (Replacing => disk.archive = "whole")

\* commit of ReplacementUserMappingStore archives first.
Publish ==
    /\ pc = "publish"
    /\ pc' = IF AlreadyPublished THEN "published" ELSE IF Replacing THEN "archive" ELSE "temp"
    /\ UNCHANGED <<sep, disk, journals, sent, failures>>

\* _archive: an archive that is there must be whole.
Archive ==
    /\ pc = "archive"
    /\ CASE disk.archive = None -> disk' = [disk EXCEPT !.archive = "torn"] /\ pc' = "archive_write"
         [] disk.archive = "whole" -> disk' = disk /\ pc' = "temp"
         [] disk.archive = "torn" -> disk' = disk /\ pc' = "close"
    /\ UNCHANGED <<sep, journals, sent, failures>>

ArchiveWrite == /\ pc = "archive_write"
                /\ disk' = [disk EXCEPT !.archive = "whole"]
                /\ pc' = "temp"
                /\ UNCHANGED <<sep, journals, sent, failures>>

TempFile == IF Enabling THEN disk.enable ELSE disk.temp

WithTemp(f) == IF Enabling THEN [disk EXCEPT !.enable = f] ELSE [disk EXCEPT !.temp = f]

\* The transaction file of an enable must not be there; that of a replacement
\* may be there if it is whole.
OpenTemp ==
    /\ pc = "temp"
    /\ CASE TempFile = None -> disk' = WithTemp("torn") /\ pc' = "temp_write"
         [] TempFile = "whole" /\ Replacing -> disk' = disk /\ pc' = "rename"
         [] OTHER -> disk' = disk /\ pc' = "close"
    /\ UNCHANGED <<sep, journals, sent, failures>>

WriteTemp == /\ pc = "temp_write"
             /\ disk' = WithTemp("whole")
             /\ pc' = "rename"
             /\ UNCHANGED <<sep, journals, sent, failures>>

Rename == /\ pc = "rename"
          /\ disk' = [WithTemp(None) EXCEPT !.mapping = Target,
                                            !.before = IF disk.mapping = None THEN "absent" ELSE disk.mapping]
          /\ pc' = "sync"
          /\ UNCHANGED <<sep, journals, sent, failures>>

SyncMapping == /\ pc = "sync"
               /\ disk' = [disk EXCEPT !.before = None]
               /\ pc' = "published"
               /\ UNCHANGED <<sep, journals, sent, failures>>

\* An enable or a first commit that fails takes its transaction file away; a
\* replacement leaves it, and its archive, as they are.
PublishFails ==
    /\ pc \in {"publish", "archive", "archive_write", "temp", "temp_write", "rename"} /\ Fails
    /\ disk' = IF Replacing \/ pc \notin {"temp_write", "rename"} THEN disk ELSE WithTemp(None)
    /\ Stop
    /\ UNCHANGED <<journals, sent>>

\* The record that follows a publication.
RecordPublished ==
    /\ pc = "published"
    /\ \/ /\ Replacing /\ r.phase = "bundle-committed"
          /\ AppendR(LegalReplacement(r, "MAPPING_COMMITTED"),
                     RecordReplacement(r, "MAPPING_COMMITTED"), "release")
          /\ UNCHANGED <<p, a>>
       \/ /\ Replacing /\ r.phase = "mapping-committed"
          /\ pc' = "release" /\ UNCHANGED <<sep, journals>>
       \/ /\ ~Replacing /\ a # None
          /\ AppendA(a.phase = "enable-intent", RecordActivation(a, "complete"), "close")
          /\ UNCHANGED <<p, r>>
       \/ /\ ~Replacing /\ a = None
          /\ IF p.phase = "live-uuid-verified"
             THEN AppendP(TRUE, NextProvision(p), "close")
             ELSE AppendP(LegalEnabled(p), RecordProvision(p, "mapping-enabled"), "close")
          /\ UNCHANGED <<r, a>>
    /\ UNCHANGED <<disk, sent, failures>>

-----------------------------------------------------------------------------
(* Replacement, started: t2-native-replace start. *)

Provisioned == p # None /\ p.phase = "mapping-enabled"

PrepareReplacement ==
    /\ Opens /\ Provisioned /\ disk.mapping = "old" /\ r = None /\ a = None
    /\ r' = NewReplacement(IF sep.primary = "old" THEN "replacement" ELSE "absence")
    /\ pc' = "stage" /\ sent' = NoCalls
    /\ disk' = [disk EXCEPT !.bundle = None, !.archive = None, !.temp = None]
    /\ UNCHANGED <<sep, p, a, failures>>

\* The pending directory is made and synced; its entry in the identity root
\* is not.
StageSecret == /\ pc = "stage"
               /\ disk' = [disk EXCEPT !.bundle = "staged"]
               /\ pc' = "staged"
               /\ UNCHANGED <<sep, journals, sent, failures>>

SecretStaged ==
    /\ pc = "staged"
    /\ AppendR(LegalStaged(r), RecordStaged(r),
               IF r.kind = "replacement" THEN "arm_delete" ELSE "reconcile_absence")
    /\ UNCHANGED <<disk, p, a, sent, failures>>

SecretReadable == disk.bundle \in {"staged", "linked"}

DeleteIntent ==
    /\ pc = "arm_delete"
    /\ AppendR(SecretReadable /\ LegalReplacement(r, "DELETE_INTENT"),
               RecordReplacement(r, "DELETE_INTENT"), "delete")
    /\ UNCHANGED <<disk, p, a, sent, failures>>

Deleted(s) == [s EXCEPT !.primary = IF @ = "old" THEN None ELSE @]

Delete == /\ pc = "delete"
          /\ sent' = [sent EXCEPT !.delete = @ + 1]
          /\ sep' = Deleted(sep)
          /\ pc' = "deleted"
          /\ UNCHANGED <<disk, journals, failures>>

DeleteUnknown ==
    /\ pc = "delete" /\ Fails
    /\ sent' = [sent EXCEPT !.delete = @ + 1]
    /\ Lost("delete", Deleted(sep))
    /\ r' = RecordReplacement(r, "DELETE_OUTCOME_UNKNOWN")
    /\ pc' = "idle"
    /\ UNCHANGED <<disk, p, a>>

DeleteSucceeded ==
    /\ pc = "deleted"
    /\ AppendR(LegalReplacement(r, "DELETE_SUCCEEDED"),
               RecordReplacement(r, "DELETE_SUCCEEDED"), "reconcile_delete")
    /\ UNCHANGED <<disk, p, a, sent, failures>>

-----------------------------------------------------------------------------
(* Replacement, resumed: _resume picks the operation by phase. *)

\* Mutant: a create without an outcome is not resumed.
ResumeStageNoCreate ==
    [ph \in ReplacementPhases |->
        CASE ph \in {"prepared", "activation-staged", "absence-prepared"} -> "abandon"
          [] ph = "absence-activation-staged" -> "reconcile_absence"
          [] ph \in Reconciled -> "reconfirm"
          [] ph \in DeleteAmbiguous \cup {"delete-succeeded"} -> "reconcile_delete"
          [] ph \in {"bundle-committed", "mapping-committed"} -> "publish"
          [] OTHER -> "close"]

ResumeStage ==
    [ph \in ReplacementPhases |->
        CASE ph \in {"prepared", "activation-staged", "absence-prepared"} -> "abandon"
          [] ph = "absence-activation-staged" -> "reconcile_absence"
          [] ph \in Reconciled -> "reconfirm"
          [] ph \in DeleteAmbiguous \cup {"delete-succeeded"} -> "reconcile_delete"
          [] ph \in CreateAmbiguous \cup Reopenable -> "recover"
          [] ph \in {"bundle-committed", "mapping-committed"} -> "publish"
          [] OTHER -> "close"]

\* The service resumes a replacement while the mapping is the old one, and
\* once it is the new one only when the mapping is also journaled.
ResumeReplacement ==
    /\ Opens /\ Provisioned /\ r # None
    /\ \/ disk.mapping \in Legacy /\ a = None /\ r.phase # "complete"
       \/ disk.mapping \in Published /\ r.phase = "mapping-committed"
    /\ r.phase \notin {"abandoned-before-delete", "abandoned-before-create"}
    /\ ResumeStage[r.phase] = "publish" => disk.bundle = "final"
    /\ pc' = ResumeStage[r.phase]
    /\ UNCHANGED <<sep, disk, journals, sent, failures>>

\* _archive_abandoned_journal: the next run starts over.
ArchiveAbandoned ==
    /\ pc = "idle" /\ r # None
    /\ r.phase \in {"abandoned-before-delete", "abandoned-before-create"}
    /\ r' = None
    /\ UNCHANGED <<sep, disk, p, a, pc, sent, failures>>

\* abandon_before_delete, abandon_before_create
Abandon ==
    /\ pc = "abandon"
    /\ LET how == IF r.phase = "absence-prepared" THEN "abandoned-before-create"
                  ELSE "abandoned-before-delete"
           intact == sep.primary = IF how = "abandoned-before-create" THEN None ELSE "old"
       IN  AppendR(intact /\ LegalAbandoned(r, how), RecordPhase(r, how), "close")
    /\ UNCHANGED <<disk, p, a, sent, failures>>

ReconcileAbsence ==
    /\ pc = "reconcile_absence"
    /\ AppendR(sep.primary = None /\ LegalAbsenceReconciled(r),
               RecordProof(r, "absence-reconciled"), "create")
    /\ UNCHANGED <<disk, p, a, sent, failures>>

ReconcileDelete ==
    /\ pc = "reconcile_delete"
    /\ IF sep.primary = None
       THEN AppendR(LegalDeleteReconciled(r), RecordProof(r, "delete-reconciled"), "create")
       ELSE AppendR(sep.primary = "old" /\ LegalNotApplied(r, "delete-not-applied"),
                    RecordProof(r, "delete-not-applied"), "close")
    /\ UNCHANGED <<disk, p, a, sent, failures>>

\* reconfirm_absence, reconfirm_delete
Reconfirm ==
    /\ pc = "reconfirm"
    /\ AppendR(sep.primary = None /\ LegalReconfirmed(r), RecordProof(r, r.phase), "create")
    /\ UNCHANGED <<disk, p, a, sent, failures>>

CreateIntent ==
    /\ pc = "create"
    /\ AppendR(sep.primary = None /\ SecretReadable /\ LegalCreateIntent(r),
               RecordPhase(r, "create-intent"), "create_dispatch")
    /\ UNCHANGED <<disk, p, a, sent, failures>>

Created(s) == [s EXCEPT !.primary = IF @ = None THEN "new" ELSE @]

Create == /\ pc = "create_dispatch"
          /\ sent' = [sent EXCEPT !.create = @ + 1]
          /\ sep' = [Created(sep) EXCEPT !.handle = TRUE]
          /\ pc' = "created"
          /\ UNCHANGED <<disk, journals, failures>>

CreateUnknown ==
    /\ pc = "create_dispatch" /\ Fails
    /\ sent' = [sent EXCEPT !.create = @ + 1]
    /\ Lost("create", Created(sep))
    /\ r' = RecordReplacement(r, "CREATE_OUTCOME_UNKNOWN")
    /\ pc' = "idle"
    /\ UNCHANGED <<disk, p, a>>

CreateSucceeded ==
    /\ pc = "created"
    /\ AppendR(LegalReplacement(r, "CREATE_SUCCEEDED"),
               RecordReplacement(r, "CREATE_SUCCEEDED"), "export")
    /\ UNCHANGED <<disk, p, a, sent, failures>>

\* Mutant: a create that left nothing behind is sent again.
RecoverRedispatches ==
    /\ pc = "recover"
    /\ IF sep.primary = None
       THEN pc' = "create_dispatch" /\ r' = RecordPhase(r, "create-intent") /\ sep' = sep
       ELSE AppendR(LegalIdentityLive(r), RecordProof(r, "identity-live"), "export")
    /\ UNCHANGED <<disk, p, a, sent, failures>>

\* recover_create_or_export: the intended identity is opened, never created.
Recover ==
    /\ pc = "recover"
    /\ IF sep.primary = None
       THEN AppendR(LegalNotApplied(r, "create-not-applied"),
                    RecordProof(r, "create-not-applied"), "close")
       ELSE IF sep.primary = "new" /\ LegalIdentityLive(r)
       THEN r' = RecordProof(r, "identity-live") /\ pc' = "export"
            /\ sep' = [sep EXCEPT !.handle = TRUE]
       ELSE r' = r /\ Stop
    /\ UNCHANGED <<disk, p, a, sent, failures>>

-----------------------------------------------------------------------------
(* _export_commit_and_release, and the end of resume_local_commit. *)

\* Records of the export, and where it goes on after each.
ExportSteps == [export      |-> [m |-> "EXPORT_INTENT", to |-> "exporting"],
                exporting   |-> [m |-> "EXPORT_SUCCEEDED", to |-> "verify_uuid"],
                verify_uuid |-> [m |-> "LIVE_UUID_VERIFIED", to |-> "bundle"],
                committed   |-> [m |-> "BUNDLE_COMMITTED", to |-> "publish"]]

Export ==
    /\ pc \in DOMAIN ExportSteps
    /\ LET step == ExportSteps[pc]
       IN  AppendR(LegalReplacement(r, step.m), RecordReplacement(r, step.m), step.to)
    /\ UNCHANGED <<disk, p, a, sent, failures>>

ExportUnknown ==
    /\ pc = "exporting" /\ Fails
    /\ r' = RecordReplacement(r, "EXPORT_OUTCOME_UNKNOWN")
    /\ Stop
    /\ UNCHANGED <<disk, p, a, sent>>

\* commit of ActivationBundleStore: the pending directory, completed or
\* repaired, is renamed and the identity root is synced.
RenameBundle ==
    /\ pc = "bundle"
    /\ CASE SecretReadable -> disk' = [disk EXCEPT !.bundle = "renamed"] /\ pc' = "bundle_sync"
         [] disk.bundle = "final" -> disk' = disk /\ pc' = "committed"
         [] OTHER -> disk' = disk /\ pc' = "close"
    /\ UNCHANGED <<sep, journals, sent, failures>>

\* Mutant: the bundle is reported published before the root is synced.
SyncBundleNever == /\ pc = "bundle_sync"
                   /\ pc' = "committed"
                   /\ UNCHANGED <<sep, disk, journals, sent, failures>>

SyncBundle == /\ pc = "bundle_sync"
              /\ disk' = [disk EXCEPT !.bundle = "final"]
              /\ pc' = "committed"
              /\ UNCHANGED <<sep, journals, sent, failures>>

\* The owner that holds the handle unloads it; a resumed one has to find the
\* SEP without handles on a fresh boot, whether or not it kept the identity.
Release ==
    /\ pc = "release"
    /\ IF sep.handle
       THEN r' = RecordReplacement(r, "HANDLE_UNLOADED") /\ pc' = "idle"
            /\ sep' = [sep EXCEPT !.handle = FALSE]
       ELSE AppendR(sep.primary # "old" /\ LegalHandleReconciled(r),
                    RecordProof(r, "complete"), "close")
    /\ UNCHANGED <<disk, p, a, sent, failures>>

-----------------------------------------------------------------------------
(* Activation: t2-native-replace-activate. *)

Completed == r # None /\ r.phase = "complete" /\ disk.bundle = "final"

StartActivation ==
    /\ Opens /\ Completed /\ a = None /\ disk.mapping = "new-disabled"
    /\ sep.alias \in {"absent", "locked"}
    /\ a' = NewActivation /\ pc' = "attempt"
    /\ UNCHANGED <<sep, disk, p, r, sent, failures>>

\* reconcile.  The mapping is still the disabled one unless an enable began.
ResumeActivation ==
    /\ Opens /\ Completed /\ a # None /\ a.phase \notin {"complete", "quarantined"}
    /\ a.phase = "enable-intent" \/ disk.mapping = "new-disabled"
    /\ pc' = CASE a.phase \in {"independent-ready", "enable-intent"} -> "enable"
               [] a.phase = "baseline" -> "attempt"
               [] OTHER -> "observe"
    /\ UNCHANGED <<sep, disk, journals, sent, failures>>

Observe ==
    /\ pc = "observe"
    /\ CASE sep.alias = "ready" ->
              AppendA(LegalReady(a, "different-boot-recovery"),
                      RecordActivation(a, "independent-ready"), "enable")
         [] sep.alias = "foreign" ->
              AppendA(LegalQuarantined(a), RecordActivation(a, "quarantined"), "close")
         [] OTHER -> AppendA(LegalRetry(a, r.init, r.recon), RecordRetry(a), "attempt")
    /\ UNCHANGED <<disk, p, r, sent, failures>>

StartAttempt ==
    /\ pc = "attempt"
    /\ AppendA(LegalAttempt(a), RecordAttempt(a), "attempting")
    /\ UNCHANGED <<disk, p, r, sent, failures>>

\* What the SEP does between a record and the next.
Effect(phase) == CASE phase = "load-intent" -> [sep EXCEPT !.handle = TRUE]
                   [] phase = "bind-intent" -> [sep EXCEPT !.alias = "locked"]
                   [] phase = "unlock-intent" -> [sep EXCEPT !.alias = "ready"]
                   [] phase = "unload-intent" -> [sep EXCEPT !.handle = FALSE]
                   [] OTHER -> sep

\* One command and its record, or one intent.
AttemptStep ==
    /\ pc = "attempting"
    /\ sep' = Effect(a.phase)
    /\ a' = NextAttempt(a)
    /\ pc' = IF a'.phase = "unloaded" THEN "independent" ELSE "attempting"
    /\ UNCHANGED <<disk, p, r, sent, failures>>

\* A command fails, applied or not: _record_interruption.
AttemptFails ==
    /\ pc = "attempting" /\ Fails
    /\ \E s \in {sep, Effect(a.phase)} : sep' \in Closed(s)
    /\ a' = IF LegalInterrupted(a) THEN RecordActivation(a, "interrupted") ELSE a
    /\ pc' = "idle"
    /\ UNCHANGED <<disk, p, r, sent>>

\* Another owner has to find the alias ready.
IndependentReady ==
    /\ pc = "independent"
    /\ AppendA(sep.alias = "ready" /\ LegalReady(a, "fresh-owner"),
               RecordActivation(a, "independent-ready"), "enable")
    /\ UNCHANGED <<disk, p, r, sent, failures>>

EnableIntent ==
    /\ pc = "enable"
    /\ IF a.phase = "enable-intent" THEN UNCHANGED <<a, sep>> /\ pc' = "publish"
       ELSE AppendA(a.phase = "independent-ready", RecordActivation(a, "enable-intent"), "publish")
    /\ UNCHANGED <<disk, p, r, sent, failures>>

-----------------------------------------------------------------------------
(* Failures, and the machine. *)

\* The transport fails, or the owner is killed, between two steps.
OwnerDies == /\ pc # "idle" /\ Fails
             /\ Stop
             /\ UNCHANGED <<disk, journals, sent>>

\* A command whose reply was lost takes effect.
LateEffect ==
    /\ sep.late # None
    /\ sep' = [CASE sep.late = "delete" -> Deleted(sep)
                 [] sep.late = "create" -> Created(sep)
                 [] OTHER -> [sep EXCEPT !.primary = "old"] EXCEPT !.late = None]
    /\ UNCHANGED <<disk, journals, pc, sent, failures>>

\* How owners look after a reboot and after the driver was bound again.
Aged == [o \in {None, "now", "boot", "past"} |-> IF o = None THEN None ELSE "past"]
Moved == [o \in {None, "now", "boot", "past"} |-> IF o = "now" THEN "boot" ELSE o]

AllOwned(f) ==
    /\ p' = IF p = None THEN None ELSE [p EXCEPT !.created = f[@], !.verified = f[@]]
    /\ r' = IF r = None THEN None ELSE [r EXCEPT !.init = f[@], !.recon = f[@]]
    /\ a' = IF a = None THEN None ELSE [a EXCEPT !.base = f[@], !.tried = f[@], !.retry = f[@]]

\* The driver is unbound from the device and bound again.
ReloadModule == /\ pc = "idle"
                /\ AllOwned(Moved)
                /\ sep' = [sep EXCEPT !.poisoned = FALSE]
                /\ UNCHANGED <<disk, pc, sent, failures>>

\* What the SEP may come back with.
NextBoot == [primary : {sep.primary, None}, handle : {FALSE}, late : {None}, poisoned : {FALSE},
             alias : {sep.alias, "absent", "foreign"} \cup
                     (IF sep.alias = "ready" THEN {"locked"} ELSE {})]

Linked(d) == [d EXCEPT !.before = None,
                       !.bundle = CASE @ = "staged" -> "linked" [] @ = "renamed" -> "final" [] OTHER -> @]

Reboot == /\ pc = "idle"
          /\ AllOwned(Aged)
          /\ sep' \in NextBoot
          /\ disk' = Linked(disk)
          /\ UNCHANGED <<pc, sent, failures>>

\* Directory entries that nobody synced may be lost.
Unlinked(d) ==
    {Linked(d)} \cup
    (IF d.before # None
     THEN {Linked([d EXCEPT !.mapping = IF d.before = "absent" THEN None ELSE d.before,
                            !.temp = IF d.mapping \in Enabled THEN @ ELSE "whole",
                            !.enable = IF d.mapping \in Enabled THEN "whole" ELSE @])} ELSE {}) \cup
    (IF d.bundle = "staged" THEN {Linked([d EXCEPT !.bundle = None])} ELSE {}) \cup
    (IF d.bundle = "renamed" THEN {Linked([d EXCEPT !.bundle = "linked"])} ELSE {})

PowerLoss == /\ Fails
             /\ pc' = "idle"
             /\ AllOwned(Aged)
             /\ sep' \in NextBoot
             /\ disk' \in Unlinked(disk)
             /\ UNCHANGED sent

-----------------------------------------------------------------------------
Owner == \/ Provision \/ ProvisionCreate \/ ProvisionRecord \/ SaveKeybag \/ Verify \/ CloseOwner
         \/ Publish \/ Archive \/ ArchiveWrite \/ OpenTemp \/ WriteTemp \/ Rename \/ SyncMapping
         \/ RecordPublished
         \/ PrepareReplacement \/ StageSecret \/ SecretStaged \/ DeleteIntent \/ Delete
         \/ DeleteSucceeded \/ ResumeReplacement \/ ArchiveAbandoned \/ Abandon
         \/ ReconcileAbsence \/ ReconcileDelete \/ Reconfirm \/ CreateIntent \/ Create
         \/ CreateSucceeded \/ Recover \/ Export \/ RenameBundle \/ SyncBundle \/ Release
         \/ StartActivation \/ ResumeActivation \/ Observe \/ StartAttempt \/ AttemptStep
         \/ IndependentReady \/ EnableIntent

OwnerFailure == \/ ProvisionUnknown \/ PublishFails \/ DeleteUnknown \/ CreateUnknown
                \/ ExportUnknown \/ AttemptFails \/ OwnerDies

Next == Owner \/ OwnerFailure \/ LateEffect \/ ReloadModule \/ Reboot \/ PowerLoss

Spec == Init /\ [][Next]_vars

-----------------------------------------------------------------------------
(* Properties. *)

SepStates == [primary : {None, "old", "new"}, handle : BOOLEAN,
              alias : {"absent", "locked", "ready", "foreign"},
              late : {None, "provision", "delete", "create"}, poisoned : BOOLEAN]

DiskStates == [keybag : BOOLEAN, mapping : Mappings, before : Mappings \cup {"absent"},
               archive : {None, "torn", "whole"}, temp : {None, "torn", "whole"},
               enable : {None, "torn", "whole"},
               bundle : {None, "staged", "linked", "renamed", "final"}]

\* Every variable keeps its type.
TypeOK ==
    /\ sep \in SepStates /\ disk \in DiskStates
    /\ p \in ProvisionJournal \cup {None}
    /\ r \in ReplacementJournal \cup {None}
    /\ a \in ActivationJournal \cup {None}
    /\ sent \in [delete : Nat, create : Nat] /\ failures \in 0 .. MaxFailures

R(phases) == r # None /\ r.phase \in phases

AfterCreate == Reopenable \cup {"bundle-committed", "mapping-committed", "complete"}

\* What a reconciliation writes about an ambiguous command stays true: the
\* command cannot take effect once the journal says it did not, the old
\* identity is gone for good once the journal says so, and a replacement that
\* was abandoned never touched it (reconcile_delete,
\* recover_create_or_export, abandon_before_delete).
VerdictsHold ==
    /\ R({"delete-not-applied", "abandoned-before-delete"}) =>
          sep.late = None /\ sep.primary # "new"
    /\ R({"create-not-applied", "abandoned-before-create"}) =>
          sep.late = None /\ sep.primary = None
    /\ R(Reconciled) => sep.late = None /\ sep.primary = None
    /\ R(CreateAmbiguous \cup AfterCreate) => sep.late # "delete" /\ sep.primary # "old"

\* A mapping to the new identity is never there without what it stands on,
\* whatever is lost at a power loss: the whole archive of the mapping it
\* replaced and the synced bundle with the activation secret (commit of
\* ReplacementUserMappingStore and of ActivationBundleStore).
NewMappingIsBacked ==
    /\ disk.mapping \in Published => disk.archive = "whole" /\ disk.bundle = "final"
    /\ disk.mapping # None => disk.keybag

\* The delete and the create of a replacement are each sent once, however
\* often it is interrupted and resumed.
OneDispatch == sent.delete <= 1 /\ sent.create <= 1

\* A mapping to the new identity is enabled only after a ready alias was seen
\* by an owner other than the one that unlocked it, or on a later boot.
EnableIsEarned ==
    disk.mapping = "new" => /\ R({"complete"})
                            /\ a # None /\ a.phase \in {"enable-intent", "complete"}

\* A command whose outcome is unknown is settled one way or the other by a
\* later boot.
AmbiguitySettles ==
    R(DeleteAmbiguous \cup CreateAmbiguous) ~> ~R(DeleteAmbiguous \cup CreateAmbiguous)

\* A replacement whose mapping is recorded completes
\* (resume_local_commit: "Converge idempotent mapping publication and
\* fresh-boot handle absence").
MappedReplacementCompletes == R({"mapping-committed"}) ~> R({"complete"})

\* What the journals say of the identity commands is so in the SEP, and each
\* command was sent once.
IdentityHolds == TypeOK /\ VerdictsHold /\ OneDispatch

\* A mapping names an identity whose secret is kept, and enables it only once
\* another owner has seen it.
MappingHolds == NewMappingIsBacked /\ EnableIsEarned

\* The setup gets on: an ambiguous command is decided, and a recorded mapping
\* is completed.
SetupSettles == AmbiguitySettles /\ MappedReplacementCompletes
=============================================================================
