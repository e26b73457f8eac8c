----------------------------- MODULE AksJournals -----------------------------
(***************************************************************************)
(* validate_history of the three journals of the first run: provisioning   *)
(* (t2_aks_provisioning), replacement (t2_aks_replacement_journal) and     *)
(* activation (t2_aks_replacement_activation_journal).                     *)
(*                                                                         *)
(* A record names the boot and the kernel connection it was written on.    *)
(* Both are random and never repeat, so all that a later record can ask is *)
(* whether they are still the current ones: an owner is "now" (same boot   *)
(* and connection), "boot" (same boot, the kernel module was reloaded) or  *)
(* "past".                                                                 *)
(***************************************************************************)
EXTENDS Naturals, Sequences, SequencesExt

CONSTANT None  \* a journal or a field nobody has written

Owners == {"now", "boot", "past"}
SameOwner(o) == o = "now"
SameBoot(o) == o \in {"now", "boot"}
FreshOwner(o) == o = "past"

-----------------------------------------------------------------------------
(* Provisioning: created is the boot of AKS_CREATE_INTENT, verified that   *)
(* of the last verification of the reloaded keybag.                        *)

ProvisionOrder == <<"create-intent", "create-succeeded", "export-intent", "export-succeeded",
                    "keybag-committed", "live-uuid-verified", "mapping-committed">>

ProvisionPhases == Range(ProvisionOrder) \cup {"reboot-verified", "mapping-enabled", "outcome-unknown"}

ProvisionJournal == [phase : ProvisionPhases, created : Owners, verified : Owners \cup {None}]

NewProvision == [phase |-> "create-intent", created |-> "now", verified |-> None]

NextProvision(p) ==
    LET i == CHOOSE i \in DOMAIN ProvisionOrder : ProvisionOrder[i] = p.phase
    IN  [p EXCEPT !.phase = ProvisionOrder[i + 1]]

LegalProvisionUnknown(p) == p.phase \in {"create-intent", "export-intent"}

\* AKS_RUNTIME_VERIFIED, AKS_REBOOT_VERIFIED, AKS_REBOOT_REVERIFIED
LegalVerified(p, m) ==
    CASE m = "AKS_RUNTIME_VERIFIED" -> p.phase = "mapping-committed"
      [] m = "AKS_REBOOT_VERIFIED" -> p.phase = "mapping-committed" /\ ~SameBoot(p.created)
      [] m = "AKS_REBOOT_REVERIFIED" -> /\ p.phase = "reboot-verified"
                                        /\ ~SameBoot(p.created) /\ ~SameBoot(p.verified)

\* Mutant: the kind of the verification becomes the phase.
RecordVerifiedAsKind(p) == [p EXCEPT !.phase = "runtime-verified", !.verified = "now"]

RecordVerified(p) == [p EXCEPT !.phase = "reboot-verified", !.verified = "now"]

LegalEnabled(p) == p.phase = "reboot-verified" /\ SameBoot(p.verified)

RecordProvision(p, phase) == [p EXCEPT !.phase = phase]

-----------------------------------------------------------------------------
(* Replacement: init and recon are the owners that prepared it and that    *)
(* last proved what the SEP holds.                                         *)

NewReplacement(kind) ==
    [phase |-> IF kind = "replacement" THEN "prepared" ELSE "absence-prepared",
     kind |-> kind, init |-> "now", recon |-> None]

DeleteAmbiguous == {"delete-intent", "delete-outcome-unknown"}
CreateAmbiguous == {"create-intent", "create-outcome-unknown"}
Reconciled == {"delete-reconciled", "absence-reconciled"}
Reopenable == {"identity-live", "export-intent", "export-outcome-unknown", "export-succeeded",
               "live-uuid-verified"}

\* Records that only ask for a phase, and the phase each leads to.
DeleteRecords ==
    [DELETE_INTENT          |-> [from |-> "activation-staged", to |-> "delete-intent"],
     DELETE_OUTCOME_UNKNOWN |-> [from |-> "delete-intent", to |-> "delete-outcome-unknown"],
     DELETE_SUCCEEDED       |-> [from |-> "delete-intent", to |-> "delete-succeeded"]]

CreateRecords ==
    [CREATE_SUCCEEDED       |-> [from |-> "create-intent", to |-> "identity-live"],
     CREATE_OUTCOME_UNKNOWN |-> [from |-> "create-intent", to |-> "create-outcome-unknown"]]

ExportRecords ==
    [EXPORT_INTENT          |-> [from |-> "identity-live", to |-> "export-intent"],
     EXPORT_SUCCEEDED       |-> [from |-> "export-intent", to |-> "export-succeeded"],
     EXPORT_OUTCOME_UNKNOWN |-> [from |-> "export-intent", to |-> "export-outcome-unknown"],
     LIVE_UUID_VERIFIED     |-> [from |-> "export-succeeded", to |-> "live-uuid-verified"],
     BUNDLE_COMMITTED       |-> [from |-> "live-uuid-verified", to |-> "bundle-committed"],
     MAPPING_COMMITTED      |-> [from |-> "bundle-committed", to |-> "mapping-committed"]]

HandleRecords ==
    [HANDLE_UNLOADED        |-> [from |-> "mapping-committed", to |-> "complete"]]

ReplacementAfter ==
    [m \in DOMAIN DeleteRecords \cup DOMAIN CreateRecords \cup DOMAIN ExportRecords \cup DOMAIN HandleRecords |->
        IF m \in DOMAIN DeleteRecords THEN DeleteRecords[m]
        ELSE IF m \in DOMAIN CreateRecords THEN CreateRecords[m]
        ELSE IF m \in DOMAIN ExportRecords THEN ExportRecords[m] ELSE HandleRecords[m]]

LegalReplacement(r, m) == r.phase = ReplacementAfter[m].from

RecordReplacement(r, m) == [r EXCEPT !.phase = ReplacementAfter[m].to]

LegalStaged(r) == r.phase \in {"prepared", "absence-prepared"}

RecordStaged(r) == [r EXCEPT !.phase = IF r.phase = "prepared" THEN "activation-staged"
                                       ELSE "absence-activation-staged"]

LegalAbandoned(r, how) == /\ FreshOwner(r.init)
                          /\ \/ how = "abandoned-before-delete"
                                /\ r.phase \in {"prepared", "activation-staged"}
                             \/ how = "abandoned-before-create" /\ r.phase = "absence-prepared"

LegalAbsenceReconciled(r) == /\ r.phase = "absence-activation-staged"
                             /\ SameOwner(r.init) \/ FreshOwner(r.init)

\* An ambiguous deletion is judged only by a fresh owner.
LegalDeleteReconciled(r) == \/ r.phase = "delete-succeeded"
                            \/ r.phase \in DeleteAmbiguous /\ FreshOwner(r.init)

LegalReconfirmed(r) == r.phase \in Reconciled /\ FreshOwner(r.recon)

\* Mutant: any owner may find that the deletion was not applied.
LegalNotAppliedAnyOwner(r, how) ==
    \/ how = "delete-not-applied" /\ r.phase \in DeleteAmbiguous
    \/ how = "create-not-applied" /\ r.phase \in CreateAmbiguous

LegalNotApplied(r, how) ==
    \/ how = "delete-not-applied" /\ r.phase \in DeleteAmbiguous /\ FreshOwner(r.init)
    \/ how = "create-not-applied" /\ r.phase \in CreateAmbiguous /\ FreshOwner(r.recon)

LegalCreateIntent(r) == r.phase \in Reconciled /\ SameOwner(r.recon)

\* IDENTITY_RECOVERED, IDENTITY_REOPENED
LegalIdentityLive(r) == r.phase \in CreateAmbiguous \cup Reopenable /\ FreshOwner(r.recon)

\* Mutant: only the owner that last proved the SEP may see the handle gone.
LegalHandleReconciledSameOwner(r) == r.phase = "mapping-committed" /\ SameOwner(r.recon)

\* HANDLE_RECONCILED_ABSENT, HANDLE_RECONCILED_PRIMARY_ABSENT
LegalHandleReconciled(r) == r.phase = "mapping-committed" /\ FreshOwner(r.recon)

RecordPhase(r, phase) == [r EXCEPT !.phase = phase]
RecordProof(r, phase) == [r EXCEPT !.phase = phase, !.recon = "now"]

ReplacementPhases ==
    {ReplacementAfter[m].to : m \in DOMAIN ReplacementAfter} \cup Reconciled \cup
    {"prepared", "absence-prepared", "activation-staged", "absence-activation-staged",
     "abandoned-before-delete", "abandoned-before-create", "delete-not-applied",
     "create-intent", "create-not-applied"}

ReplacementJournal ==
    [phase : ReplacementPhases, kind : {"replacement", "absence"}, init : Owners,
     recon : Owners \cup {None}]

-----------------------------------------------------------------------------
(* Activation: base is the boot of the baseline, tried the latest boot of  *)
(* an attempt and retry the owner a retry was authorized for.              *)

AttemptOrder ==
    <<"attempt-started", "load-intent", "loaded", "bind-intent", "bound",
      "configuration-intent", "configuration-resolved", "authorization-intent",
      "authorized", "unlock-intent", "unlocked", "unload-intent", "unloaded">>

AttemptPhases == Range(AttemptOrder) \ {"unloaded"}
Recoverable == Range(AttemptOrder) \cup {"interrupted"}

ActivationPhases == Recoverable \cup {"baseline", "retry-authorized", "independent-ready",
                                      "enable-intent", "complete", "quarantined"}

ActivationJournal ==
    [phase : ActivationPhases, base : Owners, tried : Owners \cup {None}, retry : Owners \cup {None}]

NewActivation == [phase |-> "baseline", base |-> "now", tried |-> None, retry |-> None]

TriedThisBoot(a) == SameBoot(a.tried)

LegalAttempt(a) == /\ ~TriedThisBoot(a)
                   /\ \/ a.phase = "baseline" /\ SameBoot(a.base)
                      \/ a.phase = "retry-authorized" /\ SameOwner(a.retry)

RecordAttempt(a) == [a EXCEPT !.phase = "attempt-started", !.tried = "now", !.retry = None]

NextAttempt(a) ==
    LET i == CHOOSE i \in DOMAIN AttemptOrder : AttemptOrder[i] = a.phase
    IN  [a EXCEPT !.phase = AttemptOrder[i + 1]]

LegalInterrupted(a) == a.phase \in AttemptPhases

\* rInit and rFinal are the owners of the replacement.
LegalRetry(a, rInit, rFinal) == /\ a.phase \in Recoverable
                                /\ ~TriedThisBoot(a)
                                /\ ~SameBoot(rInit) /\ ~SameBoot(rFinal)

RecordRetry(a) == [a EXCEPT !.phase = "retry-authorized", !.retry = "now"]

LegalReady(a, source) == \/ source = "fresh-owner" /\ a.phase = "unloaded" /\ TriedThisBoot(a)
                         \/ /\ source = "different-boot-recovery"
                            /\ a.phase \in Recoverable /\ ~TriedThisBoot(a)

LegalQuarantined(a) == a.phase \in Recoverable /\ ~TriedThisBoot(a)

RecordActivation(a, phase) == [a EXCEPT !.phase = phase]
=============================================================================
