------------------------ MODULE UserActivationProofs ------------------------
(***************************************************************************)
(* Proofs about IdentityFirstRun and UserActivation: what the journals say *)
(* of the identity commands is so in the SEP, each command is sent once,   *)
(* and a mapping is never there, or enabled, without what it stands on,    *)
(* for any number of failures and of activations.                          *)
(***************************************************************************)
EXTENDS UserActivation, TLAPS

-----------------------------------------------------------------------------
(* The inductive invariant. *)

P(phases) == p # None /\ p.phase \in phases
A(phases) == a # None /\ a.phase \in phases

\* The first identity is mapped and enabled before it is replaced, and replaced before it is
\* activated.
OrderInv == /\ r # None => P({"mapping-enabled"})
            /\ a # None => R({"complete"})

BeforeCreate == {"prepared", "absence-prepared", "activation-staged", "absence-activation-staged",
                 "delete-intent", "delete-outcome-unknown", "delete-succeeded"} \cup Reconciled

\* A command that is still on its way belongs to an outcome that is still unknown, and to this
\* boot; the identity in the SEP is one whose command was sent.
SepInv ==
    /\ sep.late = "provision" => P({"outcome-unknown"})
    /\ sep.late = "delete" => R({"delete-outcome-unknown"}) /\ r.init # "past"
    /\ sep.late = "create" => R({"create-outcome-unknown"}) /\ r.recon # "past"
    /\ sep.primary = "new" => R(CreateAmbiguous \cup AfterCreate)
    /\ sep.primary = "old" => r = None \/ R(DeleteAmbiguous \cup {"prepared", "absence-prepared", "activation-staged",
          "absence-activation-staged", "delete-succeeded", "delete-not-applied", "abandoned-before-delete"})
    /\ pc = "create_dispatch" => sep.primary = None

\* Nothing was sent before its intent.
SentInv ==
    /\ sent.delete <= 1 /\ sent.create <= 1
    /\ R({"prepared", "activation-staged"}) \/ pc = "delete" => sent.delete = 0
    /\ R(BeforeCreate) \/ pc = "create_dispatch" => sent.create = 0

Publishing == {"publish", "archive", "archive_write", "temp", "temp_write", "rename", "sync", "published"}

\* Where an owner can be, by the phase of the journal it goes on with.
PlaceInv ==
    /\ pc = "p_create" => P({"create-intent"})
    /\ pc = "p_record" => P({"create-intent", "create-succeeded", "export-succeeded", "keybag-committed"})
    /\ pc = "p_record" /\ P({"export-succeeded"}) => disk.keybag
    /\ pc = "p_export" => P({"export-intent"})
    /\ pc = "p_keybag" => P({"export-succeeded"})
    /\ pc \in {"stage", "staged"} => R({"prepared", "absence-prepared"})
    /\ pc = "delete" => R({"delete-intent"})
    /\ pc = "create_dispatch" => R({"create-intent"}) /\ r.recon = "now"
    /\ pc \in {"stage", "staged", "arm_delete", "delete"} => r # None /\ r.init = "now"
    /\ pc = "exporting" => R({"export-intent"})
    /\ pc = "release" => R({"mapping-committed"})
    /\ pc \in {"deleted", "abandon", "reconcile_absence", "reconcile_delete", "reconfirm",
               "create", "created", "recover", "export", "verify_uuid", "bundle", "bundle_sync",
               "committed"} => r # None
    /\ pc \in {"attempt", "observe", "independent", "enable"} => a # None
    /\ pc = "attempting" => A(AttemptPhases)
    /\ pc \in {"archive", "archive_write"} => Replacing
    /\ pc \in Publishing => \/ Replacing \/ A({"enable-intent"})
                            \/ r = None /\ P({"live-uuid-verified", "reboot-verified"})

\* What is on disk was there before what names it.
DiskInv ==
    /\ P({"keybag-committed", "live-uuid-verified", "mapping-committed", "reboot-verified", "mapping-enabled"})
          => disk.keybag
    /\ R({"bundle-committed", "mapping-committed", "complete"}) \/ pc = "committed" => disk.bundle = "final"
    /\ \/ Replacing /\ pc \in {"temp", "temp_write", "rename", "sync", "published"}
       \/ R({"mapping-committed", "complete"})
       => disk.archive = "whole"
    /\ \A m \in {disk.mapping, disk.before} :
          /\ m \in Published => /\ disk.archive = "whole"
                                /\ R({"bundle-committed", "mapping-committed", "complete"})
          /\ m = "new" => R({"complete"}) /\ A({"enable-intent", "complete"})
          /\ m # None => disk.keybag
    /\ disk.before \in Published => disk.mapping \in Published

\* An idle device has no open handle; a journal that released its bag has none either, and under
\* a retained identity the alias was still ready.
UserInv ==
    /\ u \in UserJournal \cup {None}
    /\ pc = "idle" => ~sep.handle
    /\ pc = "user" => u # None /\ how \in {"run", "retain"}
    /\ pc = "user" /\ u.phase = "handle-released" => ~sep.handle /\ (how = "retain" => sep.alias = "ready")
    /\ u # None /\ u.phase \in Running \cup {"baseline"} => u.from = None

Inv == TypeOK /\ OrderInv /\ SepInv /\ SentInv /\ PlaceInv /\ DiskInv

-----------------------------------------------------------------------------
(* The tables of the journals, spelled out. *)

LEMMA ReplacementTable ==
    /\ ReplacementAfter["DELETE_INTENT"] = [from |-> "activation-staged", to |-> "delete-intent"]
    /\ ReplacementAfter["DELETE_OUTCOME_UNKNOWN"] = [from |-> "delete-intent", to |-> "delete-outcome-unknown"]
    /\ ReplacementAfter["DELETE_SUCCEEDED"] = [from |-> "delete-intent", to |-> "delete-succeeded"]
    /\ ReplacementAfter["CREATE_SUCCEEDED"] = [from |-> "create-intent", to |-> "identity-live"]
    /\ ReplacementAfter["CREATE_OUTCOME_UNKNOWN"] = [from |-> "create-intent", to |-> "create-outcome-unknown"]
    /\ ReplacementAfter["EXPORT_INTENT"] = [from |-> "identity-live", to |-> "export-intent"]
    /\ ReplacementAfter["EXPORT_SUCCEEDED"] = [from |-> "export-intent", to |-> "export-succeeded"]
    /\ ReplacementAfter["EXPORT_OUTCOME_UNKNOWN"] = [from |-> "export-intent", to |-> "export-outcome-unknown"]
    /\ ReplacementAfter["LIVE_UUID_VERIFIED"] = [from |-> "export-succeeded", to |-> "live-uuid-verified"]
    /\ ReplacementAfter["BUNDLE_COMMITTED"] = [from |-> "live-uuid-verified", to |-> "bundle-committed"]
    /\ ReplacementAfter["MAPPING_COMMITTED"] = [from |-> "bundle-committed", to |-> "mapping-committed"]
    /\ ReplacementAfter["HANDLE_UNLOADED"] = [from |-> "mapping-committed", to |-> "complete"]
BY DEF ReplacementAfter, DeleteRecords, CreateRecords, ExportRecords, HandleRecords

LEMMA ReplacementPhaseSet ==
    ReplacementPhases =
        {"prepared", "absence-prepared", "activation-staged", "absence-activation-staged",
         "abandoned-before-delete", "abandoned-before-create", "delete-not-applied",
         "delete-intent", "delete-outcome-unknown", "delete-succeeded", "delete-reconciled",
         "absence-reconciled", "create-intent", "create-outcome-unknown", "create-not-applied",
         "identity-live", "export-intent", "export-outcome-unknown", "export-succeeded",
         "live-uuid-verified", "bundle-committed", "mapping-committed", "complete"}
<1>1. DOMAIN ReplacementAfter =
        {"DELETE_INTENT", "DELETE_OUTCOME_UNKNOWN", "DELETE_SUCCEEDED", "CREATE_SUCCEEDED",
         "CREATE_OUTCOME_UNKNOWN", "EXPORT_INTENT", "EXPORT_SUCCEEDED", "EXPORT_OUTCOME_UNKNOWN",
         "LIVE_UUID_VERIFIED", "BUNDLE_COMMITTED", "MAPPING_COMMITTED", "HANDLE_UNLOADED"}
  BY DEF ReplacementAfter, DeleteRecords, CreateRecords, ExportRecords, HandleRecords
<1> QED BY <1>1, ReplacementTable DEF ReplacementPhases, Reconciled

LEMMA ProvisionPhaseSet ==
    ProvisionPhases = {"create-intent", "create-succeeded", "export-intent", "export-succeeded",
                       "keybag-committed", "live-uuid-verified", "mapping-committed",
                       "reboot-verified", "mapping-enabled", "outcome-unknown"}
BY DEF ProvisionPhases, ProvisionOrder, Range

LEMMA AttemptPhaseSets ==
    /\ AttemptPhases = {"attempt-started", "load-intent", "loaded", "bind-intent", "bound",
                        "configuration-intent", "configuration-resolved", "authorization-intent",
                        "authorized", "unlock-intent", "unlocked", "unload-intent"}
    /\ Recoverable = AttemptPhases \cup {"unloaded", "interrupted"}
    /\ ActivationPhases = Recoverable \cup {"baseline", "retry-authorized", "independent-ready",
                                            "enable-intent", "complete", "quarantined"}
BY DEF AttemptPhases, Recoverable, ActivationPhases, AttemptOrder, Range

LEMMA NoneIsApart ==
    /\ None \notin {"now", "boot", "past"}
    /\ None \notin {"old", "new", "old-disabled", "new-disabled", "absent", "torn", "whole",
                    "staged", "linked", "renamed", "final", "provision", "delete", "create"}
    /\ None \notin ProvisionJournal /\ None \notin ReplacementJournal /\ None \notin ActivationJournal
BY NoneAssumption DEF Owners

\* The next record of a provisioning that is on its way.
LEMMA ProvisionStep ==
    ASSUME NEW q \in ProvisionJournal,
           q.phase \in {"create-intent", "create-succeeded", "export-intent", "export-succeeded",
                        "keybag-committed", "live-uuid-verified"}
    PROVE  /\ NextProvision(q) \in ProvisionJournal
           /\ NextProvision(q).phase =
                IF q.phase = "create-intent" THEN "create-succeeded"
                ELSE IF q.phase = "create-succeeded" THEN "export-intent"
                ELSE IF q.phase = "export-intent" THEN "export-succeeded"
                ELSE IF q.phase = "export-succeeded" THEN "keybag-committed"
                ELSE IF q.phase = "keybag-committed" THEN "live-uuid-verified"
                ELSE "mapping-committed"
BY ProvisionPhaseSet DEF NextProvision, ProvisionOrder, ProvisionJournal

\* The next record of an attempt stays in its order, and the last one is the unload.
LEMMA AttemptStepPhase ==
    ASSUME NEW q \in ActivationJournal, q.phase \in AttemptPhases
    PROVE  /\ NextAttempt(q) \in ActivationJournal
           /\ NextAttempt(q).phase \in AttemptPhases \cup {"unloaded"}
BY AttemptPhaseSets DEF NextAttempt, AttemptOrder, ActivationJournal

-----------------------------------------------------------------------------
(* What a record of a journal changes. *)

\* Records of the replacement that name their phase.
LEMMA ReplacementRecords ==
    ASSUME NEW q \in ReplacementJournal, NEW ph \in ReplacementPhases
    PROVE  /\ RecordPhase(q, ph) \in ReplacementJournal /\ RecordProof(q, ph) \in ReplacementJournal
           /\ RecordPhase(q, ph).phase = ph /\ RecordProof(q, ph).phase = ph
           /\ RecordPhase(q, ph).init = q.init /\ RecordProof(q, ph).init = q.init
           /\ RecordPhase(q, ph).recon = q.recon /\ RecordProof(q, ph).recon = "now"
BY DEF RecordPhase, RecordProof, ReplacementJournal, Owners

\* Records of the replacement that the table lists.
LEMMA ReplacementRecordsListed ==
    ASSUME NEW q \in ReplacementJournal,
           NEW m \in {"DELETE_INTENT", "DELETE_OUTCOME_UNKNOWN", "DELETE_SUCCEEDED", "CREATE_SUCCEEDED",
                      "CREATE_OUTCOME_UNKNOWN", "EXPORT_INTENT", "EXPORT_SUCCEEDED",
                      "EXPORT_OUTCOME_UNKNOWN", "LIVE_UUID_VERIFIED", "BUNDLE_COMMITTED",
                      "MAPPING_COMMITTED", "HANDLE_UNLOADED"}
    PROVE  /\ RecordReplacement(q, m) \in ReplacementJournal
           /\ RecordReplacement(q, m).phase = ReplacementAfter[m].to
           /\ RecordReplacement(q, m).init = q.init
           /\ RecordReplacement(q, m).recon = q.recon
<1>1. ReplacementAfter[m].to \in ReplacementPhases
  BY ReplacementTable, ReplacementPhaseSet
<1> QED BY <1>1 DEF RecordReplacement, ReplacementJournal

LEMMA ReplacementBegun ==
    ASSUME NEW kind \in {"replacement", "absence"}
    PROVE  /\ NewReplacement(kind) \in ReplacementJournal
           /\ NewReplacement(kind).phase \in {"prepared", "absence-prepared"}
           /\ NewReplacement(kind).init = "now"
           /\ NewReplacement(kind).phase = "prepared" <=> kind = "replacement"
BY ReplacementPhaseSet DEF NewReplacement, ReplacementJournal, Owners

LEMMA ReplacementStaged ==
    ASSUME NEW q \in ReplacementJournal, q.phase \in {"prepared", "absence-prepared"}
    PROVE  /\ RecordStaged(q) \in ReplacementJournal
           /\ RecordStaged(q).init = q.init
           /\ RecordStaged(q).phase = IF q.phase = "prepared" THEN "activation-staged"
                                      ELSE "absence-activation-staged"
BY ReplacementPhaseSet DEF RecordStaged, ReplacementJournal

LEMMA ProvisionRecords ==
    ASSUME NEW q \in ProvisionJournal
    PROVE  /\ \A ph \in ProvisionPhases : /\ RecordProvision(q, ph) \in ProvisionJournal
                                          /\ RecordProvision(q, ph).phase = ph
           /\ RecordVerified(q) \in ProvisionJournal /\ RecordVerified(q).phase = "reboot-verified"
           /\ NewProvision \in ProvisionJournal /\ NewProvision.phase = "create-intent"
BY ProvisionPhaseSet DEF RecordProvision, RecordVerified, NewProvision, ProvisionJournal, Owners

LEMMA ActivationRecords ==
    ASSUME NEW q \in ActivationJournal
    PROVE  /\ \A ph \in ActivationPhases : /\ RecordActivation(q, ph) \in ActivationJournal
                                           /\ RecordActivation(q, ph).phase = ph
           /\ RecordAttempt(q) \in ActivationJournal /\ RecordAttempt(q).phase = "attempt-started"
           /\ RecordRetry(q) \in ActivationJournal /\ RecordRetry(q).phase = "retry-authorized"
BY AttemptPhaseSets DEF RecordActivation, RecordAttempt, RecordRetry, ActivationJournal, Owners

LEMMA ActivationBegun == NewActivation \in ActivationJournal /\ NewActivation.phase = "baseline"
BY AttemptPhaseSets DEF NewActivation, ActivationJournal, Owners

\* A reboot and a new binding change only the owners.
LEMMA JournalsAge ==
    ASSUME TypeOK, AllOwned(Aged) \/ AllOwned(Moved)
    PROVE  /\ p' \in ProvisionJournal \cup {None} /\ r' \in ReplacementJournal \cup {None}
           /\ a' \in ActivationJournal \cup {None}
           /\ (p' = None <=> p = None) /\ (r' = None <=> r = None) /\ (a' = None <=> a = None)
           /\ p # None => p'.phase = p.phase
           /\ r # None => /\ r'.phase = r.phase
                          /\ AllOwned(Moved) /\ r.init # "past" => r'.init # "past"
                          /\ AllOwned(Moved) /\ r.recon # "past" => r'.recon # "past"
           /\ a # None => a'.phase = a.phase
<1>1. CASE AllOwned(Aged)
  <2>1. p' \in ProvisionJournal \cup {None} /\ (p' = None <=> p = None) /\ (p # None => p'.phase = p.phase)
    BY <1>1, NoneIsApart DEF TypeOK, AllOwned, Aged, ProvisionJournal, Owners
  <2>2. /\ r' \in ReplacementJournal \cup {None} /\ (r' = None <=> r = None)
        /\ r # None => r'.phase = r.phase
    BY ZenonT(60), <1>1, NoneIsApart DEF TypeOK, AllOwned, Aged, ReplacementJournal, Owners
  <2>3. a' \in ActivationJournal \cup {None} /\ (a' = None <=> a = None) /\ (a # None => a'.phase = a.phase)
    BY <1>1, NoneIsApart, ZenonT(60) DEF TypeOK, AllOwned, Aged, ActivationJournal, Owners
  <2>4. r # None => /\ AllOwned(Moved) /\ r.init # "past" => r'.init # "past"
                    /\ AllOwned(Moved) /\ r.recon # "past" => r'.recon # "past"
    BY NoneIsApart DEF TypeOK, AllOwned, Moved, ReplacementJournal, Owners
  <2> QED BY <2>1, <2>2, <2>3, <2>4
<1>2. CASE AllOwned(Moved)
  <2>1. p' \in ProvisionJournal \cup {None} /\ (p' = None <=> p = None) /\ (p # None => p'.phase = p.phase)
    BY <1>2, NoneIsApart DEF TypeOK, AllOwned, Moved, ProvisionJournal, Owners
  <2>2. /\ r' \in ReplacementJournal \cup {None} /\ (r' = None <=> r = None)
        /\ r # None => /\ r'.phase = r.phase
                       /\ r.init # "past" => r'.init # "past"
                       /\ r.recon # "past" => r'.recon # "past"
    BY <1>2, NoneIsApart DEF TypeOK, AllOwned, Moved, ReplacementJournal, Owners
  <2>3. a' \in ActivationJournal \cup {None} /\ (a' = None <=> a = None) /\ (a # None => a'.phase = a.phase)
    BY <1>2, NoneIsApart, ZenonT(60) DEF TypeOK, AllOwned, Moved, ActivationJournal, Owners
  <2> QED BY <2>1, <2>2, <2>3
<1> QED BY <1>1, <1>2

-----------------------------------------------------------------------------
(* An owner that stops, and the machine. *)

LEMMA ClosedKeeps ==
    ASSUME NEW s \in SepStates, NEW t \in Closed(s)
    PROVE  /\ t \in SepStates
           /\ t.primary = s.primary /\ t.alias = s.alias /\ t.late = s.late
BY DEF Closed, SepStates

\* Whoever stops leaves what the invariant speaks of as it was.
LEMMA StopKeeps ==
    ASSUME Inv, Stop, UNCHANGED <<disk, p, r, a, sent>>, failures' \in 0 .. MaxFailures
    PROVE  Inv'
<1>1. sep' \in SepStates /\ sep'.primary = sep.primary /\ sep'.late = sep.late
  BY ClosedKeeps DEF Stop, Inv, TypeOK
<1>2. pc' = "idle"
  BY DEF Stop
<1>3. TypeOK'
  BY <1>1 DEF Inv, TypeOK
<1>4. OrderInv' /\ SentInv'
  BY <1>2 DEF Inv, OrderInv, SentInv, R, P
<1>5. SepInv'
  BY <1>1, <1>2 DEF Inv, SepInv, R, P
<1>6. PlaceInv'
  BY <1>2 DEF PlaceInv, Publishing
<1>7. DiskInv'
  BY <1>2 DEF Inv, DiskInv, R, P, A, Replacing
<1> QED BY <1>3, <1>4, <1>5, <1>6, <1>7 DEF Inv

LEMMA ProvisionBegun == NewProvision \in ProvisionJournal /\ NewProvision.phase = "create-intent"
BY ProvisionPhaseSet DEF NewProvision, ProvisionJournal, Owners

LEMMA StopFacts ==
    ASSUME TypeOK, Stop
    PROVE  /\ pc' = "idle" /\ sep' \in SepStates
           /\ sep'.primary = sep.primary /\ sep'.late = sep.late
BY ClosedKeeps DEF Stop, TypeOK

\* What the SEP may come back with after a reboot.
LEMMA NextBootFacts ==
    ASSUME TypeOK, NEW s \in NextBoot
    PROVE  s \in SepStates /\ s.late = None /\ s.primary \in {sep.primary, None}
BY DEF TypeOK, NextBoot, SepStates

LEMMA LinkedFacts ==
    ASSUME NEW d \in DiskStates
    PROVE  /\ Linked(d) \in DiskStates
           /\ Linked(d).mapping = d.mapping /\ Linked(d).before = None
           /\ Linked(d).archive = d.archive /\ Linked(d).keybag = d.keybag
           /\ d.bundle = "final" => Linked(d).bundle = "final"
BY NoneIsApart DEF Linked, DiskStates, Mappings

\* What a power loss leaves of the disk.
LEMMA UnlinkedFacts ==
    ASSUME TypeOK, NEW e \in Unlinked(disk)
    PROVE  /\ e \in DiskStates
           /\ \/ e.mapping = disk.mapping
              \/ disk.before = "absent" /\ e.mapping = None
              \/ disk.before \in Mappings \ {None} /\ e.mapping = disk.before
           /\ e.before = None /\ e.archive = disk.archive /\ e.keybag = disk.keybag
           /\ disk.bundle = "final" => e.bundle = "final"
<1> DEFINE m == IF disk.before = "absent" THEN None ELSE disk.before
           d == [disk EXCEPT !.mapping = m,
                             !.temp = IF disk.mapping \in Enabled THEN @ ELSE "whole",
                             !.enable = IF disk.mapping \in Enabled THEN "whole" ELSE @]
<1>1. CASE e = Linked(disk)
  BY <1>1, LinkedFacts DEF TypeOK
<1>2. CASE disk.before # None /\ e = Linked(d)
  <2>1. m \in Mappings /\ disk.before \in Mappings \cup {"absent"}
    BY DEF TypeOK, DiskStates, Mappings
  <2>2. /\ d \in DiskStates /\ d.mapping = m
        /\ d.archive = disk.archive /\ d.keybag = disk.keybag /\ d.bundle = disk.bundle
    BY <2>1 DEF TypeOK, DiskStates
  <2> HIDE DEF d
  <2> QED BY <1>2, <2>1, <2>2, LinkedFacts
<1>3. CASE disk.bundle = "staged" /\ e = Linked([disk EXCEPT !.bundle = None])
  <2> DEFINE b == [disk EXCEPT !.bundle = None]
  <2>1. /\ b \in DiskStates /\ b.mapping = disk.mapping
        /\ b.archive = disk.archive /\ b.keybag = disk.keybag
    BY DEF TypeOK, DiskStates
  <2> HIDE DEF b
  <2> QED BY <1>3, <2>1, LinkedFacts DEF b
<1>4. CASE disk.bundle = "renamed" /\ e = Linked([disk EXCEPT !.bundle = "linked"])
  <2> DEFINE b == [disk EXCEPT !.bundle = "linked"]
  <2>1. /\ b \in DiskStates /\ b.mapping = disk.mapping
        /\ b.archive = disk.archive /\ b.keybag = disk.keybag
    BY DEF TypeOK, DiskStates
  <2> HIDE DEF b
  <2> QED BY <1>4, <2>1, LinkedFacts DEF b
<1> QED BY <1>1, <1>2, <1>3, <1>4 DEF Unlinked

\* Where a replacement is resumed.
LEMMA ResumeStages ==
    ASSUME NEW ph \in ReplacementPhases
    PROVE  \/ ResumeStage[ph] \in {"abandon", "reconcile_absence", "reconfirm", "reconcile_delete",
                                   "recover", "close"}
           \/ ph \in {"bundle-committed", "mapping-committed"} /\ ResumeStage[ph] = "publish"
BY ReplacementPhaseSet DEF ResumeStage, Reconciled, DeleteAmbiguous, CreateAmbiguous, Reopenable

LEMMA ProvisionKeeps ==
    ASSUME Inv, Provision
    PROVE  Inv'
<1>1. TypeOK'
  BY ProvisionBegun DEF Provision, Opens, Inv, TypeOK
<1>2. OrderInv'
  BY ProvisionBegun DEF Provision, Opens, Inv, OrderInv, P, R
<1>3. SepInv'
  BY ProvisionBegun DEF Provision, Opens, Inv, SepInv, P, R
<1>4. SentInv'
  BY ProvisionBegun DEF Provision, Opens, Inv, SentInv, R
<1>5. PlaceInv'
  BY NoneIsApart, AttemptPhaseSets, ProvisionBegun DEF Provision, Opens, Inv, PlaceInv, P,
     Publishing
<1>6. DiskInv'
  BY ProvisionBegun DEF Provision, Opens, Inv, DiskInv, P, A, R
<1> QED BY <1>1, <1>2, <1>3, <1>4, <1>5, <1>6 DEF Inv

LEMMA ProvisionCreateKeeps ==
    ASSUME Inv, ProvisionCreate
    PROVE  Inv'
<1>1. TypeOK'
  BY DEF ProvisionCreate, journals, Inv, TypeOK, SepStates
<1>2. OrderInv'
  BY DEF ProvisionCreate, journals, Inv, OrderInv, P, R, SepStates
<1>3. SepInv'
  BY NoneIsApart, AttemptPhaseSets DEF ProvisionCreate, journals, Inv, OrderInv, SepInv, PlaceInv,
     P, R, SepStates
<1>4. SentInv'
  BY DEF ProvisionCreate, journals, Inv, SentInv, R, SepStates
<1>5. PlaceInv'
  BY DEF ProvisionCreate, journals, Inv, PlaceInv, P, Publishing, SepStates
<1>6. DiskInv'
  BY DEF ProvisionCreate, journals, Inv, DiskInv, P, A, R, SepStates
<1> QED BY <1>1, <1>2, <1>3, <1>4, <1>5, <1>6 DEF Inv

LEMMA ProvisionRecordKeeps ==
    ASSUME Inv, ProvisionRecord
    PROVE  Inv'
<1>0. /\ p \in ProvisionJournal /\ p' \in ProvisionJournal
      /\ \/ p.phase = "create-intent" /\ p'.phase = "create-succeeded" /\ pc' = "p_record"
         \/ p.phase = "create-succeeded" /\ p'.phase = "export-intent" /\ pc' = "p_export"
         \/ p.phase = "export-intent" /\ p'.phase = "export-succeeded" /\ pc' = "p_keybag"
         \/ p.phase = "export-succeeded" /\ p'.phase = "keybag-committed" /\ pc' = "p_record"
         \/ p.phase = "keybag-committed" /\ p'.phase = "live-uuid-verified" /\ pc' = "publish"
  <2>1. p \in ProvisionJournal /\ p.phase \in {"create-intent", "create-succeeded", "export-intent",
                                               "export-succeeded", "keybag-committed"}
    BY NoneIsApart DEF Inv, TypeOK, PlaceInv, P, ProvisionRecord
  <2>2. p' = NextProvision(p) /\ pc' = AfterProvision[NextProvision(p).phase]
    BY DEF ProvisionRecord
  <2>3. /\ AfterProvision["create-succeeded"] = "p_record" /\ AfterProvision["export-intent"] = "p_export"
        /\ AfterProvision["export-succeeded"] = "p_keybag" /\ AfterProvision["keybag-committed"] = "p_record"
        /\ AfterProvision["live-uuid-verified"] = "publish"
    BY ProvisionPhaseSet DEF AfterProvision
  <2> QED BY <2>1, <2>2, <2>3, ProvisionStep
<1>1. TypeOK'
  BY <1>0 DEF ProvisionRecord, Inv, TypeOK
<1>2. OrderInv'
  BY <1>0 DEF ProvisionRecord, Inv, OrderInv, P, R
<1>3. SepInv'
  BY <1>0 DEF ProvisionRecord, Inv, SepInv, P, R
<1>4. SentInv'
  BY <1>0 DEF ProvisionRecord, Inv, SentInv, R
<1>5. PlaceInv'
  BY <1>0, NoneIsApart, AttemptPhaseSets DEF ProvisionRecord, Inv, OrderInv, PlaceInv, P,
     Publishing
<1>6. DiskInv'
  BY <1>0, NoneIsApart, AttemptPhaseSets DEF ProvisionRecord, Inv, PlaceInv, DiskInv, P, A, R
<1> QED BY <1>1, <1>2, <1>3, <1>4, <1>5, <1>6 DEF Inv

LEMMA SaveKeybagKeeps ==
    ASSUME Inv, SaveKeybag
    PROVE  Inv'
<1>1. TypeOK'
  BY DEF SaveKeybag, journals, Inv, TypeOK, DiskStates
<1>2. OrderInv'
  BY DEF SaveKeybag, journals, Inv, OrderInv, P, R, DiskStates
<1>3. SepInv'
  BY DEF SaveKeybag, journals, Inv, SepInv, P, R, DiskStates
<1>4. SentInv'
  BY DEF SaveKeybag, journals, Inv, SentInv, R, DiskStates
<1>5. PlaceInv'
  BY DEF SaveKeybag, journals, Inv, PlaceInv, P, Publishing, DiskStates
<1>6. DiskInv'
  BY DEF SaveKeybag, journals, Inv, DiskInv, A, R, DiskStates
<1> QED BY <1>1, <1>2, <1>3, <1>4, <1>5, <1>6 DEF Inv

LEMMA VerifyKeeps ==
    ASSUME Inv, Verify
    PROVE  Inv'
<1> SUFFICES ASSUME ~(Stop /\ UNCHANGED <<disk, p, r, a, sent>>) PROVE Inv'
  BY StopKeeps DEF Inv, TypeOK, Verify, AppendP
<1>1. TypeOK'
  BY ProvisionRecords DEF Verify, Opens, AppendP, LegalVerified, SameBoot, Inv, TypeOK
<1>2. OrderInv'
  BY ProvisionRecords DEF Verify, Opens, AppendP, LegalVerified, SameBoot, Inv, OrderInv, P, R
<1>3. SepInv'
  BY ProvisionRecords DEF Verify, Opens, AppendP, LegalVerified, SameBoot, Inv, SepInv, P, R
<1>4. SentInv'
  BY ProvisionRecords DEF Verify, Opens, AppendP, LegalVerified, SameBoot, Inv, SentInv, R
<1>5. PlaceInv'
  BY NoneIsApart, ProvisionRecords, AttemptPhaseSets DEF Verify, Opens, AppendP, LegalVerified,
     SameBoot, Inv, TypeOK, OrderInv, PlaceInv, P
<1>6. DiskInv'
  BY ProvisionRecords DEF Verify, Opens, AppendP, LegalVerified, SameBoot, Inv, DiskInv, P, A, R
<1> QED BY <1>1, <1>2, <1>3, <1>4, <1>5, <1>6 DEF Inv

LEMMA PublishKeeps ==
    ASSUME Inv, Publish
    PROVE  Inv'
<1>1. TypeOK'
  BY DEF Publish, AlreadyPublished, Target, journals, Inv, TypeOK
<1>2. OrderInv'
  BY DEF Publish, AlreadyPublished, Target, journals, Inv, OrderInv, P, R
<1>3. SepInv'
  BY DEF Publish, AlreadyPublished, Target, journals, Inv, SepInv, P, R
<1>4. SentInv'
  BY DEF Publish, AlreadyPublished, Target, journals, Inv, SentInv, R
<1>5. PlaceInv'
  BY DEF Publish, AlreadyPublished, Target, Replacing, journals, Inv, PlaceInv, P, A, Publishing
<1>6. DiskInv'
  BY DEF Publish, AlreadyPublished, Target, Replacing, journals, Inv, DiskInv, P, A, R
<1> QED BY <1>1, <1>2, <1>3, <1>4, <1>5, <1>6 DEF Inv

LEMMA ArchiveKeeps ==
    ASSUME Inv, Archive
    PROVE  Inv'
<1>0. \/ disk.archive = None /\ disk' = [disk EXCEPT !.archive = "torn"] /\ pc' = "archive_write"
      \/ disk.archive = "whole" /\ disk' = disk /\ pc' = "temp"
      \/ disk.archive = "torn" /\ disk' = disk /\ pc' = "close"
  BY NoneIsApart DEF Archive, Inv, TypeOK, DiskStates
<1>1. TypeOK'
  BY <1>0 DEF Archive, journals, Inv, TypeOK, DiskStates
<1>2. OrderInv'
  BY <1>0 DEF Archive, journals, Inv, OrderInv, P, R, DiskStates
<1>3. SepInv'
  BY <1>0 DEF Archive, journals, Inv, SepInv, P, R, DiskStates
<1>4. SentInv'
  BY <1>0 DEF Archive, journals, Inv, SentInv, R, DiskStates
<1>5. PlaceInv'
  BY <1>0 DEF Archive, journals, Inv, PlaceInv, Replacing, DiskStates
<1>6. DiskInv'
  BY <1>0, NoneIsApart, AttemptPhaseSets DEF Archive, journals, Inv, TypeOK, DiskInv, P, A, R,
     DiskStates
<1> QED BY <1>1, <1>2, <1>3, <1>4, <1>5, <1>6 DEF Inv

LEMMA ArchiveWriteKeeps ==
    ASSUME Inv, ArchiveWrite
    PROVE  Inv'
<1>1. TypeOK'
  BY DEF ArchiveWrite, journals, Inv, TypeOK, DiskStates
<1>2. OrderInv'
  BY DEF ArchiveWrite, journals, Inv, OrderInv, P, R, DiskStates
<1>3. SepInv'
  BY DEF ArchiveWrite, journals, Inv, SepInv, P, R, DiskStates
<1>4. SentInv'
  BY DEF ArchiveWrite, journals, Inv, SentInv, R, DiskStates
<1>5. PlaceInv'
  BY DEF ArchiveWrite, journals, Inv, PlaceInv, Replacing, DiskStates
<1>6. DiskInv'
  BY DEF ArchiveWrite, journals, Inv, DiskInv, P, A, R, DiskStates
<1> QED BY <1>1, <1>2, <1>3, <1>4, <1>5, <1>6 DEF Inv

LEMMA OpenTempKeeps ==
    ASSUME Inv, OpenTemp
    PROVE  Inv'
<1>1. TypeOK'
  BY DEF OpenTemp, TempFile, Enabling, WithTemp, journals, Inv, TypeOK, DiskStates
<1>2. OrderInv'
  BY DEF OpenTemp, TempFile, Enabling, WithTemp, journals, Inv, OrderInv, P, R, DiskStates
<1>3. SepInv'
  BY DEF OpenTemp, TempFile, Enabling, WithTemp, journals, Inv, SepInv, P, R, DiskStates
<1>4. SentInv'
  BY DEF OpenTemp, TempFile, Enabling, WithTemp, journals, Inv, SentInv, R, DiskStates
<1>5. PlaceInv'
  BY DEF OpenTemp, TempFile, Enabling, WithTemp, Replacing, journals, Inv, PlaceInv, P, A,
     Publishing, DiskStates
<1>6. DiskInv'
  BY DEF OpenTemp, TempFile, Enabling, WithTemp, Replacing, journals, Inv, TypeOK, DiskInv, P, A,
     R, DiskStates
<1> QED BY <1>1, <1>2, <1>3, <1>4, <1>5, <1>6 DEF Inv

LEMMA WriteTempKeeps ==
    ASSUME Inv, WriteTemp
    PROVE  Inv'
<1>1. TypeOK'
  BY DEF WriteTemp, WithTemp, Enabling, journals, Inv, TypeOK, DiskStates
<1>2. OrderInv'
  BY DEF WriteTemp, WithTemp, Enabling, journals, Inv, OrderInv, P, R, DiskStates
<1>3. SepInv'
  BY DEF WriteTemp, WithTemp, Enabling, journals, Inv, SepInv, P, R, DiskStates
<1>4. SentInv'
  BY DEF WriteTemp, WithTemp, Enabling, journals, Inv, SentInv, R, DiskStates
<1>5. PlaceInv'
  BY DEF WriteTemp, WithTemp, Enabling, journals, Inv, PlaceInv, P, A, Publishing, Replacing,
     DiskStates
<1>6. DiskInv'
  BY DEF WriteTemp, WithTemp, Enabling, journals, Inv, DiskInv, P, A, R, Replacing, DiskStates
<1> QED BY <1>1, <1>2, <1>3, <1>4, <1>5, <1>6 DEF Inv

LEMMA RenameKeeps ==
    ASSUME Inv, Rename
    PROVE  Inv'
<1>1. TypeOK'
  <2> DEFINE d == WithTemp(None)
  <2>1. d \in DiskStates
    BY DEF WithTemp, Inv, TypeOK, DiskStates
  <2>2. Target \in Mappings /\ disk.mapping \in Mappings
    BY DEF Target, Mappings, Inv, TypeOK, DiskStates
  <2> HIDE DEF d
  <2>3. disk' = [d EXCEPT !.mapping = Target, !.before = IF disk.mapping = None THEN "absent" ELSE disk.mapping]
    BY DEF Rename, d
  <2>4. disk' \in DiskStates
    BY <2>1, <2>2, <2>3 DEF DiskStates
  <2> QED BY <2>4 DEF Inv, TypeOK, Rename, journals
<1>2. OrderInv'
  BY DEF Rename, WithTemp, Enabling, Target, journals, Inv, OrderInv, P, R, DiskStates
<1>3. SepInv'
  BY DEF Rename, WithTemp, Enabling, Target, journals, Inv, SepInv, P, R, DiskStates
<1>4. SentInv'
  BY DEF Rename, WithTemp, Enabling, Target, journals, Inv, SentInv, R, DiskStates
<1>5. PlaceInv'
  BY DEF Rename, WithTemp, Enabling, Target, Replacing, journals, Inv, PlaceInv, P, A, Publishing,
     DiskStates
<1>6. DiskInv'
  <2>1. /\ disk'.mapping = Target
        /\ disk'.before = IF disk.mapping = None THEN "absent" ELSE disk.mapping
        /\ disk'.archive = disk.archive /\ disk'.keybag = disk.keybag /\ disk'.bundle = disk.bundle
    <3> DEFINE d == WithTemp(None)
    <3>1. /\ d \in DiskStates
          /\ d.archive = disk.archive /\ d.keybag = disk.keybag /\ d.bundle = disk.bundle
      BY DEF WithTemp, Inv, TypeOK, DiskStates
    <3> HIDE DEF d
    <3>2. disk' = [d EXCEPT !.mapping = Target, !.before = IF disk.mapping = None THEN "absent" ELSE disk.mapping]
      BY DEF Rename, d
    <3> QED BY <3>1, <3>2 DEF DiskStates
  <2>2. \/ Replacing /\ Target = "new-disabled"
        \/ ~Replacing /\ A({"enable-intent"}) /\ Target = "new"
        \/ ~Replacing /\ r = None /\ a = None /\ P({"live-uuid-verified", "reboot-verified"})
              /\ Target \in {"old-disabled", "old"}
    BY DEF Rename, Target, Inv, PlaceInv, OrderInv, Publishing, A, R
  <2>3. r # None => R({"complete", "bundle-committed", "mapping-committed"}) /\ disk.keybag
    BY <2>2 DEF Replacing, Inv, OrderInv, DiskInv, A, R, P
  <2>4. UNCHANGED <<p, r, a>> /\ pc = "rename" /\ pc' = "sync"
    BY DEF Rename, journals
  <2>5. /\ disk.keybag
        /\ Target \in Published => /\ disk.archive = "whole"
                                   /\ R({"bundle-committed", "mapping-committed", "complete"})
        /\ Target = "new" => R({"complete"}) /\ A({"enable-intent", "complete"})
    BY <2>2, <2>3, <2>4 DEF Inv, DiskInv, OrderInv, Replacing, Published, P, A, R
  <2>6. Target \notin Published => disk.mapping \notin Published
    BY <2>2, <2>3 DEF Inv, DiskInv, Published, R
  <2> QED BY <2>1, <2>4, <2>5, <2>6, NoneIsApart DEF Inv, DiskInv, Replacing, Published, P, A, R
<1> QED BY <1>1, <1>2, <1>3, <1>4, <1>5, <1>6 DEF Inv

LEMMA SyncMappingKeeps ==
    ASSUME Inv, SyncMapping
    PROVE  Inv'
<1>1. TypeOK'
  BY NoneIsApart, AttemptPhaseSets DEF SyncMapping, journals, Inv, TypeOK, OrderInv, SepInv,
     SentInv, PlaceInv, DiskInv, P, A, R, BeforeCreate, Publishing, AfterCreate, Reconciled,
     DeleteAmbiguous, CreateAmbiguous, Reopenable, Mappings, Published, Replacing, DiskStates
<1>2. OrderInv'
  BY DEF SyncMapping, journals, Inv, OrderInv, P, R, DiskStates
<1>3. SepInv'
  BY DEF SyncMapping, journals, Inv, SepInv, P, R, DiskStates
<1>4. SentInv'
  BY DEF SyncMapping, journals, Inv, SentInv, R, DiskStates
<1>5. PlaceInv'
  BY DEF SyncMapping, journals, Inv, PlaceInv, P, A, Publishing, Replacing, DiskStates
<1>6. DiskInv'
  BY NoneIsApart, AttemptPhaseSets DEF SyncMapping, journals, Inv, DiskInv, P, A, R, Published,
     Replacing, DiskStates
<1> QED BY <1>1, <1>2, <1>3, <1>4, <1>5, <1>6 DEF Inv

LEMMA RecordPublishedKeeps ==
    ASSUME Inv, RecordPublished
    PROVE  Inv'
<1> SUFFICES ASSUME ~(Stop /\ UNCHANGED <<disk, p, r, a, sent>>) PROVE Inv'
  BY StopKeeps DEF Inv, TypeOK, RecordPublished, AppendR, journals, AppendA, AppendP
<1>1. TypeOK'
  BY NoneIsApart, ReplacementRecordsListed, ProvisionRecords, ActivationRecords, ReplacementTable,
     ProvisionStep, ProvisionPhaseSet, AttemptPhaseSets DEF RecordPublished, Replacing, AppendR,
     LegalReplacement, journals, AppendA, AppendP, LegalEnabled, SameBoot, Inv, TypeOK, PlaceInv,
     P, A, Publishing
<1>2. OrderInv'
  BY NoneIsApart, ReplacementRecordsListed, ProvisionRecords, ActivationRecords, ReplacementTable,
     ProvisionStep, ProvisionPhaseSet, AttemptPhaseSets DEF RecordPublished, Replacing, AppendR,
     LegalReplacement, journals, AppendA, AppendP, LegalEnabled, SameBoot, Inv, OrderInv, P, R
<1>3. SepInv'
  BY NoneIsApart, ReplacementRecordsListed, ProvisionRecords, ActivationRecords, ReplacementTable,
     ProvisionStep, ProvisionPhaseSet, AttemptPhaseSets DEF RecordPublished, Replacing, AppendR,
     LegalReplacement, journals, AppendA, AppendP, LegalEnabled, SameBoot, Inv, TypeOK, SepInv, P,
     R, AfterCreate, DeleteAmbiguous
<1>4. SentInv'
  BY NoneIsApart, ReplacementRecordsListed, ProvisionRecords, ActivationRecords, ReplacementTable,
     ProvisionStep, ProvisionPhaseSet, AttemptPhaseSets DEF RecordPublished, Replacing, AppendR,
     LegalReplacement, journals, AppendA, AppendP, LegalEnabled, SameBoot, Inv, TypeOK, SentInv, R,
     BeforeCreate, Reconciled
<1>5. PlaceInv'
  BY NoneIsApart, ReplacementRecordsListed, ProvisionRecords, ActivationRecords, ReplacementTable,
     ProvisionStep, ProvisionPhaseSet, AttemptPhaseSets DEF RecordPublished, Replacing, AppendR,
     LegalReplacement, journals, AppendA, AppendP, LegalEnabled, SameBoot, Inv, TypeOK, PlaceInv,
     R, Publishing
<1>6. DiskInv'
  BY NoneIsApart, ReplacementRecordsListed, ProvisionRecords, ActivationRecords, ReplacementTable,
     ProvisionStep, ProvisionPhaseSet, AttemptPhaseSets DEF RecordPublished, Replacing, AppendR,
     LegalReplacement, journals, AppendA, AppendP, LegalEnabled, SameBoot, Inv, TypeOK, PlaceInv,
     DiskInv, P, A, R, Publishing
<1> QED BY <1>1, <1>2, <1>3, <1>4, <1>5, <1>6 DEF Inv

LEMMA PrepareReplacementKeeps ==
    ASSUME Inv, PrepareReplacement
    PROVE  Inv'
<1>1. TypeOK'
  BY ReplacementBegun DEF PrepareReplacement, Opens, Provisioned, NoCalls, Inv, TypeOK, DiskStates
<1>2. OrderInv'
  BY ReplacementBegun DEF PrepareReplacement, Opens, Provisioned, NoCalls, Inv, OrderInv, P,
     DiskStates
<1>3. SepInv'
  BY ReplacementBegun DEF PrepareReplacement, Opens, Provisioned, NoCalls, Inv, SepInv, P, R,
     DiskStates
<1>4. SentInv'
  BY ReplacementBegun DEF PrepareReplacement, Opens, Provisioned, NoCalls, Inv, SentInv, DiskStates
<1>5. PlaceInv'
  BY NoneIsApart, ReplacementBegun, AttemptPhaseSets DEF PrepareReplacement, Opens, Provisioned,
     NoCalls, Inv, PlaceInv, R, Publishing, DiskStates
<1>6. DiskInv'
  BY ReplacementBegun DEF PrepareReplacement, Opens, Provisioned, NoCalls, Inv, DiskInv, P, R,
     DiskStates
<1> QED BY <1>1, <1>2, <1>3, <1>4, <1>5, <1>6 DEF Inv

LEMMA StageSecretKeeps ==
    ASSUME Inv, StageSecret
    PROVE  Inv'
<1>1. TypeOK'
  BY DEF StageSecret, journals, Inv, TypeOK, DiskStates
<1>2. OrderInv'
  BY DEF StageSecret, journals, Inv, OrderInv, P, R, DiskStates
<1>3. SepInv'
  BY DEF StageSecret, journals, Inv, SepInv, P, R, DiskStates
<1>4. SentInv'
  BY DEF StageSecret, journals, Inv, SentInv, R, DiskStates
<1>5. PlaceInv'
  BY DEF StageSecret, journals, Inv, PlaceInv, R, Publishing, DiskStates
<1>6. DiskInv'
  BY NoneIsApart, AttemptPhaseSets DEF StageSecret, journals, Inv, PlaceInv, DiskInv, P, R,
     DiskStates
<1> QED BY <1>1, <1>2, <1>3, <1>4, <1>5, <1>6 DEF Inv

LEMMA SecretStagedKeeps ==
    ASSUME Inv, SecretStaged
    PROVE  Inv'
<1> SUFFICES ASSUME ~(Stop /\ UNCHANGED <<disk, p, r, a, sent>>) PROVE Inv'
  BY StopKeeps DEF Inv, TypeOK, SecretStaged, AppendR
<1>1. TypeOK'
  BY NoneIsApart, ReplacementStaged, AttemptPhaseSets DEF SecretStaged, AppendR, LegalStaged, Inv,
     TypeOK, PlaceInv
<1>2. OrderInv'
  BY NoneIsApart, ReplacementStaged, AttemptPhaseSets DEF SecretStaged, AppendR, LegalStaged, Inv,
     OrderInv, PlaceInv, P, R
<1>3. SepInv'
  BY NoneIsApart, ReplacementStaged, AttemptPhaseSets DEF SecretStaged, AppendR, LegalStaged, Inv,
     TypeOK, SepInv, PlaceInv, P, R, AfterCreate, CreateAmbiguous, Reopenable
<1>4. SentInv'
  BY NoneIsApart, ReplacementStaged, AttemptPhaseSets DEF SecretStaged, AppendR, LegalStaged, Inv,
     TypeOK, SentInv, PlaceInv, R, BeforeCreate
<1>5. PlaceInv'
  BY NoneIsApart, ReplacementStaged, AttemptPhaseSets DEF SecretStaged, AppendR, LegalStaged, Inv,
     TypeOK, PlaceInv, Publishing
<1>6. DiskInv'
  BY NoneIsApart, ReplacementStaged, AttemptPhaseSets DEF SecretStaged, AppendR, LegalStaged, Inv,
     TypeOK, PlaceInv, DiskInv, P, R
<1> QED BY <1>1, <1>2, <1>3, <1>4, <1>5, <1>6 DEF Inv

LEMMA DeleteIntentKeeps ==
    ASSUME Inv, DeleteIntent
    PROVE  Inv'
<1> SUFFICES ASSUME ~(Stop /\ UNCHANGED <<disk, p, r, a, sent>>) PROVE Inv'
  BY StopKeeps DEF Inv, TypeOK, DeleteIntent, AppendR
<1>1. TypeOK'
  BY NoneIsApart, ReplacementRecordsListed, ReplacementTable, AttemptPhaseSets DEF DeleteIntent,
     AppendR, SecretReadable, LegalReplacement, Inv, TypeOK, PlaceInv
<1>2. OrderInv'
  BY NoneIsApart, ReplacementRecordsListed, ReplacementTable, AttemptPhaseSets DEF DeleteIntent,
     AppendR, SecretReadable, LegalReplacement, Inv, OrderInv, PlaceInv, P, R
<1>3. SepInv'
  BY NoneIsApart, ReplacementRecordsListed, ReplacementTable, AttemptPhaseSets DEF DeleteIntent,
     AppendR, SecretReadable, LegalReplacement, Inv, TypeOK, SepInv, PlaceInv, P, R, AfterCreate,
     DeleteAmbiguous, CreateAmbiguous, Reopenable
<1>4. SentInv'
  BY NoneIsApart, ReplacementRecordsListed, ReplacementTable, AttemptPhaseSets DEF DeleteIntent,
     AppendR, SecretReadable, LegalReplacement, Inv, SentInv, PlaceInv, R, BeforeCreate
<1>5. PlaceInv'
  BY NoneIsApart, ReplacementRecordsListed, ReplacementTable, AttemptPhaseSets DEF DeleteIntent,
     AppendR, SecretReadable, LegalReplacement, Inv, TypeOK, PlaceInv, R, Publishing
<1>6. DiskInv'
  BY NoneIsApart, ReplacementRecordsListed, ReplacementTable, AttemptPhaseSets DEF DeleteIntent,
     AppendR, SecretReadable, LegalReplacement, Inv, TypeOK, PlaceInv, DiskInv, P, R
<1> QED BY <1>1, <1>2, <1>3, <1>4, <1>5, <1>6 DEF Inv

LEMMA DeleteKeeps ==
    ASSUME Inv, Delete
    PROVE  Inv'
<1>1. TypeOK'
  BY DEF Delete, Deleted, journals, Inv, TypeOK, SepStates
<1>2. OrderInv'
  BY DEF Delete, Deleted, journals, Inv, OrderInv, P, R, SepStates
<1>3. SepInv'
  BY NoneIsApart, AttemptPhaseSets DEF Delete, Deleted, journals, Inv, SepInv, P, R, SepStates
<1>4. SentInv'
  BY NoneIsApart, AttemptPhaseSets DEF Delete, Deleted, journals, Inv, SentInv, PlaceInv, R,
     SepStates
<1>5. PlaceInv'
  BY DEF Delete, Deleted, journals, Inv, PlaceInv, Publishing, SepStates
<1>6. DiskInv'
  BY DEF Delete, Deleted, journals, Inv, DiskInv, P, A, R, SepStates
<1> QED BY <1>1, <1>2, <1>3, <1>4, <1>5, <1>6 DEF Inv

LEMMA DeleteSucceededKeeps ==
    ASSUME Inv, DeleteSucceeded
    PROVE  Inv'
<1> SUFFICES ASSUME ~(Stop /\ UNCHANGED <<disk, p, r, a, sent>>) PROVE Inv'
  BY StopKeeps DEF Inv, TypeOK, DeleteSucceeded, AppendR
<1>1. TypeOK'
  BY NoneIsApart, ReplacementRecordsListed, ReplacementTable, AttemptPhaseSets DEF DeleteSucceeded,
     AppendR, LegalReplacement, Inv, TypeOK, PlaceInv
<1>2. OrderInv'
  BY NoneIsApart, ReplacementRecordsListed, ReplacementTable, AttemptPhaseSets DEF DeleteSucceeded,
     AppendR, LegalReplacement, Inv, OrderInv, PlaceInv, P, R
<1>3. SepInv'
  BY NoneIsApart, ReplacementRecordsListed, ReplacementTable, AttemptPhaseSets DEF DeleteSucceeded,
     AppendR, LegalReplacement, Inv, TypeOK, SepInv, PlaceInv, P, R, AfterCreate, CreateAmbiguous,
     Reopenable
<1>4. SentInv'
  BY NoneIsApart, ReplacementRecordsListed, ReplacementTable, AttemptPhaseSets DEF DeleteSucceeded,
     AppendR, LegalReplacement, Inv, TypeOK, SentInv, PlaceInv, R, BeforeCreate
<1>5. PlaceInv'
  BY NoneIsApart, ReplacementRecordsListed, ReplacementTable, AttemptPhaseSets DEF DeleteSucceeded,
     AppendR, LegalReplacement, Inv, TypeOK, PlaceInv, Publishing
<1>6. DiskInv'
  BY NoneIsApart, ReplacementRecordsListed, ReplacementTable, AttemptPhaseSets DEF DeleteSucceeded,
     AppendR, LegalReplacement, Inv, TypeOK, PlaceInv, DiskInv, P, R
<1> QED BY <1>1, <1>2, <1>3, <1>4, <1>5, <1>6 DEF Inv

LEMMA ResumeReplacementKeeps ==
    ASSUME Inv, ResumeReplacement
    PROVE  Inv'
<1>0. \/ pc' \in {"abandon", "reconcile_absence", "reconfirm", "reconcile_delete", "recover", "close"}
      \/ pc' = "publish" /\ Replacing
  <2>1. r # None /\ r.phase \in ReplacementPhases /\ pc' = ResumeStage[r.phase]
    BY NoneIsApart DEF ResumeReplacement, Inv, TypeOK, ReplacementJournal
  <2> QED BY <2>1, ResumeStages DEF Replacing
<1>1. TypeOK'
  BY <1>0 DEF ResumeReplacement, Opens, Provisioned, Legacy, journals, Inv, TypeOK
<1>2. OrderInv'
  BY <1>0 DEF ResumeReplacement, Opens, Provisioned, Legacy, journals, Inv, OrderInv, P, R
<1>3. SepInv'
  BY <1>0 DEF ResumeReplacement, Opens, Provisioned, Legacy, journals, Inv, SepInv, P, R
<1>4. SentInv'
  BY <1>0 DEF ResumeReplacement, Opens, Provisioned, Legacy, journals, Inv, SentInv, R
<1>5. PlaceInv'
  BY <1>0 DEF ResumeReplacement, Opens, Provisioned, Legacy, journals, Inv, PlaceInv, Publishing,
     Replacing
<1>6. DiskInv'
  BY <1>0 DEF ResumeReplacement, Opens, Provisioned, Legacy, journals, Inv, DiskInv, P, R
<1> QED BY <1>1, <1>2, <1>3, <1>4, <1>5, <1>6 DEF Inv

LEMMA ArchiveAbandonedKeeps ==
    ASSUME Inv, ArchiveAbandoned
    PROVE  Inv'
<1>1. TypeOK'
  BY DEF ArchiveAbandoned, Inv, TypeOK
<1>2. OrderInv'
  BY DEF ArchiveAbandoned, Inv, OrderInv, R
<1>3. SepInv'
  BY DEF ArchiveAbandoned, Inv, SepInv, P, R, AfterCreate, CreateAmbiguous, Reopenable
<1>4. SentInv'
  BY DEF ArchiveAbandoned, Inv, SentInv, R
<1>5. PlaceInv'
  BY DEF ArchiveAbandoned, Inv, PlaceInv, Publishing
<1>6. DiskInv'
  BY DEF ArchiveAbandoned, Inv, DiskInv, P, R
<1> QED BY <1>1, <1>2, <1>3, <1>4, <1>5, <1>6 DEF Inv

LEMMA AbandonKeeps ==
    ASSUME Inv, Abandon
    PROVE  Inv'
<1> SUFFICES ASSUME ~(Stop /\ UNCHANGED <<disk, p, r, a, sent>>) PROVE Inv'
  BY StopKeeps DEF Inv, TypeOK, Abandon, AppendR
<1>1. TypeOK'
  BY NoneIsApart, ReplacementRecords, ReplacementPhaseSet, AttemptPhaseSets DEF Abandon, AppendR,
     LegalAbandoned, FreshOwner, Inv, TypeOK, PlaceInv
<1>2. OrderInv'
  BY NoneIsApart, ReplacementRecords, ReplacementPhaseSet, AttemptPhaseSets DEF Abandon, AppendR,
     LegalAbandoned, FreshOwner, Inv, OrderInv, PlaceInv, P, R
<1>3. SepInv'
  BY NoneIsApart, ReplacementRecords, ReplacementPhaseSet, AttemptPhaseSets DEF Abandon, AppendR,
     LegalAbandoned, FreshOwner, Inv, TypeOK, SepInv, PlaceInv, P, R
<1>4. SentInv'
  BY NoneIsApart, ReplacementRecords, ReplacementPhaseSet, AttemptPhaseSets DEF Abandon, AppendR,
     LegalAbandoned, FreshOwner, Inv, TypeOK, SentInv, PlaceInv, R, BeforeCreate
<1>5. PlaceInv'
  BY ReplacementRecords, ReplacementPhaseSet DEF Abandon, AppendR, LegalAbandoned, FreshOwner, Inv,
     PlaceInv, Publishing
<1>6. DiskInv'
  BY NoneIsApart, ReplacementRecords, ReplacementPhaseSet, AttemptPhaseSets DEF Abandon, AppendR,
     LegalAbandoned, FreshOwner, Inv, TypeOK, PlaceInv, DiskInv, P, R
<1> QED BY <1>1, <1>2, <1>3, <1>4, <1>5, <1>6 DEF Inv

LEMMA ReconcileAbsenceKeeps ==
    ASSUME Inv, ReconcileAbsence
    PROVE  Inv'
<1> SUFFICES ASSUME ~(Stop /\ UNCHANGED <<disk, p, r, a, sent>>) PROVE Inv'
  BY StopKeeps DEF Inv, TypeOK, ReconcileAbsence, AppendR
<1>1. TypeOK'
  BY NoneIsApart, ReplacementRecords, ReplacementPhaseSet, AttemptPhaseSets DEF ReconcileAbsence,
     AppendR, LegalAbsenceReconciled, SameOwner, FreshOwner, Inv, TypeOK, PlaceInv
<1>2. OrderInv'
  BY NoneIsApart, ReplacementRecords, ReplacementPhaseSet, AttemptPhaseSets DEF ReconcileAbsence,
     AppendR, LegalAbsenceReconciled, SameOwner, FreshOwner, Inv, OrderInv, PlaceInv, P, R
<1>3. SepInv'
  BY NoneIsApart, ReplacementRecords, ReplacementPhaseSet, AttemptPhaseSets DEF ReconcileAbsence,
     AppendR, LegalAbsenceReconciled, SameOwner, FreshOwner, Inv, SepInv, P, R
<1>4. SentInv'
  BY NoneIsApart, ReplacementRecords, ReplacementPhaseSet, AttemptPhaseSets DEF ReconcileAbsence,
     AppendR, LegalAbsenceReconciled, SameOwner, FreshOwner, Inv, TypeOK, SentInv, PlaceInv, R,
     BeforeCreate
<1>5. PlaceInv'
  BY NoneIsApart, ReplacementRecords, ReplacementPhaseSet, AttemptPhaseSets DEF ReconcileAbsence,
     AppendR, LegalAbsenceReconciled, SameOwner, FreshOwner, Inv, TypeOK, PlaceInv, Publishing
<1>6. DiskInv'
  BY NoneIsApart, ReplacementRecords, ReplacementPhaseSet, AttemptPhaseSets DEF ReconcileAbsence,
     AppendR, LegalAbsenceReconciled, SameOwner, FreshOwner, Inv, TypeOK, PlaceInv, DiskInv, P, R
<1> QED BY <1>1, <1>2, <1>3, <1>4, <1>5, <1>6 DEF Inv

LEMMA ReconcileDeleteKeeps ==
    ASSUME Inv, ReconcileDelete
    PROVE  Inv'
<1> SUFFICES ASSUME ~(Stop /\ UNCHANGED <<disk, p, r, a, sent>>) PROVE Inv'
  BY StopKeeps DEF Inv, TypeOK, ReconcileDelete, AppendR
<1>1. TypeOK'
  BY NoneIsApart, ReplacementRecords, ReplacementPhaseSet, AttemptPhaseSets DEF ReconcileDelete,
     AppendR, LegalDeleteReconciled, FreshOwner, LegalNotApplied, Inv, TypeOK, PlaceInv
<1>2. OrderInv'
  BY NoneIsApart, ReplacementRecords, ReplacementPhaseSet, AttemptPhaseSets DEF ReconcileDelete,
     AppendR, LegalDeleteReconciled, DeleteAmbiguous, FreshOwner, LegalNotApplied, Inv, OrderInv,
     PlaceInv, P, R
<1>3. SepInv'
  BY NoneIsApart, ReplacementRecords, ReplacementPhaseSet, AttemptPhaseSets DEF ReconcileDelete,
     AppendR, LegalDeleteReconciled, DeleteAmbiguous, FreshOwner, LegalNotApplied, Inv, TypeOK,
     SepInv, PlaceInv, P, R
<1>4. SentInv'
  BY NoneIsApart, ReplacementRecords, ReplacementPhaseSet, AttemptPhaseSets DEF ReconcileDelete,
     AppendR, LegalDeleteReconciled, DeleteAmbiguous, FreshOwner, LegalNotApplied, Inv, TypeOK,
     SentInv, PlaceInv, R, BeforeCreate
<1>5. PlaceInv'
  BY NoneIsApart, ReplacementRecords, ReplacementPhaseSet, AttemptPhaseSets DEF ReconcileDelete,
     AppendR, LegalDeleteReconciled, FreshOwner, LegalNotApplied, Inv, TypeOK, PlaceInv, Publishing
<1>6. DiskInv'
  BY NoneIsApart, ReplacementRecords, ReplacementPhaseSet, AttemptPhaseSets DEF ReconcileDelete,
     AppendR, LegalDeleteReconciled, DeleteAmbiguous, FreshOwner, LegalNotApplied, Inv, TypeOK,
     PlaceInv, DiskInv, P, R
<1> QED BY <1>1, <1>2, <1>3, <1>4, <1>5, <1>6 DEF Inv

LEMMA ReconfirmKeeps ==
    ASSUME Inv, Reconfirm
    PROVE  Inv'
<1> SUFFICES ASSUME ~(Stop /\ UNCHANGED <<disk, p, r, a, sent>>) PROVE Inv'
  BY StopKeeps DEF Inv, TypeOK, Reconfirm, AppendR
<1>1. TypeOK'
  BY NoneIsApart, ReplacementRecords, ReplacementPhaseSet, AttemptPhaseSets DEF Reconfirm, AppendR,
     LegalReconfirmed, Reconciled, FreshOwner, Inv, TypeOK, PlaceInv
<1>2. OrderInv'
  BY NoneIsApart, ReplacementRecords, ReplacementPhaseSet, AttemptPhaseSets DEF Reconfirm, AppendR,
     LegalReconfirmed, FreshOwner, Inv, TypeOK, OrderInv, PlaceInv, P, R
<1>3. SepInv'
  BY NoneIsApart, ReplacementRecords, ReplacementPhaseSet, AttemptPhaseSets DEF Reconfirm, AppendR,
     LegalReconfirmed, FreshOwner, Inv, TypeOK, SepInv, P, R
<1>4. SentInv'
  BY NoneIsApart, ReplacementRecords, ReplacementPhaseSet, AttemptPhaseSets DEF Reconfirm, AppendR,
     LegalReconfirmed, Reconciled, FreshOwner, Inv, TypeOK, SentInv, PlaceInv, R
<1>5. PlaceInv'
  BY NoneIsApart, ReplacementRecords, ReplacementPhaseSet, AttemptPhaseSets DEF Reconfirm, AppendR,
     LegalReconfirmed, Reconciled, FreshOwner, Inv, TypeOK, PlaceInv, Publishing
<1>6. DiskInv'
  BY NoneIsApart, ReplacementRecords, ReplacementPhaseSet, AttemptPhaseSets DEF Reconfirm, AppendR,
     LegalReconfirmed, Reconciled, FreshOwner, Inv, TypeOK, PlaceInv, DiskInv, P, R
<1> QED BY <1>1, <1>2, <1>3, <1>4, <1>5, <1>6 DEF Inv

LEMMA CreateIntentKeeps ==
    ASSUME Inv, CreateIntent
    PROVE  Inv'
<1> SUFFICES ASSUME ~(Stop /\ UNCHANGED <<disk, p, r, a, sent>>) PROVE Inv'
  BY StopKeeps DEF Inv, TypeOK, CreateIntent, AppendR
<1>1. TypeOK'
  BY NoneIsApart, ReplacementRecords, ReplacementPhaseSet, AttemptPhaseSets DEF CreateIntent,
     AppendR, SecretReadable, LegalCreateIntent, SameOwner, Inv, TypeOK, PlaceInv
<1>2. OrderInv'
  BY NoneIsApart, ReplacementRecords, ReplacementPhaseSet, AttemptPhaseSets DEF CreateIntent,
     AppendR, SecretReadable, LegalCreateIntent, Reconciled, SameOwner, Inv, OrderInv, PlaceInv, P,
     R
<1>3. SepInv'
  BY NoneIsApart, ReplacementRecords, ReplacementPhaseSet, AttemptPhaseSets DEF CreateIntent,
     AppendR, SecretReadable, LegalCreateIntent, Reconciled, SameOwner, Inv, SepInv, P, R
<1>4. SentInv'
  BY NoneIsApart, ReplacementRecords, ReplacementPhaseSet, AttemptPhaseSets DEF CreateIntent,
     AppendR, SecretReadable, LegalCreateIntent, SameOwner, Inv, TypeOK, SentInv, PlaceInv, R,
     BeforeCreate
<1>5. PlaceInv'
  BY NoneIsApart, ReplacementRecords, ReplacementPhaseSet, AttemptPhaseSets DEF CreateIntent,
     AppendR, SecretReadable, LegalCreateIntent, SameOwner, Inv, TypeOK, PlaceInv, R, Publishing
<1>6. DiskInv'
  BY NoneIsApart, ReplacementRecords, ReplacementPhaseSet, AttemptPhaseSets DEF CreateIntent,
     AppendR, SecretReadable, LegalCreateIntent, SameOwner, Inv, TypeOK, PlaceInv, DiskInv, P, R
<1> QED BY <1>1, <1>2, <1>3, <1>4, <1>5, <1>6 DEF Inv

LEMMA CreateKeeps ==
    ASSUME Inv, Create
    PROVE  Inv'
<1>1. TypeOK'
  <2>1. Created(sep) \in SepStates
    BY DEF Inv, TypeOK, SepStates, Created
  <2>2. [Created(sep) EXCEPT !.handle = TRUE] \in SepStates
    BY <2>1 DEF SepStates
  <2>3. sent' \in [delete : Nat, create : Nat]
    BY DEF Inv, TypeOK, Create
  <2> QED BY <2>2, <2>3 DEF Inv, TypeOK, Create, journals
<1>2. OrderInv'
  BY DEF Create, Created, journals, Inv, OrderInv, P, R, SepStates
<1>3. SepInv'
  BY NoneIsApart, AttemptPhaseSets DEF Create, Created, journals, Inv, SepInv, PlaceInv, P, R,
     CreateAmbiguous, SepStates
<1>4. SentInv'
  BY NoneIsApart, AttemptPhaseSets DEF Create, Created, journals, Inv, SentInv, PlaceInv, R,
     BeforeCreate, Reconciled, SepStates
<1>5. PlaceInv'
  BY DEF Create, Created, journals, Inv, PlaceInv, R, Publishing, SepStates
<1>6. DiskInv'
  BY DEF Create, Created, journals, Inv, DiskInv, P, A, R, SepStates
<1> QED BY <1>1, <1>2, <1>3, <1>4, <1>5, <1>6 DEF Inv

LEMMA CreateSucceededKeeps ==
    ASSUME Inv, CreateSucceeded
    PROVE  Inv'
<1> SUFFICES ASSUME ~(Stop /\ UNCHANGED <<disk, p, r, a, sent>>) PROVE Inv'
  BY StopKeeps DEF Inv, TypeOK, CreateSucceeded, AppendR
<1>1. TypeOK'
  BY NoneIsApart, ReplacementRecordsListed, ReplacementTable, AttemptPhaseSets DEF CreateSucceeded,
     AppendR, LegalReplacement, Inv, TypeOK, PlaceInv
<1>2. OrderInv'
  BY NoneIsApart, ReplacementRecordsListed, ReplacementTable, AttemptPhaseSets DEF CreateSucceeded,
     AppendR, LegalReplacement, Inv, OrderInv, PlaceInv, P, R
<1>3. SepInv'
  BY NoneIsApart, ReplacementRecordsListed, ReplacementTable, AttemptPhaseSets DEF CreateSucceeded,
     AppendR, LegalReplacement, Inv, TypeOK, SepInv, PlaceInv, P, R, AfterCreate, DeleteAmbiguous,
     Reopenable
<1>4. SentInv'
  BY NoneIsApart, ReplacementRecordsListed, ReplacementTable, AttemptPhaseSets DEF CreateSucceeded,
     AppendR, LegalReplacement, Inv, TypeOK, SentInv, PlaceInv, R, BeforeCreate, Reconciled
<1>5. PlaceInv'
  BY NoneIsApart, ReplacementRecordsListed, ReplacementTable, AttemptPhaseSets DEF CreateSucceeded,
     AppendR, LegalReplacement, Inv, TypeOK, PlaceInv, Publishing
<1>6. DiskInv'
  BY NoneIsApart, ReplacementRecordsListed, ReplacementTable, AttemptPhaseSets DEF CreateSucceeded,
     AppendR, LegalReplacement, Inv, TypeOK, PlaceInv, DiskInv, P, R
<1> QED BY <1>1, <1>2, <1>3, <1>4, <1>5, <1>6 DEF Inv

LEMMA RecoverKeeps ==
    ASSUME Inv, Recover
    PROVE  Inv'
<1> SUFFICES ASSUME ~(Stop /\ UNCHANGED <<disk, p, r, a, sent>>) PROVE Inv'
  BY StopKeeps DEF Inv, TypeOK, Recover, AppendR
<1>1. TypeOK'
  <2>1. sep' \in SepStates
    BY ZenonT(60) DEF Inv, TypeOK, SepStates, Recover, AppendR
  <2>2. r \in ReplacementJournal
    BY NoneIsApart DEF Inv, TypeOK, PlaceInv, Recover
  <2>3. r' \in ReplacementJournal
    BY <2>2, ReplacementRecords, ReplacementPhaseSet DEF Recover, AppendR
  <2> QED BY <2>1, <2>3 DEF Inv, TypeOK, Recover
<1>2. OrderInv'
  BY NoneIsApart, ReplacementRecords, ReplacementPhaseSet, AttemptPhaseSets DEF Recover, AppendR,
     LegalNotApplied, FreshOwner, CreateAmbiguous, LegalIdentityLive, Reopenable, Inv, OrderInv,
     PlaceInv, P, R, SepStates
<1>3. SepInv'
  BY NoneIsApart, ReplacementRecords, ReplacementPhaseSet, AttemptPhaseSets DEF Recover, AppendR,
     LegalNotApplied, FreshOwner, CreateAmbiguous, LegalIdentityLive, Reopenable, Inv, TypeOK,
     SepInv, P, R, AfterCreate, SepStates
<1>4. SentInv'
  BY NoneIsApart, ReplacementRecords, ReplacementPhaseSet, AttemptPhaseSets DEF Recover, AppendR,
     LegalNotApplied, FreshOwner, LegalIdentityLive, Inv, TypeOK, SentInv, PlaceInv, R,
     BeforeCreate, Reconciled, SepStates
<1>5. PlaceInv'
  BY NoneIsApart, ReplacementRecords, ReplacementPhaseSet, AttemptPhaseSets DEF Recover, AppendR,
     LegalNotApplied, FreshOwner, LegalIdentityLive, Inv, TypeOK, PlaceInv, Publishing, SepStates
<1>6. DiskInv'
  BY NoneIsApart, ReplacementRecords, ReplacementPhaseSet, AttemptPhaseSets DEF Recover, AppendR,
     LegalNotApplied, FreshOwner, CreateAmbiguous, LegalIdentityLive, Reopenable, Inv, TypeOK,
     PlaceInv, DiskInv, P, R, SepStates
<1> QED BY <1>1, <1>2, <1>3, <1>4, <1>5, <1>6 DEF Inv

LEMMA ExportKeeps ==
    ASSUME Inv, Export
    PROVE  Inv'
<1> SUFFICES ASSUME ~(Stop /\ UNCHANGED <<disk, p, r, a, sent>>) PROVE Inv'
  BY StopKeeps DEF Inv, TypeOK, Export, AppendR
<1>1. TypeOK'
  BY NoneIsApart, ReplacementRecordsListed, ReplacementTable, AttemptPhaseSets DEF Export,
     ExportSteps, AppendR, LegalReplacement, Inv, TypeOK, PlaceInv, R
<1>2. OrderInv'
  BY NoneIsApart, ReplacementRecordsListed, ReplacementTable, AttemptPhaseSets DEF Export,
     ExportSteps, AppendR, LegalReplacement, Inv, OrderInv, PlaceInv, P, R
<1>3. SepInv'
  BY NoneIsApart, ReplacementRecordsListed, ReplacementTable, AttemptPhaseSets DEF Export,
     ExportSteps, AppendR, LegalReplacement, Inv, TypeOK, SepInv, PlaceInv, P, R, AfterCreate,
     DeleteAmbiguous, Reopenable
<1>4. SentInv'
  BY NoneIsApart, ReplacementRecordsListed, ReplacementTable, AttemptPhaseSets DEF Export,
     ExportSteps, AppendR, LegalReplacement, Inv, TypeOK, SentInv, PlaceInv, R, BeforeCreate,
     Reconciled
<1>5. PlaceInv'
  BY NoneIsApart, ReplacementRecordsListed, ReplacementTable, AttemptPhaseSets DEF Export,
     ExportSteps, AppendR, LegalReplacement, Inv, TypeOK, PlaceInv, R, Publishing, Replacing
<1>6. DiskInv'
  BY NoneIsApart, ReplacementRecordsListed, ReplacementTable, AttemptPhaseSets DEF Export,
     ExportSteps, AppendR, LegalReplacement, Inv, TypeOK, PlaceInv, DiskInv, P, R
<1> QED BY <1>1, <1>2, <1>3, <1>4, <1>5, <1>6 DEF Inv

LEMMA RenameBundleKeeps ==
    ASSUME Inv, RenameBundle
    PROVE  Inv'
<1>1. TypeOK'
  BY DEF RenameBundle, SecretReadable, journals, Inv, TypeOK, DiskStates
<1>2. OrderInv'
  BY DEF RenameBundle, SecretReadable, journals, Inv, OrderInv, P, R, DiskStates
<1>3. SepInv'
  BY DEF RenameBundle, SecretReadable, journals, Inv, SepInv, P, R, DiskStates
<1>4. SentInv'
  BY DEF RenameBundle, SecretReadable, journals, Inv, SentInv, R, DiskStates
<1>5. PlaceInv'
  BY DEF RenameBundle, SecretReadable, journals, Inv, PlaceInv, Publishing, DiskStates
<1>6. DiskInv'
  BY DEF RenameBundle, SecretReadable, journals, Inv, TypeOK, DiskInv, P, A, R, DiskStates
<1> QED BY <1>1, <1>2, <1>3, <1>4, <1>5, <1>6 DEF Inv

LEMMA SyncBundleKeeps ==
    ASSUME Inv, SyncBundle
    PROVE  Inv'
<1>1. TypeOK'
  BY DEF SyncBundle, journals, Inv, TypeOK, DiskStates
<1>2. OrderInv'
  BY DEF SyncBundle, journals, Inv, OrderInv, P, R, DiskStates
<1>3. SepInv'
  BY DEF SyncBundle, journals, Inv, SepInv, P, R, DiskStates
<1>4. SentInv'
  BY DEF SyncBundle, journals, Inv, SentInv, R, DiskStates
<1>5. PlaceInv'
  BY DEF SyncBundle, journals, Inv, PlaceInv, Publishing, DiskStates
<1>6. DiskInv'
  BY DEF SyncBundle, journals, Inv, DiskInv, P, A, R, DiskStates
<1> QED BY <1>1, <1>2, <1>3, <1>4, <1>5, <1>6 DEF Inv

LEMMA ReleaseKeeps ==
    ASSUME Inv, Release
    PROVE  Inv'
<1> SUFFICES ASSUME ~(Stop /\ UNCHANGED <<disk, p, r, a, sent>>) PROVE Inv'
  BY StopKeeps DEF Inv, TypeOK, Release, AppendR
<1>1. TypeOK'
  <2>1. sep' \in SepStates
    BY DEF Inv, TypeOK, SepStates, Release, AppendR
  <2>2. r \in ReplacementJournal
    BY NoneIsApart DEF Inv, TypeOK, PlaceInv, R, Release
  <2>3. r' \in ReplacementJournal
    BY <2>2, ReplacementRecords, ReplacementRecordsListed, ReplacementPhaseSet DEF Release, AppendR
  <2> QED BY <2>1, <2>3 DEF Inv, TypeOK, Release
<1>2. OrderInv'
  BY NoneIsApart, ReplacementRecords, ReplacementRecordsListed, ReplacementTable,
     ReplacementPhaseSet, AttemptPhaseSets DEF Release, AppendR, LegalHandleReconciled, FreshOwner,
     Inv, OrderInv, PlaceInv, P, R, SepStates
<1>3. SepInv'
  BY NoneIsApart, ReplacementRecords, ReplacementRecordsListed, ReplacementTable,
     ReplacementPhaseSet, AttemptPhaseSets DEF Release, AppendR, LegalHandleReconciled, FreshOwner,
     Inv, TypeOK, SepInv, PlaceInv, P, R, AfterCreate, DeleteAmbiguous, SepStates
<1>4. SentInv'
  BY NoneIsApart, ReplacementRecords, ReplacementRecordsListed, ReplacementTable,
     ReplacementPhaseSet, AttemptPhaseSets DEF Release, AppendR, LegalHandleReconciled, FreshOwner,
     Inv, TypeOK, SentInv, PlaceInv, R, BeforeCreate, Reconciled, SepStates
<1>5. PlaceInv'
  BY ReplacementRecords, ReplacementRecordsListed, ReplacementTable, ReplacementPhaseSet DEF
     Release, AppendR, LegalHandleReconciled, FreshOwner, Inv, PlaceInv, Publishing, SepStates
<1>6. DiskInv'
  BY NoneIsApart, ReplacementRecords, ReplacementRecordsListed, ReplacementTable,
     ReplacementPhaseSet, AttemptPhaseSets DEF Release, AppendR, LegalHandleReconciled, FreshOwner,
     Inv, TypeOK, PlaceInv, DiskInv, P, R, SepStates
<1> QED BY <1>1, <1>2, <1>3, <1>4, <1>5, <1>6 DEF Inv

LEMMA StartActivationKeeps ==
    ASSUME Inv, StartActivation
    PROVE  Inv'
<1>1. TypeOK'
  BY ActivationBegun DEF StartActivation, Opens, Completed, Inv, TypeOK
<1>2. OrderInv'
  BY ActivationBegun DEF StartActivation, Opens, Completed, Inv, OrderInv, P, R
<1>3. SepInv'
  BY ActivationBegun DEF StartActivation, Opens, Completed, Inv, SepInv, P, R
<1>4. SentInv'
  BY ActivationBegun DEF StartActivation, Opens, Completed, Inv, SentInv, R
<1>5. PlaceInv'
  BY NoneIsApart, ActivationBegun, AttemptPhaseSets DEF StartActivation, Opens, Completed, Inv,
     PlaceInv, Publishing
<1>6. DiskInv'
  BY ActivationBegun DEF StartActivation, Opens, Completed, Inv, DiskInv, P, A, R
<1> QED BY <1>1, <1>2, <1>3, <1>4, <1>5, <1>6 DEF Inv

LEMMA ResumeActivationKeeps ==
    ASSUME Inv, ResumeActivation
    PROVE  Inv'
<1>1. TypeOK'
  BY DEF ResumeActivation, Opens, Completed, journals, Inv, TypeOK
<1>2. OrderInv'
  BY DEF ResumeActivation, Opens, Completed, journals, Inv, OrderInv, P, R
<1>3. SepInv'
  BY DEF ResumeActivation, Opens, Completed, journals, Inv, SepInv, P, R
<1>4. SentInv'
  BY DEF ResumeActivation, Opens, Completed, journals, Inv, SentInv, R
<1>5. PlaceInv'
  BY DEF ResumeActivation, Opens, Completed, journals, Inv, PlaceInv, Publishing
<1>6. DiskInv'
  BY DEF ResumeActivation, Opens, Completed, journals, Inv, DiskInv, P, A, R
<1> QED BY <1>1, <1>2, <1>3, <1>4, <1>5, <1>6 DEF Inv

LEMMA ObserveKeeps ==
    ASSUME Inv, Observe
    PROVE  Inv'
<1> SUFFICES ASSUME ~(Stop /\ UNCHANGED <<disk, p, r, a, sent>>) PROVE Inv'
  BY StopKeeps DEF Inv, TypeOK, Observe, AppendA
<1>1. TypeOK'
  BY NoneIsApart, ActivationRecords, AttemptPhaseSets DEF Observe, AppendA, LegalReady,
     TriedThisBoot, SameBoot, LegalQuarantined, LegalRetry, Inv, TypeOK, PlaceInv
<1>2. OrderInv'
  BY NoneIsApart, ActivationRecords, AttemptPhaseSets DEF Observe, AppendA, LegalReady,
     TriedThisBoot, SameBoot, LegalQuarantined, LegalRetry, Inv, OrderInv, PlaceInv, P, R
<1>3. SepInv'
  BY ActivationRecords DEF Observe, AppendA, LegalReady, TriedThisBoot, SameBoot, LegalQuarantined,
     LegalRetry, Inv, SepInv, P, R
<1>4. SentInv'
  BY ActivationRecords DEF Observe, AppendA, LegalReady, TriedThisBoot, SameBoot, LegalQuarantined,
     LegalRetry, Inv, SentInv, R
<1>5. PlaceInv'
  BY NoneIsApart, ActivationRecords, AttemptPhaseSets DEF Observe, AppendA, LegalReady,
     TriedThisBoot, SameBoot, LegalQuarantined, LegalRetry, Inv, TypeOK, PlaceInv, Publishing
<1>6. DiskInv'
  BY NoneIsApart, ActivationRecords, AttemptPhaseSets DEF Observe, AppendA, LegalReady,
     TriedThisBoot, SameBoot, LegalQuarantined, LegalRetry, Inv, DiskInv, P, A, R
<1> QED BY <1>1, <1>2, <1>3, <1>4, <1>5, <1>6 DEF Inv

LEMMA StartAttemptKeeps ==
    ASSUME Inv, StartAttempt
    PROVE  Inv'
<1> SUFFICES ASSUME ~(Stop /\ UNCHANGED <<disk, p, r, a, sent>>) PROVE Inv'
  BY StopKeeps DEF Inv, TypeOK, StartAttempt, AppendA
<1>1. TypeOK'
  BY NoneIsApart, ActivationRecords, AttemptPhaseSets DEF StartAttempt, AppendA, LegalAttempt,
     TriedThisBoot, SameBoot, SameOwner, Inv, TypeOK, PlaceInv
<1>2. OrderInv'
  BY NoneIsApart, ActivationRecords, AttemptPhaseSets DEF StartAttempt, AppendA, LegalAttempt,
     TriedThisBoot, SameBoot, SameOwner, Inv, OrderInv, PlaceInv, P, R
<1>3. SepInv'
  BY ActivationRecords DEF StartAttempt, AppendA, LegalAttempt, TriedThisBoot, SameBoot, SameOwner,
     Inv, SepInv, P, R
<1>4. SentInv'
  BY ActivationRecords DEF StartAttempt, AppendA, LegalAttempt, TriedThisBoot, SameBoot, SameOwner,
     Inv, SentInv, R
<1>5. PlaceInv'
  BY NoneIsApart, ActivationRecords, AttemptPhaseSets DEF StartAttempt, AppendA, LegalAttempt,
     TriedThisBoot, SameBoot, SameOwner, Inv, TypeOK, PlaceInv, A, Publishing
<1>6. DiskInv'
  BY ActivationRecords DEF StartAttempt, AppendA, LegalAttempt, TriedThisBoot, SameBoot, SameOwner,
     Inv, DiskInv, P, A, R
<1> QED BY <1>1, <1>2, <1>3, <1>4, <1>5, <1>6 DEF Inv

LEMMA AttemptStepKeeps ==
    ASSUME Inv, AttemptStep
    PROVE  Inv'
<1>1. TypeOK'
  BY NoneIsApart, AttemptStepPhase, AttemptPhaseSets DEF AttemptStep, Effect, Inv, TypeOK,
     PlaceInv, A, SepStates
<1>2. OrderInv'
  BY NoneIsApart, AttemptStepPhase, AttemptPhaseSets DEF AttemptStep, Effect, Inv, OrderInv,
     PlaceInv, P, A, R, SepStates
<1>3. SepInv'
  BY AttemptStepPhase DEF AttemptStep, Effect, Inv, SepInv, P, R, SepStates
<1>4. SentInv'
  BY AttemptStepPhase DEF AttemptStep, Effect, Inv, SentInv, R, SepStates
<1>5. PlaceInv'
  BY NoneIsApart, AttemptStepPhase, AttemptPhaseSets DEF AttemptStep, Effect, Inv, TypeOK,
     PlaceInv, A, Publishing, SepStates
<1>6. DiskInv'
  BY NoneIsApart, AttemptStepPhase, AttemptPhaseSets DEF AttemptStep, Effect, Inv, PlaceInv,
     DiskInv, P, A, R, SepStates
<1> QED BY <1>1, <1>2, <1>3, <1>4, <1>5, <1>6 DEF Inv

LEMMA IndependentReadyKeeps ==
    ASSUME Inv, IndependentReady
    PROVE  Inv'
<1> SUFFICES ASSUME ~(Stop /\ UNCHANGED <<disk, p, r, a, sent>>) PROVE Inv'
  BY StopKeeps DEF Inv, TypeOK, IndependentReady, AppendA
<1>1. TypeOK'
  BY NoneIsApart, ActivationRecords, AttemptPhaseSets DEF IndependentReady, AppendA, LegalReady,
     TriedThisBoot, SameBoot, Inv, TypeOK, PlaceInv
<1>2. OrderInv'
  BY NoneIsApart, ActivationRecords, AttemptPhaseSets DEF IndependentReady, AppendA, LegalReady,
     TriedThisBoot, SameBoot, Inv, OrderInv, PlaceInv, P, R
<1>3. SepInv'
  BY ActivationRecords DEF IndependentReady, AppendA, LegalReady, TriedThisBoot, SameBoot, Inv,
     SepInv, P, R
<1>4. SentInv'
  BY ActivationRecords DEF IndependentReady, AppendA, LegalReady, TriedThisBoot, SameBoot, Inv,
     SentInv, R
<1>5. PlaceInv'
  BY NoneIsApart, ActivationRecords, AttemptPhaseSets DEF IndependentReady, AppendA, LegalReady,
     TriedThisBoot, SameBoot, Inv, TypeOK, PlaceInv, Publishing
<1>6. DiskInv'
  BY ActivationRecords DEF IndependentReady, AppendA, LegalReady, TriedThisBoot, SameBoot, Inv,
     DiskInv, P, A, R
<1> QED BY <1>1, <1>2, <1>3, <1>4, <1>5, <1>6 DEF Inv

LEMMA EnableIntentKeeps ==
    ASSUME Inv, EnableIntent
    PROVE  Inv'
<1> SUFFICES ASSUME ~(Stop /\ UNCHANGED <<disk, p, r, a, sent>>) PROVE Inv'
  BY StopKeeps DEF Inv, TypeOK, EnableIntent, AppendA
<1>1. TypeOK'
  BY NoneIsApart, ActivationRecords, AttemptPhaseSets DEF EnableIntent, AppendA, Inv, TypeOK,
     PlaceInv
<1>2. OrderInv'
  BY NoneIsApart, ActivationRecords, AttemptPhaseSets DEF EnableIntent, AppendA, Inv, OrderInv,
     PlaceInv, P, R
<1>3. SepInv'
  BY ActivationRecords DEF EnableIntent, AppendA, Inv, SepInv, P, R
<1>4. SentInv'
  BY ActivationRecords DEF EnableIntent, AppendA, Inv, SentInv, R
<1>5. PlaceInv'
  BY NoneIsApart, ActivationRecords, AttemptPhaseSets DEF EnableIntent, AppendA, Inv, TypeOK,
     PlaceInv, A
<1>6. DiskInv'
  BY ActivationRecords DEF EnableIntent, AppendA, Inv, DiskInv, P, A, R
<1> QED BY <1>1, <1>2, <1>3, <1>4, <1>5, <1>6 DEF Inv

LEMMA ProvisionUnknownKeeps ==
    ASSUME Inv, ProvisionUnknown
    PROVE  Inv'
<1>1. TypeOK'
  BY NoneIsApart, ProvisionRecords, ProvisionPhaseSet, AttemptPhaseSets, FailuresAssumption,
     ClosedKeeps DEF ProvisionUnknown, Fails, Lost, LegalProvisionUnknown, Inv, TypeOK, PlaceInv,
     P, SepStates
<1>2. OrderInv'
  BY ProvisionRecords, ProvisionPhaseSet, FailuresAssumption, ClosedKeeps DEF ProvisionUnknown,
     Fails, Lost, LegalProvisionUnknown, Inv, OrderInv, P, R, SepStates
<1>3. SepInv'
  BY NoneIsApart, ProvisionRecords, ProvisionPhaseSet, AttemptPhaseSets, FailuresAssumption,
     ClosedKeeps DEF ProvisionUnknown, Fails, Lost, LegalProvisionUnknown, Inv, TypeOK, OrderInv,
     SepInv, PlaceInv, P, R, SepStates
<1>4. SentInv'
  BY ProvisionRecords, ProvisionPhaseSet, FailuresAssumption, ClosedKeeps DEF ProvisionUnknown,
     Fails, Lost, LegalProvisionUnknown, Inv, SentInv, R, SepStates
<1>5. PlaceInv'
  BY ProvisionRecords, ProvisionPhaseSet, FailuresAssumption, ClosedKeeps DEF ProvisionUnknown,
     Fails, Lost, LegalProvisionUnknown, Inv, PlaceInv, Publishing, SepStates
<1>6. DiskInv'
  BY NoneIsApart, ProvisionRecords, ProvisionPhaseSet, AttemptPhaseSets, FailuresAssumption,
     ClosedKeeps DEF ProvisionUnknown, Fails, Lost, LegalProvisionUnknown, Inv, TypeOK, PlaceInv,
     DiskInv, P, A, R, SepStates
<1> QED BY <1>1, <1>2, <1>3, <1>4, <1>5, <1>6 DEF Inv

LEMMA PublishFailsKeeps ==
    ASSUME Inv, PublishFails
    PROVE  Inv'
<1>0. /\ pc' = "idle" /\ sep' \in SepStates
      /\ sep'.primary = sep.primary /\ sep'.late = sep.late
  BY StopFacts DEF PublishFails, Inv
<1>00. /\ disk' \in DiskStates
       /\ disk'.mapping = disk.mapping /\ disk'.before = disk.before /\ disk'.archive = disk.archive
       /\ disk'.keybag = disk.keybag /\ disk'.bundle = disk.bundle
  BY DEF PublishFails, WithTemp, Inv, TypeOK, DiskStates
<1>1. TypeOK'
  BY <1>0, <1>00, FailuresAssumption DEF PublishFails, Fails, journals, Inv, TypeOK
<1>2. OrderInv'
  BY <1>0, <1>00, FailuresAssumption DEF PublishFails, Fails, journals, Inv, OrderInv, P, R
<1>3. SepInv'
  BY <1>0, <1>00, FailuresAssumption DEF PublishFails, Fails, journals, Inv, SepInv, P, R
<1>4. SentInv'
  BY <1>0, <1>00, FailuresAssumption DEF PublishFails, Fails, journals, Inv, SentInv, R
<1>5. PlaceInv'
  BY <1>0, <1>00, FailuresAssumption DEF PublishFails, Fails, journals, Inv, PlaceInv, Publishing
<1>6. DiskInv'
  BY <1>0, <1>00, FailuresAssumption DEF PublishFails, Fails, journals, Inv, DiskInv, P, A, R
<1> QED BY <1>1, <1>2, <1>3, <1>4, <1>5, <1>6 DEF Inv

LEMMA DeleteUnknownKeeps ==
    ASSUME Inv, DeleteUnknown
    PROVE  Inv'
<1>1. TypeOK'
  <2>1. PICK s \in {Deleted(sep), sep, [sep EXCEPT !.late = "delete"]} : sep' \in Closed(s)
    BY DEF DeleteUnknown, Lost
  <2>2. s \in SepStates
    BY DEF Inv, TypeOK, SepStates, Deleted
  <2>3. r \in ReplacementJournal
    BY NoneIsApart DEF Inv, TypeOK, PlaceInv, R, DeleteUnknown
  <2>4. r' \in ReplacementJournal
    BY <2>3, ReplacementRecordsListed DEF DeleteUnknown
  <2>5. failures' \in 0 .. MaxFailures /\ sent' \in [delete : Nat, create : Nat]
    BY FailuresAssumption DEF Inv, TypeOK, DeleteUnknown, Fails
  <2> QED BY <2>1, <2>2, <2>4, <2>5, ClosedKeeps DEF Inv, TypeOK, DeleteUnknown
<1>2. OrderInv'
  BY NoneIsApart, ReplacementRecordsListed, ReplacementTable, AttemptPhaseSets, FailuresAssumption,
     ClosedKeeps DEF DeleteUnknown, Fails, Lost, Deleted, Inv, OrderInv, PlaceInv, P, R, SepStates
<1>3. SepInv'
  <2>1. PICK s \in {Deleted(sep), sep, [sep EXCEPT !.late = "delete"]} : sep' \in Closed(s)
    BY DEF DeleteUnknown, Lost
  <2>2. s \in SepStates /\ s.late \in {sep.late, "delete"} /\ s.primary \in {sep.primary, Deleted(sep).primary}
    BY DEF Inv, TypeOK, SepStates, Deleted
  <2>3. r \in ReplacementJournal /\ r # None /\ r.phase = "delete-intent" /\ r.init = "now"
    BY NoneIsApart DEF Inv, TypeOK, PlaceInv, R, DeleteUnknown
  <2>4. /\ r' # None /\ r'.phase = "delete-outcome-unknown" /\ r'.init = r.init /\ r'.recon = r.recon
    BY <2>3, NoneIsApart, ReplacementRecordsListed, ReplacementTable DEF DeleteUnknown
  <2>5. sep'.late = s.late /\ sep'.primary = s.primary /\ pc' = "idle" /\ p' = p
    BY <2>1, <2>2, ClosedKeeps DEF DeleteUnknown
  <2>6. sep.late # "provision" /\ sep.late # "create" /\ sep.primary # "new"
    BY <2>3 DEF Inv, OrderInv, SepInv, CreateAmbiguous, AfterCreate, Reopenable, P, R
  <2>7. Deleted(sep).primary \in {None, "old"}
    BY <2>6 DEF Inv, TypeOK, SepStates, Deleted
  <2> QED
    BY <2>2, <2>3, <2>4, <2>5, <2>6, <2>7, NoneIsApart DEF Inv, TypeOK, SepStates, SepInv, DeleteAmbiguous, P, R
<1>4. SentInv'
  BY NoneIsApart, ReplacementRecordsListed, ReplacementTable, AttemptPhaseSets, FailuresAssumption,
     ClosedKeeps DEF DeleteUnknown, Fails, Lost, Deleted, Inv, TypeOK, SentInv, PlaceInv, R,
     BeforeCreate, SepStates
<1>5. PlaceInv'
  BY ReplacementRecordsListed, ReplacementTable, FailuresAssumption, ClosedKeeps DEF DeleteUnknown,
     Fails, Lost, Deleted, Inv, PlaceInv, Publishing, SepStates
<1>6. DiskInv'
  BY NoneIsApart, ReplacementRecordsListed, ReplacementTable, AttemptPhaseSets, FailuresAssumption,
     ClosedKeeps DEF DeleteUnknown, Fails, Lost, Deleted, Inv, TypeOK, PlaceInv, DiskInv, P, R,
     SepStates
<1> QED BY <1>1, <1>2, <1>3, <1>4, <1>5, <1>6 DEF Inv

LEMMA CreateUnknownKeeps ==
    ASSUME Inv, CreateUnknown
    PROVE  Inv'
<1>1. TypeOK'
  <2>1. PICK s \in {Created(sep), sep, [sep EXCEPT !.late = "create"]} : sep' \in Closed(s)
    BY DEF CreateUnknown, Lost
  <2>2. s \in SepStates
    BY DEF Inv, TypeOK, SepStates, Created
  <2>3. r \in ReplacementJournal
    BY NoneIsApart DEF Inv, TypeOK, PlaceInv, R, CreateUnknown
  <2>4. r' \in ReplacementJournal
    BY <2>3, ReplacementRecordsListed DEF CreateUnknown
  <2>5. failures' \in 0 .. MaxFailures /\ sent' \in [delete : Nat, create : Nat]
    BY FailuresAssumption DEF Inv, TypeOK, CreateUnknown, Fails
  <2> QED BY <2>1, <2>2, <2>4, <2>5, ClosedKeeps DEF Inv, TypeOK, CreateUnknown
<1>2. OrderInv'
  BY NoneIsApart, ReplacementRecordsListed, ReplacementTable, AttemptPhaseSets, FailuresAssumption,
     ClosedKeeps DEF CreateUnknown, Fails, Lost, Created, Inv, OrderInv, PlaceInv, P, R, SepStates
<1>3. SepInv'
  <2>1. PICK s \in {Created(sep), sep, [sep EXCEPT !.late = "create"]} : sep' \in Closed(s)
    BY DEF CreateUnknown, Lost
  <2>2. s \in SepStates /\ s.late \in {sep.late, "create"} /\ s.primary \in {sep.primary, Created(sep).primary}
    BY DEF Inv, TypeOK, SepStates, Created
  <2>3. r \in ReplacementJournal /\ r # None /\ r.phase = "create-intent" /\ r.recon = "now"
    BY NoneIsApart DEF Inv, TypeOK, PlaceInv, R, CreateUnknown
  <2>4. /\ r' # None /\ r'.phase = "create-outcome-unknown" /\ r'.init = r.init /\ r'.recon = r.recon
    BY <2>3, NoneIsApart, ReplacementRecordsListed, ReplacementTable DEF CreateUnknown
  <2>5. sep'.late = s.late /\ sep'.primary = s.primary /\ pc' = "idle" /\ p' = p
    BY <2>1, <2>2, ClosedKeeps DEF CreateUnknown
  <2>6. sep.late # "provision" /\ sep.late # "delete" /\ sep.primary = None
    BY <2>3 DEF Inv, OrderInv, SepInv, P, R, CreateUnknown
  <2>7. Created(sep).primary = "new"
    BY <2>6 DEF Inv, TypeOK, SepStates, Created
  <2> QED
    BY <2>2, <2>3, <2>4, <2>5, <2>6, <2>7, NoneIsApart DEF Inv, TypeOK, SepStates, SepInv, CreateAmbiguous, P, R
<1>4. SentInv'
  BY NoneIsApart, ReplacementRecordsListed, ReplacementTable, AttemptPhaseSets, FailuresAssumption,
     ClosedKeeps DEF CreateUnknown, Fails, Lost, Created, Inv, TypeOK, SentInv, PlaceInv, R,
     BeforeCreate, Reconciled, SepStates
<1>5. PlaceInv'
  BY ReplacementRecordsListed, ReplacementTable, FailuresAssumption, ClosedKeeps DEF CreateUnknown,
     Fails, Lost, Created, Inv, PlaceInv, Publishing, SepStates
<1>6. DiskInv'
  BY NoneIsApart, ReplacementRecordsListed, ReplacementTable, AttemptPhaseSets, FailuresAssumption,
     ClosedKeeps DEF CreateUnknown, Fails, Lost, Created, Inv, TypeOK, PlaceInv, DiskInv, P, R,
     SepStates
<1> QED BY <1>1, <1>2, <1>3, <1>4, <1>5, <1>6 DEF Inv

LEMMA ExportUnknownKeeps ==
    ASSUME Inv, ExportUnknown
    PROVE  Inv'
<1>0. /\ pc' = "idle" /\ sep' \in SepStates
      /\ sep'.primary = sep.primary /\ sep'.late = sep.late
  BY StopFacts DEF ExportUnknown, Inv
<1>1. TypeOK'
  BY <1>0, NoneIsApart, ReplacementRecordsListed, ReplacementTable, AttemptPhaseSets,
     FailuresAssumption DEF ExportUnknown, Fails, Inv, TypeOK, PlaceInv, R
<1>2. OrderInv'
  BY <1>0, NoneIsApart, ReplacementRecordsListed, ReplacementTable, AttemptPhaseSets,
     FailuresAssumption DEF ExportUnknown, Fails, Inv, OrderInv, PlaceInv, P, R
<1>3. SepInv'
  BY <1>0, NoneIsApart, ReplacementRecordsListed, ReplacementTable, AttemptPhaseSets,
     FailuresAssumption DEF ExportUnknown, Fails, Inv, TypeOK, SepInv, PlaceInv, P, R, AfterCreate,
     DeleteAmbiguous, Reopenable
<1>4. SentInv'
  BY <1>0, NoneIsApart, ReplacementRecordsListed, ReplacementTable, AttemptPhaseSets,
     FailuresAssumption DEF ExportUnknown, Fails, Inv, TypeOK, SentInv, PlaceInv, R, BeforeCreate,
     Reconciled
<1>5. PlaceInv'
  BY <1>0, ReplacementRecordsListed, ReplacementTable, FailuresAssumption DEF ExportUnknown, Fails,
     Inv, PlaceInv, Publishing
<1>6. DiskInv'
  BY <1>0, NoneIsApart, ReplacementRecordsListed, ReplacementTable, AttemptPhaseSets,
     FailuresAssumption DEF ExportUnknown, Fails, Inv, TypeOK, PlaceInv, DiskInv, P, R
<1> QED BY <1>1, <1>2, <1>3, <1>4, <1>5, <1>6 DEF Inv

LEMMA AttemptFailsKeeps ==
    ASSUME Inv, AttemptFails
    PROVE  Inv'
<1>0. /\ sep' \in SepStates
      /\ sep'.primary = sep.primary /\ sep'.late = sep.late
  <2>1. PICK s \in {sep, Effect(a.phase)} : sep' \in Closed(s)
    BY DEF AttemptFails
  <2>2. s \in SepStates /\ s.primary = sep.primary /\ s.late = sep.late
    <3>1. s \in {sep, [sep EXCEPT !.handle = TRUE], [sep EXCEPT !.handle = FALSE],
                [sep EXCEPT !.alias = "locked"], [sep EXCEPT !.alias = "ready"]}
      BY DEF Effect
    <3> QED BY <3>1, ZenonT(60) DEF Inv, TypeOK, SepStates
  <2> QED BY <2>1, <2>2, ClosedKeeps
<1>1. TypeOK'
  BY <1>0, NoneIsApart, ActivationRecords, AttemptPhaseSets, FailuresAssumption DEF AttemptFails,
     Fails, LegalInterrupted, Inv, TypeOK, PlaceInv, A
<1>2. OrderInv'
  BY <1>0, NoneIsApart, ActivationRecords, AttemptPhaseSets, FailuresAssumption DEF AttemptFails,
     Fails, LegalInterrupted, Inv, OrderInv, PlaceInv, P, A, R
<1>3. SepInv'
  BY <1>0, ActivationRecords, FailuresAssumption DEF AttemptFails, Fails, LegalInterrupted, Inv,
     SepInv, P, R
<1>4. SentInv'
  BY <1>0, ActivationRecords, FailuresAssumption DEF AttemptFails, Fails, LegalInterrupted, Inv,
     SentInv, R
<1>5. PlaceInv'
  BY <1>0, ActivationRecords, FailuresAssumption DEF AttemptFails, Fails, LegalInterrupted, Inv,
     PlaceInv, Publishing
<1>6. DiskInv'
  BY <1>0, NoneIsApart, ActivationRecords, AttemptPhaseSets, FailuresAssumption DEF AttemptFails,
     Fails, LegalInterrupted, Inv, DiskInv, P, A, R
<1> QED BY <1>1, <1>2, <1>3, <1>4, <1>5, <1>6 DEF Inv

LEMMA LateEffectKeeps ==
    ASSUME Inv, LateEffect
    PROVE  Inv'
<1>1. TypeOK'
  BY DEF LateEffect, Deleted, Created, journals, Inv, TypeOK, SepStates
<1>2. OrderInv'
  BY DEF LateEffect, Deleted, Created, journals, Inv, OrderInv, P, R, SepStates
<1>3. SepInv'
  BY NoneIsApart, AttemptPhaseSets DEF LateEffect, Deleted, Created, journals, Inv, TypeOK,
     OrderInv, SepInv, PlaceInv, P, R, CreateAmbiguous, SepStates
<1>4. SentInv'
  BY DEF LateEffect, Deleted, Created, journals, Inv, SentInv, R, SepStates
<1>5. PlaceInv'
  BY DEF LateEffect, Deleted, Created, journals, Inv, PlaceInv, P, A, R, Replacing, SepStates
<1>6. DiskInv'
  BY DEF LateEffect, Deleted, Created, journals, Inv, DiskInv, P, A, R, Replacing, SepStates
<1> QED BY <1>1, <1>2, <1>3, <1>4, <1>5, <1>6 DEF Inv

LEMMA ReloadModuleKeeps ==
    ASSUME Inv, ReloadModule
    PROVE  Inv'
<1>1. TypeOK'
  BY JournalsAge DEF ReloadModule, Moved, Inv, TypeOK, SepStates
<1>2. OrderInv'
  BY JournalsAge DEF ReloadModule, Moved, Inv, OrderInv, P, R, SepStates
<1>3. SepInv'
  BY JournalsAge DEF ReloadModule, Moved, Inv, SepInv, P, R, SepStates
<1>4. SentInv'
  BY JournalsAge DEF ReloadModule, Moved, Inv, SentInv, R, SepStates
<1>5. PlaceInv'
  BY JournalsAge DEF ReloadModule, Moved, Inv, PlaceInv, Publishing, SepStates
<1>6. DiskInv'
  BY JournalsAge DEF ReloadModule, Moved, Inv, DiskInv, P, A, R, SepStates
<1> QED BY <1>1, <1>2, <1>3, <1>4, <1>5, <1>6 DEF Inv

LEMMA RebootKeeps ==
    ASSUME Inv, Reboot
    PROVE  Inv'
<1>0. disk' = Linked(disk) /\ sep' \in NextBoot /\ AllOwned(Aged) /\ pc' = "idle" /\ TypeOK
  BY DEF Reboot, Inv
<1>1. TypeOK'
  BY <1>0, NextBootFacts, LinkedFacts, JournalsAge DEF Reboot, Inv, TypeOK
<1>2. OrderInv'
  BY <1>0, NextBootFacts, LinkedFacts, JournalsAge DEF Reboot, Inv, OrderInv, P, R
<1>3. SepInv'
  BY <1>0, NextBootFacts, LinkedFacts, NoneIsApart, JournalsAge, AttemptPhaseSets DEF Reboot, Inv,
     SepInv, R
<1>4. SentInv'
  BY <1>0, NextBootFacts, LinkedFacts, JournalsAge DEF Reboot, Inv, SentInv, R
<1>5. PlaceInv'
  BY <1>0, NextBootFacts, LinkedFacts, JournalsAge DEF Reboot, Inv, PlaceInv, Publishing
<1>6. DiskInv'
  BY <1>0, NextBootFacts, LinkedFacts, NoneIsApart, JournalsAge, AttemptPhaseSets DEF Reboot, Inv,
     TypeOK, DiskInv, P, A, R, Published
<1> QED BY <1>1, <1>2, <1>3, <1>4, <1>5, <1>6 DEF Inv

LEMMA PowerLossKeeps ==
    ASSUME Inv, PowerLoss
    PROVE  Inv'
<1>0. disk' \in Unlinked(disk) /\ sep' \in NextBoot /\ AllOwned(Aged) /\ pc' = "idle" /\ TypeOK
  BY DEF PowerLoss, Inv
<1>00. failures' \in 0 .. MaxFailures
  BY FailuresAssumption DEF PowerLoss, Fails, Inv, TypeOK
<1>1. TypeOK'
  BY <1>0, <1>00, NextBootFacts, UnlinkedFacts, JournalsAge DEF PowerLoss, Inv, TypeOK
<1>2. OrderInv'
  BY <1>0, <1>00, NextBootFacts, UnlinkedFacts, JournalsAge DEF PowerLoss, Inv, OrderInv, P, R
<1>3. SepInv'
  BY <1>0, <1>00, NextBootFacts, UnlinkedFacts, NoneIsApart, JournalsAge, AttemptPhaseSets DEF
     PowerLoss, Inv, SepInv, R
<1>4. SentInv'
  BY <1>0, <1>00, NextBootFacts, UnlinkedFacts, JournalsAge DEF PowerLoss, Inv, SentInv, R
<1>5. PlaceInv'
  BY <1>0, <1>00, NextBootFacts, UnlinkedFacts, JournalsAge DEF PowerLoss, Inv, PlaceInv,
     Publishing
<1>6. DiskInv'
  BY <1>0, <1>00, NextBootFacts, UnlinkedFacts, NoneIsApart, JournalsAge, AttemptPhaseSets DEF
     PowerLoss, Inv, DiskInv, P, A, R, Published
<1> QED BY <1>1, <1>2, <1>3, <1>4, <1>5, <1>6 DEF Inv

LEMMA CloseOwnerKeeps ==
    ASSUME Inv, CloseOwner \/ OwnerDies
    PROVE  Inv'
BY StopKeeps, FailuresAssumption DEF CloseOwner, OwnerDies, Fails, journals, Inv, TypeOK

-----------------------------------------------------------------------------
(* Operations on the identity leave the setup alone. *)

\* Steps that touch neither the identity in the SEP nor the disk and the journals of the setup.
LEMMA QuietKeeps ==
    ASSUME Inv, UNCHANGED <<disk, p, r, a, sent>>, failures' \in 0 .. MaxFailures,
           sep' \in SepStates, sep'.primary = sep.primary, sep'.late = sep.late,
           pc' \in {"idle", "user"}
    PROVE  Inv'
<1>1. TypeOK'
  BY DEF Inv, TypeOK
<1>2. OrderInv' /\ SentInv'
  BY DEF Inv, OrderInv, SentInv, R, P
<1>3. SepInv'
  BY DEF Inv, SepInv, R, P
<1>4. PlaceInv'
  BY DEF PlaceInv, Publishing
<1>5. DiskInv'
  BY DEF Inv, DiskInv, R, P, A, Replacing
<1> QED BY <1>1, <1>2, <1>3, <1>4, <1>5 DEF Inv

\* A command of an operation changes the handle or the alias.
LEMMA UserEffectFacts ==
    ASSUME TypeOK, NEW phase, NEW s \in UserEffect(phase)
    PROVE  /\ s \in SepStates /\ s.primary = sep.primary /\ s.late = sep.late
           /\ phase = "unload-intent" => ~s.handle
           /\ phase = "handle-released" => s = sep
<1>1. \/ s \in {[sep EXCEPT !.handle = TRUE], [sep EXCEPT !.alias = "ready"]}
            /\ phase \notin {"unload-intent", "handle-released"}
      \/ phase = "unload-intent" /\ s = [sep EXCEPT !.handle = FALSE]
      \/ phase = "bind-intent" /\ \E l \in {"locked", sep.alias} \ {"absent"} : s = [sep EXCEPT !.alias = l]
      \/ s = sep /\ phase # "unload-intent"
  BY DEF UserEffect
<1> QED BY <1>1, ZenonT(60) DEF TypeOK, SepStates

\* Every step of an operation is such a step.
LEMMA UserStepKeeps ==
    ASSUME Inv, Operation \/ UserFailure \/ RecoverUser \/ Prune
    PROVE  Inv'
<1> USE DEF Inv
<1>1. CASE RecoverUser \/ Prune
  <2>1. UNCHANGED vars
    BY <1>1 DEF RecoverUser, Prune
  <2> QED BY <2>1 DEF vars, TypeOK, OrderInv, SepInv, SentInv, PlaceInv, DiskInv, P, A, R, Replacing
<1> SUFFICES ASSUME Operation \/ UserFailure PROVE Inv'
  BY <1>1
<1>2. /\ UNCHANGED <<disk, p, r, a, sent>> /\ pc' \in {"idle", "user"}
      /\ failures' = failures \/ Fails
      /\ \/ sep' = sep
         \/ sep' = [sep EXCEPT !.alias = "locked"]
         \/ sep' \in Closed(sep)
         \/ \E s \in UserEffect(u.phase) : sep' = s \/ sep' \in Closed(s)
  <2>1. CASE BeginRun \/ BeginRetain \/ UserEnds \/ BodyFails \/ BodyLocks
    BY <2>1 DEF BeginRun, BeginRetain, BeginUser, UserEnds, BodyFails, BodyLocks, Stop, UserRuns, journals
  <2>2. CASE UserStep \/ ReleaseUnconfirmed \/ BagMismatch
    BY <2>2 DEF UserStep, ReleaseUnconfirmed, BagMismatch, Terminal, UserRuns, journals
  <2>3. CASE UserFails
    BY <2>3 DEF UserFails, UserRuns, journals
  <2>4. CASE UserCommandRaises
    BY <2>4 DEF UserCommandRaises, Terminal, UserRuns, journals
  <2> QED BY <2>1, <2>2, <2>3, <2>4 DEF Operation, UserFailure
<1>3. failures' \in 0 .. MaxFailures
  BY <1>2, FailuresAssumption DEF TypeOK, Fails
<1>4. [sep EXCEPT !.alias = "locked"] \in SepStates
      /\ [sep EXCEPT !.alias = "locked"].primary = sep.primary
      /\ [sep EXCEPT !.alias = "locked"].late = sep.late
  BY DEF TypeOK, SepStates
<1>5. sep' \in SepStates /\ sep'.primary = sep.primary /\ sep'.late = sep.late
  <2>1. CASE \E s \in UserEffect(u.phase) : sep' = s \/ sep' \in Closed(s)
    BY <2>1, UserEffectFacts, ClosedKeeps
  <2> QED BY <1>2, <1>4, <2>1, ClosedKeeps DEF TypeOK
<1> QED BY <1>2, <1>3, <1>5, QuietKeeps

-----------------------------------------------------------------------------
(* The invariant. *)

LEMMA InitInv == UserInit => Inv
<1> SUFFICES ASSUME UserInit PROVE Inv
  OBVIOUS
<1>1. TypeOK
  BY FailuresAssumption DEF UserInit, Init, TypeOK, SepStates, DiskStates, Mappings, NoCalls
<1>2. OrderInv /\ SepInv /\ SentInv /\ PlaceInv
  BY NoneIsApart DEF UserInit, Init, OrderInv, SepInv, SentInv, PlaceInv, NoCalls, P, A, R, Publishing
<1>3. DiskInv
  BY NoneIsApart DEF UserInit, Init, DiskInv, P, A, R, Replacing, Published
<1> QED BY <1>1, <1>2, <1>3 DEF Inv

LEMMA OwnerKeeps ==
    ASSUME Inv, Owner \/ OwnerFailure
    PROVE  Inv'
BY ProvisionKeeps, ProvisionCreateKeeps, ProvisionRecordKeeps, SaveKeybagKeeps, VerifyKeeps, CloseOwnerKeeps,
   PublishKeeps, ArchiveKeeps, ArchiveWriteKeeps, OpenTempKeeps, WriteTempKeeps, RenameKeeps,
   SyncMappingKeeps, RecordPublishedKeeps, PrepareReplacementKeeps, StageSecretKeeps, SecretStagedKeeps,
   DeleteIntentKeeps, DeleteKeeps, DeleteSucceededKeeps, ResumeReplacementKeeps, ArchiveAbandonedKeeps,
   AbandonKeeps, ReconcileAbsenceKeeps, ReconcileDeleteKeeps, ReconfirmKeeps, CreateIntentKeeps, CreateKeeps,
   CreateSucceededKeeps, RecoverKeeps, ExportKeeps, RenameBundleKeeps, SyncBundleKeeps, ReleaseKeeps,
   StartActivationKeeps, ResumeActivationKeeps, ObserveKeeps, StartAttemptKeeps, AttemptStepKeeps,
   IndependentReadyKeeps, EnableIntentKeeps, ProvisionUnknownKeeps, PublishFailsKeeps, DeleteUnknownKeeps,
   CreateUnknownKeeps, ExportUnknownKeeps, AttemptFailsKeeps DEF Owner, OwnerFailure

LEMMA NextInv == Inv /\ [UserNextStep]_allvars => Inv'
<1> SUFFICES ASSUME Inv, [UserNextStep]_allvars PROVE Inv'
  OBVIOUS
<1>1. CASE Operation \/ UserFailure \/ RecoverUser \/ Prune
  BY <1>1, UserStepKeeps
<1>2. CASE FirstRun
  BY <1>2, OwnerKeeps, LateEffectKeeps, ReloadModuleKeeps, RebootKeeps, PowerLossKeeps DEF FirstRun
<1>3. CASE UNCHANGED allvars
  BY <1>3 DEF allvars, vars, Inv, TypeOK, OrderInv, SepInv, SentInv, PlaceInv, DiskInv, P, A, R, Replacing
<1> QED BY <1>1, <1>2, <1>3 DEF UserNextStep

\* The invariant holds in every state of the setup and of the operations on it.
THEOREM Invariance == UserSpec => []Inv
<1>1. UserInit => Inv
  BY InitInv
<1>2. Inv /\ [UserNextStep]_allvars => Inv'
  BY NextInv
<1> QED BY <1>1, <1>2, PTL DEF UserSpec

\* What a reconciliation writes about a delete or a create whose reply was lost stays true, and
\* each is sent once, however often the owner dies, the driver is bound again or the machine
\* loses power (reconcile_delete, recover_create_or_export, abandon_before_delete).
THEOREM IdentityAlwaysHolds == UserSpec => []IdentityHolds
<1>1. Inv => IdentityHolds
  BY NoneIsApart DEF Inv, IdentityHolds, VerdictsHold, OneDispatch, TypeOK, SepStates, SepInv, SentInv, OrderInv,
     Reconciled, CreateAmbiguous, DeleteAmbiguous, AfterCreate, Reopenable, P, R
<1> QED BY <1>1, Invariance, PTL

\* A mapping to the new identity is never there without its archive and the bundle with the
\* secret, and never enabled before the alias was seen ready by another owner (commit of
\* ReplacementUserMappingStore and of ActivationBundleStore, enable of t2-native-replace-activate).
THEOREM MappingAlwaysHolds == UserSpec => []MappingHolds
<1>1. Inv => MappingHolds
  BY DEF Inv, MappingHolds, NewMappingIsBacked, EnableIsEarned, DiskInv, Published, R, A
<1> QED BY <1>1, Invariance, PTL

-----------------------------------------------------------------------------
(* A journal that ends as ready tells the truth. *)

LEMMA ClosedHandle ==
    ASSUME NEW s \in SepStates, NEW t \in Closed(s)
    PROVE  ~t.handle
BY DEF Closed, SepStates

\* An owner of the setup never runs an operation, and leaves no handle behind.
LEMMA OwnerLeavesNoHandle ==
    ASSUME Inv, UserInv, Owner \/ OwnerFailure
    PROVE  pc' # "user" /\ (pc' = "idle" => ~sep'.handle)
<1>0. TypeOK
  BY DEF Inv
<1>00. sep \in SepStates /\ (Stop => pc' = "idle" /\ ~sep'.handle)
  BY <1>0, ClosedHandle DEF Stop, TypeOK
<1>1. CASE Provision
  BY <1>1, <1>00 DEF Provision, Opens
<1>2. CASE ProvisionCreate
  BY <1>2, <1>00 DEF ProvisionCreate
<1>3. CASE ProvisionRecord
  <2>1. p \in ProvisionJournal /\ p.phase \in {"create-intent", "create-succeeded", "export-intent",
                                               "export-succeeded", "keybag-committed"}
    BY <1>3, NoneIsApart DEF Inv, TypeOK, PlaceInv, P, ProvisionRecord
  <2>2. /\ NextProvision(p).phase \in ProvisionPhases
        /\ \A ph \in ProvisionPhases : AfterProvision[ph] \in {"p_export", "p_keybag", "publish", "close", "p_record"}
    BY <2>1, ProvisionStep, ProvisionPhaseSet DEF AfterProvision
  <2> QED BY <1>3, <2>2 DEF ProvisionRecord
<1>4. CASE SaveKeybag
  BY <1>4, <1>00 DEF SaveKeybag
<1>5. CASE Verify
  BY <1>5, <1>00 DEF Verify, Opens, AppendP
<1>6. CASE CloseOwner
  BY <1>6, <1>00 DEF CloseOwner
<1>7. CASE Publish
  BY <1>7, <1>00 DEF Publish
<1>8. CASE Archive
  BY <1>8, <1>0, NoneIsApart DEF Archive, TypeOK, DiskStates
<1>9. CASE ArchiveWrite
  BY <1>9, <1>00 DEF ArchiveWrite
<1>10. CASE OpenTemp
  BY <1>10, <1>00 DEF OpenTemp
<1>11. CASE WriteTemp
  BY <1>11, <1>00 DEF WriteTemp
<1>12. CASE Rename
  BY <1>12, <1>00 DEF Rename
<1>13. CASE SyncMapping
  BY <1>13, <1>00 DEF SyncMapping
<1>14. CASE RecordPublished
  BY <1>14, <1>00 DEF RecordPublished, AppendR, AppendA, AppendP
<1>15. CASE PrepareReplacement
  BY <1>15, <1>00 DEF PrepareReplacement, Opens
<1>16. CASE StageSecret
  BY <1>16, <1>00 DEF StageSecret
<1>17. CASE SecretStaged
  BY <1>17, <1>00 DEF SecretStaged, AppendR
<1>18. CASE DeleteIntent
  BY <1>18, <1>00 DEF DeleteIntent, AppendR, SecretReadable
<1>19. CASE Delete
  BY <1>19, <1>00 DEF Delete
<1>20. CASE DeleteSucceeded
  BY <1>20, <1>00 DEF DeleteSucceeded, AppendR
<1>21. CASE ResumeReplacement
  <2>1. r.phase \in ReplacementPhases
    BY <1>21, NoneIsApart DEF ResumeReplacement, Inv, TypeOK, ReplacementJournal
  <2> QED BY <1>21, <2>1, ResumeStages DEF ResumeReplacement
<1>22. CASE ArchiveAbandoned
  BY <1>22, <1>00 DEF ArchiveAbandoned, UserInv
<1>23. CASE Abandon
  BY <1>23, <1>00 DEF Abandon, AppendR
<1>24. CASE ReconcileAbsence
  BY <1>24, <1>00 DEF ReconcileAbsence, AppendR
<1>25. CASE ReconcileDelete
  BY <1>25, <1>00 DEF ReconcileDelete, AppendR
<1>26. CASE Reconfirm
  BY <1>26, <1>00 DEF Reconfirm, AppendR
<1>27. CASE CreateIntent
  BY <1>27, <1>00 DEF CreateIntent, AppendR, SecretReadable
<1>28. CASE Create
  BY <1>28, <1>00 DEF Create
<1>29. CASE CreateSucceeded
  BY <1>29, <1>00 DEF CreateSucceeded, AppendR
<1>30. CASE Recover
  BY <1>30, <1>00 DEF Recover, AppendR
<1>31. CASE Export
  BY <1>31, <1>00 DEF Export, ExportSteps, AppendR
<1>32. CASE RenameBundle
  BY <1>32, <1>00 DEF RenameBundle, SecretReadable
<1>33. CASE SyncBundle
  BY <1>33, <1>00 DEF SyncBundle
<1>34. CASE Release
  BY <1>34, <1>00 DEF Release, AppendR, SepStates
<1>35. CASE StartActivation
  BY <1>35, <1>00 DEF StartActivation, Opens
<1>36. CASE ResumeActivation
  BY <1>36, <1>00 DEF ResumeActivation, Opens
<1>37. CASE Observe
  BY <1>37, <1>00 DEF Observe, AppendA
<1>38. CASE StartAttempt
  BY <1>38, <1>00 DEF StartAttempt, AppendA
<1>39. CASE AttemptStep
  BY <1>39, <1>00 DEF AttemptStep
<1>40. CASE IndependentReady
  BY <1>40, <1>00 DEF IndependentReady, AppendA
<1>41. CASE EnableIntent
  BY <1>41, <1>00 DEF EnableIntent, AppendA
<1>42. CASE ProvisionUnknown
  <2>1. PICK s \in {[sep EXCEPT !.primary = "old"], [sep EXCEPT !.late = "provision"], sep} : sep' \in Closed(s)
    BY <1>42 DEF ProvisionUnknown, Lost
  <2>2. s \in SepStates
    BY <1>00 DEF SepStates, Deleted, Created
  <2> QED BY <1>42, <2>1, <2>2, ClosedHandle DEF ProvisionUnknown
<1>43. CASE PublishFails
  BY <1>43, <1>00 DEF PublishFails
<1>44. CASE DeleteUnknown
  <2>1. PICK s \in {Deleted(sep), [sep EXCEPT !.late = "delete"], sep} : sep' \in Closed(s)
    BY <1>44 DEF DeleteUnknown, Lost
  <2>2. s \in SepStates
    BY <1>00 DEF SepStates, Deleted, Created
  <2> QED BY <1>44, <2>1, <2>2, ClosedHandle DEF DeleteUnknown
<1>45. CASE CreateUnknown
  <2>1. PICK s \in {Created(sep), [sep EXCEPT !.late = "create"], sep} : sep' \in Closed(s)
    BY <1>45 DEF CreateUnknown, Lost
  <2>2. s \in SepStates
    BY <1>00 DEF SepStates, Deleted, Created
  <2> QED BY <1>45, <2>1, <2>2, ClosedHandle DEF CreateUnknown
<1>46. CASE ExportUnknown
  BY <1>46, <1>00 DEF ExportUnknown
<1>47. CASE AttemptFails
  <2>1. PICK s \in {sep, [sep EXCEPT !.handle = TRUE], [sep EXCEPT !.handle = FALSE], [sep EXCEPT !.alias = "locked"], [sep EXCEPT !.alias = "ready"]} : sep' \in Closed(s)
    BY <1>47 DEF AttemptFails, Effect
  <2>2. s \in SepStates
    BY <1>00 DEF SepStates, Deleted, Created
  <2> QED BY <1>47, <2>1, <2>2, ClosedHandle DEF AttemptFails
<1>48. CASE OwnerDies
  BY <1>48, <1>00 DEF OwnerDies
<1> QED BY <1>1, <1>2, <1>3, <1>4, <1>5, <1>6, <1>7, <1>8, <1>9, <1>10, <1>11, <1>12, <1>13, <1>14, <1>15,
   <1>16, <1>17, <1>18, <1>19, <1>20, <1>21, <1>22, <1>23, <1>24, <1>25, <1>26, <1>27, <1>28, <1>29, <1>30,
   <1>31, <1>32, <1>33, <1>34, <1>35, <1>36, <1>37, <1>38, <1>39, <1>40, <1>41, <1>42, <1>43, <1>44, <1>45,
   <1>46, <1>47, <1>48 DEF Owner, OwnerFailure

\* The record of an operation.
LEMMA UserRecords ==
    ASSUME UserInv, u # None, NEW next, RecordUser(next),
           next \in Running \cup Resolutions \cup {"ready", "stopped", "outcome-unknown"}
    PROVE  /\ u' \in UserJournal /\ u' # None
           /\ u'.phase \in Running \cup {"baseline"} => u'.from = None
           /\ u' = u \/ (LegalUser(next) /\ u'.phase = next)
           /\ u' # u /\ next \notin {"stopped", "outcome-unknown"} => u'.from = u.from
<1>1. u \in UserJournal
  BY DEF UserInv
<1>2. CASE ~LegalUser(next)
  BY <1>1, <1>2, JournalAssumption DEF RecordUser, UserInv
<1>3. CASE LegalUser(next) /\ next \in {"stopped", "outcome-unknown"}
  <2>1. u.phase \in Running
    BY <1>3 DEF LegalUser, Resolutions
  <2> QED BY <1>1, <1>3, <2>1, JournalAssumption DEF RecordUser, UserJournal, Running, Resolutions
<1>4. CASE LegalUser(next) /\ next \in Resolutions
  BY <1>1, <1>4, JournalAssumption DEF RecordUser, UserJournal, Running, Resolutions
<1>5. CASE LegalUser(next) /\ next \in Running \cup {"ready"}
  <2>1. u.phase \in Running \cup {"baseline"}
    BY <1>1, <1>5 DEF LegalUser, UserOrder, UserJournal, Running, Resolutions
  <2>2. u.from = None
    BY <2>1 DEF UserInv
  <2> QED BY <1>1, <1>5, <2>2, JournalAssumption, ZenonT(60) DEF RecordUser, UserJournal, Running, Resolutions
<1> QED BY <1>2, <1>3, <1>4, <1>5

\* What an operation records next.
LEMMA UserNextFacts ==
    ASSUME UserInv, u # None, u.phase \in Running \cup {"baseline"}
    PROVE  /\ UserNext(u.phase) \in Running \cup {"ready", "stopped"}
           /\ UserNext(u.phase) = "ready" =>
                 u.phase = "handle-released" /\ (how = "run" => sep.alias = "ready")
           /\ UserNext(u.phase) = "handle-released" => u.phase = "unload-intent"
BY DEF UserNext, UserOrder, Running

\* The rest of the invariant.
LEMMA UserInvKept ==
    ASSUME Inv, UserInv, [UserNextStep]_allvars
    PROVE  UserInv'
<1>0. TypeOK /\ sep \in SepStates /\ u \in UserJournal \cup {None}
  BY DEF Inv, TypeOK, UserInv
<1>1. CASE BeginRun \/ BeginRetain
  <2>1. u' = [phase |-> "baseline", from |-> None, at |-> "now"] /\ pc' = "user" /\ how' \in {"run", "retain"}
    BY <1>1 DEF BeginRun, BeginRetain, BeginUser
  <2>2. u' \in UserJournal /\ u'.phase = "baseline" /\ u'.from = None
    BY <2>1 DEF UserJournal, Owners
  <2> QED BY <2>1, <2>2, JournalAssumption DEF UserInv
<1>2. CASE UserStep
  <2>1. /\ pc = "user" /\ pc' = "user" /\ how' = how /\ u # None /\ u.phase \in Running \cup {"baseline"}
        /\ RecordUser(UserNext(u.phase)) /\ sep' \in UserEffect(u.phase) /\ Confirmed(u.phase, sep')
    BY <1>2 DEF UserStep, UserRuns, UserInv
  <2>2. /\ u' \in UserJournal /\ u' # None /\ (u'.phase \in Running \cup {"baseline"} => u'.from = None)
        /\ u' = u \/ u'.phase = UserNext(u.phase)
    BY <2>1, UserRecords, UserNextFacts
  <2>3. u'.phase = "handle-released" => ~sep'.handle /\ (how = "retain" => sep'.alias = "ready")
    <3>1. CASE u.phase = "handle-released"
      BY <1>0, <2>1, <3>1, UserEffectFacts DEF UserInv
    <3>2. CASE u.phase = "unload-intent"
      BY <1>0, <2>1, <3>2, UserEffectFacts DEF Confirmed
    <3> QED BY <2>1, <2>2, <3>1, <3>2, UserNextFacts
  <2> QED BY <2>1, <2>2, <2>3 DEF UserInv
<1>3. CASE UserCommandRaises
  <2>1. PICK s \in {sep} \cup UserEffect(u.phase) :
          \/ RecordUser(UserNext(u.phase)) /\ sep' = s /\ UNCHANGED pc
          \/ Terminal("outcome-unknown", s) \/ Terminal("stopped", s)
    BY <1>3 DEF UserCommandRaises
  <2>2. /\ pc = "user" /\ how' = how /\ u # None /\ u.phase \in {"bind-intent", "unlock-intent"}
        /\ u.phase \in Running \cup {"baseline"}
    BY <1>3 DEF UserCommandRaises, UserRuns, UserInv
  <2>3. /\ u' \in UserJournal /\ u' # None /\ (u'.phase \in Running \cup {"baseline"} => u'.from = None)
        /\ u'.phase # "handle-released"
    BY <2>1, <2>2, UserRecords, UserNextFacts DEF Terminal
  <2>4. pc' = "user" \/ (pc' = "idle" /\ ~sep'.handle)
    BY <1>0, <2>1, <2>2, UserEffectFacts, ClosedHandle DEF Terminal
  <2> QED BY <2>2, <2>3, <2>4 DEF UserInv
<1>4. CASE ReleaseUnconfirmed \/ BagMismatch \/ UserFails
  <2>1. /\ pc = "user" /\ pc' = "idle" /\ u # None
        /\ u' = u \/ RecordUser("stopped") \/ RecordUser("outcome-unknown")
        /\ \E s \in {sep} \cup UserEffect(u.phase) : sep' \in Closed(s)
    BY <1>4 DEF ReleaseUnconfirmed, BagMismatch, UserFails, Terminal, UserRuns, UserInv
  <2>2. ~sep'.handle
    BY <1>0, <2>1, UserEffectFacts, ClosedHandle
  <2>3. u' \in UserJournal /\ (u'.phase \in Running \cup {"baseline"} => u'.from = None)
    BY <1>0, <2>1, UserRecords DEF UserInv
  <2> QED BY <2>1, <2>2, <2>3 DEF UserInv
<1>5. CASE BodyFails
  <2>1. /\ pc = "user" /\ pc' = "user" /\ how' = how /\ u # None /\ u.phase = "alias-observed"
        /\ RecordUser("unload-intent") /\ "unload-intent" \in Running
    BY <1>5 DEF BodyFails, UserRuns, UserInv, Running
  <2>2. /\ u' \in UserJournal /\ u' # None /\ (u'.phase \in Running \cup {"baseline"} => u'.from = None)
        /\ u'.phase # "handle-released"
    BY <2>1, UserRecords
  <2> QED BY <2>1, <2>2 DEF UserInv
<1>6. CASE BodyLocks
  <2>1. /\ pc = "user" /\ pc' = "user" /\ how' = how /\ u' = u /\ u.phase # "handle-released"
    BY <1>6 DEF BodyLocks, UserRuns, user
  <2> QED BY <2>1 DEF UserInv
<1>7. CASE UserEnds
  BY <1>0, <1>7, ClosedHandle DEF UserEnds, Stop, user, UserInv
<1>8. CASE RecoverUser
  <2>1. /\ UNCHANGED <<sep, pc, how>> /\ pc = "idle" /\ u # None /\ RecordUser(Resolution)
        /\ Resolution \in Resolutions
    BY <1>8 DEF RecoverUser, Opens, vars, Resolution, Resolutions
  <2> QED BY <2>1, UserRecords DEF UserInv
<1>9. CASE Prune
  BY <1>9 DEF Prune, vars, UserInv
<1>10. CASE (Owner \/ OwnerFailure) /\ UNCHANGED user
  BY <1>10, OwnerLeavesNoHandle DEF user, UserInv
<1>11. CASE LateEffect /\ UNCHANGED user
  <2>1. sep' \in SepStates /\ sep'.handle = sep.handle /\ sep'.alias = sep.alias
    BY <1>0, <1>11 DEF LateEffect, SepStates, Deleted, Created
  <2> QED BY <1>11, <2>1 DEF LateEffect, user, UserInv
<1>12. CASE (ReloadModule \/ Reboot \/ PowerLoss) /\ (Elsewhere(Aged) \/ Elsewhere(Moved)) /\ UNCHANGED how
  <2>1. pc' = "idle" /\ ~sep'.handle
    BY <1>0, <1>12 DEF ReloadModule, Reboot, PowerLoss, NextBoot, SepStates, UserInv
  <2>2. /\ u' \in UserJournal \cup {None} /\ (u' = None <=> u = None)
        /\ u # None => u'.phase = u.phase /\ u'.from = u.from
    BY <1>0, <1>12, NoneIsApart, JournalAssumption DEF Elsewhere, Aged, Moved, UserJournal, Owners
  <2> QED BY <2>1, <2>2 DEF UserInv
<1>13. CASE UNCHANGED allvars
  BY <1>13 DEF allvars, vars, user, UserInv
<1> QED
  BY <1>1, <1>2, <1>3, <1>4, <1>5, <1>6, <1>7, <1>8, <1>9, <1>10, <1>11, <1>12, <1>13
     DEF UserNextStep, Operation, UserFailure, FirstRun

LEMMA UserInvariance == UserSpec => []UserInv
<1>1. UserInit => UserInv
  BY DEF UserInit, Init, UserInv
<1>2. Inv /\ UserInv /\ [UserNextStep]_allvars => UserInv'
  BY UserInvKept
<1> QED BY <1>1, <1>2, Invariance, PTL DEF UserSpec

\* A journal is ended as ready only when the alias is ready, the handle is released, and the
\* operation sent the bind itself, whatever was lost and whoever reconciled it
\* (retain_ready_identity_handle, run, recover).
THEOREM ReadyAlwaysWitnessed == UserSpec => ReadyIsWitnessed
<1> DEFINE Witnessed == /\ u' # None /\ u'.phase \in {"ready", "recovered-ready"}
                        /\ u # None /\ u.phase # u'.phase
                        => /\ sep'.alias = "ready" /\ ~sep'.handle
                           /\ u'.from \in {None} \cup (Running \ {"load-intent", "handle-observed"})
<1>1. ASSUME Inv, UserInv, [UserNextStep]_allvars PROVE [Witnessed]_allvars
  <2> SUFFICES ASSUME UserNextStep, u' # None, u'.phase \in {"ready", "recovered-ready"},
                      u # None, u.phase # u'.phase
               PROVE  /\ sep'.alias = "ready" /\ ~sep'.handle
                      /\ u'.from \in {None} \cup (Running \ {"load-intent", "handle-observed"})
    BY <1>1
  <2>0. TypeOK /\ u \in UserJournal
    BY <1>1 DEF Inv, UserInv
  <2>1. CASE UserStep
    <3>1. /\ pc = "user" /\ u.phase \in Running \cup {"baseline"}
          /\ RecordUser(UserNext(u.phase)) /\ sep' \in UserEffect(u.phase)
      BY <2>1 DEF UserStep, UserRuns
    <3>2. u'.phase = UserNext(u.phase) /\ u'.from = u.from /\ u.from = None
      BY <1>1, <3>1, UserRecords, UserNextFacts DEF UserInv
    <3>3. u'.phase = "ready"
      BY <1>1, <3>1, <3>2, UserNextFacts DEF Running
    <3>4. u.phase = "handle-released" /\ (how = "run" => sep.alias = "ready") /\ how \in {"run", "retain"}
      BY <1>1, <3>1, <3>2, <3>3, UserNextFacts DEF UserInv
    <3>5. sep' = sep
      BY <2>0, <3>1, <3>4, UserEffectFacts
    <3> QED BY <1>1, <3>1, <3>2, <3>4, <3>5 DEF UserInv
  <2>2. CASE RecoverUser
    <3>1. /\ UNCHANGED sep /\ pc = "idle" /\ RecordUser(Resolution) /\ Resolution \in Resolutions
      BY <2>2 DEF RecoverUser, Opens, vars, Resolution, Resolutions
    <3>2. u'.phase = Resolution /\ u'.from = u.from
      BY <1>1, <3>1, UserRecords DEF Resolutions
    <3>3. sep.alias = "ready" /\ ~Early
      BY <3>2 DEF Resolution
    <3> QED BY <1>1, <2>0, <3>1, <3>2, <3>3 DEF Early, UserInv, UserJournal, Running
  <2>3. CASE UserCommandRaises
    <3>1. /\ u.phase \in {"bind-intent", "unlock-intent"} /\ u.phase \in Running \cup {"baseline"}
          /\ RecordUser(UserNext(u.phase)) \/ RecordUser("outcome-unknown") \/ RecordUser("stopped")
      BY <2>3 DEF UserCommandRaises, Terminal, UserRuns
    <3> QED BY <1>1, <3>1, UserRecords, UserNextFacts DEF Running
  <2>4. CASE ReleaseUnconfirmed \/ BagMismatch \/ UserFails \/ BodyFails
    <3>1. \/ u' = u \/ RecordUser("outcome-unknown") \/ RecordUser("stopped")
          \/ RecordUser("unload-intent") /\ "unload-intent" \in Running
      BY <2>4 DEF ReleaseUnconfirmed, BagMismatch, UserFails, BodyFails, Terminal, Running
    <3> QED BY <1>1, <3>1, UserRecords DEF Running
  <2>5. CASE BeginRun \/ BeginRetain
    BY <2>5 DEF BeginRun, BeginRetain, BeginUser
  <2>6. CASE BodyLocks \/ UserEnds \/ Prune
    BY <2>6 DEF BodyLocks, UserEnds, Prune, user
  <2>7. CASE FirstRun
    <3>1. u' = u \/ Elsewhere(Aged) \/ Elsewhere(Moved)
      BY <2>7 DEF FirstRun, user
    <3> QED BY <2>0, <3>1 DEF Elsewhere, UserJournal
  <2> QED BY <2>1, <2>2, <2>3, <2>4, <2>5, <2>6, <2>7 DEF UserNextStep, Operation, UserFailure
<1> QED BY <1>1, Invariance, UserInvariance, PTL DEF UserSpec, ReadyIsWitnessed
=============================================================================
