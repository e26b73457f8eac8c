------------------------- MODULE NativeStateRecovery -------------------------
(***************************************************************************)
(* The saved biometric state of a Linux-native installation and the SEP:   *)
(* restoring it on a cold T2 (t2_native_state_restore.py), recovering it   *)
(* when the T2 kept only its master component                              *)
(* (t2_native_state_recovery.py, driven by run_native_state_recovery),     *)
(* saving what the SEP holds (t2_external_inventory_sync.py) and the       *)
(* rolling BioLockout record (t2_biolockout_store.py).                     *)
(*                                                                         *)
(* One command runs at a time (the operation lock).  It may be killed at   *)
(* every step; an unhandled error ends it the same way.  A command to the  *)
(* SEP may be applied and its reply lost.  Every reboot may leave the T2   *)
(* warm, cold, or with its master only.  Journal appends are atomic and    *)
(* durable (MutationJournal).                                              *)
(***************************************************************************)
EXTENDS RecoveryJournal, FiniteSets, FiniteSetsExt

CONSTANTS Ids,          \* the enrolled fingers
          MaxBoots,     \* bound on reboots
          MaxRecoveries, \* bound on recoveries begun
          MaxRecords,   \* bound on BioLockout records written
          Foreign       \* another system may delete a finger while Linux is down

ASSUME RecoveryAssumption == /\ IsFiniteSet(Ids) /\ Ids # {}
                             /\ {MaxBoots, MaxRecoveries, MaxRecords} \subseteq Nat
                             /\ MaxBoots > 0
                             /\ Foreign \in BOOLEAN

VARIABLES journal,  \* the recovery journal, <<>> when there is none
          sep,      \* components, identities and data version of the SEP
          host,     \* the committed archive: its identities and data version
          ext,      \* the nested save: records written, backup, local transaction, what it staged
          candidate, \* the derived master file of the cold restart
          lockout,  \* published BioLockout blobs and manifests, and the SEP's own record
          hold,     \* the installer's recovery hold
          boot,
          run,      \* the running command
          sent,     \* commands dispatched on behalf of the journal
          recoveries

recoveryVars ==
    <<journal, sep, host, ext, candidate, lockout, hold, boot, run, sent, recoveries>>

Off == [pc |-> "off", loss |-> FALSE, client |-> TRUE, tail |-> FALSE, cmd |-> "none", reply |-> "none"]

-----------------------------------------------------------------------------
(* The recovery journal. *)

\* The records that carry source_linux_boot_uuid (the baseline's boot is never compared).
Restarts == {Prepared("COLD_RESTART"), Prepared("CANONICAL_RESTART")}
Rec(m) == [m |-> m, surface |-> <<>>, ids |-> {}, status |-> FALSE, ver |-> 0,
           boot |-> IF m \in Restarts THEN boot ELSE 0]
Written(h, r) == Append(h, r)
Record(m) == journal' = Written(journal, Rec(m))
RecordSurface(m) == journal' = Written(journal, [Rec(m) EXCEPT !.surface = <<sep.master, sep.user>>])

Surface == <<sep.master, sep.user>>
Empty(surfaces) == sep.ids = {} /\ Surface \in surfaces

\* The evidence of the last record that carries the archive's hashes.
Authority(h) == LET n == IF Holds(h, PersistenceProven)
                         THEN CHOOSE i \in DOMAIN h : h[i].m = PersistenceProven ELSE 1
                IN [ids |-> h[1].ids, ver |-> h[n].ver]

Pending == journal # <<>> /\ (~Complete(journal) \/ ~validate_history(journal))

\* Histories that older versions left behind, at the T2 state they left it in.
Old(names, status) ==
    [i \in DOMAIN names |-> [m |-> names[i], surface |-> <<>>, boot |-> 0, ver |-> 1,
                             ids |-> IF i = 1 THEN Ids ELSE {},
                             status |-> status /\ i = Len(names)]]
RejectedUser(cold) ==
    cold \o MASTER_REPLY \o <<Intent("CANONICAL_USER_LOAD"), Rejected("CANONICAL_USER_LOAD")>>
OldJournals ==
    {Old(Upto(COLD_RESCUE, n), FALSE) : n \in 26..30}
    \cup {Old(Upto(RejectionCold, 31), FALSE)}
    \cup {Old(cold \o MASTER_REPLY, FALSE) : cold \in {DirectCold, RejectionCold}}
    \cup {Old(RejectedUser(DirectCold), st) : st \in BOOLEAN}
    \cup {Old(RejectedUser(RejectionCold), st) : st \in BOOLEAN}

-----------------------------------------------------------------------------
(* External: the T2. *)

\* A mutant: the bit is added to a state that has it.
AddDirty(state) == state + 4
Dirty(state) == IF state \in {1, 3} THEN state + 4 ELSE state
Clean(state) == IF state \in {5, 7} THEN state - 4 ELSE state

RetainedMaster == [master |-> 3, user |-> 0, ids |-> {}, ver |-> 0]
ColdStart == {[master |-> 1, user |-> u, ids |-> {}, ver |-> 0] : u \in {0, 1}}

\* What 0x31, 0x48, the export's confirmation and 0x40 leave behind when applied.
Applied(cmd) ==
    CASE cmd \in {"PREPARE_MASTER", "REPREPARE_MASTER", "EMPTY_REPROVISION_MASTER"} ->
            {[sep EXCEPT !.master = s] : s \in {sep.master, Dirty(sep.master)}}
      [] cmd \in {"PREPARE_USER", "REPREPARE_USER", "EMPTY_REPROVISION_USER"} ->
            {[sep EXCEPT !.user = s, !.ver = host.ver + 1] : s \in {1, 5, 7}}
      [] cmd = "REMOVE_EMPTY_USER" ->
            {[sep EXCEPT !.user = 0, !.master = Dirty(sep.master)]}
      [] cmd \in {"MASTER_EXPORT_PREPARE", "MASTER_EXPORT_COMPLETE"} -> {sep}
      [] cmd = "MASTER_EXPORT_CONFIRM" -> {[sep EXCEPT !.master = Clean(@)]}
      [] cmd = "CANONICAL_MASTER_LOAD" -> {[sep EXCEPT !.master = 3]}
      [] cmd \in {"SAVED_USER_LOAD", "CANONICAL_USER_LOAD"} ->
            {[sep EXCEPT !.user = 3, !.ids = some, !.ver = host.ver] : some \in SUBSET host.ids}
            \cup {[master |-> 7, user |-> 7, ids |-> some, ver |-> host.ver + 1] :
                     some \in SUBSET host.ids \ {{}}}

\* A rejected master may still be shown as loaded.
Refused(cmd) == IF cmd = "CANONICAL_MASTER_LOAD" THEN {sep, [sep EXCEPT !.master = 3]} ELSE {sep}

Commands == {"PREPARE_MASTER", "PREPARE_USER", "REPREPARE_MASTER", "REPREPARE_USER",
             "EMPTY_REPROVISION_MASTER", "EMPTY_REPROVISION_USER", "REMOVE_EMPTY_USER",
             "MASTER_EXPORT_PREPARE", "MASTER_EXPORT_COMPLETE", "MASTER_EXPORT_CONFIRM",
             "CANONICAL_MASTER_LOAD", "SAVED_USER_LOAD", "CANONICAL_USER_LOAD"}
Exports == {"MASTER_EXPORT_PREPARE", "MASTER_EXPORT_COMPLETE", "MASTER_EXPORT_CONFIRM"}
Loads == {"CANONICAL_MASTER_LOAD", "SAVED_USER_LOAD", "CANONICAL_USER_LOAD"}

-----------------------------------------------------------------------------
(* The BioLockout store: blobs 1..Len(blobs), each published before its     *)
(* manifest; the head is the blob of the highest manifest.                  *)

current == lockout.blobs[Max(lockout.manifests)]
Highest == Max({Len(lockout.blobs)} \cup lockout.manifests)

NoSave == [records |-> 0, base |-> [ids |-> {}, ver |-> 0], txn |-> "none",
           ids |-> {}, ver |-> 0]

RecoveryInit ==
    /\ host = [ids |-> Ids, ver |-> 1]
    /\ \/ journal = <<>> /\ sep \in ColdStart \cup {RetainedMaster}
       \/ journal \in OldJournals
          /\ sep \in IF Len(journal) = 26 THEN ColdStart ELSE {RetainedMaster}
    /\ ext = NoSave /\ candidate = "none"
    /\ \E own \in {1, 2} : lockout = [blobs |-> <<1>>, manifests |-> {1}, own |-> own]
    /\ hold = (journal # <<>>) /\ boot = 1 /\ run = Off
    /\ sent = [c \in Commands |-> 0] /\ recoveries = 0

-----------------------------------------------------------------------------
(* run_native_state_recovery: admission. *)

Saving == ext.records \in 1..6
Undisturbed == ~Saving /\ ext.txn = "none"

Ambiguous(m) == m[2] = "INTENT" \/ m \in {<<"MASTER_EXPORT", "PREPARED">>,
                                         <<"MASTER_EXPORT", "CAPTURED">>}

\* A mutant: removing a loaded empty user counts as a readback.
FewerPhases == {Proven("BASELINE"), Accepted("PREPARE_MASTER"), Proven("REMOVED_USER"),
                <<"MASTER_EXPORT", "CONFIRMED">>, Settled, Accepted("REPREPARE_MASTER"),
                Proven("EMPTY_REPROVISION_SURFACE")}
GenerationChanging ==
    {Proven("BASELINE"), Accepted("PREPARE_MASTER"), BadState("MISSING_COMPONENTS"),
     Proven("LOADED_EMPTY_USER"), Accepted("REMOVE_EMPTY_USER"), Proven("REMOVED_USER"),
     <<"MASTER_EXPORT", "CONFIRMED">>, Settled, Accepted("REPREPARE_MASTER"),
     Proven("EMPTY_REPROVISION_SURFACE"), Accepted("EMPTY_REPROVISION_MASTER"),
     Accepted("EMPTY_REPROVISION_USER"), Selected("EMPTY_REPROVISION_CLIENT")}

Refuses(h, loss) ==
    \/ Milestone(h) \in {Rejected("CANONICAL_MASTER_LOAD"), Proven("CANONICAL_MASTER_REPLY")}
    \/ /\ Milestone(h) = Rejected("CANONICAL_USER_LOAD")
       /\ ~(empty_reprovision_is_resumable(h) /\ loss)
    \/ /\ Blocked(h)
       /\ ~(\/ canonical_restart_is_resumable(h)
            \/ canonical_master_reply_is_resumable(h)
            \/ empty_reprovision_is_resumable(h))
    \/ Ambiguous(Milestone(h))
    \/ ~loss /\ Milestone(h) \in GenerationChanging

BeginRecovery ==
    /\ run.pc = "off" /\ hold /\ ~Pending /\ Undisturbed /\ recoveries < MaxRecoveries
    /\ Empty({<<3, 0>>}) /\ host.ids # {}
    /\ journal' = <<[Rec(Proven("BASELINE")) EXCEPT !.ids = host.ids, !.ver = host.ver]>>
    /\ sent' = [c \in Commands |-> 0] /\ recoveries' = recoveries + 1
    /\ candidate' = "none"
    /\ run' = [Off EXCEPT !.pc = "chain", !.loss = TRUE]
    /\ UNCHANGED <<sep, host, ext, lockout, hold, boot>>

require_authority_unchanged == Authority(journal) = host

ResumeRecovery ==
    /\ run.pc = "off" /\ hold /\ Undisturbed
    /\ journal # <<>> /\ ~Complete(journal) /\ require_authority_unchanged
    /\ validate_history(journal)
    /\ \E loss \in BOOLEAN : /\ ~Refuses(journal, loss)
                             /\ run' = [Off EXCEPT !.pc = "chain", !.loss = loss]
    /\ UNCHANGED <<journal, sep, host, ext, candidate, lockout, hold, boot, sent, recoveries>>

-----------------------------------------------------------------------------
(* One command: its intent is durable, then it is dispatched, then its      *)
(* reply is recorded.                                                       *)

At(m) == run.pc = "chain" /\ Milestone(journal) = m
Rest == UNCHANGED <<host, ext, candidate, lockout, hold, boot, recoveries>>
Same == UNCHANGED <<sep, sent>> /\ Rest

\* A mutant: the intent is recorded with the reply.
SendUnrecorded(step, client) ==
    /\ run' = [run EXCEPT !.pc = "sent", !.cmd = step, !.client = client]
    /\ UNCHANGED journal /\ Same
Send(step, client) ==
    /\ Record(Intent(step)) /\ Same
    /\ run' = [run EXCEPT !.pc = "sent", !.cmd = step, !.client = client]

Dispatch ==
    /\ run.pc = "sent"
    /\ sent' = [sent EXCEPT ![run.cmd] = @ + 1]
    /\ \E reply \in {"ok", "rejected", "unknown"} :
          /\ sep' \in CASE reply = "ok" -> Applied(run.cmd)
                        [] reply = "rejected" -> Refused(run.cmd)
                        [] reply = "unknown" -> Applied(run.cmd) \cup {sep}
          /\ run' = [run EXCEPT !.pc = "replied", !.reply = reply]
    /\ UNCHANGED journal /\ Rest

\* What a reply is recorded as.
ReplyRecord(cmd, reply) ==
    CASE reply = "ok" /\ cmd = "MASTER_EXPORT_PREPARE" -> <<"MASTER_EXPORT", "PREPARED">>
      [] reply = "ok" /\ cmd = "MASTER_EXPORT_COMPLETE" -> <<"MASTER_EXPORT", "CAPTURED">>
      [] reply = "ok" /\ cmd = "MASTER_EXPORT_CONFIRM" -> <<"MASTER_EXPORT", "CONFIRMED">>
      [] reply = "ok" /\ cmd \notin Exports -> Accepted(cmd)
      [] reply = "rejected" /\ cmd \notin Exports -> Rejected(cmd)
      [] OTHER -> Unknown(cmd)

RecordReply ==
    /\ run.pc = "replied"
    /\ journal' = Written(journal, [Rec(ReplyRecord(run.cmd, run.reply)) EXCEPT
                                       !.status = run.reply = "rejected"])
    /\ run' = IF run.reply = "ok" THEN [run EXCEPT !.pc = "chain"] ELSE Off
    /\ Same

\* A readback records the surface it proves, or that it is another one.
Readback(surfaces, good, bad) ==
    /\ IF Empty(surfaces) THEN RecordSurface(good) /\ UNCHANGED run
                          ELSE Record(bad) /\ run' = Off
    /\ Same

-----------------------------------------------------------------------------
(* The components of a retained master. *)

Admitted == Warm \X {1, 5}

prepare_missing_components ==
    \/ At(Proven("BASELINE")) /\ Send("PREPARE_MASTER", FALSE)
    \/ At(Accepted("PREPARE_MASTER")) /\ Send("PREPARE_USER", FALSE)

reprepare_missing_components ==
    \/ At(Settled) /\ Send("REPREPARE_MASTER", FALSE)
    \/ At(Accepted("REPREPARE_MASTER")) /\ Send("REPREPARE_USER", FALSE)

prepare_empty_reprovision ==
    \/ At(Proven("EMPTY_REPROVISION_SURFACE")) /\ Send("EMPTY_REPROVISION_MASTER", FALSE)
    \/ At(Accepted("EMPTY_REPROVISION_MASTER")) /\ Send("EMPTY_REPROVISION_USER", FALSE)

\* The connection that admitted the components selects its client version;
\* one that resumes after them has selected it already.
SelectClient(user, client) ==
    /\ At(Accepted(user)) /\ Same
    /\ \/ Record(Selected(client)) /\ run' = [run EXCEPT !.client = TRUE]
       \/ ~run.client /\ Record(<<client, "SELECTION_FAILED">>) /\ run' = Off

ClientSelected == \/ SelectClient("PREPARE_USER", "CLIENT_VERSION")
                  \/ SelectClient("REPREPARE_USER", "RECLIENT_VERSION")
                  \/ SelectClient("EMPTY_REPROVISION_USER", "EMPTY_REPROVISION_CLIENT")

reconcile_missing_components ==
    /\ At(Selected("CLIENT_VERSION"))
    /\ Readback(Admitted, Proven("MISSING_COMPONENTS"), BadState("MISSING_COMPONENTS"))

reconcile_reprepared_components ==
    /\ At(Selected("RECLIENT_VERSION"))
    /\ Readback({3} \X {1, 5}, Proven("MISSING_COMPONENTS"), BadState("REPREPARED_COMPONENTS"))

reconcile_loaded_empty_user ==
    /\ At(BadState("MISSING_COMPONENTS")) /\ Empty(Warm \X Warm)
    /\ RecordSurface(Proven("LOADED_EMPTY_USER")) /\ UNCHANGED run /\ Same

remove_loaded_empty_user ==
    /\ At(Proven("LOADED_EMPTY_USER")) /\ Empty(Warm \X Warm)
    /\ Send("REMOVE_EMPTY_USER", run.client)

\* A mutant: a clean master is taken for the one the removal left dirty.
RemovedClean ==
    /\ At(Accepted("REMOVE_EMPTY_USER"))
    /\ Readback({<<3, 0>>, <<7, 0>>}, Proven("REMOVED_USER"), BadState("REMOVED_USER"))
reconcile_removed_user ==
    /\ At(Accepted("REMOVE_EMPTY_USER"))
    /\ Readback({<<7, 0>>}, Proven("REMOVED_USER"), BadState("REMOVED_USER"))

settle_removed_master ==
    \/ At(Proven("REMOVED_USER")) /\ Empty({<<7, 0>>})
       /\ Send("MASTER_EXPORT_PREPARE", run.client)
    \/ At(<<"MASTER_EXPORT", "PREPARED">>) /\ Send("MASTER_EXPORT_COMPLETE", run.client)
    \/ At(<<"MASTER_EXPORT", "CAPTURED">>) /\ Send("MASTER_EXPORT_CONFIRM", run.client)

reconcile_settled_master ==
    /\ At(<<"MASTER_EXPORT", "CONFIRMED">>)
    /\ Readback({<<3, 0>>}, Settled, BadState("MASTER_SETTLE"))

-----------------------------------------------------------------------------
(* Cold restarts and loads. *)

Files == UNCHANGED <<sep, host, ext, lockout, hold, boot, sent, recoveries>>

\* The candidate is created exclusively: what a crash leaves of it stays.
prepare_cold_restart ==
    /\ At(BadState("REPREPARED_COMPONENTS")) /\ Empty({<<3, 7>>}) /\ Files
    /\ \/ /\ candidate = "none" /\ candidate' = "torn"
          /\ run' = [run EXCEPT !.pc = "write"] /\ UNCHANGED journal
       \/ /\ candidate = "whole" /\ Record(Prepared("COLD_RESTART"))
          /\ UNCHANGED <<candidate, run>>

CandidateWritten ==
    /\ run.pc = "write" /\ candidate' = "whole" /\ run' = [run EXCEPT !.pc = "chain"]
    /\ UNCHANGED journal /\ Files

ColdSurface == Last(journal).boot # boot /\ Empty({<<1, 0>>, <<1, 1>>})

reconcile_cold_surface ==
    /\ At(Prepared("COLD_RESTART")) /\ ColdSurface
    /\ RecordSurface(Proven("COLD_SURFACE")) /\ UNCHANGED run /\ Same

reconcile_canonical_cold_surface ==
    /\ At(Prepared("CANONICAL_RESTART")) /\ ColdSurface
    /\ RecordSurface(Proven("CANONICAL_COLD_SURFACE")) /\ UNCHANGED run /\ Same

reconcile_cold_master ==
    /\ At(Accepted("RETAINED_MASTER_LOAD"))
    /\ Readback({<<3, 0>>, <<3, 1>>}, Proven("COLD_MASTER"), BadState("RETAINED_MASTER"))

prepare_canonical_restart ==
    /\ \/ At(Proven("COLD_MASTER")) \/ At(Rejected("SAVED_USER_LOAD"))
    /\ Holds(journal, Proven("COLD_MASTER")) /\ Holds(journal, Accepted("RETAINED_MASTER_LOAD"))
    /\ Empty({<<3, 0>>})
    /\ Record(Prepared("CANONICAL_RESTART")) /\ UNCHANGED run /\ Same

load_canonical_master ==
    /\ \/ At(Proven("COLD_SURFACE")) \/ At(Proven("CANONICAL_COLD_SURFACE"))
    /\ Send("CANONICAL_MASTER_LOAD", run.client)

reconcile_canonical_master ==
    /\ At(Accepted("CANONICAL_MASTER_LOAD"))
    /\ Readback({<<3, 0>>, <<3, 1>>}, Proven("CANONICAL_MASTER"), BadState("CANONICAL_MASTER"))

load_canonical_user ==
    /\ At(Proven("CANONICAL_MASTER")) /\ Empty({<<3, 0>>, <<3, 1>>, <<3, 5>>})
    /\ Send("CANONICAL_USER_LOAD", run.client)

restore_saved_user ==
    /\ At(Proven("MISSING_COMPONENTS")) /\ Empty(Admitted)
    /\ Send("SAVED_USER_LOAD", run.client)

\* A mutant: the live identities are not compared with the archive's.
LoadedAny == Surface \in Warm \X Warm
Loaded == Surface \in Warm \X Warm /\ sep.ids = host.ids

reconcile_saved_user ==
    /\ \/ At(Accepted("SAVED_USER_LOAD")) \/ At(Accepted("CANONICAL_USER_LOAD"))
    /\ IF Loaded THEN Record(Proven("SAVED_USER")) /\ UNCHANGED run
                 ELSE Record(BadState("SAVED_USER")) /\ run' = Off
    /\ Same

reconcile_incompatible_user_surface ==
    /\ At(Rejected("CANONICAL_USER_LOAD")) /\ Empty({<<3, 0>>})
    /\ RecordSurface(Proven("EMPTY_REPROVISION_SURFACE")) /\ UNCHANGED run /\ Same

reconcile_empty_reprovision ==
    /\ At(Selected("EMPTY_REPROVISION_CLIENT")) /\ Same
    /\ IF Empty({<<3, 7>>, <<7, 7>>})
       THEN RecordSurface(Ready) /\ run' = [run EXCEPT !.pc = "save", !.tail = TRUE]
       ELSE Record(BadState("EMPTY_REPROVISION")) /\ run' = Off

-----------------------------------------------------------------------------
(* Saving what the SEP holds: t2_external_inventory_sync. *)

begin_catacomb_persistence ==
    /\ At(Proven("SAVED_USER")) /\ sep.ids # {} /\ Surface \in Warm \X Warm
    /\ Record(Intent("CATACOMB_PERSISTENCE")) /\ Same
    /\ run' = [run EXCEPT !.pc = IF Surface = <<3, 3>> THEN "chain" ELSE "save"]

Sync(pc, to) == /\ run.pc = pc /\ run' = [run EXCEPT !.pc = to]
                /\ UNCHANGED <<journal, candidate, lockout, hold, boot, sent, recoveries>>
Records(n) == ext' = [ext EXCEPT !.records = n] /\ UNCHANGED <<sep, host>>

SaveIntent == /\ Sync("save", "stage") /\ ~Saving
              /\ Surface \in Warm \X Warm /\ (sep.ids = {} => run.tail)
              /\ ext' = [NoSave EXCEPT !.records = 1, !.base = host, !.ids = sep.ids]
              /\ UNCHANGED <<sep, host>>

SaveStage == /\ Sync("stage", "user") /\ ext.txn = "none"
             /\ ext' = [ext EXCEPT !.txn = "prepare"] /\ UNCHANGED <<sep, host>>

SaveUser == /\ Sync("user", "saved")
            /\ ext' = [ext EXCEPT !.records = 2, !.ver = sep.ver] /\ UNCHANGED <<sep, host>>

SaveConfirmIntent == Sync("saved", "confirm") /\ Records(3)

\* The user component is confirmed before the archive is committed.
SaveConfirmUser == /\ Sync("confirm", "confirmed")
                   /\ sep' = [sep EXCEPT !.user = Clean(@)] /\ UNCHANGED <<host, ext>>

SaveMasterIntent == Sync("confirmed", "master") /\ Records(4)

SaveMaster == Sync("master", "commit") /\ sep.ids = ext.ids /\ Records(5)

SaveCommit == /\ Sync("commit", "install")
              /\ ext' = [ext EXCEPT !.txn = "commit"] /\ UNCHANGED <<sep, host>>

SaveInstall == /\ Sync("install", "installed")
               /\ host' = [ids |-> ext.ids, ver |-> ext.ver]
               /\ ext' = [ext EXCEPT !.txn = "none"] /\ UNCHANGED sep

SaveCommitted == Sync("installed", "close") /\ Records(6)

SaveConfirmMaster == /\ Sync("close", "readback")
                     /\ sep' = [sep EXCEPT !.master = Clean(@)] /\ UNCHANGED <<host, ext>>

SaveReadback == /\ Sync("readback", "chain") /\ Surface = <<3, 3>>
                /\ sep.ids = ext.ids /\ host.ids = ext.ids /\ Records(7)

Save == \/ SaveIntent \/ SaveStage \/ SaveUser \/ SaveConfirmIntent \/ SaveConfirmUser
        \/ SaveMasterIntent \/ SaveMaster \/ SaveCommit \/ SaveInstall \/ SaveCommitted
        \/ SaveConfirmMaster \/ SaveReadback

reconcile_catacomb_persistence ==
    /\ At(Intent("CATACOMB_PERSISTENCE")) /\ Surface = <<3, 3>> /\ sep.ids = host.ids
    /\ journal' = Written(journal, [Rec(PersistenceProven) EXCEPT !.ids = host.ids,
                                                                 !.ver = host.ver])
    /\ UNCHANGED run /\ Same

reconcile_empty_catacombs ==
    /\ At(Ready) /\ run.tail /\ Empty({<<3, 3>>}) /\ host.ids = {}
    /\ Record(Proven("EMPTY_REPROVISION_CATACOMBS")) /\ UNCHANGED run /\ Same

\* A mutant: a save that staged something is closed as undispatched.
AbortStaged ==
    /\ run.pc = "off" /\ Saving /\ host = ext.base
    /\ ext' = NoSave
    /\ UNCHANGED <<journal, sep, host, candidate, lockout, hold, boot, run, sent, recoveries>>
\* Only an intent whose dispatch guard was never created is closed.
abort_undispatched ==
    /\ run.pc = "off" /\ ext.records = 1 /\ ext.txn = "none" /\ host = ext.base
    /\ ext' = NoSave
    /\ UNCHANGED <<journal, sep, host, candidate, lockout, hold, boot, run, sent, recoveries>>

-----------------------------------------------------------------------------
(* The rolling BioLockout record. *)

Lock(pc, to) == /\ run.pc = pc /\ run' = [run EXCEPT !.pc = to]
                /\ UNCHANGED <<journal, sep, host, ext, candidate, hold, boot, sent, recoveries>>

restore_biolockout ==
    /\ At(PersistenceProven) /\ Record(Intent("BIOLOCKOUT_LOAD")) /\ Same
    /\ run' = [run EXCEPT !.pc = "lock", !.cmd = "BIOLOCKOUT_LOAD"]

restore_empty_reprovision_biolockout ==
    /\ At(Proven("EMPTY_REPROVISION_CATACOMBS")) /\ run.tail
    /\ Record(Intent("EMPTY_REPROVISION_BIOLOCKOUT")) /\ Same
    /\ run' = [run EXCEPT !.pc = "lock", !.cmd = "EMPTY_REPROVISION_BIOLOCKOUT"]

\* The SEP takes its own record; past that, it exports the newer one it has.
LoadHead == \E to \in {"locked", "publish"} :
               /\ Lock("lock", to) /\ UNCHANGED lockout
               /\ to = (IF current = lockout.own THEN "locked" ELSE "publish")

\* A mutant: the manifest is published before its blob.
ManifestFirst == /\ Lock("publish", "manifest") /\ Highest < MaxRecords
                 /\ lockout' = [lockout EXCEPT !.manifests = @ \cup {Highest + 1}]
PublishBlob == /\ Lock("publish", "manifest") /\ Highest < MaxRecords
               /\ lockout' = [lockout EXCEPT !.blobs = Append(@, lockout.own)]

PublishManifest == /\ Lock("manifest", "lock")
                   /\ lockout' = [lockout EXCEPT !.manifests = @ \cup {Len(lockout.blobs)}]

LockoutFails ==
    /\ run.pc \in {"lock", "publish", "manifest"} /\ run.cmd # "none"
    /\ Record(Unknown(run.cmd)) /\ run' = Off /\ Same

LockoutLoaded ==
    /\ run.pc = "locked"
    /\ IF run.cmd = "none" THEN UNCHANGED journal /\ run' = Off
       ELSE /\ Record(IF run.cmd = "BIOLOCKOUT_LOAD" THEN Proven("BIOLOCKOUT")
                      ELSE Proven("EMPTY_REPROVISION_BIOLOCKOUT"))
            /\ run' = [run EXCEPT !.pc = "chain"]
    /\ Same

complete_reconciled ==
    /\ \/ At(Proven("BIOLOCKOUT")) /\ Record(RecoveryComplete)
       \/ At(Proven("EMPTY_REPROVISION_BIOLOCKOUT")) /\ run.tail /\ Record(EmptyComplete)
    /\ run' = Off /\ Same

-----------------------------------------------------------------------------
(* restore_for_enrollment: a cold T2 is given the committed archive. *)

Restoring(pc, to) ==
    /\ run.pc = pc /\ run' = IF to = "off" THEN Off ELSE [run EXCEPT !.pc = to]
    /\ UNCHANGED <<journal, host, ext, candidate, lockout, hold, boot, sent, recoveries>>

\* A mutant: an unfinished recovery does not keep other commands out.
AlwaysFree == TRUE
NothingPending == ~Pending /\ Undisturbed

\* Whether the T2 needs the master, only the user, or nothing but the lockout record.
Admission ==
    CASE sep.ids # {} -> IF Loaded THEN "lock" ELSE "off"
      [] sep.ids = {} /\ host.ids # {} /\ sep.user \in {0, 1} ->
            CASE sep.master = 1 -> "restore_master"
              [] sep.master = 3 /\ sep.user = 1 -> "restore_user"
              [] OTHER -> "off"
      [] sep.ids = {} /\ host.ids = {} ->
            CASE sep.user = 0 -> IF sep.master = 1 THEN "restore_master" ELSE "off"
              [] OTHER -> IF Surface \in Warm \X Warm THEN "lock" ELSE "off"
      [] OTHER -> "off"

RestoreBegins == /\ NothingPending /\ Admission # "off" /\ Restoring("off", Admission)
                 /\ UNCHANGED sep

RestoreMaster == \/ Restoring("restore_master", "restore_user") /\ sep' \in Applied("CANONICAL_MASTER_LOAD")
                 \/ Restoring("restore_master", "off") /\ sep' \in Refused("CANONICAL_MASTER_LOAD")

RestoreUser == \/ /\ sep.master = 3 /\ sep.user \in {0, 1} /\ Restoring("restore_user", "check")
                  /\ sep' \in Applied("CANONICAL_USER_LOAD")
               \/ Restoring("restore_user", "off") /\ UNCHANGED sep

RestoreChecks == Restoring("check", IF Loaded THEN "lock" ELSE "off") /\ UNCHANGED sep

restore_for_enrollment == RestoreBegins \/ RestoreMaster \/ RestoreUser \/ RestoreChecks

-----------------------------------------------------------------------------
(* The installer's hold, crashes and reboots. *)

hold_native_recovery ==
    /\ run.pc = "off" /\ ~hold /\ hold' = TRUE
    /\ UNCHANGED <<journal, sep, host, ext, candidate, lockout, boot, run, sent, recoveries>>

\* A mutant: a finished installation is taken for a finished recovery.
ResumeUnchecked ==
    /\ run.pc = "off" /\ hold /\ hold' = FALSE
    /\ UNCHANGED <<journal, sep, host, ext, candidate, lockout, boot, run, sent, recoveries>>
resume_native_recovery ==
    /\ run.pc = "off" /\ hold /\ ~Pending /\ hold' = FALSE
    /\ UNCHANGED <<journal, sep, host, ext, candidate, lockout, boot, run, sent, recoveries>>

\* The command dies, or ends on an error it does not record.
Crash == /\ run.pc # "off" /\ run' = Off
         /\ UNCHANGED <<journal, sep, host, ext, candidate, lockout, hold, boot, sent, recoveries>>

\* Another system deleted a finger and saved what it left.
ForeignDelete == {[sep EXCEPT !.ids = sep.ids \ {i}, !.ver = host.ver + 1] :
                     i \in IF Foreign /\ Cardinality(sep.ids) > 1 THEN sep.ids ELSE {}}

Reboot ==
    /\ boot < MaxBoots /\ boot' = boot + 1 /\ run' = Off
    /\ sep' \in {sep} \cup ColdStart \cup ForeignDelete
                \cup (IF sep.master \in Warm THEN {RetainedMaster} ELSE {})
    /\ UNCHANGED <<journal, host, ext, candidate, lockout, hold, sent, recoveries>>

-----------------------------------------------------------------------------

Components == \/ prepare_missing_components \/ reprepare_missing_components
              \/ prepare_empty_reprovision \/ ClientSelected
              \/ reconcile_missing_components \/ reconcile_reprepared_components
              \/ reconcile_loaded_empty_user \/ remove_loaded_empty_user
              \/ reconcile_removed_user \/ settle_removed_master \/ reconcile_settled_master

ColdPath == \/ prepare_cold_restart \/ CandidateWritten \/ reconcile_cold_surface
            \/ reconcile_canonical_cold_surface \/ reconcile_cold_master
            \/ prepare_canonical_restart \/ load_canonical_master
            \/ reconcile_canonical_master \/ load_canonical_user \/ restore_saved_user
            \/ reconcile_saved_user \/ reconcile_incompatible_user_surface
            \/ reconcile_empty_reprovision

Closing == \/ begin_catacomb_persistence \/ Save \/ reconcile_catacomb_persistence
           \/ reconcile_empty_catacombs \/ abort_undispatched
           \/ restore_biolockout \/ restore_empty_reprovision_biolockout
           \/ LoadHead \/ PublishBlob \/ PublishManifest \/ LockoutFails \/ LockoutLoaded
           \/ complete_reconciled

RecoveryNext ==
    \/ BeginRecovery \/ ResumeRecovery \/ Dispatch \/ RecordReply
    \/ Components \/ ColdPath \/ Closing \/ restore_for_enrollment
    \/ hold_native_recovery \/ resume_native_recovery \/ Crash \/ Reboot

RecoverySpec == RecoveryInit /\ [][RecoveryNext]_recoveryVars

-----------------------------------------------------------------------------
(* Properties. *)

PCs == {"off", "chain", "sent", "replied", "write", "save", "stage", "user", "saved",
        "confirm", "confirmed", "master", "commit", "install", "installed", "close",
        "readback", "lock", "publish", "manifest", "locked", "restore_master", "restore_user", "check"}

Steps == Commands \cup
    {"BASELINE", "CLIENT_VERSION", "RECLIENT_VERSION", "EMPTY_REPROVISION_CLIENT",
     "MISSING_COMPONENTS", "REPREPARED_COMPONENTS", "LOADED_EMPTY_USER", "REMOVED_USER",
     "MASTER_EXPORT", "MASTER_SETTLE", "MASTER", "COLD_RESTART", "CANONICAL_RESTART",
     "COLD_SURFACE", "CANONICAL_COLD_SURFACE", "RETAINED_MASTER_LOAD", "RETAINED_MASTER",
     "COLD_MASTER", "CANONICAL_MASTER", "CANONICAL_MASTER_REPLY", "SAVED_USER",
     "EMPTY_REPROVISION", "EMPTY_REPROVISION_SURFACE", "EMPTY_REPROVISION_CATACOMBS",
     "EMPTY_REPROVISION_BIOLOCKOUT", "CATACOMB_PERSISTENCE", "BIOLOCKOUT_LOAD", "BIOLOCKOUT",
     "RECOVERY"}
Outcomes == {"INTENT", "ACCEPTED", "OUTCOME_UNKNOWN", "REPLY_REJECTED", "POST_STATE_REJECTED",
             "SELECTION_FAILED", "RECONCILED", "PREPARED", "SELECTED", "CAPTURED", "CONFIRMED",
             "SETTLED", "READY", "COMPLETE"}
Entry == [m : Steps \X Outcomes, surface : {<<>>} \cup (0..7) \X (0..7), ids : SUBSET Ids,
          status : BOOLEAN, ver : Nat, boot : 0..MaxBoots]
Archive == [ids : SUBSET Ids, ver : Nat]

\* The types of the variables.
RecoveryTypeOK ==
    /\ journal \in Seq(Entry)
    /\ sep \in [master : {1, 3, 5, 7}, user : {0, 1, 3, 5, 7}, ids : SUBSET Ids, ver : Nat]
    /\ host \in Archive /\ candidate \in {"none", "torn", "whole"} /\ hold \in BOOLEAN
    /\ ext \in [records : 0..7, base : Archive, txn : {"none", "prepare", "commit"},
                ids : SUBSET Ids, ver : Nat]
    /\ lockout \in [blobs : Seq(Nat), manifests : SUBSET Nat, own : Nat]
    /\ run \in [pc : PCs, loss : BOOLEAN, client : BOOLEAN, tail : BOOLEAN,
                cmd : Commands \cup {"none", "BIOLOCKOUT_LOAD", "EMPTY_REPROVISION_BIOLOCKOUT"},
                reply : {"none", "ok", "rejected", "unknown"}]
    /\ boot \in 1..MaxBoots /\ recoveries \in 0..MaxRecoveries /\ sent \in [Commands -> Nat]

\* Every history that recovery leaves behind is one its own validator accepts,
\* whatever the T2 answered and wherever it was killed or resumed.  A history
\* that is not makes the registry's scan fail, and with it every mutation.
HistoryLegal == journal # <<>> => validate_history(journal)

\* One journal dispatches a component command at most once: what an intent
\* covers is never repeated, across crashes, reboots and resumed invocations.
OneDispatch == \A c \in Commands : sent[c] <= 1

\* Only an invocation that acknowledged the loss of the saved generation sends
\* a command that changes one; a resumed one without it only loads and reads.
ConsentFirst ==
    \A c \in Commands \ Loads : sent'[c] > sent[c] => run.loss

\* The archive's identities change only under the same acknowledgement.
LossIsAcknowledged == host'.ids # host.ids => run.loss

\* The committed master is only ever loaded onto a cold T2, however old the
\* readback is that proved the T2 cold.
ColdMasterLoad ==
    \/ sent'["CANONICAL_MASTER_LOAD"] > sent["CANONICAL_MASTER_LOAD"]
    \/ run.pc = "restore_master" /\ run'.pc = "restore_user"
    => sep.master = 1

\* A recovery that closes as complete leaves the identities it began with, in
\* the archive and, when the T2 was not restarted since, in the SEP.
CompleteSound ==
    journal' # journal /\ journal' # <<>> /\ Milestone(journal') = RecoveryComplete
       => /\ host.ids = journal[1].ids
          /\ sep.ids # {} => sep.ids = host.ids /\ sep.ver = host.ver

\* A user component that the SEP holds as saved is the archive's, although it is
\* confirmed before the archive is committed: a save that stopped in between
\* stays open.
CleanIsSaved == run.pc = "off" /\ sep.ids # {} /\ sep.user = 3 /\ ~Saving => sep.ver = host.ver

\* The BioLockout head is readable at every crash point.
LockoutReadable == Max(lockout.manifests) \in DOMAIN lockout.blobs

\* The automatic services stay held until the recovery is closed.
HoldCoversRecovery == Pending => hold

\* A recovery's journal is one its own validator accepts, and no command of it
\* was sent twice.
RecoveryHistorySound == RecoveryTypeOK /\ HistoryLegal /\ OneDispatch

\* Between commands the saved state is usable: what the SEP counts as saved is in
\* the archive, the BioLockout head is readable, and the automatic services are
\* held while a recovery is open.
SavedStateHolds == CleanIsSaved /\ LockoutReadable /\ HoldCoversRecovery

\* Nothing is lost without this invocation's consent.
LossConsented == [][ConsentFirst /\ LossIsAcknowledged]_recoveryVars

\* A recovery loads the committed state onto a cold T2 only, and closes on what
\* it began with.
LoadsSound == [][ColdMasterLoad /\ CompleteSound]_recoveryVars
=============================================================================
