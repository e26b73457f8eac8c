---------------------------- MODULE UserActivation ----------------------------
(***************************************************************************)
(* t2_user_activation_operation on the identity that IdentityFirstRun has  *)
(* mapped: its keybag is loaded, bound to the user's alias, unlocked and   *)
(* unloaded again.  run does this for its own sake; retain keeps the       *)
(* handle while its caller (a match, an enrollment, a management command)  *)
(* works, and releases it afterwards.  Each operation has a journal of its *)
(* own, which t2_user_activation_recovery reconciles and                   *)
(* t2_activation_journal_retention prunes.                                 *)
(*                                                                         *)
(* The process shares /dev/t2-aks with the owners of IdentityFirstRun: one *)
(* of them at a time.  Operations on the mapping that is about to be       *)
(* replaced are left out.  The lock state of an alias is ready or locked;  *)
(* locked stands for every state in which a match is refused.              *)
(***************************************************************************)
EXTENDS IdentityFirstRun

CONSTANT MaxActivations  \* bound on operations of a behaviour

ASSUME ActivationsAssumption == MaxActivations \in Nat

VARIABLES u,       \* the journal of the last operation
          how,     \* "run" or "retain"
          found,   \* the alias as it was read back after the bind
          bound,   \* the descriptor saw its bind succeed (_bound_alias)
          activations

user == <<u, how, found, bound, activations>>
allvars == <<vars, user>>

UserInit == /\ Init
            /\ u = None /\ how = None /\ found = None /\ bound = FALSE
            /\ activations = 0

-----------------------------------------------------------------------------
(* The journal. *)

\* What may follow a phase, a stop and a recovery apart.  The journal also
\* allows an alias that was there to be configured or unlocked without a load,
\* which no operation does.
UserOrder(phase) ==
    CASE phase = "baseline"               -> {"load-intent"}
      [] phase = "load-intent"            -> {"handle-observed"}
      [] phase = "handle-observed"        -> {"bind-intent"}
      [] phase = "bind-intent"            -> {"alias-observed"}
      [] phase = "alias-observed"         -> {"configuration-intent", "unload-intent"}
      [] phase = "configuration-intent"   -> {"configuration-resolved"}
      [] phase = "configuration-resolved" -> {"unlock-intent"}
      [] phase = "unlock-intent"          -> {"alias-unlocked", "ready"}
      [] phase = "alias-unlocked"         -> {"unload-intent"}
      [] phase = "unload-intent"          -> {"handle-released"}
      [] phase = "handle-released"        -> {"unlock-intent", "ready"}
      [] OTHER                            -> {}

Resolutions == {"recovered-ready", "recovered-not-ready", "recovery-blocked", "quarantined"}
Running == {"load-intent", "handle-observed", "bind-intent", "alias-observed",
            "configuration-intent", "configuration-resolved", "unlock-intent",
            "alias-unlocked", "unload-intent", "handle-released"}

UserJournal == [phase : Running \cup Resolutions \cup {"baseline", "ready", "stopped", "outcome-unknown"},
                from : Running \cup {None}, at : Owners]

ASSUME JournalAssumption == None \notin UserJournal

LegalUser(next) == CASE next \in {"stopped", "outcome-unknown"} -> u.phase \in Running
                     [] next \in Resolutions -> u.phase = "outcome-unknown" /\ ~SameOwner(u.at)
                     [] OTHER -> next \in UserOrder(u.phase)

RecordUser(next) ==
    u' = IF ~LegalUser(next) THEN u
         ELSE [u EXCEPT !.phase = next,
                        !.from = IF next \in {"stopped", "outcome-unknown"} THEN u.phase ELSE @]

-----------------------------------------------------------------------------
(* The operation. *)

\* The journal is created on a fresh descriptor.
BeginUser(h) ==
    /\ Opens /\ disk.mapping = "new" /\ activations < MaxActivations
    /\ u' = [phase |-> "baseline", from |-> None, at |-> "now"]
    /\ how' = h /\ found' = None /\ bound' = FALSE
    /\ activations' = activations + 1
    /\ pc' = "user"
    /\ UNCHANGED <<sep, disk, journals, sent, failures>>

\* run has nothing to do for an alias that is ready; retain binds it again.
BeginRun == sep.alias \in {"absent", "locked"} /\ BeginUser("run")

BeginRetain == sep.alias \in {"absent", "locked", "ready"} /\ BeginUser("retain")

\* What the SEP may be like once the command of a phase took effect.
UserEffect(phase) ==
    CASE phase = "load-intent"   -> {[sep EXCEPT !.handle = TRUE]}
      [] phase = "bind-intent"   -> {[sep EXCEPT !.alias = s] : s \in {"locked", sep.alias} \ {"absent"}}
      [] phase = "unlock-intent" -> {[sep EXCEPT !.alias = "ready"]}
      [] phase = "unload-intent" -> {[sep EXCEPT !.handle = FALSE]}
      [] OTHER                   -> {sep}

\* The read-back that has to confirm a command.
\* Mutant: a retained identity is released without a look at its alias.
ConfirmedUnread(phase, s) == CASE phase = "bind-intent"   -> s.alias \in {"locked", "ready"}
                               [] phase = "unlock-intent" -> s.alias = "ready"
                               [] OTHER                   -> TRUE

Confirmed(phase, s) == CASE phase = "bind-intent"   -> s.alias \in {"locked", "ready"}
                         [] phase = "unlock-intent" -> s.alias = "ready"
                         [] phase = "unload-intent" -> how = "retain" => s.alias = "ready"
                         [] OTHER                   -> TRUE

\* The record after a phase.  An alias that was ready after the bind is not
\* unlocked; run stops when it released a bag whose alias is not ready.
UserNext(phase) ==
    CASE phase = "alias-observed"  -> IF found = "locked" THEN "configuration-intent" ELSE "unload-intent"
      [] phase = "unlock-intent"   -> "alias-unlocked"
      [] phase = "handle-released" -> IF how = "run" /\ sep.alias # "ready" THEN "stopped" ELSE "ready"
      [] OTHER -> CHOOSE next \in UserOrder(phase) : TRUE

UserRuns == pc = "user" /\ u.phase \in Running \cup {"baseline"}

\* The command of an intent and the record of its confirmation, or an intent.
\* unlock_alias_with_acm_context refuses an alias it did not bind.
UserStep ==
    /\ UserRuns
    /\ u.phase = "unlock-intent" => bound
    /\ sep' \in UserEffect(u.phase)
    /\ Confirmed(u.phase, sep')
    /\ RecordUser(UserNext(u.phase))
    /\ found' = IF u.phase = "bind-intent" THEN sep'.alias ELSE found
    /\ bound' = (bound \/ u.phase = "bind-intent")
    /\ UNCHANGED <<disk, journals, pc, sent, failures, how, activations>>

\* _terminal, and the descriptor is closed.
Terminal(outcome, s) == RecordUser(outcome) /\ pc' = "idle" /\ sep' \in Closed(s)

\* A bind or an unlock is refused, or answered by what is no reply: the
\* read-back alone decides.
UserCommandRaises ==
    /\ UserRuns /\ u.phase \in {"bind-intent", "unlock-intent"}
    /\ \/ Fails
       \/ u.phase = "unlock-intent" /\ ~bound /\ UNCHANGED failures
    /\ \E s \in {sep} \cup (IF u.phase = "unlock-intent" /\ ~bound THEN {} ELSE UserEffect(u.phase)) :
          IF Confirmed(u.phase, s)
          THEN /\ RecordUser(UserNext(u.phase)) /\ sep' = s /\ UNCHANGED pc
               /\ found' = IF u.phase = "bind-intent" THEN s.alias ELSE found
          ELSE /\ Terminal(IF s.alias = "absent" \/ u.phase = "bind-intent"
                           THEN "outcome-unknown" ELSE "stopped", s)
               /\ UNCHANGED found
    /\ UNCHANGED <<disk, journals, sent, how, bound, activations>>

\* The release of a retained bag is answered, but its alias is no longer ready.
ReleaseUnconfirmed ==
    /\ UserRuns /\ u.phase = "unload-intent"
    /\ \E s \in UserEffect(u.phase) : ~Confirmed(u.phase, s) /\ Terminal("outcome-unknown", s)
    /\ UNCHANGED <<disk, journals, sent, failures, how, found, bound, activations>>

\* The loaded bag is not the mapped one.
BagMismatch ==
    /\ UserRuns /\ u.phase = "load-intent" /\ Fails
    /\ \E s \in UserEffect(u.phase) :
          Terminal(IF how = "run" THEN "stopped" ELSE "outcome-unknown", s)
    /\ UNCHANGED <<disk, journals, sent, how, found, bound, activations>>

\* A call, an observation or an append fails, or the process dies, whether or
\* not the command of the phase took effect; the stop may go unrecorded.
UserFails ==
    /\ UserRuns /\ Fails
    /\ \E s \in {sep} \cup UserEffect(u.phase) : sep' \in Closed(s)
    /\ u' = u \/ RecordUser("outcome-unknown")
    /\ pc' = "idle"
    /\ UNCHANGED <<disk, journals, sent, how, found, bound, activations>>

\* The caller of retain fails before it has prepared the alias: the bag is
\* released all the same.
BodyFails ==
    /\ UserRuns /\ how = "retain" /\ u.phase = "alias-observed" /\ found = "locked" /\ Fails
    /\ RecordUser("unload-intent")
    /\ UNCHANGED <<sep, disk, journals, pc, sent, how, found, bound, activations>>

\* While the caller works, failed matches or the user lock the device.
BodyLocks ==
    /\ UserRuns /\ how = "retain" /\ u.phase \in {"alias-observed", "alias-unlocked"}
    /\ sep.alias = "ready"
    /\ sep' = [sep EXCEPT !.alias = "locked"]
    /\ UNCHANGED <<disk, journals, pc, sent, failures, user>>

UserEnds == /\ pc = "user" /\ u.phase \in {"ready", "stopped"}
            /\ Stop
            /\ UNCHANGED <<disk, journals, sent, failures, user>>

-----------------------------------------------------------------------------
(* Reconciliation and retention. *)

\* An operation that never sent its bind has no claim to the alias.
Early == u.from \in {"load-intent", "handle-observed"}

Resolution == IF sep.alias = "absent" THEN "recovery-blocked"
              ELSE IF sep.alias = "foreign" \/ Early THEN "quarantined"
              ELSE IF sep.alias = "ready" THEN "recovered-ready" ELSE "recovered-not-ready"

RecoverUser ==
    /\ Opens /\ disk.mapping = "new"
    /\ u # None /\ u.phase = "outcome-unknown" /\ ~SameOwner(u.at)
    /\ RecordUser(Resolution)
    /\ UNCHANGED <<vars, how, found, bound, activations>>

Deletable == {"ready", "stopped", "recovered-ready", "recovered-not-ready"}

Prune == /\ pc = "idle" /\ u # None /\ u.phase \in Deletable
         /\ u' = None
         /\ UNCHANGED <<vars, how, found, bound, activations>>

-----------------------------------------------------------------------------
Operation == \/ BeginRun \/ BeginRetain
             \/ UserStep \/ ReleaseUnconfirmed \/ UserEnds

UserFailure == UserCommandRaises \/ BagMismatch \/ UserFails \/ BodyFails \/ BodyLocks

\* The journal knows the boot and the connection of its owner, as p, r and a do.
Elsewhere(f) == u' = IF u = None THEN None ELSE [u EXCEPT !.at = f[@]]

\* The steps of IdentityFirstRun.
FirstRun == \/ (Owner \/ OwnerFailure \/ LateEffect) /\ UNCHANGED user
            \/ /\ \/ ReloadModule /\ Elsewhere(Moved)
                  \/ (Reboot \/ PowerLoss) /\ Elsewhere(Aged)
               /\ UNCHANGED <<how, found, bound, activations>>

UserNextStep == Operation \/ UserFailure \/ RecoverUser \/ Prune \/ FirstRun

\* The service runs at every boot, a running operation goes on, and a machine
\* whose setup is not done is restarted again and again.
UserSpec == /\ UserInit /\ [][UserNextStep]_allvars
            /\ WF_vars(Owner) /\ WF_allvars(UserStep \/ ReleaseUnconfirmed \/ UserEnds)
            /\ SF_vars(Reboot)

-----------------------------------------------------------------------------
(* Properties. *)

\* A journal that ends as ready tells the truth, also when the device was
\* locked under a retained identity, a reply was lost or another boot
\* reconciled it: at that moment the alias is ready, no handle is left, and
\* the operation itself had sent the bind (retain_ready_identity_handle, run,
\* recover: "A newly present alias cannot be attributed to this operation").
ReadyIsWitnessed ==
    [][/\ u' # None /\ u'.phase \in {"ready", "recovered-ready"}
       /\ u # None /\ u.phase # u'.phase
       => /\ sep'.alias = "ready" /\ ~sep'.handle
          /\ u'.from \in {None} \cup (Running \ {"load-intent", "handle-observed"})]_allvars

===============================================================================
