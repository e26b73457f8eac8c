--------------------------- MODULE RecoveryJournal ---------------------------
(***************************************************************************)
(* The histories of a native-state recovery (t2_native_state_recovery.py). *)
(* A record is a milestone and its evidence.  A milestone is written as    *)
(* the step and what is recorded of it: <<"PREPARE_MASTER", "INTENT">>     *)
(* is PREPARE_MASTER_INTENT.  Of the evidence only the component surface   *)
(* that a readback claims, the firmware status of a rejection and the      *)
(* identities of a persisted archive are kept.                             *)
(***************************************************************************)
EXTENDS Sequences, SequencesExt, Naturals

Intent(s) == <<s, "INTENT">>
Accepted(s) == <<s, "ACCEPTED">>
Unknown(s) == <<s, "OUTCOME_UNKNOWN">>
Rejected(s) == <<s, "REPLY_REJECTED">>
BadState(s) == <<s, "POST_STATE_REJECTED">>
Proven(s) == <<s, "RECONCILED">>
Prepared(s) == <<s, "PREPARED">>
Selected(s) == <<s, "SELECTED">>
Command(s) == <<Intent(s), Accepted(s)>>

Ready == <<"EMPTY_REPROVISION", "READY">>
Settled == <<"MASTER", "SETTLED">>
RecoveryComplete == <<"RECOVERY", "COMPLETE">>
EmptyComplete == <<"EMPTY_REPROVISION", "COMPLETE">>
PersistenceProven == Proven("CATACOMB_PERSISTENCE")

-----------------------------------------------------------------------------
(* The sequences a history may follow. *)

SUCCESS == <<Proven("BASELINE")>> \o Command("PREPARE_MASTER") \o Command("PREPARE_USER")
           \o <<Selected("CLIENT_VERSION"), Proven("MISSING_COMPONENTS")>>
           \o Command("SAVED_USER_LOAD")
           \o <<Proven("SAVED_USER"), Intent("CATACOMB_PERSISTENCE"), PersistenceProven,
                Intent("BIOLOCKOUT_LOAD"), Proven("BIOLOCKOUT"), RecoveryComplete>>

From(s, n) == SubSeq(s, n + 1, Len(s))
Upto(s, n) == SubSeq(s, 1, n)

RESCUE == Upto(SUCCESS, 6)
          \o <<BadState("MISSING_COMPONENTS"), Proven("LOADED_EMPTY_USER")>>
          \o Command("REMOVE_EMPTY_USER")
          \o <<Proven("REMOVED_USER"),
               Intent("MASTER_EXPORT_PREPARE"), <<"MASTER_EXPORT", "PREPARED">>,
               Intent("MASTER_EXPORT_COMPLETE"), <<"MASTER_EXPORT", "CAPTURED">>,
               Intent("MASTER_EXPORT_CONFIRM"), <<"MASTER_EXPORT", "CONFIRMED">>, Settled>>
          \o Command("REPREPARE_MASTER") \o Command("REPREPARE_USER")
          \o <<Selected("RECLIENT_VERSION"), Proven("MISSING_COMPONENTS")>>
          \o From(SUCCESS, 7)

COLD_RESCUE == Upto(RESCUE, 23)
               \o <<BadState("REPREPARED_COMPONENTS"), Prepared("COLD_RESTART"),
                    Proven("COLD_SURFACE")>>
               \o Command("RETAINED_MASTER_LOAD") \o <<Proven("COLD_MASTER")>>
               \o From(SUCCESS, 7)

CANONICAL_USER == Command("CANONICAL_USER_LOAD") \o <<Proven("SAVED_USER")>>
                  \o From(SUCCESS, 10)
CANONICAL_LOAD == Command("CANONICAL_MASTER_LOAD") \o <<Proven("CANONICAL_MASTER")>>
                  \o CANONICAL_USER

\* How histories reach a cold surface on which the committed master is loaded:
\* directly, or past an exported master that an older version loaded first,
\* before or after the SEP rejected the saved user under it.
DirectCold == Upto(COLD_RESCUE, 26)
Restarted == <<Prepared("CANONICAL_RESTART"), Proven("CANONICAL_COLD_SURFACE")>>
RedirectCold == Upto(COLD_RESCUE, 29) \o Restarted
RejectionCold == Upto(COLD_RESCUE, 30) \o <<Rejected("SAVED_USER_LOAD")>> \o Restarted

\* Older versions took an empty loaded master for a load that the SEP rejected.
MASTER_REPLY == <<Intent("CANONICAL_MASTER_LOAD"), Rejected("CANONICAL_MASTER_LOAD"),
                  Proven("CANONICAL_MASTER_REPLY")>>

EMPTY_SUFFIX == <<Rejected("CANONICAL_USER_LOAD"), Proven("EMPTY_REPROVISION_SURFACE")>>
                \o Command("EMPTY_REPROVISION_MASTER") \o Command("EMPTY_REPROVISION_USER")
                \o <<Selected("EMPTY_REPROVISION_CLIENT"), Ready,
                     Proven("EMPTY_REPROVISION_CATACOMBS"),
                     Intent("EMPTY_REPROVISION_BIOLOCKOUT"),
                     Proven("EMPTY_REPROVISION_BIOLOCKOUT"), EmptyComplete>>

EmptyOf(cold) == cold \o MASTER_REPLY \o <<Intent("CANONICAL_USER_LOAD")>> \o EMPTY_SUFFIX
EMPTY_REPROVISION == EmptyOf(RejectionCold)
DIRECT_EMPTY_REPROVISION == EmptyOf(DirectCold)

Histories == {SUCCESS, RESCUE, COLD_RESCUE, EMPTY_REPROVISION, DIRECT_EMPTY_REPROVISION}
             \cup {cold \o load : cold \in {DirectCold, RedirectCold, RejectionCold},
                                  load \in {CANONICAL_LOAD, MASTER_REPLY \o CANONICAL_USER}}

-----------------------------------------------------------------------------
(* Evidence.  A surface is the state of the master and of the user          *)
(* component (0: no such component).                                        *)

Warm == {3, 7}

RescueSurfaces(s) ==
    CASE s = "LOADED_EMPTY_USER" -> Warm \X Warm
      [] s = "REMOVED_USER" -> {<<7, 0>>}
      [] s = "MASTER" -> {<<3, 0>>}
      [] OTHER -> {}

ColdSurfaces(s) ==
    CASE s \in {"COLD_SURFACE", "CANONICAL_COLD_SURFACE"} -> {<<1, 0>>, <<1, 1>>}
      [] s \in {"COLD_MASTER", "CANONICAL_MASTER"} -> {<<3, 0>>, <<3, 1>>}
      [] s = "CANONICAL_MASTER_REPLY" -> {<<3, 0>>}
      [] OTHER -> {}

EmptySurfaces(s) ==
    CASE s = "EMPTY_REPROVISION_SURFACE" -> {<<3, 0>>}
      [] s = "EMPTY_REPROVISION" -> {<<3, 7>>, <<7, 7>>}
      [] OTHER -> {}

Surfaces(s) == RescueSurfaces(s) \cup ColdSurfaces(s) \cup EmptySurfaces(s)

\* A record is of a known shape and claims what its milestone stands for.
Claims(r) == \/ r.surface = <<>>
             \/ r.m = Proven("MISSING_COMPONENTS")
             \/ r.surface \in Surfaces(r.m[1])

FAILURES == {"OUTCOME_UNKNOWN", "REPLY_REJECTED", "SELECTION_FAILED"}
Failure(m) == \/ m[2] \in FAILURES
              \/ /\ m[2] = "POST_STATE_REJECTED"
                 /\ m[1] \notin {"MISSING_COMPONENTS", "REPREPARED_COMPONENTS"}

Milestones(h) == [i \in DOMAIN h |-> h[i].m]
Begins(names) == \E s \in Histories : IsPrefix(names, s)

\* The archive that CATACOMB_PERSISTENCE_RECONCILED records keeps the baseline's identities.
Persisted(h) == \A i \in DOMAIN h : h[i].m = PersistenceProven => h[i].ids = h[1].ids

validate_history(h) ==
    LET names == Milestones(h) IN
    /\ h # <<>>
    /\ IF Failure(Last(names)) THEN Begins(Front(names)) ELSE Begins(names)
    /\ \A i \in DOMAIN h : Claims(h[i])
    /\ Persisted(h)

Milestone(h) == Last(h).m
Complete(h) == Milestone(h) \in {RecoveryComplete, EmptyComplete}
Blocked(h) == Failure(Milestone(h))

-----------------------------------------------------------------------------
(* Failures that a later invocation may pass. *)

Holds(h, m) == \E i \in DOMAIN h : h[i].m = m

canonical_restart_is_resumable(h) ==
    /\ Milestone(h) \in {Proven("COLD_MASTER"), Rejected("SAVED_USER_LOAD")}
    /\ \A m \in {Proven("COLD_SURFACE"), Accepted("RETAINED_MASTER_LOAD"),
                 Proven("COLD_MASTER")} : Holds(h, m)

canonical_master_reply_is_resumable(h) == FALSE

empty_reprovision_is_resumable(h) ==
    /\ Milestone(h) = Rejected("CANONICAL_USER_LOAD")
    /\ Last(h).status
    /\ \E s \in {EMPTY_REPROVISION, DIRECT_EMPTY_REPROVISION} : IsPrefix(Milestones(h), s)
=============================================================================
