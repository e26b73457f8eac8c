----------------------------- MODULE SelfService -----------------------------
(***************************************************************************)
(* The authority of one caller over its own fingerprints: what is read of  *)
(* the world, in which order and how often, before a worker may send a     *)
(* command that changes the SEP (t2_user_broker.run_self_service,          *)
(* t2_native_caller_authorization, t2_ipc_session, t2_fprint_claim).       *)
(*                                                                         *)
(* Every read is a step of its own, and the world may change between any   *)
(* two.  What is read is a fact of the request: the process that called is *)
(* the one that was pinned, its login session is the one of the claim and  *)
(* active, and so on.                                                      *)
(***************************************************************************)
EXTENDS Naturals, Sequences

CONSTANTS Requests,         \* requests of the facade, each with a worker of its own
          MaxChanges   \* bound on the changes of the world

ASSUME ChangesAssumption == MaxChanges \in Nat

VARIABLES native,      \* T2_TOUCHID_AUTHORITY_MODE is linux-native
          lost,        \* facts that do not hold at the moment, by request
          changes,
          round, next, \* where a request is in its reads
          since,       \* facts that held at some time since the last check began
          witness      \* lasting facts that held when the last check read the session

authority == <<round, next, since, witness>>
world == <<lost, changes>>

\* A process, a Bridge or AKS connection and a grant that are gone stay gone; the
\* others may come back, as a login session does that is left and entered again.
Lasting == {"caller", "device", "grant"}
Facts == Lasting \cup {"session", "account", "mapping", "keybag"}

-----------------------------------------------------------------------------
(* What is read, in order.  Two looks at the same thing in a row are one. *)

Process == <<"caller">>
Peer == Process
BusCaller == Process
Login == <<"session">>
Account == <<"account">>
Mapping == <<"mapping">>
Keybag == <<"keybag">>
Device == <<"device">>
Grant == <<"grant">>

\* Mutant: the process is not looked at again after its session was read.
CollectSessionOnce == Peer \o Login

\* collect_session: the pinned process before and after its login session.
CollectSession == Peer \o Login \o Peer

\* AuthorizationSession.revalidate.
Revalidate == CollectSession \o Account

\* ClaimEvidence.revalidate, in the facade.
ClaimReads == BusCaller \o Account \o CollectSession \o Account \o BusCaller

\* A PolicyKit grant is asked for on behalf of the pinned process.
AskGrant == Process \o Revalidate

\* dispatch_allowed, of the broker and of the native owners.
BrokerDispatch == Revalidate \o Mapping \o Keybag \o Device \o Grant
NativeDispatch == Revalidate \o Mapping \o Grant

\* What the grant is asked for with: the live target, or a second grant to activate it.
BrokerCollect == Mapping \o Keybag \o Device \o AskGrant
NativeCollect == Mapping \o AskGrant \o AskGrant \o NativeDispatch

\* The two rounds of the broker after the grant: for the policy decision, and at handoff.
DecideReads == Revalidate \o Mapping \o Keybag \o Device \o Grant
HandoffReads == Revalidate \o Mapping \o Keybag \o Device \o Revalidate \o Mapping \o Keybag \o Grant

DispatchReads == IF native THEN NativeDispatch ELSE BrokerDispatch
CollectReads == IF native THEN NativeCollect ELSE BrokerCollect

Reads(r) == CASE r = "claim"    -> ClaimReads
              [] r = "admit"    -> Revalidate
              [] r = "collect"  -> CollectReads
              [] r = "decide"   -> DecideReads
              [] r = "handoff"  -> HandoffReads
              [] r = "dispatch" -> DispatchReads
              [] OTHER          -> <<>>

Rounds == {"none", "claim", "admit", "collect", "decide", "handoff", "dispatch"}

-----------------------------------------------------------------------------
AuthorityTypeOK ==
    /\ native \in BOOLEAN
    /\ lost \in [Requests -> SUBSET Facts] /\ changes \in 0 .. MaxChanges
    /\ round \in [Requests -> Rounds] /\ next \in [Requests -> Nat \ {0}]
    /\ since \in [Requests -> SUBSET Facts] /\ witness \in [Requests -> SUBSET Lasting]

AuthorityInit ==
    /\ native \in BOOLEAN
    /\ lost = [o \in Requests |-> {}] /\ changes = 0
    /\ round = [o \in Requests |-> "none"] /\ next = [o \in Requests |-> 1]
    /\ since = [o \in Requests |-> {}] /\ witness = [o \in Requests |-> {}]

\* Every read of the round was made and held.
Through(o, r) == round[o] = r /\ next[o] > Len(Reads(r))

EnterRound(o, r) ==
    /\ round' = [round EXCEPT ![o] = r] /\ next' = [next EXCEPT ![o] = 1]
    /\ since' = [since EXCEPT ![o] = IF r = "dispatch" THEN Facts \ lost[o] ELSE {}]
    /\ witness' = [witness EXCEPT ![o] = {}]

\* The next read finds the fact, and in the last check also witnesses what lasts.
ReadHolds(o) ==
    /\ next[o] <= Len(Reads(round[o]))
    /\ LET f == Reads(round[o])[next[o]] IN
       /\ f \notin lost[o]
       /\ witness' = [witness EXCEPT ![o] = IF round[o] = "dispatch" /\ f = "session"
                                            THEN Lasting \ lost[o] ELSE @]
    /\ next' = [next EXCEPT ![o] = @ + 1]
    /\ UNCHANGED <<round, since>>

\* Otherwise the request is refused.
ReadFails(o) == /\ next[o] <= Len(Reads(round[o]))
                /\ Reads(round[o])[next[o]] \in lost[o]

-----------------------------------------------------------------------------
(* The world. *)

\* Writers of the mapping take the lock that the broker holds for its whole transaction.
Loses(o, f, locked) ==
    /\ changes < MaxChanges /\ changes' = changes + 1
    /\ f \notin lost[o] /\ ~(f = "mapping" /\ locked /\ ~native)
    /\ f \in {"device", "grant"} => round[o] \notin {"none", "claim", "admit"}
    /\ lost' = [lost EXCEPT ![o] = @ \cup {f}]
    /\ UNCHANGED authority

Regains(o, f) ==
    /\ changes < MaxChanges /\ changes' = changes + 1
    /\ f \in lost[o] \ Lasting
    /\ lost' = [lost EXCEPT ![o] = @ \ {f}]
    /\ since' = [since EXCEPT ![o] = IF round[o] = "dispatch" THEN @ \cup {f} ELSE @]
    /\ UNCHANGED <<round, next, witness>>
=============================================================================
