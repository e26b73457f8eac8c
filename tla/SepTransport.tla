----------------------------- MODULE SepTransport -----------------------------
(***************************************************************************)
(* t2_sep_transport.c: the kernel module between the SEP and the two       *)
(* exclusive devices /dev/t2-aks and /dev/t2-acm.  Any root process may    *)
(* issue any request in any order and die at any point; the kernel admits  *)
(* a request only when what it recorded of the earlier ones allows it.     *)
(*                                                                         *)
(* An ioctl runs under exchange_lock and is one step.  An exchange ends in *)
(* one of four ways: its reply arrives; it arrives and cannot be copied to *)
(* the caller; or it fails (rejected, malformed, timed out) and the SEP    *)
(* did or did not apply it.  A request of the wrong shape, session, handle *)
(* or context is refused and changes nothing, and is left out except where *)
(* the code records it.                                                    *)
(***************************************************************************)
EXTENDS Naturals, FiniteSets

CONSTANTS None,          \* no session, context or identity
          Sessions,      \* sessions of requests
          Contexts,      \* ACM context references
          MaxFailures    \* bound on exchanges that fail

ASSUME BoundsAssumption == MaxFailures \in Nat

VARIABLES k,         \* what the kernel recorded: struct t2_sep_transport
          hw,        \* the SEP
          dev,       \* the loaded module: stage, DMA buffers, references, parameters
          failures

vars == <<k, hw, dev, failures>>

Buffers == {"aks_in", "aks_out", "acm_in", "acm_out"}
Arms == {"none", "delete", "create", "recover"}

Init ==
    /\ k = [aksOpen |-> FALSE, acmOpen |-> FALSE,
            phase |-> "idle", provPoisoned |-> FALSE, provTried |-> FALSE,
            absent |-> 0, session |-> None,
            bound |-> None,
            secret |-> None, externalized |-> FALSE, consumed |-> FALSE, target |-> FALSE,
            active |-> FALSE, runPoisoned |-> FALSE, runTried |-> FALSE, alias |-> FALSE,
            unlockTried |-> FALSE,
            arm |-> "none", armSession |-> None, deleteTried |-> FALSE, createTried |-> FALSE,
            context |-> None, acmPoisoned |-> FALSE]
    /\ \E id \in {None, "old"} :
          hw = [primary |-> id, handles |-> 0, made |-> 0, contexts |-> {}, secrets |-> {},
                verified |-> None, unlocked |-> FALSE, creates |-> 0, dma |-> {}]
    /\ \E retain \in BOOLEAN :
          dev = [stage |-> "probe", allocated |-> Buffers, registered |-> {}, refs |-> 1, freed |-> FALSE,
                 retain |-> retain]
    /\ failures = 0

-----------------------------------------------------------------------------
(* Probe: t2_sep_probe registers four DMA buffers, one after the other. *)

RegisterOrder == <<"aks_in", "aks_out", "acm_in", "acm_out">>

NextBuffer == RegisterOrder[Cardinality(dev.registered) + 1]

Fails == failures < MaxFailures /\ failures' = failures + 1

Register ==
    /\ dev.stage = "probe"
    /\ hw' = [hw EXCEPT !.dma = @ \cup {NextBuffer}]
    /\ dev' = [dev EXCEPT !.registered = @ \cup {NextBuffer},
                          !.stage = IF NextBuffer = "acm_out" THEN "ready" ELSE @]
    /\ UNCHANGED <<k, failures>>

\* Mutant: a registration whose reply is lost frees the buffers.
RegisterLostFreed ==
    /\ dev.stage = "probe" /\ Fails
    /\ \E applied \in BOOLEAN :
          hw' = IF applied THEN [hw EXCEPT !.dma = @ \cup {NextBuffer}] ELSE hw
    /\ dev' = IF dev.registered = {} THEN [dev EXCEPT !.allocated = {}, !.stage = "failed", !.refs = 0, !.freed = TRUE]
              ELSE [dev EXCEPT !.stage = "pinned"]
    /\ UNCHANGED k

\* The reply is lost: the SEP may hold the address, so nothing is freed and
\* the devices are not offered.
RegisterLost ==
    /\ dev.stage = "probe" /\ Fails
    /\ \E applied \in BOOLEAN :
          hw' = IF applied THEN [hw EXCEPT !.dma = @ \cup {NextBuffer}] ELSE hw
    /\ dev' = [dev EXCEPT !.registered = @ \cup (IF @ = {} THEN {NextBuffer} ELSE {}),
                          !.stage = "pinned"]
    /\ UNCHANGED k

\* The SEP refuses, or the request is never sent: with nothing registered the
\* probe undoes itself.
RegisterRefused ==
    /\ dev.stage = "probe" /\ Fails
    /\ dev' = IF dev.registered = {}
              THEN [dev EXCEPT !.allocated = {}, !.stage = "failed", !.refs = 0, !.freed = TRUE]
              ELSE [dev EXCEPT !.stage = "pinned"]
    /\ UNCHANGED <<k, hw>>

\* t2_aks_probe_capabilities fails: registered, but no device.
ProbeFails == /\ dev.stage = "ready" /\ hw.creates = 0 /\ Fails
              /\ ~k.aksOpen /\ ~k.acmOpen /\ dev.refs = 1
              /\ dev' = [dev EXCEPT !.stage = "pinned"]
              /\ UNCHANGED <<k, hw>>

Put(d) == [d EXCEPT !.refs = @ - 1, !.freed = (@ \/ d.refs = 1)]

t2_sep_remove ==
    /\ dev.stage \in {"ready", "pinned"}
    /\ dev' = Put([dev EXCEPT !.stage = "removed",
                              !.allocated = IF dev.registered = {} THEN {} ELSE @])
    /\ UNCHANGED <<k, hw, failures>>

-----------------------------------------------------------------------------
(* What the kernel clears. *)

ClearPassword(s) == [s EXCEPT !.bound = None]

Forget(s) == [s EXCEPT !.secret = None, !.externalized = FALSE, !.consumed = FALSE, !.target = FALSE]

ClearAuthorization(s) == Forget(ClearPassword(s))

ResetInventory(s) == [s EXCEPT !.absent = 0, !.session = None]

\* Mutant: the authorization survives the handle it was proved on.
ResetAbsenceKeepsAuthorization(s) == ResetInventory(s)

ResetAbsence(s) == ClearAuthorization(ResetInventory(s))

ClearArm(s) == [s EXCEPT !.arm = "none", !.armSession = None]

\* Mutant: the count of absences is not capped.
RecordAbsenceUncapped(s, session) ==
    LET t == IF s.arm \in {"delete", "create"} THEN ClearPassword(s) ELSE ClearAuthorization(s)
    IN  [t EXCEPT !.session = session, !.absent = IF s.session # session THEN 1 ELSE (@ + 1) % 4]

RecordAbsence(s, session) ==
    LET t == IF s.arm \in {"delete", "create"} THEN ClearPassword(s) ELSE ClearAuthorization(s)
    IN  [t EXCEPT !.session = session,
                  !.absent = IF s.session # session THEN 1 ELSE IF @ < 2 THEN @ + 1 ELSE @]

Live(s) == s.secret # None
Current(s) == Live(s) /\ s.context = s.secret
Usable(s) == s.context # None /\ ~s.acmPoisoned

-----------------------------------------------------------------------------
(* Requests of /dev/t2-aks.  r = [op, session] or [op, session, kind]. *)

\* t2_aks_provisioning_preflight_locked
ProvisioningAdmits(s, op, session) ==
    /\ s.phase = "created" => op = "export"
    /\ op = "create" =>
          /\ ~s.provPoisoned /\ s.phase = "idle"
          /\ s.arm # "none" => s.arm = "create" /\ ~s.createTried /\ session = s.armSession
          /\ s.absent = 2 /\ s.session = session
          /\ s.arm = "none" => Live(s) /\ ~s.consumed /\ Usable(s) /\ Current(s)
    /\ op = "export" =>
          IF s.arm = "recover" THEN ~s.runPoisoned /\ s.active
          ELSE ~s.provPoisoned /\ s.phase = "created"
    /\ op = "delete" => s.arm = "delete" /\ ~s.deleteTried
    /\ op = "unload" /\ s.phase = "complete" => ~s.provPoisoned /\ ~s.provTried

\* t2_aks_runtime_preflight_locked
RuntimeAdmits(s, op) ==
    /\ op = "load" => s.arm \in {"none", "recover"} /\ ~s.runPoisoned /\ ~s.active
    /\ op = "unload" /\ s.phase # "complete" => s.active /\ ~s.runTried
    /\ op \in {"bind", "lock"} => ~s.runPoisoned /\ s.active
    /\ op = "lock" => s.alias
    /\ op = "unlock" =>
          /\ ~s.runPoisoned /\ s.active /\ s.alias /\ ~s.unlockTried /\ Usable(s)
          /\ Live(s) /\ s.consumed /\ s.target /\ s.bound # None
          /\ s.secret # s.context /\ s.bound = s.context

\* What t2_aks_ioctl marks before it sends.
Marked(s, op) ==
    LET t == CASE op = "unload" /\ s.phase = "complete" -> [s EXCEPT !.provTried = TRUE]
               [] op = "unload" /\ s.phase # "complete" -> [s EXCEPT !.runTried = TRUE]
               [] op = "unlock" -> [s EXCEPT !.unlockTried = TRUE]
               [] op = "delete" -> ResetInventory([s EXCEPT !.deleteTried = TRUE])
               [] op = "create" /\ s.arm = "create" -> [s EXCEPT !.createTried = TRUE]
               [] OTHER -> s
    IN  IF op \in {"create", "export", "unlock", "delete"} THEN t ELSE ResetAbsence(t)

\* t2_aks_record_provisioning_reply_locked, t2_aks_record_runtime_reply_locked
Recorded(s, op, session) ==
    CASE op = "create" -> ResetAbsence([s EXCEPT !.phase = "created", !.provTried = FALSE])
      [] op = "export" /\ s.arm # "recover" -> [s EXCEPT !.phase = "complete"]
      [] op = "unload" /\ s.phase = "complete" -> [s EXCEPT !.phase = "idle", !.provTried = FALSE]
      [] op = "unload" /\ s.phase # "complete" ->
            [s EXCEPT !.active = FALSE, !.runTried = FALSE, !.alias = FALSE, !.unlockTried = FALSE]
      [] op = "load" -> [s EXCEPT !.active = TRUE, !.runTried = FALSE, !.alias = FALSE,
                                  !.unlockTried = FALSE]
      [] op = "bind" -> [s EXCEPT !.alias = TRUE]
      [] OTHER -> s

\* Mutant: a load that fails leaves the endpoint usable.
PoisonedLoadForgotten(s, m, op) ==
    CASE op = "create" \/ (op = "export" /\ m.arm # "recover") \/ (op = "unload" /\ m.phase = "complete") ->
            [s EXCEPT !.provPoisoned = TRUE]
      [] \/ op = "export" /\ m.arm = "recover"
         \/ op = "unload" /\ m.phase # "complete" -> [s EXCEPT !.runPoisoned = TRUE]
      [] OTHER -> s

\* Mutant: a create whose reply is lost may be tried again.
PoisonedCreateForgotten(s, m, op) ==
    CASE (op = "export" /\ m.arm # "recover") \/ (op = "unload" /\ m.phase = "complete") ->
            [s EXCEPT !.provPoisoned = TRUE]
      [] \/ op = "load"
         \/ op = "export" /\ m.arm = "recover"
         \/ op = "unload" /\ m.phase # "complete" -> [s EXCEPT !.runPoisoned = TRUE]
      [] OTHER -> s

\* A request that may have left something in the SEP poisons its half.  Which
\* half is decided from m, the record the request was sent with; s is the
\* record by the time it has failed.
Poisoned(s, m, op) ==
    CASE op = "create" \/ (op = "export" /\ m.arm # "recover") \/ (op = "unload" /\ m.phase = "complete") ->
            [s EXCEPT !.provPoisoned = TRUE]
      [] \/ op = "load"
         \/ op = "export" /\ m.arm = "recover"
         \/ op = "unload" /\ m.phase # "complete" -> [s EXCEPT !.runPoisoned = TRUE]
      [] OTHER -> s

\* What the SEP does.
Effect(h, s, op) ==
    CASE op = "create" -> [h EXCEPT !.primary = IF s.arm = "create" THEN "new" ELSE "old",
                                    !.made = @ + 1]
      [] op = "delete" -> [h EXCEPT !.primary = IF @ = "old" THEN None ELSE @]
      [] op = "load" -> [h EXCEPT !.handles = @ + 1, !.verified = None, !.unlocked = FALSE]
      [] op = "unload" /\ s.phase = "complete" -> [h EXCEPT !.made = @ - 1]
      [] op = "unload" /\ s.phase # "complete" -> [h EXCEPT !.handles = @ - 1, !.verified = None, !.unlocked = FALSE]
      [] op = "unlock" -> [h EXCEPT !.unlocked = TRUE]
      [] OTHER -> h

Sent(h, op) == IF op = "create" THEN [h EXCEPT !.creates = @ + 1] ELSE h

Ops == {"create", "export", "delete", "load", "unload", "bind", "lock", "unlock", "observe"}

Exchange(op, session) ==
    /\ k.aksOpen /\ dev.stage = "ready"
    /\ ProvisioningAdmits(k, op, session) /\ RuntimeAdmits(k, op)
    /\ LET m == Marked(k, op)
           h == Sent(hw, op)
       IN  \/ /\ k' = Recorded(m, op, session) /\ hw' = Effect(h, m, op)
              /\ UNCHANGED failures
           \/ /\ k' = Poisoned(Recorded(m, op, session), m, op) /\ hw' = Effect(h, m, op)
              /\ Fails
           \/ /\ k' = Poisoned(m, m, op) /\ hw' \in {h, Effect(h, m, op)}
              /\ Fails
    /\ UNCHANGED dev

\* An export with a wrong handle, between a create and its export.
BadExport == /\ k.aksOpen /\ dev.stage = "ready" /\ k.phase = "created"
             /\ k' = [k EXCEPT !.provPoisoned = TRUE]
             /\ UNCHANGED <<hw, dev, failures>>

\* Operation 0x51: the primary identity.
ReadPrimary(session) ==
    /\ k.aksOpen /\ dev.stage = "ready" /\ k.phase # "created"
    /\ \/ /\ k' = IF hw.primary = None THEN RecordAbsence(k, session) ELSE ResetAbsence(k)
          /\ UNCHANGED failures
       \/ k' = ResetAbsence(k) /\ Fails
    /\ UNCHANGED <<hw, dev>>

\* t2_aks_record_password_binding_locked.  kind is "identity" (the secret of
\* one context proved into another), "verify" (the secret of the current
\* context proved) or "password".
VerifyConsumes(s, kind) == kind \in {"identity", "verify"} /\ Live(s)

AfterVerify(s, kind) ==
    IF VerifyConsumes(s, kind) THEN ClearPassword([s EXCEPT !.consumed = TRUE])
    ELSE ClearAuthorization(s)

VerifyAdmits(s, kind) ==
    kind # "password" =>
        /\ s.active /\ ~s.runPoisoned /\ s.alias /\ Usable(s)
        /\ Live(s) /\ s.externalized /\ ~s.consumed
        /\ IF kind = "identity" THEN s.target /\ s.secret # s.context
                                ELSE ~s.target /\ Current(s)

VerifyBinds(s, kind) == \/ kind = "password" /\ s.absent = 2
                        \/ kind = "identity"

VerifySecret(kind) ==
    /\ k.aksOpen /\ dev.stage = "ready" /\ k.phase # "created"
    /\ LET t == AfterVerify(k, kind)
           proved == [hw EXCEPT !.verified = IF kind = "identity" THEN <<k.secret, k.context>> ELSE @]
       IN  \/ /\ VerifyAdmits(k, kind) /\ kind # "password" => k.secret \in hw.secrets
              /\ k' = IF VerifyBinds(k, kind) /\ Usable(k) THEN [t EXCEPT !.bound = k.context] ELSE t
              /\ hw' = proved
              /\ UNCHANGED failures
           \/ /\ VerifyAdmits(k, kind) /\ kind # "password" => k.secret \in hw.secrets
              /\ k' = t /\ hw' \in {hw, proved}
              /\ Fails
           \/ /\ ~(VerifyAdmits(k, kind) /\ (kind # "password" => k.secret \in hw.secrets))
              /\ k' = t /\ hw' = hw
              /\ UNCHANGED failures
    /\ UNCHANGED dev

\* t2_aks_arm_replacement
Arm(arm, session) ==
    /\ k.aksOpen /\ dev.stage = "ready"
    /\ \/ k.arm = "none"
       \/ k.arm = "delete" /\ arm = "create" /\ k.deleteTried /\ k.armSession = session
    /\ ~k.provPoisoned /\ ~k.runPoisoned /\ k.phase = "idle" /\ ~k.active
    /\ arm = "delete" => /\ Live(k) /\ ~k.consumed /\ k.externalized /\ Usable(k)
                         /\ ~k.deleteTried
    /\ arm = "create" => ~k.createTried /\ k.absent = 2 /\ k.session = session
    /\ k' = [k EXCEPT !.arm = arm, !.armSession = session]
    /\ UNCHANGED <<hw, dev, failures>>

Get(d) == [d EXCEPT !.refs = @ + 1]

OpenAks ==
    /\ dev.stage = "ready" /\ ~k.aksOpen
    /\ k' = [ClearArm(ResetAbsence(k)) EXCEPT !.aksOpen = TRUE]
    /\ dev' = Get(dev)
    /\ UNCHANGED <<hw, failures>>

\* Emergency unloads of t2_aks_release: what may follow of the kernel and the
\* SEP when it owns a runtime handle, and then a created one.
Retained(s) == dev.retain /\ s.active /\ s.alias /\ ~s.runPoisoned /\ ~s.runTried

UnloadOnClose(s, h, op, due) ==
    IF ~due THEN {<<s, h, FALSE>>}
    ELSE LET m == IF op = "made" THEN [s EXCEPT !.provTried = TRUE] ELSE [s EXCEPT !.runTried = TRUE]
             gone == IF op = "made" THEN [h EXCEPT !.made = @ - 1]
                     ELSE [h EXCEPT !.handles = @ - 1, !.verified = None, !.unlocked = FALSE]
             bad == IF op = "made" THEN [m EXCEPT !.provPoisoned = TRUE]
                    ELSE [m EXCEPT !.runPoisoned = TRUE]
             ok == IF op = "made" THEN [m EXCEPT !.phase = "idle", !.provTried = FALSE]
                   ELSE [m EXCEPT !.active = FALSE, !.runTried = FALSE, !.alias = FALSE,
                                  !.unlockTried = FALSE]
         IN  {<<ok, gone, FALSE>>, <<bad, h, TRUE>>, <<bad, gone, TRUE>>}

ReleaseOutcomes ==
    UNION {{<<y[1], y[2], x[3] \/ y[3]>> :
               y \in UnloadOnClose(x[1], x[2], "made", x[1].phase = "complete" /\ ~x[1].provTried)} :
           x \in UnloadOnClose(k, hw, "runtime", k.active /\ ~k.runTried /\ ~Retained(k))}

Released(s) ==
    [ClearArm(ResetAbsence(s)) EXCEPT !.aksOpen = FALSE, !.provPoisoned = @ \/ s.phase = "created"]

CloseAks ==
    /\ k.aksOpen
    /\ IF dev.stage = "removed"
       THEN k' = [k EXCEPT !.aksOpen = FALSE] /\ UNCHANGED <<hw, failures>>
       ELSE \E o \in ReleaseOutcomes :
               /\ k' = Released(o[1]) /\ hw' = o[2]
               /\ IF o[3] THEN Fails ELSE UNCHANGED failures
    /\ dev' = Put(dev)

-----------------------------------------------------------------------------
(* Requests of /dev/t2-acm. *)

AcmAdmits == k.acmOpen /\ dev.stage = "ready" /\ ~k.acmPoisoned

ClearContext(s) == [ClearAuthorization(s) EXCEPT !.context = None]

AcmPoisoned(s) == [ClearContext(s) EXCEPT !.acmPoisoned = TRUE]

\* t2_acm_split_target_create_allowed_locked
SplitAllowed(s) == /\ Current(s) /\ s.externalized /\ ~s.consumed /\ ~s.target
                   /\ s.active /\ s.alias

NewContext(s, c) ==
    IF SplitAllowed(s) THEN [s EXCEPT !.target = TRUE, !.context = c]
    ELSE [ClearAuthorization(s) EXCEPT !.context = c]

CreateContext ==
    /\ AcmAdmits /\ (k.context = None \/ SplitAllowed(k))
    /\ \E c \in Contexts \ hw.contexts :
          LET h == [hw EXCEPT !.contexts = @ \cup {c}]
          IN  \/ k' = NewContext(k, c) /\ hw' = h /\ UNCHANGED failures
              \/ k' = AcmPoisoned(k) /\ hw' \in {hw, h} /\ Fails
              \/ k' = k /\ hw' = hw /\ Fails
    /\ UNCHANGED dev

Destroyed(h, c) == [h EXCEPT !.contexts = @ \ {c}, !.secrets = @ \ {c},
                             !.verified = IF @ # None /\ @[2] = c THEN None ELSE @]

\* The input of a split comes back when its target is destroyed.
DroppedContext(s) ==
    IF Live(s) /\ s.target /\ s.context # s.secret
    THEN [ClearPassword(s) EXCEPT !.context = s.secret]
    ELSE ClearContext(s)

DestroyContext ==
    /\ AcmAdmits /\ k.context # None
    /\ \/ k' = DroppedContext(k) /\ hw' = Destroyed(hw, k.context) /\ UNCHANGED failures
       \/ k' = AcmPoisoned(k) /\ hw' \in {hw, Destroyed(hw, k.context)} /\ Fails
       \/ k' = k /\ hw' = hw /\ Fails
    /\ UNCHANGED dev

\* Command 0x03 only asks.  Its reply may be lost like any other; a malformed
\* one is an error to the caller, and nothing is recorded.
EvaluatePolicy == /\ AcmAdmits /\ k.context # None
                  /\ k' \in {AcmPoisoned(k), k} /\ Fails
                  /\ UNCHANGED <<hw, dev>>

\* Mutant: the password binding survives a new secret.
SecretSetKeepsBinding(s) == [Forget(s) EXCEPT !.secret = s.context]

SecretSet(s) == [ClearAuthorization(s) EXCEPT !.secret = s.context]

\* Command 0x28.  A reply with a status of its own, which says that the SEP
\* refused, is accepted like one without; one of the wrong length is an error
\* that neither records the secret nor poisons the endpoint, whatever the SEP
\* did with it.
SetSecret ==
    /\ AcmAdmits /\ k.context # None
    /\ LET h == [hw EXCEPT !.secrets = @ \cup {k.context}]
       IN  \/ k' = SecretSet(k) /\ hw' = h /\ UNCHANGED failures
           \/ k' = SecretSet(k) /\ hw' = hw /\ Fails
           \/ k' \in {AcmPoisoned(k), k} /\ hw' \in {hw, h} /\ Fails
    /\ UNCHANGED dev

Externalize ==
    /\ AcmAdmits /\ k.context # None
    /\ \/ /\ k' = [k EXCEPT !.externalized = @ \/ (Current(k) /\ ~k.consumed)]
          /\ UNCHANGED failures
       \/ k' \in {AcmPoisoned(k), k} /\ Fails
    /\ UNCHANGED <<hw, dev>>

OpenAcm == /\ dev.stage = "ready" /\ ~k.acmOpen
           /\ k' = [k EXCEPT !.acmOpen = TRUE]
           /\ dev' = Get(dev)
           /\ UNCHANGED <<hw, failures>>

\* t2_acm_release destroys the current context, and then the one that comes
\* back, or poisons the endpoint.
DestroyAll(s, h) ==
    LET s1 == DroppedContext(s)
        h1 == Destroyed(h, s.context)
        s2 == DroppedContext(s1)
        h2 == Destroyed(h1, s1.context)
    IN  IF s.context = None \/ s.acmPoisoned THEN <<s, h>>
        ELSE IF s1.context = None THEN <<s1, h1>>
        ELSE IF s2.context = None THEN <<s2, h2>>
        ELSE <<AcmPoisoned(s2), h2>>

CloseAcm ==
    /\ k.acmOpen
    /\ IF dev.stage = "removed"
       THEN k' = [k EXCEPT !.acmOpen = FALSE] /\ UNCHANGED <<hw, failures>>
       ELSE \/ /\ k' = [ClearAuthorization(DestroyAll(k, hw)[1]) EXCEPT !.acmOpen = FALSE]
               /\ hw' = DestroyAll(k, hw)[2]
               /\ UNCHANGED failures
            \/ /\ k.context # None /\ ~k.acmPoisoned /\ Fails
               /\ k' = [AcmPoisoned(k) EXCEPT !.acmOpen = FALSE]
               /\ hw' \in {hw, Destroyed(hw, k.context)}
    /\ dev' = Put(dev)

-----------------------------------------------------------------------------
Next ==
    \/ Register \/ RegisterLost \/ RegisterRefused \/ ProbeFails \/ t2_sep_remove
    \/ OpenAks \/ CloseAks \/ OpenAcm \/ CloseAcm
    \/ \E op \in Ops, session \in Sessions : Exchange(op, session)
    \/ \E session \in Sessions : ReadPrimary(session)
    \/ \E kind \in {"identity", "verify", "password"} : VerifySecret(kind)
    \/ \E arm \in Arms \ {"none"}, session \in Sessions : Arm(arm, session)
    \/ BadExport
    \/ CreateContext \/ DestroyContext \/ EvaluatePolicy \/ SetSecret \/ Externalize

Spec == Init /\ [][Next]_vars

-----------------------------------------------------------------------------
(* Properties. *)

\* Every variable keeps its type.
TypeOK ==
    /\ k.phase \in {"idle", "created", "complete"} /\ k.absent \in 0 .. 2
    /\ k.session \in Sessions \cup {None} /\ k.arm \in Arms
    /\ {k.bound, k.secret, k.context} \subseteq Contexts \cup {None}
    /\ hw.primary \in {None, "old", "new"} /\ hw.contexts \subseteq Contexts
    /\ dev.refs \in 0 .. 3 /\ failures \in 0 .. MaxFailures

\* The SEP never holds a handle that the kernel lost track of, unless the half
\* of the endpoint it belongs to is poisoned: at most one runtime handle and
\* one created handle ever exist (t2_aks_ioctl, t2_aks_release).
HandlesAccounted ==
    /\ hw.handles <= 1 /\ (hw.handles = 1 => k.active \/ k.runPoisoned)
    /\ hw.made <= 1 /\ (hw.made = 1 => k.phase # "idle" \/ k.provPoisoned)

\* A password binding names the live context it was proved for.
BindingIsLive == k.bound # None => k.bound = k.context /\ ~k.acmPoisoned

\* Memory the SEP may still write to is never freed, and the device is not
\* freed while a descriptor is open (t2_sep_probe, t2_sep_remove).
MemoryOutlivesUse == /\ hw.dma \subseteq dev.allocated
                     /\ k.aksOpen \/ k.acmOpen => ~dev.freed

\* A create is sent only to a SEP without an identity and without a handle
\* of an earlier create.
CreateOnlyWhenAbsent ==
    hw'.creates > hw.creates => hw.primary = None /\ hw.made = 0

\* An alias is unlocked only with a secret the SEP proved, for the handle
\* that is loaded, into the context that is live.
UnlockIsProved ==
    hw'.unlocked /\ ~hw.unlocked => hw.verified = <<k.secret, k.context>>

\* The kernel's record of handles and of the password binding matches the SEP,
\* or the half of the endpoint concerned is poisoned.
EndpointSound == TypeOK /\ HandlesAccounted /\ BindingIsLive

\* The commands that change the identity or unlock it are sent on proof only.
CommandsProved == [][CreateOnlyWhenAbsent /\ UnlockIsProved]_vars
=============================================================================
