------------------------- MODULE SepTransportProofs -------------------------
(***************************************************************************)
(* Proofs about SepTransport: the accounting of handles, the life of the   *)
(* DMA buffers and of the device, and the proof behind every create and    *)
(* unlock, for any sessions, any contexts and any number of failures; and  *)
(* about NativeStateRecovery: what the SEP counts as saved, what is lost   *)
(* only by consent, and what is loaded, for any fingers and any restarts.  *)
(***************************************************************************)
EXTENDS SepTransport, NativeStateRecovery, FiniteSetTheorems, TLAPS

-----------------------------------------------------------------------------
(* The inductive invariant. *)

Context == Contexts \cup {None}

KernelType ==
    [aksOpen : BOOLEAN, acmOpen : BOOLEAN,
     phase : {"idle", "created", "complete"}, provPoisoned : BOOLEAN, provTried : BOOLEAN,
     absent : 0 .. 2, session : Sessions \cup {None},
     bound : Context, secret : Context,
     externalized : BOOLEAN, consumed : BOOLEAN, target : BOOLEAN,
     active : BOOLEAN, runPoisoned : BOOLEAN, runTried : BOOLEAN, alias : BOOLEAN,
     unlockTried : BOOLEAN,
     arm : Arms, armSession : Sessions \cup {None}, deleteTried : BOOLEAN, createTried : BOOLEAN,
     context : Context, acmPoisoned : BOOLEAN]

SepType ==
    [primary : {None, "old", "new"}, handles : 0 .. 1, made : 0 .. 1,
     contexts : SUBSET Contexts, secrets : SUBSET Contexts,
     verified : {None} \cup (Context \X Context), unlocked : BOOLEAN, creates : Nat,
     dma : SUBSET Buffers]

Stages == {"probe", "ready", "pinned", "failed", "removed"}

DeviceType ==
    [stage : Stages, allocated : {{}, Buffers}, registered : SUBSET Buffers,
     refs : 0 .. 3, freed : BOOLEAN, retain : BOOLEAN]

\* The kernel knows of every handle the SEP holds, and what it will still unload
\* is there to be unloaded.
HandlesKnown(s, h) ==
    /\ h.handles = 1 => s.active \/ s.runPoisoned
    /\ h.made = 1 => s.phase # "idle" \/ s.provPoisoned
    /\ s.active /\ ~s.runTried => h.handles = 1
    /\ s.phase # "idle" /\ ~s.provTried => h.made = 1

\* What the kernel takes for proved was proved to the SEP: a binding next to a
\* secret says that the secret was proved into the live context, and a count of
\* absences says that there is no identity.
BindingProved(s, h) ==
    s.bound # None =>
        /\ s.bound = s.context /\ ~s.acmPoisoned
        /\ s.secret # None => s.consumed /\ h.verified = <<s.secret, s.context>>

AbsenceProved(s, h) == s.absent # 0 /\ ~s.provPoisoned => h.primary = None

EndpointInv(s, h) == /\ s \in KernelType /\ h \in SepType
                     /\ HandlesKnown(s, h) /\ BindingProved(s, h) /\ AbsenceProved(s, h)

\* References to the device: the bound driver's and one for each open node.
Held(b) == IF b THEN 1 ELSE 0
References == Held(dev.stage \notin {"failed", "removed"}) + Held(k.aksOpen) + Held(k.acmOpen)

DeviceInv ==
    /\ dev \in DeviceType
    /\ dev.refs = References
    /\ dev.freed => dev.refs = 0
    /\ k.aksOpen \/ k.acmOpen => dev.stage \in {"ready", "pinned", "removed"}
    /\ dev.allocated = {} => dev.stage \in {"failed", "removed"} /\ hw.dma = {}
    /\ dev.registered = {} => hw.dma = {}
    /\ dev.stage = "probe" =>
          dev.registered \in {{}, {"aks_in"}, {"aks_in", "aks_out"}, {"aks_in", "aks_out", "acm_in"}}

Inv == EndpointInv(k, hw) /\ DeviceInv /\ failures \in 0 .. MaxFailures

-----------------------------------------------------------------------------
(* What the kernel clears. *)

\* What HandlesKnown and the device read of the kernel's record.
Handling(s) == <<s.aksOpen, s.acmOpen, s.phase, s.provPoisoned, s.provTried,
                 s.active, s.runPoisoned, s.runTried>>

LEMMA HandlingKept ==
    ASSUME NEW s, NEW t, NEW h, HandlesKnown(s, h), Handling(t) = Handling(s)
    PROVE  HandlesKnown(t, h)
BY DEF HandlesKnown, Handling

\* The fields that the properties read, after each of the kernel's clearing steps.
LEMMA ClearPasswordFields ==
    ASSUME NEW s \in KernelType
    PROVE  LET t == ClearPassword(s)
           IN  /\ t \in KernelType /\ Handling(t) = Handling(s)
               /\ t.bound = None /\ t.secret = s.secret /\ t.context = s.context
               /\ t.absent = s.absent /\ t.arm = s.arm /\ t.acmPoisoned = s.acmPoisoned /\ t.consumed = s.consumed
BY DEF KernelType, Context, Handling, ClearPassword

LEMMA ForgetFields ==
    ASSUME NEW s \in KernelType
    PROVE  LET t == Forget(s)
           IN  /\ t \in KernelType /\ Handling(t) = Handling(s)
               /\ t.bound = s.bound /\ t.secret = None /\ t.context = s.context
               /\ t.absent = s.absent /\ t.arm = s.arm /\ t.acmPoisoned = s.acmPoisoned
BY ZenonT(60) DEF KernelType, Context, Handling, Forget

LEMMA ClearAuthorizationFields ==
    ASSUME NEW s \in KernelType
    PROVE  LET t == ClearAuthorization(s)
           IN  /\ t \in KernelType /\ Handling(t) = Handling(s)
               /\ t.bound = None /\ t.secret = None /\ t.context = s.context
               /\ t.absent = s.absent /\ t.arm = s.arm /\ t.acmPoisoned = s.acmPoisoned
BY ClearPasswordFields, ForgetFields DEF ClearAuthorization

LEMMA ResetInventoryFields ==
    ASSUME NEW s \in KernelType
    PROVE  LET t == ResetInventory(s)
           IN  /\ t \in KernelType /\ Handling(t) = Handling(s)
               /\ t.bound = s.bound /\ t.secret = s.secret /\ t.context = s.context
               /\ t.absent = 0 /\ t.arm = s.arm /\ t.acmPoisoned = s.acmPoisoned
               /\ t.consumed = s.consumed
BY 0 \in 0 .. 2 DEF KernelType, Handling, ResetInventory

LEMMA ResetAbsenceFields ==
    ASSUME NEW s \in KernelType
    PROVE  LET t == ResetAbsence(s)
           IN  /\ t \in KernelType /\ Handling(t) = Handling(s)
               /\ t.bound = None /\ t.secret = None /\ t.context = s.context
               /\ t.absent = 0 /\ t.arm = s.arm
BY ResetInventoryFields, ClearAuthorizationFields DEF ResetAbsence

LEMMA ClearArmFields ==
    ASSUME NEW s \in KernelType
    PROVE  LET t == ClearArm(s)
           IN  /\ t \in KernelType /\ Handling(t) = Handling(s)
               /\ t.bound = s.bound /\ t.secret = s.secret /\ t.context = s.context
               /\ t.absent = s.absent
BY DEF KernelType, Arms, Handling, ClearArm

\* Without a binding and without a count of absences only the handles matter.
LEMMA ClearedInv ==
    ASSUME NEW s \in KernelType, NEW h \in SepType, HandlesKnown(s, h),
           s.bound = None, s.absent = 0 \/ AbsenceProved(s, h)
    PROVE  EndpointInv(s, h)
BY DEF EndpointInv, BindingProved, AbsenceProved

LEMMA ResetAbsenceInv ==
    ASSUME NEW s \in KernelType, NEW h \in SepType, HandlesKnown(s, h)
    PROVE  EndpointInv(ResetAbsence(s), h)
BY ResetAbsenceFields, HandlingKept, ClearedInv

LEMMA ClearAuthorizationInv ==
    ASSUME NEW s, NEW h, EndpointInv(s, h)
    PROVE  EndpointInv(ClearAuthorization(s), h)
<1>1. s \in KernelType /\ h \in SepType /\ HandlesKnown(s, h)
  BY DEF EndpointInv
<1>2. AbsenceProved(ClearAuthorization(s), h)
  BY <1>1, ClearAuthorizationFields DEF EndpointInv, AbsenceProved, Handling
<1> QED BY <1>1, <1>2, ClearAuthorizationFields, HandlingKept, ClearedInv

-----------------------------------------------------------------------------
(* Exchanges with the AKS endpoint. *)

\* The nodes stay as they are, and so do the SEP's DMA addresses.
SameNodes(s, t) == t.aksOpen = s.aksOpen /\ t.acmOpen = s.acmOpen

LEMMA PoisonedInv ==
    ASSUME NEW s, NEW h, EndpointInv(s, h), NEW m, NEW op \in Ops
    PROVE  EndpointInv(Poisoned(s, m, op), h) /\ SameNodes(s, Poisoned(s, m, op))
<1> DEFINE t == Poisoned(s, m, op)
<1>1. t = s \/ t = [s EXCEPT !.provPoisoned = TRUE] \/ t = [s EXCEPT !.runPoisoned = TRUE]
  BY DEF Poisoned
<1> HIDE DEF t
<1>2. ASSUME NEW u, u = [s EXCEPT !.provPoisoned = TRUE]
      PROVE  EndpointInv(u, h) /\ SameNodes(s, u)
  BY <1>2 DEF EndpointInv, KernelType, HandlesKnown, BindingProved, AbsenceProved, SameNodes
<1>3. ASSUME NEW u, u = [s EXCEPT !.runPoisoned = TRUE]
      PROVE  EndpointInv(u, h) /\ SameNodes(s, u)
  BY ZenonT(60), <1>3
     DEF EndpointInv, KernelType, HandlesKnown, BindingProved, AbsenceProved, SameNodes
<1>4. t = s => EndpointInv(t, h) /\ SameNodes(s, t)
  BY DEF SameNodes
<1>5. EndpointInv(t, h) /\ SameNodes(s, t)
  BY <1>1, <1>2, <1>3, <1>4
<1> QED BY <1>5 DEF t

LEMMA SentInv ==
    ASSUME NEW s, NEW h, EndpointInv(s, h), NEW op \in Ops
    PROVE  /\ EndpointInv(s, Sent(h, op)) /\ Sent(h, op).dma = h.dma
           /\ Sent(h, op).handles = h.handles /\ Sent(h, op).made = h.made
           /\ Sent(h, op).primary = h.primary /\ Sent(h, op).verified = h.verified
<1>1. /\ Sent(h, op) \in SepType /\ Sent(h, op).dma = h.dma
      /\ Sent(h, op).handles = h.handles /\ Sent(h, op).made = h.made
      /\ Sent(h, op).primary = h.primary /\ Sent(h, op).verified = h.verified
  BY DEF EndpointInv, SepType, Sent
<1> QED BY <1>1 DEF EndpointInv, HandlesKnown, BindingProved, AbsenceProved

\* The invariant after each of the outcomes of an exchange.
ExchangeOK(s, h, op, session) ==
    LET m == Marked(s, op)
        r == Recorded(m, op, session)
        g == Effect(h, m, op)
    IN  /\ EndpointInv(m, h) /\ EndpointInv(r, g) /\ EndpointInv(Poisoned(m, m, op), g)
        /\ SameNodes(s, m) /\ SameNodes(s, r) /\ g.dma = h.dma

LEMMA CreateExchange ==
    ASSUME NEW s, NEW h, EndpointInv(s, h), NEW session \in Sessions,
           ProvisioningAdmits(s, "create", session)
    PROVE  ExchangeOK(s, h, "create", session)
<1> DEFINE m == Marked(s, "create")
           r == Recorded(m, "create", session)
           g == Effect(h, m, "create")
           t == [m EXCEPT !.phase = "created", !.provTried = FALSE]
<1>1. /\ s \in KernelType /\ h \in SepType
      /\ ~s.provPoisoned /\ s.phase = "idle" /\ h.made = 0
  BY DEF EndpointInv, ProvisioningAdmits, HandlesKnown, SepType
<1>2. /\ m \in KernelType /\ Handling(m) = Handling(s) /\ SameNodes(s, m)
      /\ m.bound = s.bound /\ m.secret = s.secret /\ m.context = s.context
      /\ m.acmPoisoned = s.acmPoisoned /\ m.consumed = s.consumed /\ m.absent = s.absent
  BY ZenonT(60), <1>1 DEF Marked, KernelType, Handling, SameNodes
<1>3. EndpointInv(m, h)
  BY <1>2, HandlingKept DEF EndpointInv, BindingProved, AbsenceProved, Handling
<1>4. /\ g \in SepType /\ g.made = 1 /\ g.handles = h.handles /\ g.verified = h.verified
      /\ g.dma = h.dma
  <2>1. h.made + 1 = 1 /\ 1 \in 0 .. 1
    BY <1>1
  <2> QED BY <1>1, <2>1 DEF Effect, SepType
<1>5. /\ r = ResetAbsence(t) /\ t \in KernelType /\ t.phase = "created" /\ t.active = m.active
      /\ t.runPoisoned = m.runPoisoned /\ t.runTried = m.runTried /\ SameNodes(m, t)
  BY <1>2 DEF Recorded, KernelType, SameNodes
<1> HIDE DEF m, r, g, t
<1>6. HandlesKnown(t, g)
  BY <1>3, <1>4, <1>5 DEF EndpointInv, HandlesKnown
<1>7. EndpointInv(r, g) /\ SameNodes(s, r)
  BY <1>2, <1>4, <1>5, <1>6, ResetAbsenceInv, ResetAbsenceFields DEF SameNodes, Handling
<1>8. EndpointInv(Poisoned(m, m, "create"), g)
  <2>1. Poisoned(m, m, "create") = [m EXCEPT !.provPoisoned = TRUE]
    BY DEF Poisoned
  <2>2. EndpointInv(Poisoned(m, m, "create"), h)
    BY <1>3, PoisonedInv DEF Ops
  <2>3. Poisoned(m, m, "create").provPoisoned
    BY <1>2, <2>1 DEF KernelType
  <2> QED BY <1>4, <2>2, <2>3 DEF EndpointInv, HandlesKnown, BindingProved, AbsenceProved
<1>9. /\ EndpointInv(m, h) /\ EndpointInv(r, g) /\ EndpointInv(Poisoned(m, m, "create"), g)
      /\ SameNodes(s, m) /\ SameNodes(s, r) /\ g.dma = h.dma
  BY <1>2, <1>3, <1>4, <1>7, <1>8
<1> QED BY <1>9 DEF m, r, g, ExchangeOK

\* Before a request that does not carry authority, all of it is dropped.
LEMMA MarkedResets ==
    ASSUME NEW s, NEW h, EndpointInv(s, h), NEW op \in {"load", "bind", "lock", "observe"}
    PROVE  LET m == Marked(s, op)
           IN  /\ m \in KernelType /\ EndpointInv(m, h) /\ Handling(m) = Handling(s)
               /\ m.bound = None /\ m.absent = 0
<1>1. Marked(s, op) = ResetAbsence(s)
  BY DEF Marked
<1>2. s \in KernelType /\ h \in SepType /\ HandlesKnown(s, h)
  BY DEF EndpointInv
<1> QED BY <1>1, <1>2, ResetAbsenceInv, ResetAbsenceFields

LEMMA PlainExchange ==
    ASSUME NEW s, NEW h, EndpointInv(s, h), NEW session \in Sessions,
           NEW op \in {"bind", "lock", "observe"}
    PROVE  ExchangeOK(s, h, op, session)
<1> DEFINE m == Marked(s, op)
           r == Recorded(m, op, session)
<1>1. /\ m \in KernelType /\ EndpointInv(m, h) /\ Handling(m) = Handling(s)
      /\ m.bound = None /\ m.absent = 0
  BY MarkedResets
<1>2. Effect(h, m, op) = h /\ Poisoned(m, m, op) = m
  BY DEF Effect, Poisoned
<1>3. r = m \/ r = [m EXCEPT !.alias = TRUE]
  BY DEF Recorded
<1> HIDE DEF m, r
<1>4. r \in KernelType /\ Handling(r) = Handling(m) /\ r.bound = None /\ r.absent = 0
  BY ZenonT(60), <1>1, <1>3 DEF KernelType, Handling
<1>5. EndpointInv(r, h) /\ SameNodes(s, m) /\ SameNodes(s, r)
  BY <1>1, <1>4, ClearedInv, HandlingKept DEF EndpointInv, SameNodes, Handling
<1>6. /\ EndpointInv(m, h) /\ EndpointInv(r, Effect(h, m, op))
      /\ EndpointInv(Poisoned(m, m, op), Effect(h, m, op))
      /\ SameNodes(s, m) /\ SameNodes(s, r) /\ Effect(h, m, op).dma = h.dma
  BY <1>1, <1>2, <1>5
<1> QED BY <1>6 DEF m, r, ExchangeOK

LEMMA LoadExchange ==
    ASSUME NEW s, NEW h, EndpointInv(s, h), NEW session \in Sessions, RuntimeAdmits(s, "load")
    PROVE  ExchangeOK(s, h, "load", session)
<1> DEFINE m == Marked(s, "load")
           r == Recorded(m, "load", session)
           g == Effect(h, m, "load")
<1>1. /\ m \in KernelType /\ EndpointInv(m, h) /\ Handling(m) = Handling(s)
      /\ m.bound = None /\ m.absent = 0
  BY MarkedResets
<1>2. h \in SepType /\ h.handles = 0
  BY DEF EndpointInv, RuntimeAdmits, HandlesKnown, SepType
<1>3. /\ g \in SepType /\ g.handles = 1 /\ g.made = h.made /\ g.primary = h.primary
      /\ g.dma = h.dma
  <2>1. h.handles + 1 = 1 /\ 1 \in 0 .. 1
    BY <1>2
  <2> QED BY <1>2, <2>1 DEF Effect, SepType
<1>4. r = [m EXCEPT !.active = TRUE, !.runTried = FALSE, !.alias = FALSE, !.unlockTried = FALSE]
  BY DEF Recorded
<1> HIDE DEF m, r, g
<1>5. /\ r \in KernelType /\ r.active /\ r.phase = m.phase /\ r.provPoisoned = m.provPoisoned
      /\ r.provTried = m.provTried /\ r.bound = None /\ r.absent = 0 /\ SameNodes(m, r)
  BY ZenonT(60), <1>1, <1>4 DEF KernelType, SameNodes
<1>6. HandlesKnown(r, g)
  BY <1>1, <1>3, <1>5 DEF EndpointInv, HandlesKnown
<1>7. EndpointInv(Poisoned(m, m, "load"), g)
  <2> DEFINE q == Poisoned(m, m, "load")
  <2>1. q = [m EXCEPT !.runPoisoned = TRUE]
    BY DEF Poisoned
  <2>2. /\ q \in KernelType /\ q.runPoisoned /\ q.bound = None /\ q.absent = 0
        /\ q.active = m.active /\ q.phase = m.phase /\ q.provPoisoned = m.provPoisoned
        /\ q.provTried = m.provTried
    BY ZenonT(60), <1>1, <2>1 DEF KernelType
  <2>3. HandlesKnown(q, g)
    BY <1>1, <1>3, <2>2 DEF EndpointInv, HandlesKnown
  <2> QED BY <1>3, <2>2, <2>3, ClearedInv
<1>8. /\ EndpointInv(m, h) /\ EndpointInv(r, g) /\ EndpointInv(Poisoned(m, m, "load"), g)
      /\ SameNodes(s, m) /\ SameNodes(s, r) /\ g.dma = h.dma
  BY <1>1, <1>3, <1>5, <1>6, <1>7, ClearedInv DEF SameNodes, Handling
<1> QED BY <1>8 DEF m, r, g, ExchangeOK

LEMMA DeleteExchange ==
    ASSUME NEW s, NEW h, EndpointInv(s, h), NEW session \in Sessions
    PROVE  ExchangeOK(s, h, "delete", session)
<1> DEFINE t == [s EXCEPT !.deleteTried = TRUE]
           m == Marked(s, "delete")
           g == Effect(h, m, "delete")
<1>1. s \in KernelType /\ h \in SepType
  BY DEF EndpointInv
<1>2. /\ t \in KernelType /\ Handling(t) = Handling(s) /\ t.bound = s.bound
      /\ t.secret = s.secret /\ t.context = s.context /\ t.acmPoisoned = s.acmPoisoned
      /\ t.consumed = s.consumed
  BY <1>1 DEF KernelType, Handling
<1>3. m = ResetInventory(t) /\ Recorded(m, "delete", session) = m /\ Poisoned(m, m, "delete") = m
  BY DEF Marked, Recorded, Poisoned
<1>4. /\ g \in SepType /\ g.handles = h.handles /\ g.made = h.made /\ g.verified = h.verified
      /\ g.dma = h.dma
  BY <1>1 DEF Effect, SepType
<1> HIDE DEF t, m, g
<1>5. /\ m \in KernelType /\ Handling(m) = Handling(s) /\ m.bound = s.bound /\ m.absent = 0
      /\ m.secret = s.secret /\ m.context = s.context /\ m.acmPoisoned = s.acmPoisoned
      /\ m.consumed = s.consumed
  BY <1>2, <1>3, ResetInventoryFields
<1>6. EndpointInv(m, h)
  BY <1>1, <1>5, HandlingKept DEF EndpointInv, BindingProved, AbsenceProved
<1>7. EndpointInv(m, g)
  BY <1>4, <1>5, <1>6 DEF EndpointInv, HandlesKnown, BindingProved, AbsenceProved
<1>8. /\ EndpointInv(m, h) /\ EndpointInv(Recorded(m, "delete", session), g)
      /\ EndpointInv(Poisoned(m, m, "delete"), g)
      /\ SameNodes(s, m) /\ SameNodes(s, Recorded(m, "delete", session)) /\ g.dma = h.dma
  BY <1>3, <1>4, <1>5, <1>6, <1>7 DEF SameNodes, Handling
<1> QED BY <1>8 DEF m, g, ExchangeOK

LEMMA UnlockExchange ==
    ASSUME NEW s, NEW h, EndpointInv(s, h), NEW session \in Sessions
    PROVE  ExchangeOK(s, h, "unlock", session)
<1> DEFINE m == Marked(s, "unlock")
           g == Effect(h, m, "unlock")
<1>1. s \in KernelType /\ h \in SepType
  BY DEF EndpointInv
<1>2. m = [s EXCEPT !.unlockTried = TRUE] /\ Recorded(m, "unlock", session) = m
      /\ Poisoned(m, m, "unlock") = m
  BY DEF Marked, Recorded, Poisoned
<1>3. /\ m \in KernelType /\ Handling(m) = Handling(s) /\ m.bound = s.bound
      /\ m.secret = s.secret /\ m.context = s.context /\ m.acmPoisoned = s.acmPoisoned
      /\ m.consumed = s.consumed /\ m.absent = s.absent
  BY ZenonT(60), <1>1, <1>2 DEF KernelType, Handling
<1>4. /\ g \in SepType /\ g.handles = h.handles /\ g.made = h.made /\ g.verified = h.verified
      /\ g.dma = h.dma /\ g.primary = h.primary
  BY <1>1 DEF Effect, SepType
<1> HIDE DEF m, g
<1>5. EndpointInv(m, h)
  BY <1>1, <1>3, HandlingKept DEF EndpointInv, BindingProved, AbsenceProved, Handling
<1>6. EndpointInv(m, g)
  BY <1>4, <1>5 DEF EndpointInv, HandlesKnown, BindingProved, AbsenceProved
<1>7. /\ EndpointInv(m, h) /\ EndpointInv(Recorded(m, "unlock", session), g)
      /\ EndpointInv(Poisoned(m, m, "unlock"), g)
      /\ SameNodes(s, m) /\ SameNodes(s, Recorded(m, "unlock", session)) /\ g.dma = h.dma
  BY <1>2, <1>3, <1>4, <1>5, <1>6 DEF SameNodes, Handling
<1> QED BY <1>7 DEF m, g, ExchangeOK

LEMMA ExportExchange ==
    ASSUME NEW s, NEW h, EndpointInv(s, h), NEW session \in Sessions,
           ProvisioningAdmits(s, "export", session)
    PROVE  ExchangeOK(s, h, "export", session)
<1> DEFINE r == Recorded(s, "export", session)
<1>1. Marked(s, "export") = s /\ Effect(h, s, "export") = h
  BY DEF Marked, Effect
<1>2. EndpointInv(r, h) /\ SameNodes(s, r)
  <2>1. CASE s.arm = "recover"
    BY <2>1 DEF Recorded, SameNodes
  <2>2. CASE s.arm # "recover"
    <3>1. s.phase = "created" /\ s \in KernelType
      BY <2>2 DEF ProvisioningAdmits, EndpointInv
    <3>2. r = [s EXCEPT !.phase = "complete"]
      BY <2>2 DEF Recorded
    <3> HIDE DEF r
    <3>3. /\ r \in KernelType /\ r.phase = "complete" /\ r.provPoisoned = s.provPoisoned
          /\ r.provTried = s.provTried /\ r.active = s.active /\ r.runPoisoned = s.runPoisoned
          /\ r.runTried = s.runTried /\ r.bound = s.bound /\ r.secret = s.secret
          /\ r.context = s.context /\ r.acmPoisoned = s.acmPoisoned
          /\ r.consumed = s.consumed /\ r.absent = s.absent /\ SameNodes(s, r)
      BY <3>1, <3>2 DEF KernelType, SameNodes
    <3> QED BY <3>1, <3>3 DEF EndpointInv, HandlesKnown, BindingProved, AbsenceProved
  <2> QED BY <2>1, <2>2
<1>3. EndpointInv(Poisoned(s, s, "export"), h)
  BY PoisonedInv DEF Ops
<1> QED BY <1>1, <1>2, <1>3 DEF ExchangeOK, SameNodes

\* Unloading the created handle, or the runtime handle: it is attempted once, and
\* from then on nobody counts on the handle.
LEMMA UnloadMadeExchange ==
    ASSUME NEW s, NEW h, EndpointInv(s, h), NEW session \in Sessions,
           s.phase = "complete", ProvisioningAdmits(s, "unload", session)
    PROVE  ExchangeOK(s, h, "unload", session)
<1> DEFINE t == [s EXCEPT !.provTried = TRUE]
           m == Marked(s, "unload")
           r == Recorded(m, "unload", session)
           g == Effect(h, m, "unload")
           q == Poisoned(m, m, "unload")
<1>1. /\ s \in KernelType /\ h \in SepType /\ HandlesKnown(s, h)
      /\ ~s.provTried /\ h.made = 1
  BY DEF EndpointInv, ProvisioningAdmits, HandlesKnown
<1>2. /\ t \in KernelType /\ t.provTried /\ t.phase = "complete" /\ t.provPoisoned = s.provPoisoned
      /\ t.active = s.active /\ t.runPoisoned = s.runPoisoned /\ t.runTried = s.runTried
      /\ SameNodes(s, t)
  BY <1>1 DEF KernelType, SameNodes
<1>3. m = ResetAbsence(t)
  BY DEF Marked
<1> HIDE DEF t
<1>4. HandlesKnown(t, h)
  BY <1>1, <1>2 DEF HandlesKnown
<1>5. /\ m \in KernelType /\ EndpointInv(m, h) /\ Handling(m) = Handling(t)
      /\ m.bound = None /\ m.absent = 0
  BY <1>1, <1>2, <1>3, <1>4, ResetAbsenceInv, ResetAbsenceFields
<1>6. m.phase = "complete" /\ m.provTried /\ SameNodes(s, m)
  BY <1>2, <1>5 DEF Handling, SameNodes
<1>7. /\ r = [m EXCEPT !.phase = "idle", !.provTried = FALSE]
      /\ q = [m EXCEPT !.provPoisoned = TRUE]
  BY <1>6 DEF Recorded, Poisoned
<1>8. g \in SepType /\ g.made = 0 /\ g.handles = h.handles /\ g.dma = h.dma
  <2>1. h.made - 1 = 0 /\ 0 \in 0 .. 1
    BY <1>1
  <2> QED BY <1>1, <1>6, <2>1 DEF Effect, SepType
<1> HIDE DEF m, r, g, q
<1>9. /\ r \in KernelType /\ r.phase = "idle" /\ r.bound = None /\ r.absent = 0
      /\ r.active = m.active /\ r.runPoisoned = m.runPoisoned /\ r.runTried = m.runTried
      /\ SameNodes(m, r)
  BY ZenonT(60), <1>5, <1>7 DEF KernelType, SameNodes
<1>10. /\ q \in KernelType /\ q.provTried /\ q.bound = None /\ q.absent = 0
       /\ q.active = m.active /\ q.runPoisoned = m.runPoisoned /\ q.runTried = m.runTried
  BY ZenonT(60), <1>5, <1>6, <1>7 DEF KernelType
<1>11. HandlesKnown(r, g) /\ HandlesKnown(q, g)
  BY <1>5, <1>8, <1>9, <1>10 DEF EndpointInv, HandlesKnown
<1>12. /\ EndpointInv(m, h) /\ EndpointInv(r, g) /\ EndpointInv(q, g)
       /\ SameNodes(s, m) /\ SameNodes(s, r) /\ g.dma = h.dma
  BY <1>5, <1>6, <1>8, <1>9, <1>10, <1>11, ClearedInv DEF SameNodes
<1> QED BY <1>12 DEF m, r, g, q, ExchangeOK

LEMMA UnloadRuntimeExchange ==
    ASSUME NEW s, NEW h, EndpointInv(s, h), NEW session \in Sessions,
           s.phase # "complete", RuntimeAdmits(s, "unload")
    PROVE  ExchangeOK(s, h, "unload", session)
<1> DEFINE t == [s EXCEPT !.runTried = TRUE]
           m == Marked(s, "unload")
           r == Recorded(m, "unload", session)
           g == Effect(h, m, "unload")
           q == Poisoned(m, m, "unload")
<1>1. /\ s \in KernelType /\ h \in SepType /\ HandlesKnown(s, h)
      /\ s.active /\ ~s.runTried /\ h.handles = 1
  BY DEF EndpointInv, RuntimeAdmits, HandlesKnown
<1>2. /\ t \in KernelType /\ t.runTried /\ t.phase = s.phase /\ t.provPoisoned = s.provPoisoned
      /\ t.provTried = s.provTried /\ t.active /\ t.runPoisoned = s.runPoisoned
      /\ SameNodes(s, t)
  BY <1>1 DEF KernelType, SameNodes
<1>3. m = ResetAbsence(t)
  BY DEF Marked
<1> HIDE DEF t
<1>4. HandlesKnown(t, h)
  BY <1>1, <1>2 DEF HandlesKnown
<1>5. /\ m \in KernelType /\ EndpointInv(m, h) /\ Handling(m) = Handling(t)
      /\ m.bound = None /\ m.absent = 0
  BY <1>1, <1>2, <1>3, <1>4, ResetAbsenceInv, ResetAbsenceFields
<1>6. m.phase # "complete" /\ m.runTried /\ SameNodes(s, m)
  BY <1>2, <1>5 DEF Handling, SameNodes
<1>7. /\ r = [m EXCEPT !.active = FALSE, !.runTried = FALSE, !.alias = FALSE, !.unlockTried = FALSE]
      /\ q = [m EXCEPT !.runPoisoned = TRUE]
  BY <1>6 DEF Recorded, Poisoned
<1>8. g \in SepType /\ g.handles = 0 /\ g.made = h.made /\ g.dma = h.dma
  <2>1. h.handles - 1 = 0 /\ 0 \in 0 .. 1
    BY <1>1
  <2> QED BY <1>1, <1>6, <2>1 DEF Effect, SepType
<1> HIDE DEF m, r, g, q
<1>9. /\ r \in KernelType /\ ~r.active /\ r.bound = None /\ r.absent = 0
      /\ r.phase = m.phase /\ r.provPoisoned = m.provPoisoned /\ r.provTried = m.provTried
      /\ SameNodes(m, r)
  <2>1. r \in KernelType
    <3>1. r = [m EXCEPT !.active = FALSE, !.runTried = FALSE, !.alias = FALSE, !.unlockTried = FALSE]
      BY <1>7
    <3>2. m \in KernelType
      BY <1>5
    <3> QED BY ZenonT(60), <3>1, <3>2 DEF KernelType
  <2> QED BY <1>5, <1>7, <2>1 DEF KernelType, SameNodes
<1>10. /\ q \in KernelType /\ q.runTried /\ q.bound = None /\ q.absent = 0
       /\ q.phase = m.phase /\ q.provPoisoned = m.provPoisoned /\ q.provTried = m.provTried
  BY ZenonT(60), <1>5, <1>6, <1>7 DEF KernelType
<1>11. HandlesKnown(r, g) /\ HandlesKnown(q, g)
  BY <1>5, <1>8, <1>9, <1>10 DEF EndpointInv, HandlesKnown
<1>12. /\ EndpointInv(m, h) /\ EndpointInv(r, g) /\ EndpointInv(q, g)
       /\ SameNodes(s, m) /\ SameNodes(s, r) /\ g.dma = h.dma
  BY <1>5, <1>6, <1>8, <1>9, <1>10, <1>11, ClearedInv DEF SameNodes
<1> QED BY <1>12 DEF m, r, g, q, ExchangeOK

LEMMA AnyExchange ==
    ASSUME NEW s, NEW h, EndpointInv(s, h), NEW session \in Sessions, NEW op \in Ops,
           ProvisioningAdmits(s, op, session), RuntimeAdmits(s, op)
    PROVE  ExchangeOK(s, h, op, session)
<1>1. CASE op = "create"
  BY <1>1, CreateExchange
<1>2. CASE op = "export"
  BY <1>2, ExportExchange
<1>3. CASE op = "delete"
  BY <1>3, DeleteExchange
<1>4. CASE op = "load"
  BY <1>4, LoadExchange
<1>5. CASE op = "unload"
  BY <1>5, UnloadMadeExchange, UnloadRuntimeExchange
<1>6. CASE op = "unlock"
  BY <1>6, UnlockExchange
<1>7. CASE op \in {"bind", "lock", "observe"}
  BY <1>7, PlainExchange
<1> QED BY <1>1, <1>2, <1>3, <1>4, <1>5, <1>6, <1>7 DEF Ops

\* The device is not concerned by a step that keeps the nodes and its addresses.
LEMMA DeviceKept ==
    ASSUME DeviceInv, dev' = dev, SameNodes(k, k'), hw'.dma = hw.dma
    PROVE  DeviceInv'
BY DEF DeviceInv, References, SameNodes

LEMMA FailsType ==
    ASSUME failures \in 0 .. MaxFailures, Fails \/ UNCHANGED failures
    PROVE  failures' \in 0 .. MaxFailures
BY BoundsAssumption DEF Fails

LEMMA ExchangeInv ==
    ASSUME Inv, NEW op \in Ops, NEW session \in Sessions, Exchange(op, session)
    PROVE  Inv'
<1> DEFINE m == Marked(k, op)
           h == Sent(hw, op)
           r == Recorded(m, op, session)
           g == Effect(h, m, op)
<1>1. EndpointInv(k, hw) /\ EndpointInv(k, h) /\ h.dma = hw.dma
  BY SentInv DEF Inv
<1>2. /\ EndpointInv(m, h) /\ EndpointInv(r, g) /\ EndpointInv(Poisoned(m, m, op), g)
      /\ SameNodes(k, m) /\ SameNodes(k, r) /\ g.dma = h.dma
  BY <1>1, AnyExchange DEF Exchange, ExchangeOK
<1>3. /\ EndpointInv(Poisoned(r, m, op), g) /\ EndpointInv(Poisoned(m, m, op), h)
      /\ SameNodes(r, Poisoned(r, m, op)) /\ SameNodes(m, Poisoned(m, m, op))
  BY <1>2, PoisonedInv
<1>4. /\ \/ k' = r /\ hw' = g
         \/ k' = Poisoned(r, m, op) /\ hw' = g
         \/ k' = Poisoned(m, m, op) /\ hw' \in {h, g}
      /\ Fails \/ UNCHANGED failures
      /\ dev' = dev
  BY DEF Exchange
<1> HIDE DEF m, h, r, g
<1>5. EndpointInv(k', hw') /\ SameNodes(k, k') /\ hw'.dma = hw.dma
  BY <1>1, <1>2, <1>3, <1>4 DEF SameNodes
<1> QED BY <1>4, <1>5, DeviceKept, FailsType DEF Inv, EndpointInv

-----------------------------------------------------------------------------
(* The nodes, and what closing /dev/t2-aks unloads. *)

LEMMA NodeOpened ==
    ASSUME Inv, dev.stage = "ready", dev' = Get(dev), hw'.dma = hw.dma,
           \/ ~k.aksOpen /\ k'.aksOpen = TRUE /\ k'.acmOpen = k.acmOpen
           \/ ~k.acmOpen /\ k'.acmOpen = TRUE /\ k'.aksOpen = k.aksOpen
    PROVE  DeviceInv'
<1>1. dev \in DeviceType /\ dev.refs = References /\ ~dev.freed
  BY DEF Inv, DeviceInv, References, Held
<1>2. k.aksOpen \in BOOLEAN /\ k.acmOpen \in BOOLEAN
  BY DEF Inv, EndpointInv, KernelType
<1>3. dev.refs + 1 \in 0 .. 3 /\ dev.refs + 1 = References'
  <2>1. /\ dev'.stage = "ready"
    BY <1>1 DEF Get, DeviceType
  <2> QED BY <1>1, <1>2, <2>1 DEF References, Held
<1>4. /\ dev' \in DeviceType /\ dev'.refs = dev.refs + 1 /\ dev'.freed = dev.freed
      /\ dev'.stage = dev.stage /\ dev'.allocated = dev.allocated
      /\ dev'.registered = dev.registered
  BY <1>1, <1>3 DEF Get, DeviceType
<1> QED BY <1>1, <1>3, <1>4 DEF Inv, DeviceInv

LEMMA NodeClosed ==
    ASSUME Inv, dev' = Put(dev), hw'.dma = hw.dma,
           \/ k.aksOpen /\ k'.aksOpen = FALSE /\ k'.acmOpen = k.acmOpen
           \/ k.acmOpen /\ k'.acmOpen = FALSE /\ k'.aksOpen = k.aksOpen
    PROVE  DeviceInv'
<1>1. /\ dev \in DeviceType /\ dev.refs = References
      /\ dev.stage \in {"ready", "pinned", "removed"}
  BY DEF Inv, DeviceInv
<1>2. k.aksOpen \in BOOLEAN /\ k.acmOpen \in BOOLEAN
  BY DEF Inv, EndpointInv, KernelType
<1>3. dev'.stage = dev.stage
  BY <1>1 DEF Put, DeviceType
<1>4. dev.refs - 1 \in 0 .. 3 /\ dev.refs - 1 = References'
  BY <1>1, <1>2, <1>3 DEF References, Held
<1>5. /\ dev' \in DeviceType /\ dev'.refs = dev.refs - 1
      /\ dev'.freed => dev.freed \/ dev.refs = 1
      /\ dev'.allocated = dev.allocated /\ dev'.registered = dev.registered
  BY <1>1, <1>4 DEF Put, DeviceType
<1>6. ~dev.freed
  BY <1>1, <1>2 DEF Inv, DeviceInv, References, Held
<1>7. dev'.freed => dev'.refs = 0
  <2>1. ASSUME dev'.freed PROVE dev'.refs = 0
    <3>1. dev.refs = 1
      BY <1>5, <1>6, <2>1
    <3> QED BY <1>5, <3>1
  <2> QED BY <2>1
<1> QED BY <1>1, <1>2, <1>3, <1>4, <1>5, <1>7 DEF Inv, DeviceInv

\* What an unload at close may leave, except for the authority that Released drops.
LEMMA UnloadMadeOnClose ==
    ASSUME NEW s \in KernelType, NEW h \in SepType, HandlesKnown(s, h), NEW due \in BOOLEAN,
           due => s.phase = "complete" /\ ~s.provTried,
           NEW o \in UnloadOnClose(s, h, "made", due)
    PROVE  /\ o[1] \in KernelType /\ o[2] \in SepType /\ HandlesKnown(o[1], o[2])
           /\ SameNodes(s, o[1]) /\ o[2].dma = h.dma
<1>1. CASE ~due
  BY <1>1 DEF UnloadOnClose, SameNodes
<1>2. CASE due
  <2> DEFINE m == [s EXCEPT !.provTried = TRUE]
             gone == [h EXCEPT !.made = @ - 1]
             bad == [m EXCEPT !.provPoisoned = TRUE]
             ok == [m EXCEPT !.phase = "idle", !.provTried = FALSE]
  <2>1. \/ o[1] = ok /\ o[2] = gone
        \/ o[1] = bad /\ o[2] \in {h, gone}
    <3>1. o \in {<<ok, gone, FALSE>>, <<bad, h, TRUE>>, <<bad, gone, TRUE>>}
      BY <1>2, Zenon DEF UnloadOnClose
    <3> HIDE DEF ok, bad, gone
    <3>2. CASE o = <<ok, gone, FALSE>>
      BY <3>2
    <3>3. CASE o = <<bad, h, TRUE>>
      BY <3>3
    <3>4. CASE o = <<bad, gone, TRUE>>
      BY <3>4
    <3> QED BY <3>1, <3>2, <3>3, <3>4
  <2>2. h.made - 1 = 0 /\ 0 \in 0 .. 1
    BY <1>2 DEF HandlesKnown
  <2>3. /\ gone \in SepType /\ gone.made = 0 /\ gone.handles = h.handles /\ gone.dma = h.dma
    BY <2>2 DEF SepType
  <2>4. /\ ok \in KernelType /\ ok.phase = "idle" /\ ok.active = s.active
        /\ ok.runPoisoned = s.runPoisoned /\ ok.runTried = s.runTried /\ SameNodes(s, ok)
    BY DEF KernelType, SameNodes
  <2>5. /\ bad \in KernelType /\ bad.provTried /\ bad.provPoisoned /\ bad.active = s.active
        /\ bad.runPoisoned = s.runPoisoned /\ bad.runTried = s.runTried /\ SameNodes(s, bad)
    BY DEF KernelType, SameNodes
  <2> HIDE DEF m, gone, bad, ok
  <2>6. HandlesKnown(ok, gone) /\ HandlesKnown(bad, gone) /\ HandlesKnown(bad, h)
    BY <2>3, <2>4, <2>5 DEF HandlesKnown
  <2> QED BY <2>1, <2>3, <2>4, <2>5, <2>6
<1> QED BY <1>1, <1>2

LEMMA UnloadRuntimeOnClose ==
    ASSUME NEW s \in KernelType, NEW h \in SepType, HandlesKnown(s, h), NEW due \in BOOLEAN,
           due => s.active /\ ~s.runTried,
           NEW o \in UnloadOnClose(s, h, "runtime", due)
    PROVE  /\ o[1] \in KernelType /\ o[2] \in SepType /\ HandlesKnown(o[1], o[2])
           /\ SameNodes(s, o[1]) /\ o[2].dma = h.dma
<1>1. CASE ~due
  BY <1>1 DEF UnloadOnClose, SameNodes
<1>2. CASE due
  <2> DEFINE m == [s EXCEPT !.runTried = TRUE]
             gone == [h EXCEPT !.handles = @ - 1, !.verified = None, !.unlocked = FALSE]
             bad == [m EXCEPT !.runPoisoned = TRUE]
             ok == [m EXCEPT !.active = FALSE, !.runTried = FALSE, !.alias = FALSE,
                             !.unlockTried = FALSE]
  <2>1. \/ o[1] = ok /\ o[2] = gone
        \/ o[1] = bad /\ o[2] \in {h, gone}
    <3>1. o \in {<<ok, gone, FALSE>>, <<bad, h, TRUE>>, <<bad, gone, TRUE>>}
      BY <1>2, Zenon DEF UnloadOnClose
    <3> HIDE DEF ok, bad, gone
    <3>2. CASE o = <<ok, gone, FALSE>>
      BY <3>2
    <3>3. CASE o = <<bad, h, TRUE>>
      BY <3>3
    <3>4. CASE o = <<bad, gone, TRUE>>
      BY <3>4
    <3> QED BY <3>1, <3>2, <3>3, <3>4
  <2>2. h.handles - 1 = 0 /\ 0 \in 0 .. 1
    BY <1>2 DEF HandlesKnown
  <2>3. /\ gone \in SepType /\ gone.handles = 0 /\ gone.made = h.made /\ gone.dma = h.dma
    BY <2>2 DEF SepType
  <2>4. /\ ok \in KernelType /\ ~ok.active /\ ok.phase = s.phase
        /\ ok.provPoisoned = s.provPoisoned /\ ok.provTried = s.provTried /\ SameNodes(s, ok)
    BY ZenonT(60) DEF KernelType, SameNodes
  <2>5. /\ bad \in KernelType /\ bad.runTried /\ bad.runPoisoned /\ bad.phase = s.phase
        /\ bad.provPoisoned = s.provPoisoned /\ bad.provTried = s.provTried /\ SameNodes(s, bad)
    BY DEF KernelType, SameNodes
  <2> HIDE DEF m, gone, bad, ok
  <2>6. HandlesKnown(ok, gone) /\ HandlesKnown(bad, gone) /\ HandlesKnown(bad, h)
    BY <2>3, <2>4, <2>5 DEF HandlesKnown
  <2> QED BY <2>1, <2>3, <2>4, <2>5, <2>6
<1> QED BY <1>1, <1>2

LEMMA ReleaseOutcome ==
    ASSUME EndpointInv(k, hw), NEW o \in ReleaseOutcomes
    PROVE  /\ o[1] \in KernelType /\ o[2] \in SepType /\ HandlesKnown(o[1], o[2])
           /\ SameNodes(k, o[1]) /\ o[2].dma = hw.dma
<1>1. PICK x \in UnloadOnClose(k, hw, "runtime", k.active /\ ~k.runTried /\ ~Retained(k)) :
         \E y \in UnloadOnClose(x[1], x[2], "made", x[1].phase = "complete" /\ ~x[1].provTried) :
            o = <<y[1], y[2], x[3] \/ y[3]>>
  BY DEF ReleaseOutcomes
<1> DEFINE due == k.active /\ ~k.runTried /\ ~Retained(k)
           owed == x[1].phase = "complete" /\ ~x[1].provTried
<1>2. PICK y \in UnloadOnClose(x[1], x[2], "made", x[1].phase = "complete" /\ ~x[1].provTried) :
         o = <<y[1], y[2], x[3] \/ y[3]>>
  BY <1>1
<1>3. o[1] = y[1] /\ o[2] = y[2]
  BY <1>2
<1>4. due \in BOOLEAN /\ (due => k.active /\ ~k.runTried) /\ x \in UnloadOnClose(k, hw, "runtime", due)
  BY <1>1
<1>6. owed \in BOOLEAN /\ (owed => x[1].phase = "complete" /\ ~x[1].provTried)
      /\ y \in UnloadOnClose(x[1], x[2], "made", owed)
  BY <1>2
<1> HIDE DEF due, owed
<1>5. /\ x[1] \in KernelType /\ x[2] \in SepType /\ HandlesKnown(x[1], x[2])
      /\ SameNodes(k, x[1]) /\ x[2].dma = hw.dma
  BY <1>4, UnloadRuntimeOnClose DEF EndpointInv
<1>7. /\ y[1] \in KernelType /\ y[2] \in SepType /\ HandlesKnown(y[1], y[2])
      /\ SameNodes(x[1], y[1]) /\ y[2].dma = x[2].dma
  BY <1>6, <1>5, UnloadMadeOnClose
<1> QED BY <1>3, <1>5, <1>7 DEF SameNodes

LEMMA ReleasedInv ==
    ASSUME NEW s \in KernelType, NEW h \in SepType, HandlesKnown(s, h)
    PROVE  /\ EndpointInv(Released(s), h)
           /\ Released(s).aksOpen = FALSE /\ Released(s).acmOpen = s.acmOpen
<1> DEFINE t == ClearArm(ResetAbsence(s))
           r == Released(s)
           poisoned == t.provPoisoned \/ s.phase = "created"
<1>1. /\ t \in KernelType /\ Handling(t) = Handling(s) /\ t.bound = None /\ t.absent = 0
  BY ResetAbsenceFields, ClearArmFields
<1>2. /\ r = [t EXCEPT !.aksOpen = FALSE, !.provPoisoned = poisoned]
      /\ poisoned \in BOOLEAN /\ (t.provPoisoned => poisoned)
  BY DEF Released
<1> HIDE DEF t, r, poisoned
<1>3. /\ r \in KernelType /\ r.bound = None /\ r.absent = 0
      /\ r.aksOpen = FALSE /\ r.acmOpen = t.acmOpen
      /\ r.phase = t.phase /\ (t.provPoisoned => r.provPoisoned) /\ r.provTried = t.provTried
      /\ r.active = t.active /\ r.runPoisoned = t.runPoisoned /\ r.runTried = t.runTried
  BY ZenonT(60), <1>1, <1>2 DEF KernelType
<1>4. HandlesKnown(r, h)
  BY <1>1, <1>3 DEF HandlesKnown, Handling
<1>5. EndpointInv(r, h) /\ r.aksOpen = FALSE /\ r.acmOpen = s.acmOpen
  BY <1>1, <1>3, <1>4, ClearedInv DEF Handling
<1> QED BY <1>5 DEF r

LEMMA CloseAksInv == ASSUME Inv, CloseAks PROVE Inv'
<1>1. EndpointInv(k, hw)
  BY DEF Inv
<1>2. /\ EndpointInv(k', hw') /\ k'.aksOpen = FALSE /\ k'.acmOpen = k.acmOpen
      /\ hw'.dma = hw.dma /\ failures' \in 0 .. MaxFailures
  <2>1. CASE dev.stage = "removed"
    <3>1. k' = [k EXCEPT !.aksOpen = FALSE] /\ UNCHANGED <<hw, failures>>
      BY <2>1 DEF CloseAks
    <3>2. /\ k' \in KernelType /\ k'.aksOpen = FALSE /\ k'.acmOpen = k.acmOpen
          /\ k'.phase = k.phase /\ k'.provPoisoned = k.provPoisoned /\ k'.provTried = k.provTried
          /\ k'.active = k.active /\ k'.runPoisoned = k.runPoisoned /\ k'.runTried = k.runTried
          /\ k'.bound = k.bound /\ k'.secret = k.secret /\ k'.context = k.context
          /\ k'.acmPoisoned = k.acmPoisoned /\ k'.consumed = k.consumed /\ k'.absent = k.absent
      BY <1>1, <3>1 DEF EndpointInv, KernelType
    <3> QED BY <1>1, <3>1, <3>2 DEF Inv, EndpointInv, HandlesKnown, BindingProved, AbsenceProved
  <2>2. CASE dev.stage # "removed"
    <3>1. PICK o \in ReleaseOutcomes : k' = Released(o[1]) /\ hw' = o[2] /\ (Fails \/ UNCHANGED failures)
      BY <2>2 DEF CloseAks
    <3>2. /\ o[1] \in KernelType /\ o[2] \in SepType /\ HandlesKnown(o[1], o[2])
          /\ SameNodes(k, o[1]) /\ o[2].dma = hw.dma
      BY <1>1, ReleaseOutcome
    <3>3. failures' \in 0 .. MaxFailures
      BY <3>1, FailsType DEF Inv
    <3> QED BY <3>1, <3>2, <3>3, ReleasedInv DEF SameNodes
  <2> QED BY <2>1, <2>2
<1>3. DeviceInv'
  BY <1>2, NodeClosed DEF CloseAks
<1> QED BY <1>2, <1>3 DEF Inv

LEMMA OpenAksInv == ASSUME Inv, OpenAks PROVE Inv'
<1> DEFINE t == ClearArm(ResetAbsence(k))
<1>1. k \in KernelType /\ hw \in SepType /\ HandlesKnown(k, hw)
  BY DEF Inv, EndpointInv
<1>2. /\ t \in KernelType /\ Handling(t) = Handling(k) /\ t.bound = None /\ t.absent = 0
  BY <1>1, ResetAbsenceFields, ClearArmFields
<1>3. /\ k' = [t EXCEPT !.aksOpen = TRUE] /\ dev' = Get(dev) /\ UNCHANGED <<hw, failures>>
      /\ dev.stage = "ready" /\ ~k.aksOpen
  BY DEF OpenAks
<1> HIDE DEF t
<1>4. /\ k' \in KernelType /\ k'.bound = None /\ k'.absent = 0
      /\ k'.aksOpen = TRUE /\ k'.acmOpen = t.acmOpen
      /\ k'.phase = t.phase /\ k'.provPoisoned = t.provPoisoned /\ k'.provTried = t.provTried
      /\ k'.active = t.active /\ k'.runPoisoned = t.runPoisoned /\ k'.runTried = t.runTried
  BY ZenonT(60), <1>2, <1>3 DEF KernelType
<1>5. HandlesKnown(k', hw)
  BY <1>1, <1>2, <1>4 DEF HandlesKnown, Handling
<1>6. EndpointInv(k', hw') /\ k'.acmOpen = k.acmOpen
  BY <1>1, <1>2, <1>3, <1>4, <1>5, ClearedInv DEF Handling
<1>7. DeviceInv'
  BY <1>3, <1>4, <1>6, NodeOpened
<1> QED BY <1>3, <1>6, <1>7 DEF Inv

-----------------------------------------------------------------------------
(* What the AKS endpoint reads, verifies and arms. *)

LEMMA ReadPrimaryInv == ASSUME Inv, NEW session \in Sessions, ReadPrimary(session) PROVE Inv'
<1>1. k \in KernelType /\ hw \in SepType /\ HandlesKnown(k, hw)
  BY DEF Inv, EndpointInv
<1>2. EndpointInv(ResetAbsence(k), hw) /\ SameNodes(k, ResetAbsence(k))
  BY <1>1, ResetAbsenceInv, ResetAbsenceFields DEF SameNodes, Handling
<1>3. ASSUME hw.primary = None
      PROVE  EndpointInv(RecordAbsence(k, session), hw) /\ SameNodes(k, RecordAbsence(k, session))
  <2> DEFINE t == IF k.arm \in {"delete", "create"} THEN ClearPassword(k) ELSE ClearAuthorization(k)
             count == IF k.session # session THEN 1 ELSE IF t.absent < 2 THEN t.absent + 1 ELSE t.absent
             r == RecordAbsence(k, session)
  <2>1. t \in KernelType /\ Handling(t) = Handling(k) /\ t.bound = None
    BY <1>1, ClearPasswordFields, ClearAuthorizationFields
  <2>2. r = [t EXCEPT !.session = session, !.absent = count]
    BY DEF RecordAbsence
  <2>3. count \in 0 .. 2
    BY <2>1 DEF KernelType
  <2> HIDE DEF t, count, r
  <2>4. r \in KernelType /\ Handling(r) = Handling(t) /\ r.bound = None
    BY ZenonT(60), <2>1, <2>2, <2>3 DEF KernelType, Handling
  <2>5. EndpointInv(r, hw) /\ SameNodes(k, r)
    BY <1>1, <1>3, <2>1, <2>4, HandlingKept, ClearedInv DEF AbsenceProved, SameNodes, Handling
  <2> QED BY <2>5 DEF r
<1>4. /\ EndpointInv(k', hw') /\ SameNodes(k, k') /\ dev' = dev /\ hw'.dma = hw.dma
      /\ Fails \/ UNCHANGED failures
  BY <1>2, <1>3 DEF ReadPrimary
<1> QED BY <1>4, DeviceKept, FailsType DEF Inv

LEMMA AfterVerifyFields ==
    ASSUME NEW s \in KernelType, NEW kind
    PROVE  LET t == AfterVerify(s, kind)
           IN  /\ t \in KernelType /\ Handling(t) = Handling(s)
               /\ t.bound = None /\ t.context = s.context /\ t.absent = s.absent
               /\ t.acmPoisoned = s.acmPoisoned
               /\ IF VerifyConsumes(s, kind) THEN t.secret = s.secret /\ t.consumed
                                             ELSE t.secret = None
<1>1. CASE VerifyConsumes(s, kind)
  <2> DEFINE u == [s EXCEPT !.consumed = TRUE]
  <2>1. /\ u \in KernelType /\ Handling(u) = Handling(s) /\ u.context = s.context
        /\ u.absent = s.absent /\ u.acmPoisoned = s.acmPoisoned /\ u.secret = s.secret /\ u.consumed
    BY DEF KernelType, Handling
  <2>2. AfterVerify(s, kind) = ClearPassword(u)
    BY <1>1 DEF AfterVerify
  <2> HIDE DEF u
  <2> QED BY <1>1, <2>1, <2>2, ClearPasswordFields
<1>2. CASE ~VerifyConsumes(s, kind)
  <2>1. AfterVerify(s, kind) = ClearAuthorization(s)
    BY <1>2 DEF AfterVerify
  <2> QED BY <1>2, <2>1, ClearAuthorizationFields
<1> QED BY <1>1, <1>2

\* The SEP may change in what the kernel's record does not speak of.
LEMMA SepKept ==
    ASSUME NEW s, NEW h, NEW g, EndpointInv(s, h), g \in SepType,
           g.handles = h.handles, g.made = h.made, g.primary = h.primary,
           s.bound = None \/ g.verified = h.verified
    PROVE  EndpointInv(s, g)
BY DEF EndpointInv, HandlesKnown, BindingProved, AbsenceProved

LEMMA VerifySecretInv ==
    ASSUME Inv, NEW kind \in {"identity", "verify", "password"}, VerifySecret(kind)
    PROVE  Inv'
<1> DEFINE t == AfterVerify(k, kind)
           proved == [hw EXCEPT !.verified = IF kind = "identity" THEN <<k.secret, k.context>> ELSE @]
           bound == [t EXCEPT !.bound = k.context]
<1>1. /\ k \in KernelType /\ hw \in SepType /\ HandlesKnown(k, hw) /\ AbsenceProved(k, hw)
  BY DEF Inv, EndpointInv
<1>2. /\ t \in KernelType /\ Handling(t) = Handling(k)
      /\ t.bound = None /\ t.context = k.context /\ t.absent = k.absent
      /\ t.acmPoisoned = k.acmPoisoned
      /\ IF VerifyConsumes(k, kind) THEN t.secret = k.secret /\ t.consumed ELSE t.secret = None
  BY <1>1, AfterVerifyFields
<1>3. /\ proved \in SepType /\ proved.handles = hw.handles /\ proved.made = hw.made
      /\ proved.primary = hw.primary /\ proved.dma = hw.dma
      /\ kind = "identity" => proved.verified = <<k.secret, k.context>>
  <2>1. <<k.secret, k.context>> \in Context \X Context
    BY <1>1 DEF KernelType
  <2> QED BY <1>1, <2>1 DEF SepType
<1>4. /\ \/ VerifyBinds(k, kind) /\ Usable(k) /\ k' = bound /\ hw' = proved
         \/ k' = t /\ hw' \in {hw, proved}
      /\ Fails \/ UNCHANGED failures
      /\ dev' = dev
  BY DEF VerifySecret
<1>5. /\ bound \in KernelType /\ Handling(bound) = Handling(t) /\ bound.bound = k.context
      /\ bound.context = t.context /\ bound.absent = t.absent /\ bound.secret = t.secret
      /\ bound.acmPoisoned = t.acmPoisoned /\ bound.consumed = t.consumed
  BY <1>1, <1>2 DEF KernelType, Handling
<1> HIDE DEF t, proved, bound
<1>6. EndpointInv(t, hw)
  BY <1>1, <1>2, HandlingKept, ClearedInv DEF AbsenceProved, Handling
<1>7. EndpointInv(t, proved)
  BY <1>2, <1>3, <1>6, SepKept
<1>8. ASSUME VerifyBinds(k, kind), Usable(k) PROVE EndpointInv(bound, proved)
  <2>1. VerifyConsumes(k, kind) => kind = "identity"
    BY <1>8 DEF VerifyBinds, VerifyConsumes
  <2>2. BindingProved(bound, proved)
    BY <1>2, <1>3, <1>5, <1>8, <2>1 DEF BindingProved, Usable
  <2>3. HandlesKnown(bound, proved) /\ AbsenceProved(bound, proved)
    BY <1>5, <1>7, HandlingKept DEF EndpointInv, AbsenceProved, Handling
  <2> QED BY <1>3, <1>5, <2>2, <2>3 DEF EndpointInv
<1>9. EndpointInv(k', hw') /\ SameNodes(k, k') /\ hw'.dma = hw.dma
  BY <1>2, <1>3, <1>4, <1>5, <1>6, <1>7, <1>8 DEF SameNodes, Handling
<1> QED BY <1>4, <1>9, DeviceKept, FailsType DEF Inv

LEMMA ArmInv ==
    ASSUME Inv, NEW arm \in Arms, NEW session \in Sessions, Arm(arm, session)
    PROVE  Inv'
<1>1. k \in KernelType /\ EndpointInv(k, hw)
  BY DEF Inv, EndpointInv
<1>2. k' = [k EXCEPT !.arm = arm, !.armSession = session] /\ UNCHANGED <<hw, dev, failures>>
  BY DEF Arm
<1>3. /\ k' \in KernelType /\ Handling(k') = Handling(k) /\ k'.bound = k.bound
      /\ k'.context = k.context /\ k'.absent = k.absent /\ k'.secret = k.secret
      /\ k'.acmPoisoned = k.acmPoisoned /\ k'.consumed = k.consumed
  BY <1>1, <1>2 DEF KernelType, Handling
<1>4. EndpointInv(k', hw') /\ SameNodes(k, k')
  BY ZenonT(60), <1>1, <1>2, <1>3, HandlingKept
     DEF EndpointInv, BindingProved, AbsenceProved, Handling, SameNodes
<1> QED BY <1>2, <1>4, DeviceKept DEF Inv

LEMMA BadExportInv == ASSUME Inv, BadExport PROVE Inv'
<1>1. k' = Poisoned(k, k, "create") /\ UNCHANGED <<hw, dev, failures>>
  BY DEF BadExport, Poisoned
<1>2. EndpointInv(k', hw') /\ SameNodes(k, k')
  BY <1>1, PoisonedInv DEF Inv, Ops
<1> QED BY <1>1, <1>2, DeviceKept DEF Inv

-----------------------------------------------------------------------------
(* The ACM endpoint. *)

LEMMA DestroyedType ==
    ASSUME NEW h \in SepType, NEW c
    PROVE  LET g == Destroyed(h, c)
           IN  /\ g \in SepType /\ g.handles = h.handles /\ g.made = h.made
               /\ g.primary = h.primary /\ g.dma = h.dma
BY DEF Destroyed, SepType

LEMMA ClearContextFields ==
    ASSUME NEW s \in KernelType
    PROVE  LET t == ClearContext(s)
           IN  /\ t \in KernelType /\ Handling(t) = Handling(s)
               /\ t.bound = None /\ t.absent = s.absent
<1> DEFINE u == ClearAuthorization(s)
<1>1. u \in KernelType /\ Handling(u) = Handling(s) /\ u.bound = None /\ u.absent = s.absent
  BY ClearAuthorizationFields
<1>2. ClearContext(s) = [u EXCEPT !.context = None]
  BY DEF ClearContext
<1> HIDE DEF u
<1> QED BY <1>1, <1>2 DEF KernelType, Context, Handling

LEMMA AcmPoisonedFields ==
    ASSUME NEW s \in KernelType
    PROVE  LET t == AcmPoisoned(s)
           IN  /\ t \in KernelType /\ Handling(t) = Handling(s)
               /\ t.bound = None /\ t.absent = s.absent
<1> DEFINE u == ClearContext(s)
<1>1. u \in KernelType /\ Handling(u) = Handling(s) /\ u.bound = None /\ u.absent = s.absent
  BY ClearContextFields
<1>2. AcmPoisoned(s) = [u EXCEPT !.acmPoisoned = TRUE]
  BY DEF AcmPoisoned
<1> HIDE DEF u
<1> QED BY ZenonT(60), <1>1, <1>2 DEF KernelType, Handling

LEMMA DroppedContextFields ==
    ASSUME NEW s \in KernelType
    PROVE  LET t == DroppedContext(s)
           IN  /\ t \in KernelType /\ Handling(t) = Handling(s)
               /\ t.bound = None /\ t.absent = s.absent
<1> DEFINE u == ClearPassword(s)
<1>1. u \in KernelType /\ Handling(u) = Handling(s) /\ u.bound = None /\ u.absent = s.absent
  BY ClearPasswordFields
<1>2. DroppedContext(s) = [u EXCEPT !.context = s.secret] \/ DroppedContext(s) = ClearContext(s)
  BY DEF DroppedContext
<1> HIDE DEF u
<1>3. ASSUME NEW t, t = [u EXCEPT !.context = s.secret]
      PROVE  t \in KernelType /\ Handling(t) = Handling(u) /\ t.bound = None /\ t.absent = u.absent
  BY <1>1, <1>3 DEF KernelType, Handling
<1> QED BY <1>1, <1>2, <1>3, ClearContextFields

\* An ACM request either leaves no binding, or leaves the record it found.
LEMMA AcmStep ==
    ASSUME Inv, k' \in KernelType, Handling(k') = Handling(k), k'.bound = None,
           k'.absent = k.absent,
           hw' \in SepType, hw'.handles = hw.handles, hw'.made = hw.made,
           hw'.primary = hw.primary, hw'.dma = hw.dma,
           dev' = dev, Fails \/ UNCHANGED failures
    PROVE  Inv'
<1>1. HandlesKnown(k, hw') /\ AbsenceProved(k', hw')
  BY DEF Inv, EndpointInv, HandlesKnown, AbsenceProved, Handling
<1>2. EndpointInv(k', hw') /\ SameNodes(k, k')
  BY <1>1, HandlingKept, ClearedInv DEF SameNodes, Handling
<1> QED BY <1>2, DeviceKept, FailsType DEF Inv

LEMMA CreateContextInv == ASSUME Inv, CreateContext PROVE Inv'
<1>1. PICK c \in Contexts :
         LET h == [hw EXCEPT !.contexts = @ \cup {c}]
         IN  \/ k' = NewContext(k, c) /\ hw' = h /\ UNCHANGED failures
             \/ k' = AcmPoisoned(k) /\ hw' \in {hw, h} /\ Fails
             \/ k' = k /\ hw' = hw /\ Fails
  BY DEF CreateContext
<1>2. k \in KernelType /\ hw \in SepType /\ dev' = dev
  BY DEF Inv, EndpointInv, CreateContext
<1> DEFINE h == [hw EXCEPT !.contexts = @ \cup {c}]
<1>3. /\ h \in SepType /\ h.handles = hw.handles /\ h.made = hw.made
      /\ h.primary = hw.primary /\ h.dma = hw.dma
  BY <1>2 DEF SepType
<1>4. /\ NewContext(k, c) \in KernelType /\ Handling(NewContext(k, c)) = Handling(k)
      /\ NewContext(k, c).bound = None /\ NewContext(k, c).absent = k.absent
  <2>1. CASE SplitAllowed(k)
    <3>1. k.bound = None
      BY <2>1 DEF SplitAllowed, Current, Live, Inv, EndpointInv, BindingProved
    <3> DEFINE t == [k EXCEPT !.target = TRUE, !.context = c]
    <3>2. NewContext(k, c) = t
      BY <2>1 DEF NewContext
    <3>3. t \in KernelType
      BY <1>2 DEF KernelType, Context
    <3>4. Handling(t) = Handling(k) /\ t.bound = k.bound /\ t.absent = k.absent
      BY <1>2 DEF KernelType, Handling
    <3> HIDE DEF t
    <3> QED BY <3>1, <3>2, <3>3, <3>4
  <2>2. CASE ~SplitAllowed(k)
    <3> DEFINE u == ClearAuthorization(k)
    <3>1. u \in KernelType /\ Handling(u) = Handling(k) /\ u.bound = None /\ u.absent = k.absent
      BY <1>2, ClearAuthorizationFields
    <3>2. NewContext(k, c) = [u EXCEPT !.context = c]
      BY <2>2 DEF NewContext
    <3> HIDE DEF u
    <3> QED BY <3>1, <3>2 DEF KernelType, Context, Handling
  <2> QED BY <2>1, <2>2
<1> HIDE DEF h
<1>5. CASE k' = NewContext(k, c) /\ hw' = h /\ UNCHANGED failures
  BY <1>2, <1>3, <1>4, <1>5, AcmStep
<1>6. CASE k' = AcmPoisoned(k) /\ hw' \in {hw, h} /\ Fails
  BY <1>2, <1>3, <1>6, AcmStep, AcmPoisonedFields
<1>7. CASE k' = k /\ hw' = hw /\ Fails
  BY <1>2, <1>7, DeviceKept, FailsType DEF Inv, SameNodes
<1> QED BY <1>1, <1>5, <1>6, <1>7 DEF h

LEMMA DestroyContextInv == ASSUME Inv, DestroyContext PROVE Inv'
<1> DEFINE h == Destroyed(hw, k.context)
<1>1. k \in KernelType /\ hw \in SepType /\ dev' = dev
  BY DEF Inv, EndpointInv, DestroyContext
<1>2. /\ h \in SepType /\ h.handles = hw.handles /\ h.made = hw.made
      /\ h.primary = hw.primary /\ h.dma = hw.dma
  BY <1>1, DestroyedType
<1>3. \/ k' = DroppedContext(k) /\ hw' = h /\ UNCHANGED failures
      \/ k' = AcmPoisoned(k) /\ hw' \in {hw, h} /\ Fails
      \/ k' = k /\ hw' = hw /\ Fails
  BY DEF DestroyContext
<1> HIDE DEF h
<1>4. CASE k' = DroppedContext(k) /\ hw' = h /\ UNCHANGED failures
  BY <1>1, <1>2, <1>4, AcmStep, DroppedContextFields
<1>5. CASE k' = AcmPoisoned(k) /\ hw' \in {hw, h} /\ Fails
  BY <1>1, <1>2, <1>5, AcmStep, AcmPoisonedFields
<1>6. CASE k' = k /\ hw' = hw /\ Fails
  BY <1>1, <1>6, DeviceKept, FailsType DEF Inv, SameNodes
<1> QED BY <1>3, <1>4, <1>5, <1>6

\* A refused reply leaves the record as it is, whatever the SEP did.
LEMMA AcmRejected ==
    ASSUME Inv, k' = k,
           hw' \in SepType, hw'.handles = hw.handles, hw'.made = hw.made,
           hw'.primary = hw.primary, hw'.dma = hw.dma, hw'.verified = hw.verified,
           dev' = dev, Fails \/ UNCHANGED failures
    PROVE  Inv'
<1>1. EndpointInv(k', hw') /\ SameNodes(k, k')
  BY DEF Inv, EndpointInv, HandlesKnown, BindingProved, AbsenceProved, SameNodes
<1> QED BY <1>1, DeviceKept, FailsType DEF Inv

LEMMA SetSecretInv == ASSUME Inv, SetSecret PROVE Inv'
<1> DEFINE h == [hw EXCEPT !.secrets = @ \cup {k.context}]
           u == ClearAuthorization(k)
<1>1. /\ k \in KernelType /\ hw \in SepType /\ dev' = dev /\ k.context \in Contexts
      /\ Fails \/ UNCHANGED failures
  BY DEF Inv, EndpointInv, SetSecret, KernelType, Context
<1>2. /\ h \in SepType /\ h.handles = hw.handles /\ h.made = hw.made
      /\ h.primary = hw.primary /\ h.dma = hw.dma /\ h.verified = hw.verified
  BY <1>1 DEF SepType
<1>3. u \in KernelType /\ Handling(u) = Handling(k) /\ u.bound = None /\ u.absent = k.absent
  BY <1>1, ClearAuthorizationFields
<1>4. k' \in {[u EXCEPT !.secret = k.context], AcmPoisoned(k), k} /\ hw' \in {hw, h}
  BY DEF SetSecret, SecretSet
<1> HIDE DEF h, u
<1>5. ASSUME NEW t, t = [u EXCEPT !.secret = k.context]
      PROVE  t \in KernelType /\ Handling(t) = Handling(u) /\ t.bound = None /\ t.absent = u.absent
  BY <1>1, <1>3, <1>5 DEF KernelType, Context, Handling
<1>6. CASE k' \in {[u EXCEPT !.secret = k.context], AcmPoisoned(k)}
  <2>1. /\ k' \in KernelType /\ Handling(k') = Handling(k)
        /\ k'.bound = None /\ k'.absent = k.absent
    BY <1>1, <1>3, <1>5, <1>6, AcmPoisonedFields
  <2> QED BY <1>1, <1>2, <1>4, <2>1, AcmStep
<1>7. CASE k' = k
  BY <1>1, <1>2, <1>4, <1>7, AcmRejected
<1> QED BY <1>4, <1>6, <1>7

LEMMA EvaluateExternalizeInv == ASSUME Inv, EvaluatePolicy \/ Externalize PROVE Inv'
<1>1. k \in KernelType /\ hw \in SepType /\ UNCHANGED <<hw, dev>> /\ (Fails \/ UNCHANGED failures)
  BY DEF Inv, EndpointInv, EvaluatePolicy, Externalize
<1>2. CASE k' = AcmPoisoned(k)
  BY <1>1, <1>2, AcmStep, AcmPoisonedFields
<1>3. CASE k' = [k EXCEPT !.externalized = @ \/ (Current(k) /\ ~k.consumed)]
  <2> DEFINE e == k.externalized \/ (Current(k) /\ ~k.consumed)
  <2>1. k' = [k EXCEPT !.externalized = e] /\ e \in BOOLEAN
    BY <1>3
  <2> HIDE DEF e
  <2>2. /\ k' \in KernelType /\ Handling(k') = Handling(k) /\ k'.bound = k.bound
        /\ k'.context = k.context /\ k'.absent = k.absent /\ k'.secret = k.secret
        /\ k'.acmPoisoned = k.acmPoisoned /\ k'.consumed = k.consumed
    BY <1>1, <2>1 DEF KernelType, Handling
  <2>3. EndpointInv(k', hw') /\ SameNodes(k, k')
    BY <1>1, <2>2, HandlingKept
       DEF Inv, EndpointInv, BindingProved, AbsenceProved, Handling, SameNodes
  <2> QED BY <1>1, <2>3, DeviceKept, FailsType DEF Inv
<1>4. CASE k' = k
  BY <1>1, <1>4, AcmRejected
<1> QED BY <1>2, <1>3, <1>4 DEF EvaluatePolicy, Externalize

LEMMA OpenAcmInv == ASSUME Inv, OpenAcm PROVE Inv'
<1>1. k \in KernelType /\ EndpointInv(k, hw)
  BY DEF Inv, EndpointInv
<1>2. /\ k' = [k EXCEPT !.acmOpen = TRUE] /\ dev' = Get(dev) /\ UNCHANGED <<hw, failures>>
      /\ dev.stage = "ready" /\ ~k.acmOpen
  BY DEF OpenAcm
<1>3. /\ k' \in KernelType /\ k'.acmOpen = TRUE /\ k'.aksOpen = k.aksOpen
      /\ k'.phase = k.phase /\ k'.provPoisoned = k.provPoisoned /\ k'.provTried = k.provTried
      /\ k'.active = k.active /\ k'.runPoisoned = k.runPoisoned /\ k'.runTried = k.runTried
      /\ k'.bound = k.bound /\ k'.secret = k.secret /\ k'.context = k.context
      /\ k'.acmPoisoned = k.acmPoisoned /\ k'.consumed = k.consumed /\ k'.absent = k.absent
  BY <1>1, <1>2 DEF KernelType
<1>4. EndpointInv(k', hw')
  BY <1>1, <1>2, <1>3 DEF EndpointInv, HandlesKnown, BindingProved, AbsenceProved
<1>5. DeviceInv'
  BY <1>2, <1>3, NodeOpened
<1> QED BY <1>2, <1>4, <1>5 DEF Inv

\* What t2_acm_release leaves keeps the handles, and no binding.
LEMMA DestroyAllFields ==
    ASSUME NEW s \in KernelType, NEW h \in SepType
    PROVE  LET t == DestroyAll(s, h)[1]
               g == DestroyAll(s, h)[2]
           IN  /\ t \in KernelType /\ Handling(t) = Handling(s) /\ t.absent = s.absent
               /\ g \in SepType /\ g.handles = h.handles /\ g.made = h.made
               /\ g.primary = h.primary /\ g.dma = h.dma
<1> DEFINE s1 == DroppedContext(s)
           h1 == Destroyed(h, s.context)
           s2 == DroppedContext(s1)
           h2 == Destroyed(h1, s1.context)
<1>1. s1 \in KernelType /\ Handling(s1) = Handling(s) /\ s1.absent = s.absent
  BY DroppedContextFields
<1>2. s2 \in KernelType /\ Handling(s2) = Handling(s) /\ s2.absent = s.absent
  BY <1>1, DroppedContextFields
<1>3. /\ AcmPoisoned(s2) \in KernelType /\ Handling(AcmPoisoned(s2)) = Handling(s)
      /\ AcmPoisoned(s2).absent = s.absent
  BY <1>2, AcmPoisonedFields
<1>4. /\ h1 \in SepType /\ h1.handles = h.handles /\ h1.made = h.made
      /\ h1.primary = h.primary /\ h1.dma = h.dma
  BY DestroyedType
<1>5. /\ h2 \in SepType /\ h2.handles = h.handles /\ h2.made = h.made
      /\ h2.primary = h.primary /\ h2.dma = h.dma
  BY <1>4, DestroyedType
<1>6. DestroyAll(s, h) \in {<<s, h>>, <<s1, h1>>, <<s2, h2>>, <<AcmPoisoned(s2), h2>>}
  BY DEF DestroyAll
<1> HIDE DEF s1, h1, s2, h2
<1> QED BY <1>1, <1>2, <1>3, <1>4, <1>5, <1>6

LEMMA CloseAcmInv == ASSUME Inv, CloseAcm PROVE Inv'
<1>1. k \in KernelType /\ hw \in SepType /\ EndpointInv(k, hw)
  BY DEF Inv, EndpointInv
<1> DEFINE h == Destroyed(hw, k.context)
           d == DestroyAll(k, hw)
           u == ClearAuthorization(d[1])
           v == AcmPoisoned(k)
<1>2. /\ Fails \/ UNCHANGED failures
      /\ \/ k' = [k EXCEPT !.acmOpen = FALSE] /\ hw' = hw
         \/ k' = [u EXCEPT !.acmOpen = FALSE] /\ hw' = d[2]
         \/ k' = [v EXCEPT !.acmOpen = FALSE] /\ hw' \in {hw, h}
  BY DEF CloseAcm
<1>3. /\ u \in KernelType /\ Handling(u) = Handling(k) /\ u.bound = None /\ u.absent = k.absent
      /\ d[2] \in SepType /\ d[2].handles = hw.handles /\ d[2].made = hw.made
      /\ d[2].primary = hw.primary /\ d[2].dma = hw.dma
  BY <1>1, DestroyAllFields, ClearAuthorizationFields
<1>4. v \in KernelType /\ Handling(v) = Handling(k) /\ v.bound = None /\ v.absent = k.absent
  BY <1>1, AcmPoisonedFields
<1>5. /\ h \in SepType /\ h.handles = hw.handles /\ h.made = hw.made
      /\ h.primary = hw.primary /\ h.dma = hw.dma
  BY <1>1, DestroyedType
<1> HIDE DEF h, d, u, v
<1>6. ASSUME NEW w \in KernelType, Handling(w) = Handling(k), w.bound = None, w.absent = k.absent,
             NEW g \in SepType, g.handles = hw.handles, g.made = hw.made,
             g.primary = hw.primary, g.dma = hw.dma,
             k' = [w EXCEPT !.acmOpen = FALSE], hw' = g
      PROVE  /\ EndpointInv(k', hw') /\ k'.acmOpen = FALSE /\ k'.aksOpen = k.aksOpen
             /\ hw'.dma = hw.dma
  <2>1. /\ k' \in KernelType /\ k'.acmOpen = FALSE /\ k'.aksOpen = w.aksOpen
        /\ k'.phase = w.phase /\ k'.provPoisoned = w.provPoisoned /\ k'.provTried = w.provTried
        /\ k'.active = w.active /\ k'.runPoisoned = w.runPoisoned /\ k'.runTried = w.runTried
        /\ k'.bound = None /\ k'.absent = w.absent
    BY ZenonT(60), <1>6 DEF KernelType
  <2>2. HandlesKnown(k', hw') /\ AbsenceProved(k', hw')
    BY <1>1, <1>6, <2>1 DEF EndpointInv, HandlesKnown, AbsenceProved, Handling
  <2> QED BY <1>6, <2>1, <2>2, ClearedInv DEF Handling
<1>7. ASSUME k' = [k EXCEPT !.acmOpen = FALSE], hw' = hw
      PROVE  /\ EndpointInv(k', hw') /\ k'.acmOpen = FALSE /\ k'.aksOpen = k.aksOpen
             /\ hw'.dma = hw.dma
  <2>1. /\ k' \in KernelType /\ k'.acmOpen = FALSE /\ k'.aksOpen = k.aksOpen
        /\ k'.phase = k.phase /\ k'.provPoisoned = k.provPoisoned /\ k'.provTried = k.provTried
        /\ k'.active = k.active /\ k'.runPoisoned = k.runPoisoned /\ k'.runTried = k.runTried
        /\ k'.bound = k.bound /\ k'.secret = k.secret /\ k'.context = k.context
        /\ k'.acmPoisoned = k.acmPoisoned /\ k'.consumed = k.consumed /\ k'.absent = k.absent
    BY <1>1, <1>7 DEF KernelType
  <2> QED BY <1>1, <1>7, <2>1 DEF EndpointInv, HandlesKnown, BindingProved, AbsenceProved
<1>8. /\ EndpointInv(k', hw') /\ k'.acmOpen = FALSE /\ k'.aksOpen = k.aksOpen /\ hw'.dma = hw.dma
  BY <1>1, <1>2, <1>3, <1>4, <1>5, <1>6, <1>7
<1>9. DeviceInv'
  BY <1>8, NodeClosed DEF CloseAcm
<1> QED BY <1>2, <1>8, <1>9, FailsType DEF Inv

-----------------------------------------------------------------------------
(* The probe and the removal of the driver. *)

\* The buffers are registered in the order of RegisterOrder.
LEMMA RegistrationOrder ==
    ASSUME Inv, dev.stage = "probe"
    PROVE  /\ NextBuffer \in Buffers /\ dev.registered \subseteq Buffers
           /\ \/ NextBuffer = "acm_out"
              \/ dev.registered \cup {NextBuffer} \in
                    {{"aks_in"}, {"aks_in", "aks_out"}, {"aks_in", "aks_out", "acm_in"}}
<1> DEFINE s1 == {"aks_in"}
           s2 == {"aks_in", "aks_out"}
           s3 == {"aks_in", "aks_out", "acm_in"}
<1>1. dev.registered \in {{}, s1, s2, s3}
  BY DEF Inv, DeviceInv
<1>2. IsFiniteSet({}) /\ Cardinality({}) = 0
  BY FS_EmptySet
<1>3. IsFiniteSet(s1) /\ Cardinality(s1) = 1
  BY FS_Singleton
<1>4. IsFiniteSet(s2) /\ Cardinality(s2) = 2
  <2>1. s2 = s1 \cup {"aks_out"} /\ "aks_out" \notin s1
    OBVIOUS
  <2> HIDE DEF s1, s2
  <2> QED BY <1>3, <2>1, FS_AddElement
<1>5. Cardinality(s3) = 3
  <2>1. s3 = s2 \cup {"acm_in"} /\ "acm_in" \notin s2
    OBVIOUS
  <2> HIDE DEF s2, s3
  <2> QED BY <1>4, <2>1, FS_AddElement
<1>6. CASE dev.registered = {}
  <2>1. Cardinality(dev.registered) + 1 = 1
    BY <1>2, <1>6
  <2> QED BY <1>6, <2>1 DEF NextBuffer, RegisterOrder, Buffers
<1>7. CASE dev.registered = s1
  <2>1. Cardinality(dev.registered) + 1 = 2
    BY <1>3, <1>7
  <2> QED BY <1>7, <2>1 DEF NextBuffer, RegisterOrder, Buffers
<1>8. CASE dev.registered = s2
  <2>1. Cardinality(dev.registered) + 1 = 3
    BY <1>4, <1>8
  <2> QED BY <1>8, <2>1 DEF NextBuffer, RegisterOrder, Buffers
<1>9. CASE dev.registered = s3
  <2>1. Cardinality(dev.registered) + 1 = 4
    BY <1>5, <1>9
  <2> QED BY <1>9, <2>1 DEF NextBuffer, RegisterOrder, Buffers
<1> QED BY <1>1, <1>6, <1>7, <1>8, <1>9

\* While the driver probes, or once it is ready, it holds the device.
LEMMA Bound ==
    ASSUME Inv
    PROVE  /\ dev \in DeviceType /\ k.aksOpen \in BOOLEAN /\ k.acmOpen \in BOOLEAN
           /\ dev.stage = "probe" => /\ dev.refs = 1 /\ ~dev.freed /\ ~k.aksOpen /\ ~k.acmOpen
                                     /\ dev.allocated = Buffers
           /\ dev.stage \in {"ready", "pinned"} => dev.refs > 0 /\ ~dev.freed
<1>1. /\ dev \in DeviceType /\ k.aksOpen \in BOOLEAN /\ k.acmOpen \in BOOLEAN
      /\ dev.refs = References /\ (dev.freed => dev.refs = 0)
      /\ dev.stage = "probe" => ~k.aksOpen /\ ~k.acmOpen
      /\ dev.allocated = {} => dev.stage \in {"failed", "removed"}
  BY DEF Inv, DeviceInv, EndpointInv, KernelType
<1>2. dev.allocated \in {{}, Buffers}
  BY <1>1 DEF DeviceType
<1> QED BY <1>1, <1>2 DEF References, Held

\* A registration only adds an address to those of the SEP.
LEMMA RegisteredInv ==
    ASSUME Inv, dev.stage = "probe", UNCHANGED k, Fails \/ UNCHANGED failures,
           hw' \in {hw, [hw EXCEPT !.dma = @ \cup {NextBuffer}]}
    PROVE  /\ EndpointInv(k', hw') /\ failures' \in 0 .. MaxFailures
           /\ hw'.dma \subseteq hw.dma \cup {NextBuffer}
<1>1. hw \in SepType /\ NextBuffer \in Buffers /\ hw.dma \subseteq Buffers
  BY RegistrationOrder DEF Inv, EndpointInv, SepType
<1>2. /\ hw' \in SepType /\ hw'.handles = hw.handles /\ hw'.made = hw.made
      /\ hw'.primary = hw.primary /\ hw'.verified = hw.verified
      /\ hw'.dma \subseteq hw.dma \cup {NextBuffer}
  BY <1>1 DEF SepType
<1> QED BY <1>2, SepKept, FailsType DEF Inv

LEMMA RegisterInv == ASSUME Inv, Register PROVE Inv'
<1> DEFINE next == dev.registered \cup {NextBuffer}
           stage == IF NextBuffer = "acm_out" THEN "ready" ELSE dev.stage
<1>1. /\ dev.stage = "probe" /\ dev' = [dev EXCEPT !.registered = next, !.stage = stage]
      /\ UNCHANGED <<k, failures>> /\ hw' = [hw EXCEPT !.dma = @ \cup {NextBuffer}]
  BY DEF Register
<1>2. EndpointInv(k', hw') /\ failures' \in 0 .. MaxFailures
  BY <1>1, RegisteredInv
<1>3. /\ next # {} /\ next \subseteq Buffers /\ stage \in {"probe", "ready"}
      /\ stage = "probe" =>
            next \in {{"aks_in"}, {"aks_in", "aks_out"}, {"aks_in", "aks_out", "acm_in"}}
  BY <1>1, RegistrationOrder
<1> HIDE DEF next, stage
<1>4. /\ dev' \in DeviceType /\ dev'.registered = next /\ dev'.stage = stage
      /\ dev'.refs = 1 /\ dev'.freed = dev.freed /\ dev'.allocated = Buffers
  BY <1>1, <1>3, Bound DEF DeviceType, Stages
<1>5. dev'.refs = References'
  BY <1>1, <1>3, <1>4, Bound DEF References, Held
<1>6. dev'.allocated # {}
  BY <1>4 DEF Buffers
<1> QED BY <1>1, <1>2, <1>3, <1>4, <1>5, <1>6, Bound DEF Inv, DeviceInv

LEMMA RegisterLostInv == ASSUME Inv, RegisterLost PROVE Inv'
<1> DEFINE next == dev.registered \cup (IF dev.registered = {} THEN {NextBuffer} ELSE {})
<1>1. /\ dev.stage = "probe" /\ dev' = [dev EXCEPT !.registered = next, !.stage = "pinned"]
      /\ UNCHANGED k /\ Fails /\ hw' \in {hw, [hw EXCEPT !.dma = @ \cup {NextBuffer}]}
  BY DEF RegisterLost
<1>2. EndpointInv(k', hw') /\ failures' \in 0 .. MaxFailures
  BY <1>1, RegisteredInv
<1>3. next # {} /\ next \subseteq Buffers
  BY <1>1, RegistrationOrder
<1> HIDE DEF next
<1>4. /\ dev' \in DeviceType /\ dev'.registered = next /\ dev'.stage = "pinned"
      /\ dev'.refs = 1 /\ dev'.freed = dev.freed /\ dev'.allocated = Buffers
  BY <1>1, <1>3, Bound DEF DeviceType, Stages
<1>5. dev'.refs = References'
  BY <1>1, <1>4, Bound DEF References, Held
<1>6. dev'.allocated # {}
  BY <1>4 DEF Buffers
<1> QED BY <1>1, <1>2, <1>3, <1>4, <1>5, <1>6, Bound DEF Inv, DeviceInv

\* Pinning the device keeps the driver's reference.
LEMMA PinnedInv ==
    ASSUME Inv, dev.stage \in {"probe", "ready"}, UNCHANGED <<k, hw>>, Fails,
           dev' = [dev EXCEPT !.stage = "pinned"]
    PROVE  Inv'
<1>1. /\ dev' \in DeviceType /\ dev'.registered = dev.registered /\ dev'.stage = "pinned"
      /\ dev'.refs = dev.refs /\ dev'.freed = dev.freed /\ dev'.allocated = dev.allocated
  BY Bound DEF DeviceType, Stages
<1>2. dev'.refs = References'
  BY <1>1 DEF Inv, DeviceInv, References, Held
<1>3. dev'.allocated # {}
  BY <1>1 DEF Inv, DeviceInv
<1>4. failures' \in 0 .. MaxFailures
  BY FailsType DEF Inv
<1> QED BY <1>1, <1>2, <1>3, <1>4 DEF Inv, DeviceInv

LEMMA RegisterRefusedInv == ASSUME Inv, RegisterRefused PROVE Inv'
<1>1. dev.stage = "probe" /\ UNCHANGED <<k, hw>> /\ Fails
  BY DEF RegisterRefused
<1>2. CASE dev.registered # {}
  BY <1>1, <1>2, PinnedInv DEF RegisterRefused
<1>3. CASE dev.registered = {}
  <2>1. dev' = [dev EXCEPT !.allocated = {}, !.stage = "failed", !.refs = 0, !.freed = TRUE]
    BY <1>3 DEF RegisterRefused
  <2>2. /\ dev' \in DeviceType /\ dev'.registered = {} /\ dev'.stage = "failed"
        /\ dev'.refs = 0 /\ dev'.freed = TRUE /\ dev'.allocated = {}
    <3>1. dev \in DeviceType
      BY Bound
    <3>2. 0 \in 0 .. 3 /\ "failed" \in Stages /\ {} \in {{}, Buffers}
      BY DEF Stages
    <3> QED BY <1>3, <2>1, <3>1, <3>2 DEF DeviceType
  <2>3. dev'.refs = References' /\ hw'.dma = {} /\ ~k'.aksOpen /\ ~k'.acmOpen
    BY <1>1, <1>3, <2>2, Bound DEF References, Held, Inv, DeviceInv
  <2>4. failures' \in 0 .. MaxFailures
    BY <1>1, FailsType DEF Inv
  <2> QED BY <1>1, <2>2, <2>3, <2>4 DEF Inv, DeviceInv
<1> QED BY <1>2, <1>3

LEMMA ProbeFailsInv == ASSUME Inv, ProbeFails PROVE Inv'
BY PinnedInv DEF ProbeFails

LEMMA RemoveInv == ASSUME Inv, t2_sep_remove PROVE Inv'
<1> DEFINE kept == IF dev.registered = {} THEN {} ELSE dev.allocated
           put == dev.refs - 1
           freed == dev.freed \/ dev.refs = 1
<1>1. /\ dev.stage \in {"ready", "pinned"} /\ UNCHANGED <<k, hw, failures>>
      /\ dev \in DeviceType /\ dev.refs > 0 /\ ~dev.freed /\ dev.refs = References
  BY Bound DEF t2_sep_remove, Inv, DeviceInv
<1>2. dev' = [dev EXCEPT !.stage = "removed", !.allocated = kept, !.refs = put, !.freed = freed]
  BY <1>1 DEF t2_sep_remove, Put, DeviceType
<1>3. /\ put \in 0 .. 3 /\ freed \in BOOLEAN /\ (freed => put = 0) /\ kept \in {{}, Buffers}
      /\ kept = {} => hw.dma = {}
  BY <1>1 DEF DeviceType, Inv, DeviceInv
<1> HIDE DEF kept, freed
<1>4. /\ dev' \in DeviceType /\ dev'.stage = "removed" /\ dev'.allocated = kept
      /\ dev'.refs = put /\ dev'.freed = freed /\ dev'.registered = dev.registered
  BY <1>1, <1>2, <1>3 DEF DeviceType, Stages
<1>5. dev'.refs = References'
  BY <1>1, <1>4, Bound DEF References, Held
<1> HIDE DEF put
<1> QED BY <1>1, <1>3, <1>4, <1>5 DEF Inv, DeviceInv

-----------------------------------------------------------------------------
(* The theorems. *)

LEMMA InitInv == Init => Inv
<1> SUFFICES ASSUME Init PROVE Inv
  OBVIOUS
<1>1. /\ k \in KernelType
      /\ ~k.active /\ k.phase = "idle" /\ k.bound = None /\ k.absent = 0
      /\ ~k.aksOpen /\ ~k.acmOpen
  <2>1. 0 \in 0 .. 2 /\ "none" \in Arms /\ None \in Context
    BY DEF Arms, Context
  <2> QED BY <2>1 DEF Init, KernelType
<1>2. hw \in SepType /\ hw.handles = 0 /\ hw.made = 0 /\ hw.dma = {}
  <2>1. PICK id \in {None, "old"} :
           hw = [primary |-> id, handles |-> 0, made |-> 0, contexts |-> {}, secrets |-> {},
                 verified |-> None, unlocked |-> FALSE, creates |-> 0, dma |-> {}]
    BY DEF Init
  <2>2. 0 \in 0 .. 1 /\ 0 \in Nat /\ {} \subseteq Contexts /\ {} \subseteq Buffers
    OBVIOUS
  <2> QED BY <2>1, <2>2 DEF SepType
<1>3. EndpointInv(k, hw)
  BY <1>1, <1>2 DEF EndpointInv, HandlesKnown, BindingProved, AbsenceProved
<1>4. /\ dev \in DeviceType /\ dev.stage = "probe" /\ dev.refs = 1 /\ ~dev.freed
      /\ dev.allocated = Buffers /\ dev.registered = {}
  <2>1. 1 \in 0 .. 3 /\ "probe" \in Stages
    BY DEF Stages
  <2> QED BY <2>1 DEF Init, DeviceType
<1>5. dev.refs = References /\ dev.allocated # {}
  BY <1>1, <1>4 DEF References, Held, Buffers
<1>6. failures \in 0 .. MaxFailures
  BY BoundsAssumption DEF Init
<1> QED BY <1>1, <1>2, <1>3, <1>4, <1>5, <1>6 DEF Inv, DeviceInv

LEMMA NextInv == Inv /\ [Next]_vars => Inv'
<1> SUFFICES ASSUME Inv, [Next]_vars PROVE Inv'
  OBVIOUS
<1>1. CASE Register
  BY <1>1, RegisterInv
<1>2. CASE RegisterLost
  BY <1>2, RegisterLostInv
<1>3. CASE RegisterRefused
  BY <1>3, RegisterRefusedInv
<1>4. CASE ProbeFails
  BY <1>4, ProbeFailsInv
<1>5. CASE t2_sep_remove
  BY <1>5, RemoveInv
<1>6. CASE OpenAks
  BY <1>6, OpenAksInv
<1>7. CASE CloseAks
  BY <1>7, CloseAksInv
<1>8. CASE OpenAcm
  BY <1>8, OpenAcmInv
<1>9. CASE CloseAcm
  BY <1>9, CloseAcmInv
<1>10. CASE \E op \in Ops, session \in Sessions : Exchange(op, session)
  BY <1>10, ExchangeInv
<1>11. CASE \E session \in Sessions : ReadPrimary(session)
  BY <1>11, ReadPrimaryInv
<1>12. CASE \E kind \in {"identity", "verify", "password"} : VerifySecret(kind)
  BY <1>12, VerifySecretInv
<1>13. CASE \E arm \in Arms \ {"none"}, session \in Sessions : Arm(arm, session)
  BY <1>13, ArmInv
<1>14. CASE BadExport
  BY <1>14, BadExportInv
<1>15. CASE CreateContext
  BY <1>15, CreateContextInv
<1>16. CASE DestroyContext
  BY <1>16, DestroyContextInv
<1>17. CASE EvaluatePolicy \/ Externalize
  BY <1>17, EvaluateExternalizeInv
<1>18. CASE SetSecret
  BY <1>18, SetSecretInv
<1>19. CASE UNCHANGED vars
  BY <1>19 DEF vars, Inv, DeviceInv, References
<1> QED BY <1>1, <1>2, <1>3, <1>4, <1>5, <1>6, <1>7, <1>8, <1>9, <1>10, <1>11, <1>12, <1>13,
           <1>14, <1>15, <1>16, <1>17, <1>18, <1>19 DEF Next

\* The kernel's record, the SEP and the module keep the invariant through every request,
\* every failed exchange, every close and the removal of the driver.
THEOREM Invariance == Spec => []Inv
BY InitInv, NextInv, PTL DEF Spec

\* What t2_aks_ioctl and t2_aks_release record of runtime handles and of created ones
\* matches the SEP or its half is poisoned, and a password binding is live.
THEOREM EndpointAlwaysSound == Spec => []EndpointSound
<1>1. Inv => EndpointSound
  <2> SUFFICES ASSUME Inv PROVE EndpointSound
    OBVIOUS
  <2>1. k \in KernelType /\ hw \in SepType /\ dev \in DeviceType
    BY DEF Inv, EndpointInv, DeviceInv
  <2>2. TypeOK
    BY <2>1 DEF TypeOK, Inv, KernelType, SepType, DeviceType, Context
  <2>3. HandlesAccounted
    BY <2>1 DEF HandlesAccounted, Inv, EndpointInv, HandlesKnown, SepType
  <2>4. BindingIsLive
    BY DEF BindingIsLive, Inv, EndpointInv, BindingProved
  <2> QED BY <2>2, <2>3, <2>4 DEF EndpointSound
<1> QED BY <1>1, Invariance, PTL

\* t2_sep_probe and t2_sep_remove never free a buffer whose address the SEP may hold, and
\* the device outlives every descriptor.
THEOREM MemoryAlwaysOutlivesUse == Spec => []MemoryOutlivesUse
<1>1. Inv => MemoryOutlivesUse
  <2> SUFFICES ASSUME Inv PROVE MemoryOutlivesUse
    OBVIOUS
  <2>1. hw.dma \subseteq dev.allocated
    BY DEF Inv, EndpointInv, SepType, DeviceInv, DeviceType
  <2>2. k.aksOpen \/ k.acmOpen => ~dev.freed
    BY Bound DEF Inv, DeviceInv, References, Held
  <2> QED BY <2>1, <2>2 DEF MemoryOutlivesUse
<1> QED BY <1>1, Invariance, PTL

\* Neither a create nor an unlock.
Silent == hw'.creates = hw.creates /\ (hw'.unlocked => hw.unlocked)

LEMMA DeviceSilent ==
    ASSUME Inv, Register \/ RegisterLost \/ RegisterRefused \/ ProbeFails \/ t2_sep_remove
    PROVE  Silent
<1>1. hw \in SepType /\ hw' \in {hw, [hw EXCEPT !.dma = @ \cup {NextBuffer}]}
  BY DEF Inv, EndpointInv, Register, RegisterLost, RegisterRefused, ProbeFails, t2_sep_remove
<1> QED BY <1>1 DEF Silent, SepType

LEMMA DestroyAllSilent ==
    ASSUME NEW s \in KernelType, NEW h \in SepType, NEW c
    PROVE  /\ Destroyed(h, c).creates = h.creates /\ Destroyed(h, c).unlocked = h.unlocked
           /\ DestroyAll(s, h)[2].creates = h.creates
           /\ DestroyAll(s, h)[2].unlocked = h.unlocked
<1>1. ASSUME NEW g \in SepType, NEW x
      PROVE  /\ Destroyed(g, x) \in SepType /\ Destroyed(g, x).creates = g.creates
             /\ Destroyed(g, x).unlocked = g.unlocked
  BY ZenonT(60), <1>1, DestroyedType DEF Destroyed, SepType
<1> DEFINE s1 == DroppedContext(s)
           h1 == Destroyed(h, s.context)
           s2 == DroppedContext(s1)
           h2 == Destroyed(h1, s1.context)
<1>2. DestroyAll(s, h) \in {<<s, h>>, <<s1, h1>>, <<s2, h2>>, <<AcmPoisoned(s2), h2>>}
  BY DEF DestroyAll
<1>3. /\ h1 \in SepType /\ h1.creates = h.creates /\ h1.unlocked = h.unlocked
      /\ h2.creates = h1.creates /\ h2.unlocked = h1.unlocked
  BY <1>1
<1> HIDE DEF s1, h1, s2, h2
<1> QED BY <1>1, <1>2, <1>3

LEMMA AcmSilent ==
    ASSUME Inv, CloseAcm \/ CreateContext \/ DestroyContext \/ EvaluatePolicy \/ SetSecret
                \/ Externalize \/ OpenAcm
    PROVE  Silent
<1>1. k \in KernelType /\ hw \in SepType
  BY DEF Inv, EndpointInv
<1>2. \/ hw' = hw \/ hw' = Destroyed(hw, k.context) \/ hw' = DestroyAll(k, hw)[2]
      \/ \E c : hw' = [hw EXCEPT !.contexts = @ \cup {c}]
      \/ hw' = [hw EXCEPT !.secrets = @ \cup {k.context}]
  BY DEF CloseAcm, CreateContext, DestroyContext, EvaluatePolicy, SetSecret, Externalize, OpenAcm
<1>3. CASE \E c : hw' = [hw EXCEPT !.contexts = @ \cup {c}]
  BY <1>1, <1>3 DEF Silent, SepType
<1>4. CASE hw' = [hw EXCEPT !.secrets = @ \cup {k.context}]
  BY <1>1, <1>4 DEF Silent, SepType
<1> QED BY <1>1, <1>2, <1>3, <1>4, DestroyAllSilent DEF Silent

LEMMA CloseAksSilent == ASSUME Inv, CloseAks PROVE Silent
<1>1. hw \in SepType
  BY DEF Inv, EndpointInv
<1>2. ASSUME NEW s, NEW h \in SepType, NEW op \in {"made", "runtime"}, NEW due \in BOOLEAN,
             NEW o \in UnloadOnClose(s, h, op, due)
      PROVE  o[2].creates = h.creates /\ (o[2].unlocked => h.unlocked)
  <2> DEFINE made == [h EXCEPT !.made = @ - 1]
             runtime == [h EXCEPT !.handles = @ - 1, !.verified = None, !.unlocked = FALSE]
  <2>1. /\ made.creates = h.creates /\ made.unlocked = h.unlocked
        /\ runtime.creates = h.creates /\ runtime.unlocked = FALSE
    BY <1>2 DEF SepType
  <2>2. o[2] \in {h, IF op = "made" THEN made ELSE runtime}
    <3> DEFINE m == IF op = "made" THEN [s EXCEPT !.provTried = TRUE] ELSE [s EXCEPT !.runTried = TRUE]
               gone == IF op = "made" THEN made ELSE runtime
               bad == IF op = "made" THEN [m EXCEPT !.provPoisoned = TRUE]
                      ELSE [m EXCEPT !.runPoisoned = TRUE]
               ok == IF op = "made" THEN [m EXCEPT !.phase = "idle", !.provTried = FALSE]
                     ELSE [m EXCEPT !.active = FALSE, !.runTried = FALSE, !.alias = FALSE,
                                    !.unlockTried = FALSE]
    <3>1. o \in {<<s, h, FALSE>>} \/ o \in {<<ok, gone, FALSE>>, <<bad, h, TRUE>>, <<bad, gone, TRUE>>}
      BY <1>2, Zenon DEF UnloadOnClose
    <3> HIDE DEF m, gone, bad, ok
    <3>2. CASE o = <<s, h, FALSE>>
      BY <3>2
    <3>3. CASE o = <<ok, gone, FALSE>>
      BY <3>3 DEF gone
    <3>4. CASE o = <<bad, h, TRUE>>
      BY <3>4
    <3>5. CASE o = <<bad, gone, TRUE>>
      BY <3>5 DEF gone
    <3> QED BY <3>1, <3>2, <3>3, <3>4, <3>5
  <2> HIDE DEF made, runtime
  <2> QED BY <1>2, <2>1, <2>2
<1>3. CASE dev.stage = "removed"
  BY <1>3 DEF CloseAks, Silent
<1>4. CASE dev.stage # "removed"
  <2>1. PICK o \in ReleaseOutcomes : hw' = o[2]
    BY <1>4 DEF CloseAks
  <2>2. PICK x \in UnloadOnClose(k, hw, "runtime", k.active /\ ~k.runTried /\ ~Retained(k)) :
           \E y \in UnloadOnClose(x[1], x[2], "made", x[1].phase = "complete" /\ ~x[1].provTried) :
              o = <<y[1], y[2], x[3] \/ y[3]>>
    BY <2>1 DEF ReleaseOutcomes
  <2> DEFINE due == k.active /\ ~k.runTried /\ ~Retained(k)
             owed == x[1].phase = "complete" /\ ~x[1].provTried
  <2>3. PICK y \in UnloadOnClose(x[1], x[2], "made", x[1].phase = "complete" /\ ~x[1].provTried) :
           o = <<y[1], y[2], x[3] \/ y[3]>>
    BY <2>2
  <2>4. due \in BOOLEAN /\ x \in UnloadOnClose(k, hw, "runtime", due)
    BY <2>2
  <2>5. owed \in BOOLEAN /\ y \in UnloadOnClose(x[1], x[2], "made", owed)
    BY <2>3
  <2>6. o[2] = y[2]
    BY <2>3
  <2>7. due => k.active /\ ~k.runTried
    OBVIOUS
  <2> HIDE DEF due, owed
  <2>8. x[2] \in SepType
    BY <2>4, <2>7, UnloadRuntimeOnClose DEF Inv, EndpointInv
  <2>9. x[2].creates = hw.creates /\ (x[2].unlocked => hw.unlocked)
    BY <1>1, <1>2, <2>4
  <2>10. y[2].creates = x[2].creates /\ (y[2].unlocked => x[2].unlocked)
    BY <1>2, <2>5, <2>8
  <2> QED BY <2>1, <2>6, <2>9, <2>10 DEF Silent
<1> QED BY <1>3, <1>4

\* What a request that is admitted rests on.
LEMMA ExchangeProved ==
    ASSUME Inv, NEW op \in Ops, NEW session \in Sessions, Exchange(op, session)
    PROVE  CreateOnlyWhenAbsent /\ UnlockIsProved
<1> DEFINE m == Marked(k, op)
           h == Sent(hw, op)
<1>1. /\ k \in KernelType /\ hw \in SepType /\ HandlesKnown(k, hw)
      /\ BindingProved(k, hw) /\ AbsenceProved(k, hw)
      /\ ProvisioningAdmits(k, op, session) /\ RuntimeAdmits(k, op)
      /\ hw' \in {h, Effect(h, m, op)}
  BY DEF Inv, EndpointInv, Exchange
<1>2. h \in SepType /\ h.unlocked = hw.unlocked /\ (op # "create" => h.creates = hw.creates)
  BY <1>1 DEF Sent, SepType
<1> HIDE DEF m, h
<1>3. /\ op # "create" => hw'.creates = hw.creates
      /\ op # "unlock" => (hw'.unlocked => hw.unlocked)
  BY <1>1, <1>2 DEF Effect, SepType, Ops
<1>4. op = "create" => hw.primary = None /\ hw.made = 0
  BY <1>1 DEF ProvisioningAdmits, AbsenceProved, HandlesKnown, SepType
<1>5. op = "unlock" => hw.verified = <<k.secret, k.context>>
  BY <1>1 DEF RuntimeAdmits, Live, BindingProved
<1>6. hw.creates \in Nat
  BY <1>1 DEF SepType
<1> QED BY <1>3, <1>4, <1>5, <1>6 DEF CreateOnlyWhenAbsent, UnlockIsProved

\* t2_aks_provisioning_preflight_locked admits a create only after two reads found no
\* identity, and t2_aks_runtime_preflight_locked an unlock only after the SEP proved the
\* secret into the context that is live: whatever came before, and whatever failed.
THEOREM CommandsAlwaysProved == Spec => CommandsProved
<1>1. ASSUME Inv, [Next]_vars PROVE [CreateOnlyWhenAbsent /\ UnlockIsProved]_vars
  <2>1. ASSUME Silent PROVE CreateOnlyWhenAbsent /\ UnlockIsProved
    <3>1. hw.creates \in Nat
      BY <1>1 DEF Inv, EndpointInv, SepType
    <3> QED BY <2>1, <3>1 DEF Silent, CreateOnlyWhenAbsent, UnlockIsProved
  <2>2. CASE Register \/ RegisterLost \/ RegisterRefused \/ ProbeFails \/ t2_sep_remove
    BY <1>1, <2>1, <2>2, DeviceSilent
  <2>3. CASE OpenAks
    BY <2>1, <2>3 DEF OpenAks, Silent
  <2>4. CASE CloseAks
    BY <1>1, <2>1, <2>4, CloseAksSilent
  <2>5. CASE \/ CloseAcm \/ CreateContext \/ DestroyContext \/ EvaluatePolicy \/ SetSecret
             \/ Externalize \/ OpenAcm
    BY <1>1, <2>1, <2>5, AcmSilent
  <2>6. CASE \E op \in Ops, session \in Sessions : Exchange(op, session)
    BY <1>1, <2>6, ExchangeProved
  <2>7. CASE \E session \in Sessions : ReadPrimary(session)
    BY <2>1, <2>7 DEF ReadPrimary, Silent
  <2>8. CASE \E kind \in {"identity", "verify", "password"} : VerifySecret(kind)
    <3>1. PICK kind : hw' \in {hw, [hw EXCEPT !.verified = IF kind = "identity"
                                                          THEN <<k.secret, k.context>> ELSE @]}
      BY <2>8 DEF VerifySecret
    <3>2. hw \in SepType
      BY <1>1 DEF Inv, EndpointInv
    <3> QED BY <2>1, <3>1, <3>2 DEF Silent, SepType
  <2>9. CASE \E arm \in Arms \ {"none"}, session \in Sessions : Arm(arm, session)
    BY <2>1, <2>9 DEF Arm, Silent
  <2>10. CASE BadExport
    BY <2>1, <2>10 DEF BadExport, Silent
  <2>11. CASE UNCHANGED vars
    BY <2>11
  <2> QED BY <1>1, <2>2, <2>3, <2>4, <2>5, <2>6, <2>7, <2>8, <2>9, <2>10, <2>11 DEF Next
<1> QED BY <1>1, Invariance, PTL DEF Spec, CommandsProved

-----------------------------------------------------------------------------
(* The restore and recovery of the saved state (NativeStateRecovery), when   *)
(* no other system deletes fingers.  Every step is first reduced to a few    *)
(* shapes (StepShapes) and each variable to the steps that may change it     *)
(* (Frames); one lemma then carries each part of RecoveryInv, and of LoadInv *)
(* on top of it, over a step.                                                *)

\* The positions of a save past its intent, of a restore, and of a load of the lockout record.
Staged == {"saved", "confirm", "confirmed", "master", "commit", "install"}
SavePCs == {"stage", "user", "installed", "close", "readback"} \cup Staged
RestorePCs == {"restore_master", "restore_user", "check"}
LockPCs == {"lock", "publish", "manifest", "locked"}

\* What the position of a command says of the journal it goes on with.
RunInv ==
    /\ run.pc = "off" => run = Off
    /\ run.pc \notin {"off"} \cup RestorePCs \cup LockPCs => journal # <<>>
    /\ run.pc \in {"sent", "replied"} => run.cmd \in Commands /\ Milestone(journal) = Intent(run.cmd)
    /\ run.pc \in {"save"} \cup SavePCs =>
         Milestone(journal) \in {Intent("CATACOMB_PERSISTENCE"), Ready}
    /\ run.pc \in RestorePCs => ~Pending /\ run.cmd = "none"
    /\ run.pc \in LockPCs /\ run.cmd # "none" => journal # <<>>
    /\ run.pc \in LockPCs /\ run.cmd # "none" =>
         /\ run.cmd \in {"BIOLOCKOUT_LOAD", "EMPTY_REPROVISION_BIOLOCKOUT"}
         /\ Milestone(journal) = Intent(run.cmd)

\* The hold is there for every step of a recovery.
HoldInv ==
    /\ Pending => hold
    /\ run.pc \notin {"off"} \cup RestorePCs \cup LockPCs => hold
    /\ run.pc \in LockPCs /\ run.cmd # "none" => hold

\* Where a save is, and that a template the SEP holds as saved is the archive's,
\* or that of a save which stays open.
SaveInv ==
    /\ run.pc \in {"stage", "user"} => ext.records = 1
    /\ run.pc = "saved" => ext.records = 2
    /\ run.pc \in {"confirm", "confirmed"} => ext.records = 3
    /\ run.pc = "master" => ext.records = 4
    /\ run.pc \in {"commit", "install", "installed"} => ext.records = 5
    /\ run.pc \in {"close", "readback"} => ext.records = 6
    /\ run.pc \in Staged => ext.ver = sep.ver
    /\ run.pc = "installed" => host.ver = sep.ver
    /\ sep.ids # {} /\ sep.user = 3 => sep.ver = host.ver \/ ext.records \in 3..5

\* The highest manifest has its blob.
LockInv == /\ \A m \in lockout.manifests : m \in 1..Len(lockout.blobs)
           /\ \E m \in lockout.manifests : \A n \in lockout.manifests : m >= n

\* What only an invocation that acknowledged the loss goes on from.
Paid == GenerationChanging \cup {<<"MASTER_EXPORT", "PREPARED">>, <<"MASTER_EXPORT", "CAPTURED">>,
                                 Rejected("CANONICAL_USER_LOAD")}
ConsentInv ==
    /\ run.pc \in {"chain", "write"} /\ ~run.loss => Milestone(journal) \notin Paid
    /\ run.pc \in {"sent", "replied"} /\ ~run.loss => run.cmd \in Loads

\* Without it, a save stages the identities of the archive.
LossInv ==
    /\ journal # <<>> /\ Milestone(journal) = Proven("SAVED_USER") => sep.ids \in {{}, host.ids}
    /\ run.pc = "save" /\ ~run.loss => sep.ids = host.ids
    /\ run.pc \in {"stage", "user"} \cup Staged /\ ~run.loss => ext.ids = host.ids

RecoveryInv == /\ RecoveryTypeOK /\ RunInv /\ HoldInv /\ SaveInv /\ LockInv /\ ConsentInv /\ LossInv

\* The parts of the type invariant.
JournalOK == journal \in Seq(Entry)
SepOK == sep \in [master : {1, 3, 5, 7}, user : {0, 1, 3, 5, 7}, ids : SUBSET Ids, ver : Nat]
HostOK == host \in Archive /\ candidate \in {"none", "torn", "whole"} /\ hold \in BOOLEAN
ExtOK == ext \in [records : 0..7, base : Archive, txn : {"none", "prepare", "commit"},
                  ids : SUBSET Ids, ver : Nat]
LockoutOK == lockout \in [blobs : Seq(Nat), manifests : SUBSET Nat, own : Nat]
RunOK == run \in [pc : PCs, loss : BOOLEAN, client : BOOLEAN, tail : BOOLEAN,
                  cmd : Commands \cup {"none", "BIOLOCKOUT_LOAD", "EMPTY_REPROVISION_BIOLOCKOUT"},
                  reply : {"none", "ok", "rejected", "unknown"}]
BoundsOK == boot \in 1..MaxBoots /\ recoveries \in 0..MaxRecoveries /\ sent \in [Commands -> Nat]
\* The milestones that end an empty reprovision, which replaces the saved identities.
EmptyTail == {Ready, Proven("EMPTY_REPROVISION_CATACOMBS"), Intent("EMPTY_REPROVISION_BIOLOCKOUT"),
              Unknown("EMPTY_REPROVISION_BIOLOCKOUT"), Proven("EMPTY_REPROVISION_BIOLOCKOUT"), EmptyComplete}
ColdNames == {Proven("COLD_SURFACE"), Proven("CANONICAL_COLD_SURFACE")}

\* What the chain keeps of the order of milestones, and what a record proves of the T2.
Follows(m, n) == /\ n = Intent("CANONICAL_MASTER_LOAD") => m \in ColdNames
                 /\ m \in EmptyTail => n \in EmptyTail
                 /\ n = RecoveryComplete => m = Proven("BIOLOCKOUT")
                 /\ n # Intent("BIOLOCKOUT_LOAD") /\ n # Proven("BIOLOCKOUT")
Evidence(n) == /\ n = Proven("SAVED_USER") => sep.ids = host.ids
               /\ n \in ColdNames => sep.master = 1
               /\ n = PersistenceProven => sep.user = 3 /\ sep.ids = host.ids

\* The two shapes of most steps of the recovery chain: a command's intent is recorded,
\* or what was read back is.
Sending(c) ==
    /\ run.pc = "chain" /\ (~run.loss => c \in Loads) /\ Follows(Milestone(journal), Intent(c))
    /\ journal' = Append(journal, Rec(Intent(c)))
    /\ \E client \in BOOLEAN : run' = [run EXCEPT !.pc = "sent", !.cmd = c, !.client = client]
    /\ UNCHANGED <<sep, host, ext, candidate, lockout, hold, boot, sent, recoveries>>

Recording(r) ==
    /\ run.pc = "chain" /\ journal' = Append(journal, r)
    /\ \/ run' = Off
       \/ run' = run /\ (~run.loss => r.m \notin Paid)
       \/ run' = [run EXCEPT !.client = TRUE] /\ (~run.loss => r.m \notin Paid)
    /\ Follows(Milestone(journal), r.m) /\ Evidence(r.m)
    /\ UNCHANGED <<sep, host, ext, candidate, lockout, hold, boot, sent, recoveries>>
\* The parts of the type invariant together.
LEMMA RecoveryParts ==
    RecoveryTypeOK <=> /\ JournalOK /\ SepOK /\ HostOK /\ ExtOK /\ LockoutOK /\ RunOK /\ BoundsOK
  BY Zenon
       DEF RecoveryTypeOK, JournalOK, SepOK, HostOK, ExtOK, LockoutOK, RunOK, BoundsOK

\* A record of the journal, and the last of a journal it is appended to.
LEMMA RecOK ==
    ASSUME SepOK, BoundsOK, NEW m \in Steps \X Outcomes
    PROVE  /\ Rec(m) \in Entry /\ Rec(m).m = m
           /\ [Rec(m) EXCEPT !.surface = <<sep.master, sep.user>>] \in Entry
           /\ [Rec(m) EXCEPT !.surface = <<sep.master, sep.user>>].m = m
           /\ \A ids \in SUBSET Ids, ver \in Nat : /\ [Rec(m) EXCEPT !.ids = ids, !.ver = ver] \in Entry
                                                   /\ [Rec(m) EXCEPT !.ids = ids, !.ver = ver].m = m
           /\ \A status \in BOOLEAN : /\ [Rec(m) EXCEPT !.status = status] \in Entry
                                      /\ [Rec(m) EXCEPT !.status = status].m = m
<1> DEFINE b == IF m \in Restarts THEN boot ELSE 0
           s == <<sep.master, sep.user>>
           M == Steps \X Outcomes
           T == {<<>>} \cup (0..7) \X (0..7)
<1>1. b \in 0..MaxBoots
  <2>1. boot \in 0..MaxBoots /\ 0 \in 0..MaxBoots
    BY RecoveryAssumption DEF BoundsOK
  <2> QED BY <2>1
<1>2. Rec(m) = [m |-> m, surface |-> <<>>, ids |-> {}, status |-> FALSE, ver |-> 0, boot |-> b]
  BY DEF Rec
<1>3. s \in T /\ <<>> \in T /\ m \in M
  <2>1. sep.master \in 0..7 /\ sep.user \in 0..7
    BY DEF SepOK
  <2> QED BY <2>1
<1>4. Entry = [m : M, surface : T, ids : SUBSET Ids, status : BOOLEAN, ver : Nat, boot : 0..MaxBoots]
  BY DEF Entry
<1> DEFINE e == <<>>
<1>5. Rec(m) = [m |-> m, surface |-> e, ids |-> {}, status |-> FALSE, ver |-> 0, boot |-> b] /\ e \in T
  BY <1>2, <1>3
<1> HIDE DEF b, s, M, T, e
<1>6. Rec(m) \in Entry /\ Rec(m).m = m
  BY <1>1, <1>3, <1>4, <1>5
<1> DEFINE r == Rec(m)
<1> HIDE DEF r
<1>0. r \in [m : M, surface : T, ids : SUBSET Ids, status : BOOLEAN, ver : Nat, boot : 0..MaxBoots] /\ r.m = m
  BY <1>4, <1>6 DEF r
<1>7. [r EXCEPT !.surface = s] \in Entry /\ [r EXCEPT !.surface = s].m = m
  BY <1>0, <1>3, <1>4
<1>8. ASSUME NEW ids \in SUBSET Ids, NEW ver \in Nat
      PROVE  /\ [r EXCEPT !.ids = ids, !.ver = ver] \in Entry
             /\ [r EXCEPT !.ids = ids, !.ver = ver].m = m
  BY <1>0, <1>4
<1>9. ASSUME NEW status \in BOOLEAN
      PROVE  [r EXCEPT !.status = status] \in Entry /\ [r EXCEPT !.status = status].m = m
  BY <1>0, <1>4
<1> QED BY <1>6, <1>7, <1>8, <1>9, Zenon DEF s, r

\* A record that carries the archive.
WithArchive(m, ids, ver) == [Rec(m) EXCEPT !.ids = ids, !.ver = ver]

LEMMA RecArchive ==
    ASSUME SepOK, BoundsOK, NEW m \in Steps \X Outcomes, NEW ids \in SUBSET Ids, NEW ver \in Nat
    PROVE  WithArchive(m, ids, ver) \in Entry /\ WithArchive(m, ids, ver).m = m
<1> DEFINE r == WithArchive(m, ids, ver)
<1> DEFINE q == Rec(m)
<1>1. q \in Entry /\ q.m = m
  BY RecOK, Zenon
<1>2. r = [q EXCEPT !.ids = ids, !.ver = ver]
  BY DEF WithArchive
<1> HIDE DEF q, r
<1> DEFINE M == Steps \X Outcomes
           T == {<<>>} \cup (0..7) \X (0..7)
<1>3. Entry = [m : M, surface : T, ids : SUBSET Ids, status : BOOLEAN, ver : Nat, boot : 0..MaxBoots]
  BY DEF Entry
<1> HIDE DEF M, T
<1>4. r \in Entry /\ r.m = m
  BY <1>1, <1>2, <1>3
<1> QED BY <1>4 DEF r

LEMMA AppendMilestone ==
    ASSUME NEW h \in Seq(Entry), NEW r \in Entry
    PROVE  Append(h, r) \in Seq(Entry) /\ Append(h, r) # <<>> /\ Milestone(Append(h, r)) = r.m
  BY DEF Milestone, Last

\* The milestones the chain writes.
Names == Steps \X Outcomes

LEMMA SendShape ==
    ASSUME SepOK, BoundsOK, NEW c \in Commands, NEW client \in BOOLEAN,
           run.pc = "chain", ~run.loss => c \in Loads, Follows(Milestone(journal), Intent(c)), Send(c, client)
    PROVE  Sending(c)
  BY Zenon DEF Sending, Send, Record, Written, Same, Rest

LEMMA RecordShape ==
    ASSUME SepOK, BoundsOK, NEW m \in Names, Follows(Milestone(journal), m), Evidence(m),
           run.pc = "chain", Same, Record(m) \/ RecordSurface(m),
           \/ run' = Off
           \/ (run' = run \/ run' = [run EXCEPT !.client = TRUE]) /\ (~run.loss => m \notin Paid)
    PROVE  \E r \in Entry : Recording(r)
<1>1. PICK r \in Entry : journal' = Append(journal, r) /\ r.m = m
  BY RecOK, Zenon DEF Record, RecordSurface, Written, Names
<1>2. UNCHANGED <<sep, host, ext, candidate, lockout, hold, boot, sent, recoveries>>
  BY Zenon DEF Same, Rest
<1>3. Recording(r)
  BY <1>1, <1>2, Zenon DEF Recording
<1> QED BY <1>3, Zenon

LEMMA ReadbackShape ==
    ASSUME SepOK, BoundsOK, NEW surfaces, NEW good \in Names, NEW bad \in Names,
           Follows(Milestone(journal), good), Evidence(good),
           Follows(Milestone(journal), bad), Evidence(bad),
           run.pc = "chain", ~run.loss => good \notin Paid, Readback(surfaces, good, bad)
    PROVE  \E r \in Entry : Recording(r)
<1>1. CASE Empty(surfaces)
  <2>1. RecordSurface(good) /\ run' = run /\ Same
    BY <1>1, Zenon DEF Readback
  <2> QED BY <2>1, RecordShape, Zenon
<1>2. CASE ~Empty(surfaces)
  <2>1. Record(bad) /\ run' = Off /\ Same
    BY <1>2, Zenon DEF Readback
  <2> QED BY <2>1, RecordShape, Zenon
<1> QED BY <1>1, <1>2, Zenon

\* The milestones a resumed invocation needs the acknowledgement for, and the others.
PaidNames ==
    {Proven("BASELINE"), Accepted("PREPARE_MASTER"), BadState("MISSING_COMPONENTS"),
     Proven("LOADED_EMPTY_USER"), Accepted("REMOVE_EMPTY_USER"), Proven("REMOVED_USER"),
     <<"MASTER_EXPORT", "CONFIRMED">>, Settled, Accepted("REPREPARE_MASTER"),
     Proven("EMPTY_REPROVISION_SURFACE"), Accepted("EMPTY_REPROVISION_MASTER"),
     Accepted("EMPTY_REPROVISION_USER"), Selected("EMPTY_REPROVISION_CLIENT"), <<"MASTER_EXPORT",
     "PREPARED">>, <<"MASTER_EXPORT", "CAPTURED">>, Rejected("CANONICAL_USER_LOAD")}
FreeNames ==
    {Selected("CLIENT_VERSION"), Selected("RECLIENT_VERSION"), Proven("MISSING_COMPONENTS"),
     Prepared("COLD_RESTART"), Proven("COLD_SURFACE"), Proven("CANONICAL_COLD_SURFACE"),
     Proven("COLD_MASTER"), Prepared("CANONICAL_RESTART"), Proven("CANONICAL_MASTER"),
     Proven("SAVED_USER"), PersistenceProven, Proven("EMPTY_REPROVISION_CATACOMBS"),
     Proven("BIOLOCKOUT"), Intent("CATACOMB_PERSISTENCE"), Ready,
     Proven("EMPTY_REPROVISION_BIOLOCKOUT"), BadState("REPREPARED_COMPONENTS"), RecoveryComplete,
     EmptyComplete}
BadNames ==
    {BadState("REMOVED_USER"), BadState("MASTER_SETTLE"), BadState("RETAINED_MASTER"),
     BadState("CANONICAL_MASTER"), BadState("SAVED_USER"), BadState("EMPTY_REPROVISION"),
     <<"CLIENT_VERSION", "SELECTION_FAILED">>, <<"RECLIENT_VERSION", "SELECTION_FAILED">>,
     <<"EMPTY_REPROVISION_CLIENT", "SELECTION_FAILED">>}

LEMMA NameSets ==
    /\ PaidNames \subseteq Names /\ FreeNames \subseteq Names /\ BadNames \subseteq Names
    /\ PaidNames \subseteq Paid /\ FreeNames \cap Paid = {}
    /\ Proven("SAVED_USER") \notin PaidNames \cup BadNames
<1>1. PaidNames \subseteq Names /\ FreeNames \subseteq Names /\ BadNames \subseteq Names
  BY SMT DEF PaidNames, FreeNames, BadNames, Names, Steps, Outcomes, Commands, Intent, Accepted,
             Unknown, Rejected, BadState, Proven, Prepared, Selected, Ready, Settled,
             RecoveryComplete, EmptyComplete, PersistenceProven
<1>2. PaidNames \subseteq Paid /\ FreeNames \cap Paid = {}
  BY SMT DEF PaidNames, FreeNames, Paid, GenerationChanging, Intent, Accepted, Unknown, Rejected,
             BadState, Proven, Prepared, Selected, Ready, Settled, RecoveryComplete, EmptyComplete,
             PersistenceProven
<1>3. Proven("SAVED_USER") \notin PaidNames \cup BadNames
  BY SMT DEF PaidNames, BadNames, Intent, Accepted, Unknown, Rejected, BadState, Proven, Prepared,
             Selected, Ready, Settled, RecoveryComplete, EmptyComplete, PersistenceProven
<1> QED BY <1>1, <1>2, <1>3, Zenon

\* A command sent, or a record made, at a milestone of the chain.
LEMMA AtSend ==
    ASSUME RecoveryInv, NEW m, NEW c \in Commands, NEW client \in BOOLEAN,
           At(m), m \in PaidNames \/ c \in Loads, Follows(m, Intent(c)), Send(c, client)
    PROVE  \E d \in Commands : Sending(d)
<1>1. SepOK /\ BoundsOK /\ run.pc = "chain" /\ Milestone(journal) = m
  BY RecoveryParts, Zenon DEF RecoveryInv, At
<1>2. ~run.loss => c \in Loads
  BY NameSets, Zenon DEF RecoveryInv, ConsentInv, At
<1> QED BY <1>1, <1>2, SendShape, Zenon

LEMMA AtRecord ==
    ASSUME RecoveryInv, NEW m, NEW n \in PaidNames \cup FreeNames, At(m),
           m \in PaidNames \/ n \in FreeNames, Follows(m, n), Evidence(n),
           Same, Record(n) \/ RecordSurface(n), 
           \/ UNCHANGED run
           \/ run' = [run EXCEPT !.client = TRUE]
           \/ run' = Off
    PROVE  \E r \in Entry : Recording(r)
<1>1. SepOK /\ BoundsOK /\ run.pc = "chain" /\ Milestone(journal) = m
  BY RecoveryParts, Zenon DEF RecoveryInv, At
<1>2. ~run.loss => n \notin Paid
  BY NameSets, Zenon DEF RecoveryInv, ConsentInv, At
<1>3. n \in Names
  BY NameSets, Zenon
<1> QED BY <1>1, <1>2, <1>3, RecordShape, Zenon

LEMMA BadEvidence ==
    ASSUME NEW n \in BadNames
    PROVE  Evidence(n)
<1>1. Proven("SAVED_USER") \notin BadNames /\ PersistenceProven \notin BadNames
  BY SMT DEF BadNames, Proven, BadState, PersistenceProven
<1>2. Proven("COLD_SURFACE") \notin BadNames /\ Proven("CANONICAL_COLD_SURFACE") \notin BadNames
  BY SMT DEF BadNames, Proven, BadState
<1> QED BY <1>1, <1>2, Zenon DEF Evidence, ColdNames

LEMMA AtFailure ==
    ASSUME RecoveryInv, NEW m, NEW n \in BadNames, At(m), Follows(m, n), Same, Record(n), run' = Off
    PROVE  \E r \in Entry : Recording(r)
<1>1. SepOK /\ BoundsOK /\ run.pc = "chain" /\ Milestone(journal) = m
  BY RecoveryParts, Zenon DEF RecoveryInv, At
<1>2. n \in Names /\ Evidence(n)
  BY NameSets, BadEvidence, Zenon
<1> QED BY <1>1, <1>2, RecordShape, Zenon

LEMMA AtReadback ==
    ASSUME RecoveryInv, NEW m, NEW surfaces, NEW good \in PaidNames \cup FreeNames,
           NEW bad \in PaidNames \cup FreeNames \cup BadNames, At(m),
           Follows(m, good), Evidence(good), Follows(m, bad), Evidence(bad),
           m \in PaidNames \/ good \in FreeNames, Readback(surfaces, good, bad)
    PROVE  \E r \in Entry : Recording(r)
<1>1. SepOK /\ BoundsOK /\ run.pc = "chain" /\ Milestone(journal) = m
  BY RecoveryParts, Zenon DEF RecoveryInv, At
<1>2. ~run.loss => good \notin Paid
  BY NameSets, Zenon DEF RecoveryInv, ConsentInv, At
<1>3. good \in Names /\ bad \in Names
  BY NameSets, Zenon
<1> QED BY <1>1, <1>2, <1>3, ReadbackShape, Zenon

ChainStep == (\E c \in Commands : Sending(c)) \/ (\E r \in Entry : Recording(r))

\* Every action that sends a command is a sending.
LEMMA SendActions ==
    ASSUME RecoveryInv,
           \/ prepare_missing_components \/ reprepare_missing_components \/
              prepare_empty_reprovision \/ remove_loaded_empty_user \/ settle_removed_master \/
              load_canonical_master \/ load_canonical_user \/ restore_saved_user
    PROVE  ChainStep
<1>c. run.client \in BOOLEAN
  <2>1. RunOK
    BY RecoveryParts, Zenon DEF RecoveryInv
  <2> QED BY <2>1 DEF RunOK
<1>1. CASE prepare_missing_components
  <2>1. ASSUME At(Proven("BASELINE")), Send("PREPARE_MASTER", FALSE) PROVE ChainStep
    <3>1. "PREPARE_MASTER" \in Commands /\ Proven("BASELINE") \in PaidNames
      BY Zenon DEF Commands, PaidNames
    <3>2. Follows(Proven("BASELINE"), Intent("PREPARE_MASTER"))
      BY SMT DEF Follows, EmptyTail, ColdNames, Intent, Unknown, Proven, Accepted, Rejected,
                 BadState, Prepared, Selected, Settled, Ready, RecoveryComplete, EmptyComplete,
                 PersistenceProven
    <3> QED BY <2>1, <3>1, <3>2, <1>c, AtSend, Zenon DEF ChainStep
  <2>2. ASSUME At(Accepted("PREPARE_MASTER")), Send("PREPARE_USER", FALSE) PROVE ChainStep
    <3>1. "PREPARE_USER" \in Commands /\ Accepted("PREPARE_MASTER") \in PaidNames
      BY Zenon DEF Commands, PaidNames
    <3>2. Follows(Accepted("PREPARE_MASTER"), Intent("PREPARE_USER"))
      BY SMT DEF Follows, EmptyTail, ColdNames, Intent, Unknown, Proven, Accepted, Rejected,
                 BadState, Prepared, Selected, Settled, Ready, RecoveryComplete, EmptyComplete,
                 PersistenceProven
    <3> QED BY <2>2, <3>1, <3>2, <1>c, AtSend, Zenon DEF ChainStep
  <2> QED BY <1>1, <2>1, <2>2, Zenon DEF prepare_missing_components
<1>2. CASE reprepare_missing_components
  <2>1. ASSUME At(Settled), Send("REPREPARE_MASTER", FALSE) PROVE ChainStep
    <3>1. "REPREPARE_MASTER" \in Commands /\ Settled \in PaidNames
      BY Zenon DEF Commands, PaidNames
    <3>2. Follows(Settled, Intent("REPREPARE_MASTER"))
      BY SMT DEF Follows, EmptyTail, ColdNames, Intent, Unknown, Proven, Accepted, Rejected,
                 BadState, Prepared, Selected, Settled, Ready, RecoveryComplete, EmptyComplete,
                 PersistenceProven
    <3> QED BY <2>1, <3>1, <3>2, <1>c, AtSend, Zenon DEF ChainStep
  <2>2. ASSUME At(Accepted("REPREPARE_MASTER")), Send("REPREPARE_USER", FALSE) PROVE ChainStep
    <3>1. "REPREPARE_USER" \in Commands /\ Accepted("REPREPARE_MASTER") \in PaidNames
      BY Zenon DEF Commands, PaidNames
    <3>2. Follows(Accepted("REPREPARE_MASTER"), Intent("REPREPARE_USER"))
      BY SMT DEF Follows, EmptyTail, ColdNames, Intent, Unknown, Proven, Accepted, Rejected,
                 BadState, Prepared, Selected, Settled, Ready, RecoveryComplete, EmptyComplete,
                 PersistenceProven
    <3> QED BY <2>2, <3>1, <3>2, <1>c, AtSend, Zenon DEF ChainStep
  <2> QED BY <1>2, <2>1, <2>2, Zenon DEF reprepare_missing_components
<1>3. CASE prepare_empty_reprovision
  <2>1. ASSUME At(Proven("EMPTY_REPROVISION_SURFACE")), Send("EMPTY_REPROVISION_MASTER", FALSE) PROVE ChainStep
    <3>1. "EMPTY_REPROVISION_MASTER" \in Commands /\ Proven("EMPTY_REPROVISION_SURFACE") \in PaidNames
      BY Zenon DEF Commands, PaidNames
    <3>2. Follows(Proven("EMPTY_REPROVISION_SURFACE"), Intent("EMPTY_REPROVISION_MASTER"))
      BY SMT DEF Follows, EmptyTail, ColdNames, Intent, Unknown, Proven, Accepted, Rejected,
                 BadState, Prepared, Selected, Settled, Ready, RecoveryComplete, EmptyComplete,
                 PersistenceProven
    <3> QED BY <2>1, <3>1, <3>2, <1>c, AtSend, Zenon DEF ChainStep
  <2>2. ASSUME At(Accepted("EMPTY_REPROVISION_MASTER")), Send("EMPTY_REPROVISION_USER", FALSE) PROVE ChainStep
    <3>1. "EMPTY_REPROVISION_USER" \in Commands /\ Accepted("EMPTY_REPROVISION_MASTER") \in PaidNames
      BY Zenon DEF Commands, PaidNames
    <3>2. Follows(Accepted("EMPTY_REPROVISION_MASTER"), Intent("EMPTY_REPROVISION_USER"))
      BY SMT DEF Follows, EmptyTail, ColdNames, Intent, Unknown, Proven, Accepted, Rejected,
                 BadState, Prepared, Selected, Settled, Ready, RecoveryComplete, EmptyComplete,
                 PersistenceProven
    <3> QED BY <2>2, <3>1, <3>2, <1>c, AtSend, Zenon DEF ChainStep
  <2> QED BY <1>3, <2>1, <2>2, Zenon DEF prepare_empty_reprovision
<1>4. CASE remove_loaded_empty_user
  <2>1. ASSUME At(Proven("LOADED_EMPTY_USER")), Send("REMOVE_EMPTY_USER", run.client) PROVE ChainStep
    <3>1. "REMOVE_EMPTY_USER" \in Commands /\ Proven("LOADED_EMPTY_USER") \in PaidNames
      BY Zenon DEF Commands, PaidNames
    <3>2. Follows(Proven("LOADED_EMPTY_USER"), Intent("REMOVE_EMPTY_USER"))
      BY SMT DEF Follows, EmptyTail, ColdNames, Intent, Unknown, Proven, Accepted, Rejected,
                 BadState, Prepared, Selected, Settled, Ready, RecoveryComplete, EmptyComplete,
                 PersistenceProven
    <3> QED BY <2>1, <3>1, <3>2, <1>c, AtSend, Zenon DEF ChainStep
  <2> QED BY <1>4, <2>1, Zenon DEF remove_loaded_empty_user
<1>5. CASE settle_removed_master
  <2>1. ASSUME At(Proven("REMOVED_USER")), Send("MASTER_EXPORT_PREPARE", run.client) PROVE ChainStep
    <3>1. "MASTER_EXPORT_PREPARE" \in Commands /\ Proven("REMOVED_USER") \in PaidNames
      BY Zenon DEF Commands, PaidNames
    <3>2. Follows(Proven("REMOVED_USER"), Intent("MASTER_EXPORT_PREPARE"))
      BY SMT DEF Follows, EmptyTail, ColdNames, Intent, Unknown, Proven, Accepted, Rejected,
                 BadState, Prepared, Selected, Settled, Ready, RecoveryComplete, EmptyComplete,
                 PersistenceProven
    <3> QED BY <2>1, <3>1, <3>2, <1>c, AtSend, Zenon DEF ChainStep
  <2>2. ASSUME At(<<"MASTER_EXPORT", "PREPARED">>), Send("MASTER_EXPORT_COMPLETE", run.client) PROVE ChainStep
    <3>1. "MASTER_EXPORT_COMPLETE" \in Commands /\ <<"MASTER_EXPORT", "PREPARED">> \in PaidNames
      BY Zenon DEF Commands, PaidNames
    <3>2. Follows(<<"MASTER_EXPORT", "PREPARED">>, Intent("MASTER_EXPORT_COMPLETE"))
      BY SMT DEF Follows, EmptyTail, ColdNames, Intent, Unknown, Proven, Accepted, Rejected,
                 BadState, Prepared, Selected, Settled, Ready, RecoveryComplete, EmptyComplete,
                 PersistenceProven
    <3> QED BY <2>2, <3>1, <3>2, <1>c, AtSend, Zenon DEF ChainStep
  <2>3. ASSUME At(<<"MASTER_EXPORT", "CAPTURED">>), Send("MASTER_EXPORT_CONFIRM", run.client) PROVE ChainStep
    <3>1. "MASTER_EXPORT_CONFIRM" \in Commands /\ <<"MASTER_EXPORT", "CAPTURED">> \in PaidNames
      BY Zenon DEF Commands, PaidNames
    <3>2. Follows(<<"MASTER_EXPORT", "CAPTURED">>, Intent("MASTER_EXPORT_CONFIRM"))
      BY SMT DEF Follows, EmptyTail, ColdNames, Intent, Unknown, Proven, Accepted, Rejected,
                 BadState, Prepared, Selected, Settled, Ready, RecoveryComplete, EmptyComplete,
                 PersistenceProven
    <3> QED BY <2>3, <3>1, <3>2, <1>c, AtSend, Zenon DEF ChainStep
  <2> QED BY <1>5, <2>1, <2>2, <2>3, Zenon DEF settle_removed_master
<1>6. CASE load_canonical_master
  <2>1. ASSUME At(Proven("COLD_SURFACE")), Send("CANONICAL_MASTER_LOAD", run.client) PROVE ChainStep
    <3>1. "CANONICAL_MASTER_LOAD" \in Commands /\ "CANONICAL_MASTER_LOAD" \in Loads
      BY Zenon DEF Commands, Loads
    <3>2. Follows(Proven("COLD_SURFACE"), Intent("CANONICAL_MASTER_LOAD"))
      BY SMT DEF Follows, EmptyTail, ColdNames, Intent, Unknown, Proven, Accepted, Rejected,
                 BadState, Prepared, Selected, Settled, Ready, RecoveryComplete, EmptyComplete,
                 PersistenceProven
    <3> QED BY <2>1, <3>1, <3>2, <1>c, AtSend, Zenon DEF ChainStep
  <2>2. ASSUME At(Proven("CANONICAL_COLD_SURFACE")), Send("CANONICAL_MASTER_LOAD", run.client) PROVE ChainStep
    <3>1. "CANONICAL_MASTER_LOAD" \in Commands /\ "CANONICAL_MASTER_LOAD" \in Loads
      BY Zenon DEF Commands, Loads
    <3>2. Follows(Proven("CANONICAL_COLD_SURFACE"), Intent("CANONICAL_MASTER_LOAD"))
      BY SMT DEF Follows, EmptyTail, ColdNames, Intent, Unknown, Proven, Accepted, Rejected,
                 BadState, Prepared, Selected, Settled, Ready, RecoveryComplete, EmptyComplete,
                 PersistenceProven
    <3> QED BY <2>2, <3>1, <3>2, <1>c, AtSend, Zenon DEF ChainStep
  <2> QED BY <1>6, <2>1, <2>2, Zenon DEF load_canonical_master
<1>7. CASE load_canonical_user
  <2>1. ASSUME At(Proven("CANONICAL_MASTER")), Send("CANONICAL_USER_LOAD", run.client) PROVE ChainStep
    <3>1. "CANONICAL_USER_LOAD" \in Commands /\ "CANONICAL_USER_LOAD" \in Loads
      BY Zenon DEF Commands, Loads
    <3>2. Follows(Proven("CANONICAL_MASTER"), Intent("CANONICAL_USER_LOAD"))
      BY SMT DEF Follows, EmptyTail, ColdNames, Intent, Unknown, Proven, Accepted, Rejected,
                 BadState, Prepared, Selected, Settled, Ready, RecoveryComplete, EmptyComplete,
                 PersistenceProven
    <3> QED BY <2>1, <3>1, <3>2, <1>c, AtSend, Zenon DEF ChainStep
  <2> QED BY <1>7, <2>1, Zenon DEF load_canonical_user
<1>8. CASE restore_saved_user
  <2>1. ASSUME At(Proven("MISSING_COMPONENTS")), Send("SAVED_USER_LOAD", run.client) PROVE ChainStep
    <3>1. "SAVED_USER_LOAD" \in Commands /\ "SAVED_USER_LOAD" \in Loads
      BY Zenon DEF Commands, Loads
    <3>2. Follows(Proven("MISSING_COMPONENTS"), Intent("SAVED_USER_LOAD"))
      BY SMT DEF Follows, EmptyTail, ColdNames, Intent, Unknown, Proven, Accepted, Rejected,
                 BadState, Prepared, Selected, Settled, Ready, RecoveryComplete, EmptyComplete,
                 PersistenceProven
    <3> QED BY <2>1, <3>1, <3>2, <1>c, AtSend, Zenon DEF ChainStep
  <2> QED BY <1>8, <2>1, Zenon DEF restore_saved_user
<1> QED BY <1>1, <1>2, <1>3, <1>4, <1>5, <1>6, <1>7, <1>8, Zenon

\* Every readback is a recording.
LEMMA ReadbackActions ==
    ASSUME RecoveryInv,
           \/ reconcile_missing_components \/ reconcile_reprepared_components \/
              reconcile_removed_user \/ reconcile_settled_master \/ reconcile_cold_master \/
              reconcile_canonical_master
    PROVE  ChainStep
<1>1. CASE reconcile_missing_components
  <2>1. /\ At(Selected("CLIENT_VERSION"))
        /\ Readback(Admitted, Proven("MISSING_COMPONENTS"), BadState("MISSING_COMPONENTS"))
    BY <1>1, Zenon DEF reconcile_missing_components
  <2>2. /\ Proven("MISSING_COMPONENTS") \in FreeNames /\ BadState("MISSING_COMPONENTS") \in PaidNames
        /\ Proven("MISSING_COMPONENTS") \in FreeNames
    BY Zenon DEF PaidNames, FreeNames, BadNames
  <2>3. Follows(Selected("CLIENT_VERSION"), Proven("MISSING_COMPONENTS"))
    BY SMT DEF Follows, EmptyTail, ColdNames, Intent, Unknown, Proven, Accepted, Rejected, BadState,
               Prepared, Selected, Settled, Ready, RecoveryComplete, EmptyComplete,
               PersistenceProven
  <2>4. Follows(Selected("CLIENT_VERSION"), BadState("MISSING_COMPONENTS"))
    BY SMT DEF Follows, EmptyTail, ColdNames, Intent, Unknown, Proven, Accepted, Rejected, BadState,
               Prepared, Selected, Settled, Ready, RecoveryComplete, EmptyComplete,
               PersistenceProven
  <2>5. Evidence(Proven("MISSING_COMPONENTS")) /\ Evidence(BadState("MISSING_COMPONENTS"))
    BY SMT DEF Evidence, ColdNames, Intent, Proven, BadState, Prepared, Selected, Settled,
               RecoveryComplete, EmptyComplete, PersistenceProven
  <2> QED BY <2>1, <2>2, <2>3, <2>4, <2>5, AtReadback, Zenon DEF ChainStep
<1>2. CASE reconcile_reprepared_components
  <2>1. /\ At(Selected("RECLIENT_VERSION"))
        /\ Readback({3} \X {1, 5}, Proven("MISSING_COMPONENTS"), BadState("REPREPARED_COMPONENTS"))
    BY <1>2, Zenon DEF reconcile_reprepared_components
  <2>2. /\ Proven("MISSING_COMPONENTS") \in FreeNames /\ BadState("REPREPARED_COMPONENTS") \in FreeNames
        /\ Proven("MISSING_COMPONENTS") \in FreeNames
    BY Zenon DEF PaidNames, FreeNames, BadNames
  <2>3. Follows(Selected("RECLIENT_VERSION"), Proven("MISSING_COMPONENTS"))
    BY SMT DEF Follows, EmptyTail, ColdNames, Intent, Unknown, Proven, Accepted, Rejected, BadState,
               Prepared, Selected, Settled, Ready, RecoveryComplete, EmptyComplete,
               PersistenceProven
  <2>4. Follows(Selected("RECLIENT_VERSION"), BadState("REPREPARED_COMPONENTS"))
    BY SMT DEF Follows, EmptyTail, ColdNames, Intent, Unknown, Proven, Accepted, Rejected, BadState,
               Prepared, Selected, Settled, Ready, RecoveryComplete, EmptyComplete,
               PersistenceProven
  <2>5. Evidence(Proven("MISSING_COMPONENTS")) /\ Evidence(BadState("REPREPARED_COMPONENTS"))
    BY SMT DEF Evidence, ColdNames, Intent, Proven, BadState, Prepared, Selected, Settled,
               RecoveryComplete, EmptyComplete, PersistenceProven
  <2> QED BY <2>1, <2>2, <2>3, <2>4, <2>5, AtReadback, Zenon DEF ChainStep
<1>3. CASE reconcile_removed_user
  <2>1. /\ At(Accepted("REMOVE_EMPTY_USER"))
        /\ Readback({<<7, 0>>}, Proven("REMOVED_USER"), BadState("REMOVED_USER"))
    BY <1>3, Zenon DEF reconcile_removed_user
  <2>2. /\ Proven("REMOVED_USER") \in PaidNames /\ BadState("REMOVED_USER") \in BadNames
        /\ Accepted("REMOVE_EMPTY_USER") \in PaidNames
    BY Zenon DEF PaidNames, FreeNames, BadNames
  <2>3. Follows(Accepted("REMOVE_EMPTY_USER"), Proven("REMOVED_USER"))
    BY SMT DEF Follows, EmptyTail, ColdNames, Intent, Unknown, Proven, Accepted, Rejected, BadState,
               Prepared, Selected, Settled, Ready, RecoveryComplete, EmptyComplete,
               PersistenceProven
  <2>4. Follows(Accepted("REMOVE_EMPTY_USER"), BadState("REMOVED_USER"))
    BY SMT DEF Follows, EmptyTail, ColdNames, Intent, Unknown, Proven, Accepted, Rejected, BadState,
               Prepared, Selected, Settled, Ready, RecoveryComplete, EmptyComplete,
               PersistenceProven
  <2>5. Evidence(Proven("REMOVED_USER")) /\ Evidence(BadState("REMOVED_USER"))
    BY SMT DEF Evidence, ColdNames, Intent, Proven, BadState, Prepared, Selected, Settled,
               RecoveryComplete, EmptyComplete, PersistenceProven
  <2> QED BY <2>1, <2>2, <2>3, <2>4, <2>5, AtReadback, Zenon DEF ChainStep
<1>4. CASE reconcile_settled_master
  <2>1. /\ At(<<"MASTER_EXPORT", "CONFIRMED">>)
        /\ Readback({<<3, 0>>}, Settled, BadState("MASTER_SETTLE"))
    BY <1>4, Zenon DEF reconcile_settled_master
  <2>2. /\ Settled \in PaidNames /\ BadState("MASTER_SETTLE") \in BadNames
        /\ <<"MASTER_EXPORT", "CONFIRMED">> \in PaidNames
    BY Zenon DEF PaidNames, FreeNames, BadNames
  <2>3. Follows(<<"MASTER_EXPORT", "CONFIRMED">>, Settled)
    BY SMT DEF Follows, EmptyTail, ColdNames, Intent, Unknown, Proven, Accepted, Rejected, BadState,
               Prepared, Selected, Settled, Ready, RecoveryComplete, EmptyComplete,
               PersistenceProven
  <2>4. Follows(<<"MASTER_EXPORT", "CONFIRMED">>, BadState("MASTER_SETTLE"))
    BY SMT DEF Follows, EmptyTail, ColdNames, Intent, Unknown, Proven, Accepted, Rejected, BadState,
               Prepared, Selected, Settled, Ready, RecoveryComplete, EmptyComplete,
               PersistenceProven
  <2>5. Evidence(Settled) /\ Evidence(BadState("MASTER_SETTLE"))
    BY SMT DEF Evidence, ColdNames, Intent, Proven, BadState, Prepared, Selected, Settled,
               RecoveryComplete, EmptyComplete, PersistenceProven
  <2> QED BY <2>1, <2>2, <2>3, <2>4, <2>5, AtReadback, Zenon DEF ChainStep
<1>5. CASE reconcile_cold_master
  <2>1. /\ At(Accepted("RETAINED_MASTER_LOAD"))
        /\ Readback({<<3, 0>>, <<3, 1>>}, Proven("COLD_MASTER"), BadState("RETAINED_MASTER"))
    BY <1>5, Zenon DEF reconcile_cold_master
  <2>2. /\ Proven("COLD_MASTER") \in FreeNames /\ BadState("RETAINED_MASTER") \in BadNames
        /\ Proven("COLD_MASTER") \in FreeNames
    BY Zenon DEF PaidNames, FreeNames, BadNames
  <2>3. Follows(Accepted("RETAINED_MASTER_LOAD"), Proven("COLD_MASTER"))
    BY SMT DEF Follows, EmptyTail, ColdNames, Intent, Unknown, Proven, Accepted, Rejected, BadState,
               Prepared, Selected, Settled, Ready, RecoveryComplete, EmptyComplete,
               PersistenceProven
  <2>4. Follows(Accepted("RETAINED_MASTER_LOAD"), BadState("RETAINED_MASTER"))
    BY SMT DEF Follows, EmptyTail, ColdNames, Intent, Unknown, Proven, Accepted, Rejected, BadState,
               Prepared, Selected, Settled, Ready, RecoveryComplete, EmptyComplete,
               PersistenceProven
  <2>5. Evidence(Proven("COLD_MASTER")) /\ Evidence(BadState("RETAINED_MASTER"))
    BY SMT DEF Evidence, ColdNames, Intent, Proven, BadState, Prepared, Selected, Settled,
               RecoveryComplete, EmptyComplete, PersistenceProven
  <2> QED BY <2>1, <2>2, <2>3, <2>4, <2>5, AtReadback, Zenon DEF ChainStep
<1>6. CASE reconcile_canonical_master
  <2>1. /\ At(Accepted("CANONICAL_MASTER_LOAD"))
        /\ Readback({<<3, 0>>, <<3, 1>>}, Proven("CANONICAL_MASTER"), BadState("CANONICAL_MASTER"))
    BY <1>6, Zenon DEF reconcile_canonical_master
  <2>2. /\ Proven("CANONICAL_MASTER") \in FreeNames /\ BadState("CANONICAL_MASTER") \in BadNames
        /\ Proven("CANONICAL_MASTER") \in FreeNames
    BY Zenon DEF PaidNames, FreeNames, BadNames
  <2>3. Follows(Accepted("CANONICAL_MASTER_LOAD"), Proven("CANONICAL_MASTER"))
    BY SMT DEF Follows, EmptyTail, ColdNames, Intent, Unknown, Proven, Accepted, Rejected, BadState,
               Prepared, Selected, Settled, Ready, RecoveryComplete, EmptyComplete,
               PersistenceProven
  <2>4. Follows(Accepted("CANONICAL_MASTER_LOAD"), BadState("CANONICAL_MASTER"))
    BY SMT DEF Follows, EmptyTail, ColdNames, Intent, Unknown, Proven, Accepted, Rejected, BadState,
               Prepared, Selected, Settled, Ready, RecoveryComplete, EmptyComplete,
               PersistenceProven
  <2>5. Evidence(Proven("CANONICAL_MASTER")) /\ Evidence(BadState("CANONICAL_MASTER"))
    BY SMT DEF Evidence, ColdNames, Intent, Proven, BadState, Prepared, Selected, Settled,
               RecoveryComplete, EmptyComplete, PersistenceProven
  <2> QED BY <2>1, <2>2, <2>3, <2>4, <2>5, AtReadback, Zenon DEF ChainStep
<1> QED BY <1>1, <1>2, <1>3, <1>4, <1>5, <1>6, Zenon

\* So is every other record of the chain.
LEMMA RecordActions ==
    ASSUME RecoveryInv,
           \/ reconcile_loaded_empty_user \/ reconcile_cold_surface \/
              reconcile_canonical_cold_surface \/ prepare_canonical_restart \/
              reconcile_incompatible_user_surface \/ reconcile_empty_catacombs \/
              complete_reconciled
    PROVE  ChainStep
<1>1. CASE reconcile_loaded_empty_user
  <2>1. ASSUME At(BadState("MISSING_COMPONENTS")), RecordSurface(Proven("LOADED_EMPTY_USER")),
             UNCHANGED run, Same
        PROVE  ChainStep
    <3>1. BadState("MISSING_COMPONENTS") \in PaidNames /\ Proven("LOADED_EMPTY_USER") \in PaidNames
      BY Zenon DEF PaidNames, FreeNames
    <3>2. Follows(BadState("MISSING_COMPONENTS"), Proven("LOADED_EMPTY_USER"))
      BY SMT DEF Follows, EmptyTail, ColdNames, Intent, Unknown, Proven, Accepted, Rejected,
                 BadState, Prepared, Selected, Settled, Ready, RecoveryComplete, EmptyComplete,
                 PersistenceProven
    <3>3. Evidence(Proven("LOADED_EMPTY_USER"))
      BY SMT DEF Evidence, ColdNames, Intent, Proven, BadState, Prepared, Selected, Settled,
                 RecoveryComplete, EmptyComplete, PersistenceProven
    <3> QED BY <2>1, <3>1, <3>2, <3>3, AtRecord, Zenon DEF ChainStep
  <2> QED BY <1>1, <2>1, Zenon DEF reconcile_loaded_empty_user
<1>2. CASE reconcile_cold_surface
  <2>1. ASSUME At(Prepared("COLD_RESTART")), RecordSurface(Proven("COLD_SURFACE")),
             UNCHANGED run, Same, sep.master = 1
        PROVE  ChainStep
    <3>1. Proven("COLD_SURFACE") \in FreeNames
      BY Zenon DEF PaidNames, FreeNames
    <3>2. Follows(Prepared("COLD_RESTART"), Proven("COLD_SURFACE"))
      BY SMT DEF Follows, EmptyTail, ColdNames, Intent, Unknown, Proven, Accepted, Rejected,
                 BadState, Prepared, Selected, Settled, Ready, RecoveryComplete, EmptyComplete,
                 PersistenceProven
    <3>3. Evidence(Proven("COLD_SURFACE"))
      BY <2>1, SMT DEF Evidence, ColdNames, Intent, Proven, BadState, Prepared, Selected, Settled,
                       RecoveryComplete, EmptyComplete, PersistenceProven
    <3> QED BY <2>1, <3>1, <3>2, <3>3, AtRecord, Zenon DEF ChainStep
  <2>2. sep.master = 1
    <3>1. Surface \in {<<1, 0>>, <<1, 1>>}
      BY <1>2, Zenon DEF reconcile_cold_surface, ColdSurface, Empty
    <3> QED BY <3>1 DEF Surface
  <2> QED BY <1>2, <2>1, <2>2, Zenon DEF reconcile_cold_surface
<1>3. CASE reconcile_canonical_cold_surface
  <2>1. ASSUME At(Prepared("CANONICAL_RESTART")), RecordSurface(Proven("CANONICAL_COLD_SURFACE")),
             UNCHANGED run, Same, sep.master = 1
        PROVE  ChainStep
    <3>1. Proven("CANONICAL_COLD_SURFACE") \in FreeNames
      BY Zenon DEF PaidNames, FreeNames
    <3>2. Follows(Prepared("CANONICAL_RESTART"), Proven("CANONICAL_COLD_SURFACE"))
      BY SMT DEF Follows, EmptyTail, ColdNames, Intent, Unknown, Proven, Accepted, Rejected,
                 BadState, Prepared, Selected, Settled, Ready, RecoveryComplete, EmptyComplete,
                 PersistenceProven
    <3>3. Evidence(Proven("CANONICAL_COLD_SURFACE"))
      BY <2>1, SMT DEF Evidence, ColdNames, Intent, Proven, BadState, Prepared, Selected, Settled,
                       RecoveryComplete, EmptyComplete, PersistenceProven
    <3> QED BY <2>1, <3>1, <3>2, <3>3, AtRecord, Zenon DEF ChainStep
  <2>2. sep.master = 1
    <3>1. Surface \in {<<1, 0>>, <<1, 1>>}
      BY <1>3, Zenon DEF reconcile_canonical_cold_surface, ColdSurface, Empty
    <3> QED BY <3>1 DEF Surface
  <2> QED BY <1>3, <2>1, <2>2, Zenon DEF reconcile_canonical_cold_surface
<1>4. CASE prepare_canonical_restart
  <2>1. ASSUME At(Proven("COLD_MASTER")), Record(Prepared("CANONICAL_RESTART")), UNCHANGED run, Same
        PROVE  ChainStep
    <3>1. Prepared("CANONICAL_RESTART") \in FreeNames
      BY Zenon DEF PaidNames, FreeNames
    <3>2. Follows(Proven("COLD_MASTER"), Prepared("CANONICAL_RESTART"))
      BY SMT DEF Follows, EmptyTail, ColdNames, Intent, Unknown, Proven, Accepted, Rejected,
                 BadState, Prepared, Selected, Settled, Ready, RecoveryComplete, EmptyComplete,
                 PersistenceProven
    <3>3. Evidence(Prepared("CANONICAL_RESTART"))
      BY SMT DEF Evidence, ColdNames, Intent, Proven, BadState, Prepared, Selected, Settled,
                 RecoveryComplete, EmptyComplete, PersistenceProven
    <3> QED BY <2>1, <3>1, <3>2, <3>3, AtRecord, Zenon DEF ChainStep
  <2>2. ASSUME At(Rejected("SAVED_USER_LOAD")), Record(Prepared("CANONICAL_RESTART")), UNCHANGED run, Same
        PROVE  ChainStep
    <3>1. Prepared("CANONICAL_RESTART") \in FreeNames
      BY Zenon DEF PaidNames, FreeNames
    <3>2. Follows(Rejected("SAVED_USER_LOAD"), Prepared("CANONICAL_RESTART"))
      BY SMT DEF Follows, EmptyTail, ColdNames, Intent, Unknown, Proven, Accepted, Rejected,
                 BadState, Prepared, Selected, Settled, Ready, RecoveryComplete, EmptyComplete,
                 PersistenceProven
    <3>3. Evidence(Prepared("CANONICAL_RESTART"))
      BY SMT DEF Evidence, ColdNames, Intent, Proven, BadState, Prepared, Selected, Settled,
                 RecoveryComplete, EmptyComplete, PersistenceProven
    <3> QED BY <2>2, <3>1, <3>2, <3>3, AtRecord, Zenon DEF ChainStep
  <2> QED BY <1>4, <2>1, <2>2, Zenon DEF prepare_canonical_restart
<1>5. CASE reconcile_incompatible_user_surface
  <2>1. ASSUME At(Rejected("CANONICAL_USER_LOAD")), RecordSurface(Proven("EMPTY_REPROVISION_SURFACE")),
             UNCHANGED run, Same
        PROVE  ChainStep
    <3>1. Rejected("CANONICAL_USER_LOAD") \in PaidNames /\ Proven("EMPTY_REPROVISION_SURFACE") \in PaidNames
      BY Zenon DEF PaidNames, FreeNames
    <3>2. Follows(Rejected("CANONICAL_USER_LOAD"), Proven("EMPTY_REPROVISION_SURFACE"))
      BY SMT DEF Follows, EmptyTail, ColdNames, Intent, Unknown, Proven, Accepted, Rejected,
                 BadState, Prepared, Selected, Settled, Ready, RecoveryComplete, EmptyComplete,
                 PersistenceProven
    <3>3. Evidence(Proven("EMPTY_REPROVISION_SURFACE"))
      BY SMT DEF Evidence, ColdNames, Intent, Proven, BadState, Prepared, Selected, Settled,
                 RecoveryComplete, EmptyComplete, PersistenceProven
    <3> QED BY <2>1, <3>1, <3>2, <3>3, AtRecord, Zenon DEF ChainStep
  <2> QED BY <1>5, <2>1, Zenon DEF reconcile_incompatible_user_surface
<1>6. CASE reconcile_empty_catacombs
  <2>1. ASSUME At(Ready), Record(Proven("EMPTY_REPROVISION_CATACOMBS")), UNCHANGED run, Same
        PROVE  ChainStep
    <3>1. Proven("EMPTY_REPROVISION_CATACOMBS") \in FreeNames
      BY Zenon DEF PaidNames, FreeNames
    <3>2. Follows(Ready, Proven("EMPTY_REPROVISION_CATACOMBS"))
      BY SMT DEF Follows, EmptyTail, ColdNames, Intent, Unknown, Proven, Accepted, Rejected,
                 BadState, Prepared, Selected, Settled, Ready, RecoveryComplete, EmptyComplete,
                 PersistenceProven
    <3>3. Evidence(Proven("EMPTY_REPROVISION_CATACOMBS"))
      BY SMT DEF Evidence, ColdNames, Intent, Proven, BadState, Prepared, Selected, Settled,
                 RecoveryComplete, EmptyComplete, PersistenceProven
    <3> QED BY <2>1, <3>1, <3>2, <3>3, AtRecord, Zenon DEF ChainStep
  <2> QED BY <1>6, <2>1, Zenon DEF reconcile_empty_catacombs
<1>7. CASE complete_reconciled
  <2>1. ASSUME At(Proven("BIOLOCKOUT")), Record(RecoveryComplete), run' = Off, Same
        PROVE  ChainStep
    <3>1. RecoveryComplete \in FreeNames
      BY Zenon DEF PaidNames, FreeNames
    <3>2. Follows(Proven("BIOLOCKOUT"), RecoveryComplete)
      BY SMT DEF Follows, EmptyTail, ColdNames, Intent, Unknown, Proven, Accepted, Rejected,
                 BadState, Prepared, Selected, Settled, Ready, RecoveryComplete, EmptyComplete,
                 PersistenceProven
    <3>3. Evidence(RecoveryComplete)
      BY SMT DEF Evidence, ColdNames, Intent, Proven, BadState, Prepared, Selected, Settled,
                 RecoveryComplete, EmptyComplete, PersistenceProven
    <3> QED BY <2>1, <3>1, <3>2, <3>3, AtRecord, Zenon DEF ChainStep
  <2>2. ASSUME At(Proven("EMPTY_REPROVISION_BIOLOCKOUT")), Record(EmptyComplete), run' = Off, Same
        PROVE  ChainStep
    <3>1. EmptyComplete \in FreeNames
      BY Zenon DEF PaidNames, FreeNames
    <3>2. Follows(Proven("EMPTY_REPROVISION_BIOLOCKOUT"), EmptyComplete)
      BY SMT DEF Follows, EmptyTail, ColdNames, Intent, Unknown, Proven, Accepted, Rejected,
                 BadState, Prepared, Selected, Settled, Ready, RecoveryComplete, EmptyComplete,
                 PersistenceProven
    <3>3. Evidence(EmptyComplete)
      BY SMT DEF Evidence, ColdNames, Intent, Proven, BadState, Prepared, Selected, Settled,
                 RecoveryComplete, EmptyComplete, PersistenceProven
    <3> QED BY <2>2, <3>1, <3>2, <3>3, AtRecord, Zenon DEF ChainStep
  <2> QED BY <1>7, <2>1, <2>2, Zenon DEF complete_reconciled
<1> QED BY <1>1, <1>2, <1>3, <1>4, <1>5, <1>6, <1>7, Zenon

\* The selection of the client version, the check of the loaded user, and the proof of its archive.
LEMMA SelectActions ==
    ASSUME RecoveryInv, ClientSelected
    PROVE  ChainStep
<1>1. CASE SelectClient("PREPARE_USER", "CLIENT_VERSION")
  <2>1. CASE Record(Selected("CLIENT_VERSION")) /\ run' = [run EXCEPT !.client = TRUE]
    <3>1. Selected("CLIENT_VERSION") \in FreeNames
      BY Zenon DEF PaidNames, FreeNames
    <3>2. Evidence(Selected("CLIENT_VERSION"))
      BY SMT DEF Evidence, ColdNames, Intent, Proven, BadState, Prepared, Selected, Settled,
                 RecoveryComplete, EmptyComplete, PersistenceProven
    <3>3. At(Accepted("PREPARE_USER")) /\ Same
      BY <1>1, Zenon DEF SelectClient
    <3>4. Follows(Accepted("PREPARE_USER"), Selected("CLIENT_VERSION"))
      BY SMT DEF Follows, EmptyTail, ColdNames, Intent, Unknown, Proven, Accepted, Rejected,
                 BadState, Prepared, Selected, Settled, Ready, RecoveryComplete, EmptyComplete,
                 PersistenceProven
    <3> QED BY <2>1, <3>1, <3>2, <3>3, <3>4, AtRecord, Zenon DEF ChainStep
  <2>2. CASE Record(<<"CLIENT_VERSION", "SELECTION_FAILED">>) /\ run' = Off
    <3>1. <<"CLIENT_VERSION", "SELECTION_FAILED">> \in BadNames
      BY Zenon DEF BadNames
    <3>2. At(Accepted("PREPARE_USER")) /\ Same
      BY <1>1, Zenon DEF SelectClient
    <3>3. Follows(Accepted("PREPARE_USER"), <<"CLIENT_VERSION", "SELECTION_FAILED">>)
      BY SMT DEF Follows, EmptyTail, ColdNames, Intent, Unknown, Proven, Accepted, Rejected,
                 BadState, Prepared, Selected, Settled, Ready, RecoveryComplete, EmptyComplete,
                 PersistenceProven
    <3> QED BY <2>2, <3>1, <3>2, <3>3, AtFailure, Zenon DEF ChainStep
  <2> QED BY <1>1, <2>1, <2>2, Zenon DEF SelectClient
<1>2. CASE SelectClient("REPREPARE_USER", "RECLIENT_VERSION")
  <2>1. CASE Record(Selected("RECLIENT_VERSION")) /\ run' = [run EXCEPT !.client = TRUE]
    <3>1. Selected("RECLIENT_VERSION") \in FreeNames
      BY Zenon DEF PaidNames, FreeNames
    <3>2. Evidence(Selected("RECLIENT_VERSION"))
      BY SMT DEF Evidence, ColdNames, Intent, Proven, BadState, Prepared, Selected, Settled,
                 RecoveryComplete, EmptyComplete, PersistenceProven
    <3>3. At(Accepted("REPREPARE_USER")) /\ Same
      BY <1>2, Zenon DEF SelectClient
    <3>4. Follows(Accepted("REPREPARE_USER"), Selected("RECLIENT_VERSION"))
      BY SMT DEF Follows, EmptyTail, ColdNames, Intent, Unknown, Proven, Accepted, Rejected,
                 BadState, Prepared, Selected, Settled, Ready, RecoveryComplete, EmptyComplete,
                 PersistenceProven
    <3> QED BY <2>1, <3>1, <3>2, <3>3, <3>4, AtRecord, Zenon DEF ChainStep
  <2>2. CASE Record(<<"RECLIENT_VERSION", "SELECTION_FAILED">>) /\ run' = Off
    <3>1. <<"RECLIENT_VERSION", "SELECTION_FAILED">> \in BadNames
      BY Zenon DEF BadNames
    <3>2. At(Accepted("REPREPARE_USER")) /\ Same
      BY <1>2, Zenon DEF SelectClient
    <3>3. Follows(Accepted("REPREPARE_USER"), <<"RECLIENT_VERSION", "SELECTION_FAILED">>)
      BY SMT DEF Follows, EmptyTail, ColdNames, Intent, Unknown, Proven, Accepted, Rejected,
                 BadState, Prepared, Selected, Settled, Ready, RecoveryComplete, EmptyComplete,
                 PersistenceProven
    <3> QED BY <2>2, <3>1, <3>2, <3>3, AtFailure, Zenon DEF ChainStep
  <2> QED BY <1>2, <2>1, <2>2, Zenon DEF SelectClient
<1>3. CASE SelectClient("EMPTY_REPROVISION_USER", "EMPTY_REPROVISION_CLIENT")
  <2>1. CASE Record(Selected("EMPTY_REPROVISION_CLIENT")) /\ run' = [run EXCEPT !.client = TRUE]
    <3>1. Accepted("EMPTY_REPROVISION_USER") \in PaidNames /\ Selected("EMPTY_REPROVISION_CLIENT") \in PaidNames
      BY Zenon DEF PaidNames, FreeNames
    <3>2. Evidence(Selected("EMPTY_REPROVISION_CLIENT"))
      BY SMT DEF Evidence, ColdNames, Intent, Proven, BadState, Prepared, Selected, Settled,
                 RecoveryComplete, EmptyComplete, PersistenceProven
    <3>3. At(Accepted("EMPTY_REPROVISION_USER")) /\ Same
      BY <1>3, Zenon DEF SelectClient
    <3>4. Follows(Accepted("EMPTY_REPROVISION_USER"), Selected("EMPTY_REPROVISION_CLIENT"))
      BY SMT DEF Follows, EmptyTail, ColdNames, Intent, Unknown, Proven, Accepted, Rejected,
                 BadState, Prepared, Selected, Settled, Ready, RecoveryComplete, EmptyComplete,
                 PersistenceProven
    <3> QED BY <2>1, <3>1, <3>2, <3>3, <3>4, AtRecord, Zenon DEF ChainStep
  <2>2. CASE Record(<<"EMPTY_REPROVISION_CLIENT", "SELECTION_FAILED">>) /\ run' = Off
    <3>1. <<"EMPTY_REPROVISION_CLIENT", "SELECTION_FAILED">> \in BadNames
      BY Zenon DEF BadNames
    <3>2. At(Accepted("EMPTY_REPROVISION_USER")) /\ Same
      BY <1>3, Zenon DEF SelectClient
    <3>3. Follows(Accepted("EMPTY_REPROVISION_USER"), <<"EMPTY_REPROVISION_CLIENT", "SELECTION_FAILED">>)
      BY SMT DEF Follows, EmptyTail, ColdNames, Intent, Unknown, Proven, Accepted, Rejected,
                 BadState, Prepared, Selected, Settled, Ready, RecoveryComplete, EmptyComplete,
                 PersistenceProven
    <3> QED BY <2>2, <3>1, <3>2, <3>3, AtFailure, Zenon DEF ChainStep
  <2> QED BY <1>3, <2>1, <2>2, Zenon DEF SelectClient
<1> QED BY <1>1, <1>2, <1>3, Zenon DEF ClientSelected

LEMMA SavedActions ==
    ASSUME RecoveryInv, reconcile_saved_user \/ reconcile_catacomb_persistence
    PROVE  ChainStep
<1>1. CASE reconcile_saved_user
  <2>1. PICK m \in {Accepted("SAVED_USER_LOAD"), Accepted("CANONICAL_USER_LOAD")} : At(m)
    BY <1>1, Zenon DEF reconcile_saved_user
  <2>2. Proven("SAVED_USER") \in FreeNames /\ BadState("SAVED_USER") \in BadNames
    BY Zenon DEF FreeNames, BadNames
  <2>f. Follows(m, Proven("SAVED_USER")) /\ Follows(m, BadState("SAVED_USER"))
    <3>1. /\ Follows(Accepted("SAVED_USER_LOAD"), Proven("SAVED_USER"))
          /\ Follows(Accepted("SAVED_USER_LOAD"), BadState("SAVED_USER"))
      BY SMT DEF Follows, EmptyTail, ColdNames, Intent, Unknown, Proven, Accepted, Rejected,
                 BadState, Prepared, Selected, Settled, Ready, RecoveryComplete, EmptyComplete,
                 PersistenceProven
    <3>2. /\ Follows(Accepted("CANONICAL_USER_LOAD"), Proven("SAVED_USER"))
          /\ Follows(Accepted("CANONICAL_USER_LOAD"), BadState("SAVED_USER"))
      BY SMT DEF Follows, EmptyTail, ColdNames, Intent, Unknown, Proven, Accepted, Rejected,
                 BadState, Prepared, Selected, Settled, Ready, RecoveryComplete, EmptyComplete,
                 PersistenceProven
    <3> QED BY <2>1, <3>1, <3>2, Zenon
  <2>3. CASE Loaded
    <3>1. Record(Proven("SAVED_USER")) /\ UNCHANGED run /\ Same /\ sep.ids = host.ids
      BY <1>1, <2>3, Zenon DEF reconcile_saved_user, Loaded
    <3>2. Evidence(Proven("SAVED_USER"))
      BY <3>1, SMT DEF Evidence, ColdNames, Intent, Proven, BadState, Prepared, Selected, Settled,
                       RecoveryComplete, EmptyComplete, PersistenceProven
    <3> QED BY <2>1, <2>2, <2>f, <3>1, <3>2, AtRecord, Zenon DEF ChainStep
  <2>4. CASE ~Loaded
    <3>1. Record(BadState("SAVED_USER")) /\ run' = Off /\ Same
      BY <1>1, <2>4, Zenon DEF reconcile_saved_user
    <3> QED BY <2>1, <2>2, <2>f, <3>1, AtFailure, Zenon DEF ChainStep
  <2> QED BY <2>3, <2>4, Zenon
<1>2. CASE reconcile_catacomb_persistence
  <2> DEFINE r == WithArchive(PersistenceProven, host.ids, host.ver)
  <2>1. /\ run.pc = "chain" /\ journal' = Append(journal, r) /\ run' = run /\ sep.ids = host.ids
        /\ Surface = <<3, 3>> /\ Milestone(journal) = Intent("CATACOMB_PERSISTENCE")
        /\ UNCHANGED <<sep, host, ext, candidate, lockout, hold, boot, sent, recoveries>>
    BY <1>2, Zenon DEF reconcile_catacomb_persistence, At, Written, Same, Rest, WithArchive
  <2>2. SepOK /\ BoundsOK /\ HostOK
    BY RecoveryParts, Zenon DEF RecoveryInv
  <2>3. host.ids \in SUBSET Ids /\ host.ver \in Nat
    BY <2>2 DEF HostOK, Archive
  <2>4. PersistenceProven \in FreeNames
    BY Zenon DEF FreeNames
  <2>5. PersistenceProven \in Steps \X Outcomes /\ PersistenceProven \notin Paid
    BY <2>4, NameSets, Zenon DEF Names
  <2>6. r \in Entry /\ r.m = PersistenceProven
    BY <2>2, <2>3, <2>5, RecArchive, Zenon
  <2> HIDE DEF r
  <2>e. Evidence(PersistenceProven)
    <3>1. sep.user = 3
      BY <2>1 DEF Surface
    <3> QED BY <2>1, <3>1, SMT DEF Evidence, ColdNames, Intent, Proven, BadState, Prepared,
                                   Selected, Settled, RecoveryComplete, EmptyComplete,
                                   PersistenceProven
  <2>f. Follows(Intent("CATACOMB_PERSISTENCE"), PersistenceProven)
    BY SMT DEF Follows, EmptyTail, ColdNames, Intent, Unknown, Proven, Accepted, Rejected, BadState,
               Prepared, Selected, Settled, Ready, RecoveryComplete, EmptyComplete,
               PersistenceProven
  <2>7. Recording(r)
    BY <2>1, <2>5, <2>6, <2>e, <2>f, Zenon DEF Recording
  <2> QED BY <2>6, <2>7, Zenon DEF ChainStep
<1> QED BY <1>1, <1>2, Zenon

\* The two steps of the chain that leave it for a file or a save.
CandidateBegun ==
    /\ At(BadState("REPREPARED_COMPONENTS")) /\ candidate' = "torn"
    /\ run' = [run EXCEPT !.pc = "write"] /\ UNCHANGED journal /\ Files
EmptyReady ==
    /\ run.pc = "chain" /\ run.loss /\ RecordSurface(Ready) /\ Same
    /\ run' = [run EXCEPT !.pc = "save", !.tail = TRUE]

Chain == ChainStep \/ CandidateBegun \/ CandidateWritten \/ EmptyReady
Lockout == \/ restore_biolockout \/ restore_empty_reprovision_biolockout
           \/ LoadHead \/ PublishBlob \/ PublishManifest \/ LockoutFails \/ LockoutLoaded
StepCases == \/ BeginRecovery \/ ResumeRecovery \/ Dispatch \/ RecordReply \/ Chain
             \/ begin_catacomb_persistence \/ Save \/ abort_undispatched \/ Lockout
             \/ restore_for_enrollment \/ hold_native_recovery \/ resume_native_recovery
             \/ Crash \/ Reboot \/ UNCHANGED recoveryVars

LEMMA ColdActions ==
    ASSUME RecoveryInv, prepare_cold_restart \/ reconcile_empty_reprovision
    PROVE  Chain
<1>1. CASE prepare_cold_restart
  <2>1. CASE /\ candidate = "none" /\ candidate' = "torn"
             /\ run' = [run EXCEPT !.pc = "write"] /\ UNCHANGED journal
    BY <1>1, <2>1, Zenon DEF prepare_cold_restart, CandidateBegun, Chain
  <2>2. CASE /\ candidate = "whole" /\ Record(Prepared("COLD_RESTART"))
             /\ UNCHANGED <<candidate, run>>
    <3>1. At(BadState("REPREPARED_COMPONENTS")) /\ Same /\ UNCHANGED run
      BY <1>1, <2>2, Zenon DEF prepare_cold_restart, Files, Same, Rest
    <3>2. Prepared("COLD_RESTART") \in FreeNames
      BY Zenon DEF FreeNames
    <3>3. Evidence(Prepared("COLD_RESTART"))
      BY SMT DEF Evidence, ColdNames, Prepared, Proven, PersistenceProven
    <3>4. Follows(BadState("REPREPARED_COMPONENTS"), Prepared("COLD_RESTART"))
      BY SMT DEF Follows, EmptyTail, ColdNames, Intent, Unknown, Proven, BadState, Prepared, Selected, Ready,
                 RecoveryComplete,
         EmptyComplete
    <3> QED BY <2>2, <3>1, <3>2, <3>3, <3>4, AtRecord, Zenon DEF ChainStep, Chain
  <2> QED BY <1>1, <2>1, <2>2, Zenon DEF prepare_cold_restart
<1>2. CASE reconcile_empty_reprovision
  <2>1. At(Selected("EMPTY_REPROVISION_CLIENT")) /\ Same
    BY <1>2, Zenon DEF reconcile_empty_reprovision
  <2>2. CASE Empty({<<3, 7>>, <<7, 7>>})
    <3>1. Selected("EMPTY_REPROVISION_CLIENT") \in Paid
      <4>1. Selected("EMPTY_REPROVISION_CLIENT") \in PaidNames
        BY Zenon DEF PaidNames
      <4> QED BY <4>1, NameSets, Zenon
    <3>2. run.loss /\ run.pc = "chain"
      BY <2>1, <3>1, Zenon DEF RecoveryInv, ConsentInv, At
    <3>3. RecordSurface(Ready) /\ run' = [run EXCEPT !.pc = "save", !.tail = TRUE]
      BY <1>2, <2>2, Zenon DEF reconcile_empty_reprovision
    <3> QED BY <2>1, <3>2, <3>3, Zenon DEF EmptyReady, Chain
  <2>3. CASE ~Empty({<<3, 7>>, <<7, 7>>})
    <3>1. Record(BadState("EMPTY_REPROVISION")) /\ run' = Off
      BY <1>2, <2>3, Zenon DEF reconcile_empty_reprovision
    <3>2. BadState("EMPTY_REPROVISION") \in BadNames
      BY Zenon DEF BadNames
    <3>3. Follows(Selected("EMPTY_REPROVISION_CLIENT"), BadState("EMPTY_REPROVISION"))
      BY SMT DEF Follows, EmptyTail, ColdNames, Intent, Unknown, Proven, BadState, Prepared, Selected, Ready,
                 RecoveryComplete,
         EmptyComplete
    <3> QED BY <2>1, <3>1, <3>2, <3>3, AtFailure, Zenon DEF ChainStep, Chain
  <2> QED BY <2>2, <2>3, Zenon
<1> QED BY <1>1, <1>2, Zenon

\* Every step is one of the cases.
LEMMA StepShapes ==
    ASSUME RecoveryInv, [RecoveryNext]_recoveryVars
    PROVE  StepCases
<1>1. CASE Components
  BY <1>1, SendActions, ReadbackActions, RecordActions, SelectActions, Zenon
     DEF Components, Chain, StepCases
<1>2. CASE ColdPath
  BY <1>2, SendActions, ReadbackActions, RecordActions, SavedActions, ColdActions, Zenon
     DEF ColdPath, Chain, StepCases
<1>3. CASE Closing
  BY <1>3, RecordActions, SavedActions, Zenon DEF Closing, Chain, Lockout, StepCases
<1> QED BY <1>1, <1>2, <1>3, Zenon DEF RecoveryNext, StepCases

\* What a step writes.
LEMMA RecordedLast ==
    ASSUME RecoveryInv, NEW m \in Names, Record(m) \/ RecordSurface(m)
    PROVE  journal' \in Seq(Entry) /\ journal' # <<>> /\ Milestone(journal') = m
<1>1. SepOK /\ BoundsOK /\ JournalOK
  BY RecoveryParts, Zenon DEF RecoveryInv
<1>2. PICK r \in Entry : journal' = Append(journal, r) /\ r.m = m
  BY <1>1, RecOK, Zenon DEF Record, RecordSurface, Written, Names
<1> QED BY <1>1, <1>2, AppendMilestone, Zenon DEF JournalOK

LEMMA Begun ==
    ASSUME RecoveryInv, BeginRecovery
    PROVE  journal' \in Seq(Entry) /\ journal' # <<>> /\ Milestone(journal') = Proven("BASELINE")
<1>1. SepOK /\ BoundsOK /\ HostOK
  BY RecoveryParts, Zenon DEF RecoveryInv
<1>2. host.ids \in SUBSET Ids /\ host.ver \in Nat
  BY <1>1 DEF HostOK, Archive
<1>3. Proven("BASELINE") \in Steps \X Outcomes
  BY SMT DEF Proven, Steps, Outcomes
<1> DEFINE r == WithArchive(Proven("BASELINE"), host.ids, host.ver)
<1>4. r \in Entry /\ r.m = Proven("BASELINE")
  BY <1>1, <1>2, <1>3, RecArchive, Zenon
<1>5. journal' = <<r>>
  BY Zenon DEF BeginRecovery, WithArchive
<1> HIDE DEF r
<1>6. <<r>> \in Seq(Entry) /\ <<r>> # <<>> /\ Last(<<r>>) = r
  BY <1>4 DEF Last
<1> QED BY <1>4, <1>5, <1>6, Zenon DEF Milestone

LEMMA ReplyName ==
    ASSUME NEW c \in Commands, NEW reply \in {"none", "ok", "rejected", "unknown"}
    PROVE  /\ ReplyRecord(c, reply) \in Names
           /\ ReplyRecord(c, reply) # Proven("SAVED_USER")
           /\ c \in Loads /\ reply = "ok" => ReplyRecord(c, reply) \notin Paid
<1>1. reply = "ok" /\ c \in Exports =>
         ReplyRecord(c, reply) \in {<<"MASTER_EXPORT", "PREPARED">>, <<"MASTER_EXPORT", "CAPTURED">>,
                                    <<"MASTER_EXPORT", "CONFIRMED">>}
  BY DEF ReplyRecord, Exports
<1>2. ~(reply = "ok" /\ c \in Exports) =>
         ReplyRecord(c, reply) \in {Accepted(c), Rejected(c), Unknown(c)}
  BY DEF ReplyRecord, Exports
<1>3. reply = "ok" /\ c \notin Exports => ReplyRecord(c, reply) = Accepted(c)
  BY DEF ReplyRecord, Exports
<1>4. c \in Loads => c \notin Exports
  BY DEF Loads, Exports
<1>5. /\ <<"MASTER_EXPORT", "PREPARED">> \in Names /\ <<"MASTER_EXPORT", "CAPTURED">> \in Names
      /\ <<"MASTER_EXPORT", "CONFIRMED">> \in Names
  BY SMT DEF Names, Steps, Outcomes
<1>6. Accepted(c) \in Names /\ Rejected(c) \in Names /\ Unknown(c) \in Names
  <2>1. c \in Steps
    BY Zenon DEF Steps
  <2> QED BY <2>1, SMT DEF Names, Outcomes, Accepted, Rejected, Unknown
<1>7. \A n \in {<<"MASTER_EXPORT", "PREPARED">>, <<"MASTER_EXPORT", "CAPTURED">>,
                <<"MASTER_EXPORT", "CONFIRMED">>, Accepted(c), Rejected(c), Unknown(c)} :
         n # Proven("SAVED_USER")
  <2>1. \A n \in {<<"MASTER_EXPORT", "PREPARED">>, <<"MASTER_EXPORT", "CAPTURED">>,
                  <<"MASTER_EXPORT", "CONFIRMED">>, <<c, "ACCEPTED">>, <<c, "REPLY_REJECTED">>,
                  <<c, "OUTCOME_UNKNOWN">>} : n[2] # "RECONCILED"
    BY SMT
  <2>2. Proven("SAVED_USER")[2] = "RECONCILED"
    BY SMT DEF Proven
  <2> QED BY <2>1, <2>2, Zenon DEF Accepted, Rejected, Unknown
<1>8. c \in Loads => Accepted(c) \notin Paid
  <2>1. Accepted("CANONICAL_MASTER_LOAD") \notin Paid /\ Accepted("SAVED_USER_LOAD") \notin Paid
    BY SMT DEF Paid, GenerationChanging, Accepted, Rejected, Proven, BadState, Selected, Settled
  <2>2. Accepted("CANONICAL_USER_LOAD") \notin Paid
    BY SMT DEF Paid, GenerationChanging, Accepted, Rejected, Proven, BadState, Selected, Settled
  <2> QED BY <2>1, <2>2, Zenon DEF Loads
<1> QED BY <1>1, <1>2, <1>3, <1>4, <1>5, <1>6, <1>7, <1>8, Zenon

LEMMA Replied ==
    ASSUME RecoveryInv, RecordReply
    PROVE  /\ journal' \in Seq(Entry) /\ journal' # <<>>
           /\ Milestone(journal') = ReplyRecord(run.cmd, run.reply)
<1>1. SepOK /\ BoundsOK /\ JournalOK /\ RunOK
  BY RecoveryParts, Zenon DEF RecoveryInv
<1>2. run.cmd \in Commands
  BY Zenon DEF RecoveryInv, RunInv, RecordReply
<1>3. run.reply \in {"none", "ok", "rejected", "unknown"}
  BY <1>1 DEF RunOK
<1> DEFINE n == ReplyRecord(run.cmd, run.reply)
           r == [Rec(n) EXCEPT !.status = run.reply = "rejected"]
<1>4. n \in Steps \X Outcomes
  BY <1>2, <1>3, ReplyName, Zenon DEF Names
<1>5. (run.reply = "rejected") \in BOOLEAN
  OBVIOUS
<1>6. journal' = Append(journal, r)
  BY Zenon DEF RecordReply, Written
<1> HIDE DEF n
<1>7. r \in Entry /\ r.m = n
  BY <1>1, <1>4, <1>5, RecOK, Zenon
<1> HIDE DEF r
<1>8. journal' \in Seq(Entry) /\ journal' # <<>> /\ Milestone(journal') = n
  BY <1>1, <1>6, <1>7, AppendMilestone, Zenon DEF JournalOK
<1> QED BY <1>8, Zenon DEF n

\* What the T2 may be left as: a user component that is loaded and clean is the
\* archive's, or the one that was there.
SepStates == [master : {1, 3, 5, 7}, user : {0, 1, 3, 5, 7}, ids : SUBSET Ids, ver : Nat]
Kept(s) == s.ids # {} /\ s.user = 3 =>
              s.ver = host.ver \/ (s.ids = sep.ids /\ s.user = sep.user /\ s.ver = sep.ver)

LEMMA DirtyClean ==
    /\ \A s \in {1, 3, 5, 7} : Dirty(s) \in {1, 3, 5, 7} /\ Clean(s) \in {1, 3, 5, 7}
    /\ \A s \in {0, 1, 3, 5, 7} : Clean(s) \in {0, 1, 3, 5, 7}
  BY DEF Dirty, Clean

LEMMA AppliedShape ==
    ASSUME SepOK, HostOK, NEW c \in Commands, NEW s \in Applied(c) \cup Refused(c)
    PROVE  s \in SepStates /\ Kept(s)
<1>1. sep \in SepStates /\ host.ids \in SUBSET Ids /\ host.ver \in Nat /\ host.ver + 1 \in Nat
  BY DEF SepOK, SepStates, HostOK, Archive
<1>2. CASE c \in {"PREPARE_MASTER", "REPREPARE_MASTER", "EMPTY_REPROVISION_MASTER"} /\ s \in Applied(c)
  <2>1. s \in {[sep EXCEPT !.master = t] : t \in {sep.master, Dirty(sep.master)}}
    BY <1>2 DEF Applied
  <2>2. PICK t : s = [sep EXCEPT !.master = t] /\ t \in {1, 3, 5, 7}
    <3>1. sep.master \in {1, 3, 5, 7}
      BY <1>1 DEF SepStates
    <3> QED BY <2>1, <3>1, DirtyClean
  <2> QED BY <1>1, <2>2 DEF SepStates, Kept
<1>3. CASE c \in {"PREPARE_USER", "REPREPARE_USER", "EMPTY_REPROVISION_USER"} /\ s \in Applied(c)
  <2>1. s \in {[sep EXCEPT !.user = t, !.ver = host.ver + 1] : t \in {1, 5, 7}}
    BY <1>3 DEF Applied
  <2> DEFINE v == host.ver + 1
  <2>2. PICK t \in {1, 5, 7} : s = [sep EXCEPT !.user = t, !.ver = v]
    BY <2>1
  <2>3. v \in Nat
    BY <1>1
  <2> HIDE DEF v
  <2>4. s \in SepStates
    BY <1>1, <2>2, <2>3 DEF SepStates
  <2>5. s.user = t
    BY <1>1, <2>2 DEF SepStates
  <2>6. t # 3
    OBVIOUS
  <2> QED BY <2>4, <2>5, <2>6, Zenon DEF Kept
<1>4. CASE c = "REMOVE_EMPTY_USER" /\ s \in Applied(c)
  <2> DEFINE t == Dirty(sep.master)
  <2>1. s = [sep EXCEPT !.user = 0, !.master = t]
    BY <1>4 DEF Applied
  <2>2. t \in {1, 3, 5, 7}
    BY <1>1, DirtyClean DEF SepStates
  <2> HIDE DEF t
  <2>3. s \in SepStates
    BY <1>1, <2>1, <2>2 DEF SepStates
  <2>4. s.user = 0
    BY <1>1, <2>1 DEF SepStates
  <2>5. 0 # 3
    OBVIOUS
  <2> QED BY <2>3, <2>4, <2>5, Zenon DEF Kept
<1>5. CASE c \in {"MASTER_EXPORT_PREPARE", "MASTER_EXPORT_COMPLETE"} /\ s \in Applied(c)
  <2>1. s = sep
    BY <1>5 DEF Applied
  <2> QED BY <1>1, <2>1 DEF Kept
<1>6. CASE c = "MASTER_EXPORT_CONFIRM" /\ s \in Applied(c)
  <2> DEFINE t == Clean(sep.master)
  <2>1. s = [sep EXCEPT !.master = t]
    BY <1>6 DEF Applied
  <2>2. t \in {1, 3, 5, 7}
    BY <1>1, DirtyClean DEF SepStates
  <2> HIDE DEF t
  <2> QED BY <1>1, <2>1, <2>2 DEF SepStates, Kept
<1>7. CASE c = "CANONICAL_MASTER_LOAD" /\ s \in Applied(c)
  <2>1. s = [sep EXCEPT !.master = 3]
    BY <1>7 DEF Applied
  <2> QED BY <1>1, <2>1 DEF SepStates, Kept
<1>8. CASE c \in {"SAVED_USER_LOAD", "CANONICAL_USER_LOAD"} /\ s \in Applied(c)
  <2>1. \/ s \in {[sep EXCEPT !.user = 3, !.ids = some, !.ver = host.ver] : some \in SUBSET host.ids}
        \/ s \in {[master |-> 7, user |-> 7, ids |-> some, ver |-> host.ver + 1] :
                     some \in SUBSET host.ids \ {{}}}
    BY <1>8 DEF Applied
  <2>2. CASE s \in {[sep EXCEPT !.user = 3, !.ids = some, !.ver = host.ver] : some \in SUBSET host.ids}
    <3>1. PICK some \in SUBSET host.ids : s = [sep EXCEPT !.user = 3, !.ids = some, !.ver = host.ver]
      BY <2>2
    <3>2. some \in SUBSET Ids
      BY <1>1
    <3> QED BY <1>1, <3>1, <3>2 DEF SepStates, Kept
  <2>3. CASE s \in {[master |-> 7, user |-> 7, ids |-> some, ver |-> host.ver + 1] :
                     some \in SUBSET host.ids \ {{}}}
    <3> DEFINE v == host.ver + 1
    <3>1. PICK some \in SUBSET host.ids : s = [master |-> 7, user |-> 7, ids |-> some, ver |-> v]
      BY <2>3
    <3>2. some \in SUBSET Ids /\ v \in Nat
      BY <1>1
    <3> HIDE DEF v
    <3> QED BY <3>1, <3>2 DEF SepStates, Kept
  <2> QED BY <2>1, <2>2, <2>3
<1>9. CASE s \in Refused(c)
  <2>1. s \in {sep, [sep EXCEPT !.master = 3]}
    BY <1>9 DEF Refused
  <2> QED BY <1>1, <2>1 DEF SepStates, Kept
<1> QED BY <1>2, <1>3, <1>4, <1>5, <1>6, <1>7, <1>8, <1>9, Zenon DEF Commands

\* What a reply leaves of the T2.
LEMMA DispatchShape ==
    ASSUME RecoveryInv, Dispatch
    PROVE  /\ sep' \in SepStates /\ Kept(sep') /\ run.cmd \in Commands
           /\ \E reply \in {"ok", "rejected", "unknown"} :
                 run' = [run EXCEPT !.pc = "replied", !.reply = reply]
<1>1. SepOK /\ HostOK /\ run.cmd \in Commands
  BY RecoveryParts, Zenon DEF RecoveryInv, RunInv, Dispatch
<1>2. PICK reply \in {"ok", "rejected", "unknown"} :
          /\ sep' \in CASE reply = "ok" -> Applied(run.cmd)
                        [] reply = "rejected" -> Refused(run.cmd)
                        [] reply = "unknown" -> Applied(run.cmd) \cup {sep}
          /\ run' = [run EXCEPT !.pc = "replied", !.reply = reply]
  BY Zenon DEF Dispatch
<1>3. sep' \in Applied(run.cmd) \cup Refused(run.cmd) \/ sep' = sep
  <2> DEFINE A == Applied(run.cmd)
             R == Refused(run.cmd)
  <2>1. sep' \in CASE reply = "ok" -> A [] reply = "rejected" -> R [] reply = "unknown" -> A \cup {sep}
    BY <1>2
  <2> HIDE DEF A, R
  <2>2. sep' \in A \cup R \/ sep' = sep
    BY <2>1
  <2> QED BY <2>2 DEF A, R
<1>4. sep \in SepStates /\ Kept(sep)
  BY <1>1, Zenon DEF SepOK, SepStates, Kept
<1> QED BY <1>1, <1>2, <1>3, <1>4, AppliedShape, Zenon

\* The cases once more, one by one.
LEMMA Cases ==
    ASSUME StepCases
    PROVE  \/ BeginRecovery \/ ResumeRecovery \/ Dispatch \/ RecordReply \/ ChainStep
           \/ CandidateBegun \/ CandidateWritten \/ EmptyReady \/ begin_catacomb_persistence
           \/ SaveIntent \/ SaveStage \/ SaveUser \/ SaveConfirmIntent \/ SaveConfirmUser
           \/ SaveMasterIntent \/ SaveMaster \/ SaveCommit \/ SaveInstall \/ SaveCommitted
           \/ SaveConfirmMaster \/ SaveReadback \/ abort_undispatched \/ restore_biolockout
           \/ restore_empty_reprovision_biolockout \/ LoadHead \/ PublishBlob
           \/ PublishManifest \/ LockoutFails \/ LockoutLoaded \/ RestoreBegins
           \/ RestoreMaster \/ RestoreUser \/ RestoreChecks \/ hold_native_recovery
           \/ resume_native_recovery \/ Crash \/ Reboot \/ UNCHANGED recoveryVars
  BY Zenon DEF StepCases, Chain, Save, Lockout, restore_for_enrollment

\* Which of them may change a variable.
LEMMA Frames ==
    ASSUME StepCases
    PROVE  /\ \/ journal' = journal \/ BeginRecovery \/ RecordReply \/ ChainStep \/ EmptyReady
              \/ begin_catacomb_persistence \/ restore_biolockout
              \/ restore_empty_reprovision_biolockout \/ LockoutFails \/ LockoutLoaded
           /\ \/ sep' = sep \/ Dispatch \/ SaveConfirmUser \/ SaveConfirmMaster
              \/ RestoreMaster \/ RestoreUser \/ Reboot
           /\ \/ host' = host \/ SaveInstall
           /\ \/ ext' = ext \/ Save \/ abort_undispatched
           /\ \/ candidate' = candidate \/ BeginRecovery \/ CandidateBegun \/ CandidateWritten
           /\ \/ lockout' = lockout \/ PublishBlob \/ PublishManifest
           /\ \/ hold' = hold \/ hold_native_recovery \/ resume_native_recovery
           /\ \/ boot' = boot \/ Reboot
           /\ \/ sent' = sent \/ BeginRecovery \/ Dispatch
           /\ \/ recoveries' = recoveries \/ BeginRecovery
<1>1. CASE BeginRecovery
  BY <1>1, Zenon DEF BeginRecovery
<1>2. CASE ResumeRecovery
  BY <1>2, Zenon DEF ResumeRecovery
<1>3. CASE Dispatch
  BY <1>3, Zenon DEF Dispatch, Rest
<1>4. CASE RecordReply
  BY <1>4, Zenon DEF RecordReply, Same, Rest
<1>5. CASE ChainStep
  BY <1>5, Zenon DEF ChainStep, Sending, Recording
<1>6. CASE CandidateBegun
  BY <1>6, Zenon DEF CandidateBegun, Files
<1>7. CASE CandidateWritten
  BY <1>7, Zenon DEF CandidateWritten, Files
<1>8. CASE EmptyReady
  BY <1>8, Zenon DEF EmptyReady, Same, Rest
<1>9. CASE begin_catacomb_persistence
  BY <1>9, Zenon DEF begin_catacomb_persistence, Same, Rest
<1>10. CASE SaveIntent
  BY <1>10, Zenon DEF SaveIntent, Sync, Records, Save
<1>11. CASE SaveStage
  BY <1>11, Zenon DEF SaveStage, Sync, Records, Save
<1>12. CASE SaveUser
  BY <1>12, Zenon DEF SaveUser, Sync, Records, Save
<1>13. CASE SaveConfirmIntent
  BY <1>13, Zenon DEF SaveConfirmIntent, Sync, Records, Save
<1>14. CASE SaveConfirmUser
  BY <1>14, Zenon DEF SaveConfirmUser, Sync, Records, Save
<1>15. CASE SaveMasterIntent
  BY <1>15, Zenon DEF SaveMasterIntent, Sync, Records, Save
<1>16. CASE SaveMaster
  BY <1>16, Zenon DEF SaveMaster, Sync, Records, Save
<1>17. CASE SaveCommit
  BY <1>17, Zenon DEF SaveCommit, Sync, Records, Save
<1>18. CASE SaveInstall
  BY <1>18, Zenon DEF SaveInstall, Sync, Records, Save
<1>19. CASE SaveCommitted
  BY <1>19, Zenon DEF SaveCommitted, Sync, Records, Save
<1>20. CASE SaveConfirmMaster
  BY <1>20, Zenon DEF SaveConfirmMaster, Sync, Records, Save
<1>21. CASE SaveReadback
  BY <1>21, Zenon DEF SaveReadback, Sync, Records, Save
<1>22. CASE abort_undispatched
  BY <1>22, Zenon DEF abort_undispatched
<1>23. CASE restore_biolockout
  BY <1>23, Zenon DEF restore_biolockout, Same, Rest
<1>24. CASE restore_empty_reprovision_biolockout
  BY <1>24, Zenon DEF restore_empty_reprovision_biolockout, Same, Rest
<1>25. CASE LoadHead
  BY <1>25, Zenon DEF LoadHead, Lock
<1>26. CASE PublishBlob
  BY <1>26, Zenon DEF PublishBlob, Lock
<1>27. CASE PublishManifest
  BY <1>27, Zenon DEF PublishManifest, Lock
<1>28. CASE LockoutFails
  BY <1>28, Zenon DEF LockoutFails, Same, Rest
<1>29. CASE LockoutLoaded
  BY <1>29, Zenon DEF LockoutLoaded, Same, Rest
<1>30. CASE RestoreBegins
  BY <1>30, Zenon DEF RestoreBegins, Restoring
<1>31. CASE RestoreMaster
  BY <1>31, Zenon DEF RestoreMaster, Restoring
<1>32. CASE RestoreUser
  BY <1>32, Zenon DEF RestoreUser, Restoring
<1>33. CASE RestoreChecks
  BY <1>33, Zenon DEF RestoreChecks, Restoring
<1>34. CASE hold_native_recovery
  BY <1>34, Zenon DEF hold_native_recovery
<1>35. CASE resume_native_recovery
  BY <1>35, Zenon DEF resume_native_recovery
<1>36. CASE Crash
  BY <1>36, Zenon DEF Crash
<1>37. CASE Reboot
  BY <1>37, Zenon DEF Reboot
<1>38. CASE UNCHANGED recoveryVars
  BY <1>38, Zenon DEF recoveryVars
<1> QED BY Cases, <1>1, <1>2, <1>3, <1>4, <1>5, <1>6, <1>7, <1>8, <1>9, <1>10, <1>11, <1>12, <1>13,
           <1>14, <1>15, <1>16, <1>17, <1>18, <1>19, <1>20, <1>21, <1>22, <1>23, <1>24, <1>25,
           <1>26, <1>27, <1>28, <1>29, <1>30, <1>31, <1>32, <1>33, <1>34, <1>35, <1>36, <1>37,
           <1>38, Zenon

\* What each case writes.
LEMMA JournalWrites ==
    ASSUME RecoveryInv
    PROVE  /\ \A c \in Commands : Sending(c) =>
                 journal' \in Seq(Entry) /\ journal' # <<>> /\ Milestone(journal') = Intent(c)
           /\ \A r \in Entry : Recording(r) =>
                 journal' \in Seq(Entry) /\ journal' # <<>> /\ Milestone(journal') = r.m
           /\ EmptyReady => journal' \in Seq(Entry) /\ journal' # <<>> /\ Milestone(journal') = Ready
           /\ begin_catacomb_persistence =>
                 /\ journal' \in Seq(Entry) /\ journal' # <<>>
                 /\ Milestone(journal') = Intent("CATACOMB_PERSISTENCE")
           /\ restore_biolockout \/ restore_empty_reprovision_biolockout =>
                 /\ journal' \in Seq(Entry) /\ journal' # <<>> /\ run'.pc = "lock"
                 /\ run'.cmd \in {"BIOLOCKOUT_LOAD", "EMPTY_REPROVISION_BIOLOCKOUT"}
                 /\ Milestone(journal') = Intent(run'.cmd)
           /\ LockoutFails => /\ journal' \in Seq(Entry) /\ journal' # <<>>
                             /\ Milestone(journal') = Unknown(run.cmd)
           /\ LockoutLoaded =>
                 \/ run.cmd = "none" /\ journal' = journal
                 \/ /\ run.cmd # "none" /\ journal' \in Seq(Entry) /\ journal' # <<>>
                    /\ Milestone(journal') \in {Proven("BIOLOCKOUT"), Proven("EMPTY_REPROVISION_BIOLOCKOUT")}
<1>0. SepOK /\ BoundsOK /\ JournalOK /\ RunOK
  BY RecoveryParts, Zenon DEF RecoveryInv
<1>1. ASSUME NEW c \in Commands, Sending(c)
      PROVE  journal' \in Seq(Entry) /\ journal' # <<>> /\ Milestone(journal') = Intent(c)
  <2>1. Intent(c) \in Names
    <3>1. c \in Steps
      BY Zenon DEF Steps
    <3> QED BY <3>1, SMT DEF Names, Outcomes, Intent
  <2>2. Record(Intent(c))
    BY <1>1, Zenon DEF Sending, Record, Written
  <2> QED BY <2>1, <2>2, RecordedLast, Zenon
<1>2. ASSUME NEW r \in Entry, Recording(r)
      PROVE  journal' \in Seq(Entry) /\ journal' # <<>> /\ Milestone(journal') = r.m
  <2>1. journal' = Append(journal, r)
    BY <1>2, Zenon DEF Recording
  <2> QED BY <1>0, <2>1, AppendMilestone, Zenon DEF JournalOK
<1>3. Ready \in Names /\ Intent("CATACOMB_PERSISTENCE") \in Names
  BY NameSets, Zenon DEF FreeNames
<1>4. EmptyReady => journal' \in Seq(Entry) /\ journal' # <<>> /\ Milestone(journal') = Ready
  BY <1>3, RecordedLast, Zenon DEF EmptyReady
<1>5. begin_catacomb_persistence =>
                 /\ journal' \in Seq(Entry) /\ journal' # <<>>
                 /\ Milestone(journal') = Intent("CATACOMB_PERSISTENCE")
  BY <1>3, RecordedLast, Zenon DEF begin_catacomb_persistence
<1> DEFINE L == {"BIOLOCKOUT_LOAD", "EMPTY_REPROVISION_BIOLOCKOUT"}
<1>6. \A c \in L : Intent(c) \in Names /\ Unknown(c) \in Names
  BY SMT DEF Names, Steps, Outcomes, Intent, Unknown
<1>7. ASSUME NEW c \in L, Record(Intent(c)), run' = [run EXCEPT !.pc = "lock", !.cmd = c]
      PROVE  /\ journal' \in Seq(Entry) /\ journal' # <<>> /\ run'.pc = "lock"
             /\ run'.cmd \in L /\ Milestone(journal') = Intent(run'.cmd)
  <2>1. run'.pc = "lock" /\ run'.cmd = c
    BY <1>0, <1>7 DEF RunOK
  <2>2. journal' \in Seq(Entry) /\ journal' # <<>> /\ Milestone(journal') = Intent(c)
    BY <1>6, <1>7, RecordedLast, Zenon
  <2> QED BY <2>1, <2>2, Zenon
<1>8. restore_biolockout \/ restore_empty_reprovision_biolockout =>
                 /\ journal' \in Seq(Entry) /\ journal' # <<>> /\ run'.pc = "lock"
                 /\ run'.cmd \in L /\ Milestone(journal') = Intent(run'.cmd)
  BY <1>7, Zenon DEF restore_biolockout, restore_empty_reprovision_biolockout
<1>9. LockoutFails => /\ journal' \in Seq(Entry) /\ journal' # <<>>
                      /\ Milestone(journal') = Unknown(run.cmd)
  <2>1. LockoutFails => run.cmd \in L /\ Record(Unknown(run.cmd))
    BY Zenon DEF RecoveryInv, RunInv, LockPCs, LockoutFails
  <2> QED BY <1>6, <2>1, RecordedLast, Zenon
<1>10. LockoutLoaded =>
          \/ run.cmd = "none" /\ journal' = journal
          \/ /\ run.cmd # "none" /\ journal' \in Seq(Entry) /\ journal' # <<>>
             /\ Milestone(journal') \in {Proven("BIOLOCKOUT"), Proven("EMPTY_REPROVISION_BIOLOCKOUT")}
  <2>1. Proven("BIOLOCKOUT") \in Names /\ Proven("EMPTY_REPROVISION_BIOLOCKOUT") \in Names
    BY NameSets, Zenon DEF FreeNames
  <2>2. LockoutLoaded =>
           \/ run.cmd = "none" /\ journal' = journal
           \/ run.cmd # "none" /\ Record(Proven("BIOLOCKOUT"))
           \/ run.cmd # "none" /\ Record(Proven("EMPTY_REPROVISION_BIOLOCKOUT"))
    BY Zenon DEF LockoutLoaded
  <2> QED BY <2>1, <2>2, RecordedLast, Zenon
<1> QED BY <1>1, <1>2, <1>4, <1>5, <1>8, <1>9, <1>10, Zenon

LEMMA JournalTyped ==
    ASSUME RecoveryInv, StepCases
    PROVE  JournalOK'
<1>1. JournalOK
  BY RecoveryParts, Zenon DEF RecoveryInv
<1>2. journal' \in Seq(Entry)
  BY <1>1, Frames, Begun, Replied, JournalWrites, Zenon DEF ChainStep, JournalOK
<1> QED BY <1>2, Zenon DEF JournalOK

LEMMA SepTyped ==
    ASSUME RecoveryInv, StepCases
    PROVE  SepOK'
<1>0. SepOK /\ HostOK /\ sep \in SepStates
  BY RecoveryParts, Zenon DEF RecoveryInv, SepOK, SepStates
<1> SUFFICES sep' \in SepStates
  BY Zenon DEF SepOK, SepStates
<1>1. CASE Dispatch
  BY <1>1, DispatchShape, Zenon
<1>2. CASE SaveConfirmUser
  <2> DEFINE t == Clean(sep.user)
  <2>1. sep' = [sep EXCEPT !.user = t] /\ t \in {0, 1, 3, 5, 7}
    BY <1>0, <1>2, DirtyClean DEF SaveConfirmUser, SepStates
  <2> HIDE DEF t
  <2> QED BY <1>0, <2>1 DEF SepStates
<1>3. CASE SaveConfirmMaster
  <2> DEFINE t == Clean(sep.master)
  <2>1. sep' = [sep EXCEPT !.master = t] /\ t \in {1, 3, 5, 7}
    BY <1>0, <1>3, DirtyClean DEF SaveConfirmMaster, SepStates
  <2> HIDE DEF t
  <2> QED BY <1>0, <2>1 DEF SepStates
<1>4. CASE RestoreMaster \/ RestoreUser
  <2>1. \/ sep' = sep
        \/ sep' \in Applied("CANONICAL_MASTER_LOAD") \cup Refused("CANONICAL_MASTER_LOAD")
        \/ sep' \in Applied("CANONICAL_USER_LOAD") \cup Refused("CANONICAL_USER_LOAD")
    BY <1>4, Zenon DEF RestoreMaster, RestoreUser
  <2>2. "CANONICAL_MASTER_LOAD" \in Commands /\ "CANONICAL_USER_LOAD" \in Commands
    BY Zenon DEF Commands
  <2> QED BY <1>0, <2>1, <2>2, AppliedShape, Zenon
<1>5. CASE Reboot
  <2>1. \A s \in ColdStart \cup {RetainedMaster} : s \in SepStates
    BY DEF ColdStart, RetainedMaster, SepStates
  <2>2. \A s \in ForeignDelete : s \in SepStates
    <3> SUFFICES ASSUME NEW s \in ForeignDelete PROVE s \in SepStates
      OBVIOUS
    <3> DEFINE v == host.ver + 1
    <3>1. PICK i \in sep.ids : s = [sep EXCEPT !.ids = sep.ids \ {i}, !.ver = v]
      BY DEF ForeignDelete
    <3> DEFINE d == sep.ids \ {i}
    <3>2. v \in Nat /\ d \in SUBSET Ids
      BY <1>0 DEF HostOK, Archive, SepStates
    <3>3. s = [sep EXCEPT !.ids = d, !.ver = v]
      BY <3>1
    <3> HIDE DEF v, d
    <3> QED BY <1>0, <3>2, <3>3 DEF SepStates
  <2>3. sep' \in {sep} \cup ColdStart \cup ForeignDelete \cup {RetainedMaster}
    BY <1>5 DEF Reboot
  <2> QED BY <1>0, <2>1, <2>2, <2>3
<1> QED BY <1>0, <1>1, <1>2, <1>3, <1>4, <1>5, Frames, Zenon

LEMMA HostTyped ==
    ASSUME RecoveryInv, StepCases
    PROVE  HostOK'
<1>0. HostOK /\ ExtOK
  BY RecoveryParts, Zenon DEF RecoveryInv
<1>1. host' \in Archive
  <2>1. CASE SaveInstall
    <3>1. host' = [ids |-> ext.ids, ver |-> ext.ver]
      BY <2>1, Zenon DEF SaveInstall
    <3>2. ext.ids \in SUBSET Ids /\ ext.ver \in Nat
      BY <1>0 DEF ExtOK
    <3> QED BY <3>1, <3>2 DEF Archive
  <2> QED BY <1>0, <2>1, Frames, Zenon DEF HostOK
<1>2. candidate' \in {"none", "torn", "whole"}
  BY <1>0, Frames, Zenon DEF HostOK, BeginRecovery, CandidateBegun, CandidateWritten
<1>3. hold' \in BOOLEAN
  <2>1. hold' \in {TRUE, FALSE} \/ hold' = hold
    BY Frames, Zenon DEF hold_native_recovery, resume_native_recovery
  <2> QED BY <1>0, <2>1, Zenon DEF HostOK
<1> QED BY <1>1, <1>2, <1>3, Zenon DEF HostOK

LEMMA ExtTyped ==
    ASSUME RecoveryInv, StepCases
    PROVE  ExtOK'
<1> DEFINE R == 0..7
           T == [records : R, base : Archive, txn : {"none", "prepare", "commit"},
                  ids : SUBSET Ids, ver : Nat]
<1>0. ext \in T /\ host \in Archive /\ sep.ids \in SUBSET Ids /\ sep.ver \in Nat
  <2>1. ExtOK /\ HostOK /\ SepOK
    BY RecoveryParts, Zenon DEF RecoveryInv
  <2> QED BY <2>1 DEF ExtOK, HostOK, SepOK
<1>1. NoSave \in T
  BY DEF NoSave, Archive
<1>2. CASE SaveIntent
  <2> DEFINE n == NoSave
             i == sep.ids
  <2>1. ext' = [n EXCEPT !.records = 1, !.base = host, !.ids = i]
    BY <1>2, Zenon DEF SaveIntent
  <2>2. n \in T /\ i \in SUBSET Ids /\ 1 \in R
    BY <1>0, <1>1
  <2> HIDE DEF n, i, R
  <2>3. ext' \in T
    BY <1>0, <2>1, <2>2
  <2> QED BY <2>3, Zenon DEF ExtOK, R
<1>3. CASE SaveUser
  <2> DEFINE v == sep.ver
  <2>1. ext' = [ext EXCEPT !.records = 2, !.ver = v] /\ v \in Nat
    BY <1>0, <1>3, Zenon DEF SaveUser
  <2>2. 2 \in R
    OBVIOUS
  <2> HIDE DEF v, R
  <2>3. ext' \in T
    BY <1>0, <2>1, <2>2
  <2> QED BY <2>3, Zenon DEF ExtOK, R
<1>4. CASE Save /\ ~SaveIntent /\ ~SaveUser
  <2>1. \/ ext' = ext
        \/ \E t \in {"none", "prepare", "commit"} : ext' = [ext EXCEPT !.txn = t]
        \/ \E n \in {3, 4, 5, 6, 7} : ext' = [ext EXCEPT !.records = n]
    BY <1>4, Zenon DEF Save, SaveStage, SaveConfirmIntent, SaveConfirmUser, SaveMasterIntent, SaveMaster,
       SaveCommit, SaveInstall, SaveCommitted, SaveConfirmMaster, SaveReadback, Records
  <2>2. \A n \in {3, 4, 5, 6, 7} : n \in R
    OBVIOUS
  <2> HIDE DEF R
  <2>3. ext' \in T
    BY <1>0, <2>1, <2>2
  <2> QED BY <2>3, Zenon DEF ExtOK, R
<1>5. CASE abort_undispatched
  BY <1>1, <1>5, Zenon DEF abort_undispatched, ExtOK
<1> QED BY <1>0, <1>2, <1>3, <1>4, <1>5, Frames, Zenon DEF ExtOK

LEMMA LockoutTyped ==
    ASSUME RecoveryInv, StepCases
    PROVE  LockoutOK'
<1> DEFINE T == [blobs : Seq(Nat), manifests : SUBSET Nat, own : Nat]
<1>0. lockout \in T
  BY RecoveryParts, Zenon DEF RecoveryInv, LockoutOK
<1>1. CASE PublishBlob
  <2> DEFINE b == Append(lockout.blobs, lockout.own)
  <2>1. lockout' = [lockout EXCEPT !.blobs = b]
    BY <1>1, Zenon DEF PublishBlob
  <2>2. b \in Seq(Nat)
    BY <1>0
  <2> HIDE DEF b
  <2>3. lockout' \in T
    BY <1>0, <2>1, <2>2
  <2> QED BY <2>3, Zenon DEF LockoutOK
<1>2. CASE PublishManifest
  <2> DEFINE m == lockout.manifests \cup {Len(lockout.blobs)}
  <2>1. lockout' = [lockout EXCEPT !.manifests = m]
    BY <1>2, Zenon DEF PublishManifest
  <2>2. m \in SUBSET Nat
    BY <1>0
  <2> HIDE DEF m
  <2>3. lockout' \in T
    BY <1>0, <2>1, <2>2
  <2> QED BY <2>3, Zenon DEF LockoutOK
<1> QED BY <1>0, <1>1, <1>2, Frames, Zenon DEF LockoutOK

LEMMA BoundsTyped ==
    ASSUME RecoveryInv, StepCases
    PROVE  BoundsOK'
<1>0. BoundsOK /\ {MaxBoots, MaxRecoveries} \subseteq Nat
  BY RecoveryParts, RecoveryAssumption, Zenon DEF RecoveryInv
<1>1. boot' \in 1..MaxBoots
  <2>1. CASE Reboot
    BY <1>0, <2>1 DEF Reboot, BoundsOK
  <2> QED BY <1>0, <2>1, Frames, Zenon DEF BoundsOK
<1>2. recoveries' \in 0..MaxRecoveries
  <2>1. CASE BeginRecovery
    <3>1. recoveries' = recoveries + 1 /\ recoveries < MaxRecoveries
      BY <2>1, Zenon DEF BeginRecovery
    <3> QED BY <1>0, <3>1 DEF BoundsOK
  <2> QED BY <1>0, <2>1, Frames, Zenon DEF BoundsOK
<1>3. sent' \in [Commands -> Nat]
  <2>1. CASE BeginRecovery
    <3>1. sent' = [c \in Commands |-> 0]
      BY <2>1, Zenon DEF BeginRecovery
    <3> QED BY <3>1
  <2>2. CASE Dispatch
    <3>1. sent' = [sent EXCEPT ![run.cmd] = @ + 1] /\ sent \in [Commands -> Nat]
      BY <1>0, <2>2, Zenon DEF Dispatch, BoundsOK
    <3>2. run.cmd \in Commands
      BY <2>2, DispatchShape, Zenon
    <3> QED BY <3>1, <3>2
  <2> QED BY <1>0, <2>1, <2>2, Frames, Zenon DEF BoundsOK
<1> QED BY <1>1, <1>2, <1>3, Zenon DEF BoundsOK

\* Where the running command goes.
Moves(p) == run'.pc = p /\ run'.cmd = run.cmd /\ run'.loss = run.loss
Ends == run' = Off

LEMMA OffTyped == /\ Off \in [pc : PCs, loss : BOOLEAN, client : BOOLEAN, tail : BOOLEAN,
                               cmd : Commands \cup {"none", "BIOLOCKOUT_LOAD", "EMPTY_REPROVISION_BIOLOCKOUT"},
                               reply : {"none", "ok", "rejected", "unknown"}]
                  /\ Off.pc = "off" /\ Off.cmd = "none"
  BY DEF Off, PCs

LEMMA Moving ==
    ASSUME RunOK, NEW p \in PCs
    PROVE  /\ run' = [run EXCEPT !.pc = p] => RunOK' /\ Moves(p)
           /\ \A b \in BOOLEAN : run' = [run EXCEPT !.pc = p, !.tail = b] => RunOK' /\ Moves(p)
           /\ \A r \in {"none", "ok", "rejected", "unknown"} :
                 run' = [run EXCEPT !.pc = p, !.reply = r] => RunOK' /\ Moves(p)
           /\ \A b \in BOOLEAN : run' = [run EXCEPT !.client = b] => RunOK' /\ Moves(run.pc)
           /\ \A c \in Commands \cup {"none", "BIOLOCKOUT_LOAD", "EMPTY_REPROVISION_BIOLOCKOUT"} :
                 run' = [run EXCEPT !.pc = p, !.cmd = c] =>
                    RunOK' /\ run'.pc = p /\ run'.cmd = c /\ run'.loss = run.loss
           /\ \A c \in Commands, b \in BOOLEAN : run' = [run EXCEPT !.pc = p, !.cmd = c, !.client = b] =>
                 RunOK' /\ run'.pc = p /\ run'.cmd = c /\ run'.loss = run.loss
           /\ Ends => RunOK'
           /\ run' = run => RunOK' /\ Moves(run.pc)
<1> DEFINE C == Commands \cup {"none", "BIOLOCKOUT_LOAD", "EMPTY_REPROVISION_BIOLOCKOUT"}
           R == {"none", "ok", "rejected", "unknown"}
           T == [pc : PCs, loss : BOOLEAN, client : BOOLEAN, tail : BOOLEAN, cmd : C, reply : R]
<1>0. run \in T /\ (RunOK' <=> run' \in T)
  BY Zenon DEF RunOK
<1>8. Off \in T
  BY OffTyped, Zenon
<1>9. Commands \subseteq C
  OBVIOUS
<1> HIDE DEF C, R
<1>1. run' = [run EXCEPT !.pc = p] => run' \in T /\ Moves(p)
  BY <1>0 DEF Moves
<1>2. \A b \in BOOLEAN : run' = [run EXCEPT !.pc = p, !.tail = b] => run' \in T /\ Moves(p)
  BY <1>0 DEF Moves
<1>3. \A r \in R : run' = [run EXCEPT !.pc = p, !.reply = r] => run' \in T /\ Moves(p)
  BY <1>0 DEF Moves
<1>4. \A b \in BOOLEAN : run' = [run EXCEPT !.client = b] => run' \in T /\ Moves(run.pc)
  BY <1>0 DEF Moves
<1>5. \A c \in C : run' = [run EXCEPT !.pc = p, !.cmd = c] =>
                    run' \in T /\ run'.pc = p /\ run'.cmd = c /\ run'.loss = run.loss
  BY <1>0
<1>6. \A c \in Commands, b \in BOOLEAN : run' = [run EXCEPT !.pc = p, !.cmd = c, !.client = b] =>
                 run' \in T /\ run'.pc = p /\ run'.cmd = c /\ run'.loss = run.loss
  <2> SUFFICES ASSUME NEW c \in C, NEW b \in BOOLEAN, run' = [run EXCEPT !.pc = p, !.cmd = c, !.client = b]
               PROVE  run' \in T /\ run'.pc = p /\ run'.cmd = c /\ run'.loss = run.loss
    BY <1>9, Zenon
  <2>1. run' \in T
    BY <1>0
  <2>2. run'.pc = p /\ run'.cmd = c /\ run'.loss = run.loss
    BY <1>0
  <2> QED BY <2>1, <2>2, Zenon
<1>7. Ends => run' \in T
  BY <1>8, Zenon DEF Ends
<1>10. run' = run => run' \in T /\ Moves(run.pc)
  BY <1>0, Zenon DEF Moves
<1> QED BY <1>0, <1>1, <1>2, <1>3, <1>4, <1>5, <1>6, <1>7, <1>10, Zenon DEF C, R

LEMMA Starting ==
    ASSUME NEW loss \in BOOLEAN, run' = [Off EXCEPT !.pc = "chain", !.loss = loss]
    PROVE  RunOK' /\ run'.pc = "chain" /\ run'.loss = loss /\ run'.cmd = "none"
<1> DEFINE C == Commands \cup {"none", "BIOLOCKOUT_LOAD", "EMPTY_REPROVISION_BIOLOCKOUT"}
           R == {"none", "ok", "rejected", "unknown"}
           T == [pc : PCs, loss : BOOLEAN, client : BOOLEAN, tail : BOOLEAN, cmd : C, reply : R]
           o == Off
<1>1. o \in T /\ o.cmd = "none" /\ run' = [o EXCEPT !.pc = "chain", !.loss = loss]
  BY OffTyped, Zenon
<1>2. "chain" \in PCs
  BY Zenon DEF PCs
<1> HIDE DEF C, R, o
<1>3. run' \in T
  BY <1>1, <1>2
<1>4. run'.pc = "chain" /\ run'.loss = loss /\ run'.cmd = "none"
  BY <1>1
<1> QED BY <1>3, <1>4, Zenon DEF RunOK, C, R

LEMMA PCNames == {"chain", "sent", "replied", "write", "save", "stage", "user", "saved",
        "confirm", "confirmed", "master", "commit", "install", "installed", "close",
        "readback", "lock", "publish", "manifest", "locked", "restore_master", "restore_user", "check"}
        \subseteq PCs
  BY Zenon DEF PCs

LEMMA RunMoves ==
    ASSUME RecoveryInv
    PROVE  /\ BeginRecovery => RunOK' /\ run'.pc = "chain" /\ run'.loss /\ run'.cmd = "none"
           /\ ResumeRecovery =>
                 RunOK' /\ run'.pc = "chain" /\ run'.loss \in BOOLEAN /\ ~Refuses(journal, run'.loss)
           /\ Dispatch => RunOK' /\ Moves("replied")
           /\ RecordReply => RunOK' /\ (Ends \/ (run.reply = "ok" /\ Moves("chain")))
           /\ CandidateBegun => RunOK' /\ Moves("write")
           /\ CandidateWritten => RunOK' /\ Moves("chain")
           /\ EmptyReady => RunOK' /\ Moves("save")
           /\ begin_catacomb_persistence => RunOK' /\ (Moves("chain") \/ Moves("save"))
           /\ SaveIntent => run.pc = "save" /\ RunOK' /\ Moves("stage")
           /\ SaveStage => run.pc = "stage" /\ RunOK' /\ Moves("user")
           /\ SaveUser => run.pc = "user" /\ RunOK' /\ Moves("saved")
           /\ SaveConfirmIntent => run.pc = "saved" /\ RunOK' /\ Moves("confirm")
           /\ SaveConfirmUser => run.pc = "confirm" /\ RunOK' /\ Moves("confirmed")
           /\ SaveMasterIntent => run.pc = "confirmed" /\ RunOK' /\ Moves("master")
           /\ SaveMaster => run.pc = "master" /\ RunOK' /\ Moves("commit")
           /\ SaveCommit => run.pc = "commit" /\ RunOK' /\ Moves("install")
           /\ SaveInstall => run.pc = "install" /\ RunOK' /\ Moves("installed")
           /\ SaveCommitted => run.pc = "installed" /\ RunOK' /\ Moves("close")
           /\ SaveConfirmMaster => run.pc = "close" /\ RunOK' /\ Moves("readback")
           /\ SaveReadback => run.pc = "readback" /\ RunOK' /\ Moves("chain")
           /\ LoadHead => run.pc = "lock" /\ RunOK' /\ (Moves("publish") \/ Moves("locked"))
           /\ PublishBlob => run.pc = "publish" /\ RunOK' /\ Moves("manifest")
           /\ PublishManifest => run.pc = "manifest" /\ RunOK' /\ Moves("lock")
           /\ LockoutFails => RunOK' /\ Ends
           /\ LockoutLoaded => RunOK' /\ (Ends \/ (run.cmd # "none" /\ Moves("chain")))
           /\ RestoreBegins =>
                 RunOK' /\ \E p \in {"lock", "restore_master", "restore_user"} : Moves(p)
           /\ RestoreMaster => RunOK' /\ (Ends \/ Moves("restore_user"))
           /\ RestoreUser => RunOK' /\ (Ends \/ Moves("check"))
           /\ RestoreChecks => RunOK' /\ (Ends \/ Moves("lock"))
           /\ hold_native_recovery \/ resume_native_recovery \/ abort_undispatched \/ UNCHANGED recoveryVars =>
                 RunOK' /\ Moves(run.pc)
           /\ Crash \/ Reboot => RunOK' /\ Ends
           /\ restore_biolockout \/ restore_empty_reprovision_biolockout =>
                 RunOK' /\ run'.pc = "lock" /\ run'.loss = run.loss
           /\ \A c \in Commands : Sending(c) =>
                 RunOK' /\ run'.pc = "sent" /\ run'.cmd = c /\ run'.loss = run.loss
           /\ \A r \in Entry : Recording(r) => RunOK' /\ (Ends \/ Moves(run.pc))
<1>0. RunOK
  BY RecoveryParts, Zenon DEF RecoveryInv
<1>p. run.pc \in PCs
  BY <1>0 DEF RunOK
<1>t. TRUE \in BOOLEAN
  OBVIOUS
<1>1. BeginRecovery => RunOK' /\ run'.pc = "chain" /\ run'.loss /\ run'.cmd = "none"
  <2>1. BeginRecovery => run' = [Off EXCEPT !.pc = "chain", !.loss = TRUE]
    BY Zenon DEF BeginRecovery
  <2> QED BY <1>t, <2>1, Starting, Zenon
<1>2. ResumeRecovery =>
         RunOK' /\ run'.pc = "chain" /\ run'.loss \in BOOLEAN /\ ~Refuses(journal, run'.loss)
  <2>1. ResumeRecovery => \E loss \in BOOLEAN : /\ ~Refuses(journal, loss)
                                                /\ run' = [Off EXCEPT !.pc = "chain", !.loss = loss]
    BY Zenon DEF ResumeRecovery
  <2> QED BY <2>1, Starting, Zenon
<1>3. Dispatch => RunOK' /\ Moves("replied")
  <2>1. Dispatch => \E reply \in {"none", "ok", "rejected", "unknown"} :
                       run' = [run EXCEPT !.pc = "replied", !.reply = reply]
    BY DispatchShape, Zenon
  <2> QED BY <1>0, <2>1, PCNames, Moving, Zenon
<1>4. RecordReply => RunOK' /\ (Ends \/ (run.reply = "ok" /\ Moves("chain")))
  <2>1. RecordReply => run' = Off \/ (run.reply = "ok" /\ run' = [run EXCEPT !.pc = "chain"])
    BY Zenon DEF RecordReply
  <2>2. run' = Off => RunOK' /\ Ends
    BY <1>0, <1>p, Moving, Zenon DEF Ends
  <2>3. "chain" \in PCs
    BY PCNames, Zenon
  <2>4. run' = [run EXCEPT !.pc = "chain"] => RunOK' /\ Moves("chain")
    BY <1>0, <2>3, Moving, Zenon
  <2> QED BY <2>1, <2>2, <2>4, Zenon
<1>5. CandidateBegun => RunOK' /\ Moves("write")
  BY <1>0, PCNames, Moving, Zenon DEF CandidateBegun
<1>6. CandidateWritten => RunOK' /\ Moves("chain")
  BY <1>0, PCNames, Moving, Zenon DEF CandidateWritten
<1>7. EmptyReady => RunOK' /\ Moves("save")
  BY <1>0, <1>t, PCNames, Moving, Zenon DEF EmptyReady
<1>8. begin_catacomb_persistence => RunOK' /\ (Moves("chain") \/ Moves("save"))
  <2>1. begin_catacomb_persistence =>
           run' = [run EXCEPT !.pc = "chain"] \/ run' = [run EXCEPT !.pc = "save"]
    BY Zenon DEF begin_catacomb_persistence
  <2> QED BY <1>0, <2>1, PCNames, Moving, Zenon
<1>9. SaveIntent => run.pc = "save" /\ RunOK' /\ Moves("stage")
  BY <1>0, PCNames, Moving, Zenon DEF SaveIntent, Sync
<1>10. SaveStage => run.pc = "stage" /\ RunOK' /\ Moves("user")
  BY <1>0, PCNames, Moving, Zenon DEF SaveStage, Sync
<1>11. SaveUser => run.pc = "user" /\ RunOK' /\ Moves("saved")
  BY <1>0, PCNames, Moving, Zenon DEF SaveUser, Sync
<1>12. SaveConfirmIntent => run.pc = "saved" /\ RunOK' /\ Moves("confirm")
  BY <1>0, PCNames, Moving, Zenon DEF SaveConfirmIntent, Sync
<1>13. SaveConfirmUser => run.pc = "confirm" /\ RunOK' /\ Moves("confirmed")
  BY <1>0, PCNames, Moving, Zenon DEF SaveConfirmUser, Sync
<1>14. SaveMasterIntent => run.pc = "confirmed" /\ RunOK' /\ Moves("master")
  BY <1>0, PCNames, Moving, Zenon DEF SaveMasterIntent, Sync
<1>15. SaveMaster => run.pc = "master" /\ RunOK' /\ Moves("commit")
  BY <1>0, PCNames, Moving, Zenon DEF SaveMaster, Sync
<1>16. SaveCommit => run.pc = "commit" /\ RunOK' /\ Moves("install")
  BY <1>0, PCNames, Moving, Zenon DEF SaveCommit, Sync
<1>17. SaveInstall => run.pc = "install" /\ RunOK' /\ Moves("installed")
  BY <1>0, PCNames, Moving, Zenon DEF SaveInstall, Sync
<1>18. SaveCommitted => run.pc = "installed" /\ RunOK' /\ Moves("close")
  BY <1>0, PCNames, Moving, Zenon DEF SaveCommitted, Sync
<1>19. SaveConfirmMaster => run.pc = "close" /\ RunOK' /\ Moves("readback")
  BY <1>0, PCNames, Moving, Zenon DEF SaveConfirmMaster, Sync
<1>20. SaveReadback => run.pc = "readback" /\ RunOK' /\ Moves("chain")
  BY <1>0, PCNames, Moving, Zenon DEF SaveReadback, Sync
<1>21. LoadHead => run.pc = "lock" /\ RunOK' /\ (Moves("publish") \/ Moves("locked"))
  BY <1>0, PCNames, Moving, Zenon DEF LoadHead, Lock
<1>22. PublishBlob => run.pc = "publish" /\ RunOK' /\ Moves("manifest")
  BY <1>0, PCNames, Moving, Zenon DEF PublishBlob, Lock
<1>23. PublishManifest => run.pc = "manifest" /\ RunOK' /\ Moves("lock")
  BY <1>0, PCNames, Moving, Zenon DEF PublishManifest, Lock
<1>24. LockoutFails => RunOK' /\ Ends
  BY <1>0, PCNames, Moving, Zenon DEF LockoutFails, Ends
<1>25. LockoutLoaded => RunOK' /\ (Ends \/ (run.cmd # "none" /\ Moves("chain")))
  <2>1. LockoutLoaded => run' = Off \/ (run.cmd # "none" /\ run' = [run EXCEPT !.pc = "chain"])
    BY Zenon DEF LockoutLoaded
  <2>2. run' = Off => RunOK' /\ Ends
    BY <1>0, <1>p, Moving, Zenon DEF Ends
  <2>3. "chain" \in PCs
    BY PCNames, Zenon
  <2>4. run' = [run EXCEPT !.pc = "chain"] => RunOK' /\ Moves("chain")
    BY <1>0, <2>3, Moving, Zenon
  <2> QED BY <2>1, <2>2, <2>4, Zenon
<1>26. RestoreBegins => RunOK' /\ \E p \in {"lock", "restore_master", "restore_user"} : Moves(p)
  <2>1. RestoreBegins => Admission \in {"lock", "restore_master", "restore_user"}
    <3>1. Admission \in {"off", "lock", "restore_master", "restore_user"}
      BY SMT DEF Admission
    <3> QED BY <3>1, Zenon DEF RestoreBegins
  <2>2. RestoreBegins => run' = [run EXCEPT !.pc = Admission]
    BY Zenon DEF RestoreBegins, Restoring
  <2> HIDE DEF Admission
  <2>3. RestoreBegins => \E p \in {"lock", "restore_master", "restore_user"} : run' = [run EXCEPT !.pc = p]
    BY <2>1, <2>2, Zenon
  <2> QED BY <1>0, <2>3, PCNames, Moving, Zenon
<1>27. RestoreMaster => RunOK' /\ (Ends \/ Moves("restore_user"))
  BY <1>0, PCNames, Moving, Zenon DEF RestoreMaster, Restoring, Ends
<1>28. RestoreUser => RunOK' /\ (Ends \/ Moves("check"))
  BY <1>0, PCNames, Moving, Zenon DEF RestoreUser, Restoring, Ends
<1>29. RestoreChecks => RunOK' /\ (Ends \/ Moves("lock"))
  BY <1>0, PCNames, Moving, Zenon DEF RestoreChecks, Restoring, Ends
<1>30. hold_native_recovery \/ resume_native_recovery \/ abort_undispatched \/ UNCHANGED recoveryVars =>
         RunOK' /\ Moves(run.pc)
  BY <1>0, <1>p, Moving, Zenon DEF hold_native_recovery, resume_native_recovery, abort_undispatched,
                                   recoveryVars
<1>31. Crash \/ Reboot => RunOK' /\ Ends
  BY <1>0, <1>p, Moving, Zenon DEF Crash, Reboot, Ends
<1>32. restore_biolockout \/ restore_empty_reprovision_biolockout =>
         RunOK' /\ run'.pc = "lock" /\ run'.loss = run.loss
  <2>1. restore_biolockout \/ restore_empty_reprovision_biolockout =>
           \E c \in {"BIOLOCKOUT_LOAD", "EMPTY_REPROVISION_BIOLOCKOUT"} :
              run' = [run EXCEPT !.pc = "lock", !.cmd = c]
    BY Zenon DEF restore_biolockout, restore_empty_reprovision_biolockout
  <2>2. \A c \in {"BIOLOCKOUT_LOAD", "EMPTY_REPROVISION_BIOLOCKOUT"} :
           c \in Commands \cup {"none", "BIOLOCKOUT_LOAD", "EMPTY_REPROVISION_BIOLOCKOUT"}
    BY Zenon
  <2> QED BY <1>0, <2>1, <2>2, PCNames, Moving, Zenon
<1>33. ASSUME NEW c \in Commands, Sending(c)
      PROVE  RunOK' /\ run'.pc = "sent" /\ run'.cmd = c /\ run'.loss = run.loss
  BY <1>0, <1>33, PCNames, Moving, Zenon DEF Sending
<1>34. ASSUME NEW r \in Entry, Recording(r)
      PROVE  RunOK' /\ (Ends \/ Moves(run.pc))
  BY <1>0, <1>p, <1>t, <1>34, Moving, Zenon DEF Recording, Ends
<1> QED BY <1>1, <1>2, <1>3, <1>4, <1>5, <1>6, <1>7, <1>8, <1>9, <1>10, <1>11, <1>12, <1>13, <1>14,
           <1>15, <1>16, <1>17, <1>18, <1>19, <1>20, <1>21, <1>22, <1>23, <1>24, <1>25, <1>26,
           <1>27, <1>28, <1>29, <1>30, <1>31, <1>32, <1>33, <1>34, Zenon

\* Where it was.
LEMMA Sources ==
    /\ BeginRecovery => run.pc = "off"
    /\ ResumeRecovery => run.pc = "off"
    /\ Dispatch => run.pc = "sent"
    /\ RecordReply => run.pc = "replied"
    /\ CandidateBegun => run.pc = "chain"
    /\ CandidateWritten => run.pc = "write"
    /\ EmptyReady => run.pc = "chain"
    /\ begin_catacomb_persistence => run.pc = "chain"
    /\ restore_biolockout => run.pc = "chain"
    /\ restore_empty_reprovision_biolockout => run.pc = "chain"
    /\ LockoutLoaded => run.pc = "locked"
    /\ RestoreBegins => run.pc = "off"
    /\ RestoreMaster => run.pc = "restore_master"
    /\ RestoreUser => run.pc = "restore_user"
    /\ RestoreChecks => run.pc = "check"
    /\ hold_native_recovery => run.pc = "off"
    /\ resume_native_recovery => run.pc = "off"
    /\ abort_undispatched => run.pc = "off"
    /\ SaveIntent => run.pc = "save"
    /\ SaveStage => run.pc = "stage"
    /\ SaveUser => run.pc = "user"
    /\ SaveConfirmIntent => run.pc = "saved"
    /\ SaveConfirmUser => run.pc = "confirm"
    /\ SaveMasterIntent => run.pc = "confirmed"
    /\ SaveMaster => run.pc = "master"
    /\ SaveCommit => run.pc = "commit"
    /\ SaveInstall => run.pc = "install"
    /\ SaveCommitted => run.pc = "installed"
    /\ SaveConfirmMaster => run.pc = "close"
    /\ SaveReadback => run.pc = "readback"
    /\ LoadHead => run.pc = "lock"
    /\ PublishBlob => run.pc = "publish"
    /\ PublishManifest => run.pc = "manifest"
    /\ LockoutFails => run.pc \in {"lock", "publish", "manifest"}
    /\ \A c \in Commands : Sending(c) => run.pc = "chain"
    /\ \A r \in Entry : Recording(r) => run.pc = "chain"
<1>1. BeginRecovery => run.pc = "off"
  BY Zenon DEF BeginRecovery
<1>2. ResumeRecovery => run.pc = "off"
  BY Zenon DEF ResumeRecovery
<1>3. Dispatch => run.pc = "sent"
  BY Zenon DEF Dispatch
<1>4. RecordReply => run.pc = "replied"
  BY Zenon DEF RecordReply
<1>5. CandidateBegun => run.pc = "chain"
  BY Zenon DEF CandidateBegun, At
<1>6. CandidateWritten => run.pc = "write"
  BY Zenon DEF CandidateWritten
<1>7. EmptyReady => run.pc = "chain"
  BY Zenon DEF EmptyReady
<1>8. begin_catacomb_persistence => run.pc = "chain"
  BY Zenon DEF begin_catacomb_persistence, At
<1>9. restore_biolockout => run.pc = "chain"
  BY Zenon DEF restore_biolockout, At
<1>10. restore_empty_reprovision_biolockout => run.pc = "chain"
  BY Zenon DEF restore_empty_reprovision_biolockout, At
<1>11. LockoutLoaded => run.pc = "locked"
  BY Zenon DEF LockoutLoaded
<1>12. RestoreBegins => run.pc = "off"
  BY Zenon DEF RestoreBegins, Restoring
<1>13. RestoreMaster => run.pc = "restore_master"
  BY Zenon DEF RestoreMaster, Restoring
<1>14. RestoreUser => run.pc = "restore_user"
  BY Zenon DEF RestoreUser, Restoring
<1>15. RestoreChecks => run.pc = "check"
  BY Zenon DEF RestoreChecks, Restoring
<1>16. hold_native_recovery => run.pc = "off"
  BY Zenon DEF hold_native_recovery
<1>17. resume_native_recovery => run.pc = "off"
  BY Zenon DEF resume_native_recovery
<1>18. abort_undispatched => run.pc = "off"
  BY Zenon DEF abort_undispatched
<1>19. SaveIntent => run.pc = "save"
  BY Zenon DEF SaveIntent, Sync
<1>20. SaveStage => run.pc = "stage"
  BY Zenon DEF SaveStage, Sync
<1>21. SaveUser => run.pc = "user"
  BY Zenon DEF SaveUser, Sync
<1>22. SaveConfirmIntent => run.pc = "saved"
  BY Zenon DEF SaveConfirmIntent, Sync
<1>23. SaveConfirmUser => run.pc = "confirm"
  BY Zenon DEF SaveConfirmUser, Sync
<1>24. SaveMasterIntent => run.pc = "confirmed"
  BY Zenon DEF SaveMasterIntent, Sync
<1>25. SaveMaster => run.pc = "master"
  BY Zenon DEF SaveMaster, Sync
<1>26. SaveCommit => run.pc = "commit"
  BY Zenon DEF SaveCommit, Sync
<1>27. SaveInstall => run.pc = "install"
  BY Zenon DEF SaveInstall, Sync
<1>28. SaveCommitted => run.pc = "installed"
  BY Zenon DEF SaveCommitted, Sync
<1>29. SaveConfirmMaster => run.pc = "close"
  BY Zenon DEF SaveConfirmMaster, Sync
<1>30. SaveReadback => run.pc = "readback"
  BY Zenon DEF SaveReadback, Sync
<1>31. LoadHead => run.pc = "lock"
  BY Zenon DEF LoadHead, Lock
<1>32. PublishBlob => run.pc = "publish"
  BY Zenon DEF PublishBlob, Lock
<1>33. PublishManifest => run.pc = "manifest"
  BY Zenon DEF PublishManifest, Lock
<1>34. LockoutFails => run.pc \in {"lock", "publish", "manifest"}
  BY Zenon DEF LockoutFails
<1>35. \A c \in Commands : Sending(c) => run.pc = "chain"
  BY Zenon DEF Sending
<1>36. \A r \in Entry : Recording(r) => run.pc = "chain"
  BY Zenon DEF Recording
<1> QED BY <1>1, <1>2, <1>3, <1>4, <1>5, <1>6, <1>7, <1>8, <1>9, <1>10, <1>11, <1>12, <1>13, <1>14,
           <1>15, <1>16, <1>17, <1>18, <1>19, <1>20, <1>21, <1>22, <1>23, <1>24, <1>25, <1>26,
           <1>27, <1>28, <1>29, <1>30, <1>31, <1>32, <1>33, <1>34, <1>35, <1>36, Zenon

LEMMA PendingKept ==
    ASSUME journal' = journal
    PROVE  (Pending' <=> Pending) /\ Milestone(journal') = Milestone(journal)
  BY Zenon DEF Pending, Complete, validate_history, Milestone

LEMMA EndsOff == Ends => run'.pc = "off" /\ run'.cmd = "none" /\ run' = Off
  BY OffTyped, Zenon DEF Ends

LEMMA RunTyped ==
    ASSUME RecoveryInv, StepCases
    PROVE  RunOK'
  BY Cases, RunMoves, Zenon DEF ChainStep

LEMMA RecoveryTyped ==
    ASSUME RecoveryInv, StepCases
    PROVE  RecoveryTypeOK'
<1>1. JournalOK' /\ SepOK' /\ HostOK' /\ ExtOK' /\ LockoutOK' /\ RunOK' /\ BoundsOK'
  BY JournalTyped, SepTyped, HostTyped, ExtTyped, LockoutTyped, RunTyped, BoundsTyped, Zenon
<1> QED BY <1>1, RecoveryParts, Zenon
       DEF RecoveryTypeOK, JournalOK, SepOK, HostOK, ExtOK, LockoutOK, RunOK, BoundsOK

\* The position of the command and its journal.
LEMMA RunStep ==
    ASSUME RecoveryInv, StepCases
    PROVE  RunInv'
<1>0. RunInv
  BY Zenon DEF RecoveryInv
<1> DEFINE B == {"BIOLOCKOUT_LOAD", "EMPTY_REPROVISION_BIOLOCKOUT"}
<1>e. Ends => RunInv'
  <2>1. ASSUME Ends PROVE run'.pc = "off" /\ run' = Off
    BY <2>1, EndsOff, Zenon
  <2>2. ASSUME run'.pc = "off", run' = Off PROVE RunInv'
    BY <2>2, SMT DEF RunInv, Staged, SavePCs, RestorePCs, LockPCs
  <2> QED BY <2>1, <2>2, Zenon
<1>len. (run' = run /\ journal' = journal) => RunInv'
  <2> SUFFICES ASSUME run' = run, journal' = journal PROVE RunInv'
    OBVIOUS
  <2>1. (Pending' <=> Pending) /\ Milestone(journal)' = Milestone(journal)
    BY PendingKept, Zenon
  <2> QED BY <1>0, <2>1, Zenon DEF RunInv
\* To the chain, to the reply of a command, to a save, and to a load of the lockout record.
<1>c. ASSUME run'.pc \in {"chain", "write"}, journal' # <<>> PROVE RunInv'
  BY <1>c, SMT DEF RunInv, Staged, SavePCs, RestorePCs, LockPCs
<1>d. ASSUME run'.pc \in {"sent", "replied"}, journal' # <<>>, run'.cmd \in Commands,
             Milestone(journal') = Intent(run'.cmd) PROVE RunInv'
  BY <1>d, SMT DEF RunInv, Staged, SavePCs, RestorePCs, LockPCs
<1>s. ASSUME run'.pc \in {"save"} \cup SavePCs, journal' # <<>>,
             Milestone(journal') \in {Intent("CATACOMB_PERSISTENCE"), Ready} PROVE RunInv'
  BY <1>s, SMT DEF RunInv, Staged, SavePCs, RestorePCs, LockPCs
<1>l. ASSUME run'.pc \in LockPCs, run'.cmd # "none" => /\ journal' # <<>> /\ run'.cmd \in B
                                                      /\ Milestone(journal') = Intent(run'.cmd)
      PROVE  RunInv'
  BY <1>l, SMT DEF RunInv, Staged, SavePCs, RestorePCs, LockPCs
<1>r. ASSUME run'.pc \in RestorePCs, ~Pending', run'.cmd = "none" PROVE RunInv'
  BY <1>r, SMT DEF RunInv, Staged, SavePCs, RestorePCs, LockPCs
\* What the position says, in the same shape.
<1>C. run.pc \notin {"off"} \cup RestorePCs \cup LockPCs => journal # <<>>
  BY <1>0, Zenon DEF RunInv
<1>S. run.pc \in {"save"} \cup SavePCs => Milestone(journal) \in {Intent("CATACOMB_PERSISTENCE"), Ready}
  BY <1>0, Zenon DEF RunInv
<1>L. run.pc \in LockPCs /\ run.cmd # "none" => /\ journal # <<>> /\ run.cmd \in B
                                                /\ Milestone(journal) = Intent(run.cmd)
  BY <1>0, Zenon DEF RunInv
<1>R. run.pc \in RestorePCs => ~Pending /\ run.cmd = "none"
  BY <1>0, Zenon DEF RunInv
<1>N. \A p \in {"chain", "write", "sent", "replied", "save"} \cup SavePCs :
         p \notin {"off"} \cup RestorePCs \cup LockPCs
  BY SMT DEF Staged, SavePCs, RestorePCs, LockPCs
<1>M. /\ \A p \in {"stage", "user", "saved", "confirm", "confirmed", "master", "commit", "install",
                   "installed", "close", "readback"} : p \in SavePCs
      /\ \A p \in {"lock", "publish", "manifest", "locked"} : p \in LockPCs
      /\ \A p \in {"restore_master", "restore_user", "check"} : p \in RestorePCs
  BY Zenon DEF Staged, SavePCs, RestorePCs, LockPCs
<1>1. CASE BeginRecovery
  <2>1. run'.pc = "chain" /\ journal' # <<>>
    BY <1>1, RunMoves, Begun, Zenon
  <2> QED BY <2>1, <1>c, Zenon
<1>2. CASE ResumeRecovery
  <2>1. run'.pc = "chain" /\ journal' # <<>>
    BY <1>2, RunMoves, Zenon DEF ResumeRecovery
  <2> QED BY <2>1, <1>c, Zenon
<1>3. CASE Dispatch
  <2>1. run'.pc = "replied" /\ run'.cmd = run.cmd /\ run.cmd \in Commands /\ journal' = journal /\ run.pc = "sent"
    BY <1>3, RunMoves, DispatchShape, Zenon DEF Dispatch, Moves
  <2>2. journal # <<>> /\ Milestone(journal) = Intent(run.cmd)
    BY <1>0, <1>C, <1>N, <2>1, Zenon DEF RunInv
  <2> QED BY <2>1, <2>2, <1>d, Zenon
<1>4. CASE RecordReply
  <2>1. Ends \/ (run'.pc = "chain" /\ journal' # <<>>)
    BY <1>4, RunMoves, Replied, Zenon DEF Moves
  <2> QED BY <2>1, <1>c, <1>e, Zenon
<1>5. CASE ChainStep
  <2>1. ASSUME NEW c \in Commands, Sending(c) PROVE RunInv'
    BY <2>1, <1>d, RunMoves, JournalWrites, Zenon
  <2>2. ASSUME NEW r \in Entry, Recording(r) PROVE RunInv'
    <3>1. journal' # <<>> /\ run.pc = "chain"
      BY <2>2, JournalWrites, Sources, Zenon
    <3>2. Ends \/ run'.pc = "chain"
      BY <2>2, <3>1, RunMoves, Zenon DEF Moves
    <3> QED BY <3>1, <3>2, <1>c, <1>e, Zenon
  <2> QED BY <1>5, <2>1, <2>2, Zenon DEF ChainStep
<1>6. CASE CandidateBegun
  <2>1. run'.pc = "write" /\ journal' = journal /\ run.pc \in {"chain", "write"}
    BY <1>6, RunMoves, Sources, Zenon DEF CandidateBegun, Moves
  <2> QED BY <2>1, <1>c, <1>C, <1>N, Zenon
<1>7. CASE CandidateWritten
  <2>1. run'.pc = "chain" /\ journal' = journal /\ run.pc \in {"chain", "write"}
    BY <1>7, RunMoves, Sources, Zenon DEF CandidateWritten, Moves
  <2> QED BY <2>1, <1>c, <1>C, <1>N, Zenon
<1>8. CASE EmptyReady
  <2>1. run'.pc = "save" /\ journal' # <<>> /\ Milestone(journal') = Ready
    BY <1>8, RunMoves, JournalWrites, Zenon DEF Moves
  <2> QED BY <2>1, <1>s, Zenon
<1>9. CASE begin_catacomb_persistence
  <2>1. /\ run'.pc = "save" \/ run'.pc = "chain"
        /\ journal' # <<>> /\ Milestone(journal') = Intent("CATACOMB_PERSISTENCE")
    BY <1>9, RunMoves, JournalWrites, Zenon DEF Moves
  <2> QED BY <2>1, <1>s, <1>c, Zenon
<1>10. CASE SaveIntent
  <2>1. run'.pc = "stage" /\ journal' = journal /\ run.pc = "save"
    BY <1>10, RunMoves, Zenon DEF SaveIntent, Sync, Moves
  <2> QED BY <2>1, <1>s, <1>C, <1>S, <1>N, <1>M, Zenon
<1>11. CASE SaveStage
  <2>1. run'.pc = "user" /\ journal' = journal /\ run.pc = "stage"
    BY <1>11, RunMoves, Zenon DEF SaveStage, Sync, Moves
  <2> QED BY <2>1, <1>s, <1>C, <1>S, <1>N, <1>M, Zenon
<1>12. CASE SaveUser
  <2>1. run'.pc = "saved" /\ journal' = journal /\ run.pc = "user"
    BY <1>12, RunMoves, Zenon DEF SaveUser, Sync, Moves
  <2> QED BY <2>1, <1>s, <1>C, <1>S, <1>N, <1>M, Zenon
<1>13. CASE SaveConfirmIntent
  <2>1. run'.pc = "confirm" /\ journal' = journal /\ run.pc = "saved"
    BY <1>13, RunMoves, Zenon DEF SaveConfirmIntent, Sync, Moves
  <2> QED BY <2>1, <1>s, <1>C, <1>S, <1>N, <1>M, Zenon
<1>14. CASE SaveConfirmUser
  <2>1. run'.pc = "confirmed" /\ journal' = journal /\ run.pc = "confirm"
    BY <1>14, RunMoves, Zenon DEF SaveConfirmUser, Sync, Moves
  <2> QED BY <2>1, <1>s, <1>C, <1>S, <1>N, <1>M, Zenon
<1>15. CASE SaveMasterIntent
  <2>1. run'.pc = "master" /\ journal' = journal /\ run.pc = "confirmed"
    BY <1>15, RunMoves, Zenon DEF SaveMasterIntent, Sync, Moves
  <2> QED BY <2>1, <1>s, <1>C, <1>S, <1>N, <1>M, Zenon
<1>16. CASE SaveMaster
  <2>1. run'.pc = "commit" /\ journal' = journal /\ run.pc = "master"
    BY <1>16, RunMoves, Zenon DEF SaveMaster, Sync, Moves
  <2> QED BY <2>1, <1>s, <1>C, <1>S, <1>N, <1>M, Zenon
<1>17. CASE SaveCommit
  <2>1. run'.pc = "install" /\ journal' = journal /\ run.pc = "commit"
    BY <1>17, RunMoves, Zenon DEF SaveCommit, Sync, Moves
  <2> QED BY <2>1, <1>s, <1>C, <1>S, <1>N, <1>M, Zenon
<1>18. CASE SaveInstall
  <2>1. run'.pc = "installed" /\ journal' = journal /\ run.pc = "install"
    BY <1>18, RunMoves, Zenon DEF SaveInstall, Sync, Moves
  <2> QED BY <2>1, <1>s, <1>C, <1>S, <1>N, <1>M, Zenon
<1>19. CASE SaveCommitted
  <2>1. run'.pc = "close" /\ journal' = journal /\ run.pc = "installed"
    BY <1>19, RunMoves, Zenon DEF SaveCommitted, Sync, Moves
  <2> QED BY <2>1, <1>s, <1>C, <1>S, <1>N, <1>M, Zenon
<1>20. CASE SaveConfirmMaster
  <2>1. run'.pc = "readback" /\ journal' = journal /\ run.pc = "close"
    BY <1>20, RunMoves, Zenon DEF SaveConfirmMaster, Sync, Moves
  <2> QED BY <2>1, <1>s, <1>C, <1>S, <1>N, <1>M, Zenon
<1>21. CASE SaveReadback
  <2>1. run'.pc = "chain" /\ journal' = journal /\ run.pc = "readback"
    BY <1>21, RunMoves, Zenon DEF SaveReadback, Sync, Moves
  <2> QED BY <2>1, <1>c, <1>C, <1>N, <1>M, Zenon
<1>22. CASE restore_biolockout \/ restore_empty_reprovision_biolockout
  <2>1. /\ run'.pc = "lock" /\ journal' # <<>> /\ run'.cmd \in B /\ Milestone(journal') = Intent(run'.cmd)
    BY <1>22, JournalWrites, Zenon
  <2> QED BY <2>1, <1>l, <1>M, Zenon
<1>23. CASE LoadHead
  <2>1. run'.pc \in LockPCs /\ run.pc \in LockPCs /\ run'.cmd = run.cmd /\ journal' = journal
    BY <1>23, <1>M, RunMoves, Zenon DEF LoadHead, Lock, Moves
  <2> QED BY <2>1, <1>l, <1>L, Zenon
<1>24. CASE PublishBlob
  <2>1. run'.pc \in LockPCs /\ run.pc \in LockPCs /\ run'.cmd = run.cmd /\ journal' = journal
    BY <1>24, <1>M, RunMoves, Zenon DEF PublishBlob, Lock, Moves
  <2> QED BY <2>1, <1>l, <1>L, Zenon
<1>25. CASE PublishManifest
  <2>1. run'.pc \in LockPCs /\ run.pc \in LockPCs /\ run'.cmd = run.cmd /\ journal' = journal
    BY <1>25, <1>M, RunMoves, Zenon DEF PublishManifest, Lock, Moves
  <2> QED BY <2>1, <1>l, <1>L, Zenon
<1>26. CASE LockoutFails
  BY <1>26, <1>e, RunMoves, Zenon
<1>27. CASE LockoutLoaded
  <2>1. Ends \/ (run'.pc = "chain" /\ run.cmd # "none" /\ journal' # <<>>)
    BY <1>27, RunMoves, JournalWrites, Zenon DEF Moves
  <2> QED BY <2>1, <1>c, <1>e, Zenon
<1>28. CASE RestoreBegins
  <2>1. run' = Off \/ (run.pc = "off" /\ ~Pending /\ journal' = journal /\ run'.cmd = run.cmd
                        /\ run'.pc \in LockPCs \cup RestorePCs)
    BY <1>28, <1>M, RunMoves, Sources, Zenon DEF RestoreBegins, NothingPending, Restoring, Moves
  <2>2. run.pc = "off" => run.cmd = "none"
    BY <1>0, OffTyped, Zenon DEF RunInv
  <2> QED BY <2>1, <2>2, <1>e, <1>l, <1>r, PendingKept, Zenon DEF Ends
<1>29. CASE RestoreMaster
  <2>1. Ends \/ (run.pc \in RestorePCs /\ journal' = journal /\ run'.cmd = run.cmd
                  /\ run'.pc \in LockPCs \cup RestorePCs)
    BY <1>29, <1>M, RunMoves, Sources, Zenon DEF RestoreMaster, Restoring, Moves
  <2> QED BY <2>1, <1>R, <1>e, <1>l, <1>r, PendingKept, Zenon
<1>30. CASE RestoreUser
  <2>1. Ends \/ (run.pc \in RestorePCs /\ journal' = journal /\ run'.cmd = run.cmd
                  /\ run'.pc \in LockPCs \cup RestorePCs)
    BY <1>30, <1>M, RunMoves, Sources, Zenon DEF RestoreUser, Restoring, Moves
  <2> QED BY <2>1, <1>R, <1>e, <1>l, <1>r, PendingKept, Zenon
<1>31. CASE RestoreChecks
  <2>1. Ends \/ (run.pc \in RestorePCs /\ journal' = journal /\ run'.cmd = run.cmd
                  /\ run'.pc \in LockPCs \cup RestorePCs)
    BY <1>31, <1>M, RunMoves, Sources, Zenon DEF RestoreChecks, Restoring, Moves
  <2> QED BY <2>1, <1>R, <1>e, <1>l, <1>r, PendingKept, Zenon
<1>32. CASE hold_native_recovery \/ resume_native_recovery \/ abort_undispatched
  BY <1>32, <1>len, Zenon DEF hold_native_recovery, resume_native_recovery, abort_undispatched
<1>33. CASE UNCHANGED recoveryVars
  BY <1>33, <1>len, Zenon DEF recoveryVars
<1>34. CASE Crash \/ Reboot
  BY <1>34, <1>e, RunMoves, Zenon
<1> QED BY Cases, <1>1, <1>2, <1>3, <1>4, <1>5, <1>6, <1>7, <1>8, <1>9, <1>10, <1>11, <1>12, <1>13,
           <1>14, <1>15, <1>16, <1>17, <1>18, <1>19, <1>20, <1>21, <1>22, <1>23, <1>24, <1>25,
           <1>26, <1>27, <1>28, <1>29, <1>30, <1>31, <1>32, <1>33, <1>34, Zenon

\* A hold that is not there keeps the recovery where it is.
LEMMA HoldStep ==
    ASSUME RecoveryInv, StepCases
    PROVE  HoldInv'
<1>0. HoldInv /\ RunInv
  BY Zenon DEF RecoveryInv
<1> DEFINE Out == {"off"} \cup RestorePCs
<1>n. /\ \A p \in {"chain", "write", "sent", "replied", "save"} \cup SavePCs : p \notin Out \cup LockPCs
      /\ \A p \in Out : p \notin LockPCs
      /\ \A p \in {"restore_master", "restore_user", "check", "off"} : p \in Out
      /\ \A p \in {"lock", "publish", "manifest", "locked"} : p \in LockPCs
      /\ \A p \in {"stage", "user", "saved", "confirm", "confirmed", "master", "commit", "install",
                   "installed", "close", "readback"} : p \in SavePCs
  BY SMT DEF Staged, SavePCs, RestorePCs, LockPCs
<1>1. CASE hold'
  BY <1>1, Zenon DEF HoldInv
<1>2. CASE resume_native_recovery
  <2>1. run.pc = "off" /\ run' = run /\ journal' = journal /\ ~Pending
    BY <1>2, Zenon DEF resume_native_recovery
  <2>2. run'.pc \in Out /\ run'.pc \notin LockPCs /\ ~Pending'
    BY <2>1, <1>n, PendingKept, Zenon
  <2> HIDE DEF Pending
  <2> QED BY <2>2, Zenon DEF HoldInv
<1>3. CASE ~hold' /\ ~resume_native_recovery
  <2>1. hold' = hold /\ ~hold
    <3>1. hold_native_recovery => hold' = TRUE
      BY Zenon DEF hold_native_recovery
    <3>2. hold' = hold \/ hold_native_recovery \/ resume_native_recovery
      BY Frames, Zenon
    <3> QED BY <1>3, <3>1, <3>2, SMT
  <2>2. ~Pending /\ run.pc \in Out \cup LockPCs /\ (run.pc \in LockPCs => run.cmd = "none")
    BY <1>0, <2>1, Zenon DEF HoldInv
  <2>3. \A p \in {"chain", "write", "sent", "replied", "save"} \cup SavePCs : run.pc # p
    BY <2>2, <1>n, Zenon
  <2> HIDE DEF Out
  <2>4. /\ ~BeginRecovery /\ ~ResumeRecovery
        /\ ~Dispatch /\ ~RecordReply /\ ~ChainStep /\ ~CandidateBegun /\ ~CandidateWritten /\ ~EmptyReady
    BY <2>1, <2>3, Sources, Zenon DEF BeginRecovery, ResumeRecovery, ChainStep
  <2>5. /\ ~begin_catacomb_persistence /\ ~restore_biolockout /\ ~restore_empty_reprovision_biolockout
        /\ ~SaveIntent /\ ~SaveStage /\ ~SaveUser /\ ~SaveConfirmIntent /\ ~SaveConfirmUser
        /\ ~SaveMasterIntent /\ ~SaveMaster
    BY <2>3, <1>n, Sources, Zenon
  <2>6. ~SaveCommit /\ ~SaveInstall /\ ~SaveCommitted /\ ~SaveConfirmMaster /\ ~SaveReadback
    BY <2>3, <1>n, Sources, Zenon
  <2>7. ~LockoutFails /\ ~hold_native_recovery
    BY <2>2, <1>3, <1>n, Sources, Zenon DEF LockoutFails, hold_native_recovery
  <2>8. /\ journal' = journal
        /\ run'.pc \in Out \/ (run'.pc \in LockPCs /\ run'.cmd = "none")
    <3>1. CASE LoadHead \/ PublishBlob \/ PublishManifest
      <4>1. run.pc \in LockPCs /\ run'.pc \in LockPCs /\ run'.cmd = run.cmd
        BY <3>1, <1>n, RunMoves, Zenon DEF Moves
      <4>2. journal' = journal
        BY <3>1, Zenon DEF LoadHead, PublishBlob, PublishManifest, Lock
      <4> QED BY <2>2, <4>1, <4>2, Zenon
    <3>2. CASE LockoutLoaded
      <4>1. run.cmd = "none"
        BY <3>2, <2>2, <1>n, Sources, Zenon
      <4> QED BY <3>2, <4>1, <1>n, RunMoves, JournalWrites, EndsOff, Zenon
    <3>3. CASE RestoreBegins
      <4>1. run.cmd = "none" /\ journal' = journal
        BY <3>3, <1>0, Sources, OffTyped, Zenon DEF RunInv, RestoreBegins, Restoring
      <4>2. \E p \in {"lock", "restore_master", "restore_user"} : run'.pc = p /\ run'.cmd = run.cmd
        BY <3>3, RunMoves, Zenon DEF Moves
      <4> QED BY <4>1, <4>2, <1>n, Zenon
    <3>4. CASE RestoreMaster \/ RestoreUser \/ RestoreChecks
      <4>1. journal' = journal
        BY <3>4, Zenon DEF RestoreMaster, RestoreUser, RestoreChecks, Restoring
      <4>2. run.cmd = "none"
        BY <3>4, <1>0, Sources, Zenon DEF RunInv, RestorePCs
      <4>3. Ends \/ \E p \in {"lock", "restore_user", "check"} : run'.pc = p /\ run'.cmd = run.cmd
        BY <3>4, RunMoves, Zenon DEF Moves
      <4> QED BY <4>1, <4>2, <4>3, <1>n, EndsOff, Zenon
    <3>5. CASE Crash \/ Reboot
      <4>1. journal' = journal /\ Ends
        BY <3>5, RunMoves, Zenon DEF Crash, Reboot
      <4> QED BY <4>1, <1>n, EndsOff, Zenon
    <3>6. CASE abort_undispatched \/ UNCHANGED recoveryVars
      <4>1. journal' = journal /\ run' = run
        BY <3>6, Zenon DEF abort_undispatched, recoveryVars
      <4> QED BY <4>1, <2>2, Zenon
    <3> QED BY <1>3, <2>4, <2>5, <2>6, <2>7, <3>1, <3>2, <3>3, <3>4, <3>5, <3>6, Cases, Zenon
  <2>9. ~Pending'
    BY <2>2, <2>8, PendingKept, Zenon
  <2> QED BY <2>8, <2>9, <1>n, Zenon DEF HoldInv, Out
<1> QED BY <1>1, <1>2, <1>3, Zenon

\* What a resumed invocation may go on from without the acknowledgement.
LEMMA ResumeConsents ==
    ASSUME NEW h, ~Refuses(h, FALSE)
    PROVE  Milestone(h) \notin Paid
<1>1. /\ ~Ambiguous(Milestone(h)) /\ Milestone(h) \notin GenerationChanging
      /\ Milestone(h) # Rejected("CANONICAL_USER_LOAD")
  BY Zenon DEF Refuses
<1>2. Milestone(h) \notin {<<"MASTER_EXPORT", "PREPARED">>, <<"MASTER_EXPORT", "CAPTURED">>}
  BY <1>1, Zenon DEF Ambiguous
<1> QED BY <1>1, <1>2, Zenon DEF Paid

LEMMA ConsentStep ==
    ASSUME RecoveryInv, StepCases
    PROVE  ConsentInv'
<1>0. ConsentInv /\ RunInv /\ RunOK
  BY RecoveryParts, Zenon DEF RecoveryInv
<1> DEFINE On == {"chain", "write", "sent", "replied"}
<1>n. /\ \A p \in {"off", "save", "stage", "user", "saved", "confirm", "confirmed", "master", "commit",
                   "install", "installed", "close", "readback", "lock", "publish", "manifest", "locked",
                   "restore_master", "restore_user", "check"} : p \notin On
      /\ \A p \in {"sent", "replied"} : p \notin {"chain", "write"}
      /\ \A p \in {"chain", "write"} : p \notin {"sent", "replied"}
  BY SMT
<1>e. ASSUME run'.pc \notin On PROVE ConsentInv'
  BY <1>e, Zenon DEF ConsentInv
<1>c. ASSUME run'.pc \in {"chain", "write"}, run'.loss \/ Milestone(journal') \notin Paid PROVE ConsentInv'
  BY <1>c, <1>n, Zenon DEF ConsentInv
<1>s. ASSUME run'.pc \in {"sent", "replied"}, run'.loss \/ run'.cmd \in Loads PROVE ConsentInv'
  BY <1>s, <1>n, Zenon DEF ConsentInv
<1> HIDE DEF On
<1>1. CASE BeginRecovery
  BY <1>1, <1>c, RunMoves, Zenon
<1>2. CASE ResumeRecovery
  <2>1. run'.pc = "chain" /\ run'.loss \in BOOLEAN /\ ~Refuses(journal, run'.loss) /\ journal' = journal
    BY <1>2, RunMoves, Zenon DEF ResumeRecovery
  <2>2. CASE run'.loss = TRUE
    BY <2>1, <2>2, <1>c, Zenon
  <2>3. CASE run'.loss = FALSE
    BY <2>1, <2>3, <1>c, ResumeConsents, Zenon
  <2> QED BY <2>1, <2>2, <2>3, Zenon
<1>3. CASE Dispatch
  BY <1>0, <1>3, <1>s, RunMoves, Sources, Zenon DEF Moves, ConsentInv
<1>4. CASE RecordReply
  <2>1. /\ Ends \/ (run.reply = "ok" /\ run'.pc = "chain" /\ run'.loss = run.loss)
        /\ Milestone(journal') = ReplyRecord(run.cmd, run.reply) /\ run.pc = "replied"
    BY <1>4, RunMoves, Replied, Sources, Zenon DEF Moves
  <2>2. run.cmd \in Commands /\ (run.loss \/ run.cmd \in Loads)
    BY <2>1, <1>0, Zenon DEF RunInv, ConsentInv
  <2>3. run.reply \in {"none", "ok", "rejected", "unknown"}
    BY <1>0 DEF RunOK
  <2>4. run.reply = "ok" => run.loss \/ Milestone(journal') \notin Paid
    BY <2>1, <2>2, <2>3, ReplyName, Zenon
  <2> QED BY <2>1, <2>4, <1>c, <1>e, <1>n, EndsOff, Zenon
<1>5. CASE ChainStep
  <2>1. ASSUME NEW c \in Commands, Sending(c) PROVE ConsentInv'
    <3>1. run'.pc = "sent" /\ run'.cmd = c /\ run'.loss = run.loss /\ (~run.loss => c \in Loads)
      BY <2>1, RunMoves, Zenon DEF Sending
    <3> QED BY <3>1, <1>s, Zenon
  <2>2. ASSUME NEW r \in Entry, Recording(r) PROVE ConsentInv'
    <3>1. Milestone(journal') = r.m /\ run.pc = "chain"
      BY <2>2, JournalWrites, Sources, Zenon
    <3>2. Ends \/ (Moves(run.pc) /\ (~run.loss => r.m \notin Paid))
      <4>1. run' = Off \/ (~run.loss => r.m \notin Paid)
        BY <2>2, Zenon DEF Recording
      <4> QED BY <2>2, <4>1, RunMoves, Zenon DEF Ends
    <3> QED BY <3>1, <3>2, <1>c, <1>e, <1>n, EndsOff, Zenon DEF Moves
  <2> QED BY <1>5, <2>1, <2>2, Zenon DEF ChainStep
<1>6. CASE CandidateBegun \/ CandidateWritten
  <2>1. run'.pc \in {"chain", "write"} /\ run'.loss = run.loss /\ journal' = journal /\ run.pc \in {"chain", "write"}
    BY <1>6, RunMoves, Sources, Zenon DEF Moves, CandidateBegun, CandidateWritten
  <2> QED BY <2>1, <1>0, <1>c, Zenon DEF ConsentInv
<1>7. CASE begin_catacomb_persistence
  <2>1. (run'.pc = "chain" \/ run'.pc = "save") /\ Milestone(journal') = Intent("CATACOMB_PERSISTENCE")
    BY <1>7, RunMoves, JournalWrites, Zenon DEF Moves
  <2>2. Intent("CATACOMB_PERSISTENCE") \notin Paid
    BY NameSets, Zenon DEF FreeNames
  <2> QED BY <2>1, <2>2, <1>c, <1>e, <1>n, Zenon
<1>8. CASE SaveReadback
  <2>1. run'.pc = "chain" /\ journal' = journal /\ run.pc = "readback"
    BY <1>8, RunMoves, Zenon DEF Moves, SaveReadback, Sync
  <2>2. Milestone(journal) \in {Intent("CATACOMB_PERSISTENCE"), Ready}
    BY <2>1, <1>0, Zenon DEF RunInv, SavePCs
  <2>3. Intent("CATACOMB_PERSISTENCE") \notin Paid /\ Ready \notin Paid
    BY NameSets, Zenon DEF FreeNames
  <2> QED BY <2>1, <2>2, <2>3, <1>c, Zenon
<1>9. CASE LockoutLoaded
  <2>1. \/ Ends
        \/ run'.pc = "chain" /\ Milestone(journal') \in {Proven("BIOLOCKOUT"), Proven("EMPTY_REPROVISION_BIOLOCKOUT")}
    BY <1>9, RunMoves, JournalWrites, Zenon DEF Moves
  <2>2. Proven("BIOLOCKOUT") \notin Paid /\ Proven("EMPTY_REPROVISION_BIOLOCKOUT") \notin Paid
    BY NameSets, Zenon DEF FreeNames
  <2> QED BY <2>1, <2>2, <1>c, <1>e, <1>n, EndsOff, Zenon
<1>10. CASE \/ SaveIntent \/ SaveStage \/ SaveUser \/ SaveConfirmIntent \/ SaveConfirmUser \/ SaveMasterIntent
            \/ SaveMaster \/ SaveCommit \/ SaveInstall \/ SaveCommitted \/ SaveConfirmMaster \/ EmptyReady
  <2>1. run'.pc \in {"save", "stage", "user", "saved", "confirm", "confirmed", "master", "commit", "install",
                     "installed", "close", "readback"}
    BY <1>10, RunMoves, Zenon DEF Moves
  <2> QED BY <2>1, <1>e, <1>n, Zenon
<1>11. CASE \/ restore_biolockout \/ restore_empty_reprovision_biolockout \/ LoadHead \/ PublishBlob
            \/ PublishManifest \/ LockoutFails \/ RestoreBegins \/ RestoreMaster \/ RestoreUser \/ RestoreChecks
            \/ Crash \/ Reboot
  <2>1. run'.pc \in {"off", "lock", "publish", "manifest", "locked", "restore_master", "restore_user", "check"}
    BY <1>11, RunMoves, EndsOff, Zenon DEF Moves
  <2> QED BY <2>1, <1>e, <1>n, Zenon
<1>12. CASE hold_native_recovery \/ resume_native_recovery \/ abort_undispatched \/ UNCHANGED recoveryVars
  <2>1. run' = run /\ journal' = journal
    BY <1>12, Zenon DEF hold_native_recovery, resume_native_recovery, abort_undispatched, recoveryVars
  <2> QED BY <2>1, <1>0, Zenon DEF ConsentInv
<1> QED BY Cases, <1>1, <1>2, <1>3, <1>4, <1>5, <1>6, <1>7, <1>8, <1>9, <1>10, <1>11, <1>12, Zenon

\* The manifest that is published last is the highest, and its blob is there.
LEMMA LockStep ==
    ASSUME RecoveryInv, StepCases
    PROVE  LockInv'
<1>0. LockInv /\ lockout \in [blobs : Seq(Nat), manifests : SUBSET Nat, own : Nat]
  BY RecoveryParts, Zenon DEF RecoveryInv, LockoutOK
<1>1. CASE lockout' = lockout
  BY <1>0, <1>1, Zenon DEF LockInv
<1>2. CASE PublishBlob
  <2> DEFINE b == Append(lockout.blobs, lockout.own)
  <2>1. lockout' = [lockout EXCEPT !.blobs = b]
    BY <1>2, Zenon DEF PublishBlob
  <2>2. Len(b) = Len(lockout.blobs) + 1 /\ Len(lockout.blobs) \in Nat
    BY <1>0
  <2> HIDE DEF b
  <2>3. lockout'.blobs = b /\ lockout'.manifests = lockout.manifests
    BY <1>0, <2>1
  <2>4. \A m \in lockout.manifests : m \in 1..Len(b)
    BY <1>0, <2>2 DEF LockInv
  <2> QED BY <1>0, <2>3, <2>4, Zenon DEF LockInv
<1>3. CASE PublishManifest
  <2> DEFINE n == Len(lockout.blobs)
             M == lockout.manifests \cup {n}
  <2>1. lockout' = [lockout EXCEPT !.manifests = M]
    BY <1>3, Zenon DEF PublishManifest
  <2>2. n \in Nat /\ lockout.manifests \subseteq Nat
    BY <1>0
  <2>3. \A m \in lockout.manifests : m \in 1..n
    BY <1>0, Zenon DEF LockInv
  <2>4. PICK m \in lockout.manifests : TRUE
    BY <1>0, Zenon DEF LockInv
  <2> HIDE DEF n
  <2>5. n \in 1..n
    BY <2>2, <2>3, <2>4
  <2>6. (\A len \in M : len \in 1..n) /\ \A len \in M : n >= len
    BY <2>2, <2>3, <2>5
  <2>7. n \in M
    OBVIOUS
  <2> HIDE DEF M
  <2>8. lockout'.manifests = M /\ lockout'.blobs = lockout.blobs
    BY <1>0, <2>1
  <2> QED BY <2>6, <2>7, <2>8, Zenon DEF LockInv, n
<1> QED BY <1>1, <1>2, <1>3, Frames, Zenon

\* A save from its intent to its end, and the template the SEP counts as saved.
CleanInv == sep.ids # {} /\ sep.user = 3 => sep.ver = host.ver \/ ext.records \in 3..5

LEMMA SaveStep ==
    ASSUME RecoveryInv, StepCases, ~Foreign
    PROVE  SaveInv'
<1>0. SaveInv /\ CleanInv /\ SepOK /\ HostOK /\ ExtOK
  BY RecoveryParts, Zenon DEF RecoveryInv, SaveInv, CleanInv
<1> DEFINE Idle == {"off", "chain", "write", "sent", "replied", "save", "lock", "publish", "manifest", "locked",
                    "restore_master", "restore_user", "check"}
<1>i. ASSUME run'.pc \in Idle, CleanInv' PROVE SaveInv'
  BY <1>i, SMT DEF SaveInv, CleanInv, Staged
<1>e. ext \in [records : 0..7, base : Archive, txn : {"none", "prepare", "commit"},
               ids : SUBSET Ids, ver : Nat]
  BY <1>0, Zenon DEF ExtOK
<1>h. sep \in SepStates
  BY <1>0, Zenon DEF SepOK, SepStates
\* No other command of the chain, and no load, leaves a clean template that is not the archive's.
<1>len. ASSUME NEW s \in SepStates, Kept(s), sep' = s, host' = host, ext' = ext PROVE CleanInv'
  BY <1>len, <1>0, Zenon DEF Kept, CleanInv
<1>1. CASE Dispatch
  <2>1. run'.pc = "replied" /\ host' = host /\ ext' = ext
    BY <1>1, RunMoves, Zenon DEF Dispatch, Rest, Moves
  <2> QED BY <1>1, <2>1, <1>len, <1>i, DispatchShape, Zenon
<1>2. CASE RestoreMaster \/ RestoreUser
  <2>1. \/ sep' = sep
        \/ sep' \in Applied("CANONICAL_MASTER_LOAD") \cup Refused("CANONICAL_MASTER_LOAD")
        \/ sep' \in Applied("CANONICAL_USER_LOAD") \cup Refused("CANONICAL_USER_LOAD")
    BY <1>2, Zenon DEF RestoreMaster, RestoreUser
  <2>2. "CANONICAL_MASTER_LOAD" \in Commands /\ "CANONICAL_USER_LOAD" \in Commands
    BY Zenon DEF Commands
  <2>3. host' = host /\ ext' = ext
    BY <1>2, Zenon DEF RestoreMaster, RestoreUser, Restoring
  <2>4. Kept(sep)
    BY Zenon DEF Kept
  <2>5. CleanInv'
    BY <1>0, <1>h, <1>len, <2>1, <2>2, <2>3, <2>4, AppliedShape, Zenon
  <2>6. run'.pc \in Idle
    BY <1>2, RunMoves, EndsOff, Zenon DEF Moves
  <2> QED BY <2>5, <2>6, <1>i, Zenon
<1>3. CASE Reboot
  <2>1. \A s \in ColdStart \cup {RetainedMaster} : s.ids = {}
    BY DEF ColdStart, RetainedMaster
  <2>2. ForeignDelete = {}
    BY SMT DEF ForeignDelete
  <2>3. sep' = sep \/ sep'.ids = {}
    BY <1>3, <2>1, <2>2, Zenon DEF Reboot
  <2>4. host' = host /\ ext' = ext /\ run'.pc = "off"
    BY <1>3, RunMoves, EndsOff, Zenon DEF Reboot
  <2>5. CleanInv'
    BY <1>0, <2>3, <2>4, Zenon DEF CleanInv
  <2> QED BY <2>4, <2>5, <1>i, Zenon
<1>4. CASE \/ BeginRecovery \/ ResumeRecovery \/ RecordReply \/ ChainStep \/ CandidateBegun \/ CandidateWritten
           \/ EmptyReady \/ begin_catacomb_persistence
  <2>1. sep' = sep /\ host' = host /\ ext' = ext
    BY <1>4, Zenon DEF BeginRecovery, ResumeRecovery, RecordReply, ChainStep, Sending, Recording, CandidateBegun,
       CandidateWritten, EmptyReady, begin_catacomb_persistence, Files, Same, Rest
  <2>2. run'.pc \in Idle
    BY <1>4, RunMoves, EndsOff, Sources, Zenon DEF Moves, ChainStep
  <2> QED BY <1>0, <2>1, <2>2, <1>i, Zenon DEF CleanInv
<1>5. CASE \/ restore_biolockout \/ restore_empty_reprovision_biolockout \/ LoadHead \/ PublishBlob
           \/ PublishManifest \/ LockoutFails \/ LockoutLoaded \/ RestoreBegins \/ RestoreChecks \/ Crash
  <2>1. sep' = sep /\ host' = host /\ ext' = ext
    BY <1>5, Zenon DEF restore_biolockout, restore_empty_reprovision_biolockout, LoadHead, PublishBlob,
       PublishManifest, LockoutFails, LockoutLoaded, RestoreBegins, RestoreChecks, Crash, Lock, Restoring, Same, Rest
  <2>2. run'.pc \in Idle
    BY <1>5, RunMoves, EndsOff, Zenon DEF Moves
  <2> QED BY <1>0, <2>1, <2>2, <1>i, Zenon DEF CleanInv
<1>6. CASE abort_undispatched
  <2>1. run' = run /\ run.pc = "off" /\ sep' = sep /\ host' = host /\ ext.records = 1
    BY <1>6, Zenon DEF abort_undispatched
  <2>2. 1 \notin 3..5
    OBVIOUS
  <2> QED BY <1>0, <2>1, <2>2, <1>i, Zenon DEF CleanInv
<1>7. CASE hold_native_recovery \/ resume_native_recovery \/ UNCHANGED recoveryVars
  <2>1. run' = run /\ sep' = sep /\ host' = host /\ ext' = ext
    BY <1>7, Zenon DEF hold_native_recovery, resume_native_recovery, recoveryVars
  <2> QED BY <1>0, <2>1, Zenon DEF SaveInv
<1>8. CASE SaveIntent
  <2>1. run.pc = "save" /\ run'.pc = "stage"
    BY <1>8, RunMoves, Zenon DEF Moves
  <2>2. sep' = sep /\ host' = host /\ ext'.records = 1 /\ ext.records \notin 1..6
    <3>1. ext' = [NoSave EXCEPT !.records = 1, !.base = host, !.ids = sep.ids]
      BY <1>8, Zenon DEF SaveIntent
    <3>2. ext'.records = 1
      BY <3>1 DEF NoSave
    <3>3. sep' = sep /\ host' = host /\ ext.records \notin 1..6
      BY <1>8, Zenon DEF SaveIntent, Saving
    <3> QED BY <3>2, <3>3, Zenon
  <2>3. ext.records \in 0..7 /\ sep'.user \in {0, 1, 3, 5, 7}
    <3>1. SepOK'
      BY SepTyped, Zenon
    <3> QED BY <1>e, <3>1 DEF SepOK
  <2> QED BY <1>0, <2>1, <2>2, <2>3, SMT DEF SaveInv, Staged
<1>9. CASE SaveStage
  <2>1. run.pc = "stage" /\ run'.pc = "user"
    BY <1>9, RunMoves, Zenon DEF Moves
  <2>2. sep' = sep /\ host' = host /\ ext'.records = ext.records
    <3>1. ext' = [ext EXCEPT !.txn = "prepare"] /\ sep' = sep /\ host' = host
      BY <1>9, Zenon DEF SaveStage
    <3> QED BY <3>1, <1>e
  <2>3. ext.records \in 0..7 /\ sep'.user \in {0, 1, 3, 5, 7}
    <3>1. SepOK'
      BY SepTyped, Zenon
    <3> QED BY <1>e, <3>1 DEF SepOK
  <2> QED BY <1>0, <2>1, <2>2, <2>3, SMT DEF SaveInv, Staged
<1>10. CASE SaveUser
  <2>1. run.pc = "user" /\ run'.pc = "saved"
    BY <1>10, RunMoves, Zenon DEF Moves
  <2>2. sep' = sep /\ host' = host /\ ext'.records = 2 /\ ext'.ver = sep.ver
    <3>1. ext' = [ext EXCEPT !.records = 2, !.ver = sep.ver] /\ sep' = sep /\ host' = host
      BY <1>10, Zenon DEF SaveUser
    <3> QED BY <3>1, <1>e
  <2>3. ext.records \in 0..7 /\ sep'.user \in {0, 1, 3, 5, 7}
    <3>1. SepOK'
      BY SepTyped, Zenon
    <3> QED BY <1>e, <3>1 DEF SepOK
  <2> QED BY <1>0, <2>1, <2>2, <2>3, SMT DEF SaveInv, Staged
<1>11. CASE SaveConfirmIntent
  <2>1. run.pc = "saved" /\ run'.pc = "confirm"
    BY <1>11, RunMoves, Zenon DEF Moves
  <2>2. sep' = sep /\ host' = host /\ ext'.records = 3 /\ ext'.ver = ext.ver
    <3>1. ext' = [ext EXCEPT !.records = 3] /\ sep' = sep /\ host' = host
      BY <1>11, Zenon DEF SaveConfirmIntent, Records
    <3> QED BY <3>1, <1>e
  <2>3. ext.records \in 0..7 /\ sep'.user \in {0, 1, 3, 5, 7}
    <3>1. SepOK'
      BY SepTyped, Zenon
    <3> QED BY <1>e, <3>1 DEF SepOK
  <2> QED BY <1>0, <2>1, <2>2, <2>3, SMT DEF SaveInv, Staged
<1>12. CASE SaveConfirmUser
  <2>1. run.pc = "confirm" /\ run'.pc = "confirmed"
    BY <1>12, RunMoves, Zenon DEF Moves
  <2>2. ext' = ext /\ host' = host /\ sep'.ids = sep.ids /\ sep'.ver = sep.ver
    <3> DEFINE t == Clean(sep.user)
    <3>1. sep' = [sep EXCEPT !.user = t] /\ ext' = ext /\ host' = host
      BY <1>12, Zenon DEF SaveConfirmUser
    <3> HIDE DEF t
    <3> QED BY <3>1, <1>h DEF SepStates
  <2>3. ext.records \in 0..7 /\ sep'.user \in {0, 1, 3, 5, 7}
    <3>1. SepOK'
      BY SepTyped, Zenon
    <3> QED BY <1>e, <3>1 DEF SepOK
  <2> QED BY <1>0, <2>1, <2>2, <2>3, SMT DEF SaveInv, Staged
<1>13. CASE SaveMasterIntent
  <2>1. run.pc = "confirmed" /\ run'.pc = "master"
    BY <1>13, RunMoves, Zenon DEF Moves
  <2>2. sep' = sep /\ host' = host /\ ext'.records = 4 /\ ext'.ver = ext.ver
    <3>1. ext' = [ext EXCEPT !.records = 4] /\ sep' = sep /\ host' = host
      BY <1>13, Zenon DEF SaveMasterIntent, Records
    <3> QED BY <3>1, <1>e
  <2>3. ext.records \in 0..7 /\ sep'.user \in {0, 1, 3, 5, 7}
    <3>1. SepOK'
      BY SepTyped, Zenon
    <3> QED BY <1>e, <3>1 DEF SepOK
  <2> QED BY <1>0, <2>1, <2>2, <2>3, SMT DEF SaveInv, Staged
<1>14. CASE SaveMaster
  <2>1. run.pc = "master" /\ run'.pc = "commit"
    BY <1>14, RunMoves, Zenon DEF Moves
  <2>2. sep' = sep /\ host' = host /\ ext'.records = 5 /\ ext'.ver = ext.ver
    <3>1. ext' = [ext EXCEPT !.records = 5] /\ sep' = sep /\ host' = host
      BY <1>14, Zenon DEF SaveMaster, Records
    <3> QED BY <3>1, <1>e
  <2>3. ext.records \in 0..7 /\ sep'.user \in {0, 1, 3, 5, 7}
    <3>1. SepOK'
      BY SepTyped, Zenon
    <3> QED BY <1>e, <3>1 DEF SepOK
  <2> QED BY <1>0, <2>1, <2>2, <2>3, SMT DEF SaveInv, Staged
<1>15. CASE SaveCommit
  <2>1. run.pc = "commit" /\ run'.pc = "install"
    BY <1>15, RunMoves, Zenon DEF Moves
  <2>2. sep' = sep /\ host' = host /\ ext'.records = ext.records /\ ext'.ver = ext.ver
    <3>1. ext' = [ext EXCEPT !.txn = "commit"] /\ sep' = sep /\ host' = host
      BY <1>15, Zenon DEF SaveCommit
    <3> QED BY <3>1, <1>e
  <2>3. ext.records \in 0..7 /\ sep'.user \in {0, 1, 3, 5, 7}
    <3>1. SepOK'
      BY SepTyped, Zenon
    <3> QED BY <1>e, <3>1 DEF SepOK
  <2> QED BY <1>0, <2>1, <2>2, <2>3, SMT DEF SaveInv, Staged
<1>16. CASE SaveInstall
  <2>1. run.pc = "install" /\ run'.pc = "installed"
    BY <1>16, RunMoves, Zenon DEF Moves
  <2>2. sep' = sep /\ host'.ver = ext.ver /\ ext'.records = ext.records /\ ext'.ver = ext.ver
    <3>1. ext' = [ext EXCEPT !.txn = "none"] /\ sep' = sep /\ host' = [ids |-> ext.ids, ver |-> ext.ver]
      BY <1>16, Zenon DEF SaveInstall
    <3> QED BY <3>1, <1>e
  <2>3. ext.records \in 0..7 /\ sep'.user \in {0, 1, 3, 5, 7}
    <3>1. SepOK'
      BY SepTyped, Zenon
    <3> QED BY <1>e, <3>1 DEF SepOK
  <2> QED BY <1>0, <2>1, <2>2, <2>3, SMT DEF SaveInv, Staged
<1>17. CASE SaveCommitted
  <2>1. run.pc = "installed" /\ run'.pc = "close"
    BY <1>17, RunMoves, Zenon DEF Moves
  <2>2. sep' = sep /\ host' = host /\ ext'.records = 6 /\ ext'.ver = ext.ver
    <3>1. ext' = [ext EXCEPT !.records = 6] /\ sep' = sep /\ host' = host
      BY <1>17, Zenon DEF SaveCommitted, Records
    <3> QED BY <3>1, <1>e
  <2>3. ext.records \in 0..7 /\ sep'.user \in {0, 1, 3, 5, 7}
    <3>1. SepOK'
      BY SepTyped, Zenon
    <3> QED BY <1>e, <3>1 DEF SepOK
  <2> QED BY <1>0, <2>1, <2>2, <2>3, SMT DEF SaveInv, Staged
<1>18. CASE SaveConfirmMaster
  <2>1. run.pc = "close" /\ run'.pc = "readback"
    BY <1>18, RunMoves, Zenon DEF Moves
  <2>2. ext' = ext /\ host' = host /\ sep'.ids = sep.ids /\ sep'.ver = sep.ver /\ sep'.user = sep.user
    <3> DEFINE t == Clean(sep.master)
    <3>1. sep' = [sep EXCEPT !.master = t] /\ ext' = ext /\ host' = host
      BY <1>18, Zenon DEF SaveConfirmMaster
    <3> HIDE DEF t
    <3> QED BY <3>1, <1>h DEF SepStates
  <2>3. ext.records \in 0..7 /\ sep'.user \in {0, 1, 3, 5, 7}
    <3>1. SepOK'
      BY SepTyped, Zenon
    <3> QED BY <1>e, <3>1 DEF SepOK
  <2> QED BY <1>0, <2>1, <2>2, <2>3, SMT DEF SaveInv, Staged
<1>19. CASE SaveReadback
  <2>1. run.pc = "readback" /\ run'.pc = "chain"
    BY <1>19, RunMoves, Zenon DEF Moves
  <2>2. sep' = sep /\ host' = host /\ ext'.records = 7 /\ ext'.ver = ext.ver
    <3>1. ext' = [ext EXCEPT !.records = 7] /\ sep' = sep /\ host' = host
      BY <1>19, Zenon DEF SaveReadback, Records
    <3> QED BY <3>1, <1>e
  <2>3. ext.records \in 0..7 /\ sep'.user \in {0, 1, 3, 5, 7}
    <3>1. SepOK'
      BY SepTyped, Zenon
    <3> QED BY <1>e, <3>1 DEF SepOK
  <2> QED BY <1>0, <2>1, <2>2, <2>3, SMT DEF SaveInv, Staged
<1> QED BY Cases, <1>1, <1>2, <1>3, <1>4, <1>5, <1>6, <1>7, <1>8, <1>9, <1>10, <1>11, <1>12, <1>13,
           <1>14, <1>15, <1>16, <1>17, <1>18, <1>19, Zenon

\* Milestones that a proof of the saved user is not.
LEMMA NotSaved ==
    /\ \A c \in Commands \cup {"CATACOMB_PERSISTENCE", "BIOLOCKOUT_LOAD", "EMPTY_REPROVISION_BIOLOCKOUT"} :
          Intent(c) # Proven("SAVED_USER") /\ Unknown(c) # Proven("SAVED_USER")
    /\ Proven("SAVED_USER") \notin {Ready, Proven("BASELINE"), Proven("BIOLOCKOUT"), RecoveryComplete,
                                    EmptyComplete, Proven("EMPTY_REPROVISION_BIOLOCKOUT")}
<1>1. /\ \A s : Intent(s)[2] = "INTENT" /\ Unknown(s)[2] = "OUTCOME_UNKNOWN"
      /\ Proven("SAVED_USER")[2] = "RECONCILED"
  BY SMT DEF Intent, Unknown, Proven
<1>2. "INTENT" # "RECONCILED" /\ "OUTCOME_UNKNOWN" # "RECONCILED"
  BY SMT
<1>3. Proven("SAVED_USER") \notin {Ready, Proven("BASELINE"), Proven("BIOLOCKOUT"), RecoveryComplete,
                                   EmptyComplete, Proven("EMPTY_REPROVISION_BIOLOCKOUT")}
  BY SMT DEF Proven, Ready, RecoveryComplete, EmptyComplete
<1> QED BY <1>1, <1>2, <1>3, Zenon

\* A journal that is proven to hold the saved user, and a save without an acknowledged loss.
SavedInv == journal # <<>> /\ Milestone(journal) = Proven("SAVED_USER") => sep.ids \in {{}, host.ids}

LEMMA SavedStep ==
    ASSUME RecoveryInv, StepCases, ~Foreign
    PROVE  SavedInv'
<1>0. SavedInv /\ RunInv
  BY Zenon DEF RecoveryInv, LossInv, SavedInv
<1>n. ASSUME Milestone(journal') # Proven("SAVED_USER") PROVE SavedInv'
  BY <1>n, Zenon DEF SavedInv
<1>s. ASSUME journal' = journal, host' = host, sep'.ids = sep.ids PROVE SavedInv'
  BY <1>s, <1>0, Zenon DEF SavedInv
<1>1. CASE BeginRecovery
  BY <1>1, <1>n, Begun, NotSaved, Zenon
<1>2. CASE RecordReply
  <2>1. run.cmd \in Commands /\ run.reply \in {"none", "ok", "rejected", "unknown"}
    <3>1. RunOK
      BY RecoveryParts, Zenon DEF RecoveryInv
    <3>2. run.reply \in {"none", "ok", "rejected", "unknown"}
      BY <3>1 DEF RunOK
    <3> QED BY <1>0, <1>2, <3>2, Sources, Zenon DEF RunInv
  <2> QED BY <1>2, <1>n, <2>1, Replied, ReplyName, Zenon
<1>3. CASE ChainStep
  <2>1. ASSUME NEW c \in Commands, Sending(c) PROVE SavedInv'
    BY <2>1, <1>n, JournalWrites, NotSaved, Zenon
  <2>2. ASSUME NEW r \in Entry, Recording(r) PROVE SavedInv'
    <3>1. Milestone(journal') = r.m /\ (r.m = Proven("SAVED_USER") => sep.ids = host.ids)
      BY <2>2, JournalWrites, Zenon DEF Recording, Evidence
    <3>2. sep' = sep /\ host' = host
      BY <2>2, Zenon DEF Recording
    <3> QED BY <3>1, <3>2, Zenon DEF SavedInv
  <2> QED BY <1>3, <2>1, <2>2, Zenon DEF ChainStep
<1>4. CASE EmptyReady
  BY <1>4, <1>n, JournalWrites, NotSaved, Zenon
<1>5. CASE begin_catacomb_persistence
  BY <1>5, <1>n, JournalWrites, NotSaved, Zenon
<1>6. CASE restore_biolockout \/ restore_empty_reprovision_biolockout
  <2>1. PICK c \in {"BIOLOCKOUT_LOAD", "EMPTY_REPROVISION_BIOLOCKOUT"} : Milestone(journal') = Intent(c)
    BY <1>6, JournalWrites, Zenon
  <2> QED BY <2>1, <1>n, NotSaved, Zenon
<1>7. CASE LockoutFails
  <2>1. run.cmd \in {"BIOLOCKOUT_LOAD", "EMPTY_REPROVISION_BIOLOCKOUT"}
    BY <1>7, <1>0, Zenon DEF LockoutFails, RunInv, LockPCs
  <2> QED BY <1>7, <2>1, <1>n, JournalWrites, NotSaved, Zenon
<1>8. CASE LockoutLoaded
  <2>1. sep' = sep /\ host' = host
    BY <1>8, Zenon DEF LockoutLoaded, Same, Rest
  <2> QED BY <1>8, <2>1, <1>n, <1>s, JournalWrites, NotSaved, Zenon
<1>9. CASE Dispatch
  <2>1. run.cmd \in Commands /\ Milestone(journal') = Intent(run.cmd)
    BY <1>9, <1>0, Sources, Zenon DEF RunInv, Dispatch
  <2> QED BY <2>1, <1>n, NotSaved, Zenon
<1>10. CASE Save
  <2>1. run.pc \in {"save"} \cup SavePCs /\ journal' = journal
    BY <1>10, Zenon DEF Save, SaveIntent, SaveStage, SaveUser, SaveConfirmIntent, SaveConfirmUser,
       SaveMasterIntent, SaveMaster, SaveCommit, SaveInstall, SaveCommitted, SaveConfirmMaster, SaveReadback,
       Sync, SavePCs, Staged
  <2>2. Milestone(journal') \in {Intent("CATACOMB_PERSISTENCE"), Ready}
    BY <2>1, <1>0, Zenon DEF RunInv
  <2> QED BY <2>2, <1>n, NotSaved, Zenon
<1>11. CASE RestoreMaster \/ RestoreUser
  <2>1. run.pc \in RestorePCs /\ journal' = journal
    BY <1>11, Zenon DEF RestoreMaster, RestoreUser, Restoring, RestorePCs
  <2>2. journal = <<>> \/ Milestone(journal) \in {RecoveryComplete, EmptyComplete}
    BY <2>1, <1>0, Zenon DEF RunInv, Pending, Complete
  <2> QED BY <2>1, <2>2, NotSaved, Zenon DEF SavedInv
<1>12. CASE Reboot
  <2>1. \A s \in ColdStart \cup {RetainedMaster} : s.ids = {}
    BY DEF ColdStart, RetainedMaster
  <2>2. ForeignDelete = {}
    BY SMT DEF ForeignDelete
  <2>3. sep' = sep \/ sep'.ids = {}
    BY <1>12, <2>1, <2>2, Zenon DEF Reboot
  <2>4. host' = host /\ journal' = journal
    BY <1>12, Zenon DEF Reboot
  <2> QED BY <1>0, <2>3, <2>4, Zenon DEF SavedInv
<1>13. CASE /\ journal' = journal /\ sep' = sep /\ host' = host
  BY <1>13, <1>s, Zenon
<1> QED BY Frames, <1>1, <1>2, <1>3, <1>4, <1>5, <1>6, <1>7, <1>8, <1>9, <1>10, <1>11, <1>12, <1>13, Zenon
       DEF Save

LEMMA LossStep ==
    ASSUME RecoveryInv, StepCases, ~Foreign
    PROVE  LossInv'
<1>0. LossInv /\ RunInv /\ SavedInv'
  BY SavedStep, Zenon DEF RecoveryInv
<1>e. ext \in [records : 0..7, base : Archive, txn : {"none", "prepare", "commit"},
               ids : SUBSET Ids, ver : Nat] /\ sep \in SepStates
  BY RecoveryParts, Zenon DEF RecoveryInv, ExtOK, SepOK, SepStates
<1> DEFINE On == {"save", "stage", "user"} \cup Staged
<1>n. /\ \A p \in {"off", "chain", "write", "sent", "replied", "installed", "close", "readback", "lock",
                   "publish", "manifest", "locked", "restore_master", "restore_user", "check"} : p \notin On
      /\ "save" \notin {"stage", "user"} \cup Staged
      /\ \A p \in {"stage", "user", "saved", "confirm", "confirmed", "master", "commit", "install"} :
            p \in {"stage", "user"} \cup Staged /\ p # "save"
  BY SMT DEF Staged
<1>o. ASSUME run'.pc \notin On PROVE LossInv'
  BY <1>o, <1>0, Zenon DEF LossInv, SavedInv
<1>a. ASSUME run'.pc = "save", run'.loss \/ sep'.ids = host'.ids PROVE LossInv'
  BY <1>a, <1>0, <1>n, Zenon DEF LossInv, SavedInv
<1>b. ASSUME run'.pc \in {"stage", "user", "saved", "confirm", "confirmed", "master", "commit", "install"},
             run'.loss \/ ext'.ids = host'.ids PROVE LossInv'
  BY <1>b, <1>0, <1>n, Zenon DEF LossInv, SavedInv
<1> HIDE DEF On
<1>1. CASE EmptyReady
  <2>1. run'.pc = "save" /\ run'.loss
    BY <1>1, RunMoves, Zenon DEF Moves, EmptyReady
  <2> QED BY <2>1, <1>a, Zenon
<1>2. CASE begin_catacomb_persistence
  <2>1. run'.pc = "chain" \/ run'.pc = "save"
    BY <1>2, RunMoves, Zenon DEF Moves
  <2>2. /\ sep' = sep /\ host' = host /\ run.pc = "chain"
        /\ Milestone(journal) = Proven("SAVED_USER") /\ sep.ids # {}
    BY <1>2, Zenon DEF begin_catacomb_persistence, Same, Rest, At
  <2>3. journal # <<>>
    <3>1. "chain" \notin {"off"} \cup RestorePCs \cup LockPCs
      BY SMT DEF RestorePCs, LockPCs
    <3> QED BY <1>0, <2>2, <3>1, Zenon DEF RunInv
  <2>4. sep.ids = host.ids
    BY <1>0, <2>2, <2>3, Zenon DEF LossInv
  <2> QED BY <2>1, <2>2, <2>4, <1>a, <1>o, <1>n, Zenon
<1>3. CASE SaveIntent
  <2>1. run.pc = "save" /\ run'.pc = "stage" /\ run'.loss = run.loss
    BY <1>3, RunMoves, Zenon DEF Moves
  <2>2. ext' = [NoSave EXCEPT !.records = 1, !.base = host, !.ids = sep.ids] /\ host' = host
    BY <1>3, Zenon DEF SaveIntent
  <2>3. ext'.ids = sep.ids
    BY <2>2 DEF NoSave
  <2>4. run.loss \/ sep.ids = host.ids
    BY <1>0, <2>1, Zenon DEF LossInv
  <2> QED BY <2>1, <2>2, <2>3, <2>4, <1>b, Zenon
<1>4. CASE \/ SaveStage \/ SaveUser \/ SaveConfirmIntent \/ SaveConfirmUser \/ SaveMasterIntent
           \/ SaveMaster \/ SaveCommit
  <2>1. /\ run.pc \in {"stage", "user", "saved", "confirm", "confirmed", "master", "commit", "install"}
        /\ run'.pc \in {"stage", "user", "saved", "confirm", "confirmed", "master", "commit", "install"}
        /\ run'.loss = run.loss
    BY <1>4, RunMoves, Zenon DEF Moves
  <2>2. host' = host
    BY <1>4, Zenon DEF SaveStage, SaveUser, SaveConfirmIntent, SaveConfirmUser, SaveMasterIntent, SaveMaster,
       SaveCommit, Records
  <2>3. \/ ext' = ext
        \/ \E t \in {"prepare", "commit"} : ext' = [ext EXCEPT !.txn = t]
        \/ \E n \in {3, 4, 5} : ext' = [ext EXCEPT !.records = n]
        \/ ext' = [ext EXCEPT !.records = 2, !.ver = sep.ver]
    BY <1>4, Zenon DEF SaveStage, SaveUser, SaveConfirmIntent, SaveConfirmUser, SaveMasterIntent, SaveMaster,
       SaveCommit, Records
  <2>4. ext'.ids = ext.ids
    BY <1>e, <2>3
  <2>5. run.loss \/ ext.ids = host.ids
    BY <1>0, <1>n, <2>1, Zenon DEF LossInv
  <2> QED BY <2>1, <2>2, <2>4, <2>5, <1>b, Zenon
<1>5. CASE SaveInstall \/ SaveCommitted \/ SaveConfirmMaster \/ SaveReadback
  BY <1>5, <1>o, <1>n, RunMoves, Zenon DEF Moves
<1>6. CASE \/ BeginRecovery \/ ResumeRecovery \/ Dispatch \/ RecordReply \/ CandidateBegun \/ CandidateWritten
  BY <1>6, <1>o, <1>n, RunMoves, EndsOff, Zenon DEF Moves
<1>7. CASE ChainStep
  <2>1. run'.pc \in {"off", "chain", "sent"}
    BY <1>7, RunMoves, Sources, EndsOff, Zenon DEF Moves, ChainStep
  <2> QED BY <2>1, <1>o, <1>n, Zenon
<1>8. CASE \/ restore_biolockout \/ restore_empty_reprovision_biolockout \/ LoadHead \/ PublishBlob
           \/ PublishManifest \/ LockoutFails \/ LockoutLoaded \/ RestoreBegins \/ RestoreMaster \/ RestoreUser
           \/ RestoreChecks \/ Crash \/ Reboot
  <2>1. run'.pc \in {"off", "chain", "lock", "publish", "manifest", "locked", "restore_master", "restore_user",
                     "check"}
    BY <1>8, RunMoves, EndsOff, Zenon DEF Moves
  <2> QED BY <2>1, <1>o, <1>n, Zenon
<1>9. CASE hold_native_recovery \/ resume_native_recovery \/ abort_undispatched
  <2>1. run' = run /\ run.pc = "off"
    BY <1>9, Sources, Zenon DEF hold_native_recovery, resume_native_recovery, abort_undispatched
  <2> QED BY <2>1, <1>o, <1>n, Zenon
<1>10. CASE UNCHANGED recoveryVars
  <2>1. run' = run /\ sep' = sep /\ host' = host /\ ext' = ext /\ journal' = journal
    BY <1>10, Zenon DEF recoveryVars
  <2> QED BY <1>0, <2>1, Zenon DEF LossInv
<1> QED BY Cases, <1>1, <1>2, <1>3, <1>4, <1>5, <1>6, <1>7, <1>8, <1>9, <1>10, Zenon

\* The histories older versions left: sequences of milestones, cut and put together.
Word(s, n) == s \in Seq(Names) /\ Len(s) = n

LEMMA Cat ==
    ASSUME NEW s, NEW t, NEW m \in Nat, NEW n \in Nat, Word(s, m), Word(t, n)
    PROVE  Word(s \o t, m + n)
  BY DEF Word

LEMMA Cut ==
    ASSUME NEW s, NEW m \in Nat, Word(s, m), NEW n \in 0..m
    PROVE  Word(Upto(s, n), n) /\ Word(From(s, n), m - n)
<1>1. s \in Seq(Names) /\ Len(s) = m
  BY DEF Word
<1>2. Upto(s, n) = [i \in 1..n |-> s[i]]
  BY <1>1 DEF Upto
<1>3. Word(Upto(s, n), n)
  <2>1. \A i \in 1..n : s[i] \in Names
    BY <1>1
  <2> HIDE DEF Names
  <2> QED BY <1>2, <2>1 DEF Word
<1>4. From(s, n) = [i \in 1..(m - n) |-> s[i + n]]
  BY <1>1 DEF From
<1>5. Word(From(s, n), m - n)
  <2>1. \A i \in 1..(m - n) : s[i + n] \in Names
    BY <1>1
  <2>2. m - n \in Nat
    OBVIOUS
  <2> QED BY <1>4, <2>1, <2>2 DEF Word
<1> QED BY <1>3, <1>5

LEMMA Letters ==
    ASSUME NEW a \in Names, NEW b \in Names, NEW c \in Names, NEW d \in Names,
           NEW e \in Names, NEW f \in Names, NEW g \in Names, NEW h \in Names
    PROVE  /\ Word(<<a>>, 1) /\ Word(<<a, b>>, 2) /\ Word(<<a, b, c>>, 3)
           /\ Word(<<a, b, c, d, e, f>>, 6) /\ Word(<<a, b, c, d, e, f, g, h>>, 8)
<1>1. Word(<<a>>, 1)
  BY SMT DEF Word
<1>2. Word(<<a, b>>, 2)
  BY SMT DEF Word
<1>3. Word(<<a, b, c>>, 3)
  BY SMT DEF Word
<1>4. Word(<<a, b, c, d, e, f>>, 6)
  BY SMT DEF Word
<1>5. Word(<<a, b, c, d, e, f, g, h>>, 8)
  BY SMT DEF Word
<1> QED BY <1>1, <1>2, <1>3, <1>4, <1>5, Zenon

LEMMA SUCCESSWord == Word(SUCCESS, 15)
<1>1. Word(<<Proven("BASELINE")>>, 1)
  <2>1. Proven("BASELINE") \in Names
    BY SMT DEF Names, Steps, Outcomes, Commands, Proven
  <2> QED BY <2>1, Letters, Zenon
<1>2. Word(Command("PREPARE_MASTER"), 2)
  <2>1. Intent("PREPARE_MASTER") \in Names /\ Accepted("PREPARE_MASTER") \in Names
    BY SMT DEF Names, Steps, Outcomes, Commands, Accepted, Intent
  <2> QED BY <2>1, Letters, Zenon DEF Command
<1>3. Word(Command("PREPARE_USER"), 2)
  <2>1. Intent("PREPARE_USER") \in Names /\ Accepted("PREPARE_USER") \in Names
    BY SMT DEF Names, Steps, Outcomes, Commands, Accepted, Intent
  <2> QED BY <2>1, Letters, Zenon DEF Command
<1>4. Word(<<Selected("CLIENT_VERSION"), Proven("MISSING_COMPONENTS")>>, 2)
  <2>1. Selected("CLIENT_VERSION") \in Names /\ Proven("MISSING_COMPONENTS") \in Names
    BY SMT DEF Names, Steps, Outcomes, Commands, Proven, Selected
  <2> QED BY <2>1, Letters, Zenon
<1>5. Word(Command("SAVED_USER_LOAD"), 2)
  <2>1. Intent("SAVED_USER_LOAD") \in Names /\ Accepted("SAVED_USER_LOAD") \in Names
    BY SMT DEF Names, Steps, Outcomes, Commands, Accepted, Intent
  <2> QED BY <2>1, Letters, Zenon DEF Command
<1>6. Word(<<Proven("SAVED_USER"), Intent("CATACOMB_PERSISTENCE"), PersistenceProven,
               Intent("BIOLOCKOUT_LOAD"), Proven("BIOLOCKOUT"), RecoveryComplete>>, 6)
  <2>1. Proven("SAVED_USER") \in Names /\ Intent("CATACOMB_PERSISTENCE") \in Names /\
        PersistenceProven \in Names /\ Intent("BIOLOCKOUT_LOAD") \in Names /\
        Proven("BIOLOCKOUT") \in Names /\ RecoveryComplete \in Names
    BY SMT DEF Names, Steps, Outcomes, Commands, Intent, PersistenceProven, Proven, RecoveryComplete
  <2> QED BY <2>1, Letters, Zenon
<1> DEFINE w1 == <<Proven("BASELINE")>>
           w2 == Command("PREPARE_MASTER")
           w3 == Command("PREPARE_USER")
           w4 == <<Selected("CLIENT_VERSION"), Proven("MISSING_COMPONENTS")>>
           w5 == Command("SAVED_USER_LOAD")
           w6 == <<Proven("SAVED_USER"), Intent("CATACOMB_PERSISTENCE"), PersistenceProven,
                Intent("BIOLOCKOUT_LOAD"), Proven("BIOLOCKOUT"), RecoveryComplete>>
<1>7. Word(w1, 1) /\ Word(w2, 2) /\ Word(w3, 2) /\ Word(w4, 2) /\ Word(w5, 2) /\ Word(w6, 6)
  BY <1>1, <1>2, <1>3, <1>4, <1>5, <1>6, Zenon
<1>8. SUCCESS = w1 \o w2 \o w3 \o w4 \o w5 \o w6
  BY Zenon DEF SUCCESS
<1> HIDE DEF w1, w2, w3, w4, w5, w6
<1>9. Word(w1 \o w2, 3)
  BY <1>7, <1>7, Cat
<1>10. Word(w1 \o w2 \o w3, 5)
  BY <1>7, <1>9, Cat
<1>11. Word(w1 \o w2 \o w3 \o w4, 7)
  BY <1>7, <1>10, Cat
<1>12. Word(w1 \o w2 \o w3 \o w4 \o w5, 9)
  BY <1>7, <1>11, Cat
<1>13. Word(w1 \o w2 \o w3 \o w4 \o w5 \o w6, 15)
  BY <1>7, <1>12, Cat
<1> QED BY <1>8, <1>13, Zenon

LEMMA RESCUEWord == Word(RESCUE, 32)
<1>1. Word(Upto(SUCCESS, 6), 6)
  <2>1. 6 \in 0..15 /\ 15 \in Nat
    OBVIOUS
  <2> QED BY <2>1, SUCCESSWord, Cut, Zenon
<1>2. Word(<<BadState("MISSING_COMPONENTS"), Proven("LOADED_EMPTY_USER")>>, 2)
  <2>1. BadState("MISSING_COMPONENTS") \in Names /\ Proven("LOADED_EMPTY_USER") \in Names
    BY SMT DEF Names, Steps, Outcomes, Commands, BadState, Proven
  <2> QED BY <2>1, Letters, Zenon
<1>3. Word(Command("REMOVE_EMPTY_USER"), 2)
  <2>1. Intent("REMOVE_EMPTY_USER") \in Names /\ Accepted("REMOVE_EMPTY_USER") \in Names
    BY SMT DEF Names, Steps, Outcomes, Commands, Accepted, Intent
  <2> QED BY <2>1, Letters, Zenon DEF Command
<1>4. Word(<<Proven("REMOVED_USER"), Intent("MASTER_EXPORT_PREPARE"), <<"MASTER_EXPORT",
               "PREPARED">>, Intent("MASTER_EXPORT_COMPLETE"), <<"MASTER_EXPORT", "CAPTURED">>,
               Intent("MASTER_EXPORT_CONFIRM"), <<"MASTER_EXPORT", "CONFIRMED">>, Settled>>, 8)
  <2>1. Proven("REMOVED_USER") \in Names /\ Intent("MASTER_EXPORT_PREPARE") \in Names /\
        <<"MASTER_EXPORT", "PREPARED">> \in Names /\ Intent("MASTER_EXPORT_COMPLETE") \in Names
        /\ <<"MASTER_EXPORT", "CAPTURED">> \in Names /\ Intent("MASTER_EXPORT_CONFIRM") \in
        Names /\ <<"MASTER_EXPORT", "CONFIRMED">> \in Names /\ Settled \in Names
    BY SMT DEF Names, Steps, Outcomes, Commands, Intent, Proven, Settled
  <2> QED BY <2>1, Letters, Zenon
<1>5. Word(Command("REPREPARE_MASTER"), 2)
  <2>1. Intent("REPREPARE_MASTER") \in Names /\ Accepted("REPREPARE_MASTER") \in Names
    BY SMT DEF Names, Steps, Outcomes, Commands, Accepted, Intent
  <2> QED BY <2>1, Letters, Zenon DEF Command
<1>6. Word(Command("REPREPARE_USER"), 2)
  <2>1. Intent("REPREPARE_USER") \in Names /\ Accepted("REPREPARE_USER") \in Names
    BY SMT DEF Names, Steps, Outcomes, Commands, Accepted, Intent
  <2> QED BY <2>1, Letters, Zenon DEF Command
<1>7. Word(<<Selected("RECLIENT_VERSION"), Proven("MISSING_COMPONENTS")>>, 2)
  <2>1. Selected("RECLIENT_VERSION") \in Names /\ Proven("MISSING_COMPONENTS") \in Names
    BY SMT DEF Names, Steps, Outcomes, Commands, Proven, Selected
  <2> QED BY <2>1, Letters, Zenon
<1>8. Word(From(SUCCESS, 7), 8)
  <2>1. 7 \in 0..15 /\ 15 \in Nat
    OBVIOUS
  <2>2. 15 - 7 = 8
    OBVIOUS
  <2> QED BY <2>1, <2>2, SUCCESSWord, Cut, Zenon
<1> DEFINE w1 == Upto(SUCCESS, 6)
           w2 == <<BadState("MISSING_COMPONENTS"), Proven("LOADED_EMPTY_USER")>>
           w3 == Command("REMOVE_EMPTY_USER")
           w4 == <<Proven("REMOVED_USER"), Intent("MASTER_EXPORT_PREPARE"), <<"MASTER_EXPORT",
                "PREPARED">>, Intent("MASTER_EXPORT_COMPLETE"), <<"MASTER_EXPORT", "CAPTURED">>,
                Intent("MASTER_EXPORT_CONFIRM"), <<"MASTER_EXPORT", "CONFIRMED">>, Settled>>
           w5 == Command("REPREPARE_MASTER")
           w6 == Command("REPREPARE_USER")
           w7 == <<Selected("RECLIENT_VERSION"), Proven("MISSING_COMPONENTS")>>
           w8 == From(SUCCESS, 7)
<1>9. /\ Word(w1, 6) /\ Word(w2, 2) /\ Word(w3, 2) /\ Word(w4, 8)
      /\ Word(w5, 2) /\ Word(w6, 2) /\ Word(w7, 2) /\ Word(w8, 8)
  BY <1>1, <1>2, <1>3, <1>4, <1>5, <1>6, <1>7, <1>8, Zenon
<1>10. RESCUE = w1 \o w2 \o w3 \o w4 \o w5 \o w6 \o w7 \o w8
  BY Zenon DEF RESCUE
<1> HIDE DEF w1, w2, w3, w4, w5, w6, w7, w8
<1>11. Word(w1 \o w2, 8)
  BY <1>9, <1>9, Cat
<1>12. Word(w1 \o w2 \o w3, 10)
  BY <1>9, <1>11, Cat
<1>13. Word(w1 \o w2 \o w3 \o w4, 18)
  BY <1>9, <1>12, Cat
<1>14. Word(w1 \o w2 \o w3 \o w4 \o w5, 20)
  BY <1>9, <1>13, Cat
<1>15. Word(w1 \o w2 \o w3 \o w4 \o w5 \o w6, 22)
  BY <1>9, <1>14, Cat
<1>16. Word(w1 \o w2 \o w3 \o w4 \o w5 \o w6 \o w7, 24)
  BY <1>9, <1>15, Cat
<1>17. Word(w1 \o w2 \o w3 \o w4 \o w5 \o w6 \o w7 \o w8, 32)
  BY <1>9, <1>16, Cat
<1> QED BY <1>10, <1>17, Zenon

LEMMA COLD_RESCUEWord == Word(COLD_RESCUE, 37)
<1>1. Word(Upto(RESCUE, 23), 23)
  <2>1. 23 \in 0..32 /\ 32 \in Nat
    OBVIOUS
  <2> QED BY <2>1, RESCUEWord, Cut, Zenon
<1>2. Word(<<BadState("REPREPARED_COMPONENTS"), Prepared("COLD_RESTART"),
               Proven("COLD_SURFACE")>>, 3)
  <2>1. BadState("REPREPARED_COMPONENTS") \in Names /\ Prepared("COLD_RESTART") \in Names /\
        Proven("COLD_SURFACE") \in Names
    BY SMT DEF Names, Steps, Outcomes, Commands, BadState, Prepared, Proven
  <2> QED BY <2>1, Letters, Zenon
<1>3. Word(Command("RETAINED_MASTER_LOAD"), 2)
  <2>1. Intent("RETAINED_MASTER_LOAD") \in Names /\ Accepted("RETAINED_MASTER_LOAD") \in Names
    BY SMT DEF Names, Steps, Outcomes, Commands, Accepted, Intent
  <2> QED BY <2>1, Letters, Zenon DEF Command
<1>4. Word(<<Proven("COLD_MASTER")>>, 1)
  <2>1. Proven("COLD_MASTER") \in Names
    BY SMT DEF Names, Steps, Outcomes, Commands, Proven
  <2> QED BY <2>1, Letters, Zenon
<1>5. Word(From(SUCCESS, 7), 8)
  <2>1. 7 \in 0..15 /\ 15 \in Nat
    OBVIOUS
  <2>2. 15 - 7 = 8
    OBVIOUS
  <2> QED BY <2>1, <2>2, SUCCESSWord, Cut, Zenon
<1> DEFINE w1 == Upto(RESCUE, 23)
           w2 == <<BadState("REPREPARED_COMPONENTS"), Prepared("COLD_RESTART"),
                Proven("COLD_SURFACE")>>
           w3 == Command("RETAINED_MASTER_LOAD")
           w4 == <<Proven("COLD_MASTER")>>
           w5 == From(SUCCESS, 7)
<1>6. Word(w1, 23) /\ Word(w2, 3) /\ Word(w3, 2) /\ Word(w4, 1) /\ Word(w5, 8)
  BY <1>1, <1>2, <1>3, <1>4, <1>5, Zenon
<1>7. COLD_RESCUE = w1 \o w2 \o w3 \o w4 \o w5
  BY Zenon DEF COLD_RESCUE
<1> HIDE DEF w1, w2, w3, w4, w5
<1>8. Word(w1 \o w2, 26)
  BY <1>6, <1>6, Cat
<1>9. Word(w1 \o w2 \o w3, 28)
  BY <1>6, <1>8, Cat
<1>10. Word(w1 \o w2 \o w3 \o w4, 29)
  BY <1>6, <1>9, Cat
<1>11. Word(w1 \o w2 \o w3 \o w4 \o w5, 37)
  BY <1>6, <1>10, Cat
<1> QED BY <1>7, <1>11, Zenon

LEMMA RejectionColdWord == Word(RejectionCold, 33)
<1>1. Word(Upto(COLD_RESCUE, 30), 30)
  <2>1. 30 \in 0..37 /\ 37 \in Nat
    OBVIOUS
  <2> QED BY <2>1, COLD_RESCUEWord, Cut, Zenon
<1>2. Word(<<Rejected("SAVED_USER_LOAD")>>, 1)
  <2>1. Rejected("SAVED_USER_LOAD") \in Names
    BY SMT DEF Names, Steps, Outcomes, Commands, Rejected
  <2> QED BY <2>1, Letters, Zenon
<1>3. Word(Restarted, 2)
  <2>1. Prepared("CANONICAL_RESTART") \in Names /\ Proven("CANONICAL_COLD_SURFACE") \in Names
    BY SMT DEF Names, Steps, Outcomes, Commands, Prepared, Proven
  <2> QED BY <2>1, Letters, Zenon DEF Restarted
<1> DEFINE w1 == Upto(COLD_RESCUE, 30)
           w2 == <<Rejected("SAVED_USER_LOAD")>>
           w3 == Restarted
<1>4. Word(w1, 30) /\ Word(w2, 1) /\ Word(w3, 2)
  BY <1>1, <1>2, <1>3, Zenon
<1>5. RejectionCold = w1 \o w2 \o w3
  BY Zenon DEF RejectionCold
<1> HIDE DEF w1, w2, w3
<1>6. Word(w1 \o w2, 31)
  BY <1>4, <1>4, Cat
<1>7. Word(w1 \o w2 \o w3, 33)
  BY <1>4, <1>6, Cat
<1> QED BY <1>5, <1>7, Zenon

LEMMA OldTyped ==
    ASSUME NEW names, NEW n \in Nat, Word(names, n), NEW status \in BOOLEAN
    PROVE  Old(names, status) \in Seq(Entry)
<1>1. DOMAIN names = 1..n /\ Len(names) = n /\ \A i \in 1..n : names[i] \in Names
  BY DEF Word
<1> DEFINE rec(i) == [m |-> names[i], surface |-> <<>>, boot |-> 0, ver |-> 1,
                      ids |-> IF i = 1 THEN Ids ELSE {},
                      status |-> status /\ i = Len(names)]
<1>2. ASSUME NEW i \in 1..n PROVE rec(i) \in Entry
  <2> DEFINE x == names[i]
             d == IF i = 1 THEN Ids ELSE {}
             t == status /\ i = Len(names)
             e == <<>>
             M == Steps \X Outcomes
             T == {<<>>} \cup (0..7) \X (0..7)
             Q == 0..MaxBoots
  <2>1. x \in M
    BY <1>1, Zenon DEF Names
  <2>2. d \in SUBSET Ids /\ t \in BOOLEAN /\ e \in T
    OBVIOUS
  <2>3. 0 \in Q /\ 1 \in Nat
    BY RecoveryAssumption
  <2>4. Entry = [m : M, surface : T, ids : SUBSET Ids, status : BOOLEAN, ver : Nat, boot : Q]
    BY DEF Entry
  <2>5. rec(i) = [m |-> x, surface |-> e, boot |-> 0, ver |-> 1, ids |-> d, status |-> t]
    OBVIOUS
  <2> HIDE DEF x, d, t, e, M, T, Q, rec
  <2> QED BY <2>1, <2>2, <2>3, <2>4, <2>5
<1>3. Old(names, status) = [i \in 1..n |-> rec(i)]
  BY <1>1, Zenon DEF Old
<1> HIDE DEF rec
<1> QED BY <1>2, <1>3

LEMMA OldJournalsTyped == OldJournals \subseteq Seq(Entry)
<1>1. ASSUME NEW n \in 26..30 PROVE Old(Upto(COLD_RESCUE, n), FALSE) \in Seq(Entry)
  <2>1. n \in 0..37 /\ 37 \in Nat /\ n \in Nat
    OBVIOUS
  <2>2. Word(Upto(COLD_RESCUE, n), n)
    BY <2>1, COLD_RESCUEWord, Cut, Zenon
  <2>3. FALSE \in BOOLEAN
    OBVIOUS
  <2> QED BY <2>1, <2>2, <2>3, OldTyped, Zenon
<1>2. Old(Upto(RejectionCold, 31), FALSE) \in Seq(Entry)
  <2>1. 31 \in 0..33 /\ 33 \in Nat /\ 31 \in Nat /\ FALSE \in BOOLEAN
    OBVIOUS
  <2>2. Word(Upto(RejectionCold, 31), 31)
    BY <2>1, RejectionColdWord, Cut, Zenon
  <2> QED BY <2>1, <2>2, OldTyped, Zenon
<1>3. Word(DirectCold, 26) /\ Word(RejectionCold, 33)
  <2>1. 26 \in 0..37 /\ 37 \in Nat
    OBVIOUS
  <2> QED BY <2>1, COLD_RESCUEWord, RejectionColdWord, Cut, Zenon DEF DirectCold
<1>4. Word(MASTER_REPLY, 3)
  <2>1. /\ Intent("CANONICAL_MASTER_LOAD") \in Names /\ Rejected("CANONICAL_MASTER_LOAD") \in Names
        /\ Proven("CANONICAL_MASTER_REPLY") \in Names
    BY SMT DEF Names, Steps, Outcomes, Commands, Intent, Rejected, Proven
  <2> QED BY <2>1, Letters, Zenon DEF MASTER_REPLY
<1> DEFINE u == <<Intent("CANONICAL_USER_LOAD"), Rejected("CANONICAL_USER_LOAD")>>
<1>5. Word(u, 2)
  <2>1. Intent("CANONICAL_USER_LOAD") \in Names /\ Rejected("CANONICAL_USER_LOAD") \in Names
    BY SMT DEF Names, Steps, Outcomes, Commands, Intent, Rejected
  <2> QED BY <2>1, Letters, Zenon
<1> HIDE DEF u
<1>6. ASSUME NEW cold \in {DirectCold, RejectionCold}
      PROVE  \E n \in Nat : Word(cold \o MASTER_REPLY, n)
  <2>1. PICK n \in Nat : Word(cold, n)
    BY <1>3
  <2>2. Word(cold \o MASTER_REPLY, n + 3) /\ n + 3 \in Nat
    BY <1>4, <2>1, Cat
  <2> QED BY <2>2, Zenon
<1>7. ASSUME NEW cold \in {DirectCold, RejectionCold}
      PROVE  \E n \in Nat : Word(RejectedUser(cold), n)
  <2>1. PICK n \in Nat : Word(cold \o MASTER_REPLY, n)
    BY <1>6
  <2> DEFINE w == cold \o MASTER_REPLY
  <2>2. Word(w, n)
    BY <2>1
  <2> HIDE DEF w
  <2>3. Word(w \o u, n + 2) /\ n + 2 \in Nat
    BY <1>5, <2>2, Cat
  <2> QED BY <2>3, Zenon DEF w, u, RejectedUser
<1>8. ASSUME NEW cold \in {DirectCold, RejectionCold}, NEW st \in BOOLEAN
      PROVE  /\ Old(cold \o MASTER_REPLY, FALSE) \in Seq(Entry)
             /\ Old(RejectedUser(cold), st) \in Seq(Entry)
  <2>1. FALSE \in BOOLEAN
    OBVIOUS
  <2> QED BY <1>6, <1>7, <2>1, OldTyped, Zenon
<1>9. ASSUME NEW h \in OldJournals PROVE h \in Seq(Entry)
  <2>1. \/ h \in {Old(Upto(COLD_RESCUE, n), FALSE) : n \in 26..30}
        \/ h \in {Old(Upto(RejectionCold, 31), FALSE)}
        \/ h \in {Old(cold \o MASTER_REPLY, FALSE) : cold \in {DirectCold, RejectionCold}}
        \/ h \in {Old(RejectedUser(DirectCold), st) : st \in BOOLEAN}
        \/ h \in {Old(RejectedUser(RejectionCold), st) : st \in BOOLEAN}
    BY <1>9, Zenon DEF OldJournals
  <2>2. CASE h \in {Old(Upto(COLD_RESCUE, n), FALSE) : n \in 26..30}
    BY <1>1, <2>2, Zenon
  <2>3. CASE h \in {Old(cold \o MASTER_REPLY, FALSE) : cold \in {DirectCold, RejectionCold}}
    <3>1. TRUE \in BOOLEAN
      OBVIOUS
    <3> QED BY <1>8, <2>3, <3>1, Zenon
  <2>4. CASE h \in {Old(RejectedUser(DirectCold), st) : st \in BOOLEAN}
    BY <1>8, <2>4, Zenon
  <2>5. CASE h \in {Old(RejectedUser(RejectionCold), st) : st \in BOOLEAN}
    BY <1>8, <2>5, Zenon
  <2> QED BY <1>2, <2>1, <2>2, <2>3, <2>4, <2>5, Zenon
<1> QED BY <1>9, Zenon

\* The initial states: nothing runs, no save is open, and the T2 holds no template.
LEMMA RecoveryInitial ==
    ASSUME RecoveryInit
    PROVE  RecoveryInv
<1>1. /\ host = [ids |-> Ids, ver |-> 1] /\ sep \in ColdStart \cup {RetainedMaster}
      /\ ext = NoSave /\ candidate = "none" /\ hold = (journal # <<>>) /\ boot = 1 /\ run = Off
      /\ sent = [c \in Commands |-> 0] /\ recoveries = 0
  BY Zenon DEF RecoveryInit
<1>2. journal \in Seq(Entry)
  <2>1. journal = <<>> \/ journal \in OldJournals
    BY Zenon DEF RecoveryInit
  <2>2. <<>> \in Seq(Entry)
    OBVIOUS
  <2> QED BY <2>1, <2>2, OldJournalsTyped, Zenon
<1>3. PICK own \in {1, 2} : lockout = [blobs |-> <<1>>, manifests |-> {1}, own |-> own]
  BY Zenon DEF RecoveryInit
<1>4. RecoveryTypeOK
  <2>1. JournalOK
    BY <1>2, Zenon DEF JournalOK
  <2>2. SepOK
    BY <1>1 DEF SepOK, ColdStart, RetainedMaster
  <2>3. HostOK
    BY <1>1 DEF HostOK, Archive
  <2>4. ExtOK
    BY <1>1 DEF ExtOK, NoSave, Archive
  <2>5. LockoutOK
    <3> DEFINE b == <<1>>
               q == {1}
    <3>1. b \in Seq(Nat) /\ q \in SUBSET Nat /\ own \in Nat
      OBVIOUS
    <3>2. lockout = [blobs |-> b, manifests |-> q, own |-> own]
      BY <1>3
    <3> HIDE DEF b, q
    <3> QED BY <3>1, <3>2 DEF LockoutOK
  <2>6. RunOK
    BY <1>1, OffTyped, Zenon DEF RunOK
  <2>7. BoundsOK
    <3>1. boot \in 1..MaxBoots /\ recoveries \in 0..MaxRecoveries
      BY <1>1, RecoveryAssumption
    <3>2. sent \in [Commands -> Nat]
      BY <1>1
    <3> QED BY <3>1, <3>2, Zenon DEF BoundsOK
  <2> QED BY <2>1, <2>2, <2>3, <2>4, <2>5, <2>6, <2>7, RecoveryParts, Zenon
<1>5. run.pc = "off" /\ sep.ids = {} /\ (journal # <<>> => hold)
  <2>1. sep.ids = {}
    BY <1>1 DEF ColdStart, RetainedMaster
  <2>2. journal # <<>> => hold
    <3> SUFFICES ASSUME journal # <<>> PROVE hold
      OBVIOUS
    <3>1. (journal # <<>>) = TRUE
      OBVIOUS
    <3>2. hold = TRUE
      BY <1>1, <3>1
    <3> QED BY <3>2, Zenon
  <2> QED BY <1>1, <2>1, <2>2, OffTyped, Zenon
<1>6. RunInv
  BY <1>1, <1>5, SMT DEF RunInv, Staged, SavePCs, RestorePCs, LockPCs
<1>7. HoldInv
  <2>1. "off" \notin LockPCs
    BY SMT DEF LockPCs
  <2> QED BY <1>5, <2>1, Zenon DEF HoldInv, Pending
<1>8. SaveInv
  BY <1>5, SMT DEF SaveInv, Staged
<1>9. LockInv
  <2>1. lockout.manifests = {1} /\ Len(lockout.blobs) = 1
    BY <1>3
  <2> QED BY <2>1 DEF LockInv
<1>10. ConsentInv
  BY <1>5, SMT DEF ConsentInv
<1>11. LossInv
  BY <1>5, SMT DEF LossInv, Staged
<1> QED BY <1>4, <1>6, <1>7, <1>8, <1>9, <1>10, <1>11, Zenon DEF RecoveryInv

LEMMA RecoveryInductive ==
    ASSUME RecoveryInv, [RecoveryNext]_recoveryVars, ~Foreign
    PROVE  RecoveryInv'
<1>1. StepCases
  BY StepShapes, Zenon
<1>2. RecoveryTypeOK' /\ RunInv' /\ HoldInv' /\ SaveInv' /\ LockInv' /\ ConsentInv' /\ LossInv'
  BY <1>1, RecoveryTyped, RunStep, HoldStep, SaveStep, LockStep, ConsentStep, LossStep, Zenon
<1> QED BY <1>2, Zenon DEF RecoveryInv

\* The inductive invariant of the restore and recovery of the saved state, for every
\* set of fingers and every bound, when no other system deletes fingers.
THEOREM RecoveryInvariance ==
    ASSUME ~Foreign
    PROVE  RecoverySpec => []RecoveryInv
<1>1. RecoveryInit => RecoveryInv
  BY RecoveryInitial
<1>2. RecoveryInv /\ [RecoveryNext]_recoveryVars => RecoveryInv'
  BY RecoveryInductive
<1> QED BY <1>1, <1>2, PTL DEF RecoverySpec

\* Whatever the T2 answers and wherever a command is killed or the machine restarted,
\* what the SEP counts as saved is in the archive once no save is open, the BioLockout
\* head is readable, and an open recovery is held.
THEOREM SavedStateAlwaysHolds ==
    ASSUME ~Foreign
    PROVE  RecoverySpec => []SavedStateHolds
<1>1. RecoveryInv => SavedStateHolds
  <2> SUFFICES ASSUME RecoveryInv PROVE SavedStateHolds
    OBVIOUS
  <2>1. CleanIsSaved
    <3>1. SaveInv
      BY Zenon DEF RecoveryInv
    <3>2. \A n \in 3..5 : n \in 1..6
      OBVIOUS
    <3> QED BY <3>1, <3>2, Zenon DEF SaveInv, CleanIsSaved, Saving
  <2>2. LockoutReadable
    <3>1. LockInv /\ lockout \in [blobs : Seq(Nat), manifests : SUBSET Nat, own : Nat]
      BY RecoveryParts, Zenon DEF RecoveryInv, LockoutOK
    <3>2. Max(lockout.manifests) \in lockout.manifests
      BY <3>1, Zenon DEF LockInv, Max
    <3>3. DOMAIN lockout.blobs = 1..Len(lockout.blobs)
      BY <3>1
    <3> QED BY <3>1, <3>2, <3>3, Zenon DEF LockInv, LockoutReadable
  <2>3. HoldCoversRecovery
    BY Zenon DEF RecoveryInv, HoldInv, HoldCoversRecovery
  <2> QED BY <2>1, <2>2, <2>3, Zenon DEF SavedStateHolds
<1> QED BY <1>1, RecoveryInvariance, PTL

\* No invocation changes the generation the SEP holds, or the identities of the archive,
\* unless it was given the acknowledgement itself, however the one before it ended.
THEOREM LossAlwaysConsented ==
    ASSUME ~Foreign
    PROVE  RecoverySpec => LossConsented
<1>1. RecoveryInv /\ [RecoveryNext]_recoveryVars => [ConsentFirst /\ LossIsAcknowledged]_recoveryVars
  <2> SUFFICES ASSUME RecoveryInv, [RecoveryNext]_recoveryVars PROVE ConsentFirst /\ LossIsAcknowledged
    BY Zenon
  <2>0. StepCases /\ BoundsOK /\ ConsentInv /\ LossInv /\ RunOK
    BY StepShapes, RecoveryParts, Zenon DEF RecoveryInv
  <2>1. ConsentFirst
    <3> SUFFICES ASSUME NEW c \in Commands \ Loads, sent'[c] > sent[c] PROVE run.loss
      BY Zenon DEF ConsentFirst
    <3>1. sent \in [Commands -> Nat] /\ sent[c] \in Nat
      BY <2>0, Zenon DEF BoundsOK
    <3>2. sent' # sent
      BY <3>1
    <3>3. CASE BeginRecovery
      <4>1. sent' = [d \in Commands |-> 0]
        BY <3>3, Zenon DEF BeginRecovery
      <4>2. sent'[c] = 0
        BY <4>1, Zenon
      <4> QED BY <3>1, <4>2
    <3>4. CASE Dispatch
      <4>1. sent' = [sent EXCEPT ![run.cmd] = @ + 1] /\ run.pc = "sent"
        BY <3>4, Sources, Zenon DEF Dispatch
      <4>2. c # run.cmd => sent'[c] = sent[c]
        BY <3>1, <4>1, Zenon
      <4>3. c = run.cmd
        BY <3>1, <4>2
      <4> QED BY <2>0, <4>1, <4>3, Zenon DEF ConsentInv
    <3> QED BY <2>0, <3>2, <3>3, <3>4, Frames, Zenon
  <2>2. LossIsAcknowledged
    <3> SUFFICES ASSUME host'.ids # host.ids PROVE run.loss
      BY Zenon DEF LossIsAcknowledged
    <3>1. SaveInstall
      BY <2>0, Frames, Zenon
    <3>2. host' = [ids |-> ext.ids, ver |-> ext.ver] /\ run.pc = "install"
      BY <3>1, Zenon DEF SaveInstall, Sync
    <3>3. host'.ids = ext.ids
      BY <3>2
    <3>4. "install" \in {"stage", "user"} \cup Staged
      BY Zenon DEF Staged
    <3> QED BY <2>0, <3>2, <3>3, <3>4, Zenon DEF LossInv
  <2> QED BY <2>1, <2>2, Zenon
<1> QED BY <1>1, RecoveryInvariance, PTL DEF RecoverySpec, LossConsented

\* No save is open while the chain runs.
IdleInv == \/ run.pc \in {"chain", "write", "sent", "replied", "save"}
           \/ run.pc \in LockPCs /\ run.cmd # "none"
           => ext.records \notin 1..6

\* A T2 that was proven cold, or is about to be loaded, still is.
ColdInv == /\ journal # <<>> /\ Milestone(journal) \in ColdNames => sep.master = 1
           /\ run.pc = "sent" /\ run.cmd = "CANONICAL_MASTER_LOAD" => sep.master = 1
           /\ run.pc = "restore_master" => sep.master = 1

\* The save of a proven user stages the identities of the archive.
StageInv == journal # <<>> /\ Milestone(journal) = Intent("CATACOMB_PERSISTENCE") =>
               /\ run.pc = "save" => sep.ids = host.ids
               /\ run.pc \in {"stage", "user"} \cup Staged => ext.ids = host.ids

\* The archive has the identities of the baseline, until an empty reprovision replaces them.
AuthorityInv == journal # <<>> /\ Milestone(journal) \notin EmptyTail => host.ids = journal[1].ids

\* From the proof of the archive on, the T2 holds it or nothing.
TailNames == {PersistenceProven, Intent("BIOLOCKOUT_LOAD"), Proven("BIOLOCKOUT")}
TailInv == journal # <<>> /\ Milestone(journal) \in TailNames /\ sep.ids # {} =>
              sep.ids = host.ids /\ sep.ver = host.ver

LoadInv == IdleInv /\ ColdInv /\ StageInv /\ AuthorityInv /\ TailInv

\* How the names of milestones stand to each other.
LEMMA CommandNames ==
    ASSUME NEW c \in Commands
    PROVE  Intent(c) \notin EmptyTail \cup ColdNames \cup TailNames \cup {RecoveryComplete}
<1>1. c \notin {"EMPTY_REPROVISION_BIOLOCKOUT", "BIOLOCKOUT_LOAD"}
  BY SMT DEF Commands
<1> QED BY <1>1, SMT DEF EmptyTail, ColdNames, TailNames, Intent, Accepted, Unknown, Rejected,
                         BadState, Proven, Prepared, Selected, Ready, Settled, RecoveryComplete,
                         EmptyComplete, PersistenceProven

LEMMA ReplyNames ==
    ASSUME NEW c \in Commands, NEW reply \in {"none", "ok", "rejected", "unknown"}
    PROVE  ReplyRecord(c, reply) \notin ColdNames \cup TailNames \cup {RecoveryComplete}
<1>1. ReplyRecord(c, reply) \in
         {<<"MASTER_EXPORT", "PREPARED">>, <<"MASTER_EXPORT", "CAPTURED">>, <<"MASTER_EXPORT", "CONFIRMED">>,
          Accepted(c), Rejected(c), Unknown(c)}
  BY DEF ReplyRecord, Exports
<1>2. {<<"MASTER_EXPORT", "PREPARED">>, <<"MASTER_EXPORT", "CAPTURED">>, <<"MASTER_EXPORT", "CONFIRMED">>}
         \cap (ColdNames \cup TailNames \cup {RecoveryComplete}) = {}
  BY SMT DEF EmptyTail, ColdNames, TailNames, Intent, Accepted, Unknown, Rejected, BadState, Proven,
             Prepared, Selected, Ready, Settled, RecoveryComplete, EmptyComplete, PersistenceProven
<1>3. {Accepted(c), Rejected(c), Unknown(c)} \cap (ColdNames \cup TailNames \cup {RecoveryComplete}) = {}
  BY SMT DEF EmptyTail, ColdNames, TailNames, Intent, Accepted, Unknown, Rejected, BadState, Proven,
             Prepared, Selected, Ready, Settled, RecoveryComplete, EmptyComplete, PersistenceProven
<1> QED BY <1>1, <1>2, <1>3, Zenon

LEMMA OtherNames ==
    /\ {Proven("BASELINE"), Proven("SAVED_USER"), PersistenceProven, Intent("BIOLOCKOUT_LOAD"),
        Proven("BIOLOCKOUT"), Intent("CATACOMB_PERSISTENCE")} \cap EmptyTail = {}
    /\ {Ready, Proven("BASELINE"), Intent("CATACOMB_PERSISTENCE"), Intent("EMPTY_REPROVISION_BIOLOCKOUT"),
        Unknown("BIOLOCKOUT_LOAD"), Unknown("EMPTY_REPROVISION_BIOLOCKOUT"),
        Proven("EMPTY_REPROVISION_BIOLOCKOUT"), EmptyComplete, RecoveryComplete}
         \cap (ColdNames \cup TailNames) = {}
    /\ RecoveryComplete \notin {Ready, Proven("BASELINE"), Intent("CATACOMB_PERSISTENCE"),
        Intent("EMPTY_REPROVISION_BIOLOCKOUT"), Intent("BIOLOCKOUT_LOAD"),
        Unknown("BIOLOCKOUT_LOAD"), Unknown("EMPTY_REPROVISION_BIOLOCKOUT"),
        Proven("BIOLOCKOUT"), Proven("EMPTY_REPROVISION_BIOLOCKOUT")}
    /\ TailNames \cap ColdNames = {} /\ RecoveryComplete \notin EmptyTail
    /\ PersistenceProven \notin {Intent("BIOLOCKOUT_LOAD"), Proven("BIOLOCKOUT")}
    /\ Ready # Intent("CATACOMB_PERSISTENCE")
<1>1. {Proven("BASELINE"), Proven("SAVED_USER"), PersistenceProven, Intent("BIOLOCKOUT_LOAD"),
        Proven("BIOLOCKOUT"), Intent("CATACOMB_PERSISTENCE")} \cap EmptyTail = {}
  BY SMT DEF EmptyTail, ColdNames, TailNames, Intent, Accepted, Unknown, Rejected, BadState, Proven,
             Prepared, Selected, Ready, Settled, RecoveryComplete, EmptyComplete, PersistenceProven
<1>2. {Ready, Proven("BASELINE"), Intent("CATACOMB_PERSISTENCE"), Intent("EMPTY_REPROVISION_BIOLOCKOUT"),
        Unknown("BIOLOCKOUT_LOAD"), Unknown("EMPTY_REPROVISION_BIOLOCKOUT"),
        Proven("EMPTY_REPROVISION_BIOLOCKOUT"), EmptyComplete, RecoveryComplete}
         \cap (ColdNames \cup TailNames) = {}
  BY SMT DEF EmptyTail, ColdNames, TailNames, Intent, Accepted, Unknown, Rejected, BadState, Proven,
             Prepared, Selected, Ready, Settled, RecoveryComplete, EmptyComplete, PersistenceProven
<1>3. RecoveryComplete \notin {Ready, Proven("BASELINE"), Intent("CATACOMB_PERSISTENCE"),
        Intent("EMPTY_REPROVISION_BIOLOCKOUT"), Intent("BIOLOCKOUT_LOAD"),
        Unknown("BIOLOCKOUT_LOAD"), Unknown("EMPTY_REPROVISION_BIOLOCKOUT"),
        Proven("BIOLOCKOUT"), Proven("EMPTY_REPROVISION_BIOLOCKOUT")}
  BY SMT DEF EmptyTail, ColdNames, TailNames, Intent, Accepted, Unknown, Rejected, BadState, Proven,
             Prepared, Selected, Ready, Settled, RecoveryComplete, EmptyComplete, PersistenceProven
<1>4. TailNames \cap ColdNames = {} /\ RecoveryComplete \notin EmptyTail
  BY SMT DEF EmptyTail, ColdNames, TailNames, Intent, Accepted, Unknown, Rejected, BadState, Proven,
             Prepared, Selected, Ready, Settled, RecoveryComplete, EmptyComplete, PersistenceProven
<1>5. PersistenceProven \notin {Intent("BIOLOCKOUT_LOAD"), Proven("BIOLOCKOUT")}
  BY SMT DEF EmptyTail, ColdNames, TailNames, Intent, Accepted, Unknown, Rejected, BadState, Proven,
             Prepared, Selected, Ready, Settled, RecoveryComplete, EmptyComplete, PersistenceProven
<1>6. Ready # Intent("CATACOMB_PERSISTENCE")
  BY SMT DEF EmptyTail, ColdNames, TailNames, Intent, Accepted, Unknown, Rejected, BadState, Proven,
             Prepared, Selected, Ready, Settled, RecoveryComplete, EmptyComplete, PersistenceProven
<1> QED BY <1>1, <1>2, <1>3, <1>4, <1>5, <1>6, Zenon

\* A record keeps the first one, and follows the last.
Links(m, n) == /\ m \in EmptyTail => n \in EmptyTail
               /\ n \in ColdNames => sep.master = 1
               /\ n = PersistenceProven => sep.user = 3 /\ sep.ids = host.ids
               /\ n \in {Intent("BIOLOCKOUT_LOAD"), Proven("BIOLOCKOUT")} => m \in TailNames
               /\ n = RecoveryComplete => m = Proven("BIOLOCKOUT")
Extends == /\ journal # <<>> /\ journal' # <<>> /\ journal'[1] = journal[1]
           /\ Links(Milestone(journal), Milestone(journal'))
           /\ sep' = sep /\ host' = host /\ ext' = ext

LEMMA FirstKept ==
    ASSUME JournalOK, journal # <<>>, NEW x, journal' = Append(journal, x)
    PROVE  journal'[1] = journal[1]
  BY DEF JournalOK

LEMMA Extending ==
    ASSUME RecoveryInv, StepCases
    PROVE  journal' = journal \/ BeginRecovery \/ Extends
<1>0. RunInv /\ JournalOK /\ RunOK
  BY RecoveryParts, Zenon DEF RecoveryInv
<1>r. run.reply \in {"none", "ok", "rejected", "unknown"}
  BY <1>0 DEF RunOK
<1>n. \A p \in {"chain", "replied"} : p \notin {"off"} \cup RestorePCs \cup LockPCs
  BY SMT DEF RestorePCs, LockPCs
<1>j. run.pc \in {"chain", "replied"} => journal # <<>>
  BY <1>0, <1>n, Zenon DEF RunInv
<1>l. run.pc \in LockPCs /\ run.cmd # "none" =>
         /\ journal # <<>> /\ run.cmd \in {"BIOLOCKOUT_LOAD", "EMPTY_REPROVISION_BIOLOCKOUT"}
         /\ Milestone(journal) = Intent(run.cmd)
  BY <1>0, Zenon DEF RunInv
<1>e. /\ Intent("EMPTY_REPROVISION_BIOLOCKOUT") \in EmptyTail
      /\ Unknown("EMPTY_REPROVISION_BIOLOCKOUT") \in EmptyTail
      /\ Proven("EMPTY_REPROVISION_BIOLOCKOUT") \in EmptyTail /\ Ready \in EmptyTail
  BY Zenon DEF EmptyTail
<1>t. /\ Intent("BIOLOCKOUT_LOAD") \in TailNames /\ PersistenceProven \in TailNames
      /\ Proven("BIOLOCKOUT") \in TailNames
  BY Zenon DEF TailNames
<1>1. CASE ChainStep
  <2>0. /\ sep' = sep /\ host' = host /\ ext' = ext /\ journal # <<>>
        /\ journal' # <<>> /\ journal'[1] = journal[1]
    <3>1. run.pc = "chain" /\ \E x : journal' = Append(journal, x)
      BY <1>1, Zenon DEF ChainStep, Sending, Recording
    <3>2. sep' = sep /\ host' = host /\ ext' = ext /\ journal' # <<>>
      BY <1>1, JournalWrites, Zenon DEF ChainStep, Sending, Recording
    <3> QED BY <1>0, <1>j, <3>1, <3>2, FirstKept, Zenon
  <2>1. ASSUME NEW c \in Commands, Sending(c) PROVE Links(Milestone(journal), Milestone(journal'))
    <3>1. Milestone(journal') = Intent(c) /\ Follows(Milestone(journal), Intent(c))
      BY <2>1, JournalWrites, Zenon DEF Sending
    <3>2. Intent(c) \notin EmptyTail \cup ColdNames \cup TailNames \cup {RecoveryComplete}
      BY CommandNames, Zenon
    <3> QED BY <3>1, <3>2, <1>t, Zenon DEF Links, Follows
  <2>2. ASSUME NEW r \in Entry, Recording(r) PROVE Links(Milestone(journal), Milestone(journal'))
    <3>1. Milestone(journal') = r.m /\ Follows(Milestone(journal), r.m) /\ Evidence(r.m)
      BY <2>2, JournalWrites, Zenon DEF Recording
    <3> QED BY <3>1, Zenon DEF Links, Follows, Evidence
  <2> QED BY <1>1, <2>0, <2>1, <2>2, Zenon DEF ChainStep, Extends
<1>2. CASE RecordReply
  <2>1. /\ run.pc = "replied" /\ run.cmd \in Commands /\ Milestone(journal) = Intent(run.cmd)
        /\ sep' = sep /\ host' = host /\ ext' = ext /\ \E x : journal' = Append(journal, x)
    BY <1>0, <1>2, Zenon DEF RecordReply, RunInv, Same, Rest, Written
  <2>2. journal' # <<>> /\ Milestone(journal') = ReplyRecord(run.cmd, run.reply)
    BY <1>2, Replied, Zenon
  <2>3. Intent(run.cmd) \notin EmptyTail
    BY <2>1, CommandNames, Zenon
  <2>4. ReplyRecord(run.cmd, run.reply) \notin ColdNames \cup TailNames \cup {RecoveryComplete}
    BY <1>r, <2>1, ReplyNames, Zenon
  <2>5. Links(Milestone(journal), Milestone(journal'))
    BY <2>1, <2>2, <2>3, <2>4, <1>t, Zenon DEF Links
  <2> QED BY <1>0, <1>j, <2>1, <2>2, <2>5, FirstKept, Zenon DEF Extends
<1>3. CASE EmptyReady
  <2>1. /\ run.pc = "chain" /\ sep' = sep /\ host' = host /\ ext' = ext /\ \E x : journal' = Append(journal, x)
    BY <1>3, Zenon DEF EmptyReady, Same, Rest, RecordSurface, Written
  <2>2. journal' # <<>> /\ Milestone(journal') = Ready
    BY <1>3, JournalWrites, Zenon
  <2>3. Links(Milestone(journal), Ready)
    BY OtherNames, <1>e, <1>t, Zenon DEF Links
  <2> QED BY <1>0, <1>j, <2>1, <2>2, <2>3, FirstKept, Zenon DEF Extends
<1>4. CASE begin_catacomb_persistence
  <2>1. /\ run.pc = "chain" /\ sep' = sep /\ host' = host /\ ext' = ext /\ \E x : journal' = Append(journal, x)
        /\ Milestone(journal) = Proven("SAVED_USER")
    BY <1>4, Zenon DEF begin_catacomb_persistence, At, Same, Rest, Record, Written
  <2>2. journal' # <<>> /\ Milestone(journal') = Intent("CATACOMB_PERSISTENCE")
    BY <1>4, JournalWrites, Zenon
  <2>3. Links(Proven("SAVED_USER"), Intent("CATACOMB_PERSISTENCE"))
    BY OtherNames, <1>t, Zenon DEF Links
  <2> QED BY <1>0, <1>j, <2>1, <2>2, <2>3, FirstKept, Zenon DEF Extends
<1>5. CASE restore_biolockout
  <2>1. /\ run.pc = "chain" /\ sep' = sep /\ host' = host /\ ext' = ext /\ \E x : journal' = Append(journal, x)
        /\ Milestone(journal) = PersistenceProven
    BY <1>5, Zenon DEF restore_biolockout, At, Same, Rest, Record, Written
  <2>2. journal' # <<>> /\ Milestone(journal') = Intent("BIOLOCKOUT_LOAD")
    <3>1. Intent("BIOLOCKOUT_LOAD") \in Names
      BY SMT DEF Names, Steps, Outcomes, Intent
    <3> QED BY <1>5, <3>1, RecordedLast, Zenon DEF restore_biolockout
  <2>3. Links(PersistenceProven, Intent("BIOLOCKOUT_LOAD"))
    BY OtherNames, <1>t, Zenon DEF Links
  <2> QED BY <1>0, <1>j, <2>1, <2>2, <2>3, FirstKept, Zenon DEF Extends
<1>6. CASE restore_empty_reprovision_biolockout
  <2>1. /\ run.pc = "chain" /\ sep' = sep /\ host' = host /\ ext' = ext /\ \E x : journal' = Append(journal, x)
    BY <1>6, Zenon DEF restore_empty_reprovision_biolockout, At, Same, Rest, Record, Written
  <2>2. journal' # <<>> /\ Milestone(journal') = Intent("EMPTY_REPROVISION_BIOLOCKOUT")
    <3>1. Intent("EMPTY_REPROVISION_BIOLOCKOUT") \in Names
      BY SMT DEF Names, Steps, Outcomes, Intent
    <3> QED BY <1>6, <3>1, RecordedLast, Zenon DEF restore_empty_reprovision_biolockout
  <2>3. Links(Milestone(journal), Intent("EMPTY_REPROVISION_BIOLOCKOUT"))
    BY OtherNames, <1>e, <1>t, Zenon DEF Links
  <2> QED BY <1>0, <1>j, <2>1, <2>2, <2>3, FirstKept, Zenon DEF Extends
<1>7. CASE LockoutFails
  <2>1. /\ run.pc \in LockPCs /\ run.cmd # "none"
        /\ sep' = sep /\ host' = host /\ ext' = ext /\ \E x : journal' = Append(journal, x)
    BY <1>7, Zenon DEF LockoutFails, Same, Rest, Record, Written, LockPCs
  <2>2. journal' # <<>> /\ Milestone(journal') = Unknown(run.cmd)
    BY <1>7, JournalWrites, Zenon
  <2>3. /\ Links(Intent("BIOLOCKOUT_LOAD"), Unknown("BIOLOCKOUT_LOAD"))
        /\ Links(Intent("EMPTY_REPROVISION_BIOLOCKOUT"), Unknown("EMPTY_REPROVISION_BIOLOCKOUT"))
    BY OtherNames, <1>e, <1>t, Zenon DEF Links
  <2>4. journal # <<>> /\ Links(Milestone(journal), Milestone(journal'))
    BY <1>l, <2>1, <2>2, <2>3, Zenon
  <2> QED BY <1>0, <2>1, <2>2, <2>4, FirstKept, Zenon DEF Extends
<1>8. CASE LockoutLoaded /\ run.cmd # "none"
  <2>1. run.pc \in LockPCs /\ sep' = sep /\ host' = host /\ ext' = ext
    BY <1>8, Zenon DEF LockoutLoaded, Same, Rest, LockPCs
  <2>2. \/ run.cmd = "BIOLOCKOUT_LOAD" /\ Record(Proven("BIOLOCKOUT"))
        \/ run.cmd # "BIOLOCKOUT_LOAD" /\ Record(Proven("EMPTY_REPROVISION_BIOLOCKOUT"))
    BY <1>8, Zenon DEF LockoutLoaded
  <2>3. \E x : journal' = Append(journal, x)
    BY <2>2, Zenon DEF Record, Written
  <2>4. journal # <<>> /\ run.cmd \in {"BIOLOCKOUT_LOAD", "EMPTY_REPROVISION_BIOLOCKOUT"}
        /\ Milestone(journal) = Intent(run.cmd)
    BY <1>8, <1>l, <2>1, Zenon
  <2>5. Proven("BIOLOCKOUT") \in Names /\ Proven("EMPTY_REPROVISION_BIOLOCKOUT") \in Names
    BY NameSets, Zenon DEF FreeNames
  <2>6. /\ Links(Intent("BIOLOCKOUT_LOAD"), Proven("BIOLOCKOUT"))
        /\ Links(Intent("EMPTY_REPROVISION_BIOLOCKOUT"), Proven("EMPTY_REPROVISION_BIOLOCKOUT"))
    <3>1. Links(Intent("BIOLOCKOUT_LOAD"), Proven("BIOLOCKOUT"))
      BY OtherNames, <1>t, Zenon DEF Links
    <3>2. Links(Intent("EMPTY_REPROVISION_BIOLOCKOUT"), Proven("EMPTY_REPROVISION_BIOLOCKOUT"))
      BY OtherNames, <1>e, <1>t, Zenon DEF Links
    <3> QED BY <3>1, <3>2, Zenon
  <2>7. CASE run.cmd = "BIOLOCKOUT_LOAD"
    <3>1. journal' # <<>> /\ Milestone(journal') = Proven("BIOLOCKOUT")
      BY <2>2, <2>5, <2>7, RecordedLast, Zenon
    <3> QED BY <1>0, <2>1, <2>3, <2>4, <2>6, <2>7, <3>1, FirstKept, Zenon DEF Extends
  <2>8. CASE run.cmd # "BIOLOCKOUT_LOAD"
    <3>1. journal' # <<>> /\ Milestone(journal') = Proven("EMPTY_REPROVISION_BIOLOCKOUT")
      BY <2>2, <2>5, <2>8, RecordedLast, Zenon
    <3> QED BY <1>0, <2>1, <2>3, <2>4, <2>6, <2>8, <3>1, FirstKept, Zenon DEF Extends
  <2> QED BY <2>7, <2>8, Zenon
<1>9. CASE LockoutLoaded /\ run.cmd = "none"
  BY <1>9, JournalWrites, Zenon
<1> QED BY Frames, <1>1, <1>2, <1>3, <1>4, <1>5, <1>6, <1>7, <1>8, <1>9, Zenon

\* Where no save is open.
LEMMA IdleStep ==
    ASSUME RecoveryInv, LoadInv, StepCases
    PROVE  IdleInv'
<1>0. IdleInv /\ RunInv /\ ExtOK
  BY RecoveryParts, Zenon DEF RecoveryInv, LoadInv
<1> DEFINE At0 == {"chain", "write", "sent", "replied", "save"}
           Off0 == {"off", "stage", "user", "saved", "confirm", "confirmed", "master", "commit", "install",
                    "installed", "close", "readback", "restore_master", "restore_user", "check"}
           Lock0 == {"lock", "publish", "manifest", "locked"}
<1>d. (\A p \in Off0 : p \notin At0 \cup LockPCs) /\ (\A p \in LockPCs : p \notin At0)
      /\ LockPCs = Lock0
  BY SMT DEF LockPCs
<1>f. ASSUME run'.pc \in Off0 \/ (run'.pc \in Lock0 /\ run'.cmd = "none") PROVE IdleInv'
  BY <1>d, <1>f, Zenon DEF IdleInv
<1>r. ASSUME ext'.records \notin 1..6 PROVE IdleInv'
  BY <1>r, Zenon DEF IdleInv
<1>s. ASSUME ext' = ext, run.pc \in At0 \/ (run.pc \in Lock0 /\ run.cmd # "none") PROVE IdleInv'
  BY <1>s, <1>r, <1>0, <1>d, Zenon DEF IdleInv
<1>1. CASE BeginRecovery \/ ResumeRecovery
  <2>1. ext' = ext /\ Undisturbed
    BY <1>1, Zenon DEF BeginRecovery, ResumeRecovery
  <2> QED BY <2>1, <1>r, Zenon DEF Undisturbed, Saving
<1>2. CASE \/ Dispatch \/ RecordReply \/ ChainStep \/ CandidateBegun \/ CandidateWritten \/ EmptyReady
           \/ begin_catacomb_persistence \/ restore_biolockout \/ restore_empty_reprovision_biolockout
  <2>1. ext' = ext
    BY <1>2, Zenon DEF Dispatch, RecordReply, ChainStep, Sending, Recording, CandidateBegun, CandidateWritten,
       EmptyReady, begin_catacomb_persistence, restore_biolockout, restore_empty_reprovision_biolockout, Files,
       Same, Rest
  <2>2. run.pc \in At0
    BY <1>2, Sources, Zenon DEF ChainStep
  <2> QED BY <2>1, <2>2, <1>s, Zenon
<1>3. CASE LoadHead \/ PublishBlob \/ PublishManifest
  <2>1. ext' = ext
    BY <1>3, Zenon DEF LoadHead, PublishBlob, PublishManifest, Lock
  <2>2. run.pc \in Lock0 /\ run'.pc \in Lock0 /\ run'.cmd = run.cmd
    BY <1>3, RunMoves, Zenon DEF Moves
  <2> QED BY <2>1, <2>2, <1>f, <1>s, Zenon
<1>4. CASE LockoutLoaded
  <2>1. ext' = ext /\ run.pc \in Lock0
    BY <1>4, Sources, Zenon DEF LockoutLoaded, Same, Rest
  <2>2. run'.pc = "off" \/ run.cmd # "none"
    BY <1>4, RunMoves, EndsOff, Zenon
  <2> QED BY <2>1, <2>2, <1>f, <1>s, Zenon
<1>5. CASE LockoutFails \/ Crash \/ Reboot
  <2>1. run'.pc = "off"
    BY <1>5, RunMoves, EndsOff, Zenon
  <2> QED BY <2>1, <1>f, Zenon
<1>6. CASE \/ SaveIntent \/ SaveStage \/ SaveUser \/ SaveConfirmIntent \/ SaveConfirmUser \/ SaveMasterIntent
           \/ SaveMaster \/ SaveCommit \/ SaveInstall \/ SaveCommitted \/ SaveConfirmMaster
  <2>1. run'.pc \in Off0
    BY <1>6, RunMoves, Zenon DEF Moves
  <2> QED BY <2>1, <1>f, Zenon
<1>7. CASE SaveReadback
  <2>1. ext' = [ext EXCEPT !.records = 7]
    BY <1>7, Zenon DEF SaveReadback, Records
  <2>2. ext'.records = 7
    BY <1>0, <2>1 DEF ExtOK
  <2>3. ext'.records \notin 1..6
    BY <2>2
  <2> QED BY <2>3, <1>r, Zenon
<1>8. CASE RestoreBegins
  <2>1. run.cmd = "none"
    BY <1>0, <1>8, Sources, OffTyped, Zenon DEF RunInv
  <2>2. run'.pc \in {"lock", "restore_master", "restore_user"} /\ run'.cmd = "none"
    BY <1>8, <2>1, RunMoves, Zenon DEF Moves
  <2> QED BY <2>2, <1>f, Zenon
<1>9. CASE RestoreMaster \/ RestoreUser
  <2>1. run'.pc \in Off0
    BY <1>9, RunMoves, EndsOff, Zenon DEF Moves
  <2> QED BY <2>1, <1>f, Zenon
<1>10. CASE RestoreChecks
  <2>1. run.cmd = "none"
    BY <1>0, <1>10, Sources, Zenon DEF RunInv, RestorePCs
  <2>2. run'.pc \in {"off", "lock"} /\ run'.cmd = "none"
    BY <1>10, <2>1, RunMoves, EndsOff, Zenon DEF Moves
  <2> QED BY <2>2, <1>f, Zenon
<1>11. CASE hold_native_recovery \/ resume_native_recovery \/ abort_undispatched
  <2>1. run'.pc = "off"
    BY <1>11, Sources, Zenon DEF hold_native_recovery, resume_native_recovery, abort_undispatched
  <2> QED BY <2>1, <1>f, Zenon
<1>12. CASE UNCHANGED recoveryVars
  BY <1>0, <1>12, Zenon DEF IdleInv, recoveryVars
<1> QED BY Cases, <1>1, <1>2, <1>3, <1>4, <1>5, <1>6, <1>7, <1>8, <1>9, <1>10, <1>11, <1>12, Zenon

\* The journal where a step changes the T2 or the archive.
LEMMA Quiet ==
    ASSUME RecoveryInv
    PROVE  /\ Dispatch => /\ journal' = journal /\ host' = host
                          /\ Milestone(journal) \notin ColdNames \cup TailNames
           /\ SaveConfirmUser \/ SaveConfirmMaster \/ SaveInstall =>
                 /\ journal' = journal /\ Milestone(journal) \notin ColdNames \cup TailNames
                 /\ Milestone(journal) \in {Intent("CATACOMB_PERSISTENCE"), Ready}
           /\ RestoreMaster \/ RestoreUser =>
                 /\ journal' = journal /\ host' = host
                 /\ journal = <<>> \/ Milestone(journal) \notin ColdNames \cup TailNames
<1>0. RunInv
  BY Zenon DEF RecoveryInv
<1>1. Dispatch => /\ journal' = journal /\ host' = host
                  /\ Milestone(journal) \notin ColdNames \cup TailNames
  <2> SUFFICES ASSUME Dispatch PROVE /\ journal' = journal /\ host' = host
                                     /\ Milestone(journal) \notin ColdNames \cup TailNames
    BY Zenon
  <2>1. run.pc = "sent" /\ journal' = journal /\ host' = host
    BY Zenon DEF Dispatch, Rest
  <2>2. run.cmd \in Commands /\ Milestone(journal) = Intent(run.cmd)
    BY <1>0, <2>1, Zenon DEF RunInv
  <2> QED BY <2>1, <2>2, CommandNames, Zenon
<1>2. SaveConfirmUser \/ SaveConfirmMaster \/ SaveInstall =>
         /\ journal' = journal /\ Milestone(journal) \notin ColdNames \cup TailNames
         /\ Milestone(journal) \in {Intent("CATACOMB_PERSISTENCE"), Ready}
  <2>1. SaveConfirmUser \/ SaveConfirmMaster \/ SaveInstall =>
           run.pc \in {"save"} \cup SavePCs /\ journal' = journal
    BY Zenon DEF SaveConfirmUser, SaveConfirmMaster, SaveInstall, Sync, SavePCs, Staged
  <2> QED BY <1>0, <2>1, OtherNames, Zenon DEF RunInv
<1>3. RestoreMaster \/ RestoreUser =>
         /\ journal' = journal /\ host' = host
         /\ journal = <<>> \/ Milestone(journal) \notin ColdNames \cup TailNames
  <2>1. RestoreMaster \/ RestoreUser => run.pc \in RestorePCs /\ journal' = journal /\ host' = host
    BY Zenon DEF RestoreMaster, RestoreUser, Restoring, RestorePCs
  <2>2. run.pc \in RestorePCs => journal = <<>> \/ Milestone(journal) \in {RecoveryComplete, EmptyComplete}
    BY <1>0, Zenon DEF RunInv, Pending, Complete
  <2> QED BY <2>1, <2>2, OtherNames, Zenon
<1> QED BY <1>1, <1>2, <1>3, Zenon

\* What a restart leaves of the T2.
LEMMA Restarting ==
    ASSUME Reboot, ~Foreign
    PROVE  /\ journal' = journal /\ host' = host
           /\ sep' = sep \/ (sep'.ids = {} /\ (sep.master = 1 => sep'.master = 1))
<1>1. \A s \in ColdStart : s.ids = {} /\ s.master = 1
  BY DEF ColdStart
<1>2. RetainedMaster.ids = {}
  BY DEF RetainedMaster
<1>3. ForeignDelete = {}
  BY SMT DEF ForeignDelete
<1>4. sep.master = 1 => sep.master \notin Warm
  BY SMT DEF Warm
<1> QED BY <1>1, <1>2, <1>3, <1>4, Zenon DEF Reboot

LEMMA ColdStep ==
    ASSUME RecoveryInv, LoadInv, StepCases, ~Foreign
    PROVE  ColdInv'
<1>0. ColdInv /\ RunInv
  BY Zenon DEF RecoveryInv, LoadInv
<1>1. journal' # <<>> /\ Milestone(journal') \in ColdNames => sep'.master = 1
  <2> SUFFICES ASSUME journal' # <<>>, Milestone(journal') \in ColdNames PROVE sep'.master = 1
    BY Zenon
  <2>1. CASE BeginRecovery
    <3>1. Milestone(journal') = Proven("BASELINE")
      BY <2>1, Begun, Zenon
    <3> QED BY <3>1, OtherNames, Zenon
  <2>2. CASE Extends
    BY <2>2, Zenon DEF Extends, Links
  <2>3. CASE journal' = journal /\ sep' = sep
    BY <1>0, <2>3, Zenon DEF ColdInv
  <2>4. CASE Dispatch \/ SaveConfirmUser \/ SaveConfirmMaster \/ RestoreMaster \/ RestoreUser
    BY <2>4, Quiet, Zenon
  <2>5. CASE Reboot
    BY <1>0, <2>5, Restarting, Zenon DEF ColdInv
  <2> QED BY <2>1, <2>2, <2>3, <2>4, <2>5, Frames, Extending, Zenon
<1>c. ASSUME NEW c \in Commands, Sending(c) PROVE c = "CANONICAL_MASTER_LOAD" => sep'.master = 1
  <2>1. run.pc = "chain" /\ Follows(Milestone(journal), Intent(c)) /\ sep' = sep
    BY <1>c, Zenon DEF Sending
  <2>2. "chain" \notin {"off"} \cup RestorePCs \cup LockPCs
    BY SMT DEF RestorePCs, LockPCs
  <2>3. journal # <<>>
    BY <1>0, <2>1, <2>2, Zenon DEF RunInv
  <2> QED BY <1>0, <2>1, <2>3, Zenon DEF Follows, ColdInv
<1>2. run'.pc = "sent" /\ run'.cmd = "CANONICAL_MASTER_LOAD" => sep'.master = 1
  <2> SUFFICES ASSUME run'.pc = "sent", run'.cmd = "CANONICAL_MASTER_LOAD" PROVE sep'.master = 1
    BY Zenon
  <2> DEFINE Else == {"off", "chain", "write", "replied", "save", "stage", "user", "saved", "confirm",
                      "confirmed", "master", "commit", "install", "installed", "close", "readback",
                      "lock", "publish", "manifest", "locked", "restore_master", "restore_user", "check"}
  <2>0. run'.pc \notin Else
    BY SMT
  <2> HIDE DEF Else
  <2>1. ASSUME NEW c \in Commands, Sending(c) PROVE sep'.master = 1
    BY <2>1, <1>c, RunMoves, Zenon
  <2>2. ASSUME NEW r \in Entry, Recording(r) PROVE FALSE
    BY <2>0, <2>2, RunMoves, Sources, EndsOff, Zenon DEF Moves, Else
  <2>3. CASE \/ BeginRecovery \/ ResumeRecovery \/ Dispatch \/ RecordReply
             \/ CandidateBegun \/ CandidateWritten \/ EmptyReady \/ begin_catacomb_persistence
    BY <2>0, <2>3, RunMoves, EndsOff, Zenon DEF Moves, Else
  <2>4. CASE Save
    BY <2>0, <2>4, RunMoves, Zenon DEF Moves, Else, Save
  <2>5. CASE \/ LoadHead \/ PublishBlob \/ PublishManifest \/ LockoutFails \/ LockoutLoaded
             \/ RestoreBegins \/ RestoreMaster \/ RestoreUser \/ RestoreChecks \/ Crash \/ Reboot
    BY <2>0, <2>5, RunMoves, EndsOff, Zenon DEF Moves, Else
  <2>6. CASE restore_biolockout \/ restore_empty_reprovision_biolockout
    BY <2>0, <2>6, JournalWrites, Zenon DEF Else
  <2>7. CASE hold_native_recovery \/ resume_native_recovery \/ abort_undispatched
    BY <2>0, <2>7, Sources, Zenon DEF hold_native_recovery, resume_native_recovery, abort_undispatched, Else
  <2>8. CASE UNCHANGED recoveryVars
    BY <1>0, <2>8, Zenon DEF ColdInv, recoveryVars
  <2> QED BY Cases, <2>1, <2>2, <2>3, <2>4, <2>5, <2>6, <2>7, <2>8, Zenon DEF ChainStep, Save
<1>3. run'.pc = "restore_master" => sep'.master = 1
  <2> SUFFICES ASSUME run'.pc = "restore_master" PROVE sep'.master = 1
    BY Zenon
  <2> DEFINE Else == {"off", "chain", "write", "sent", "replied", "save", "stage", "user", "saved", "confirm",
                      "confirmed", "master", "commit", "install", "installed", "close", "readback",
                      "lock", "publish", "manifest", "locked", "restore_user", "check"}
  <2>0. run'.pc \notin Else
    BY SMT
  <2> HIDE DEF Else
  <2>2. CASE ChainStep
    BY <2>0, <2>2, RunMoves, Sources, EndsOff, Zenon DEF Moves, Else, ChainStep
  <2>3. CASE \/ BeginRecovery \/ ResumeRecovery \/ Dispatch \/ RecordReply
             \/ CandidateBegun \/ CandidateWritten \/ EmptyReady \/ begin_catacomb_persistence
    BY <2>0, <2>3, RunMoves, EndsOff, Zenon DEF Moves, Else
  <2>4. CASE Save
    BY <2>0, <2>4, RunMoves, Zenon DEF Moves, Else, Save
  <2>5. CASE \/ LoadHead \/ PublishBlob \/ PublishManifest \/ LockoutFails \/ LockoutLoaded
             \/ RestoreMaster \/ RestoreUser \/ RestoreChecks \/ Crash \/ Reboot
    BY <2>0, <2>5, RunMoves, EndsOff, Zenon DEF Moves, Else
  <2>6. CASE restore_biolockout \/ restore_empty_reprovision_biolockout
    BY <2>0, <2>6, JournalWrites, Zenon DEF Else
  <2>7. CASE hold_native_recovery \/ resume_native_recovery \/ abort_undispatched
    BY <2>0, <2>7, Sources, Zenon DEF hold_native_recovery, resume_native_recovery, abort_undispatched, Else
  <2>8. CASE UNCHANGED recoveryVars
    BY <1>0, <2>8, Zenon DEF ColdInv, recoveryVars
  <2>9. CASE RestoreBegins
    <3>1. Admission # "off" /\ run' = [run EXCEPT !.pc = Admission] /\ sep' = sep
      BY <2>9, Zenon DEF RestoreBegins, Restoring
    <3>2. RunOK
      BY RecoveryParts, Zenon DEF RecoveryInv
    <3>3. run'.pc = Admission
      BY <3>1, <3>2, Zenon DEF RunOK
    <3>4. Admission = "restore_master"
      BY <3>3, Zenon
    <3>5. sep.master = 1
      BY <3>4, SMT DEF Admission
    <3> QED BY <3>1, <3>5, Zenon
  <2> QED BY Cases, <2>2, <2>3, <2>4, <2>5, <2>6, <2>7, <2>8, <2>9, Zenon DEF Save
<1> QED BY <1>1, <1>2, <1>3, Zenon DEF ColdInv

LEMMA StageStep ==
    ASSUME RecoveryInv, LoadInv, StepCases, ~Foreign
    PROVE  StageInv'
<1>0. StageInv /\ RunInv /\ LossInv
  BY Zenon DEF RecoveryInv, LoadInv
<1>e. ext \in [records : 0..7, base : Archive, txn : {"none", "prepare", "commit"},
               ids : SUBSET Ids, ver : Nat]
  BY RecoveryParts, Zenon DEF RecoveryInv, ExtOK
<1> DEFINE On == {"save", "stage", "user"} \cup Staged
           Mid == {"stage", "user", "saved", "confirm", "confirmed", "master", "commit", "install"}
<1>n. /\ \A p \in {"off", "chain", "write", "sent", "replied", "installed", "close", "readback", "lock",
                   "publish", "manifest", "locked", "restore_master", "restore_user", "check"} : p \notin On
      /\ "save" \notin {"stage", "user"} \cup Staged
      /\ \A p \in Mid : p \in {"stage", "user"} \cup Staged /\ p # "save"
  BY SMT DEF Staged
<1>o. ASSUME run'.pc \notin On PROVE StageInv'
  BY <1>o, Zenon DEF StageInv
<1>a. ASSUME run'.pc = "save", sep'.ids = host'.ids PROVE StageInv'
  BY <1>a, <1>n, Zenon DEF StageInv
<1>b. ASSUME run'.pc \in Mid, run.pc \in {"save"} \cup SavePCs, journal' = journal,
             Milestone(journal) = Intent("CATACOMB_PERSISTENCE") => ext'.ids = host'.ids
      PROVE  StageInv'
  <2>1. Milestone(journal') = Milestone(journal)
    BY <1>b, Zenon
  <2> QED BY <1>b, <1>n, <2>1, Zenon DEF StageInv
<1>p. "save" \in {"save"} \cup SavePCs /\ Mid \subseteq {"save"} \cup SavePCs
      /\ \A p \in {"save"} \cup SavePCs : p \notin {"off"} \cup RestorePCs \cup LockPCs
  BY SMT DEF SavePCs, Staged, RestorePCs, LockPCs
<1>j. run.pc \in {"save"} \cup SavePCs => journal # <<>>
  BY <1>0, <1>p, Zenon DEF RunInv
<1> HIDE DEF On
<1>1. CASE EmptyReady
  <2>1. Milestone(journal') = Ready
    BY <1>1, JournalWrites, Zenon
  <2> QED BY <2>1, OtherNames, Zenon DEF StageInv
<1>2. CASE begin_catacomb_persistence
  <2>1. run'.pc = "chain" \/ run'.pc = "save"
    BY <1>2, RunMoves, Zenon DEF Moves
  <2>2. /\ sep' = sep /\ host' = host /\ run.pc = "chain"
        /\ Milestone(journal) = Proven("SAVED_USER") /\ sep.ids # {}
    BY <1>2, Zenon DEF begin_catacomb_persistence, Same, Rest, At
  <2>3. journal # <<>>
    <3>1. "chain" \notin {"off"} \cup RestorePCs \cup LockPCs
      BY SMT DEF RestorePCs, LockPCs
    <3> QED BY <1>0, <2>2, <3>1, Zenon DEF RunInv
  <2>4. sep.ids = host.ids
    BY <1>0, <2>2, <2>3, Zenon DEF LossInv
  <2> QED BY <2>1, <2>2, <2>4, <1>a, <1>o, <1>n, Zenon
<1>3. CASE SaveIntent
  <2>1. run.pc = "save" /\ run'.pc = "stage"
    BY <1>3, RunMoves, Zenon DEF Moves
  <2>2. /\ ext' = [NoSave EXCEPT !.records = 1, !.base = host, !.ids = sep.ids]
        /\ host' = host /\ journal' = journal
    BY <1>3, Zenon DEF SaveIntent, Sync
  <2>3. ext'.ids = sep.ids
    BY <2>2 DEF NoSave
  <2>4. Milestone(journal) = Intent("CATACOMB_PERSISTENCE") => sep.ids = host.ids
    BY <1>0, <1>j, <1>p, <2>1, Zenon DEF StageInv
  <2> QED BY <2>1, <2>2, <2>3, <2>4, <1>b, <1>p, Zenon
<1>4. CASE \/ SaveStage \/ SaveUser \/ SaveConfirmIntent \/ SaveConfirmUser \/ SaveMasterIntent
           \/ SaveMaster \/ SaveCommit
  <2>1. run.pc \in Mid /\ run'.pc \in Mid
    BY <1>4, RunMoves, Zenon DEF Moves
  <2>2. host' = host /\ journal' = journal
    BY <1>4, Zenon DEF SaveStage, SaveUser, SaveConfirmIntent, SaveConfirmUser, SaveMasterIntent, SaveMaster,
       SaveCommit, Records, Sync
  <2>3. \/ ext' = ext
        \/ \E t \in {"prepare", "commit"} : ext' = [ext EXCEPT !.txn = t]
        \/ \E n \in {3, 4, 5} : ext' = [ext EXCEPT !.records = n]
        \/ ext' = [ext EXCEPT !.records = 2, !.ver = sep.ver]
    BY <1>4, Zenon DEF SaveStage, SaveUser, SaveConfirmIntent, SaveConfirmUser, SaveMasterIntent, SaveMaster,
       SaveCommit, Records
  <2>4. ext'.ids = ext.ids
    BY <1>e, <2>3
  <2>5. Milestone(journal) = Intent("CATACOMB_PERSISTENCE") => ext.ids = host.ids
    BY <1>0, <1>j, <1>n, <1>p, <2>1, Zenon DEF StageInv
  <2> QED BY <2>1, <2>2, <2>4, <2>5, <1>b, <1>p, Zenon
<1>5. CASE SaveInstall \/ SaveCommitted \/ SaveConfirmMaster \/ SaveReadback
  BY <1>5, <1>o, <1>n, RunMoves, Zenon DEF Moves
<1>6. CASE \/ BeginRecovery \/ ResumeRecovery \/ Dispatch \/ RecordReply \/ CandidateBegun \/ CandidateWritten
  BY <1>6, <1>o, <1>n, RunMoves, EndsOff, Zenon DEF Moves
<1>7. CASE ChainStep
  <2>1. run'.pc \in {"off", "chain", "sent"}
    BY <1>7, RunMoves, Sources, EndsOff, Zenon DEF Moves, ChainStep
  <2> QED BY <2>1, <1>o, <1>n, Zenon
<1>8. CASE \/ LoadHead \/ PublishBlob \/ PublishManifest \/ LockoutFails \/ LockoutLoaded \/ RestoreBegins
           \/ RestoreMaster \/ RestoreUser \/ RestoreChecks \/ Crash \/ Reboot
  <2>1. run'.pc \in {"off", "chain", "lock", "publish", "manifest", "locked", "restore_master", "restore_user",
                     "check"}
    BY <1>8, RunMoves, EndsOff, Zenon DEF Moves
  <2> QED BY <2>1, <1>o, <1>n, Zenon
<1>9. CASE restore_biolockout \/ restore_empty_reprovision_biolockout
  <2>1. run'.pc = "lock"
    BY <1>9, JournalWrites, Zenon
  <2> QED BY <2>1, <1>o, <1>n, Zenon
<1>10. CASE hold_native_recovery \/ resume_native_recovery \/ abort_undispatched
  <2>1. run' = run /\ run.pc = "off"
    BY <1>10, Sources, Zenon DEF hold_native_recovery, resume_native_recovery, abort_undispatched
  <2> QED BY <2>1, <1>o, <1>n, Zenon
<1>11. CASE UNCHANGED recoveryVars
  <2>1. run' = run /\ sep' = sep /\ host' = host /\ ext' = ext /\ journal' = journal
    BY <1>11, Zenon DEF recoveryVars
  <2> QED BY <1>0, <2>1, Zenon DEF StageInv
<1> QED BY Cases, <1>1, <1>2, <1>3, <1>4, <1>5, <1>6, <1>7, <1>8, <1>9, <1>10, <1>11, Zenon

LEMMA AuthorityStep ==
    ASSUME RecoveryInv, LoadInv, StepCases
    PROVE  AuthorityInv'
<1>0. AuthorityInv /\ StageInv /\ RunInv
  BY Zenon DEF RecoveryInv, LoadInv
<1>1. CASE BeginRecovery
  <2>1. /\ journal' = <<[Rec(Proven("BASELINE")) EXCEPT !.ids = host.ids, !.ver = host.ver]>>
        /\ host' = host
    BY <1>1, Zenon DEF BeginRecovery
  <2> DEFINE r == Rec(Proven("BASELINE"))
             b == [r EXCEPT !.ids = host.ids, !.ver = host.ver]
  <2>2. journal'[1] = b
    <3>1. journal' = <<b>>
      BY <2>1, Zenon
    <3> HIDE DEF b
    <3> QED BY <3>1
  <2>3. b.ids = host.ids
    BY DEF Rec
  <2> QED BY <2>1, <2>2, <2>3, Zenon DEF AuthorityInv
<1>2. CASE Extends
  BY <1>0, <1>2, Zenon DEF Extends, Links, AuthorityInv
<1>3. CASE journal' = journal /\ host' = host
  BY <1>0, <1>3, Zenon DEF AuthorityInv
<1>4. CASE SaveInstall
  <2>1. /\ journal' = journal /\ Milestone(journal) \in {Intent("CATACOMB_PERSISTENCE"), Ready}
    BY <1>4, Quiet, Zenon
  <2>2. host' = [ids |-> ext.ids, ver |-> ext.ver] /\ run.pc = "install"
    BY <1>4, Zenon DEF SaveInstall, Sync
  <2>3. host'.ids = ext.ids
    BY <2>2
  <2>4. Ready \in EmptyTail /\ "install" \in {"stage", "user"} \cup Staged
    BY Zenon DEF EmptyTail, Staged
  <2> QED BY <1>0, <2>1, <2>2, <2>3, <2>4, OtherNames, Zenon DEF AuthorityInv, StageInv
<1> QED BY <1>1, <1>2, <1>3, <1>4, Frames, Extending, Zenon

\* Where records are written.
LEMMA Writing ==
    ASSUME RecoveryInv, StepCases, ~BeginRecovery
    PROVE  \/ journal' = journal \/ run.pc \in {"chain", "replied"}
           \/ run.pc \in LockPCs /\ run.cmd # "none"
<1>1. LockoutFails => run.pc \in LockPCs /\ run.cmd # "none"
  BY Zenon DEF LockoutFails, LockPCs
<1>2. LockoutLoaded => journal' = journal \/ (run.pc \in LockPCs /\ run.cmd # "none")
  BY JournalWrites, Sources, Zenon DEF LockPCs
<1> QED BY <1>1, <1>2, Frames, Sources, Zenon DEF ChainStep

LEMMA TailStep ==
    ASSUME RecoveryInv, LoadInv, StepCases, ~Foreign
    PROVE  TailInv'
<1>0. TailInv /\ IdleInv /\ SaveInv
  BY Zenon DEF RecoveryInv, LoadInv
<1> SUFFICES ASSUME journal' # <<>>, Milestone(journal') \in TailNames, sep'.ids # {}
             PROVE  sep'.ids = host'.ids /\ sep'.ver = host'.ver
  BY Zenon DEF TailInv
<1>1. CASE BeginRecovery
  <2>1. Milestone(journal') = Proven("BASELINE")
    BY <1>1, Begun, Zenon
  <2> QED BY <2>1, OtherNames, Zenon
<1>2. CASE journal' = journal /\ sep' = sep /\ host' = host
  BY <1>0, <1>2, Zenon DEF TailInv
<1>3. CASE Dispatch \/ SaveConfirmUser \/ SaveConfirmMaster \/ SaveInstall \/ RestoreMaster \/ RestoreUser
  BY <1>3, Quiet, Zenon
<1>4. CASE Reboot
  BY <1>0, <1>4, Restarting, Zenon DEF TailInv
<1>5. CASE Extends /\ ~BeginRecovery /\ journal' # journal
  <2>1. /\ journal # <<>> /\ sep' = sep /\ host' = host
        /\ Links(Milestone(journal), Milestone(journal'))
    BY <1>5, Zenon DEF Extends
  <2>2. CASE Milestone(journal') = PersistenceProven
    <3>1. sep.user = 3 /\ sep.ids = host.ids
      BY <2>1, <2>2, Zenon DEF Links
    <3>2. ext.records \notin 1..6
      BY <1>0, <1>5, Writing, Zenon DEF IdleInv
    <3>3. \A n \in 3..5 : n \in 1..6
      OBVIOUS
    <3> QED BY <1>0, <2>1, <3>1, <3>2, <3>3, Zenon DEF SaveInv
  <2>3. CASE Milestone(journal') \in {Intent("BIOLOCKOUT_LOAD"), Proven("BIOLOCKOUT")}
    BY <1>0, <2>1, <2>3, Zenon DEF Links, TailInv
  <2> QED BY <2>2, <2>3, Zenon DEF TailNames
<1> QED BY <1>1, <1>2, <1>3, <1>4, <1>5, Frames, Extending, Zenon

\* The last milestones of the histories older versions left.
Before(w, s, m) == \A i \in 1..m : w[i] = s[i]

LEMMA CatFirst ==
    ASSUME NEW s, NEW t, NEW m \in Nat, NEW n \in Nat, Word(s, m), Word(t, n)
    PROVE  Before(s \o t, s, m)
  BY DEF Word, Before

After(w, m, t, n) == \A i \in 1..n : w[m + i] = t[i]

LEMMA CatSecond ==
    ASSUME NEW s, NEW t, NEW m \in Nat, NEW n \in Nat, Word(s, m), Word(t, n)
    PROVE  After(s \o t, m, t, n)
  BY DEF Word, After

LEMMA Short ==
    ASSUME NEW a \in Names
    PROVE  /\ Word(<<a>>, 1)
           /\ \A b \in Names : Word(<<a, b>>, 2)
           /\ \A b \in Names, c \in Names : Word(<<a, b, c>>, 3)
  BY Letters, Zenon

LEMMA CutIndex ==
    ASSUME NEW s, NEW m \in Nat, Word(s, m), NEW n \in 0..m
    PROVE  /\ \A i \in 1..n : Upto(s, n)[i] = s[i]
           /\ \A i \in 1..(m - n) : From(s, n)[i] = s[n + i]
<1>1. s \in Seq(Names) /\ Len(s) = m
  BY DEF Word
<1>2. Upto(s, n) = [i \in 1..n |-> s[i]]
  BY <1>1 DEF Upto
<1>4. From(s, n) = [i \in 1..(m - n) |-> s[i + n]]
  BY <1>1 DEF From
<1>5. ASSUME NEW i \in 1..(m - n) PROVE From(s, n)[i] = s[n + i]
  <2>1. i + n = n + i
    OBVIOUS
  <2> QED BY <1>4, <2>1
<1> QED BY <1>2, <1>5

\* The baseline of such a history names every finger, and its last milestone is its last word's.
LEMMA OldEnds ==
    ASSUME NEW names, NEW n \in Nat, n > 0, Word(names, n), NEW status \in BOOLEAN
    PROVE  /\ Old(names, status)[1].ids = Ids /\ Len(Old(names, status)) = n
           /\ Milestone(Old(names, status)) = names[n]
<1>1. DOMAIN names = 1..n /\ Len(names) = n
  BY DEF Word
<1> DEFINE rec(i) == [m |-> names[i], surface |-> <<>>, boot |-> 0, ver |-> 1,
                      ids |-> IF i = 1 THEN Ids ELSE {},
                      status |-> status /\ i = Len(names)]
           h == Old(names, status)
<1>2. h = [i \in 1..n |-> rec(i)]
  BY <1>1, Zenon DEF Old
<1>3. rec(1).ids = Ids /\ rec(n).m = names[n]
  OBVIOUS
<1> HIDE DEF rec
<1>4. h[1] = rec(1) /\ h[n] = rec(n)
  <2>1. 1 \in 1..n /\ n \in 1..n
    OBVIOUS
  <2> QED BY <1>2, <2>1, Zenon
<1>5. h \in Seq(Entry)
  BY OldTyped
<1> HIDE DEF h
<1>6. Len(h) = n
  <2>1. DOMAIN h = 1..n
    BY <1>2, Zenon
  <2> QED BY <1>5, <2>1
<1>7. Milestone(h) = h[n].m
  BY <1>6, Zenon DEF Milestone, Last
<1> QED BY <1>3, <1>4, <1>6, <1>7, Zenon DEF h

LEMMA RetainedPath ==
    /\ COLD_RESCUE[27] = Intent("RETAINED_MASTER_LOAD") /\ COLD_RESCUE[28] = Accepted("RETAINED_MASTER_LOAD")
    /\ COLD_RESCUE[29] = Proven("COLD_MASTER") /\ COLD_RESCUE[30] = SUCCESS[8]
<1> DEFINE w1 == Upto(RESCUE, 23)
           w2 == <<BadState("REPREPARED_COMPONENTS"), Prepared("COLD_RESTART"),
                Proven("COLD_SURFACE")>>
           w3 == Command("RETAINED_MASTER_LOAD")
           w4 == <<Proven("COLD_MASTER")>>
           w5 == From(SUCCESS, 7)
<1>1. Word(w1, 23)
  <2>1. 23 \in 0..32 /\ 32 \in Nat
    OBVIOUS
  <2> QED BY <2>1, RESCUEWord, Cut, Zenon
<1>2. Word(w2, 3) /\ Word(w3, 2) /\ Word(w4, 1)
  <2>1. /\ BadState("REPREPARED_COMPONENTS") \in Names /\ Prepared("COLD_RESTART") \in Names
        /\ Proven("COLD_SURFACE") \in Names /\ Intent("RETAINED_MASTER_LOAD") \in Names
        /\ Accepted("RETAINED_MASTER_LOAD") \in Names /\ Proven("COLD_MASTER") \in Names
    BY SMT DEF Names, Steps, Outcomes, Commands, BadState, Prepared, Proven, Intent, Accepted
  <2>2. Word(w2, 3)
    BY <2>1, Short, Zenon
  <2>3. Word(w3, 2)
    BY <2>1, Short, Zenon DEF Command
  <2>4. Word(w4, 1)
    BY <2>1, Short, Zenon
  <2> QED BY <2>2, <2>3, <2>4, Zenon
<1>3. Word(w5, 8) /\ w5[1] = SUCCESS[8]
  <2>1. 7 \in 0..15 /\ 15 \in Nat /\ 15 - 7 = 8 /\ 1 \in 1..(15 - 7) /\ 7 + 1 = 8
    OBVIOUS
  <2>2. Word(w5, 8)
    BY <2>1, SUCCESSWord, Cut, Zenon
  <2>3. From(SUCCESS, 7)[1] = SUCCESS[7 + 1]
    BY <2>1, SUCCESSWord, CutIndex, Zenon
  <2> QED BY <2>1, <2>2, <2>3, Zenon
<1>4. /\ w3[1] = Intent("RETAINED_MASTER_LOAD") /\ w3[2] = Accepted("RETAINED_MASTER_LOAD")
      /\ w4[1] = Proven("COLD_MASTER")
  BY SMT DEF Command
<1>5. COLD_RESCUE = w1 \o w2 \o w3 \o w4 \o w5
  BY Zenon DEF COLD_RESCUE
<1> HIDE DEF w1, w2, w3, w4, w5
<1>6. Word(w1 \o w2, 26)
  BY <1>1, <1>2, Cat
<1> DEFINE a == w1 \o w2
           b == a \o w3
           c == b \o w4
<1>7. Word(a, 26) /\ COLD_RESCUE = c \o w5
  BY <1>5, <1>6
<1> HIDE DEF a
<1>8. Word(b, 28) /\ b[27] = w3[1] /\ b[28] = w3[2]
  <2>1. 26 \in Nat /\ 2 \in Nat /\ 26 + 2 = 28
    OBVIOUS
  <2>0. Word(a, 26) /\ Word(w3, 2)
    BY <1>2, <1>7, Zenon
  <2>2. /\ Before(a \o w3, a, 26)
        /\ After(a \o w3, 26, w3, 2)
    <3>1. Before(a \o w3, a, 26)
      BY <2>0, <2>1, CatFirst, Zenon
    <3>2. After(a \o w3, 26, w3, 2)
      BY <2>0, <2>1, CatSecond, Zenon
    <3> QED BY <3>1, <3>2, Zenon
  <2>3. Word(a \o w3, 28)
    BY <2>0, <2>1, Cat, Zenon
  <2> HIDE DEF b
  <2>4. \A i \in 1..2 : b[26 + i] = w3[i]
    BY <2>2, Zenon DEF b, Before, After
  <2>5. b[27] = w3[1] /\ b[28] = w3[2]
    BY <2>4
  <2> QED BY <2>3, <2>5, Zenon DEF b
<1> HIDE DEF b
<1>9. Word(c, 29) /\ c[29] = w4[1] /\ c[27] = b[27] /\ c[28] = b[28]
  <2>1. 28 \in Nat /\ 1 \in Nat /\ 28 + 1 = 29
    OBVIOUS
  <2>0. Word(b, 28) /\ Word(w4, 1)
    BY <1>2, <1>8, Zenon
  <2>2. /\ Before(b \o w4, b, 28)
        /\ After(b \o w4, 28, w4, 1)
    <3>1. Before(b \o w4, b, 28)
      BY <2>0, <2>1, CatFirst, Zenon
    <3>2. After(b \o w4, 28, w4, 1)
      BY <2>0, <2>1, CatSecond, Zenon
    <3> QED BY <3>1, <3>2, Zenon
  <2>3. Word(b \o w4, 29)
    BY <2>0, <2>1, Cat, Zenon
  <2> HIDE DEF c
  <2>4. (\A i \in 1..1 : c[28 + i] = w4[i]) /\ (\A i \in 1..28 : c[i] = b[i])
    BY <2>2, Zenon DEF c, Before, After
  <2>5. c[29] = w4[1] /\ c[27] = b[27] /\ c[28] = b[28]
    BY <2>4
  <2> QED BY <2>3, <2>5, Zenon DEF c
<1> HIDE DEF c
<1>10. /\ COLD_RESCUE[30] = w5[1] /\ COLD_RESCUE[27] = c[27] /\ COLD_RESCUE[28] = c[28]
       /\ COLD_RESCUE[29] = c[29]
  <2>1. 29 \in Nat /\ 8 \in Nat
    OBVIOUS
  <2>2. /\ \A i \in 1..29 : COLD_RESCUE[i] = c[i]
        /\ \A i \in 1..8 : COLD_RESCUE[29 + i] = w5[i]
    <3>1. Word(c, 29) /\ Word(w5, 8)
      BY <1>3, <1>9, Zenon
    <3>2. /\ Before(c \o w5, c, 29)
          /\ After(c \o w5, 29, w5, 8)
      BY <2>1, <3>1, CatFirst, CatSecond, Zenon
    <3> QED BY <1>7, <3>2, Zenon DEF Before, After
  <2> QED BY <2>2
<1> QED BY <1>3, <1>4, <1>8, <1>9, <1>10, Zenon

LEMMA SavedLoad == SUCCESS[8] = Intent("SAVED_USER_LOAD")
<1> DEFINE w1 == <<Proven("BASELINE")>>
           w2 == Command("PREPARE_MASTER")
           w3 == Command("PREPARE_USER")
           w4 == <<Selected("CLIENT_VERSION"), Proven("MISSING_COMPONENTS")>>
           w5 == Command("SAVED_USER_LOAD")
           w6 == <<Proven("SAVED_USER"), Intent("CATACOMB_PERSISTENCE"), PersistenceProven,
                Intent("BIOLOCKOUT_LOAD"), Proven("BIOLOCKOUT"), RecoveryComplete>>
<1>1. Word(w1, 1) /\ Word(w2, 2) /\ Word(w3, 2) /\ Word(w4, 2) /\ Word(w5, 2)
  <2>1. /\ Proven("BASELINE") \in Names /\ Intent("PREPARE_MASTER") \in Names
        /\ Accepted("PREPARE_MASTER") \in Names /\ Intent("PREPARE_USER") \in Names
        /\ Accepted("PREPARE_USER") \in Names /\ Selected("CLIENT_VERSION") \in Names
        /\ Proven("MISSING_COMPONENTS") \in Names /\ Intent("SAVED_USER_LOAD") \in Names
        /\ Accepted("SAVED_USER_LOAD") \in Names
    BY SMT DEF Names, Steps, Outcomes, Commands, Proven, Intent, Accepted, Selected
  <2>2. Word(w1, 1)
    BY <2>1, Short, Zenon
  <2>3. Word(w2, 2) /\ Word(w3, 2)
    BY <2>1, Short, Zenon DEF Command
  <2>4. Word(w4, 2)
    BY <2>1, Short, Zenon
  <2>5. Word(w5, 2)
    BY <2>1, Short, Zenon DEF Command
  <2> QED BY <2>2, <2>3, <2>4, <2>5, Zenon
<1>2. Word(w6, 6)
  <2>1. /\ Proven("SAVED_USER") \in Names /\ Intent("CATACOMB_PERSISTENCE") \in Names
        /\ PersistenceProven \in Names /\ Intent("BIOLOCKOUT_LOAD") \in Names
        /\ Proven("BIOLOCKOUT") \in Names /\ RecoveryComplete \in Names
    BY SMT DEF Names, Steps, Outcomes, Commands, Intent, PersistenceProven, Proven, RecoveryComplete
  <2> QED BY <2>1, Letters, Zenon
<1>3. w5[1] = Intent("SAVED_USER_LOAD")
  BY SMT DEF Command
<1>4. SUCCESS = w1 \o w2 \o w3 \o w4 \o w5 \o w6
  BY Zenon DEF SUCCESS
<1> HIDE DEF w1, w2, w3, w4, w5, w6
<1>5. Word(w1 \o w2, 3)
  BY <1>1, Cat
<1>6. Word(w1 \o w2 \o w3, 5)
  BY <1>1, <1>5, Cat
<1>7. Word(w1 \o w2 \o w3 \o w4, 7)
  BY <1>1, <1>6, Cat
<1> DEFINE a == w1 \o w2 \o w3 \o w4
           b == a \o w5
<1>8. Word(a, 7) /\ SUCCESS = b \o w6
  BY <1>4, <1>7
<1> HIDE DEF a
<1>9. Word(b, 9) /\ b[8] = w5[1]
  <2>1. 7 \in Nat /\ 2 \in Nat /\ 7 + 2 = 9
    OBVIOUS
  <2>0. Word(a, 7) /\ Word(w5, 2)
    BY <1>1, <1>8, Zenon
  <2>2. /\ Before(a \o w5, a, 7)
        /\ After(a \o w5, 7, w5, 2)
    <3>1. Before(a \o w5, a, 7)
      BY <2>0, <2>1, CatFirst, Zenon
    <3>2. After(a \o w5, 7, w5, 2)
      BY <2>0, <2>1, CatSecond, Zenon
    <3> QED BY <3>1, <3>2, Zenon
  <2>3. Word(a \o w5, 9)
    BY <2>0, <2>1, Cat, Zenon
  <2> HIDE DEF b
  <2>4. \A i \in 1..2 : b[7 + i] = w5[i]
    BY <2>2, Zenon DEF b, Before, After
  <2>5. b[8] = w5[1]
    BY <2>4
  <2> QED BY <2>3, <2>5, Zenon DEF b
<1> HIDE DEF b
<1>10. SUCCESS[8] = b[8]
  <2>1. 9 \in Nat /\ 6 \in Nat /\ 8 \in 1..9
    OBVIOUS
  <2>2. Word(b, 9) /\ Word(w6, 6)
    BY <1>2, <1>9, Zenon
  <2>3. Before(b \o w6, b, 9)
    BY <2>1, <2>2, CatFirst, Zenon
  <2> QED BY <1>8, <2>1, <2>3, Zenon DEF Before
<1> QED BY <1>3, <1>9, <1>10, Zenon

LEMMA RejectionPath == RejectionCold[31] = Rejected("SAVED_USER_LOAD")
<1> DEFINE w1 == Upto(COLD_RESCUE, 30)
           w2 == <<Rejected("SAVED_USER_LOAD")>>
<1>1. Word(w1, 30)
  <2>1. 30 \in 0..37 /\ 37 \in Nat
    OBVIOUS
  <2> QED BY <2>1, COLD_RESCUEWord, Cut, Zenon
<1>2. Word(w2, 1) /\ Word(Restarted, 2)
  <2>1. /\ Rejected("SAVED_USER_LOAD") \in Names /\ Prepared("CANONICAL_RESTART") \in Names
        /\ Proven("CANONICAL_COLD_SURFACE") \in Names
    BY SMT DEF Names, Steps, Outcomes, Commands, Prepared, Proven, Rejected
  <2>2. Word(w2, 1)
    BY <2>1, Short, Zenon
  <2>3. Word(Restarted, 2)
    BY <2>1, Short, Zenon DEF Restarted
  <2> QED BY <2>2, <2>3, Zenon
<1>3. w2[1] = Rejected("SAVED_USER_LOAD")
  OBVIOUS
<1>4. RejectionCold = w1 \o w2 \o Restarted
  BY Zenon DEF RejectionCold
<1> HIDE DEF w1, w2
<1> DEFINE a == w1 \o w2
<1>5. Word(a, 31) /\ a[31] = w2[1]
  <2>1. 30 \in Nat /\ 1 \in Nat /\ 30 + 1 = 31
    OBVIOUS
  <2>0. Word(w1, 30) /\ Word(w2, 1)
    BY <1>1, <1>2, Zenon
  <2>2. /\ Before(w1 \o w2, w1, 30)
        /\ After(w1 \o w2, 30, w2, 1)
    <3>1. Before(w1 \o w2, w1, 30)
      BY <2>0, <2>1, CatFirst, Zenon
    <3>2. After(w1 \o w2, 30, w2, 1)
      BY <2>0, <2>1, CatSecond, Zenon
    <3> QED BY <3>1, <3>2, Zenon
  <2>3. Word(w1 \o w2, 31)
    BY <2>0, <2>1, Cat, Zenon
  <2> HIDE DEF a
  <2>4. \A i \in 1..1 : a[30 + i] = w2[i]
    BY <2>2, Zenon DEF a, Before, After
  <2>5. a[31] = w2[1]
    BY <2>4
  <2> QED BY <2>3, <2>5, Zenon DEF a
<1>6. RejectionCold = a \o Restarted
  BY <1>4
<1> HIDE DEF a
<1>7. RejectionCold[31] = a[31]
  <2>1. 31 \in Nat /\ 2 \in Nat /\ 31 \in 1..31
    OBVIOUS
  <2>2. Word(a, 31) /\ Word(Restarted, 2)
    BY <1>2, <1>5, Zenon
  <2>3. Before(a \o Restarted, a, 31)
    BY <2>1, <2>2, CatFirst, Zenon
  <2> QED BY <1>6, <2>1, <2>3, Zenon DEF Before
<1> QED BY <1>3, <1>5, <1>7, Zenon

\* Such a history names every finger in its baseline, and ends in a cold surface only
\* where it stopped at the restart.
LEMMA OldFacts ==
    ASSUME NEW h \in OldJournals
    PROVE  h[1].ids = Ids /\ (Milestone(h) \in ColdNames => Len(h) = 26)
<1> DEFINE Good(x) == x[1].ids = Ids /\ (Milestone(x) \in ColdNames => Len(x) = 26)
<1>n. /\ {Intent("RETAINED_MASTER_LOAD"), Accepted("RETAINED_MASTER_LOAD"), Proven("COLD_MASTER"),
          Intent("SAVED_USER_LOAD"), Rejected("SAVED_USER_LOAD"), Proven("CANONICAL_MASTER_REPLY"),
          Rejected("CANONICAL_USER_LOAD")} \cap ColdNames = {}
  BY SMT DEF ColdNames, Intent, Accepted, Proven, Rejected
<1>b. TRUE \in BOOLEAN /\ FALSE \in BOOLEAN
  OBVIOUS
<1>1. ASSUME NEW n \in 26..30 PROVE Good(Old(Upto(COLD_RESCUE, n), FALSE))
  <2>1. n \in 0..37 /\ 37 \in Nat /\ n \in Nat /\ n > 0 /\ n \in 1..n
    OBVIOUS
  <2>2. Word(Upto(COLD_RESCUE, n), n) /\ Upto(COLD_RESCUE, n)[n] = COLD_RESCUE[n]
    BY <2>1, COLD_RESCUEWord, Cut, CutIndex, Zenon
  <2>3. n \in {26, 27, 28, 29, 30}
    OBVIOUS
  <2>4. n = 26 \/ COLD_RESCUE[n] \notin ColdNames
    BY <1>n, <2>3, RetainedPath, SavedLoad, Zenon
  <2> QED BY <1>b, <2>1, <2>2, <2>4, OldEnds, Zenon
<1>2. Good(Old(Upto(RejectionCold, 31), FALSE))
  <2>1. 31 \in 0..33 /\ 33 \in Nat /\ 31 \in Nat /\ 31 > 0 /\ 31 \in 1..31
    OBVIOUS
  <2>2. Word(Upto(RejectionCold, 31), 31) /\ Upto(RejectionCold, 31)[31] = RejectionCold[31]
    BY <2>1, RejectionColdWord, Cut, CutIndex, Zenon
  <2>3. RejectionCold[31] \notin ColdNames
    BY <1>n, RejectionPath, Zenon
  <2> DEFINE names == Upto(RejectionCold, 31)
             len == 31
  <2>4. Word(names, len) /\ names[len] \notin ColdNames /\ len \in Nat /\ len > 0
    BY <2>1, <2>2, <2>3, Zenon
  <2> HIDE DEF names, len
  <2>5. Good(Old(names, FALSE))
    BY <1>b, <2>4, OldEnds, Zenon
  <2> QED BY <2>5, Zenon DEF names
<1>3. Word(DirectCold, 26) /\ Word(RejectionCold, 33)
  <2>1. 26 \in 0..37 /\ 37 \in Nat
    OBVIOUS
  <2> QED BY <2>1, COLD_RESCUEWord, RejectionColdWord, Cut, Zenon DEF DirectCold
<1>4. Word(MASTER_REPLY, 3) /\ MASTER_REPLY[3] = Proven("CANONICAL_MASTER_REPLY")
  <2>1. /\ Intent("CANONICAL_MASTER_LOAD") \in Names /\ Rejected("CANONICAL_MASTER_LOAD") \in Names
        /\ Proven("CANONICAL_MASTER_REPLY") \in Names
    BY SMT DEF Names, Steps, Outcomes, Commands, Intent, Rejected, Proven
  <2>2. Word(MASTER_REPLY, 3)
    BY <2>1, Short, Zenon DEF MASTER_REPLY
  <2>3. MASTER_REPLY[3] = Proven("CANONICAL_MASTER_REPLY")
    BY SMT DEF MASTER_REPLY
  <2> QED BY <2>2, <2>3, Zenon
<1> DEFINE u == <<Intent("CANONICAL_USER_LOAD"), Rejected("CANONICAL_USER_LOAD")>>
<1>5. Word(u, 2) /\ u[2] = Rejected("CANONICAL_USER_LOAD")
  <2>1. Intent("CANONICAL_USER_LOAD") \in Names /\ Rejected("CANONICAL_USER_LOAD") \in Names
    BY SMT DEF Names, Steps, Outcomes, Commands, Intent, Rejected
  <2>2. Word(u, 2)
    BY <2>1, Short, Zenon
  <2>3. u[2] = Rejected("CANONICAL_USER_LOAD")
    OBVIOUS
  <2> QED BY <2>2, <2>3, Zenon
<1> HIDE DEF u
<1>6. ASSUME NEW cold, NEW n \in Nat, Word(cold, n), NEW st \in BOOLEAN
      PROVE  Good(Old(cold \o MASTER_REPLY, FALSE)) /\ Good(Old(RejectedUser(cold), st))
  <2> DEFINE a == cold \o MASTER_REPLY
             b == a \o u
  <2>1. Word(a, n + 3) /\ a[n + 3] = MASTER_REPLY[3]
    <3>1. 3 \in Nat /\ 3 \in 1..3
      OBVIOUS
    <3>2. Word(cold, n) /\ Word(MASTER_REPLY, 3)
      BY <1>4, <1>6, Zenon
    <3>3. After(cold \o MASTER_REPLY, n, MASTER_REPLY, 3)
      BY <3>1, <3>2, CatSecond, Zenon
    <3>4. Word(cold \o MASTER_REPLY, n + 3)
      BY <3>1, <3>2, Cat, Zenon
    <3> QED BY <3>1, <3>3, <3>4, Zenon DEF After
  <2>2. RejectedUser(cold) = b
    BY Zenon DEF RejectedUser, u
  <2>3. n + 3 \in Nat /\ n + 3 > 0 /\ n + 5 \in Nat /\ n + 5 > 0
    OBVIOUS
  <2>4. Good(Old(a, FALSE))
    <3> DEFINE len == n + 3
               names == a
    <3>1. Word(names, len) /\ names[len] \notin ColdNames /\ len \in Nat /\ len > 0
      BY <1>n, <1>4, <2>1, <2>3, Zenon
    <3> HIDE DEF len, names
    <3>2. Good(Old(names, FALSE))
      BY <1>b, <3>1, OldEnds, Zenon
    <3> QED BY <3>2, Zenon DEF names
  <2> HIDE DEF a
  <2>5. Word(b, n + 5) /\ b[n + 5] = u[2]
    <3>1. 2 \in Nat /\ 2 \in 1..2 /\ (n + 3) + 2 = n + 5
      OBVIOUS
    <3>2. Word(b, (n + 3) + 2) /\ b[(n + 3) + 2] = u[2]
      <4> DEFINE len == n + 3
      <4>1. Word(a, len) /\ Word(u, 2) /\ len \in Nat
        BY <1>5, <2>1, <2>3, Zenon
      <4> HIDE DEF len
      <4>2. After(a \o u, len, u, 2)
        BY <3>1, <4>1, CatSecond, Zenon
      <4>3. Word(a \o u, len + 2)
        BY <3>1, <4>1, Cat, Zenon
      <4> QED BY <3>1, <4>2, <4>3, Zenon DEF len, After
    <3> QED BY <3>1, <3>2, Zenon
  <2> HIDE DEF b
  <2>6. Good(Old(b, st))
    <3> DEFINE len == n + 5
    <3>1. Word(b, len) /\ b[len] \notin ColdNames /\ len \in Nat /\ len > 0
      BY <1>n, <1>5, <2>3, <2>5, Zenon
    <3> HIDE DEF len
    <3> QED BY <3>1, OldEnds, Zenon
  <2> QED BY <2>2, <2>4, <2>6, Zenon DEF a
<1>7. 26 \in Nat /\ 33 \in Nat
  OBVIOUS
<1>8. ASSUME NEW cold \in {DirectCold, RejectionCold}, NEW st \in BOOLEAN
      PROVE  Good(Old(cold \o MASTER_REPLY, FALSE)) /\ Good(Old(RejectedUser(cold), st))
  BY <1>3, <1>6, <1>7, Zenon
<1> HIDE DEF Good
<1>9. \/ h \in {Old(Upto(COLD_RESCUE, n), FALSE) : n \in 26..30}
      \/ h \in {Old(Upto(RejectionCold, 31), FALSE)}
      \/ h \in {Old(cold \o MASTER_REPLY, FALSE) : cold \in {DirectCold, RejectionCold}}
      \/ h \in {Old(RejectedUser(DirectCold), st) : st \in BOOLEAN}
      \/ h \in {Old(RejectedUser(RejectionCold), st) : st \in BOOLEAN}
  BY Zenon DEF OldJournals
<1>10. CASE h \in {Old(Upto(COLD_RESCUE, n), FALSE) : n \in 26..30}
  <2>1. Good(h)
    BY <1>1, <1>10, Zenon
  <2> QED BY <2>1, Zenon DEF Good
<1>11. CASE h \in {Old(cold \o MASTER_REPLY, FALSE) : cold \in {DirectCold, RejectionCold}}
  <2>1. Good(h)
    BY <1>8, <1>11, <1>b, Zenon
  <2> QED BY <2>1, Zenon DEF Good
<1>12. CASE h \in {Old(RejectedUser(DirectCold), st) : st \in BOOLEAN}
  <2>1. Good(h)
    BY <1>8, <1>12, Zenon
  <2> QED BY <2>1, Zenon DEF Good
<1>13. CASE h \in {Old(RejectedUser(RejectionCold), st) : st \in BOOLEAN}
  <2>1. Good(h)
    BY <1>8, <1>13, Zenon
  <2> QED BY <2>1, Zenon DEF Good
<1>14. CASE h \in {Old(Upto(RejectionCold, 31), FALSE)}
  <2>1. Good(h)
    BY <1>2, <1>14, Zenon
  <2> QED BY <2>1, Zenon DEF Good
<1> QED BY <1>9, <1>10, <1>11, <1>12, <1>13, <1>14, Zenon

LEMMA LoadInitial ==
    ASSUME RecoveryInit
    PROVE  LoadInv
<1>1. host = [ids |-> Ids, ver |-> 1] /\ run = Off /\ sep \in ColdStart \cup {RetainedMaster}
  BY Zenon DEF RecoveryInit
<1>2. run.pc = "off" /\ sep.ids = {} /\ host.ids = Ids /\ \A s \in ColdStart : s.master = 1
  <2>1. sep.ids = {} /\ \A s \in ColdStart : s.master = 1
    BY <1>1 DEF ColdStart, RetainedMaster
  <2>2. host.ids = Ids
    BY <1>1
  <2> QED BY <1>1, <2>1, <2>2, OffTyped, Zenon
<1>3. "off" \notin {"chain", "write", "sent", "replied", "save"} \cup LockPCs \cup {"stage", "user"} \cup Staged
      /\ "off" # "restore_master" /\ "off" # "sent" /\ "off" # "save"
  BY SMT DEF LockPCs, Staged
<1>4. journal # <<>> => /\ journal \in OldJournals
                        /\ sep \in IF Len(journal) = 26 THEN ColdStart ELSE {RetainedMaster}
  BY Zenon DEF RecoveryInit
<1>5. IdleInv
  BY <1>2, <1>3, Zenon DEF IdleInv
<1>6. ColdInv
  BY <1>2, <1>3, <1>4, OldFacts, Zenon DEF ColdInv
<1>7. StageInv
  BY <1>2, <1>3, Zenon DEF StageInv
<1>8. AuthorityInv
  BY <1>2, <1>4, OldFacts, Zenon DEF AuthorityInv
<1>9. TailInv
  BY <1>2, Zenon DEF TailInv
<1> QED BY <1>5, <1>6, <1>7, <1>8, <1>9, Zenon DEF LoadInv

\* The second invariant, inductive together with the first: what a load and a close rely on.
LEMMA LoadInvariance ==
    ASSUME ~Foreign
    PROVE  RecoverySpec => [](RecoveryInv /\ LoadInv)
<1>1. RecoveryInit => RecoveryInv /\ LoadInv
  BY RecoveryInitial, LoadInitial
<1>2. RecoveryInv /\ LoadInv /\ [RecoveryNext]_recoveryVars => (RecoveryInv /\ LoadInv)'
  <2> SUFFICES ASSUME RecoveryInv, LoadInv, [RecoveryNext]_recoveryVars
               PROVE  RecoveryInv' /\ LoadInv'
    BY Zenon
  <2>1. StepCases
    BY StepShapes, Zenon
  <2>2. IdleInv' /\ ColdInv' /\ StageInv' /\ AuthorityInv' /\ TailInv'
    BY <2>1, IdleStep, ColdStep, StageStep, AuthorityStep, TailStep, Zenon
  <2> QED BY <2>2, RecoveryInductive, Zenon DEF LoadInv
<1> QED BY <1>1, <1>2, PTL DEF RecoverySpec

\* However old the readback is that proved the T2 cold, and whatever restarts came between,
\* the committed master is loaded onto a cold T2 only; and a recovery that closes as complete
\* leaves the identities it began with in the archive, which is what the T2 holds.
THEOREM LoadsAlwaysSound ==
    ASSUME ~Foreign
    PROVE  RecoverySpec => LoadsSound
<1>1. RecoveryInv /\ LoadInv /\ [RecoveryNext]_recoveryVars => [ColdMasterLoad /\ CompleteSound]_recoveryVars
  <2> SUFFICES ASSUME RecoveryInv, LoadInv, [RecoveryNext]_recoveryVars PROVE ColdMasterLoad /\ CompleteSound
    BY Zenon
  <2>0. StepCases /\ BoundsOK /\ ColdInv /\ AuthorityInv /\ TailInv
    BY StepShapes, RecoveryParts, Zenon DEF RecoveryInv, LoadInv
  <2>1. ASSUME sent'["CANONICAL_MASTER_LOAD"] > sent["CANONICAL_MASTER_LOAD"] PROVE sep.master = 1
    <3> DEFINE c == "CANONICAL_MASTER_LOAD"
    <3>1. c \in Commands /\ sent \in [Commands -> Nat] /\ sent[c] \in Nat /\ sent'[c] > sent[c]
      BY <2>0, <2>1, Zenon DEF BoundsOK, Commands
    <3> HIDE DEF c
    <3>2. sent' # sent
      BY <3>1
    <3>3. CASE BeginRecovery
      <4>1. sent' = [d \in Commands |-> 0]
        BY <3>3, Zenon DEF BeginRecovery
      <4>2. sent'[c] = 0
        BY <3>1, <4>1, Zenon
      <4> QED BY <3>1, <4>2
    <3>4. CASE Dispatch
      <4>1. sent' = [sent EXCEPT ![run.cmd] = @ + 1] /\ run.pc = "sent"
        BY <3>4, Sources, Zenon DEF Dispatch
      <4>2. c # run.cmd => sent'[c] = sent[c]
        BY <3>1, <4>1, Zenon
      <4>3. c = run.cmd
        BY <3>1, <4>2
      <4> QED BY <2>0, <4>1, <4>3, Zenon DEF ColdInv, c
    <3> QED BY <2>0, <3>2, <3>3, <3>4, Frames, Zenon
  <2>2. ColdMasterLoad
    BY <2>0, <2>1, Zenon DEF ColdMasterLoad, ColdInv
  <2>3. CompleteSound
    <3> SUFFICES ASSUME journal' # journal, journal' # <<>>, Milestone(journal') = RecoveryComplete
                 PROVE  /\ host.ids = journal[1].ids
                        /\ sep.ids # {} => sep.ids = host.ids /\ sep.ver = host.ver
      BY Zenon DEF CompleteSound
    <3>1. ~BeginRecovery
      BY Begun, OtherNames, Zenon
    <3>2. journal # <<>> /\ Milestone(journal) = Proven("BIOLOCKOUT")
      BY <2>0, <3>1, Extending, Zenon DEF Extends, Links
    <3>3. Proven("BIOLOCKOUT") \in TailNames /\ Proven("BIOLOCKOUT") \notin EmptyTail
      BY OtherNames, Zenon DEF TailNames
    <3> QED BY <2>0, <3>2, <3>3, Zenon DEF AuthorityInv, TailInv
  <2> QED BY <2>2, <2>3, Zenon
<1> QED BY <1>1, LoadInvariance, PTL DEF RecoverySpec, LoadsSound
=============================================================================

