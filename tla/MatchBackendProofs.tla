------------------------- MODULE MatchBackendProofs -------------------------
(***************************************************************************)
(* Proofs about what touches the sensor: MatchBackend and Enrollment, two  *)
(* specifications that share nothing but this module.                      *)
(*                                                                         *)
(* MatchBackend: a device that was handed over is not taken back, and a    *)
(* worker never serves what is left of an earlier request, for any number  *)
(* of workers, sleeps, calls, stops, deaths and other owners.              *)
(*                                                                         *)
(* Enrollment: what a closed enrollment reports and what is published is   *)
(* in the SEP and in the archive, and a finger is owned by its journal     *)
(* until it is saved, for any set of fingers and any number of events,     *)
(* failures, restarts and enrollments.                                     *)
(***************************************************************************)
EXTENDS MatchBackend, Enrollment, FiniteSetTheorems, TLAPS

-----------------------------------------------------------------------------
(* The inductive invariant. *)

Pcs == {"none", "new", "op", "op2", "sleep", "start", "boot", "exchange", "stopping", "kill",
        "discard", "launch", "collect"}

TaskType == [pc : Pcs, p : Procs \cup Nat \cup {None}, hit : BOOLEAN]

States == {"none", "starting", "idle", "busy", "releasing", "exited"}

Answer == [id : Nat \cup {None}, kind : {"result", "cancelled", "error"}]

ProcType == [state : States, eof : BOOLEAN, request : Nat \cup {None}, stop : BOOLEAN,
             answer : Answer \cup {None}]

QuiesceType == [gen : Nat, pc : {"new", "gather", "start", "drop", "barrier"},
                waits : SUBSET Tasks, p : Procs \cup {None}]

\* A task that has a worker names it.
WithWorker == {"boot", "exchange", "stopping", "kill", "discard"}

TasksType == {ts \in [Tasks -> TaskType] :
                 \A t \in Tasks : ts[t].pc \in WithWorker => ts[t].p \in Procs}

Types ==
    /\ sleep \in [on : BOOLEAN, gen : Nat]
    /\ quiesce \in Seq(QuiesceType)
    /\ task \in TasksType
    /\ worker \in Procs \cup {None}
    /\ proc \in [Procs -> ProcType]
    /\ used \in [calls : Nat, id : Nat, stops : Nat, deaths : Nat, others : Nat]

\* Another process holds the lock file from its first question to its last step, and what
\* it was told is free is not taken by the one that told it.
HandoverInv ==
    /\ other \in [stage : {"none", "locked", "asking", "confirmed", "acked", "open"},
                  to : Procs \cup {None}]
    /\ other.stage # "none" => flock = "other"
    /\ other.stage \in {"asking", "confirmed", "acked"} => other.to \in Procs
    /\ other.stage = "acked" => aks # other.to

\* The resident worker has a request or an answer only while the verification that sent the
\* request still waits for it: it has one of them, and it works only on a request.
RequestInv ==
    worker # None =>
        /\ proc[worker].request # None \/ proc[worker].answer # None =>
              task["verify"].pc \in {"exchange", "stopping"} /\ task["verify"].p = worker
        /\ proc[worker].answer # None => proc[worker].request = None
        /\ proc[worker].state = "busy" => proc[worker].request # None

Inv == Types /\ HandoverInv /\ RequestInv

\* The warm up that the sleep task gathers is a task.
WarmingInv == warming \in Warms \cup {None}

-----------------------------------------------------------------------------
(* Tasks, processes and the queue of sleep tasks. *)

Serving == {"exchange", "stopping"}

LEMMA GoesFields ==
    ASSUME task \in TasksType, NEW t \in Tasks, NEW to \in Pcs, Goes(t, to),
           to \in WithWorker => task[t].p \in Procs
    PROVE  /\ task' \in TasksType /\ task'[t].pc = to /\ task'[t].p = task[t].p
           /\ task'[t].hit = task[t].hit
           /\ \A u \in Tasks : u # t => task'[u] = task[u]
<1> DEFINE v == [task[t] EXCEPT !.pc = to]
<1>1. task[t] \in TaskType
  BY DEF TasksType
<1>2. v \in TaskType /\ v.pc = to /\ v.p = task[t].p /\ v.hit = task[t].hit
  BY <1>1 DEF TaskType
<1>3. task' = [task EXCEPT ![t] = v]
  BY DEF Goes, TasksType
<1> HIDE DEF v
<1>4. v.pc \in WithWorker => v.p \in Procs
  BY <1>2
<1>5. /\ task' \in TasksType /\ task'[t] = v
      /\ \A u \in Tasks : u # t => task'[u] = task[u]
  BY <1>2, <1>3, <1>4 DEF TasksType
<1> QED BY <1>2, <1>5

LEMMA IdleTask ==
    ASSUME task \in TasksType, NEW t \in Tasks
    PROVE  /\ [task EXCEPT ![t] = Idle] \in TasksType
           /\ [task EXCEPT ![t] = Idle][t] = Idle
           /\ \A u \in Tasks : u # t => [task EXCEPT ![t] = Idle][u] = task[u]
<1>1. Idle \in TaskType /\ Idle.pc \notin WithWorker
  BY DEF Idle, TaskType, Pcs, WithWorker
<1> QED BY <1>1 DEF TasksType

LEMMA VerifyIsTask ==
    /\ {"verify", "inventory", "caller", "spawn"} \subseteq Tasks /\ Warms \subseteq Tasks
    /\ Collectors \subseteq Tasks \ {"verify"}
BY DEF Tasks, Warms, Collectors

\* Whoever gathers a task that ends goes on.
LEMMA QuiesceLeft ==
    ASSUME quiesce \in Seq(QuiesceType), NEW t
    PROVE  [i \in DOMAIN quiesce |-> [quiesce[i] EXCEPT !.waits = @ \ {t}]] \in Seq(QuiesceType)
<1> DEFINE q == [i \in DOMAIN quiesce |-> [quiesce[i] EXCEPT !.waits = @ \ {t}]]
<1>1. DOMAIN quiesce = 1 .. Len(quiesce) /\ Len(quiesce) \in Nat
  OBVIOUS
<1>2. ASSUME NEW i \in DOMAIN quiesce PROVE [quiesce[i] EXCEPT !.waits = @ \ {t}] \in QuiesceType
  <2>1. quiesce[i] \in QuiesceType
    BY <1>1, <1>2
  <2> DEFINE w == quiesce[i].waits \ {t}
  <2>2. w \in SUBSET Tasks
    BY <2>1 DEF QuiesceType
  <2> HIDE DEF w
  <2>3. [quiesce[i] EXCEPT !.waits = w] \in QuiesceType
    BY <2>1, <2>2 DEF QuiesceType
  <2> QED BY <2>3 DEF w
<1>3. q \in [1 .. Len(quiesce) -> QuiesceType]
  BY <1>1, <1>2
<1> QED BY <1>1, <1>3

LEMMA EndsFields ==
    ASSUME Types, NEW t \in Tasks, Ends(t)
    PROVE  /\ task' \in TasksType /\ task'[t] = Idle /\ quiesce' \in Seq(QuiesceType)
           /\ \A u \in Tasks : u # t => task'[u] = task[u]
BY IdleTask, QuiesceLeft DEF Ends, Types

\* What QuiesceGoes and QuiesceEnds leave of the queue.
LEMMA QuiesceStep ==
    ASSUME Types, quiesce # <<>>
    PROVE  /\ Head1 \in QuiesceType /\ Tail(quiesce) \in Seq(QuiesceType)
           /\ \A to \in {"gather", "start", "drop", "barrier"}, p \in Procs \cup {None},
                 waits \in SUBSET Tasks :
                 QuiesceGoes(to, p, waits) => quiesce' \in Seq(QuiesceType)
<1>1. quiesce \in Seq(QuiesceType) /\ 1 \in DOMAIN quiesce /\ DOMAIN quiesce = 1 .. Len(quiesce)
  BY DEF Types
<1>2. Head1 \in QuiesceType
  BY <1>1 DEF Head1
<1>3. Tail(quiesce) \in Seq(QuiesceType)
  BY <1>1
<1>4. ASSUME NEW to \in {"gather", "start", "drop", "barrier"}, NEW p \in Procs \cup {None},
             NEW waits \in SUBSET Tasks, QuiesceGoes(to, p, waits)
      PROVE  quiesce' \in Seq(QuiesceType)
  <2> DEFINE v == [gen |-> Head1.gen, pc |-> to, p |-> p, waits |-> waits]
  <2>1. v \in QuiesceType
    BY <1>2 DEF QuiesceType
  <2>2. quiesce' = [quiesce EXCEPT ![1] = v]
    BY <1>4 DEF QuiesceGoes
  <2> HIDE DEF v
  <2> QED BY <1>1, <2>1, <2>2
<1> QED BY <1>2, <1>3, <1>4

\* A step that leaves the workers and the device alone, and the verification where it waits.
LEMMA Quietly ==
    ASSUME Inv, Types', UNCHANGED <<worker, proc, other, flock, aks>>,
           \/ task["verify"].pc \notin Serving
           \/ task'["verify"].pc = task["verify"].pc /\ task'["verify"].p = task["verify"].p
    PROVE  Inv'
BY DEF Inv, HandoverInv, RequestInv, Serving

\* A process that is gone had the lock file and the device for itself.
LEMMA ReleasedHandover ==
    ASSUME Inv, NEW p \in Procs \cup {None}, Released(p)
    PROVE  HandoverInv'
BY NamesAssumption DEF Inv, HandoverInv, Released

LEMMA NoProcType == NoProc \in ProcType /\ NoProc.request = None /\ NoProc.answer = None
                    /\ NoProc.state = "none"
BY DEF NoProc, ProcType, States

-----------------------------------------------------------------------------
(* The tasks of the daemon. *)

\* The verification that starts an exchange is the only one the worker hears from.
LEMMA ReturnedInv ==
    ASSUME Inv, NEW t \in Tasks, NEW p \in Procs, Returned(t, p),
           task[t].pc \in {"start", "boot"},
           UNCHANGED <<sleep, worker, other, flock, aks>>
    PROVE  Inv'
<1>1. CASE t # "verify"
  <2>1. Ends(t) /\ UNCHANGED <<used, proc>>
    BY <1>1 DEF Returned
  <2>2. Types'
    BY <2>1, EndsFields DEF Inv, Types
  <2>3. task'["verify"] = task["verify"]
    BY <1>1, <2>1, EndsFields, VerifyIsTask DEF Inv
  <2> QED BY <2>1, <2>2, <2>3, Quietly
<1>2. CASE t = "verify"
  <2> DEFINE v == [pc |-> "exchange", p |-> p, hit |-> FALSE]
  <2>1. /\ task' = [task EXCEPT !["verify"] = v] /\ used' = [used EXCEPT !.id = @ + 1]
        /\ proc' = [proc EXCEPT ![p].request = used.id + 1] /\ quiesce' = quiesce
    BY <1>2 DEF Returned
  <2>2. v \in TaskType /\ v.pc = "exchange" /\ v.p = p
    BY DEF TaskType, Pcs
  <2> HIDE DEF v
  <2>3. task' \in TasksType /\ task'["verify"] = v
    <3>1. task \in TasksType /\ (v.pc \in WithWorker => v.p \in Procs)
      BY <2>2 DEF Inv, Types
    <3> QED BY <2>1, <2>2, <3>1, VerifyIsTask DEF TasksType
  <2>4. used.id \in Nat /\ used.id + 1 \in Nat /\ used.id + 1 # None
    BY NamesAssumption DEF Inv, Types
  <2>5. used' \in [calls : Nat, id : Nat, stops : Nat, deaths : Nat, others : Nat]
    BY <2>1, <2>4 DEF Inv, Types
  <2>6. /\ proc' \in [Procs -> ProcType] /\ proc'[p].request = used.id + 1
        /\ proc'[p].answer = proc[p].answer
        /\ \A q \in Procs : q # p => proc'[q] = proc[q]
    BY ZenonT(60), <2>1, <2>4 DEF Inv, Types, ProcType
  <2>7. Types'
    BY <2>1, <2>3, <2>5, <2>6 DEF Inv, Types
  <2>8. worker # None => proc[worker].request = None /\ proc[worker].answer = None
    BY <1>2 DEF Inv, RequestInv
  <2>9. RequestInv'
    BY <2>2, <2>3, <2>4, <2>6, <2>8 DEF Inv, Types, RequestInv
  <2> QED BY <2>7, <2>9 DEF Inv, HandoverInv
<1> QED BY <1>1, <1>2

LEMMA EnsureReadyInv == ASSUME Inv, NEW t \in Tasks, EnsureReady(t) PROVE Inv'
BY ReturnedInv DEF EnsureReady, Inv, Types

LEMMA EnsureStartsInv == ASSUME Inv, NEW t \in Tasks, EnsureStarts(t) PROVE Inv'
<1>1. PICK p \in Free \cup ({worker} \ {None}) :
         /\ proc' = [[proc EXCEPT ![IF worker = None THEN p ELSE worker] = NoProc]
                        EXCEPT ![p] = [NoProc EXCEPT !.state = "starting"]]
         /\ worker' = p
         /\ task' = [task EXCEPT ![t].pc = "boot", ![t].p = p]
  BY DEF EnsureStarts
<1>2. p \in Procs /\ task \in TasksType /\ proc \in [Procs -> ProcType]
      /\ task[t].pc = "start" /\ UNCHANGED <<sleep, quiesce, other, flock, aks, used>>
  BY DEF Inv, Types, Free, EnsureStarts
<1> DEFINE v == [task[t] EXCEPT !.pc = "boot", !.p = p]
           fresh == [NoProc EXCEPT !.state = "starting"]
<1>3. v \in TaskType /\ v.pc = "boot" /\ v.p = p
  BY <1>2 DEF TasksType, TaskType, Pcs
<1>4. task' = [task EXCEPT ![t] = v]
  BY <1>1, <1>2 DEF TasksType
<1>5. fresh \in ProcType /\ fresh.request = None /\ fresh.answer = None /\ fresh.state = "starting"
  BY DEF NoProc, ProcType, States
<1> HIDE DEF v, fresh
<1>6. task' \in TasksType
  BY <1>2, <1>3, <1>4 DEF TasksType, WithWorker
<1>7. proc' \in [Procs -> ProcType] /\ proc'[p] = fresh
  BY <1>1, <1>2, <1>5, NoProcType DEF fresh
<1>8. Types'
  BY <1>1, <1>2, <1>6, <1>7 DEF Inv, Types
<1>9. RequestInv'
  BY <1>1, <1>5, <1>7 DEF RequestInv
<1> QED BY <1>2, <1>8, <1>9 DEF Inv, HandoverInv

\* A task that ends without a worker to care for.
LEMMA EndsInv ==
    ASSUME Inv, NEW t \in Tasks, Ends(t), t = "verify" => task[t].pc \notin Serving,
           UNCHANGED <<sleep, worker, proc, other, flock, aks, used>>
    PROVE  Inv'
<1>1. Types'
  BY EndsFields DEF Inv, Types
<1>2. t # "verify" => task'["verify"] = task["verify"]
  BY EndsFields, VerifyIsTask DEF Inv
<1> QED BY <1>1, <1>2, Quietly

LEMMA EnsureRefusedInv == ASSUME Inv, NEW t \in Tasks, EnsureRefused(t) PROVE Inv'
BY EndsInv DEF EnsureRefused, Serving

LEMMA CancelledInv == ASSUME Inv, NEW t \in Tasks, Cancelled(t) PROVE Inv'
BY EndsInv DEF Cancelled, Serving

LEMMA BootDoneInv == ASSUME Inv, NEW t \in Tasks, BootDone(t) PROVE Inv'
<1>1. task[t].p \in Procs
  BY DEF BootDone, Inv, Types, TasksType, WithWorker
<1> QED BY <1>1, ReturnedInv DEF BootDone

LEMMA ReapedFields ==
    ASSUME Types, NEW p \in Procs \cup {None}, Reaped(p)
    PROVE  /\ proc' \in [Procs -> ProcType] /\ (p \in Procs => proc'[p] = NoProc)
           /\ \A q \in Procs : q # p => proc'[q] = proc[q]
BY NoProcType DEF Reaped, Types

LEMMA BootFailsInv == ASSUME Inv, NEW t \in Tasks, BootFails(t) PROVE Inv'
<1> DEFINE p == task[t].p
<1>1. /\ Ends(t) /\ Reaped(p) /\ worker' = IF worker = p THEN None ELSE worker
      /\ UNCHANGED <<sleep, used>> /\ task[t].pc = "boot"
  BY DEF BootFails
<1>2. p \in Procs
  BY <1>1 DEF Inv, Types, TasksType, WithWorker
<1> HIDE DEF p
<1>3. /\ proc' \in [Procs -> ProcType] /\ \A q \in Procs : q # p => proc'[q] = proc[q]
  BY <1>1, <1>2, ReapedFields DEF Inv
<1>4. Types'
  BY <1>1, <1>3, EndsFields DEF Inv, Types
<1>5. task["verify"].pc \notin Serving \/ task'["verify"] = task["verify"]
  BY <1>1, EndsFields, VerifyIsTask DEF Inv, Serving
<1>6. RequestInv'
  BY <1>1, <1>2, <1>3, <1>5 DEF Inv, Types, RequestInv, Serving
<1> QED BY <1>1, <1>2, <1>4, <1>6, ReleasedHandover DEF Inv, Reaped

LEMMA EnsureInv == ASSUME Inv, NEW t \in Tasks, Ensure(t) PROVE Inv'
BY EnsureReadyInv, EnsureStartsInv, EnsureRefusedInv, BootDoneInv, BootFailsInv DEF Ensure

-----------------------------------------------------------------------------
(* Steps of the daemon that leave the workers and the device alone. *)

\* The verification does not move, or it did not wait for an answer.
LEMMA GoesQuietly ==
    ASSUME Inv, NEW t \in Tasks, NEW to \in Pcs \ WithWorker, Goes(t, to),
           t = "verify" => task[t].pc \notin Serving,
           quiesce' \in Seq(QuiesceType), sleep' = sleep,
           used' \in [calls : Nat, id : Nat, stops : Nat, deaths : Nat, others : Nat],
           UNCHANGED <<worker, proc, other, flock, aks>>
    PROVE  Inv'
<1>1. /\ task' \in TasksType
      /\ \A u \in Tasks : u # t => task'[u] = task[u]
  BY GoesFields DEF Inv, Types
<1>2. Types'
  BY <1>1 DEF Inv, Types
<1> QED BY <1>1, <1>2, Quietly, VerifyIsTask

LEMMA VerifyInv == ASSUME Inv, Verify PROVE Inv'
<1>1. used' \in [calls : Nat, id : Nat, stops : Nat, deaths : Nat, others : Nat]
  BY DEF Verify, Inv, Types
<1> QED BY <1>1, GoesQuietly, VerifyIsTask DEF Verify, Inv, Types, Running, Serving, Pcs, WithWorker

LEMMA InventoryInv == ASSUME Inv, Inventory PROVE Inv'
<1>1. used' \in [calls : Nat, id : Nat, stops : Nat, deaths : Nat, others : Nat]
  <2>1. used' = [used EXCEPT !.calls = @ + 1]
    BY DEF Inventory
  <2> QED BY <2>1 DEF Inv, Types
<1> QED BY <1>1, GoesQuietly, VerifyIsTask DEF Inventory, Inv, Types, Pcs, WithWorker

LEMMA CallInv == ASSUME Inv, Call PROVE Inv'
<1>1. used' \in [calls : Nat, id : Nat, stops : Nat, deaths : Nat, others : Nat]
  <2>1. used' = [used EXCEPT !.calls = @ + 1]
    BY DEF Call
  <2> QED BY <2>1 DEF Inv, Types
<1> QED BY <1>1, GoesQuietly, VerifyIsTask DEF Call, Inv, Types, Pcs, WithWorker

LEMMA VerifyLockedInv == ASSUME Inv, VerifyLocked PROVE Inv'
BY GoesQuietly, VerifyIsTask DEF VerifyLocked, Inv, Types, Serving, Pcs, WithWorker

LEMMA WarmLockedInv == ASSUME Inv, NEW t \in Warms, WarmLocked(t) PROVE Inv'
BY GoesQuietly, VerifyIsTask DEF WarmLocked, Inv, Types, Serving, Pcs, WithWorker

LEMMA CollectedInv ==
    ASSUME Inv, NEW t \in Tasks, Collected(t), t # "verify",
           UNCHANGED <<sleep, worker, proc, other, flock, aks, used>>
    PROVE  Inv'
<1>1. CASE t \in {"inventory", "caller"}
  BY <1>1, EndsInv DEF Collected
<1>2. CASE t \notin {"inventory", "caller"}
  BY <1>2, GoesQuietly DEF Collected, Inv, Types, Pcs, WithWorker
<1> QED BY <1>1, <1>2

LEMMA ProjectInv == ASSUME Inv, NEW t \in Collectors, Project(t) PROVE Inv'
<1>1. t \in Tasks /\ t # "verify" /\ UNCHANGED <<sleep, worker, proc, other, flock, aks, used>>
  BY VerifyIsTask DEF Project
<1>2. CASE Collected(t)
  BY <1>1, <1>2, CollectedInv
<1>3. CASE Goes(t, "launch") /\ UNCHANGED <<op, start, warming, quiesce>>
  BY <1>1, <1>3, GoesQuietly DEF Inv, Types, Pcs, WithWorker
<1> QED BY <1>2, <1>3 DEF Project

LEMMA LaunchedInv == ASSUME Inv, NEW t \in Collectors, Launched(t) PROVE Inv'
<1>1. t \in Tasks /\ t # "verify" /\ UNCHANGED <<sleep, worker, proc, other, flock, aks, used>>
  BY VerifyIsTask DEF Launched
<1>2. CASE Collected(t) \/ Ends(t)
  BY <1>1, <1>2, CollectedInv, EndsInv
<1>3. CASE Goes(t, "collect") /\ UNCHANGED <<op, start, warming, quiesce>>
  BY <1>1, <1>3, GoesQuietly DEF Inv, Types, Pcs, WithWorker
<1> QED BY <1>2, <1>3 DEF Launched

LEMMA CollectDoneInv == ASSUME Inv, NEW t \in Collectors, CollectDone(t) PROVE Inv'
<1>1. t \in Tasks /\ t # "verify" /\ UNCHANGED <<sleep, worker, proc, other, flock, aks, used>>
  BY VerifyIsTask DEF CollectDone
<1> QED BY <1>1, CollectedInv, EndsInv DEF CollectDone

\* A warm up that waits for the sleep task names its generation.
LEMMA WarmStartsInv == ASSUME Inv, NEW t \in Warms, WarmStarts(t) PROVE Inv'
<1>1. t \in Tasks /\ t # "verify" /\ task \in TasksType /\ task[t] \in TaskType
      /\ UNCHANGED <<sleep, quiesce, worker, proc, other, flock, aks, used>>
  BY DEF Tasks, Warms, WarmStarts, Inv, Types, TasksType
<1>2. CASE quiesce = <<>>
  <2>1. Goes(t, "op")
    BY <1>2 DEF WarmStarts
  <2> QED BY <1>1, <2>1, GoesQuietly DEF Inv, Types, Pcs, WithWorker
<1>3. CASE quiesce # <<>>
  <2>1. Len(quiesce) \in DOMAIN quiesce /\ quiesce \in Seq(QuiesceType)
    BY <1>3 DEF Inv, Types
  <2>2. quiesce[Len(quiesce)] \in QuiesceType
    BY <2>1
  <2>3. SleepTask \in Nat
    BY <2>2 DEF SleepTask, QuiesceType
  <2> DEFINE v == [task[t] EXCEPT !.pc = "sleep", !.p = SleepTask]
  <2>4. v \in TaskType /\ v.pc = "sleep"
    BY <1>1, <2>3 DEF TaskType, Pcs
  <2>5. task' = [task EXCEPT ![t] = v]
    BY <1>1, <1>3 DEF WarmStarts, TasksType
  <2> HIDE DEF v
  <2>6. task' \in TasksType /\ task'["verify"] = task["verify"]
    BY <1>1, <2>4, <2>5, VerifyIsTask DEF TasksType, WithWorker
  <2>7. Types'
    BY <1>1, <2>6 DEF Inv, Types
  <2> QED BY <1>1, <2>6, <2>7, Quietly
<1> QED BY <1>2, <1>3

LEMMA WarmAfterSleepInv == ASSUME Inv, NEW t \in Warms, WarmAfterSleep(t) PROVE Inv'
<1>1. t \in Tasks /\ t # "verify" /\ task \in TasksType /\ task[t] \in TaskType
      /\ UNCHANGED <<sleep, worker, proc, other, flock, aks, used>>
  BY DEF Tasks, Warms, WarmAfterSleep, Inv, Types, TasksType
<1>2. CASE task[t].hit \/ sleep.on
  BY <1>1, <1>2, EndsInv DEF WarmAfterSleep
<1>3. CASE ~(task[t].hit \/ sleep.on)
  <2> DEFINE v == [task[t] EXCEPT !.pc = "op", !.p = None]
  <2>1. v \in TaskType /\ v.pc = "op"
    BY <1>1 DEF TaskType, Pcs
  <2>2. task' = [task EXCEPT ![t] = v] /\ quiesce' = quiesce
    BY <1>1, <1>3 DEF WarmAfterSleep, TasksType
  <2> HIDE DEF v
  <2>3. task' \in TasksType /\ task'["verify"] = task["verify"]
    BY <1>1, <2>1, <2>2, VerifyIsTask DEF TasksType, WithWorker
  <2>4. Types'
    BY <1>1, <2>2, <2>3 DEF Inv, Types
  <2> QED BY <1>1, <2>3, <2>4, Quietly
<1> QED BY <1>2, <1>3

LEMMA StopInv == ASSUME Inv, Stop PROVE Inv'
<1>1. PICK t \in {"verify", "caller"} : Running(t) /\ task' = [task EXCEPT ![t].hit = TRUE]
  BY DEF Stop
<1> DEFINE v == [task[t] EXCEPT !.hit = TRUE]
<1>2. t \in Tasks /\ task \in TasksType /\ task[t] \in TaskType
  BY VerifyIsTask DEF Inv, Types, TasksType
<1>3. v \in TaskType /\ v.pc = task[t].pc /\ v.p = task[t].p
  BY <1>2 DEF TaskType
<1>4. task' = [task EXCEPT ![t] = v] /\ UNCHANGED <<sleep, quiesce, worker, proc, other, flock, aks>>
  BY <1>1, <1>2 DEF Stop, TasksType
<1>5. used' \in [calls : Nat, id : Nat, stops : Nat, deaths : Nat, others : Nat]
  BY DEF Stop, Inv, Types
<1> HIDE DEF v
<1>6. task' \in TasksType
  BY <1>2, <1>3, <1>4 DEF TasksType
<1>7. task'["verify"].pc = task["verify"].pc /\ task'["verify"].p = task["verify"].p
  BY <1>2, <1>3, <1>4, VerifyIsTask DEF TasksType
<1>8. Types'
  BY <1>4, <1>5, <1>6 DEF Inv, Types
<1> QED BY <1>4, <1>7, <1>8, Quietly

-----------------------------------------------------------------------------
(* Suspend and resume. *)

LEMMA SystemSleepChangedInv == ASSUME Inv, NEW on \in BOOLEAN, SystemSleepChanged(on) PROVE Inv'
<1>1. /\ UNCHANGED <<op, start, worker, proc, other, flock, aks, used>>
      /\ sleep' = [on |-> on, gen |-> sleep.gen + 1]
      /\ quiesce \in Seq(QuiesceType) /\ task \in TasksType /\ sleep.gen \in Nat
  BY DEF SystemSleepChanged, Inv, Types
<1>2. sleep' \in [on : BOOLEAN, gen : Nat]
  BY <1>1
<1>3. CASE on
  <2> DEFINE v == [gen |-> sleep.gen + 1, pc |-> "new", waits |-> {}, p |-> None]
  <2>1. v \in QuiesceType
    BY <1>1 DEF QuiesceType
  <2>2. quiesce' = Append(quiesce, v) /\ task' = task
    BY <1>3 DEF SystemSleepChanged
  <2> HIDE DEF v
  <2>3. Types'
    BY <1>1, <1>2, <2>1, <2>2 DEF Inv, Types
  <2> QED BY <1>1, <2>2, <2>3, Quietly
<1>4. CASE ~on
  <2>1. quiesce' = quiesce
    BY <1>4 DEF SystemSleepChanged
  <2>2. CASE task' = task
    <3>1. Types'
      BY <1>1, <1>2, <2>1, <2>2 DEF Inv, Types
    <3> QED BY <1>1, <2>2, <3>1, Quietly
  <2>3. CASE \E t \in Warms : Goes(t, "new")
    <3>1. PICK t \in Warms : Goes(t, "new")
      BY <2>3
    <3>2. t \in Tasks /\ t # "verify" /\ "new" \in Pcs /\ "new" \notin WithWorker
      BY DEF Tasks, Warms, Pcs, WithWorker
    <3>3. task' \in TasksType /\ task'["verify"] = task["verify"]
      BY <1>1, <3>1, <3>2, GoesFields, VerifyIsTask
    <3>4. Types'
      BY <1>1, <1>2, <2>1, <3>3 DEF Inv, Types
    <3> QED BY <1>1, <3>3, <3>4, Quietly
  <2> QED BY <1>4, <2>2, <2>3 DEF SystemSleepChanged
<1> QED BY <1>3, <1>4

\* A step of the sleep task that moves nothing but its own place in the queue.
LEMMA QuiesceQuietly ==
    ASSUME Inv, quiesce' \in Seq(QuiesceType), UNCHANGED <<sleep, task, worker, proc, other, flock, aks, used>>
    PROVE  Inv'
<1>1. Types'
  BY DEF Inv, Types
<1> QED BY <1>1, Quietly

LEMMA QuiesceBeginsInv == ASSUME Inv, WarmingInv, QuiesceBegins PROVE Inv'
<1>1. /\ quiesce # <<>> /\ UNCHANGED <<sleep, worker, proc, other, flock, aks, used>>
      /\ Types /\ task \in TasksType
  BY DEF QuiesceBegins, QuiesceAt, Inv, Types
<1>2. Tail(quiesce) \in Seq(QuiesceType)
  BY <1>1, QuiesceStep
<1>3. CASE ~Still
  BY <1>1, <1>2, <1>3, QuiesceQuietly DEF QuiesceBegins, QuiesceEnds
<1>4. CASE Still
  <2>1. /\ QuiesceGoes("gather", None, Active)
        /\ task' = [t \in Tasks |-> IF t \in Active THEN [task[t] EXCEPT !.hit = TRUE] ELSE task[t]]
    BY <1>4 DEF QuiesceBegins
  <2>2. ASSUME NEW t \in Tasks
        PROVE  task'[t] \in TaskType /\ task'[t].pc = task[t].pc /\ task'[t].p = task[t].p
    <3>1. task[t] \in TaskType
      BY <1>1 DEF TasksType
    <3>2. /\ [task[t] EXCEPT !.hit = TRUE] \in TaskType
          /\ [task[t] EXCEPT !.hit = TRUE].pc = task[t].pc
          /\ [task[t] EXCEPT !.hit = TRUE].p = task[t].p
      BY <3>1 DEF TaskType
    <3>3. task'[t] = IF t \in Active THEN [task[t] EXCEPT !.hit = TRUE] ELSE task[t]
      BY <2>1
    <3> QED BY <3>1, <3>2, <3>3
  <2>3. task' \in [Tasks -> TaskType]
    <3>1. task' = [t \in Tasks |-> task'[t]]
      BY <2>1
    <3> QED BY <2>2, <3>1
  <2>4. task' \in TasksType
    BY <1>1, <2>2, <2>3 DEF TasksType
  <2>5. Active \in SUBSET Tasks
    <3>1. \A t \in Active : task[t].pc # "none" /\ t \in {"spawn", "inventory"} \cup ({warming} \ {None}) \cup Owners
      BY DEF Active, Running
    <3>2. Owners \subseteq Tasks
      BY DEF Owners
    <3> QED BY <3>1, <3>2, VerifyIsTask DEF WarmingInv
  <2>6. quiesce' \in Seq(QuiesceType)
    BY <1>1, <2>1, <2>5, QuiesceStep
  <2>7. Types'
    BY <1>1, <2>4, <2>6 DEF Inv, Types
  <2> QED BY <1>1, <2>2, <2>7, Quietly, VerifyIsTask
<1> QED BY <1>3, <1>4

LEMMA QuiesceGatheredInv == ASSUME Inv, QuiesceGathered PROVE Inv'
BY QuiesceStep, QuiesceQuietly DEF QuiesceGathered, QuiesceAt, QuiesceEnds, Inv

LEMMA QuiesceDoneInv == ASSUME Inv, QuiesceDone PROVE Inv'
BY QuiesceStep, QuiesceQuietly DEF QuiesceDone, QuiesceAt, QuiesceEnds, Inv

\* The worker that sleeps is told to go, and is forgotten.
LEMMA DroppedFields ==
    ASSUME Types, NEW p \in Procs \cup {None}, Dropped(p)
    PROVE  /\ worker' \in {None, worker} /\ (worker = p => worker' = None)
           /\ proc' \in [Procs -> ProcType]
           /\ (worker # p => worker' = worker /\ proc' = proc)
<1>1. proc \in [Procs -> ProcType] /\ [proc EXCEPT ![p].eof = TRUE] \in [Procs -> ProcType]
  BY DEF Types, ProcType
<1> QED BY <1>1 DEF Dropped

LEMMA BarrierQueue == ASSUME Types, quiesce # <<>>, QuiesceBarrier PROVE quiesce' \in Seq(QuiesceType)
<1>1. QuiesceGoes("barrier", None, {})
  BY DEF QuiesceBarrier
<1>2. {} \in SUBSET Tasks /\ None \in Procs \cup {None} /\ "barrier" \in {"gather", "start", "drop", "barrier"}
  OBVIOUS
<1> QED BY <1>1, <1>2, QuiesceStep

LEMMA QuiesceDropsInv == ASSUME Inv, QuiesceDrops PROVE Inv'
<1>1. /\ quiesce # <<>> /\ UNCHANGED <<sleep, task, other, flock, aks, used>>
      /\ Types
  BY DEF QuiesceDrops, QuiesceAt, Inv
<1>2. CASE worker # None /\ QuiesceGoes("drop", worker, {}) /\ Dropped(worker)
  <2>1. worker \in Procs
    BY <1>1, <1>2 DEF Types
  <2>2. worker' = None /\ proc' \in [Procs -> ProcType]
    BY <1>1, <1>2, <2>1, DroppedFields
  <2>3. quiesce' \in Seq(QuiesceType)
    BY <1>1, <1>2, <2>1, QuiesceStep
  <2>4. Types'
    BY <1>1, <2>2, <2>3 DEF Types
  <2> QED BY <1>1, <2>2, <2>4 DEF Inv, HandoverInv, RequestInv
<1>3. CASE QuiesceBarrier /\ UNCHANGED <<worker, proc>>
  BY <1>1, <1>3, BarrierQueue, QuiesceQuietly DEF QuiesceBarrier
<1>4. CASE QuiesceEnds /\ UNCHANGED <<worker, proc>>
  BY <1>1, <1>4, QuiesceStep, QuiesceQuietly DEF QuiesceEnds
<1> QED BY <1>2, <1>3, <1>4 DEF QuiesceDrops

\* A worker that is gone has no request: it starts again from nothing.
LEMMA ReapedRequest ==
    ASSUME Inv, NEW p \in Procs \cup {None}, Reaped(p), worker' \in {worker, None},
           \/ task'["verify"].pc = task["verify"].pc /\ task'["verify"].p = task["verify"].p
           \/ worker' # None => worker # task["verify"].p \/ worker = p
           \/ task["verify"].pc \notin Serving
    PROVE  RequestInv'
<1>1. /\ proc' \in [Procs -> ProcType] /\ (p \in Procs => proc'[p] = NoProc)
      /\ \A q \in Procs : q # p => proc'[q] = proc[q]
  BY ReapedFields DEF Inv
<1> QED BY <1>1, NoProcType DEF Inv, Types, RequestInv, Serving

LEMMA QuiesceDroppedInv == ASSUME Inv, QuiesceDropped PROVE Inv'
<1>1. /\ quiesce # <<>> /\ Reaped(Head1.p) /\ UNCHANGED <<sleep, task, worker, used>>
      /\ Types
  BY DEF QuiesceDropped, QuiesceAt, Gone, Inv
<1>2. Head1.p \in Procs \cup {None}
  BY <1>1, QuiesceStep DEF QuiesceType
<1>3. quiesce' \in Seq(QuiesceType)
  BY <1>1, QuiesceStep, BarrierQueue DEF QuiesceDropped, QuiesceEnds
<1>4. Types'
  BY <1>1, <1>2, <1>3, ReapedFields DEF Types
<1>5. HandoverInv'
  BY <1>1, <1>2, ReleasedHandover DEF Reaped
<1>6. RequestInv'
  BY <1>1, <1>2, ReapedRequest
<1> QED BY <1>4, <1>5, <1>6 DEF Inv

LEMMA QuiesceInv == ASSUME Inv, WarmingInv, Quiesce PROVE Inv'
BY QuiesceBeginsInv, QuiesceGatheredInv, QuiesceDropsInv, QuiesceDroppedInv, QuiesceDoneInv DEF Quiesce

-----------------------------------------------------------------------------
(* The verification and its worker. *)

LEMMA VerifyEndsFields ==
    ASSUME Types, VerifyEnds
    PROVE  /\ task' \in TasksType /\ task'["verify"].pc = "none"
           /\ quiesce' \in Seq(QuiesceType) /\ sleep' = sleep
<1> DEFINE ts == [task EXCEPT !["verify"] = Idle]
<1>1. ts \in TasksType /\ ts["verify"] = Idle
  BY IdleTask, VerifyIsTask DEF Types
<1>2. quiesce' \in Seq(QuiesceType) /\ sleep' = sleep /\ task' = Respawned(ts)
  BY QuiesceLeft DEF VerifyEnds, Types
<1> HIDE DEF ts
<1> DEFINE v == [ts["spawn"] EXCEPT !.pc = "start"]
<1>3. ts["spawn"] \in TaskType
  BY <1>1, VerifyIsTask DEF TasksType
<1>4. v \in TaskType /\ v.pc = "start"
  BY <1>3 DEF TaskType, Pcs
<1>5. task' = ts \/ task' = [ts EXCEPT !["spawn"] = v]
  BY <1>1, <1>2 DEF Respawned, TasksType
<1> HIDE DEF v
<1>6. task' \in TasksType /\ task'["verify"] = Idle
  BY <1>1, <1>4, <1>5, VerifyIsTask DEF TasksType, WithWorker
<1> QED BY <1>2, <1>6 DEF Idle

\* The worker of a verification that waits.
LEMMA ServingWorker ==
    ASSUME Inv, task["verify"].pc \in Serving \cup {"kill", "discard"}
    PROVE  task["verify"].p \in Procs
BY VerifyIsTask DEF Inv, Types, TasksType, Serving, WithWorker

LEMMA VerifyAnsweredInv == ASSUME Inv, VerifyAnswered PROVE Inv'
<1> DEFINE p == task["verify"].p
<1>1. /\ task["verify"].pc \in Serving /\ proc[p].answer # None /\ UNCHANGED <<other, flock, aks, used>>
  BY DEF VerifyAnswered, Serving
<1>2. p \in Procs /\ Types /\ proc \in [Procs -> ProcType] /\ task \in TasksType
  BY <1>1, ServingWorker DEF Inv, Types
<1>3. HandoverInv'
  BY <1>1 DEF Inv, HandoverInv
<1>4. CASE VerifyEnds /\ proc' = [proc EXCEPT ![p].answer = None] /\ worker' = worker
  <2>1. /\ proc' \in [Procs -> ProcType] /\ proc'[p].answer = None
        /\ proc'[p].request = proc[p].request /\ proc'[p].state = proc[p].state
        /\ \A q \in Procs : q # p => proc'[q] = proc[q]
    BY <1>2, <1>4 DEF ProcType
  <2>2. Types'
    BY <1>1, <1>2, <1>4, <2>1, VerifyEndsFields DEF Types
  <2>3. RequestInv'
    BY <1>1, <1>2, <1>4, <2>1 DEF Inv, Types, RequestInv
  <2> QED BY <1>3, <2>2, <2>3 DEF Inv
<1>5. CASE /\ task' = [task EXCEPT !["verify"].pc = "discard", !["verify"].hit = FALSE]
           /\ worker' = None
           /\ proc' = [proc EXCEPT ![p].eof = TRUE, ![p].answer = None]
           /\ UNCHANGED <<sleep, quiesce, quiet, warming, op, start>>
  <2> DEFINE v == [task["verify"] EXCEPT !.pc = "discard", !.hit = FALSE]
  <2>1. task["verify"] \in TaskType
    BY <1>2, VerifyIsTask DEF TasksType
  <2>2. v \in TaskType /\ v.p = p
    BY <2>1 DEF TaskType, Pcs
  <2>3. task' = [task EXCEPT !["verify"] = v]
    BY <1>2, <1>5 DEF TasksType
  <2> HIDE DEF v
  <2>4. task' \in TasksType
    BY <1>2, <2>2, <2>3, VerifyIsTask DEF TasksType
  <2>5. proc' \in [Procs -> ProcType]
    BY <1>2, <1>5 DEF ProcType
  <2>6. Types'
    BY <1>1, <1>2, <1>5, <2>4, <2>5 DEF Types
  <2> QED BY <1>3, <1>5, <2>6 DEF Inv, RequestInv
<1> QED BY <1>4, <1>5 DEF VerifyAnswered

LEMMA VerifyUnansweredInv == ASSUME Inv, VerifyUnanswered PROVE Inv'
<1> DEFINE p == task["verify"].p
<1>1. /\ task["verify"].pc \in Serving /\ VerifyEnds /\ used' = used
      /\ worker' = IF worker = p THEN None ELSE worker
      /\ Reaped(p) \/ UNCHANGED <<proc, other, flock, aks>>
  BY DEF VerifyUnanswered, Serving
<1>2. p \in Procs /\ Types
  BY <1>1, ServingWorker DEF Inv
<1> HIDE DEF p
<1>3. CASE Reaped(p)
  <2>1. Types'
    BY <1>1, <1>2, <1>3, VerifyEndsFields, ReapedFields DEF Types
  <2>2. HandoverInv'
    BY <1>2, <1>3, ReleasedHandover DEF Reaped
  <2>3. RequestInv'
    BY <1>1, <1>2, <1>3, ReapedRequest DEF p
  <2> QED BY <2>1, <2>2, <2>3 DEF Inv
<1>4. CASE UNCHANGED <<proc, other, flock, aks>>
  <2>1. Types'
    BY <1>1, <1>2, <1>4, VerifyEndsFields DEF Types
  <2> QED BY <1>1, <1>4, <2>1 DEF Inv, HandoverInv, RequestInv, p
<1> QED BY <1>1, <1>3, <1>4

LEMMA VerifyCancelledInv == ASSUME Inv, VerifyCancelled PROVE Inv'
<1> DEFINE p == task["verify"].p
           v == [task["verify"] EXCEPT !.pc = "stopping", !.hit = FALSE]
<1>1. /\ task["verify"].pc \in Serving
      /\ proc' = [proc EXCEPT ![p].stop = (proc[p].state = "busy")]
      /\ UNCHANGED <<sleep, quiesce, worker, other, flock, aks, used>>
  BY DEF VerifyCancelled, Serving
<1>2. p \in Procs /\ Types /\ proc \in [Procs -> ProcType] /\ task \in TasksType /\ task["verify"] \in TaskType
  BY <1>1, ServingWorker, VerifyIsTask DEF Inv, Types, TasksType
<1>3. v \in TaskType /\ v.p = p /\ v.pc = "stopping"
  BY <1>2 DEF TaskType, Pcs
<1>4. task' = [task EXCEPT !["verify"] = v]
  BY <1>2 DEF VerifyCancelled, TasksType
<1> HIDE DEF p, v
<1>5. task' \in TasksType /\ task'["verify"] = v
  BY <1>2, <1>3, <1>4, VerifyIsTask DEF TasksType
<1>6. /\ proc' \in [Procs -> ProcType]
      /\ \A q \in Procs : /\ proc'[q].request = proc[q].request /\ proc'[q].answer = proc[q].answer
                          /\ proc'[q].state = proc[q].state
  BY ZenonT(60), <1>1, <1>2 DEF ProcType
<1>7. Types'
  BY <1>1, <1>2, <1>5, <1>6 DEF Types
<1>8. RequestInv'
  BY <1>1, <1>2, <1>3, <1>5, <1>6 DEF Inv, Types, RequestInv, Serving, p
<1> QED BY <1>1, <1>7, <1>8 DEF Inv, HandoverInv

LEMMA VerifyGivesUpInv == ASSUME Inv, VerifyGivesUp PROVE Inv'
<1> DEFINE p == task["verify"].p
<1>1. /\ task["verify"].pc \in Serving /\ UNCHANGED <<sleep, other, flock, aks, used>>
  BY DEF VerifyGivesUp, Serving
<1>2. p \in Procs /\ Types /\ task \in TasksType
  BY <1>1, ServingWorker DEF Inv, Types
<1>3. HandoverInv'
  BY <1>1 DEF Inv, HandoverInv
<1>4. CASE worker = p
  <2>1. Goes("verify", "kill") /\ Dropped(p) /\ quiesce' = quiesce
    BY <1>4 DEF VerifyGivesUp
  <2>2. task' \in TasksType
    BY <1>2, <2>1, GoesFields, VerifyIsTask DEF Pcs
  <2>3. worker' = None /\ proc' \in [Procs -> ProcType]
    BY <1>2, <1>4, <2>1, DroppedFields
  <2>4. Types'
    BY <1>1, <1>2, <2>1, <2>2, <2>3 DEF Types
  <2> QED BY <1>3, <2>3, <2>4 DEF Inv, RequestInv
<1>5. CASE worker # p
  <2>1. VerifyEnds /\ UNCHANGED <<worker, proc>>
    BY <1>5 DEF VerifyGivesUp
  <2>2. Types'
    BY <1>1, <1>2, <2>1, VerifyEndsFields DEF Types
  <2> QED BY <1>3, <1>5, <2>1, <2>2 DEF Inv, RequestInv
<1> QED BY <1>4, <1>5

LEMMA VerifyDiscardedInv == ASSUME Inv, VerifyDiscarded PROVE Inv'
<1> DEFINE p == task["verify"].p
<1>1. /\ task["verify"].pc \in {"kill", "discard"} /\ VerifyEnds /\ Reaped(p)
      /\ UNCHANGED <<worker, used>>
  BY DEF VerifyDiscarded, Gone
<1>2. p \in Procs /\ Types
  BY <1>1, ServingWorker DEF Inv
<1> HIDE DEF p
<1>3. Types'
  BY <1>1, <1>2, VerifyEndsFields, ReapedFields DEF Types
<1>4. HandoverInv'
  BY <1>1, <1>2, ReleasedHandover DEF Reaped
<1>5. RequestInv'
  BY <1>1, <1>2, ReapedRequest DEF Serving
<1> QED BY <1>3, <1>4, <1>5 DEF Inv

-----------------------------------------------------------------------------
(* The device and its other owners. *)

\* A step that leaves the daemon and the workers alone.
LEMMA DeviceOnly ==
    ASSUME Inv, UNCHANGED <<daemon, proc>>, HandoverInv',
           used' \in [calls : Nat, id : Nat, stops : Nat, deaths : Nat, others : Nat]
    PROVE  Inv'
BY DEF Inv, Types, RequestInv, daemon

LEMMA TakeDeviceInv == ASSUME Inv, NEW p \in Procs, TakeDevice(p) PROVE Inv'
<1>1. HandoverInv'
  BY NamesAssumption DEF TakeDevice, Inv, HandoverInv
<1> QED BY <1>1, DeviceOnly DEF TakeDevice, Inv, Types

LEMMA OtherLocksInv == ASSUME Inv, OtherLocks PROVE Inv'
<1>1. HandoverInv'
  BY DEF OtherLocks, Other, Inv, HandoverInv
<1>2. used' \in [calls : Nat, id : Nat, stops : Nat, deaths : Nat, others : Nat]
  <2>1. used' = [used EXCEPT !.others = @ + 1]
    BY DEF OtherLocks
  <2> QED BY <2>1 DEF Inv, Types
<1> QED BY <1>1, <1>2, DeviceOnly DEF OtherLocks

LEMMA OtherOpensInv == ASSUME Inv, OtherOpens PROVE Inv'
<1>1. HandoverInv'
  BY DEF OtherOpens, Other, Inv, HandoverInv
<1> QED BY <1>1, DeviceOnly DEF OtherOpens, Inv, Types

LEMMA OtherAsksInv == ASSUME Inv, OtherAsks PROVE Inv'
<1>1. HandoverInv'
  BY DEF OtherAsks, Other, Inv, HandoverInv
<1> QED BY <1>1, DeviceOnly DEF OtherAsks, Inv, Types

LEMMA OtherGivesUpInv == ASSUME Inv, OtherGivesUp PROVE Inv'
<1>1. HandoverInv'
  BY DEF OtherGivesUp, Other, Inv, HandoverInv
<1> QED BY <1>1, DeviceOnly DEF OtherGivesUp, Inv, Types

LEMMA OtherDoneInv == ASSUME Inv, OtherDone PROVE Inv'
<1>1. HandoverInv'
  BY DEF OtherDone, Other, Inv, HandoverInv
<1> QED BY <1>1, DeviceOnly DEF OtherDone, Inv, Types

\* A worker changes its state alone, and is not busy.
LEMMA StateOnly ==
    ASSUME Inv, NEW p \in Procs, NEW s \in States \ {"busy"}, proc' = [proc EXCEPT ![p].state = s],
           UNCHANGED <<daemon, used>>, HandoverInv'
    PROVE  Inv'
<1>1. /\ proc' \in [Procs -> ProcType] /\ proc'[p].state = s
      /\ \A q \in Procs : /\ proc'[q].request = proc[q].request /\ proc'[q].answer = proc[q].answer
                          /\ q # p => proc'[q] = proc[q]
  BY DEF Inv, Types, ProcType
<1>2. Types'
  BY <1>1 DEF Inv, Types, daemon
<1>3. RequestInv'
  BY <1>1 DEF Inv, Types, RequestInv, daemon
<1> QED BY <1>2, <1>3 DEF Inv

LEMMA ConfirmInv == ASSUME Inv, Confirm PROVE Inv'
<1>1. other.to \in Procs
  BY DEF Confirm, Inv, HandoverInv
<1>2. HandoverInv'
  BY <1>1 DEF Confirm, Other, Inv, HandoverInv
<1> QED BY <1>1, <1>2, StateOnly DEF Confirm, States

\* The device that was handed over is not the worker's any more.
LEMMA ReleaseInv == ASSUME Inv, NEW q \in Procs, Release(q) PROVE Inv'
<1>1. HandoverInv'
  <2>1. aks' # q
    BY NamesAssumption DEF Release
  <2>2. CASE other = [stage |-> "confirmed", to |-> q]
    BY <2>1, <2>2 DEF Release, Other, Inv, HandoverInv
  <2>3. CASE other # [stage |-> "confirmed", to |-> q]
    <3>1. other' = other /\ flock' = flock /\ aks' \in {aks, None}
      BY <2>3 DEF Release
    <3> QED BY <3>1, NamesAssumption DEF Inv, HandoverInv
  <2> QED BY <2>2, <2>3
<1> QED BY <1>1, StateOnly DEF Release, States

-----------------------------------------------------------------------------
(* The worker. *)

\* What the worker keeps of its request and its answer when one of them changes.
LEMMA WorkerInv ==
    ASSUME Inv, NEW p \in Procs, NEW r \in ProcType, proc' = [proc EXCEPT ![p] = r],
           p = worker =>
               /\ r.request # None \/ r.answer # None => proc[p].request # None \/ proc[p].answer # None
               /\ r.answer # None => r.request = None
               /\ r.state = "busy" => r.request # None,
           UNCHANGED daemon, HandoverInv',
           used' \in [calls : Nat, id : Nat, stops : Nat, deaths : Nat, others : Nat]
    PROVE  Inv'
<1>1. /\ proc' \in [Procs -> ProcType] /\ proc'[p] = r
      /\ \A q \in Procs : q # p => proc'[q] = proc[q]
  BY DEF Inv, Types
<1>2. Types'
  BY <1>1 DEF Inv, Types, daemon
<1>3. RequestInv'
  BY <1>1 DEF Inv, Types, RequestInv, daemon
<1> QED BY <1>2, <1>3 DEF Inv

LEMMA ExitedInv ==
    ASSUME Inv, NEW p \in Procs, NEW answer \in Answer \cup {None}, Exited(p, answer), UNCHANGED daemon,
           p = worker /\ answer # None => proc[p].request # None,
           used' \in [calls : Nat, id : Nat, stops : Nat, deaths : Nat, others : Nat]
    PROVE  Inv'
<1> DEFINE r == [NoProc EXCEPT !.state = "exited", !.answer = answer]
<1>1. r \in ProcType /\ r.request = None /\ r.answer = answer /\ r.state = "exited"
  BY DEF NoProc, ProcType, States
<1>2. proc' = [proc EXCEPT ![p] = r]
  BY DEF Exited
<1>3. HandoverInv'
  BY ReleasedHandover DEF Exited
<1> HIDE DEF r
<1> QED BY <1>1, <1>2, <1>3, WorkerInv

\* A preparation or a match ends with the device kept.
LEMMA KeptInv ==
    ASSUME Inv, NEW p \in Procs, NEW answer \in Answer \cup {None}, Kept(p, answer), UNCHANGED <<daemon, used>>,
           p = worker /\ answer # None => proc[p].request # None
    PROVE  Inv'
<1> DEFINE r == [proc[p] EXCEPT !.state = "idle", !.request = IF answer = None THEN @ ELSE None,
                                !.stop = FALSE, !.answer = IF answer = None THEN @ ELSE answer]
<1>1. proc[p] \in ProcType /\ proc \in [Procs -> ProcType]
  BY DEF Inv, Types
<1>2. /\ r \in ProcType /\ r.state = "idle"
      /\ r.request = IF answer = None THEN proc[p].request ELSE None
      /\ r.answer = IF answer = None THEN proc[p].answer ELSE answer
  BY <1>1 DEF ProcType, States
<1>3. proc' = [proc EXCEPT ![p] = r]
  BY <1>1 DEF Kept
<1>4. HandoverInv'
  BY NamesAssumption DEF Kept, Inv, HandoverInv
<1> HIDE DEF r
<1>5. used' \in [calls : Nat, id : Nat, stops : Nat, deaths : Nat, others : Nat]
  BY DEF Inv, Types
<1>6. p = worker => (proc[p].answer # None => proc[p].request = None)
  BY NamesAssumption DEF Inv, Types, RequestInv
<1> QED BY <1>2, <1>3, <1>4, <1>5, <1>6, WorkerInv

LEMMA PrepareInv == ASSUME Inv, NEW p \in Procs, Prepare(p) PROVE Inv'
<1>1. UNCHANGED <<daemon, used>> /\ None \in Answer \cup {None}
  BY DEF Prepare
<1>2. CASE Kept(p, None)
  BY <1>1, <1>2, KeptInv
<1>3. CASE PrepareFails(p)
  <2> DEFINE r == [proc[p] EXCEPT !.state = "idle", !.stop = FALSE]
  <2>1. proc[p] \in ProcType /\ proc \in [Procs -> ProcType]
    BY DEF Inv, Types
  <2>2. r \in ProcType /\ r.state = "idle" /\ r.request = proc[p].request /\ r.answer = proc[p].answer
    BY <2>1 DEF ProcType, States
  <2>3. proc' = [proc EXCEPT ![p] = r]
    BY <1>3, <2>1 DEF PrepareFails
  <2>4. HandoverInv'
    BY <1>3, ReleasedHandover DEF PrepareFails
  <2> HIDE DEF r
  <2>5. used' \in [calls : Nat, id : Nat, stops : Nat, deaths : Nat, others : Nat]
    BY <1>1 DEF Inv, Types
  <2>6. p = worker => (proc[p].answer # None => proc[p].request = None)
    BY NamesAssumption DEF Inv, Types, RequestInv
  <2> QED BY <1>1, <2>2, <2>3, <2>4, <2>5, <2>6, WorkerInv
<1> QED BY <1>2, <1>3 DEF Prepare

\* The worker begins on a request that it has.
LEMMA ReadRequestInv == ASSUME Inv, NEW p \in Procs, ReadRequest(p) PROVE Inv'
<1> DEFINE r == [proc[p] EXCEPT !.state = "busy"]
<1>1. proc[p] \in ProcType /\ proc \in [Procs -> ProcType]
  BY DEF Inv, Types
<1>2. r \in ProcType /\ r.request = proc[p].request /\ r.answer = proc[p].answer
  BY <1>1 DEF ProcType, States
<1>3. /\ proc' = [proc EXCEPT ![p] = r] /\ proc[p].request # None
      /\ UNCHANGED <<daemon, other, flock, aks, used>>
  BY <1>1 DEF ReadRequest
<1> HIDE DEF r
<1>4. HandoverInv' /\ used' \in [calls : Nat, id : Nat, stops : Nat, deaths : Nat, others : Nat]
  BY <1>3 DEF Inv, HandoverInv, Types
<1>5. p = worker => (proc[p].answer # None => proc[p].request = None)
  BY NamesAssumption DEF Inv, Types, RequestInv
<1> QED BY <1>2, <1>3, <1>4, <1>5, WorkerInv

LEMMA ReadEofInv == ASSUME Inv, NEW p \in Procs, ReadEof(p) PROVE Inv'
BY ExitedInv DEF ReadEof, Inv, Types

\* The request of a worker that works, and the answer it gives.
LEMMA BusyRequest ==
    ASSUME Inv, NEW p \in Procs, proc[p].state = "busy"
    PROVE  /\ p = worker => proc[p].request # None
           /\ \A kind \in {"result", "cancelled", "error"} : [id |-> proc[p].request, kind |-> kind] \in Answer
<1>1. proc[p] \in ProcType
  BY DEF Inv, Types
<1>2. proc[p].request \in Nat \cup {None}
  BY <1>1 DEF ProcType
<1>3. p = worker => proc[p].request # None
  BY NamesAssumption DEF Inv, RequestInv
<1> QED BY <1>2, <1>3 DEF Answer

LEMMA MatchedInv == ASSUME Inv, NEW p \in Procs, Matched(p) PROVE Inv'
<1>1. /\ proc[p].state = "busy" /\ UNCHANGED <<daemon, used>>
      /\ \E kind \in {"result", "cancelled", "error"} : Kept(p, [id |-> proc[p].request, kind |-> kind])
  BY DEF Matched
<1>2. PICK kind \in {"result", "cancelled", "error"} : Kept(p, [id |-> proc[p].request, kind |-> kind])
  BY <1>1
<1>3. [id |-> proc[p].request, kind |-> kind] \in Answer \cup {None}
  BY <1>1, BusyRequest
<1> QED BY <1>1, <1>2, <1>3, BusyRequest, KeptInv

LEMMA MatchFailsInv == ASSUME Inv, NEW p \in Procs, MatchFails(p) PROVE Inv'
<1> DEFINE a == [id |-> proc[p].request, kind |-> "error"]
<1>1. proc[p].state = "busy" /\ UNCHANGED <<daemon, used>> /\ Exited(p, a)
  BY DEF MatchFails
<1>2. a \in Answer \cup {None}
  BY <1>1, BusyRequest
<1>3. used' \in [calls : Nat, id : Nat, stops : Nat, deaths : Nat, others : Nat]
  BY <1>1 DEF Inv, Types
<1> HIDE DEF a
<1> QED BY <1>1, <1>2, <1>3, BusyRequest, ExitedInv

LEMMA DieInv == ASSUME Inv, NEW p \in Procs, Die(p) PROVE Inv'
<1>1. used' = [used EXCEPT !.deaths = @ + 1] /\ UNCHANGED daemon /\ Exited(p, None)
  BY DEF Die
<1>2. used' \in [calls : Nat, id : Nat, stops : Nat, deaths : Nat, others : Nat]
  BY <1>1 DEF Inv, Types
<1> QED BY <1>1, <1>2, ExitedInv

\* Only a worker that nobody waits for vanishes.
LEMMA VanishInv == ASSUME Inv, NEW p \in Procs, Vanish(p) PROVE Inv'
<1>1. UNCHANGED <<daemon, used>> /\ Reaped(p)
  BY DEF Vanish
<1>2. Types'
  BY <1>1, ReapedFields DEF Inv, Types, daemon
<1>3. HandoverInv'
  BY <1>1, ReleasedHandover DEF Reaped
<1>4. RequestInv'
  BY <1>1, ReapedRequest DEF daemon
<1> QED BY <1>2, <1>3, <1>4 DEF Inv

-----------------------------------------------------------------------------
(* The theorems. *)

LEMMA InitInv == Init => Inv /\ WarmingInv
<1> SUFFICES ASSUME Init PROVE Inv /\ WarmingInv
  OBVIOUS
<1>1. Idle \in TaskType /\ Idle.pc = "none"
  BY DEF Idle, TaskType, Pcs
<1>2. task \in TasksType
  BY <1>1 DEF Init, TasksType, WithWorker
<1>3. proc \in [Procs -> ProcType]
  BY NoProcType DEF Init
<1>4. Types
  BY <1>2, <1>3 DEF Init, Types
<1> QED BY <1>4 DEF Init, Inv, HandoverInv, RequestInv, WarmingInv

LEMMA WarmingNext == WarmingInv /\ [Next]_vars => WarmingInv'
<1> SUFFICES ASSUME WarmingInv, [Next]_vars PROVE WarmingInv'
  OBVIOUS
<1>1. \A t \in Tasks : Ends(t) => WarmingInv'
  BY DEF Ends, WarmingInv
<1>2. \A t \in Tasks : \A p : Returned(t, p) => WarmingInv'
  BY <1>1 DEF Returned, WarmingInv
<1>3. \A t \in Tasks : Collected(t) => WarmingInv'
  BY <1>1 DEF Collected, WarmingInv
<1>4. CASE Loop
  <2>1. \A t \in Tasks : Ensure(t) => WarmingInv'
    BY <1>1, <1>2 DEF Ensure, EnsureReady, EnsureStarts, EnsureRefused, BootDone, BootFails, WarmingInv
  <2>2. \A t \in Tasks : Cancelled(t) => WarmingInv'
    BY <1>1 DEF Cancelled
  <2>3. VerifyLocked \/ VerifyAnswered \/ VerifyUnanswered \/ VerifyCancelled \/ VerifyGivesUp
            \/ VerifyDiscarded => WarmingInv'
    BY DEF VerifyLocked, VerifyAnswered, VerifyUnanswered, VerifyCancelled, VerifyGivesUp,
           VerifyDiscarded, VerifyEnds, WarmingInv
  <2>4. \A t \in Warms : WarmStarts(t) \/ WarmAfterSleep(t) \/ WarmLocked(t) => WarmingInv'
    BY <1>1, VerifyIsTask DEF WarmStarts, WarmAfterSleep, WarmLocked, WarmingInv
  <2>5. \A t \in Collectors : Project(t) \/ Launched(t) \/ CollectDone(t) => WarmingInv'
    BY <1>1, <1>3, VerifyIsTask DEF Project, Launched, CollectDone, WarmingInv
  <2>6. Quiesce => WarmingInv'
    BY DEF Quiesce, QuiesceBegins, QuiesceGathered, QuiesceDrops, QuiesceDropped, QuiesceDone, WarmingInv
  <2> QED BY <1>4, <2>1, <2>2, <2>3, <2>4, <2>5, <2>6 DEF Loop
<1>5. CASE Environment
  BY <1>5 DEF Environment, Verify, Stop, Inventory, Call, SystemSleepChanged, WarmingInv
<1>6. CASE Hardware
  BY <1>6 DEF Hardware, OtherLocks, OtherOpens, OtherAsks, Confirm, OtherGivesUp, OtherDone, TakeDevice,
     Release, daemon, WarmingInv
<1>7. CASE Worker
  BY <1>7 DEF Worker, Prepare, ReadRequest, ReadEof, Matched, MatchFails, Die, Vanish, daemon, WarmingInv
<1>8. CASE UNCHANGED vars
  BY <1>8 DEF vars, WarmingInv
<1> QED BY <1>4, <1>5, <1>6, <1>7, <1>8 DEF Next

LEMMA NextInv == Inv /\ WarmingInv /\ [Next]_vars => Inv'
<1> SUFFICES ASSUME Inv, WarmingInv, [Next]_vars PROVE Inv'
  OBVIOUS
<1>1. CASE Loop
  BY <1>1, EnsureInv, CancelledInv, VerifyLockedInv, VerifyAnsweredInv, VerifyUnansweredInv,
     VerifyCancelledInv, VerifyGivesUpInv, VerifyDiscardedInv, WarmStartsInv, WarmAfterSleepInv,
     WarmLockedInv, ProjectInv, LaunchedInv, CollectDoneInv, QuiesceInv DEF Loop
<1>2. CASE Environment
  BY <1>2, VerifyInv, StopInv, InventoryInv, CallInv, SystemSleepChangedInv DEF Environment
<1>3. CASE Hardware
  BY <1>3, OtherLocksInv, OtherOpensInv, OtherAsksInv, ConfirmInv, OtherGivesUpInv, OtherDoneInv,
     TakeDeviceInv, ReleaseInv DEF Hardware
<1>4. CASE Worker
  BY <1>4, PrepareInv, ReadRequestInv, ReadEofInv, MatchedInv, MatchFailsInv, DieInv, VanishInv DEF Worker
<1>5. CASE UNCHANGED vars
  BY <1>5 DEF vars, Inv, Types, HandoverInv, RequestInv
<1> QED BY <1>1, <1>2, <1>3, <1>4, <1>5 DEF Next

\* The inductive invariant holds of every behaviour of the daemon, its workers and the other
\* owners of the device.
THEOREM Invariance == Spec => []Inv
<1>1. Init => Inv /\ WarmingInv
  BY InitInv
<1>2. (Inv /\ WarmingInv) /\ [Next]_vars => (Inv /\ WarmingInv)'
  BY NextInv, WarmingNext
<1> QED BY <1>1, <1>2, PTL DEF Spec

\* A device that an idle worker gave away (t2_preparation_lease) is not its device again as long
\* as the one it was given to holds the operation lock file.
THEOREM HandoverAlwaysHolds == Spec => []HandoverHolds
<1>1. Inv => HandoverHolds
  BY DEF Inv, HandoverInv, HandoverHolds
<1> QED BY <1>1, Invariance, PTL

\* The worker that _run_native_match uses next has no request, and no answer, of an earlier
\* verification left.
THEOREM NoRequestStale == Spec => []NoStaleRequest
<1>1. Inv => NoStaleRequest
  BY DEF Inv, RequestInv, NoStaleRequest
<1> QED BY <1>1, Invariance, PTL

-----------------------------------------------------------------------------
(* Enrollment: the inductive invariant.  s is the SEP, a the archive, h the journal. *)

HistoryFields == {"phase", "version", "base", "ids", "boot", "identity", "status", "stage",
                  "tracker", "added", "snapshot"}
TrackerFields == {"kind", "recovered", "phase", "batches", "batch", "comp", "staged", "stage"}

FullPlan == <<<<"user", "master">>, <<"biolockout">>>>
FailurePlan == <<<<"biolockout">>>>

\* The positions a tracker can be in.
TrackOK(t) ==
    /\ DOMAIN t = TrackerFields /\ t.kind = "enrollment" /\ t.phase \in TrackerPhases
    /\ t.phase = "NOT_STARTED" => t.batches = <<>> /\ t.staged = << >>
    /\ t.phase # "NOT_STARTED" => t.batches = FullPlan \/ t.batches = FailurePlan
    /\ t.batches # FullPlan => t.batch = 1 /\ t.comp = 1
    /\ t.batches = FullPlan =>
         /\ (t.batch = 1 /\ t.comp \in {1, 2}) \/ (t.batch = 2 /\ t.comp = 1)
         /\ t.batch = 1 /\ t.phase \in {"BATCH_COMMIT_INTENT", "BATCH_COMMITTED", "FINAL_CONFIRM_INTENT"} => t.comp = 2
         /\ t.phase = "CONFIRM_INTENT" => t.batch = 1 /\ t.comp = 1
         /\ t.phase \in {"ATTESTATION_READY", "COMPLETE"} => t.batch = 2
    /\ t.batches = FailurePlan => t.phase # "CONFIRM_INTENT"
    /\ t.phase = "OUTCOME_UNKNOWN" /\ t.stage = "readback" /\ t.batches = FullPlan => t.batch = 2

HistOK(h) ==
    /\ DOMAIN h = HistoryFields
    /\ h.phase \in EnrollPhases /\ h.version \in {1, 2} /\ h.added \in BOOLEAN
    /\ h.identity \in Ids \cup {Unset} /\ h.status \in Statuses \cup {Unset}
    /\ h.ids \subseteq Ids /\ HostIds(h.base) = h.ids
    /\ TrackOK(h.tracker)

SepOK(s) == s \in [ids : SUBSET Ids, dirty : SUBSET Components, capture : BOOLEAN, uuid : BOOLEAN]

StoreOK(a) ==
    /\ DOMAIN a = {"root", "txn", "files"} /\ DOMAIN a.root = Components /\ DOMAIN a.files = Components
    /\ a.txn \in {"none", "prepare", "commit"}
    /\ a.txn = "none" => \A n \in Components : a.files[n] = Absent

\* Where the SEP is: as at the baseline, with one finger more, or with the journal's.
Before(s, h) == s.ids = h.ids /\ s.dirty = {}
OneMore(s, h) == \E x \in Ids \ h.ids : s.ids = h.ids \cup {x}
Found(s, h) == \/ Before(s, h)
               \/ OneMore(s, h) /\ s.dirty \subseteq {"user", "master"} /\ ~s.capture
Added(s, h) == /\ s.ids = h.ids \cup {h.identity} /\ h.identity \notin h.ids
               /\ s.dirty \subseteq {"user", "master"} /\ ~s.capture

AtBase(a, h) == a.root = h.base /\ a.txn = "none"
IdentityAtBase(a, h) == a.root["user"] = h.base["user"] /\ a.root["master"] = h.base["master"]

Unsaved(h) == h.tracker.phase = "NOT_STARTED"
Opened == {"BASELINE", "ABORTED_BEFORE_START"}
CapturePhases == {"START_INTENT", "ACTIVE", "CONTINUE_INTENT", "CANCEL_INTENT",
                  "CANCEL_REQUESTED", "TERMINAL_WITNESS"}
Capturing(h) == h.phase \in CapturePhases \/ (h.phase = "OUTCOME_UNKNOWN" /\ Unsaved(h))
Saving(h) == \/ h.phase \in {"TERMINAL_IDENTITY", "TERMINAL_FAILURE", "PERSISTING", "PERSISTENCE_READY"}
             \/ h.phase = "OUTCOME_UNKNOWN" /\ ~Unsaved(h)
FingerKept(h) ==
    \/ h.phase \in {"POST_REBOOT_VERIFIED", "ADDITION_VERIFIED", "ADDITION_ROLLED_BACK"}
    \/ h.phase = "RECONCILED" /\ h.added

\* What the phase of the journal says of the SEP and of the archive.
OpenedInv(s, a, h) == h.phase \in Opened =>
    /\ Before(s, h) /\ ~s.capture /\ AtBase(a, h)
    /\ Unsaved(h) /\ h.identity = Unset /\ h.status = Unset /\ h.stage = Unset
CapturingInv(s, a, h) == Capturing(h) =>
    /\ Found(s, h) /\ AtBase(a, h)
    /\ Unsaved(h) /\ h.identity = Unset /\ h.status = Unset
\* A failed capture saves the lockout state only, ...
FailureInv(s, a, h) == Saving(h) /\ h.identity = Unset =>
    /\ h.status # Unset /\ Before(s, h) /\ ~s.capture /\ IdentityAtBase(a, h)
    /\ a.files["user"] = Absent /\ a.files["master"] = Absent
    /\ h.tracker.batches # FullPlan
\* ... and a finger everything.
SavingInv(s, a, h) == Saving(h) =>
    /\ h.identity # Unset => Added(s, h) /\ h.tracker.batches # FailurePlan
    /\ Unsaved(h) => AtBase(a, h) /\ h.phase \in {"TERMINAL_IDENTITY", "TERMINAL_FAILURE"}
    /\ h.phase = "TERMINAL_IDENTITY" =>
         /\ h.identity # Unset
         /\ ~Unsaved(h) => h.tracker.phase = "COMPONENT_READY" /\ h.tracker.batch = 1 /\ h.tracker.comp = 2
    /\ h.phase = "TERMINAL_FAILURE" => h.identity = Unset /\ Unsaved(h)
    /\ h.tracker.phase = "OUTCOME_UNKNOWN" => h.phase = "OUTCOME_UNKNOWN"
ClosedInv(s, a, h) ==
    /\ h.phase = "RECONCILED" /\ ~h.added =>
         h.identity = Unset /\ Before(s, h) /\ ~s.capture /\ IdentityAtBase(a, h) /\ a.txn = "none"
    /\ FingerKept(h) =>
         /\ h.identity # Unset /\ h.identity \notin h.ids
         /\ s.dirty = {} /\ ~s.capture /\ a.txn = "none" /\ HostIds(a.root) = s.ids
         /\ s.ids = h.ids \cup {h.identity} \/ (h.version = 1 /\ s.ids = h.ids)
    /\ h.phase \in {"ADDITION_VERIFIED", "ADDITION_ROLLED_BACK"} => h.version = 1
    /\ h.phase = "POST_REBOOT_VERIFIED" => s.ids = h.ids \cup {h.identity}

\* The archive's user component with the new finger.
NewUser(f, h) == f \in [ids : {h.ids \cup {h.identity}}, save : Nat]
Staged(h) == h.tracker.comp = 2 \/ h.tracker.phase \in {"HOST_STAGED", "CONFIRM_INTENT"}

\* How far the save of a finger is.
FirstBatchInv(s, a, h) == Saving(h) /\ h.identity # Unset /\ h.tracker.batch = 1 =>
    /\ a.root["user"] = h.base["user"] \/ NewUser(a.root["user"], h)
    /\ h.tracker.comp = 2 => s.dirty \subseteq {"master"}
    /\ h.tracker.phase \in {"BATCH_COMMITTED", "FINAL_CONFIRM_INTENT"} => NewUser(a.root["user"], h)
    /\ a.txn = "commit" \/ (a.txn = "prepare" /\ Staged(h)) => NewUser(a.files["user"], h)
    /\ "user" \in DOMAIN h.tracker.staged => NewUser(h.tracker.staged["user"], h)
    /\ h.stage = "local-commit-rolled-forward" => NewUser(a.root["user"], h) \/ a.txn = "commit"
SecondBatchInv(s, a, h) == Saving(h) /\ h.identity # Unset /\ h.tracker.batch = 2 =>
    s.dirty = {} /\ NewUser(a.root["user"], h) /\ a.files["user"] = Absent

Agree(s, a, h) == /\ OpenedInv(s, a, h) /\ CapturingInv(s, a, h)
                  /\ FailureInv(s, a, h) /\ SavingInv(s, a, h) /\ ClosedInv(s, a, h)
                  /\ FirstBatchInv(s, a, h) /\ SecondBatchInv(s, a, h)

Typed(s, a, h) == SepOK(s) /\ StoreOK(a) /\ HistOK(h)

Failures == {"cancelled", "failed", "timed-out"}
Reports == {"progress", "feedback", "witness", "bad", "identity"} \cup Failures

\* What is on the wire, and that a failure on it ended the capture.
WireOK == /\ wire \in Seq(Reports) /\ Len(wire) <= 2
          /\ sep.capture => Len(wire) <= 1
          /\ \A i \in 1..Len(wire) : wire[i] \in Failures => ~sep.capture /\ Before(sep, j)

RestOK == /\ native \in BOOLEAN /\ saved \in BOOLEAN
          /\ authority \in [copy : {Absent, Torn, "journal"}, temp : {Absent, Torn, "manifest"},
                            published : BOOLEAN]
          /\ pc \in PCs /\ events \in 0..EventLimit
          /\ boot \in Nat /\ failures \in Nat /\ ops \in Nat /\ saves \in Nat /\ starts \in Nat

\* Which record the process has written by each place.
CapturePCs == {"START_OBSERVED", "loop", "cancel", "CANCEL_DISPATCH_OBSERVED", "continue",
               "CONTINUE_OBSERVED", "cleanup", "cleanup_cancel", "report", "reconnect"}
CapturePlaceInv ==
    /\ sep.capture => pc \in CapturePCs /\ j.phase \in CapturePhases
    /\ pc \in {"idle", "dispatch", "start", "START_REJECTED"} => wire = <<>>
    /\ pc = "dispatch" => j.phase = "BASELINE" /\ starts = 0
    /\ pc = "start" => j.phase = "START_INTENT" /\ starts = 0 /\ Before(sep, j)
    /\ pc = "START_REJECTED" => j.phase = "START_INTENT" /\ Before(sep, j)
    /\ pc = "START_OBSERVED" => j.phase = "START_INTENT"
    /\ pc = "loop" => j.phase \in {"ACTIVE", "CANCEL_REQUESTED"}
    /\ pc \in {"cancel", "CANCEL_DISPATCH_OBSERVED", "cleanup_cancel"} => j.phase = "CANCEL_INTENT"
    /\ pc \in {"continue", "CONTINUE_OBSERVED"} => j.phase = "CONTINUE_INTENT"
    /\ pc = "cleanup" => j.phase = "ACTIVE"
    /\ pc = "report" => j.phase \in {"CANCEL_INTENT", "CANCEL_REQUESTED"}
    /\ pc \in {"cleanup", "cleanup_cancel", "report"} => stage \in {"active", "terminal"}
    /\ pc \in {"reconnect", "witness_readback"} => j.phase = "TERMINAL_WITNESS"
    /\ pc = "finalize" => j.phase \in {"TERMINAL_IDENTITY", "TERMINAL_FAILURE"} /\ Unsaved(j)
    /\ pc = "plan" => j.phase \in {"TERMINAL_IDENTITY", "TERMINAL_FAILURE"}
    /\ pc = "plan" /\ ~Unsaved(j) => store.txn = "prepare"

\* The phase of the tracker at each place of a save.
PreparedPCs == {"PREPARE_INTENT", "PREPARED", "COMPLETE_INTENT", "SECURE_BLOB_CAPTURED", "stage",
                "stage_write", "HOST_STAGED", "CONFIRM_INTENT", "early_confirm", "CONFIRMED",
                "BATCH_COMMIT_INTENT", "cross"}
CommittedPCs == {"BATCH_COMMITTED", "FINAL_CONFIRM_INTENT", "final_confirm", "FINAL_CONFIRMED",
                 "readback", "ATTESTED", "E3"}
SavePCs == PreparedPCs \cup CommittedPCs \cup {"begin_stage", "roll_forward"}
SavePhaseInv ==
    /\ pc \in {"begin_stage", "PREPARE_INTENT"} => j.tracker.phase = "COMPONENT_READY"
    /\ pc = "PREPARED" => j.tracker.phase = "PREPARE_INTENT"
    /\ pc = "COMPLETE_INTENT" => j.tracker.phase = "PREPARED"
    /\ pc = "SECURE_BLOB_CAPTURED" => j.tracker.phase = "COMPLETE_INTENT"
    /\ pc \in {"stage", "stage_write", "HOST_STAGED"} => j.tracker.phase = "SECURE_BLOB_CAPTURED"
    /\ pc \in {"CONFIRM_INTENT", "BATCH_COMMIT_INTENT"} => j.tracker.phase = "HOST_STAGED"
    /\ pc \in {"early_confirm", "CONFIRMED"} => j.tracker.phase = "CONFIRM_INTENT"
    /\ pc \in {"cross", "roll_forward", "BATCH_COMMITTED"} => j.tracker.phase = "BATCH_COMMIT_INTENT"
    /\ pc = "FINAL_CONFIRM_INTENT" => j.tracker.phase = "BATCH_COMMITTED"
    /\ pc \in {"final_confirm", "FINAL_CONFIRMED"} => j.tracker.phase = "FINAL_CONFIRM_INTENT"
    /\ pc \in {"readback", "ATTESTED"} => j.tracker.phase = "ATTESTATION_READY"
    /\ pc = "E3" => j.tracker.phase = "COMPLETE" /\ j.phase = "PERSISTENCE_READY"
    /\ pc \in SavePCs => j.phase \in {"TERMINAL_IDENTITY", "PERSISTING", "PERSISTENCE_READY"}

\* The transaction and the files at each place of a save.
SavePlaceInv ==
    /\ pc = "begin_stage" => store.txn = "none" /\ j.tracker.comp = 1
    /\ pc \in PreparedPCs => store.txn = "prepare"
    /\ pc = "roll_forward" => store.txn = "commit"
    /\ pc \in CommittedPCs => store.txn = "none"
    /\ pc = "CONFIRM_INTENT" => j.tracker.batches = FullPlan /\ j.tracker.batch = 1 /\ j.tracker.comp = 1
    /\ pc = "BATCH_COMMIT_INTENT" /\ j.tracker.batch = 1 /\ j.identity # Unset => j.tracker.comp = 2
    /\ j.tracker.batch = 1 /\ j.identity # Unset =>
         /\ pc = "HOST_STAGED" => NewUser(store.files["user"], j)
         /\ pc = "CONFIRMED" => sep.dirty \subseteq {"master"}
         /\ pc = "BATCH_COMMITTED" => NewUser(store.root["user"], j)
         /\ pc = "FINAL_CONFIRMED" => sep.dirty = {}
    /\ pc \in {"ATTESTED", "E3"} => ReadsBack

\* The other places.
LocalInv ==
    /\ pc = "local" => /\ j.phase = "OUTCOME_UNKNOWN" /\ ~Unsaved(j) /\ j.stage = LocalDirection
                       /\ store.txn # "none"
    /\ j.stage \in LocalStages =>
         /\ \/ j.phase = "OUTCOME_UNKNOWN" /\ j.tracker.phase # "OUTCOME_UNKNOWN"
            \/ j.phase = "RECONCILED" /\ ~j.added
         /\ pc \in {"idle", "local"}
PublishPCs == {"publish_copy", "copy_write", "publish_temp", "temp_write", "publish_replace"}
PublishInv ==
    /\ pc \in {"local", "matched", "verify"} \cup PublishPCs => wire = <<>>
    /\ pc = "matched" => FingerKept(j) /\ j.version = 1
    /\ pc = "verify" => j.version = 2
    /\ pc \in PublishPCs => j.phase = "POST_REBOOT_VERIFIED" /\ j.version = 2 /\ ~authority.published
    /\ pc \in {"publish_temp", "temp_write", "publish_replace"} => authority.copy = "journal"
    /\ authority.published => /\ authority.copy = "journal"
                              /\ j.version = 1 => j.ids # {}
                              /\ j.version = 2 => j.phase = "POST_REBOOT_VERIFIED"

EnrollInv ==
    /\ Typed(sep, store, j) /\ Agree(sep, store, j)
    /\ WireOK /\ RestOK
    /\ CapturePlaceInv /\ SavePhaseInv /\ SavePlaceInv /\ LocalInv /\ PublishInv

-----------------------------------------------------------------------------
(* The journal's records, field by field. *)

\* The fields only a new baseline changes.
Baselined(h, g) == /\ DOMAIN g = HistoryFields
                   /\ g.version = h.version /\ g.base = h.base /\ g.ids = h.ids /\ g.boot = h.boot

LEMMA PhaseRecorded ==
    ASSUME NEW h, DOMAIN h = HistoryFields, NEW p, NEW g, g = [h EXCEPT !.phase = p]
    PROVE  /\ Baselined(h, g) /\ g.phase = p /\ g.identity = h.identity /\ g.status = h.status
           /\ g.stage = h.stage /\ g.tracker = h.tracker /\ g.added = h.added
BY DEF HistoryFields, Baselined

LEMMA IdentityRecorded ==
    ASSUME NEW h, DOMAIN h = HistoryFields, NEW id, NEW g, g = RecordTerminalIdentity(h, id)
    PROVE  /\ Baselined(h, g) /\ g.phase = "TERMINAL_IDENTITY" /\ g.identity = id
           /\ g.status = h.status /\ g.stage = h.stage /\ g.tracker = h.tracker /\ g.added = h.added
BY DEF HistoryFields, Baselined, RecordTerminalIdentity

LEMMA FailureRecorded ==
    ASSUME NEW h, DOMAIN h = HistoryFields, NEW st, NEW g, g = RecordTerminalFailure(h, st)
    PROVE  /\ Baselined(h, g) /\ g.phase = "TERMINAL_FAILURE" /\ g.identity = h.identity
           /\ g.status = st /\ g.stage = h.stage /\ g.tracker = h.tracker /\ g.added = h.added
BY DEF HistoryFields, Baselined, RecordTerminalFailure

LEMMA UnknownRecorded ==
    ASSUME NEW h, DOMAIN h = HistoryFields, NEW s, NEW g, g = RecordUnknown(h, s)
    PROVE  /\ Baselined(h, g) /\ g.phase = "OUTCOME_UNKNOWN" /\ g.identity = h.identity
           /\ g.status = h.status /\ g.stage = s /\ g.tracker = h.tracker /\ g.added = h.added
BY DEF HistoryFields, Baselined, RecordUnknown

LEMMA ReadbackRecorded ==
    ASSUME NEW h, DOMAIN h = HistoryFields, DOMAIN h.tracker = TrackerFields,
           NEW id, NEW g, g = RecordReadback(h, id)
    PROVE  /\ Baselined(h, g) /\ g.phase = "TERMINAL_IDENTITY" /\ g.identity = id
           /\ g.status = h.status /\ g.stage = h.stage /\ g.added = h.added
           /\ DOMAIN g.tracker = TrackerFields /\ g.tracker.kind = h.tracker.kind
           /\ g.tracker.phase = h.tracker.phase /\ g.tracker.batches = h.tracker.batches
           /\ g.tracker.batch = h.tracker.batch /\ g.tracker.comp = h.tracker.comp
           /\ g.tracker.staged = h.tracker.staged /\ g.tracker.stage = h.tracker.stage
<1>1. /\ Baselined(h, g) /\ g.phase = "TERMINAL_IDENTITY" /\ g.identity = id
      /\ g.status = h.status /\ g.stage = h.stage /\ g.added = h.added
      /\ g.tracker = [h.tracker EXCEPT !.recovered = TRUE]
  BY DEF HistoryFields, Baselined, RecordReadback
<1>2. /\ DOMAIN g.tracker = TrackerFields /\ g.tracker.kind = h.tracker.kind
      /\ g.tracker.phase = h.tracker.phase /\ g.tracker.batches = h.tracker.batches
      /\ g.tracker.batch = h.tracker.batch /\ g.tracker.comp = h.tracker.comp
      /\ g.tracker.staged = h.tracker.staged /\ g.tracker.stage = h.tracker.stage
  BY <1>1 DEF TrackerFields
<1> QED BY <1>1, <1>2

LEMMA TrackerRecorded ==
    ASSUME NEW h, DOMAIN h = HistoryFields, NEW t, NEW g, g = RecordTracker(h, t)
    PROVE  /\ Baselined(h, g) /\ g.identity = h.identity /\ g.status = h.status
           /\ g.stage = h.stage /\ g.tracker = t /\ g.added = h.added
           /\ g.phase = IF t.phase = "COMPLETE" THEN "PERSISTENCE_READY"
                        ELSE IF t.phase = "OUTCOME_UNKNOWN" THEN "OUTCOME_UNKNOWN"
                        ELSE "PERSISTING"
BY DEF HistoryFields, Baselined, RecordTracker

LEMMA Opening ==
    ASSUME NEW version, NEW base, NEW ids, NEW b, NEW h, h = NewEnrollment(version, base, ids, b)
    PROVE  /\ DOMAIN h = HistoryFields /\ h.phase = "BASELINE" /\ h.version = version
           /\ h.base = base /\ h.ids = ids /\ h.boot = b /\ h.identity = Unset
           /\ h.status = Unset /\ h.stage = Unset /\ h.added \in BOOLEAN
           /\ TrackOK(h.tracker) /\ Unsaved(h)
<1>1. /\ DOMAIN h = HistoryFields /\ h.phase = "BASELINE" /\ h.version = version
      /\ h.base = base /\ h.ids = ids /\ h.boot = b /\ h.identity = Unset
      /\ h.status = Unset /\ h.stage = Unset /\ h.added \in BOOLEAN
      /\ h.tracker = NewTracker("enrollment", FALSE)
  BY DEF NewEnrollment, HistoryFields
<1>2. Len(<< >>) = 0 /\ Len(FullPlan) = 2 /\ Len(FailurePlan) = 1
  BY DEF FullPlan, FailurePlan
<1>3. << >> # FullPlan /\ << >> # FailurePlan
  BY <1>2
<1>4. TrackOK(h.tracker) /\ Unsaved(h)
  BY <1>1, <1>3 DEF NewTracker, TrackOK, TrackerFields, TrackerPhases, Unsaved
<1> QED BY <1>1, <1>4

-----------------------------------------------------------------------------
(* The position of a tracker in its plan. *)

LEMMA NothingStaged == DOMAIN << >> = {}
OBVIOUS

LEMMA Plans == /\ FullPlan # FailurePlan /\ FullPlan # << >> /\ FailurePlan # << >>
               /\ Len(FullPlan) = 2 /\ Len(FailurePlan) = 1
<1>1. Len(<< >>) = 0 /\ Len(FullPlan) = 2 /\ Len(FailurePlan) = 1
  BY DEF FullPlan, FailurePlan
<1>2. << >> # FullPlan /\ << >> # FailurePlan
  BY <1>1
<1>3. FullPlan # FailurePlan
  BY <1>1
<1> QED BY <1>1, <1>2, <1>3

LEMMA FullPosition ==
    ASSUME NEW t, TrackOK(t), t.batches = FullPlan
    PROVE  /\ t.batch = 1 /\ t.comp = 1 => Current(t) = "user" /\ ~FinalComponent(t)
           /\ t.batch = 1 /\ t.comp = 2 => Current(t) = "master" /\ FinalComponent(t)
           /\ t.batch = 2 => Current(t) = "biolockout" /\ FinalComponent(t)
           /\ FinalBatch(t) <=> t.batch = 2
           /\ (t.batch = 1 /\ t.comp \in {1, 2}) \/ (t.batch = 2 /\ t.comp = 1)
<1>1. (t.batch = 1 /\ t.comp \in {1, 2}) \/ (t.batch = 2 /\ t.comp = 1)
  BY DEF TrackOK
<1>2. FullPlan[1] = <<"user", "master">> /\ FullPlan[2] = <<"biolockout">> /\ Len(FullPlan) = 2
  BY DEF FullPlan
<1>3. FinalBatch(t) <=> t.batch = 2
  BY <1>1, <1>2 DEF FinalBatch
<1>4. FullPlan[1][1] = "user" /\ FullPlan[1][2] = "master" /\ FullPlan[2][1] = "biolockout"
  BY <1>2
<1>5. Len(FullPlan[1]) = 2 /\ Len(FullPlan[2]) = 1
  BY <1>2
<1>6. /\ t.batch = 1 /\ t.comp = 1 => Current(t) = "user"
      /\ t.batch = 1 /\ t.comp = 2 => Current(t) = "master"
      /\ t.batch = 2 => Current(t) = "biolockout"
  BY <1>1, <1>4 DEF Current
<1>7. /\ t.batch = 1 => (FinalComponent(t) <=> t.comp = 2)
      /\ t.batch = 2 => FinalComponent(t)
  BY <1>1, <1>5 DEF FinalComponent
<1> QED BY <1>1, <1>3, <1>6, <1>7

LEMMA FailurePosition ==
    ASSUME NEW t, TrackOK(t), t.batches = FailurePlan
    PROVE  /\ t.batch = 1 /\ t.comp = 1 /\ Current(t) = "biolockout"
           /\ FinalComponent(t) /\ FinalBatch(t)
<1>1. t.batch = 1 /\ t.comp = 1
  BY Plans DEF TrackOK
<1>2. FailurePlan[1] = <<"biolockout">> /\ Len(FailurePlan) = 1
  BY DEF FailurePlan
<1> QED BY <1>1, <1>2 DEF Current, FinalComponent, FinalBatch

\* A tracker that has begun has a plan.
LEMMA Planned ==
    ASSUME NEW t, TrackOK(t), t.phase # "NOT_STARTED"
    PROVE  t.batches = FullPlan \/ t.batches = FailurePlan
BY DEF TrackOK

-----------------------------------------------------------------------------
(* The journal typed, and nothing but its place changed. *)

\* Records that leave the tracker alone keep the journal typed.
LEMMA HistKept ==
    ASSUME NEW h, HistOK(h), NEW g, Baselined(h, g), g.tracker = h.tracker, g.phase \in EnrollPhases,
           g.identity \in Ids \cup {Unset}, g.status \in Statuses \cup {Unset}, g.added \in BOOLEAN
    PROVE  HistOK(g)
BY DEF HistOK, Baselined

\* A record of the capture, or the abort before it.
LEMMA CaptureKeeps ==
    ASSUME NEW s, NEW a, NEW h, Typed(s, a, h), Agree(s, a, h),
           NEW g, Baselined(h, g), g.tracker = h.tracker, g.identity = h.identity,
           g.status = h.status, g.stage = h.stage, g.added = h.added,
           \/ h.phase = "BASELINE" /\ g.phase \in {"ABORTED_BEFORE_START", "START_INTENT"}
           \/ h.phase \in CapturePhases /\ g.phase \in CapturePhases
    PROVE  Typed(s, a, g) /\ Agree(s, a, g)
<1>1. HistOK(g)
  BY HistKept DEF Typed, HistOK, CapturePhases, EnrollPhases
<1>2. OpenedInv(s, a, g)
  BY DEF Agree, OpenedInv, Opened, CapturePhases, Baselined, Before, AtBase, Unsaved
<1>3. CapturingInv(s, a, g)
  BY DEF Agree, OpenedInv, CapturingInv, Opened, CapturePhases, Capturing, Baselined, Before, OneMore,
         Found, AtBase, Unsaved
<1>4. ~Saving(g)
  BY DEF Saving, CapturePhases
<1>5. ClosedInv(s, a, g)
  BY DEF ClosedInv, FingerKept, CapturePhases
<1> QED BY <1>1, <1>2, <1>3, <1>4, <1>5
        DEF Typed, Agree, FailureInv, SavingInv, FirstBatchInv, SecondBatchInv

\* A capture whose outcome is unknown.
LEMMA UnknownKeeps ==
    ASSUME NEW s, NEW a, NEW h, Typed(s, a, h), Agree(s, a, h),
           NEW st, h.phase \in CapturePhases
    PROVE  Typed(s, a, RecordUnknown(h, st)) /\ Agree(s, a, RecordUnknown(h, st))
<1> DEFINE g == RecordUnknown(h, st)
<1>0. /\ Baselined(h, g) /\ g.phase = "OUTCOME_UNKNOWN" /\ g.identity = h.identity
      /\ g.status = h.status /\ g.stage = st /\ g.tracker = h.tracker /\ g.added = h.added
  BY UnknownRecorded DEF Typed, HistOK
<1> HIDE DEF g
<1>1. HistOK(g)
  BY <1>0, HistKept DEF Typed, HistOK, EnrollPhases
<1>2. OpenedInv(s, a, g)
  BY <1>0 DEF OpenedInv, Opened
<1>3. CapturingInv(s, a, g)
  BY <1>0 DEF Agree, CapturingInv, Capturing, Baselined, Before, OneMore, Found, AtBase, Unsaved
<1>4. ~Saving(g)
  BY <1>0 DEF Agree, CapturingInv, Capturing, Saving, CapturePhases, Unsaved
<1>5. ClosedInv(s, a, g)
  BY <1>0 DEF ClosedInv, FingerKept
<1>6. Typed(s, a, g) /\ Agree(s, a, g)
  BY <1>1, <1>2, <1>3, <1>4, <1>5
     DEF Typed, Agree, FailureInv, SavingInv, FirstBatchInv, SecondBatchInv
<1> QED BY <1>6 DEF g

\* The terminal identity: the capture, or the readback of one, found one finger more.
LEMMA FingerKeeps ==
    ASSUME NEW s, NEW a, NEW h, Typed(s, a, h), Agree(s, a, h), Capturing(h),
           NEW g, Baselined(h, g), g.phase = "TERMINAL_IDENTITY",
           HistOK(g), g.identity \in s.ids \ h.ids, Unsaved(g), g.stage \notin LocalStages
    PROVE  Agree(s, a, g)
<1>0. g.tracker.comp = 1 /\ g.tracker.staged = << >> /\ g.tracker.batches = << >>
  BY Plans DEF HistOK, TrackOK, Unsaved
<1>1. g.identity # Unset /\ g.identity \in Ids
  BY EnrollmentNames DEF Typed, SepOK
<1>2. Added(s, g)
  BY DEF Agree, CapturingInv, Found, Before, OneMore, Added, Baselined
<1>3. AtBase(a, g)
  BY DEF Agree, CapturingInv, AtBase, Baselined
<1>4. OpenedInv(s, a, g) /\ CapturingInv(s, a, g) /\ ClosedInv(s, a, g)
  BY DEF OpenedInv, Opened, CapturingInv, Capturing, CapturePhases, ClosedInv, FingerKept
<1>5. FailureInv(s, a, g) /\ SavingInv(s, a, g)
  BY <1>0, <1>1, <1>2, <1>3, Plans DEF FailureInv, SavingInv, Unsaved
<1>6. FirstBatchInv(s, a, g)
  BY <1>0, <1>3, NothingStaged DEF FirstBatchInv, AtBase, LocalStages, Staged, Unsaved
<1>7. SecondBatchInv(s, a, g)
  BY <1>0, Plans DEF SecondBatchInv, HistOK, TrackOK
<1> QED BY <1>4, <1>5, <1>6, <1>7 DEF Agree

\* A terminal failure: the capture ended and the SEP is as it was.
LEMMA TerminalFailureKeeps ==
    ASSUME NEW s, NEW a, NEW h, Typed(s, a, h), Agree(s, a, h), h.phase \in CapturePhases,
           Before(s, h), ~s.capture, NEW st \in Statuses
    PROVE  /\ Typed(s, a, RecordTerminalFailure(h, st))
           /\ Agree(s, a, RecordTerminalFailure(h, st))
<1> DEFINE g == RecordTerminalFailure(h, st)
<1>0. /\ Baselined(h, g) /\ g.phase = "TERMINAL_FAILURE" /\ g.identity = h.identity
      /\ g.status = st /\ g.stage = h.stage /\ g.tracker = h.tracker /\ g.added = h.added
  BY FailureRecorded DEF Typed, HistOK
<1> HIDE DEF g
<1>1. HistOK(g)
  BY <1>0, HistKept DEF Typed, HistOK, EnrollPhases
<1>a. Capturing(h)
  BY DEF Capturing
<1>b. h.identity = Unset /\ Unsaved(h) /\ AtBase(a, h)
  BY <1>a DEF Agree, CapturingInv
<1>c. h.tracker.batches = << >>
  BY <1>b DEF Unsaved, Typed, HistOK, TrackOK
<1>2. OpenedInv(s, a, g) /\ CapturingInv(s, a, g) /\ ClosedInv(s, a, g)
  BY <1>0 DEF OpenedInv, Opened, CapturingInv, Capturing, CapturePhases, ClosedInv, FingerKept
<1>3. FailureInv(s, a, g)
  <2>1. st # Unset
    BY EnrollmentNames
  <2>2. a.files["user"] = Absent /\ a.files["master"] = Absent
    BY <1>b DEF Typed, StoreOK, AtBase, Components
  <2>3. Before(s, g) /\ IdentityAtBase(a, g)
    BY <1>0, <1>b DEF Before, AtBase, IdentityAtBase, Baselined
  <2> QED BY <2>1, <2>2, <2>3, <1>0, <1>c, Plans DEF FailureInv
<1>4. SavingInv(s, a, g)
  BY <1>0, <1>b DEF SavingInv, AtBase, Unsaved, Baselined
<1>5. FirstBatchInv(s, a, g) /\ SecondBatchInv(s, a, g)
  BY <1>0, <1>b DEF FirstBatchInv, SecondBatchInv
<1>6. Typed(s, a, g) /\ Agree(s, a, g)
  BY <1>1, <1>2, <1>3, <1>4, <1>5 DEF Typed, Agree
<1> QED BY <1>6 DEF g

-----------------------------------------------------------------------------
(* Leaving the connection. *)

LEMMA ClosedOutcome ==
    ASSUME NEW s, SepOK(s), NEW z \in Closed(s)
    PROVE  /\ SepOK(z) /\ ~z.capture
           /\ \/ z.ids = s.ids /\ z.dirty = s.dirty /\ z.uuid = s.uuid
              \/ /\ s.capture /\ z.dirty = {"user", "master"}
                 /\ \E id \in Ids \ s.ids : z.ids = s.ids \cup {id}
<1>1. CASE z = [s EXCEPT !.capture = FALSE]
  BY <1>1 DEF SepOK
<1>2. ASSUME s.capture, NEW id \in Ids \ s.ids, z = WithFinger(s, id)
      PROVE  /\ SepOK(z) /\ ~z.capture /\ z.dirty = {"user", "master"}
             /\ z.ids = s.ids \cup {id}
  BY <1>2 DEF SepOK, WithFinger, Components
<1>3. z = [s EXCEPT !.capture = FALSE] \/ (s.capture /\ \E id \in Ids \ s.ids : z = WithFinger(s, id))
  BY DEF Closed
<1> QED BY <1>1, <1>2, <1>3

\* Closing the connection: the finger of a running capture comes or not.
LEMMA ClosedKeeps ==
    ASSUME NEW s, NEW a, NEW h, Typed(s, a, h), Agree(s, a, h), s.capture => h.phase \in CapturePhases,
           NEW z \in Closed(s)
    PROVE  /\ Typed(z, a, h) /\ Agree(z, a, h) /\ ~z.capture
<1>0. /\ SepOK(z) /\ ~z.capture
      /\ \/ z.ids = s.ids /\ z.dirty = s.dirty /\ z.uuid = s.uuid
         \/ /\ s.capture /\ z.dirty = {"user", "master"}
            /\ \E id \in Ids \ s.ids : z.ids = s.ids \cup {id}
  BY ClosedOutcome DEF Typed
<1>1. CASE z.ids = s.ids /\ z.dirty = s.dirty
  <2>1. OpenedInv(z, a, h) /\ FailureInv(z, a, h) /\ SavingInv(z, a, h) /\ ClosedInv(z, a, h)
    BY <1>0, <1>1 DEF Agree, OpenedInv, FailureInv, SavingInv, ClosedInv, Before, Added
  <2>2. CapturingInv(z, a, h)
    BY <1>0, <1>1 DEF Agree, CapturingInv, Found, Before, OneMore
  <2>3. FirstBatchInv(z, a, h) /\ SecondBatchInv(z, a, h)
    BY <1>1 DEF Agree, FirstBatchInv, SecondBatchInv
  <2> QED BY <1>0, <2>1, <2>2, <2>3 DEF Typed, Agree
<1>2. CASE s.capture /\ z.dirty = {"user", "master"} /\ \E id \in Ids \ s.ids : z.ids = s.ids \cup {id}
  <2>1. h.phase \in CapturePhases
    BY <1>2
  <2>2. CapturingInv(z, a, h)
    BY <1>0, <1>2, <2>1 DEF Agree, CapturingInv, Capturing, Found, Before, OneMore
  <2>3. ~Saving(h) /\ OpenedInv(z, a, h) /\ ClosedInv(z, a, h)
    BY <2>1 DEF Saving, CapturePhases, OpenedInv, Opened, ClosedInv, FingerKept
  <2> QED BY <1>0, <2>2, <2>3
          DEF Typed, Agree, FailureInv, SavingInv, FirstBatchInv, SecondBatchInv
<1> QED BY <1>0, <1>1, <1>2

-----------------------------------------------------------------------------
(* The running capture changes the SEP. *)

LEMMA JournalFields ==
    ASSUME EnrollInv
    PROVE  DOMAIN j = HistoryFields /\ DOMAIN j.tracker = TrackerFields /\ TrackOK(j.tracker)
BY DEF EnrollInv, Typed, HistOK, TrackOK

LEMMA CaptureSet ==
    ASSUME NEW s, SepOK(s), NEW b \in BOOLEAN, NEW z, z = [s EXCEPT !.capture = b]
    PROVE  SepOK(z) /\ z.ids = s.ids /\ z.dirty = s.dirty /\ z.uuid = s.uuid /\ z.capture = b
BY DEF SepOK

LEMMA CaptureSetKeeps ==
    ASSUME NEW s, NEW a, NEW h, Typed(s, a, h), Agree(s, a, h), h.phase \in CapturePhases,
           Before(s, h), NEW z, SepOK(z), z.ids = s.ids, z.dirty = s.dirty
    PROVE  Typed(z, a, h) /\ Agree(z, a, h)
<1>1. ~Saving(h) /\ OpenedInv(z, a, h) /\ ClosedInv(z, a, h)
  BY DEF Saving, CapturePhases, OpenedInv, Opened, ClosedInv, FingerKept
<1>2. CapturingInv(z, a, h)
  BY DEF Agree, CapturingInv, Capturing, Found, Before
<1> QED BY <1>1, <1>2 DEF Typed, Agree, FailureInv, SavingInv, FirstBatchInv, SecondBatchInv

LEMMA WithFingerKeeps ==
    ASSUME NEW s, NEW a, NEW h, Typed(s, a, h), Agree(s, a, h), h.phase \in CapturePhases,
           Before(s, h), NEW id \in Ids \ s.ids, NEW z, z = WithFinger(s, id)
    PROVE  Typed(z, a, h) /\ Agree(z, a, h) /\ ~z.capture
<1>1. SepOK(z) /\ ~z.capture /\ z.dirty = {"user", "master"} /\ z.ids = s.ids \cup {id}
  BY DEF Typed, SepOK, WithFinger, Components
<1>2. ~Saving(h) /\ OpenedInv(z, a, h) /\ ClosedInv(z, a, h)
  BY DEF Saving, CapturePhases, OpenedInv, Opened, ClosedInv, FingerKept
<1>3. CapturingInv(z, a, h)
  BY <1>1 DEF Agree, CapturingInv, Capturing, Found, Before, OneMore
<1> QED BY <1>1, <1>2, <1>3
        DEF Typed, Agree, FailureInv, SavingInv, FirstBatchInv, SecondBatchInv

\* While a capture runs the SEP is as at the baseline.
LEMMA CaptureBefore ==
    ASSUME EnrollInv, sep.capture
    PROVE  Before(sep, j) /\ j.phase \in CapturePhases
<1>1. j.phase \in CapturePhases
  BY DEF EnrollInv, CapturePlaceInv
<1> QED BY <1>1 DEF EnrollInv, Agree, CapturingInv, Capturing, Found

-----------------------------------------------------------------------------
(* Events on the wire. *)

LEMMA WireTail ==
    ASSUME EnrollInv, wire # <<>>, wire' = Tail(wire), sep' = sep, j'.ids = j.ids
    PROVE  WireOK'
<1>1. wire \in Seq(Reports) /\ Len(wire) \in Nat /\ Len(wire) # 0 /\ Len(wire) <= 2
  BY DEF EnrollInv, WireOK
<1>2. wire' \in Seq(Reports) /\ Len(wire') = Len(wire) - 1
  BY <1>1
<1>3. \A i \in 1..Len(wire') : wire'[i] = wire[i + 1] /\ i + 1 \in 1..Len(wire)
  BY <1>1, <1>2
<1> QED BY <1>1, <1>2, <1>3 DEF EnrollInv, WireOK, Before

LEMMA WireKept ==
    ASSUME EnrollInv, wire' = wire, sep' = sep, j'.ids = j.ids
    PROVE  WireOK'
BY DEF EnrollInv, WireOK, Before

LEMMA WireEmpty ==
    ASSUME wire' = <<>>
    PROVE  WireOK'
BY DEF WireOK

LEMMA CancelOnWire ==
    ASSUME EnrollInv, CancelCapture, j'.ids = j.ids
    PROVE  /\ WireOK' /\ SepOK(sep') /\ sep'.ids = sep.ids /\ sep'.dirty = sep.dirty
           /\ sep'.capture => sep.capture
<1>1. CASE sep.capture
  <2>1. Before(sep, j)
    BY <1>1, CaptureBefore
  <2>2. SepOK(sep') /\ sep'.ids = sep.ids /\ sep'.dirty = sep.dirty /\ sep'.capture = FALSE
    BY <1>1, CaptureSet DEF CancelCapture, EnrollInv, Typed
  <2>3. wire \in Seq(Reports) /\ Len(wire) \in Nat /\ Len(wire) <= 1 /\ "cancelled" \in Reports
    BY <1>1 DEF EnrollInv, WireOK, Reports, Failures
  <2>4. wire' = Append(wire, "cancelled")
    BY <1>1 DEF CancelCapture
  <2>5. wire' \in Seq(Reports) /\ Len(wire') = Len(wire) + 1
    BY <2>3, <2>4
  <2>6. WireOK'
    BY <2>1, <2>2, <2>3, <2>5 DEF WireOK, Before
  <2> QED BY <2>2, <2>6
<1>2. CASE ~sep.capture
  BY <1>2, WireKept DEF CancelCapture, EnrollInv, Typed
<1> QED BY <1>1, <1>2

-----------------------------------------------------------------------------
(* What a process that is not saving leaves alone. *)

CapturePlaces == {"idle", "dispatch", "start", "START_OBSERVED", "START_REJECTED", "loop", "cancel",
                  "CANCEL_DISPATCH_OBSERVED", "continue", "CONTINUE_OBSERVED", "cleanup",
                  "cleanup_cancel", "report", "reconnect", "witness_readback", "finalize", "plan"}

LEMMA CaptureSides ==
    ASSUME EnrollInv, Baselined(j, j'), j'.stage \notin LocalStages, pc' \in CapturePlaces,
           j.phase # "POST_REBOOT_VERIFIED" \/ j'.phase = j.phase, authority' = authority
    PROVE  SavePhaseInv' /\ SavePlaceInv' /\ LocalInv' /\ PublishInv'
<1>1. SavePhaseInv' /\ SavePlaceInv'
  BY DEF SavePhaseInv, SavePlaceInv, CapturePlaces, SavePCs, PreparedPCs, CommittedPCs
<1>2. LocalInv'
  BY DEF LocalInv, CapturePlaces
<1>3. PublishInv'
  BY DEF EnrollInv, PublishInv, CapturePlaces, PublishPCs, Baselined
<1> QED BY <1>1, <1>2, <1>3

LEMMA IdlePlaces ==
    ASSUME pc' = "idle", wire' = <<>>, ~sep'.capture
    PROVE  WireOK' /\ CapturePlaceInv' /\ SavePhaseInv' /\ SavePlaceInv'
BY DEF WireOK, CapturePlaceInv, SavePhaseInv, SavePlaceInv, SavePCs, PreparedPCs, CommittedPCs

LEMMA StillBaselined == ASSUME EnrollInv, j' = j PROVE Baselined(j, j')
BY DEF EnrollInv, Typed, HistOK, Baselined

\* The process leaves and the journal stays as it is.
LEMMA LeaveInv ==
    ASSUME EnrollInv, Leave, j' = j, store' = store, authority' = authority, RestOK'
    PROVE  EnrollInv'
<1>1. sep' \in Closed(sep) /\ wire' = <<>> /\ pc' = "idle"
  BY DEF Leave, Disconnect
<1>2. sep.capture => j.phase \in CapturePhases
  BY DEF EnrollInv, CapturePlaceInv
<1>3. Typed(sep', store, j) /\ Agree(sep', store, j) /\ ~sep'.capture
  BY <1>1, <1>2, ClosedKeeps DEF EnrollInv
<1>4. LocalInv'
  BY <1>1 DEF EnrollInv, LocalInv
<1>5. PublishInv'
  BY <1>1 DEF EnrollInv, PublishInv, PublishPCs
<1> QED BY <1>1, <1>3, <1>4, <1>5, IdlePlaces DEF EnrollInv

\* The process leaves a capture whose outcome it does not know.
LEMMA UnknownInv ==
    ASSUME EnrollInv, NEW st, Unknown(st), st \notin LocalStages, j.phase \in CapturePhases,
           store' = store, authority' = authority, RestOK'
    PROVE  EnrollInv'
<1>1. CASE j' = j
  BY <1>1, LeaveInv DEF Unknown
<1>2. CASE j' = RecordUnknown(j, st)
  <2>1. sep' \in Closed(sep) /\ wire' = <<>> /\ pc' = "idle"
    BY DEF Unknown, Leave, Disconnect
  <2>2. Typed(sep', store, j) /\ Agree(sep', store, j) /\ ~sep'.capture
    BY <2>1, ClosedKeeps DEF EnrollInv
  <2>3. Typed(sep', store, j') /\ Agree(sep', store, j')
    BY <1>2, <2>2, UnknownKeeps
  <2>4. Baselined(j, j') /\ j'.stage = st
    BY <1>2, UnknownRecorded DEF EnrollInv, Typed, HistOK
  <2>5. LocalInv' /\ PublishInv'
    BY <2>1, <2>4, CaptureSides DEF CapturePlaces, CapturePhases
  <2> QED BY <2>1, <2>2, <2>3, <2>5, IdlePlaces DEF EnrollInv
<1> QED BY <1>1, <1>2 DEF Unknown

\* No local transaction is being recovered while a process captures.
LEMMA NotLocal ==
    ASSUME EnrollInv, pc \notin {"idle", "local"}
    PROVE  j.stage \notin LocalStages
BY DEF EnrollInv, LocalInv

\* A record of the capture that leaves the SEP alone.
LEMMA CaptureRecordInv ==
    ASSUME EnrollInv, NEW p, j' = [j EXCEPT !.phase = p],
           \/ j.phase = "BASELINE" /\ p \in {"ABORTED_BEFORE_START", "START_INTENT"}
           \/ j.phase \in CapturePhases /\ p \in CapturePhases,
           sep' = sep, store' = store, authority' = authority,
           pc \notin {"idle", "local"}, pc' \in CapturePlaces,
           wire' = wire \/ (wire # <<>> /\ wire' = Tail(wire)), CapturePlaceInv', RestOK'
    PROVE  EnrollInv'
<1>1. /\ Baselined(j, j') /\ j'.phase = p /\ j'.identity = j.identity /\ j'.status = j.status
      /\ j'.stage = j.stage /\ j'.tracker = j.tracker /\ j'.added = j.added
  <2>1. DOMAIN j = HistoryFields
    BY JournalFields
  <2>2. j' = [j EXCEPT !.phase = p]
    OBVIOUS
  <2> QED BY ONLY <2>1, <2>2, PhaseRecorded
<1>2. Typed(sep, store, j') /\ Agree(sep, store, j')
  BY <1>1, CaptureKeeps DEF EnrollInv
<1>3. j'.stage \notin LocalStages
  BY <1>1, NotLocal
<1>4. SavePhaseInv' /\ SavePlaceInv' /\ LocalInv' /\ PublishInv'
  BY <1>1, <1>3, CaptureSides DEF CapturePhases
<1>5. WireOK'
  BY <1>1, WireKept, WireTail DEF Baselined
<1> QED BY <1>2, <1>4, <1>5 DEF EnrollInv

-----------------------------------------------------------------------------
(* The start. *)

\* A journal that admits another is in agreement with the SEP and the archive.
LEMMA CompleteAgrees ==
    ASSUME EnrollInv, CompletePhase(j)
    PROVE  /\ sep.dirty = {} /\ ~sep.capture
           /\ authority.published => sep.ids # {}
<1>1. CASE j.phase \in Opened
  <2>1. Before(sep, j) /\ ~sep.capture
    BY <1>1 DEF EnrollInv, Agree, OpenedInv
  <2> QED BY <1>1, <2>1 DEF Before, Opened, EnrollInv, PublishInv, Typed, HistOK
<1>2. CASE FingerKept(j)
  <2>1. /\ sep.dirty = {} /\ ~sep.capture
        /\ sep.ids = j.ids \cup {j.identity} \/ (j.version = 1 /\ sep.ids = j.ids)
    BY <1>2 DEF EnrollInv, Agree, ClosedInv
  <2> QED BY <2>1 DEF EnrollInv, PublishInv
<1>3. CASE j.phase = "RECONCILED" /\ ~j.added
  <2>1. Before(sep, j) /\ ~sep.capture
    BY <1>3 DEF EnrollInv, Agree, ClosedInv
  <2> QED BY <1>3, <2>1 DEF Before, EnrollInv, PublishInv, Typed, HistOK
<1> QED BY <1>1, <1>2, <1>3 DEF CompletePhase, Opened, FingerKept

LEMMA RunEnrollmentInv == ASSUME EnrollInv, RunEnrollment PROVE EnrollInv'
<1>1. /\ DOMAIN j' = HistoryFields /\ j'.phase = "BASELINE" /\ j'.version = Version
      /\ j'.base = store.root /\ j'.ids = sep.ids /\ j'.boot = boot /\ j'.identity = Unset
      /\ j'.status = Unset /\ j'.stage = Unset /\ j'.added \in BOOLEAN
      /\ TrackOK(j'.tracker) /\ Unsaved(j')
  <2>1. j' = NewEnrollment(Version, store.root, sep.ids, boot)
    BY DEF RunEnrollment
  <2> QED BY <2>1, Opening
<1>2. sep.dirty = {} /\ ~sep.capture /\ (authority.published => sep.ids # {})
  BY CompleteAgrees DEF RunEnrollment
<1>3. HistOK(j')
  BY <1>1 DEF HistOK, EnrollPhases, RunEnrollment, EnrollInv, Typed, SepOK, Version
<1>4. OpenedInv(sep, store, j')
  BY <1>1, <1>2 DEF OpenedInv, Before, AtBase, RunEnrollment
<1>5. ~Saving(j') /\ CapturingInv(sep, store, j') /\ ClosedInv(sep, store, j')
  BY <1>1 DEF Saving, CapturingInv, Capturing, CapturePhases, ClosedInv, FingerKept
<1>6. Typed(sep', store', j') /\ Agree(sep', store', j')
  BY <1>3, <1>4, <1>5
     DEF RunEnrollment, EnrollInv, Typed, Agree, FailureInv, SavingInv, FirstBatchInv, SecondBatchInv
<1>7. pc' = "dispatch" /\ starts' = 0 /\ wire' = <<>> /\ sep' = sep
  BY DEF RunEnrollment, EnrollInv, CapturePlaceInv
<1>8. CapturePlaceInv'
  BY <1>1, <1>2, <1>7 DEF CapturePlaceInv
<1>9. SavePhaseInv' /\ SavePlaceInv'
  BY <1>7 DEF SavePhaseInv, SavePlaceInv, SavePCs, PreparedPCs, CommittedPCs
<1>10. LocalInv'
  BY <1>1, <1>7, EnrollmentNames DEF LocalInv
<1>11. authority.published => Version = 1
  BY <1>2 DEF RunEnrollment, Version, HostIds, EmptyRoot, Components
<1>12. PublishInv'
  BY <1>1, <1>2, <1>7, <1>11 DEF RunEnrollment, EnrollInv, PublishInv, PublishPCs
<1>13. RestOK'
  <2>1. EventLimit \in Nat
    BY EnrollmentBounds
  <2>2. /\ ops' = ops + 1 /\ starts' = 0 /\ events' = 0 /\ pc' = "dispatch" /\ saved' = FALSE
        /\ UNCHANGED <<native, authority, boot, failures, saves>>
    BY DEF RunEnrollment
  <2>3. RestOK
    BY DEF EnrollInv
  <2>4. ops' \in Nat /\ starts' \in Nat /\ events' \in 0..EventLimit
    BY ONLY <2>1, <2>2, <2>3 DEF RestOK
  <2>5. native' \in BOOLEAN /\ saved' \in BOOLEAN
    BY ONLY <2>2, <2>3 DEF RestOK
  <2>6. pc' \in PCs
    BY ONLY <2>2 DEF PCs
  <2> QED BY ONLY <2>2, <2>3, <2>4, <2>5, <2>6 DEF RestOK
<1> QED BY <1>6, <1>7, <1>8, <1>9, <1>10, <1>12, <1>13, WireEmpty DEF EnrollInv

LEMMA AbortBeforeStartInv == ASSUME EnrollInv, AbortBeforeStart PROVE EnrollInv'
<1>1. RestOK'
  BY DEF AbortBeforeStart, AppendChecked, Leave, Fails, counters, held, EnrollInv, RestOK, PCs
<1>2. pc = "dispatch" /\ j.phase = "BASELINE" /\ ~sep.capture /\ wire = <<>>
  BY DEF AbortBeforeStart, EnrollInv, CapturePlaceInv, CapturePCs
<1>3. CASE Leave /\ j' = j
  BY <1>1, <1>3, LeaveInv DEF AbortBeforeStart, held
<1>4. CASE /\ j' = RecordCapture(j, "ABORTED_BEFORE_START") /\ pc' = "idle"
           /\ UNCHANGED <<sep, wire>>
  <2>1. CapturePlaceInv'
    BY <1>2, <1>4, IdlePlaces
  <2>2. j' = [j EXCEPT !.phase = "ABORTED_BEFORE_START"]
    BY <1>4 DEF RecordCapture, CapturePhase
  <2> QED BY <1>1, <1>2, <1>4, <2>1, <2>2, CaptureRecordInv
          DEF AbortBeforeStart, held, CapturePlaces
<1> QED BY <1>3, <1>4 DEF AbortBeforeStart, AppendChecked

LEMMA DispatchInv == ASSUME EnrollInv, Dispatch PROVE EnrollInv'
<1>1. RestOK'
  BY DEF Dispatch, AppendChecked, Leave, counters, held, EnrollInv, RestOK, PCs
<1>2. pc = "dispatch" /\ j.phase = "BASELINE" /\ starts = 0 /\ ~sep.capture /\ wire = <<>>
  BY DEF Dispatch, EnrollInv, CapturePlaceInv, CapturePCs
<1>3. CASE Leave /\ j' = j
  BY <1>1, <1>3, LeaveInv DEF Dispatch, held
<1>4. CASE /\ j' = RecordCapture(j, "START_INTENT") /\ pc' = "start"
           /\ UNCHANGED <<sep, wire>>
  <2>1. j' = [j EXCEPT !.phase = "START_INTENT"]
    BY <1>4 DEF RecordCapture, CapturePhase
  <2>2. j'.phase = "START_INTENT" /\ j'.ids = j.ids
    BY <2>1, PhaseRecorded DEF EnrollInv, Typed, HistOK, Baselined
  <2>3. Before(sep, j)
    BY <1>2 DEF EnrollInv, Agree, OpenedInv, Opened
  <2>4. CapturePlaceInv'
    BY <1>2, <1>4, <2>2, <2>3 DEF CapturePlaceInv, Dispatch, counters, Before
  <2> QED BY <1>1, <1>2, <1>4, <2>1, <2>4, CaptureRecordInv DEF Dispatch, held, CapturePlaces
<1> QED BY <1>3, <1>4 DEF Dispatch, AppendChecked

LEMMA SendStartInv == ASSUME EnrollInv, SendStart PROVE EnrollInv'
<1>1. /\ pc = "start" /\ j.phase = "START_INTENT" /\ Before(sep, j) /\ wire = <<>> /\ ~sep.capture
      /\ j' = j /\ store' = store /\ wire' = wire /\ authority' = authority
  BY DEF SendStart, EnrollInv, CapturePlaceInv, CapturePCs, held
<1>2. /\ SepOK(sep') /\ sep'.ids = sep.ids /\ sep'.dirty = sep.dirty
      /\ \/ pc' = "START_OBSERVED"
         \/ pc' = "START_REJECTED" /\ sep' = sep
  BY CaptureSet DEF SendStart, EnrollInv, Typed
<1>3. Typed(sep', store', j') /\ Agree(sep', store', j')
  BY <1>1, <1>2, CaptureSetKeeps DEF EnrollInv, CapturePhases
<1>4. CapturePlaceInv'
  BY <1>1, <1>2 DEF CapturePlaceInv, CapturePCs, CapturePhases, Before
<1>5. SavePhaseInv' /\ SavePlaceInv' /\ LocalInv' /\ PublishInv'
  BY <1>1, <1>2, CaptureSides, NotLocal, StillBaselined DEF CapturePlaces
<1>6. RestOK'
  BY <1>2 DEF SendStart, held, EnrollInv, RestOK, PCs
<1> QED BY <1>1, <1>3, <1>4, <1>5, <1>6, WireEmpty DEF EnrollInv

LEMMA SendStartFailsInv == ASSUME EnrollInv, SendStartFails PROVE EnrollInv'
<1>1. /\ pc = "start" /\ j.phase = "START_INTENT" /\ Before(sep, j) /\ wire' = <<>>
      /\ pc' = "idle" /\ store' = store /\ authority' = authority
  BY DEF SendStartFails, EnrollInv, CapturePlaceInv, held
<1>2. RestOK'
  BY <1>1 DEF SendStartFails, Fails, held, EnrollInv, RestOK, PCs
<1>3. PICK s \in {sep, [sep EXCEPT !.capture = TRUE]} : sep' \in Closed(s)
  BY DEF SendStartFails
<1>4. SepOK(s) /\ s.ids = sep.ids /\ s.dirty = sep.dirty
  BY <1>3, CaptureSet DEF EnrollInv, Typed
<1>5. Typed(s, store, j) /\ Agree(s, store, j)
  BY <1>1, <1>4, CaptureSetKeeps DEF EnrollInv, CapturePhases
<1>6. Typed(sep', store, j) /\ Agree(sep', store, j) /\ ~sep'.capture
  BY <1>1, <1>3, <1>5, ClosedKeeps DEF CapturePhases
<1>7. /\ Typed(sep', store, j') /\ Agree(sep', store, j')
      /\ Baselined(j, j') /\ j'.stage \notin LocalStages
  <2>1. CASE j' = j
    BY <1>1, <1>6, <2>1, NotLocal, StillBaselined
  <2>2. CASE j' = RecordUnknown(j, "start")
    BY <1>1, <1>6, <2>2, UnknownKeeps, UnknownRecorded
       DEF EnrollInv, Typed, HistOK, CapturePhases, LocalStages
  <2> QED BY <2>1, <2>2 DEF SendStartFails
<1>8. LocalInv' /\ PublishInv'
  BY <1>1, <1>7, CaptureSides DEF CapturePlaces
<1> QED BY <1>1, <1>2, <1>6, <1>7, <1>8, IdlePlaces DEF EnrollInv

-----------------------------------------------------------------------------
(* The capture. *)

\* A step of the capture that records nothing and leaves the SEP alone.
LEMMA CaptureStillInv ==
    ASSUME EnrollInv, j' = j, sep' = sep, store' = store, authority' = authority,
           pc \notin {"idle", "local"}, pc' \in CapturePlaces,
           wire' = wire \/ (wire # <<>> /\ wire' = Tail(wire)), CapturePlaceInv', RestOK'
    PROVE  EnrollInv'
<1>1. SavePhaseInv' /\ SavePlaceInv' /\ LocalInv' /\ PublishInv'
  BY CaptureSides, StillBaselined, NotLocal
<1>2. WireOK'
  BY WireKept, WireTail
<1> QED BY <1>1, <1>2 DEF EnrollInv

LEMMA TerminalFailureInv ==
    ASSUME EnrollInv, NEW st \in Statuses, j' = RecordTerminalFailure(j, st), j.phase \in CapturePhases,
           Before(sep, j), ~sep.capture, sep' = sep, store' = store, authority' = authority,
           wire' = wire \/ (wire # <<>> /\ wire' = Tail(wire)),
           pc \notin {"idle", "local"}, pc' = "finalize", RestOK'
    PROVE  EnrollInv'
<1>1. DOMAIN j = HistoryFields
  BY JournalFields
<1>2. j' = RecordTerminalFailure(j, st)
  OBVIOUS
<1>3. /\ Baselined(j, j') /\ j'.phase = "TERMINAL_FAILURE" /\ j'.stage = j.stage
      /\ j'.tracker = j.tracker
  BY ONLY <1>1, <1>2, FailureRecorded
<1>4. Typed(sep, store, j') /\ Agree(sep, store, j')
  BY TerminalFailureKeeps DEF EnrollInv
<1>5. SavePhaseInv' /\ SavePlaceInv' /\ LocalInv' /\ PublishInv'
  BY <1>3, CaptureSides, NotLocal DEF CapturePlaces, CapturePhases
<1>6. WireOK'
  BY <1>3, WireKept, WireTail DEF Baselined
<1>7. Unsaved(j)
  BY DEF EnrollInv, Agree, CapturingInv, Capturing
<1>8. CapturePlaceInv'
  BY <1>3, <1>7 DEF CapturePlaceInv, Unsaved
<1> QED BY <1>4, <1>5, <1>6, <1>8 DEF EnrollInv

\* The identity the capture ended with is recorded.
LEMMA FingerInv ==
    ASSUME EnrollInv, Capturing(j), Baselined(j, j'), j'.phase = "TERMINAL_IDENTITY", HistOK(j'),
           j'.identity \in NewFinger, Unsaved(j'), j'.stage \notin LocalStages,
           sep' = sep, store' = store, authority' = authority,
           wire' = wire \/ (wire # <<>> /\ wire' = Tail(wire)),
           pc' \in {"finalize", "plan"}, RestOK'
    PROVE  EnrollInv'
<1>1. Agree(sep, store, j')
  BY FingerKeeps DEF EnrollInv, NewFinger
<1>2. SavePhaseInv' /\ SavePlaceInv' /\ LocalInv' /\ PublishInv'
  BY CaptureSides DEF CapturePlaces, Capturing, CapturePhases
<1>3. WireOK'
  BY WireKept, WireTail DEF Baselined
<1>4. ~sep.capture
  BY DEF NewFinger, EnrollInv, Agree, CapturingInv, Found, Before
<1>5. CapturePlaceInv'
  BY <1>4 DEF CapturePlaceInv
<1> QED BY <1>1, <1>2, <1>3, <1>5 DEF EnrollInv, Typed

LEMMA StartRejectedInv == ASSUME EnrollInv, StartRejected PROVE EnrollInv'
<1>1. RestOK'
  BY DEF StartRejected, AppendChecked, Leave, counters, held, EnrollInv, RestOK, PCs
<1>2. pc = "START_REJECTED" /\ j.phase = "START_INTENT" /\ Before(sep, j) /\ ~sep.capture
  BY DEF StartRejected, EnrollInv, CapturePlaceInv, CapturePCs
<1>3. CASE Leave /\ j' = j
  BY <1>1, <1>3, LeaveInv DEF StartRejected, held
<1>4. CASE /\ j' = RecordTerminalFailure(j, "rejected") /\ pc' = "finalize"
           /\ UNCHANGED <<sep, wire>>
  BY <1>1, <1>2, <1>4, TerminalFailureInv DEF StartRejected, held, Statuses, CapturePhases
<1> QED BY <1>3, <1>4 DEF StartRejected, AppendChecked

\* The records that answer a command.
LEMMA AnswerInv ==
    ASSUME EnrollInv, StartObserved \/ CancelObserved \/ ContinueObserved
    PROVE  EnrollInv'
<1>1. RestOK'
  BY DEF StartObserved, CancelObserved, ContinueObserved, AppendChecked, Leave, counters, held,
         EnrollInv, RestOK, PCs
<1>2. /\ pc \in {"START_OBSERVED", "CANCEL_DISPATCH_OBSERVED", "CONTINUE_OBSERVED"}
      /\ j.phase \in CapturePhases
      /\ AppendChecked(LegalCapture(j, pc), RecordCapture(j, pc), "loop")
      /\ store' = store /\ authority' = authority
  BY DEF StartObserved, CancelObserved, ContinueObserved, EnrollInv, CapturePlaceInv, CapturePhases,
         held
<1>3. CASE Leave /\ j' = j
  BY <1>1, <1>2, <1>3, LeaveInv
<1>4. CASE j' = RecordCapture(j, pc) /\ pc' = "loop" /\ UNCHANGED <<sep, wire>>
  <2> DEFINE p == CapturePhase(pc)
  <2>1. p \in {"ACTIVE", "CANCEL_REQUESTED"} /\ j' = [j EXCEPT !.phase = p]
    BY <1>2, <1>4 DEF RecordCapture, CapturePhase
  <2> HIDE DEF p
  <2>2. DOMAIN j = HistoryFields
    BY JournalFields
  <2>3. j'.phase = p
    BY ONLY <2>1, <2>2, PhaseRecorded
  <2>4. CapturePlaceInv'
    BY <1>4, <2>1, <2>3 DEF CapturePlaceInv, CapturePCs, CapturePhases
  <2> QED BY <1>1, <1>2, <1>4, <2>1, <2>4, CaptureRecordInv DEF CapturePlaces, CapturePhases
<1> QED BY <1>2, <1>3, <1>4 DEF AppendChecked

LEMMA SensorReportsInv == ASSUME EnrollInv, SensorReports PROVE EnrollInv'
<1>1. /\ Before(sep, j) /\ j.phase \in CapturePhases /\ pc \in CapturePCs /\ wire = <<>>
      /\ j' = j /\ store' = store /\ authority' = authority /\ pc' = pc /\ stage' = stage
      /\ starts' = starts
  BY CaptureBefore DEF SensorReports, EnrollInv, CapturePlaceInv, held, counters
<1>2. RestOK'
  BY DEF SensorReports, counters, held, EnrollInv, RestOK
<1>3. ASSUME NEW e \in Reports, wire' = <<e>>, e \in Failures => ~sep'.capture /\ Before(sep', j),
             Typed(sep', store, j), Agree(sep', store, j)
      PROVE  EnrollInv'
  <2>1. wire' \in Seq(Reports) /\ Len(wire') = 1 /\ wire'[1] = e
    BY <1>3
  <2>2. WireOK'
    BY <1>1, <1>3, <2>1 DEF WireOK, Before
  <2>3. CapturePlaceInv'
    BY <1>1 DEF EnrollInv, CapturePlaceInv, CapturePCs
  <2>4. SavePhaseInv' /\ SavePlaceInv' /\ LocalInv' /\ PublishInv'
    BY <1>1, CaptureSides, NotLocal, StillBaselined DEF CapturePlaces, CapturePCs
  <2> QED BY <1>1, <1>2, <1>3, <2>2, <2>3, <2>4 DEF EnrollInv
<1>4. ASSUME NEW e \in {"progress", "feedback", "witness", "bad"}, wire' = <<e>>, sep' = sep
      PROVE  EnrollInv'
  <2>1. e \in Reports /\ e \notin Failures
    BY <1>4 DEF Reports, Failures
  <2> QED BY <1>3, <1>4, <2>1 DEF EnrollInv
<1>5. ASSUME NEW id \in Ids \ sep.ids, wire' = <<"identity">>, sep' = WithFinger(sep, id)
      PROVE  EnrollInv'
  <2>1. Typed(sep', store, j) /\ Agree(sep', store, j)
    BY <1>1, <1>5, WithFingerKeeps DEF EnrollInv
  <2>2. "identity" \in Reports /\ "identity" \notin Failures
    BY DEF Reports, Failures
  <2> QED BY <1>3, <1>5, <2>1, <2>2
<1>6. ASSUME NEW e \in {"failed", "timed-out"}, wire' = <<e>>, sep' = [sep EXCEPT !.capture = FALSE]
      PROVE  EnrollInv'
  <2>1. SepOK(sep') /\ sep'.ids = sep.ids /\ sep'.dirty = sep.dirty /\ ~sep'.capture
    BY <1>6, CaptureSet DEF EnrollInv, Typed
  <2>2. Typed(sep', store, j) /\ Agree(sep', store, j)
    BY <1>1, <2>1, CaptureSetKeeps DEF EnrollInv
  <2>3. e \in Reports /\ Before(sep', j)
    BY <1>1, <1>6, <2>1 DEF Reports, Failures, Before
  <2> QED BY <1>3, <1>6, <2>1, <2>2, <2>3
<1> QED BY <1>4, <1>5, <1>6 DEF SensorReports

LEMMA RequestCancelInv == ASSUME EnrollInv, RequestCancel PROVE EnrollInv'
<1>1. RestOK'
  BY DEF RequestCancel, AppendChecked, Leave, counters, held, EnrollInv, RestOK, PCs
<1>2. pc = "loop" /\ j.phase = "ACTIVE"
  BY DEF RequestCancel
<1>3. CASE Leave /\ j' = j
  BY <1>1, <1>3, LeaveInv DEF RequestCancel, held
<1>4. CASE j' = RecordCapture(j, "CANCEL_INTENT") /\ pc' = "cancel" /\ UNCHANGED <<sep, wire>>
  <2>1. j' = [j EXCEPT !.phase = "CANCEL_INTENT"]
    BY <1>4 DEF RecordCapture, CapturePhase
  <2>2. DOMAIN j = HistoryFields
    BY JournalFields
  <2>3. j'.phase = "CANCEL_INTENT"
    BY ONLY <2>1, <2>2, PhaseRecorded
  <2>4. CapturePlaceInv'
    BY <1>4, <2>3 DEF CapturePlaceInv, CapturePCs, CapturePhases
  <2> QED BY <1>1, <1>2, <1>4, <2>1, <2>4, CaptureRecordInv
          DEF RequestCancel, held, CapturePlaces, CapturePhases
<1> QED BY <1>3, <1>4 DEF RequestCancel, AppendChecked

LEMMA CancelKeeps ==
    ASSUME EnrollInv, CancelCapture, j'.ids = j.ids
    PROVE  Typed(sep', store, j) /\ Agree(sep', store, j)
<1>1. CASE sep.capture
  BY <1>1, CaptureBefore, CaptureSetKeeps, CancelOnWire DEF EnrollInv
<1>2. CASE ~sep.capture
  BY <1>2 DEF CancelCapture, EnrollInv
<1> QED BY <1>1, <1>2

LEMMA SendCancelInv == ASSUME EnrollInv, SendCancel PROVE EnrollInv'
<1>1. RestOK'
  BY DEF SendCancel, counters, held, EnrollInv, RestOK, PCs
<1>2. /\ pc = "cancel" /\ pc' = "CANCEL_DISPATCH_OBSERVED" /\ j' = j /\ CancelCapture
      /\ store' = store /\ authority' = authority
      /\ j.phase = "CANCEL_INTENT"
  BY DEF SendCancel, held, EnrollInv, CapturePlaceInv
<1>3. WireOK' /\ Typed(sep', store, j) /\ Agree(sep', store, j)
  BY <1>2, CancelKeeps, CancelOnWire
<1>4. CapturePlaceInv'
  BY <1>2 DEF CapturePlaceInv, CapturePCs, CapturePhases
<1>5. SavePhaseInv' /\ SavePlaceInv' /\ LocalInv' /\ PublishInv'
  BY <1>2, CaptureSides, NotLocal, StillBaselined DEF CapturePlaces
<1> QED BY <1>1, <1>2, <1>3, <1>4, <1>5 DEF EnrollInv

\* The steps that end with an unknown outcome, without a cleanup cancel.
LEMMA CaptureUnknownInv ==
    ASSUME EnrollInv,
           SendCancelFails \/ ConnectionLost \/ SendContinueFails \/ ReconnectFails \/ ReportUnknown
    PROVE  EnrollInv'
<1>1. RestOK'
  BY DEF SendCancelFails, ConnectionLost, SendContinueFails, ReconnectFails, ReportUnknown, Unknown,
         Leave, Fails, counters, held, EnrollInv, RestOK, PCs
<1>2. store' = store /\ authority' = authority
  BY DEF SendCancelFails, ConnectionLost, SendContinueFails, ReconnectFails, ReportUnknown, held
<1>3. j.phase \in CapturePhases
  BY DEF SendCancelFails, ConnectionLost, SendContinueFails, ReconnectFails, ReportUnknown,
         EnrollInv, CapturePlaceInv, CapturePhases
<1>4. \E st \in {"cancel", "active", "continue", "terminal"} : Unknown(st)
  BY DEF SendCancelFails, ConnectionLost, SendContinueFails, ReconnectFails, ReportUnknown,
         EnrollInv, CapturePlaceInv
<1>5. \A st \in {"cancel", "active", "continue", "terminal"} : st \notin LocalStages
  BY DEF LocalStages
<1> QED BY <1>1, <1>2, <1>3, <1>4, <1>5, UnknownInv

\* ... and those that may cancel first.
LEMMA ProtocolErrorInv ==
    ASSUME EnrollInv, CallbackFails \/ EventLimitReached
    PROVE  EnrollInv'
<1>1. RestOK'
  BY DEF CallbackFails, EventLimitReached, ProtocolError, Unknown, Leave, Fails, counters, held,
         EnrollInv, RestOK, PCs
<1>2. /\ pc = "loop" /\ ProtocolError("active") /\ store' = store /\ authority' = authority
      /\ j.phase \in {"ACTIVE", "CANCEL_REQUESTED"}
  BY DEF CallbackFails, EventLimitReached, held, EnrollInv, CapturePlaceInv
<1>3. CASE j.phase = "ACTIVE"
  <2>1. /\ stage' = "active" /\ pc' = "cleanup" /\ UNCHANGED <<sep, wire, j>>
    BY <1>2, <1>3 DEF ProtocolError
  <2>2. CapturePlaceInv'
    BY <1>3, <2>1 DEF CapturePlaceInv, CapturePCs, CapturePhases
  <2> QED BY <1>1, <1>2, <2>1, <2>2, CaptureStillInv DEF CapturePlaces
<1>4. CASE j.phase # "ACTIVE"
  BY <1>1, <1>2, <1>4, UnknownInv DEF ProtocolError, LocalStages, CapturePhases
<1> QED BY <1>3, <1>4

-----------------------------------------------------------------------------
(* An event is taken. *)

LEMMA TookRest ==
    ASSUME EnrollInv, events < EventLimit, Took, pc' \in PCs
    PROVE  RestOK' /\ store' = store /\ authority' = authority /\ starts' = starts
<1>1. EventLimit \in Nat
  BY EnrollmentBounds
<1> QED BY <1>1 DEF Took, held, EnrollInv, RestOK

LEMMA TakeBadInv == ASSUME EnrollInv, TakeBad PROVE EnrollInv'
<1>1. /\ pc = "loop" /\ events < EventLimit /\ wire # <<>> /\ Took
      /\ j.phase \in {"ACTIVE", "CANCEL_REQUESTED"}
  BY DEF TakeBad, EnrollInv, CapturePlaceInv
<1>2. CASE stage' = "terminal" /\ pc' = "cleanup" /\ wire' = Tail(wire) /\ UNCHANGED <<sep, j>>
           /\ j.phase = "ACTIVE"
  <2>1. RestOK' /\ store' = store /\ authority' = authority
    BY <1>1, <1>2, TookRest DEF PCs
  <2>2. CapturePlaceInv'
    BY <1>2 DEF CapturePlaceInv, CapturePCs, CapturePhases
  <2> QED BY <1>1, <1>2, <2>1, <2>2, CaptureStillInv DEF CapturePlaces
<1>3. CASE Unknown("terminal")
  <2>1. RestOK' /\ store' = store /\ authority' = authority
    BY <1>1, <1>3, TookRest DEF PCs, Unknown, Leave
  <2> QED BY <1>1, <1>3, <2>1, UnknownInv DEF LocalStages, CapturePhases
<1> QED BY <1>2, <1>3 DEF TakeBad

LEMMA TakeFeedbackInv == ASSUME EnrollInv, TakeFeedback PROVE EnrollInv'
<1>1. /\ pc = "loop" /\ events < EventLimit /\ wire # <<>> /\ Took /\ j.phase = "ACTIVE"
      /\ wire' = Tail(wire) /\ UNCHANGED <<sep, j, pc, stage>>
  BY DEF TakeFeedback, Takes
<1>2. RestOK' /\ store' = store /\ authority' = authority
  BY <1>1, TookRest DEF PCs
<1>3. CapturePlaceInv'
  BY <1>1 DEF CapturePlaceInv, CapturePCs, CapturePhases
<1> QED BY <1>1, <1>2, <1>3, CaptureStillInv DEF CapturePlaces

LEMMA TakeProgressInv == ASSUME EnrollInv, TakeProgress PROVE EnrollInv'
<1>1. /\ pc = "loop" /\ events < EventLimit /\ wire # <<>> /\ Took /\ j.phase = "ACTIVE"
      /\ wire' = Tail(wire) /\ UNCHANGED <<sep, stage>>
  BY DEF TakeProgress, Takes
<1>2. CASE UNCHANGED <<j, pc>>
  <2>1. RestOK' /\ store' = store /\ authority' = authority
    BY <1>1, <1>2, TookRest DEF PCs
  <2>2. CapturePlaceInv'
    BY <1>1, <1>2 DEF CapturePlaceInv, CapturePCs, CapturePhases
  <2> QED BY <1>1, <1>2, <2>1, <2>2, CaptureStillInv DEF CapturePlaces
<1>3. CASE j' = RecordCapture(j, "CONTINUE_INTENT") /\ pc' = "continue"
  <2>1. j' = [j EXCEPT !.phase = "CONTINUE_INTENT"]
    BY <1>3 DEF RecordCapture, CapturePhase
  <2>2. DOMAIN j = HistoryFields
    BY JournalFields
  <2>3. j'.phase = "CONTINUE_INTENT"
    BY ONLY <2>1, <2>2, PhaseRecorded
  <2>4. CapturePlaceInv'
    BY <1>3, <2>3 DEF CapturePlaceInv, CapturePCs, CapturePhases
  <2>5. RestOK' /\ store' = store /\ authority' = authority
    BY <1>1, <1>3, TookRest DEF PCs
  <2> QED BY <1>1, <1>3, <2>1, <2>4, <2>5, CaptureRecordInv DEF CapturePlaces, CapturePhases
<1> QED BY <1>2, <1>3 DEF TakeProgress

LEMMA SendContinueInv == ASSUME EnrollInv, SendContinue PROVE EnrollInv'
<1>1. /\ pc = "continue" /\ pc' = "CONTINUE_OBSERVED" /\ UNCHANGED <<sep, wire, store, j, stage>>
      /\ authority' = authority
  BY DEF SendContinue, held
<1>2. RestOK'
  BY DEF SendContinue, counters, held, EnrollInv, RestOK, PCs
<1>3. CapturePlaceInv'
  BY <1>1 DEF EnrollInv, CapturePlaceInv, CapturePCs, CapturePhases
<1> QED BY <1>1, <1>2, <1>3, CaptureStillInv DEF CapturePlaces

LEMMA TakeIdentityInv == ASSUME EnrollInv, TakeIdentity PROVE EnrollInv'
<1>1. /\ pc = "loop" /\ events < EventLimit /\ wire # <<>> /\ Took
      /\ wire' = Tail(wire) /\ pc' = "finalize" /\ sep' = sep
      /\ j.phase \in {"ACTIVE", "CANCEL_REQUESTED"}
  BY DEF TakeIdentity, Takes, EnrollInv, CapturePlaceInv
<1>2. RestOK' /\ store' = store /\ authority' = authority
  BY <1>1, TookRest DEF PCs
<1>3. PICK id \in NewFinger : j' = RecordTerminalIdentity(j, id)
  BY DEF TakeIdentity
<1>4. DOMAIN j = HistoryFields
  BY JournalFields
<1>5. /\ Baselined(j, j') /\ j'.phase = "TERMINAL_IDENTITY" /\ j'.identity = id
      /\ j'.status = j.status /\ j'.stage = j.stage /\ j'.tracker = j.tracker /\ j'.added = j.added
  BY ONLY <1>3, <1>4, IdentityRecorded
<1>6. id \in Ids
  BY DEF NewFinger, EnrollInv, Typed, SepOK
<1>7. HistOK(j')
  BY <1>5, <1>6, HistKept DEF EnrollInv, Typed, HistOK, EnrollPhases
<1>8. Capturing(j)
  BY <1>1 DEF Capturing, CapturePhases
<1>9. Unsaved(j')
  BY <1>5, <1>8 DEF EnrollInv, Agree, CapturingInv, Unsaved
<1>10. j'.stage \notin LocalStages
  BY <1>1, <1>5, NotLocal
<1> QED BY <1>1, <1>2, <1>5, <1>7, <1>8, <1>9, <1>10, FingerInv

LEMMA TakeWitnessInv == ASSUME EnrollInv, TakeWitness PROVE EnrollInv'
<1>1. /\ pc = "loop" /\ events < EventLimit /\ wire # <<>> /\ Took
      /\ wire' = Tail(wire) /\ pc' = "reconnect" /\ sep' = sep
      /\ j' = RecordCapture(j, "TERMINAL_WITNESS")
      /\ j.phase \in {"ACTIVE", "CANCEL_REQUESTED"}
  BY DEF TakeWitness, Takes, EnrollInv, CapturePlaceInv
<1>2. RestOK' /\ store' = store /\ authority' = authority
  BY <1>1, TookRest DEF PCs
<1>3. j' = [j EXCEPT !.phase = "TERMINAL_WITNESS"]
  BY <1>1 DEF RecordCapture, CapturePhase
<1>4. DOMAIN j = HistoryFields
  BY JournalFields
<1>5. j'.phase = "TERMINAL_WITNESS"
  BY ONLY <1>3, <1>4, PhaseRecorded
<1>6. CapturePlaceInv'
  BY <1>1, <1>5 DEF CapturePlaceInv, CapturePCs, CapturePhases
<1> QED BY <1>1, <1>2, <1>3, <1>6, CaptureRecordInv DEF CapturePlaces, CapturePhases

LEMMA TakeFailureInv == ASSUME EnrollInv, TakeFailure PROVE EnrollInv'
<1>1. /\ pc = "loop" /\ events < EventLimit /\ wire # <<>> /\ Took
      /\ wire' = Tail(wire) /\ pc' = "finalize" /\ sep' = sep
      /\ j.phase \in {"ACTIVE", "CANCEL_REQUESTED"}
  BY DEF TakeFailure, Takes, EnrollInv, CapturePlaceInv
<1>2. RestOK' /\ store' = store /\ authority' = authority
  BY <1>1, TookRest DEF PCs
<1>3. PICK e \in Failures : Head(wire) = e /\ j' = RecordTerminalFailure(j, e)
  BY DEF TakeFailure, Takes, Failures
<1>4. wire \in Seq(Reports) /\ Len(wire) \in Nat
  BY DEF EnrollInv, WireOK
<1>5. wire[1] = e /\ 1 \in 1..Len(wire)
  BY <1>1, <1>3, <1>4
<1>6. ~sep.capture /\ Before(sep, j)
  BY <1>3, <1>5 DEF EnrollInv, WireOK
<1>7. e \in Statuses
  BY <1>3 DEF Failures, Statuses
<1> QED BY <1>1, <1>2, <1>3, <1>6, <1>7, TerminalFailureInv DEF CapturePhases

-----------------------------------------------------------------------------
(* The cancel that precedes the report of a failure. *)

LEMMA CleanupInv == ASSUME EnrollInv, Cleanup PROVE EnrollInv'
<1>1. /\ pc = "cleanup" /\ pc' = "cleanup_cancel" /\ UNCHANGED <<sep, wire, store, stage>>
      /\ authority' = authority /\ j.phase = "ACTIVE" /\ stage \in {"active", "terminal"}
      /\ j' = RecordCapture(j, "CANCEL_INTENT")
  BY DEF Cleanup, held, EnrollInv, CapturePlaceInv
<1>2. RestOK'
  BY DEF Cleanup, counters, held, EnrollInv, RestOK, PCs
<1>3. j' = [j EXCEPT !.phase = "CANCEL_INTENT"]
  BY <1>1 DEF RecordCapture, CapturePhase
<1>4. DOMAIN j = HistoryFields
  BY JournalFields
<1>5. j'.phase = "CANCEL_INTENT"
  BY ONLY <1>3, <1>4, PhaseRecorded
<1>6. CapturePlaceInv'
  BY <1>1, <1>5 DEF CapturePlaceInv, CapturePCs, CapturePhases
<1> QED BY <1>1, <1>2, <1>3, <1>6, CaptureRecordInv DEF CapturePlaces, CapturePhases

LEMMA CleanupCancelInv == ASSUME EnrollInv, CleanupCancel PROVE EnrollInv'
<1>1. /\ pc = "cleanup_cancel" /\ pc' = "report" /\ CancelCapture /\ UNCHANGED <<store, stage>>
      /\ authority' = authority /\ j.phase = "CANCEL_INTENT" /\ stage \in {"active", "terminal"}
      /\ j' = RecordCapture(j, "CANCEL_DISPATCH_OBSERVED")
  BY DEF CleanupCancel, held, EnrollInv, CapturePlaceInv
<1>2. RestOK'
  BY DEF CleanupCancel, counters, held, EnrollInv, RestOK, PCs
<1>3. j' = [j EXCEPT !.phase = "CANCEL_REQUESTED"]
  BY <1>1 DEF RecordCapture, CapturePhase
<1>4. DOMAIN j = HistoryFields
  BY JournalFields
<1>5. /\ Baselined(j, j') /\ j'.phase = "CANCEL_REQUESTED" /\ j'.identity = j.identity
      /\ j'.status = j.status /\ j'.stage = j.stage /\ j'.tracker = j.tracker /\ j'.added = j.added
  BY ONLY <1>3, <1>4, PhaseRecorded
<1>6. WireOK' /\ Typed(sep', store, j) /\ Agree(sep', store, j)
  BY <1>1, <1>5, CancelKeeps, CancelOnWire DEF Baselined
<1>7. Typed(sep', store, j') /\ Agree(sep', store, j')
  BY <1>1, <1>5, <1>6, CaptureKeeps DEF CapturePhases
<1>8. CapturePlaceInv'
  BY <1>1, <1>5 DEF CapturePlaceInv, CapturePCs, CapturePhases
<1>9. SavePhaseInv' /\ SavePlaceInv' /\ LocalInv' /\ PublishInv'
  BY <1>1, <1>5, CaptureSides, NotLocal DEF CapturePlaces
<1> QED BY <1>1, <1>2, <1>6, <1>7, <1>8, <1>9 DEF EnrollInv

LEMMA CleanupCancelFailsInv == ASSUME EnrollInv, CleanupCancelFails PROVE EnrollInv'
<1>1. /\ pc = "cleanup_cancel" /\ pc' = "report" /\ UNCHANGED <<store, stage, j>>
      /\ authority' = authority /\ j.phase = "CANCEL_INTENT" /\ stage \in {"active", "terminal"}
  BY DEF CleanupCancelFails, held, EnrollInv, CapturePlaceInv
<1>2. RestOK'
  BY DEF CleanupCancelFails, Fails, counters, held, EnrollInv, RestOK, PCs
<1>3. CapturePlaceInv'
  BY <1>1 DEF CapturePlaceInv, CapturePCs, CapturePhases
<1>4. SavePhaseInv' /\ SavePlaceInv' /\ LocalInv' /\ PublishInv'
  BY <1>1, CaptureSides, NotLocal, StillBaselined DEF CapturePlaces
<1>5. CASE CancelCapture
  <2>1. WireOK' /\ Typed(sep', store, j) /\ Agree(sep', store, j)
    BY <1>1, <1>5, CancelKeeps, CancelOnWire
  <2> QED BY <1>1, <1>2, <1>3, <1>4, <2>1 DEF EnrollInv
<1>6. CASE UNCHANGED <<sep, wire>>
  BY <1>1, <1>2, <1>3, <1>6, CaptureStillInv DEF CapturePlaces
<1> QED BY <1>5, <1>6 DEF CleanupCancelFails

-----------------------------------------------------------------------------
(* A witnessed result, read back on a fresh connection, and the adoption of a finger. *)

LEMMA ReconnectInv == ASSUME EnrollInv, Reconnect PROVE EnrollInv'
<1>1. /\ pc = "reconnect" /\ pc' = "witness_readback" /\ UNCHANGED <<store, j, stage>>
      /\ authority' = authority /\ j.phase = "TERMINAL_WITNESS"
      /\ sep' \in Closed(sep) /\ wire' = <<>>
  BY DEF Reconnect, Disconnect, held, EnrollInv, CapturePlaceInv
<1>2. RestOK'
  BY DEF Reconnect, counters, held, EnrollInv, RestOK, PCs
<1>3. Typed(sep', store, j) /\ Agree(sep', store, j) /\ ~sep'.capture
  BY <1>1, ClosedKeeps DEF EnrollInv, CapturePhases
<1>4. CapturePlaceInv'
  BY <1>1, <1>3 DEF CapturePlaceInv
<1>5. SavePhaseInv' /\ SavePlaceInv' /\ LocalInv' /\ PublishInv'
  BY <1>1, CaptureSides, NotLocal, StillBaselined DEF CapturePlaces
<1> QED BY <1>1, <1>2, <1>3, <1>4, <1>5, WireEmpty DEF EnrollInv

\* The finger that a readback or a recovery adopts.
LEMMA AdoptedInv ==
    ASSUME EnrollInv, OneFingerAdded, Capturing(j), j.stage \notin LocalStages,
           j' = RecordReadback(j, CHOOSE id \in NewFinger : TRUE),
           sep' = sep, wire' = wire, store' = store, authority' = authority, pc' = "plan", RestOK'
    PROVE  EnrollInv'
<1> DEFINE id == CHOOSE x \in NewFinger : TRUE
<1>1. NewFinger # {}
  BY FS_EmptySet DEF OneFingerAdded
<1>2. id \in NewFinger
  BY <1>1
<1>3. j' = RecordReadback(j, id)
  OBVIOUS
<1> HIDE DEF id
<1>4. DOMAIN j = HistoryFields /\ DOMAIN j.tracker = TrackerFields /\ TrackOK(j.tracker)
  BY JournalFields
<1>5. /\ Baselined(j, j') /\ j'.phase = "TERMINAL_IDENTITY" /\ j'.identity = id
      /\ j'.status = j.status /\ j'.stage = j.stage /\ j'.added = j.added
      /\ DOMAIN j'.tracker = TrackerFields /\ j'.tracker.kind = j.tracker.kind
      /\ j'.tracker.phase = j.tracker.phase /\ j'.tracker.batches = j.tracker.batches
      /\ j'.tracker.batch = j.tracker.batch /\ j'.tracker.comp = j.tracker.comp
      /\ j'.tracker.staged = j.tracker.staged /\ j'.tracker.stage = j.tracker.stage
  BY ONLY <1>3, <1>4, ReadbackRecorded
<1>6. TrackOK(j'.tracker)
  BY <1>4, <1>5 DEF TrackOK
<1>7. id \in Ids
  BY <1>2 DEF NewFinger, EnrollInv, Typed, SepOK
<1>8. HistOK(j')
  BY <1>5, <1>6, <1>7 DEF EnrollInv, Typed, HistOK, EnrollPhases, Baselined
<1>9. Unsaved(j')
  BY <1>5 DEF EnrollInv, Agree, CapturingInv, Unsaved
<1> QED BY <1>2, <1>5, <1>8, <1>9, FingerInv

LEMMA WitnessReadbackInv == ASSUME EnrollInv, WitnessReadback PROVE EnrollInv'
<1>1. /\ pc = "witness_readback" /\ j.phase = "TERMINAL_WITNESS" /\ store' = store
      /\ authority' = authority
  BY DEF WitnessReadback, held, EnrollInv, CapturePlaceInv
<1>2. RestOK'
  BY DEF WitnessReadback, AppendChecked, Unknown, Leave, counters, held, EnrollInv, RestOK, PCs
<1>3. CASE Unknown("terminal")
  BY <1>1, <1>2, <1>3, UnknownInv DEF LocalStages, CapturePhases
<1>4. CASE OneFingerAdded /\ Leave /\ j' = j
  BY <1>1, <1>2, <1>4, LeaveInv
<1>5. CASE /\ OneFingerAdded /\ j' = RecordReadback(j, CHOOSE id \in NewFinger : TRUE)
           /\ pc' = "plan" /\ UNCHANGED <<sep, wire>>
  BY <1>1, <1>2, <1>5, AdoptedInv, NotLocal DEF Capturing, CapturePhases
<1> QED BY <1>3, <1>4, <1>5 DEF WitnessReadback, AppendChecked

LEMMA RecoverIdentityInv == ASSUME EnrollInv, RecoverIdentity PROVE EnrollInv'
<1>1. RestOK'
  BY DEF RecoverIdentity, counters, held, EnrollInv, RestOK, PCs
<1>2. Capturing(j) /\ j.stage \notin LocalStages
  BY DEF RecoverIdentity, SelectsIdentity, LegalIdentityRecovery, Capturing, Unsaved, LocalStages
<1> QED BY <1>1, <1>2, AdoptedInv DEF RecoverIdentity, held

-----------------------------------------------------------------------------
(* At a place of a save. *)

LEMMA AtSave ==
    ASSUME EnrollInv, pc \in SavePCs
    PROVE  /\ Saving(j) /\ ~Unsaved(j) /\ ~sep.capture /\ j.stage \notin LocalStages
           /\ j.identity # Unset => j.tracker.batches = FullPlan
           /\ j.identity = Unset => j.tracker.batches = FailurePlan /\ Failed(j)
           /\ pc \notin {"idle", "local"} /\ j.phase # "POST_REBOOT_VERIFIED"
<1>1. j.phase \in {"TERMINAL_IDENTITY", "PERSISTING", "PERSISTENCE_READY"}
  BY DEF EnrollInv, SavePhaseInv
<1>2. Saving(j)
  BY <1>1 DEF Saving
<1>3. j.tracker.phase # "NOT_STARTED"
  BY DEF EnrollInv, SavePhaseInv, SavePCs, PreparedPCs, CommittedPCs
<1>4. j.tracker.batches = FullPlan \/ j.tracker.batches = FailurePlan
  BY <1>3, Planned DEF EnrollInv, Typed, HistOK
<1>5. /\ j.identity # Unset => j.tracker.batches # FailurePlan /\ ~sep.capture
      /\ j.identity = Unset => j.tracker.batches # FullPlan /\ j.status # Unset /\ ~sep.capture
  BY <1>2 DEF EnrollInv, Agree, SavingInv, FailureInv, Added
<1>6. pc \notin {"idle", "local"}
  BY DEF SavePCs, PreparedPCs, CommittedPCs
<1> QED BY <1>1, <1>2, <1>3, <1>4, <1>5, <1>6, NotLocal DEF Unsaved, Failed

\* From one place of a save to the next.
LEMMA SaveSides ==
    ASSUME EnrollInv, Baselined(j, j'), j'.stage \notin LocalStages, pc' \in SavePCs, ~sep'.capture,
           j.phase # "POST_REBOOT_VERIFIED", authority' = authority
    PROVE  CapturePlaceInv' /\ LocalInv' /\ PublishInv'
<1>1. CapturePlaceInv'
  BY DEF CapturePlaceInv, SavePCs, PreparedPCs, CommittedPCs
<1>2. LocalInv'
  BY DEF LocalInv, SavePCs, PreparedPCs, CommittedPCs
<1>3. PublishInv'
  BY DEF EnrollInv, PublishInv, SavePCs, PreparedPCs, CommittedPCs, PublishPCs, Baselined
<1> QED BY <1>1, <1>2, <1>3

\* Where no capture runs, closing the connection leaves the fingers alone.
LEMMA ClosedQuiet ==
    ASSUME NEW s, SepOK(s), ~s.capture, NEW z \in Closed(s)
    PROVE  SepOK(z) /\ ~z.capture /\ z.ids = s.ids /\ z.dirty = s.dirty /\ z.uuid = s.uuid
BY ClosedOutcome

\* Nothing but the components to save changes of the SEP.
LEMMA DirtyKeeps ==
    ASSUME NEW s, NEW a, NEW h, Typed(s, a, h), Agree(s, a, h), Saving(h),
           NEW z, SepOK(z), z.ids = s.ids, z.dirty \subseteq s.dirty, ~z.capture
    PROVE  Typed(z, a, h) /\ Agree(z, a, h)
<1>1. OpenedInv(z, a, h) /\ CapturingInv(z, a, h) /\ ClosedInv(z, a, h)
  BY DEF Saving, Unsaved, OpenedInv, Opened, CapturingInv, Capturing, CapturePhases, ClosedInv, FingerKept
<1>2. FailureInv(z, a, h) /\ SavingInv(z, a, h)
  BY DEF Agree, FailureInv, SavingInv, Before, Added
<1>3. FirstBatchInv(z, a, h) /\ SecondBatchInv(z, a, h)
  BY DEF Agree, FirstBatchInv, SecondBatchInv
<1> QED BY <1>1, <1>2, <1>3 DEF Typed, Agree

-----------------------------------------------------------------------------
(* Reconciled records. *)

LEMMA UnchangedKeeps ==
    ASSUME NEW s, NEW a, NEW h, Typed(s, a, h), h.identity = Unset, Before(s, h), ~s.capture,
           IdentityAtBase(a, h), a.txn = "none", NEW snapshot
    PROVE  /\ Typed(s, a, RecordReconciled(h, FALSE, snapshot))
           /\ Agree(s, a, RecordReconciled(h, FALSE, snapshot))
<1> DEFINE g == RecordReconciled(h, FALSE, snapshot)
<1>0. DOMAIN h = HistoryFields
  BY DEF Typed, HistOK
<1>1. /\ Baselined(h, g) /\ g.phase = "RECONCILED" /\ g.identity = h.identity
      /\ g.status = h.status /\ g.stage = h.stage /\ g.tracker = h.tracker
  BY ONLY <1>0 DEF RecordReconciled, HistoryFields, Baselined
<1>2. g.added \in BOOLEAN /\ ~g.added
  BY ONLY <1>0 DEF RecordReconciled, HistoryFields
<1> HIDE DEF g
<1>3. HistOK(g)
  BY <1>1, <1>2, HistKept DEF Typed, HistOK, EnrollPhases
<1>4. ~Saving(g) /\ OpenedInv(s, a, g) /\ CapturingInv(s, a, g)
  BY <1>1 DEF Saving, OpenedInv, Opened, CapturingInv, Capturing, CapturePhases
<1>5. ClosedInv(s, a, g)
  BY <1>1, <1>2 DEF ClosedInv, FingerKept, Before, IdentityAtBase, Baselined
<1>6. Typed(s, a, g) /\ Agree(s, a, g)
  BY <1>3, <1>4, <1>5 DEF Typed, Agree, FailureInv, SavingInv, FirstBatchInv, SecondBatchInv
<1> QED BY <1>6 DEF g

LEMMA AddedKeeps ==
    ASSUME NEW s, NEW a, NEW h, Typed(s, a, h), h.identity # Unset, h.identity \notin h.ids,
           s.ids = h.ids \cup {h.identity}, s.dirty = {}, ~s.capture,
           HostIds(a.root) = s.ids, a.txn = "none", NEW snapshot
    PROVE  /\ Typed(s, a, RecordReconciled(h, TRUE, snapshot))
           /\ Agree(s, a, RecordReconciled(h, TRUE, snapshot))
<1> DEFINE g == RecordReconciled(h, TRUE, snapshot)
<1>0. DOMAIN h = HistoryFields
  BY DEF Typed, HistOK
<1>1. /\ Baselined(h, g) /\ g.phase = "RECONCILED" /\ g.identity = h.identity
      /\ g.status = h.status /\ g.stage = h.stage /\ g.tracker = h.tracker
  BY ONLY <1>0 DEF RecordReconciled, HistoryFields, Baselined
<1>2. g.added \in BOOLEAN /\ g.added
  BY ONLY <1>0 DEF RecordReconciled, HistoryFields
<1> HIDE DEF g
<1>3. HistOK(g)
  BY <1>1, <1>2, HistKept DEF Typed, HistOK, EnrollPhases
<1>4. ~Saving(g) /\ OpenedInv(s, a, g) /\ CapturingInv(s, a, g)
  BY <1>1 DEF Saving, OpenedInv, Opened, CapturingInv, Capturing, CapturePhases
<1>5. ClosedInv(s, a, g)
  BY <1>1, <1>2 DEF ClosedInv, FingerKept, Baselined
<1>6. Typed(s, a, g) /\ Agree(s, a, g)
  BY <1>3, <1>4, <1>5 DEF Typed, Agree, FailureInv, SavingInv, FirstBatchInv, SecondBatchInv
<1> QED BY <1>6 DEF g

-----------------------------------------------------------------------------
(* The finalizer. *)

LEMMA FinalizeUnchangedInv == ASSUME EnrollInv, FinalizeUnchanged PROVE EnrollInv'
<1>1. /\ pc = "finalize" /\ j.identity = Unset /\ Leave /\ store' = store /\ authority' = authority
      /\ j' = j \/ (NoChange /\ j' = RecordReconciled(j, FALSE, store.root))
      /\ j.phase \in {"TERMINAL_IDENTITY", "TERMINAL_FAILURE"}
  BY DEF FinalizeUnchanged, held, EnrollInv, CapturePlaceInv
<1>2. RestOK'
  BY DEF FinalizeUnchanged, Leave, counters, held, EnrollInv, RestOK, PCs
<1>3. CASE j' = j
  BY <1>1, <1>2, <1>3, LeaveInv
<1>4. CASE NoChange /\ j' = RecordReconciled(j, FALSE, store.root)
  <2>1. sep' \in Closed(sep) /\ wire' = <<>> /\ pc' = "idle"
    BY <1>1 DEF Leave, Disconnect
  <2>2. ~sep.capture /\ Before(sep, j)
    BY <1>1 DEF EnrollInv, Agree, FailureInv, Saving
  <2>3. Typed(sep', store, j) /\ Before(sep', j) /\ ~sep'.capture
    BY <2>1, <2>2, ClosedQuiet DEF EnrollInv, Typed, Before
  <2>4. IdentityAtBase(store, j) /\ store.txn = "none"
    BY <1>4 DEF NoChange, NoIdentityDelta, IdentityAtBase
  <2>5. Typed(sep', store, j') /\ Agree(sep', store, j')
    BY <1>1, <1>4, <2>3, <2>4, UnchangedKeeps
  <2>6. DOMAIN j = HistoryFields
    BY JournalFields
  <2>7. Baselined(j, j') /\ j'.stage = j.stage
    BY ONLY <1>4, <2>6 DEF RecordReconciled, HistoryFields, Baselined
  <2>8. LocalInv' /\ PublishInv'
    BY <1>1, <2>1, <2>7, CaptureSides, NotLocal DEF CapturePlaces
  <2> QED BY <1>1, <1>2, <2>1, <2>3, <2>5, <2>8, IdlePlaces DEF EnrollInv
<1> QED BY <1>1, <1>3, <1>4

LEMMA FinalizeSaveInv == ASSUME EnrollInv, FinalizeSave PROVE EnrollInv'
<1>1. /\ pc = "finalize" /\ pc' = "plan" /\ UNCHANGED <<sep, wire, store, j, stage>>
      /\ authority' = authority
  BY DEF FinalizeSave, held
<1>2. RestOK'
  BY DEF FinalizeSave, counters, held, EnrollInv, RestOK, PCs
<1>3. CapturePlaceInv'
  BY <1>1 DEF EnrollInv, CapturePlaceInv, CapturePCs
<1> QED BY <1>1, <1>2, <1>3, CaptureStillInv DEF CapturePlaces

\* The failures that only end the process, and its death.
LEMMA QuietFailuresInv ==
    ASSUME EnrollInv, FinalizeFails \/ ProcessExit
    PROVE  EnrollInv'
<1>1. Leave /\ j' = j /\ store' = store /\ authority' = authority
  BY DEF FinalizeFails, ProcessExit, held
<1>2. RestOK'
  BY DEF FinalizeFails, ProcessExit, Leave, Fails, counters, held, EnrollInv, RestOK, PCs
<1> QED BY <1>1, <1>2, LeaveInv

LEMMA PlanTracker ==
    ASSUME NEW t, TrackOK(t), t.phase = "NOT_STARTED", NEW plan, plan = FullPlan \/ plan = FailurePlan,
           NEW u, u = ConsumePlan(t, plan)
    PROVE  /\ TrackOK(u) /\ u.phase = "COMPONENT_READY" /\ u.batches = plan
           /\ u.batch = 1 /\ u.comp = 1 /\ u.staged = << >>
<1>1. DOMAIN t = TrackerFields /\ t.kind = "enrollment" /\ t.batches = << >> /\ t.staged = << >>
  BY DEF TrackOK
<1>2. t.batch = 1 /\ t.comp = 1
  BY <1>1, Plans DEF TrackOK
<1>3. /\ DOMAIN u = TrackerFields /\ u.kind = t.kind /\ u.phase = "COMPONENT_READY"
      /\ u.batches = plan /\ u.batch = t.batch /\ u.comp = t.comp /\ u.staged = t.staged
  BY <1>1 DEF ConsumePlan, TrackerFields
<1>4. TrackOK(u)
  BY <1>1, <1>2, <1>3 DEF TrackOK, TrackerPhases
<1> QED BY <1>1, <1>2, <1>3, <1>4

LEMMA PlanInv == ASSUME EnrollInv, Plan PROVE EnrollInv'
<1>1. /\ pc = "plan" /\ j.phase \in {"TERMINAL_IDENTITY", "TERMINAL_FAILURE"} /\ store' = store
      /\ authority' = authority /\ j.stage \notin LocalStages /\ Saving(j)
  BY NotLocal DEF Plan, held, EnrollInv, CapturePlaceInv, Saving
<1>2. pc' \in PCs => RestOK'
  BY DEF Plan, held, EnrollInv, RestOK
<1>3. CASE Leave /\ j' = j
  BY <1>1, <1>2, <1>3, LeaveInv DEF Leave, PCs
<1>4. ~sep.capture
  BY <1>1 DEF EnrollInv, Agree, SavingInv, FailureInv, Added
<1>5. CASE Resuming /\ j' = j /\ pc' = "PREPARE_INTENT" /\ UNCHANGED <<sep, wire>>
  <2>1. RestOK'
    BY <1>2, <1>5 DEF PCs, ComponentMilestones, After
  <2>2. j.tracker.phase = "COMPONENT_READY" /\ ~Unsaved(j)
    BY <1>5 DEF Resuming, Unsaved
  <2>3. j.phase = "TERMINAL_IDENTITY" /\ store.txn = "prepare"
    BY <1>1, <2>2 DEF EnrollInv, Agree, SavingInv, CapturePlaceInv
  <2>4. pc' \in SavePCs
    BY <1>5 DEF SavePCs, PreparedPCs
  <2>5. CapturePlaceInv' /\ LocalInv' /\ PublishInv'
    BY <1>1, <1>4, <1>5, <2>4, SaveSides, StillBaselined
  <2>6. SavePhaseInv'
    BY <1>5, <2>2, <2>3 DEF SavePhaseInv
  <2>7. SavePlaceInv'
    BY <1>1, <1>5, <2>3 DEF SavePlaceInv, PreparedPCs, CommittedPCs
  <2> QED BY <1>1, <1>5, <2>1, <2>5, <2>6, <2>7, WireKept DEF EnrollInv
<1>6. CASE /\ LegalPersistence(j) /\ AcceptsEnrollPlan(j, Batches)
           /\ j' = RecordTracker(j, ConsumePlan(j.tracker, Batches)) /\ pc' = "begin_stage"
           /\ UNCHANGED <<sep, wire>>
  <2> DEFINE t == ConsumePlan(j.tracker, Batches)
  <2>1. DOMAIN j = HistoryFields /\ TrackOK(j.tracker)
    BY JournalFields
  <2>2. j.tracker.phase = "NOT_STARTED" /\ Unsaved(j)
    BY <1>6 DEF AcceptsEnrollPlan, AcceptsFailurePlan, AcceptsPlan, Unsaved
  <2>3. Batches = IF Failed(j) THEN FailurePlan ELSE FullPlan
    BY DEF Batches, FailurePlan, FullPlan
  <2>4. Batches = FullPlan \/ Batches = FailurePlan
    BY <2>3
  <2>5. /\ TrackOK(t) /\ t.phase = "COMPONENT_READY" /\ t.batches = Batches
        /\ t.batch = 1 /\ t.comp = 1 /\ t.staged = << >>
    BY <2>1, <2>2, <2>4, PlanTracker
  <2>6. j' = RecordTracker(j, t)
    BY <1>6
  <2> HIDE DEF t
  <2>7. /\ Baselined(j, j') /\ j'.identity = j.identity /\ j'.status = j.status
        /\ j'.stage = j.stage /\ j'.tracker = t /\ j'.added = j.added /\ j'.phase = "PERSISTING"
    BY ONLY <2>1, <2>5, <2>6, TrackerRecorded
  <2>8. HistOK(j')
    BY <2>5, <2>7 DEF EnrollInv, Typed, HistOK, Baselined, EnrollPhases
  <2>9. AtBase(store, j)
    BY <1>1, <2>2 DEF EnrollInv, Agree, SavingInv
  <2>10. OpenedInv(sep, store, j') /\ CapturingInv(sep, store, j') /\ ClosedInv(sep, store, j')
    BY <2>7 DEF OpenedInv, Opened, CapturingInv, Capturing, CapturePhases, ClosedInv, FingerKept
  <2>11. FailureInv(sep, store, j')
    <3>1. j.identity = Unset => FailureInv(sep, store, j) /\ Failed(j)
      BY <1>1 DEF EnrollInv, Agree, FailureInv, Failed
    <3> QED BY <1>1, <2>3, <2>5, <2>7, <3>1, Plans DEF FailureInv, Before, IdentityAtBase, Baselined
  <2>12. SavingInv(sep, store, j')
    <3>1. j.identity # Unset => Added(sep, j) /\ ~Failed(j)
      BY <1>1 DEF EnrollInv, Agree, SavingInv, Failed
    <3> QED BY <2>3, <2>5, <2>7, <3>1, Plans DEF SavingInv, Added, Unsaved, Baselined
  <2>13. FirstBatchInv(sep, store, j') /\ SecondBatchInv(sep, store, j')
    BY <1>1, <2>5, <2>7, <2>9, NothingStaged
       DEF FirstBatchInv, SecondBatchInv, AtBase, Staged, LocalStages, Baselined
  <2>14. pc' \in SavePCs /\ RestOK'
    BY <1>2, <1>6 DEF SavePCs, PCs
  <2>15. CapturePlaceInv' /\ LocalInv' /\ PublishInv'
    BY <1>1, <1>4, <1>6, <2>7, <2>14, SaveSides
  <2>16. SavePhaseInv'
    BY <1>6, <2>5, <2>7 DEF SavePhaseInv
  <2>17. SavePlaceInv'
    BY <1>1, <1>6, <2>5, <2>7, <2>9 DEF SavePlaceInv, PreparedPCs, CommittedPCs, AtBase
  <2>18. WireOK'
    BY <1>6, <2>7, WireKept DEF Baselined
  <2> QED BY <1>1, <1>6, <2>8, <2>10, <2>11, <2>12, <2>13, <2>14, <2>15, <2>16, <2>17, <2>18
          DEF EnrollInv, Typed, Agree
<1> QED BY <1>3, <1>5, <1>6 DEF Plan, AppendChecked

-----------------------------------------------------------------------------
(* The transaction. *)

\* What every place of a save that only moves on keeps.
LEMMA StoreStepInv ==
    ASSUME EnrollInv, pc \in SavePCs, UNCHANGED <<sep, wire, j, authority>>, pc' \in SavePCs,
           Typed(sep, store', j), Agree(sep, store', j), SavePhaseInv', SavePlaceInv', RestOK'
    PROVE  EnrollInv'
<1>1. CapturePlaceInv' /\ LocalInv' /\ PublishInv'
  BY AtSave, SaveSides, StillBaselined
<1> QED BY <1>1, WireKept DEF EnrollInv

LEMMA NoLongerCapturing ==
    ASSUME NEW s, NEW a, NEW h, Saving(h)
    PROVE  OpenedInv(s, a, h) /\ CapturingInv(s, a, h) /\ ClosedInv(s, a, h)
BY DEF Saving, Unsaved, OpenedInv, Opened, CapturingInv, Capturing, CapturePhases, ClosedInv, FingerKept

LEMMA TxnSet ==
    ASSUME NEW a, DOMAIN a = {"root", "txn", "files"}, NEW x, NEW b, b = [a EXCEPT !.txn = x]
    PROVE  DOMAIN b = {"root", "txn", "files"} /\ b.txn = x /\ b.root = a.root /\ b.files = a.files
OBVIOUS

\* A transaction is opened before anything is staged.
LEMMA OpenedTxnKeeps ==
    ASSUME EnrollInv, pc = "begin_stage", NEW b, b = [store EXCEPT !.txn = "prepare"]
    PROVE  Typed(sep, b, j) /\ Agree(sep, b, j)
<1>1. Saving(j) /\ ~Unsaved(j) /\ j.stage \notin LocalStages
  BY AtSave DEF SavePCs
<1>2. j.tracker.phase = "COMPONENT_READY" /\ j.tracker.comp = 1
  BY DEF EnrollInv, SavePhaseInv, SavePlaceInv
<1>3. DOMAIN b = {"root", "txn", "files"} /\ b.txn = "prepare" /\ b.root = store.root /\ b.files = store.files
  BY TxnSet DEF EnrollInv, Typed, StoreOK
<1>4. StoreOK(b)
  BY <1>3 DEF EnrollInv, Typed, StoreOK
<1>5. FailureInv(sep, b, j) /\ SavingInv(sep, b, j)
  BY <1>1, <1>3 DEF EnrollInv, Agree, FailureInv, SavingInv, IdentityAtBase
<1>6. FirstBatchInv(sep, b, j) /\ SecondBatchInv(sep, b, j)
  BY <1>1, <1>2, <1>3 DEF EnrollInv, Agree, FirstBatchInv, SecondBatchInv, Staged, LocalStages
<1> QED BY <1>1, <1>4, <1>5, <1>6, NoLongerCapturing DEF EnrollInv, Typed, Agree

LEMMA BeginStageInv == ASSUME EnrollInv, BeginStage PROVE EnrollInv'
<1>1. /\ pc = "begin_stage" /\ pc' = "PREPARE_INTENT" /\ UNCHANGED <<sep, wire, j, authority>>
      /\ store' = [store EXCEPT !.txn = "prepare"]
  BY DEF BeginStage, held
<1>2. RestOK'
  BY DEF BeginStage, counters, held, EnrollInv, RestOK, PCs, ComponentMilestones, After
<1>3. Typed(sep, store', j) /\ Agree(sep, store', j)
  BY <1>1, OpenedTxnKeeps
<1>4. pc \in SavePCs /\ pc' \in SavePCs
  BY <1>1 DEF SavePCs, PreparedPCs
<1>5. SavePhaseInv'
  BY <1>1, <1>4 DEF EnrollInv, SavePhaseInv
<1>6. store'.txn = "prepare"
  BY <1>1, TxnSet DEF EnrollInv, Typed, StoreOK
<1>7. SavePlaceInv'
  BY <1>1, <1>6 DEF SavePlaceInv, PreparedPCs, CommittedPCs
<1> QED BY <1>1, <1>2, <1>3, <1>4, <1>5, <1>7, StoreStepInv

LEMMA BeginStageFailsInv == ASSUME EnrollInv, BeginStageFails PROVE EnrollInv'
<1>1. /\ pc = "begin_stage" /\ j' = j /\ Leave /\ authority' = authority
      /\ pc' = "idle" /\ wire' = <<>> /\ sep' \in Closed(sep)
  BY DEF BeginStageFails, Leave, Disconnect, held
<1>2. RestOK'
  BY DEF BeginStageFails, Leave, Fails, counters, held, EnrollInv, RestOK, PCs
<1>3. DOMAIN store = {"root", "txn", "files"} /\ store.txn = "none"
  BY <1>1 DEF EnrollInv, SavePlaceInv, Typed, StoreOK
<1>4. /\ \/ store' = [store EXCEPT !.txn = "none"]
         \/ store' = [store EXCEPT !.txn = "prepare"]
      /\ ~sep.capture /\ j.stage \notin LocalStages
  BY <1>1, AtSave DEF BeginStageFails, SavePCs
<1>5. Typed(sep, store', j) /\ Agree(sep, store', j)
  <2>1. CASE store' = [store EXCEPT !.txn = "prepare"]
    BY <1>1, <2>1, OpenedTxnKeeps
  <2>2. CASE store' = [store EXCEPT !.txn = "none"]
    <3>1. DOMAIN store' = {"root", "txn", "files"} /\ store'.txn = store.txn /\ store'.root = store.root
          /\ store'.files = store.files
      BY <1>3, <2>2, TxnSet
    <3>2. Typed(sep, store', j)
      BY <3>1 DEF EnrollInv, Typed, StoreOK
    <3>3. /\ OpenedInv(sep, store', j) /\ CapturingInv(sep, store', j)
          /\ FailureInv(sep, store', j) /\ SavingInv(sep, store', j) /\ ClosedInv(sep, store', j)
      BY <3>1 DEF EnrollInv, Agree, OpenedInv, CapturingInv, FailureInv, SavingInv, ClosedInv, AtBase,
                  IdentityAtBase
    <3>4. FirstBatchInv(sep, store', j) /\ SecondBatchInv(sep, store', j)
      BY <3>1 DEF EnrollInv, Agree, FirstBatchInv, SecondBatchInv
    <3> QED BY <3>2, <3>3, <3>4 DEF Agree
  <2> QED BY <1>4, <2>1, <2>2
<1>6. Typed(sep', store', j) /\ Agree(sep', store', j) /\ ~sep'.capture
  BY <1>1, <1>4, <1>5, ClosedKeeps
<1>7. LocalInv' /\ PublishInv'
  <2>1. j.phase \in {"TERMINAL_IDENTITY", "PERSISTING", "PERSISTENCE_READY"}
    BY <1>1 DEF EnrollInv, SavePhaseInv, SavePCs
  <2> QED BY <1>1, <1>4, <2>1, CaptureSides, StillBaselined DEF CapturePlaces
<1> QED BY <1>1, <1>2, <1>6, <1>7, IdlePlaces DEF EnrollInv

\* A file of the current component is written.
LEMMA FileWritten ==
    ASSUME EnrollInv, NEW c \in Components, NEW f, NEW b, b = [store EXCEPT !.files[c] = f]
    PROVE  /\ DOMAIN b = {"root", "txn", "files"} /\ b.txn = store.txn /\ b.root = store.root
           /\ DOMAIN b.files = Components /\ b.files[c] = f
           /\ \A n \in Components : n # c => b.files[n] = store.files[n]
<1>1. DOMAIN store = {"root", "txn", "files"} /\ DOMAIN store.files = Components
  BY DEF EnrollInv, Typed, StoreOK
<1>2. /\ DOMAIN b = {"root", "txn", "files"} /\ b.txn = store.txn /\ b.root = store.root
      /\ b.files = [store.files EXCEPT ![c] = f]
  BY <1>1
<1> QED BY <1>1, <1>2

\* Staging the current component keeps the agreement: the user component is staged first, and
\* the lockout state alone after a failure.
LEMMA StagingKeeps ==
    ASSUME EnrollInv, pc \in {"stage", "stage_write"}, NEW f, NEW b,
           b = [store EXCEPT !.files[Current(j.tracker)] = f]
    PROVE  Typed(sep, b, j) /\ Agree(sep, b, j) /\ Current(j.tracker) \in Components
<1> DEFINE c == Current(j.tracker)
<1>1. /\ Saving(j) /\ ~Unsaved(j) /\ j.stage \notin LocalStages
      /\ j.identity # Unset => j.tracker.batches = FullPlan
      /\ j.identity = Unset => j.tracker.batches = FailurePlan /\ Failed(j)
  BY AtSave DEF SavePCs, PreparedPCs
<1>2. j.tracker.phase = "SECURE_BLOB_CAPTURED" /\ store.txn = "prepare"
  BY DEF EnrollInv, SavePhaseInv, SavePlaceInv, PreparedPCs
<1>3. /\ j.identity = Unset => c = "biolockout"
      /\ j.identity # Unset /\ j.tracker.batch = 2 => c = "biolockout"
      /\ j.identity # Unset /\ j.tracker.batch = 1 /\ j.tracker.comp = 2 => c = "master"
      /\ c \in Components
  BY <1>1, JournalFields, FullPosition, FailurePosition DEF Components
<1> HIDE DEF c
<1>4. b = [store EXCEPT !.files[c] = f]
  BY DEF c
<1>5. /\ DOMAIN b = {"root", "txn", "files"} /\ b.txn = store.txn /\ b.root = store.root
      /\ DOMAIN b.files = Components /\ b.files[c] = f
      /\ \A n \in Components : n # c => b.files[n] = store.files[n]
  BY <1>3, <1>4, FileWritten
<1>6. StoreOK(b)
  BY <1>2, <1>5 DEF EnrollInv, Typed, StoreOK
<1>7. FailureInv(sep, b, j) /\ SavingInv(sep, b, j)
  BY <1>1, <1>3, <1>5 DEF EnrollInv, Agree, FailureInv, SavingInv, IdentityAtBase, Components
<1>8. FirstBatchInv(sep, b, j)
  BY <1>1, <1>2, <1>3, <1>5 DEF EnrollInv, Agree, FirstBatchInv, Staged, Components
<1>9. SecondBatchInv(sep, b, j)
  BY <1>1, <1>3, <1>5 DEF EnrollInv, Agree, SecondBatchInv, Components
<1> QED BY <1>1, <1>3, <1>6, <1>7, <1>8, <1>9, NoLongerCapturing DEF EnrollInv, Typed, Agree, c

LEMMA StageCreateInv == ASSUME EnrollInv, StageCreate PROVE EnrollInv'
<1>1. /\ pc = "stage" /\ pc' = "stage_write" /\ UNCHANGED <<sep, wire, j, authority>>
      /\ store' = [store EXCEPT !.files[Current(j.tracker)] = Torn]
  BY DEF StageCreate, held
<1>2. RestOK'
  BY DEF StageCreate, counters, held, EnrollInv, RestOK, PCs
<1>3. Typed(sep, store', j) /\ Agree(sep, store', j) /\ Current(j.tracker) \in Components
  BY <1>1, StagingKeeps
<1>4. pc \in SavePCs /\ pc' \in SavePCs
  BY <1>1 DEF SavePCs, PreparedPCs
<1>5. SavePhaseInv'
  BY <1>1, <1>4 DEF EnrollInv, SavePhaseInv
<1>6. store'.txn = "prepare"
  BY <1>1, <1>3, FileWritten DEF EnrollInv, SavePlaceInv, PreparedPCs
<1>7. SavePlaceInv'
  BY <1>1, <1>6 DEF SavePlaceInv, PreparedPCs, CommittedPCs
<1> QED BY <1>1, <1>2, <1>3, <1>4, <1>5, <1>7, StoreStepInv

\* The user component as it is saved has the new finger.
LEMMA EncodedUser ==
    ASSUME EnrollInv
    PROVE  NewUser(Encoded("user"), j)
BY DEF EnrollInv, RestOK, Encoded, NewUser

LEMMA StageWriteInv == ASSUME EnrollInv, StageWrite PROVE EnrollInv'
<1> DEFINE c == Current(j.tracker)
<1>1. /\ pc = "stage_write" /\ pc' = "HOST_STAGED" /\ UNCHANGED <<sep, wire, j, authority>>
      /\ store' = [store EXCEPT !.files[c] = Encoded(c)]
  BY DEF StageWrite, held
<1>2. RestOK'
  BY DEF StageWrite, counters, held, EnrollInv, RestOK, PCs, ComponentMilestones, After
<1>3. Typed(sep, store', j) /\ Agree(sep, store', j) /\ c \in Components
  BY <1>1, StagingKeeps
<1>4. pc \in SavePCs /\ pc' \in SavePCs
  BY <1>1 DEF SavePCs, PreparedPCs
<1>5. SavePhaseInv'
  BY <1>1, <1>4 DEF EnrollInv, SavePhaseInv
<1>6. j.identity # Unset /\ j.tracker.batch = 1 =>
         (j.tracker.comp = 1 /\ c = "user") \/ (j.tracker.comp = 2 /\ c = "master")
  BY <1>4, AtSave, JournalFields, FullPosition
<1> HIDE DEF c
<1>7. /\ store'.txn = "prepare" /\ store'.files[c] = Encoded(c)
      /\ \A n \in Components : n # c => store'.files[n] = store.files[n]
  BY <1>1, <1>3, FileWritten DEF EnrollInv, SavePlaceInv, PreparedPCs
<1>8. j.identity # Unset /\ j.tracker.batch = 1 => NewUser(store'.files["user"], j)
  <2>1. j.identity # Unset /\ j.tracker.batch = 1 /\ j.tracker.comp = 2 => NewUser(store.files["user"], j)
    BY <1>1, <1>4, AtSave DEF EnrollInv, Agree, FirstBatchInv, Staged, SavePlaceInv, PreparedPCs
  <2> QED BY <1>6, <1>7, <2>1, EncodedUser DEF Components
<1>9. SavePlaceInv'
  BY <1>1, <1>7, <1>8 DEF SavePlaceInv, PreparedPCs, CommittedPCs
<1> QED BY <1>1, <1>2, <1>3, <1>4, <1>5, <1>9, StoreStepInv

LEMMA CrossInv == ASSUME EnrollInv, Cross PROVE EnrollInv'
<1>1. /\ pc = "cross" /\ pc' = "roll_forward" /\ UNCHANGED <<sep, wire, j, authority>>
      /\ store' = [store EXCEPT !.txn = "commit"]
  BY DEF Cross, held
<1>2. RestOK'
  BY DEF Cross, counters, held, EnrollInv, RestOK, PCs
<1>3. pc \in SavePCs /\ pc' \in SavePCs
  BY <1>1 DEF SavePCs, PreparedPCs
<1>4. /\ Saving(j)
      /\ j.identity # Unset => j.tracker.batches = FullPlan
      /\ j.stage \notin LocalStages
  BY <1>3, AtSave
<1>5. j.tracker.phase = "BATCH_COMMIT_INTENT" /\ store.txn = "prepare"
  BY <1>1 DEF EnrollInv, SavePhaseInv, SavePlaceInv, PreparedPCs
<1>6. /\ DOMAIN store' = {"root", "txn", "files"} /\ store'.txn = "commit"
      /\ store'.root = store.root /\ store'.files = store.files
  BY <1>1, TxnSet DEF EnrollInv, Typed, StoreOK
<1>7. j.identity # Unset /\ j.tracker.batch = 1 => j.tracker.comp = 2
  BY <1>4, <1>5, JournalFields DEF TrackOK
<1>8. StoreOK(store')
  BY <1>6 DEF EnrollInv, Typed, StoreOK
<1>9. FailureInv(sep, store', j) /\ SavingInv(sep, store', j)
  <2>1. ~Unsaved(j)
    BY <1>5 DEF Unsaved
  <2> QED BY <1>4, <1>6, <2>1 DEF EnrollInv, Agree, FailureInv, SavingInv, IdentityAtBase
<1>10. FirstBatchInv(sep, store', j) /\ SecondBatchInv(sep, store', j)
  BY <1>4, <1>5, <1>6, <1>7 DEF EnrollInv, Agree, FirstBatchInv, SecondBatchInv, Staged, LocalStages
<1>11. Typed(sep, store', j) /\ Agree(sep, store', j)
  BY <1>4, <1>8, <1>9, <1>10, NoLongerCapturing DEF EnrollInv, Typed, Agree
<1>12. SavePhaseInv'
  BY <1>1, <1>3, <1>5 DEF EnrollInv, SavePhaseInv
<1>13. SavePlaceInv'
  BY <1>1, <1>6 DEF SavePlaceInv, PreparedPCs, CommittedPCs
<1> QED BY <1>1, <1>2, <1>3, <1>11, <1>12, <1>13, StoreStepInv

\* What rolling a commit forward leaves in the archive.
LEMMA RolledForwardStore ==
    ASSUME NEW a, StoreOK(a), NEW b, b = RolledForward(a)
    PROVE  /\ StoreOK(b) /\ b.txn = "none"
           /\ \A n \in Components : b.files[n] = Absent
           /\ \A n \in Components : b.root[n] = IF a.files[n] = Absent THEN a.root[n] ELSE a.files[n]
<1>1. /\ DOMAIN b = {"root", "txn", "files"} /\ b.txn = "none" /\ b.files = NoFiles
      /\ b.root = [n \in Components |-> IF a.files[n] = Absent THEN a.root[n] ELSE a.files[n]]
  BY DEF RolledForward
<1>2. DOMAIN b.files = Components /\ \A n \in Components : b.files[n] = Absent
  BY <1>1 DEF NoFiles
<1>3. DOMAIN b.root = Components
  BY <1>1
<1>4. \A n \in Components : b.root[n] = IF a.files[n] = Absent THEN a.root[n] ELSE a.files[n]
  BY <1>1
<1> QED BY <1>1, <1>2, <1>3, <1>4 DEF StoreOK

LEMMA NewUserPresent ==
    ASSUME NEW h, h.ids \subseteq Ids, h.identity \in Ids, NEW f, NewUser(f, h)
    PROVE  f # Absent /\ f.ids = h.ids \cup {h.identity}
<1>1. f \in [ids : SUBSET Ids, save : Nat]
  BY DEF NewUser
<1> QED BY <1>1, EnrollmentNames DEF NewUser

\* Rolling forward a commit of the journal's own batch keeps the agreement, and the new finger
\* is in the archive from the first batch on.
LEMMA RolledForwardKeeps ==
    ASSUME NEW s, NEW a, NEW h, Typed(s, a, h), Agree(s, a, h), Saving(h), ~Unsaved(h),
           a.txn = "commit", NEW b, b = RolledForward(a)
    PROVE  /\ Typed(s, b, h) /\ Agree(s, b, h) /\ b.txn = "none"
           /\ h.identity # Unset /\ h.tracker.batch = 1 => NewUser(b.root["user"], h)
<1>1. /\ StoreOK(b) /\ b.txn = "none"
      /\ \A n \in Components : b.files[n] = Absent
      /\ \A n \in Components : b.root[n] = IF a.files[n] = Absent THEN a.root[n] ELSE a.files[n]
  BY RolledForwardStore DEF Typed
<1>2. {"user", "master"} \subseteq Components
  BY DEF Components
<1>3. h.identity # Unset => h.identity \in Ids /\ h.ids \subseteq Ids
  BY DEF Typed, HistOK
<1>4. FailureInv(s, b, h)
  BY <1>1, <1>2 DEF Agree, FailureInv, IdentityAtBase
<1>5. SavingInv(s, b, h)
  BY DEF Agree, SavingInv
<1>6. h.identity # Unset /\ h.tracker.batch = 1 => NewUser(b.root["user"], h)
  <2>1. h.identity # Unset /\ h.tracker.batch = 1 => NewUser(a.files["user"], h)
    BY DEF Agree, FirstBatchInv
  <2> QED BY <1>1, <1>2, <1>3, <2>1, NewUserPresent
<1>7. FirstBatchInv(s, b, h)
  BY <1>1, <1>6 DEF Agree, FirstBatchInv
<1>8. SecondBatchInv(s, b, h)
  BY <1>1, <1>2 DEF Agree, SecondBatchInv
<1> QED BY <1>1, <1>4, <1>5, <1>6, <1>7, <1>8, NoLongerCapturing DEF Typed, Agree

LEMMA RollForwardInv == ASSUME EnrollInv, RollForward PROVE EnrollInv'
<1>1. /\ pc = "roll_forward" /\ pc' = "BATCH_COMMITTED" /\ UNCHANGED <<sep, wire, j, authority>>
      /\ store' = RolledForward(store)
  BY DEF RollForward, held
<1>2. RestOK'
  BY DEF RollForward, counters, held, EnrollInv, RestOK, PCs, ComponentMilestones, After
<1>3. pc \in SavePCs /\ pc' \in SavePCs
  BY <1>1 DEF SavePCs, CommittedPCs
<1>4. store.txn = "commit"
  BY <1>1 DEF EnrollInv, SavePlaceInv
<1>5. /\ Typed(sep, store', j) /\ Agree(sep, store', j) /\ store'.txn = "none"
      /\ j.identity # Unset /\ j.tracker.batch = 1 => NewUser(store'.root["user"], j)
  BY <1>1, <1>3, <1>4, AtSave, RolledForwardKeeps DEF EnrollInv
<1>6. SavePhaseInv'
  BY <1>1, <1>3 DEF EnrollInv, SavePhaseInv
<1>7. SavePlaceInv'
  BY <1>1, <1>5 DEF SavePlaceInv, PreparedPCs, CommittedPCs
<1> QED BY <1>1, <1>2, <1>3, <1>5, <1>6, <1>7, StoreStepInv

-----------------------------------------------------------------------------
(* Confirming a component. *)

LEMMA ConfirmedSep ==
    ASSUME EnrollInv, pc \in {"early_confirm", "final_confirm"}
    PROVE  /\ SepOK(Confirmed) /\ Confirmed.ids = sep.ids /\ ~Confirmed.capture
           /\ Confirmed.uuid = sep.uuid /\ Confirmed.dirty = sep.dirty \ {Current(j.tracker)}
           /\ Typed(Confirmed, store, j) /\ Agree(Confirmed, store, j)
           /\ j.identity # Unset /\ j.tracker.batch = 1 =>
                IF pc = "early_confirm" THEN Confirmed.dirty \subseteq {"master"}
                                        ELSE Confirmed.dirty = {}
<1>1. Saving(j) /\ ~sep.capture /\ (j.identity # Unset => j.tracker.batches = FullPlan)
  BY AtSave DEF SavePCs, PreparedPCs, CommittedPCs
<1>2. SepOK(sep)
  BY DEF EnrollInv, Typed
<1>3. /\ SepOK(Confirmed) /\ Confirmed.ids = sep.ids /\ ~Confirmed.capture
      /\ Confirmed.uuid = sep.uuid /\ Confirmed.dirty = sep.dirty \ {Current(j.tracker)}
  BY <1>1, <1>2 DEF SepOK, Confirmed
<1>4. Typed(Confirmed, store, j) /\ Agree(Confirmed, store, j)
  BY <1>1, <1>3, DirtyKeeps DEF EnrollInv
<1>5. ASSUME j.identity # Unset, j.tracker.batch = 1
      PROVE  IF pc = "early_confirm" THEN Confirmed.dirty \subseteq {"master"}
                                     ELSE Confirmed.dirty = {}
  <2>1. TrackOK(j.tracker) /\ j.tracker.batches = FullPlan
    BY <1>1, <1>5, JournalFields
  <2>2. CASE pc = "early_confirm"
    <3>1. j.tracker.phase = "CONFIRM_INTENT"
      BY <2>2 DEF EnrollInv, SavePhaseInv
    <3>2. j.tracker.comp = 1
      BY <2>1, <3>1 DEF TrackOK
    <3>3. Current(j.tracker) = "user"
      BY <1>5, <2>1, <3>2, FullPosition
    <3>4. sep.dirty \subseteq {"user", "master"}
      BY <1>1, <1>5 DEF EnrollInv, Agree, SavingInv, Added
    <3> QED BY <2>2, <1>3, <3>3, <3>4
  <2>3. CASE pc = "final_confirm"
    <3>1. j.tracker.phase = "FINAL_CONFIRM_INTENT"
      BY <2>3 DEF EnrollInv, SavePhaseInv
    <3>2. j.tracker.comp = 2
      BY <2>1, <3>1, <1>5 DEF TrackOK
    <3>3. Current(j.tracker) = "master"
      BY <1>5, <2>1, <3>2, FullPosition
    <3>4. sep.dirty \subseteq {"master"}
      BY <1>1, <1>5, <3>2 DEF EnrollInv, Agree, FirstBatchInv
    <3> QED BY <2>3, <1>3, <3>3, <3>4
  <2> QED BY <2>2, <2>3
<1> QED BY <1>3, <1>4, <1>5

LEMMA ConfirmComponentInv == ASSUME EnrollInv, ConfirmComponent PROVE EnrollInv'
<1>1. /\ pc \in {"early_confirm", "final_confirm"} /\ UNCHANGED <<wire, store, j, authority>>
      /\ pc' = IF pc = "early_confirm" THEN "CONFIRMED" ELSE "FINAL_CONFIRMED"
      /\ sep' = Confirmed
  BY DEF ConfirmComponent, held
<1>2. RestOK'
  BY DEF ConfirmComponent, counters, held, EnrollInv, RestOK, PCs, ComponentMilestones, After
<1>3. /\ ~sep'.capture /\ Typed(sep', store', j') /\ Agree(sep', store', j')
      /\ j.identity # Unset /\ j.tracker.batch = 1 =>
           IF pc = "early_confirm" THEN sep'.dirty \subseteq {"master"} ELSE sep'.dirty = {}
  BY <1>1, ConfirmedSep
<1>4. pc \in SavePCs /\ pc' \in SavePCs
  BY <1>1 DEF SavePCs, PreparedPCs, CommittedPCs
<1>5. CapturePlaceInv' /\ LocalInv' /\ PublishInv'
  BY <1>1, <1>3, <1>4, AtSave, SaveSides, StillBaselined
<1>6. SavePhaseInv'
  BY <1>1, <1>4 DEF EnrollInv, SavePhaseInv
<1>7. store.txn = IF pc = "early_confirm" THEN "prepare" ELSE "none"
  BY <1>1 DEF EnrollInv, SavePlaceInv, PreparedPCs, CommittedPCs
<1>8. SavePlaceInv'
  BY <1>1, <1>3, <1>7 DEF SavePlaceInv, PreparedPCs, CommittedPCs
<1>9. WireOK'
  <2>1. sep'.ids = sep.ids /\ (sep.dirty = {} => sep'.dirty = {})
    BY <1>1, ConfirmedSep
  <2> QED BY <1>1, <1>3, <2>1 DEF EnrollInv, WireOK, Before
<1> QED BY <1>2, <1>3, <1>5, <1>6, <1>8, <1>9 DEF EnrollInv

-----------------------------------------------------------------------------
(* The record that freezes a save. *)

LEMMA FrozenTracker ==
    ASSUME NEW t, TrackOK(t), t.phase # "NOT_STARTED", NEW st, st = "readback" => t.phase = "ATTESTATION_READY",
           NEW u, u = ConsumeFreezeAt(t, st)
    PROVE  /\ TrackOK(u) /\ u.phase = "OUTCOME_UNKNOWN" /\ u.batches = t.batches
           /\ u.batch = t.batch /\ u.comp = t.comp /\ u.staged = t.staged /\ u.stage = st
<1> DEFINE v == ConsumeFreeze(t)
<1>1. DOMAIN t = TrackerFields
  BY DEF TrackOK
<1>2. /\ DOMAIN v = TrackerFields /\ v.kind = t.kind /\ v.phase = "OUTCOME_UNKNOWN"
      /\ v.batches = t.batches /\ v.batch = t.batch /\ v.comp = t.comp /\ v.staged = t.staged
  BY <1>1 DEF ConsumeFreeze, TrackerFields
<1>3. u = [v EXCEPT !.stage = st]
  BY DEF ConsumeFreezeAt
<1> HIDE DEF v
<1>4. /\ DOMAIN u = TrackerFields /\ u.kind = t.kind /\ u.phase = "OUTCOME_UNKNOWN"
      /\ u.batches = t.batches /\ u.batch = t.batch /\ u.comp = t.comp /\ u.staged = t.staged
      /\ u.stage = st
  BY <1>2, <1>3 DEF TrackerFields
<1>5. TrackOK(u)
  BY <1>4 DEF TrackOK, TrackerPhases
<1> QED BY <1>4, <1>5

LEMMA FreezeKeeps ==
    ASSUME NEW s, NEW a, NEW h, Typed(s, a, h), Agree(s, a, h), h.phase # "OUTCOME_UNKNOWN",
           h.stage \notin LocalStages,
           LegalPersistence(h), AcceptsFreeze(h.tracker),
           NEW st, st = "readback" => h.tracker.phase = "ATTESTATION_READY",
           NEW g, g = RecordTracker(h, ConsumeFreezeAt(h.tracker, st))
    PROVE  Typed(s, a, g) /\ Agree(s, a, g) /\ Baselined(h, g) /\ g.stage = h.stage
<1> DEFINE t == ConsumeFreezeAt(h.tracker, st)
<1>1. DOMAIN h = HistoryFields /\ TrackOK(h.tracker)
  BY DEF Typed, HistOK
<1>2. /\ TrackOK(t) /\ t.phase = "OUTCOME_UNKNOWN" /\ t.batches = h.tracker.batches
      /\ t.batch = h.tracker.batch /\ t.comp = h.tracker.comp /\ t.staged = h.tracker.staged
  BY <1>1, FrozenTracker DEF AcceptsFreeze
<1>3. g = RecordTracker(h, t)
  OBVIOUS
<1> HIDE DEF t
<1>4. /\ Baselined(h, g) /\ g.identity = h.identity /\ g.status = h.status
      /\ g.stage = h.stage /\ g.tracker = t /\ g.added = h.added /\ g.phase = "OUTCOME_UNKNOWN"
  BY ONLY <1>1, <1>2, <1>3, TrackerRecorded
<1>5. Saving(h) /\ ~Unsaved(h) /\ Saving(g) /\ ~Unsaved(g)
  BY <1>2, <1>4 DEF LegalPersistence, AcceptsFreeze, Saving, Unsaved
<1>6. HistOK(g)
  BY <1>2, <1>4 DEF Typed, HistOK, Baselined, EnrollPhases
<1>7. FailureInv(s, a, g)
  BY <1>2, <1>4, <1>5 DEF Agree, FailureInv, Before, IdentityAtBase, Baselined
<1>8. SavingInv(s, a, g)
  BY <1>2, <1>4, <1>5 DEF Agree, SavingInv, Added, Baselined
<1>9. FirstBatchInv(s, a, g)
  BY <1>2, <1>4, <1>5 DEF Agree, FirstBatchInv, NewUser, Staged, Baselined
<1>10. SecondBatchInv(s, a, g)
  BY <1>2, <1>4, <1>5 DEF Agree, SecondBatchInv, NewUser, Baselined
<1> QED BY <1>4, <1>5, <1>6, <1>7, <1>8, <1>9, <1>10, NoLongerCapturing DEF Typed, Agree

\* The process leaves a save it could not finish, with the SEP as it is or a component confirmed.
LEMMA FrozenInv ==
    ASSUME EnrollInv, pc \in SavePCs, NEW st,
           st = "readback" => j.tracker.phase = "ATTESTATION_READY",
           j' = IF LegalPersistence(j) /\ AcceptsFreeze(j.tracker)
                THEN RecordTracker(j, ConsumeFreezeAt(j.tracker, st)) ELSE j,
           NEW s, Typed(s, store, j), Agree(s, store, j), ~s.capture,
           sep' \in Closed(s), wire' = <<>>, pc' = "idle", store' = store, authority' = authority, RestOK'
    PROVE  EnrollInv'
<1>1. Saving(j) /\ ~Unsaved(j) /\ j.stage \notin LocalStages /\ j.phase # "POST_REBOOT_VERIFIED"
  BY AtSave
<1>2. Typed(sep', store, j) /\ Agree(sep', store, j) /\ ~sep'.capture
  BY ClosedKeeps
<1>3. j.phase # "OUTCOME_UNKNOWN"
  BY DEF EnrollInv, SavePhaseInv
<1>4. /\ Typed(sep', store, j') /\ Agree(sep', store, j')
      /\ Baselined(j, j') /\ j'.stage = j.stage
  BY <1>1, <1>2, <1>3, FreezeKeeps, StillBaselined
<1>5. LocalInv' /\ PublishInv'
  BY <1>1, <1>4, CaptureSides DEF CapturePlaces
<1> QED BY <1>2, <1>4, <1>5, IdlePlaces DEF EnrollInv

LEMMA PersistCallFailsInv == ASSUME EnrollInv, PersistCallFails PROVE EnrollInv'
<1>1. /\ FreezePersistence(StageOf[pc]) /\ store' = store /\ authority' = authority
      /\ pc \in DOMAIN StageOf
  BY DEF PersistCallFails, held
<1>2. RestOK'
  BY DEF PersistCallFails, FreezePersistence, Leave, Fails, counters, held, EnrollInv, RestOK, PCs
<1>3. pc \in {"PREPARED", "SECURE_BLOB_CAPTURED", "stage", "stage_write", "cross", "roll_forward", "readback"}
  BY <1>1 DEF StageOf
<1>4. pc \in SavePCs
  BY <1>3 DEF SavePCs, PreparedPCs, CommittedPCs
<1>5. StageOf[pc] = "readback" => pc = "readback"
  BY <1>3 DEF StageOf
<1>6. StageOf[pc] = "readback" => j.tracker.phase = "ATTESTATION_READY"
  BY <1>5 DEF EnrollInv, SavePhaseInv
<1>7. /\ j' = IF LegalPersistence(j) /\ AcceptsFreeze(j.tracker)
              THEN RecordTracker(j, ConsumeFreezeAt(j.tracker, StageOf[pc])) ELSE j
      /\ sep' \in Closed(sep) /\ wire' = <<>> /\ pc' = "idle"
  BY <1>1 DEF FreezePersistence, Leave, Disconnect
<1>8. Typed(sep, store, j) /\ Agree(sep, store, j) /\ ~sep.capture
  BY <1>4, AtSave DEF EnrollInv
<1> QED BY <1>1, <1>2, <1>4, <1>6, <1>7, <1>8, FrozenInv

LEMMA ClosedItself ==
    ASSUME NEW s, SepOK(s), ~s.capture
    PROVE  s \in Closed(s)
<1>1. s = [s EXCEPT !.capture = FALSE]
  BY DEF SepOK
<1> QED BY <1>1 DEF Closed

LEMMA ConfirmFailsInv == ASSUME EnrollInv, ConfirmFails PROVE EnrollInv'
<1> DEFINE st == IF pc = "early_confirm" THEN "early-confirm" ELSE "final-confirm"
<1>1. /\ pc \in {"early_confirm", "final_confirm"} /\ store' = store /\ authority' = authority
      /\ sep' \in {sep, Confirmed} /\ wire' = <<>> /\ pc' = "idle"
      /\ j' = IF LegalPersistence(j) /\ AcceptsFreeze(j.tracker)
              THEN RecordTracker(j, ConsumeFreezeAt(j.tracker, st)) ELSE j
  BY DEF ConfirmFails, held
<1>2. RestOK'
  BY DEF ConfirmFails, Fails, counters, held, EnrollInv, RestOK, PCs
<1>3. pc \in SavePCs
  BY <1>1 DEF SavePCs, PreparedPCs, CommittedPCs
<1>4. st # "readback"
  OBVIOUS
<1> HIDE DEF st
<1>5. Typed(sep', store, j) /\ Agree(sep', store, j) /\ ~sep'.capture
  BY <1>1, <1>3, AtSave, ConfirmedSep DEF EnrollInv
<1>6. sep' \in Closed(sep')
  BY <1>5, ClosedItself DEF Typed
<1> QED BY <1>1, <1>2, <1>3, <1>4, <1>5, <1>6, FrozenInv

LEMMA ReadbackInv == ASSUME EnrollInv, Readback PROVE EnrollInv'
<1>1. pc = "readback" /\ store' = store /\ authority' = authority
  BY DEF Readback, held
<1>2. RestOK'
  BY DEF Readback, FreezePersistence, Leave, counters, held, EnrollInv, RestOK, PCs, ComponentMilestones, After
<1>3. pc \in SavePCs
  BY <1>1 DEF SavePCs, CommittedPCs
<1>4. CASE ReadsBack /\ pc' = "ATTESTED" /\ UNCHANGED <<sep, wire, j>>
  <2>1. pc' \in SavePCs
    BY <1>4 DEF SavePCs, CommittedPCs
  <2>2. SavePhaseInv'
    BY <1>1, <1>3, <1>4, <2>1 DEF EnrollInv, SavePhaseInv
  <2>3. store.txn = "none"
    BY <1>1 DEF EnrollInv, SavePlaceInv, CommittedPCs
  <2>4. ReadsBack'
    BY <1>1, <1>4
       DEF ReadsBack, Failed, BiolockoutPersisted, NoIdentityDelta, IdentityPersisted, NewFinger
  <2>5. SavePlaceInv'
    BY <1>1, <1>4, <2>3, <2>4 DEF SavePlaceInv, PreparedPCs, CommittedPCs
  <2> QED BY <1>1, <1>2, <1>3, <1>4, <2>1, <2>2, <2>5, StoreStepInv DEF EnrollInv
<1>5. CASE FreezePersistence("readback")
  <2>1. j.tracker.phase = "ATTESTATION_READY"
    BY <1>1 DEF EnrollInv, SavePhaseInv
  <2>2. /\ j' = IF LegalPersistence(j) /\ AcceptsFreeze(j.tracker)
                THEN RecordTracker(j, ConsumeFreezeAt(j.tracker, "readback")) ELSE j
        /\ sep' \in Closed(sep) /\ wire' = <<>> /\ pc' = "idle"
    BY <1>5 DEF FreezePersistence, Leave, Disconnect
  <2>3. Typed(sep, store, j) /\ Agree(sep, store, j) /\ ~sep.capture
    BY <1>3, AtSave DEF EnrollInv
  <2> QED BY <1>1, <1>2, <1>3, <2>1, <2>2, <2>3, FrozenInv
<1> QED BY <1>4, <1>5 DEF Readback

\* What the persistence read back is what the SEP and the archive hold.
LEMMA ReconcileInv == ASSUME EnrollInv, Reconcile PROVE EnrollInv'
<1>1. /\ pc = "E3" /\ store' = store /\ authority' = authority /\ pc' \in AfterE3
      /\ sep' \in Closed(sep) /\ wire' = <<>>
      /\ j' = IF LegalReconciled(j, j.identity # Unset)
              THEN RecordReconciled(j, j.identity # Unset, store.root) ELSE j
  BY DEF Reconcile, Disconnect, held
<1>2. RestOK'
  BY DEF Reconcile, AfterE3, counters, held, EnrollInv, RestOK, PCs
<1>3. pc \in SavePCs
  BY <1>1 DEF SavePCs, CommittedPCs
<1>4. /\ Saving(j) /\ ~sep.capture /\ j.stage \notin LocalStages
      /\ j.identity # Unset => j.tracker.batches = FullPlan
      /\ j.identity = Unset => Failed(j)
  BY <1>3, AtSave
<1>5. /\ j.phase = "PERSISTENCE_READY" /\ j.tracker.phase = "COMPLETE" /\ store.txn = "none" /\ ReadsBack
  BY <1>1 DEF EnrollInv, SavePhaseInv, SavePlaceInv, CommittedPCs
<1>6. SepOK(sep') /\ ~sep'.capture /\ sep'.ids = sep.ids /\ sep'.dirty = sep.dirty
  BY <1>1, <1>4, ClosedQuiet DEF EnrollInv, Typed
<1>7. Typed(sep', store, j)
  BY <1>6 DEF EnrollInv, Typed
<1>8. /\ Typed(sep', store, j') /\ Agree(sep', store, j')
      /\ Baselined(j, j') /\ j'.stage = j.stage
  <2>1. CASE j.identity = Unset
    <3>1. j' = RecordReconciled(j, FALSE, store.root)
      BY <1>1, <1>5, <2>1 DEF LegalReconciled
    <3>2. Before(sep', j) /\ IdentityAtBase(store, j)
      BY <1>4, <1>6, <2>1 DEF EnrollInv, Agree, FailureInv, Before
    <3>3. Typed(sep', store, j') /\ Agree(sep', store, j')
      BY <1>5, <1>6, <1>7, <2>1, <3>1, <3>2, UnchangedKeeps
    <3>4. DOMAIN j = HistoryFields
      BY JournalFields
    <3>5. Baselined(j, j') /\ j'.stage = j.stage
      BY ONLY <3>1, <3>4 DEF RecordReconciled, HistoryFields, Baselined
    <3> QED BY <3>3, <3>5
  <2>2. CASE j.identity # Unset
    <3>1. j' = RecordReconciled(j, TRUE, store.root)
      BY <1>1, <1>5, <2>2 DEF LegalReconciled
    <3>2. HostIds(store.root) = sep.ids
      BY <1>5, <2>2 DEF ReadsBack, Failed, IdentityPersisted
    <3>3. sep.ids = j.ids \cup {j.identity} /\ j.identity \notin j.ids
      BY <1>4, <2>2 DEF EnrollInv, Agree, SavingInv, Added
    <3>4. j.tracker.batch = 2
      BY <1>4, <1>5, <2>2, JournalFields DEF TrackOK
    <3>5. sep.dirty = {}
      BY <1>4, <2>2, <3>4 DEF EnrollInv, Agree, SecondBatchInv
    <3>6. Typed(sep', store, j') /\ Agree(sep', store, j')
      BY <1>5, <1>6, <1>7, <2>2, <3>1, <3>2, <3>3, <3>5, AddedKeeps
    <3>7. DOMAIN j = HistoryFields
      BY JournalFields
    <3>8. Baselined(j, j') /\ j'.stage = j.stage
      BY ONLY <3>1, <3>7 DEF RecordReconciled, HistoryFields, Baselined
    <3> QED BY <3>6, <3>8
  <2> QED BY <2>1, <2>2
<1>9. pc' = "idle" \/ (pc' = "verify" /\ j.version = 2)
  BY <1>1 DEF AfterE3
<1>10. CapturePlaceInv' /\ SavePhaseInv' /\ SavePlaceInv'
  BY <1>1, <1>6, <1>9
     DEF CapturePlaceInv, SavePhaseInv, SavePlaceInv, SavePCs, PreparedPCs, CommittedPCs
<1>11. LocalInv'
  BY <1>4, <1>8, <1>9 DEF LocalInv
<1>12. PublishInv'
  BY <1>1, <1>5, <1>8, <1>9 DEF EnrollInv, PublishInv, PublishPCs, Baselined
<1> QED BY <1>1, <1>2, <1>8, <1>10, <1>11, <1>12, WireEmpty DEF EnrollInv

-----------------------------------------------------------------------------
(* The records of a save. *)

\* The tracker after a record, field by field.
LEMMA MilestoneTracker ==
    ASSUME NEW t, DOMAIN t = TrackerFields, NEW m \in ComponentMilestones, NEW file,
           NEW u, u = Consume(t, m, file)
    PROVE  /\ DOMAIN u = TrackerFields /\ u.kind = t.kind /\ u.batches = t.batches /\ u.stage = t.stage
           /\ m = "CONFIRMED" =>
                /\ u.phase = "COMPONENT_READY" /\ u.batch = t.batch /\ u.comp = t.comp + 1
                /\ u.staged = t.staged
           /\ m = "FINAL_CONFIRMED" /\ FinalBatch(t) =>
                /\ u.phase = "ATTESTATION_READY" /\ u.batch = t.batch /\ u.comp = t.comp
                /\ u.staged = t.staged
           /\ m = "FINAL_CONFIRMED" /\ ~FinalBatch(t) =>
                /\ u.phase = "COMPONENT_READY" /\ u.batch = t.batch + 1 /\ u.comp = 1
                /\ u.staged = << >>
           /\ m = "ATTESTED" =>
                /\ u.phase = "COMPLETE" /\ u.batch = t.batch /\ u.comp = t.comp
                /\ u.staged = t.staged
           /\ m \notin {"CONFIRMED", "FINAL_CONFIRMED", "ATTESTED"} =>
                u.phase = m /\ u.batch = t.batch /\ u.comp = t.comp
           /\ m \notin {"HOST_STAGED", "CONFIRMED", "FINAL_CONFIRMED", "ATTESTED"} =>
                u.staged = t.staged
<1>1. CASE m = "HOST_STAGED"
  BY <1>1 DEF Consume, TrackerFields
<1>2. CASE m = "CONFIRMED"
  BY <1>2 DEF Consume, TrackerFields
<1>3. CASE m = "FINAL_CONFIRMED" /\ FinalBatch(t)
  BY <1>3 DEF Consume, TrackerFields
<1>4. CASE m = "FINAL_CONFIRMED" /\ ~FinalBatch(t)
  BY <1>4 DEF Consume, TrackerFields
<1>5. CASE m = "ATTESTED"
  BY <1>5 DEF Consume, TrackerFields
<1>6. CASE m \notin {"HOST_STAGED", "CONFIRMED", "FINAL_CONFIRMED", "ATTESTED"}
  BY <1>6 DEF Consume, TrackerFields
<1> QED BY <1>1, <1>2, <1>3, <1>4, <1>5, <1>6

\* The files it names as staged once one more is.
LEMMA StagedTracker ==
    ASSUME NEW t, DOMAIN t = TrackerFields, NEW file, NEW u, u = Consume(t, "HOST_STAGED", file)
    PROVE  u.staged = [n \in DOMAIN t.staged \cup {Current(t)} |->
                          IF n = Current(t) THEN file ELSE t.staged[n]]
BY DEF Consume, TrackerFields

\* An accepted record moves a tracker from one position to another.
LEMMA MilestonePosition ==
    ASSUME NEW t, TrackOK(t), NEW m, Accepts(t, m), NEW file, NEW u, u = Consume(t, m, file)
    PROVE  /\ TrackOK(u) /\ u.phase \notin {"NOT_STARTED", "OUTCOME_UNKNOWN"}
           /\ u.phase = "COMPLETE" <=> m = "ATTESTED"
<1>0. DOMAIN t = TrackerFields /\ m \in ComponentMilestones /\ t.phase = After[m]
  BY DEF TrackOK, Accepts
<1>u. u = Consume(t, m, file)
  OBVIOUS
<1>1. m \in {"PREPARE_INTENT", "PREPARED", "COMPLETE_INTENT", "SECURE_BLOB_CAPTURED", "HOST_STAGED",
             "CONFIRM_INTENT", "CONFIRMED", "BATCH_COMMIT_INTENT", "BATCH_COMMITTED",
             "FINAL_CONFIRM_INTENT", "FINAL_CONFIRMED", "ATTESTED"}
  BY <1>0 DEF ComponentMilestones, After
<1>2. t.phase # "NOT_STARTED"
  BY <1>0, <1>1 DEF After
<1>3. CASE m \in {"PREPARE_INTENT", "PREPARED", "COMPLETE_INTENT", "SECURE_BLOB_CAPTURED"}
  <2>1. /\ DOMAIN u = TrackerFields /\ u.kind = t.kind /\ u.batches = t.batches
        /\ u.phase = m /\ u.batch = t.batch /\ u.comp = t.comp
    BY <1>0, <1>u, <1>3, MilestoneTracker
  <2> QED BY <1>2, <1>3, <2>1 DEF TrackOK, TrackerPhases
<1>4. CASE m = "HOST_STAGED"
  <2>1. /\ DOMAIN u = TrackerFields /\ u.kind = t.kind /\ u.batches = t.batches
        /\ u.phase = m /\ u.batch = t.batch /\ u.comp = t.comp
    BY <1>0, <1>u, <1>4, MilestoneTracker
  <2> QED BY <1>2, <1>4, <2>1 DEF TrackOK, TrackerPhases
<1>5. CASE m \in {"CONFIRM_INTENT", "BATCH_COMMIT_INTENT"}
  <2>1. /\ DOMAIN u = TrackerFields /\ u.kind = t.kind /\ u.batches = t.batches
        /\ u.phase = m /\ u.batch = t.batch /\ u.comp = t.comp
    BY <1>0, <1>u, <1>5, MilestoneTracker
  <2>2. /\ m = "CONFIRM_INTENT" => ~FinalComponent(t)
        /\ m = "BATCH_COMMIT_INTENT" => FinalComponent(t)
    BY DEF Accepts
  <2>3. CASE t.batches = FullPlan
    BY <1>2, <1>5, <2>1, <2>2, <2>3, FullPosition, Plans DEF TrackOK, TrackerPhases
  <2>4. CASE t.batches = FailurePlan
    BY <1>2, <1>5, <2>1, <2>2, <2>4, FailurePosition, Plans DEF TrackOK, TrackerPhases
  <2> QED BY <1>2, <2>3, <2>4, Planned
<1>6. CASE m \in {"BATCH_COMMITTED", "FINAL_CONFIRM_INTENT"}
  <2>1. /\ DOMAIN u = TrackerFields /\ u.kind = t.kind /\ u.batches = t.batches
        /\ u.phase = m /\ u.batch = t.batch /\ u.comp = t.comp
    BY <1>0, <1>u, <1>6, MilestoneTracker
  <2>2. t.phase \in {"BATCH_COMMIT_INTENT", "BATCH_COMMITTED"}
    BY <1>0, <1>6 DEF After
  <2> QED BY <1>2, <1>6, <2>1, <2>2 DEF TrackOK, TrackerPhases
<1>7. CASE m = "CONFIRMED"
  <2>1. /\ DOMAIN u = TrackerFields /\ u.kind = t.kind /\ u.batches = t.batches
        /\ u.phase = "COMPONENT_READY" /\ u.batch = t.batch /\ u.comp = t.comp + 1
    BY <1>0, <1>u, <1>7, MilestoneTracker
  <2>2. t.phase = "CONFIRM_INTENT"
    BY <1>0, <1>7 DEF After
  <2>3. t.batches = FullPlan /\ t.batch = 1 /\ t.comp = 1
    BY <1>2, <2>2, Planned DEF TrackOK
  <2>4. u.comp = 2
    BY <2>1, <2>3
  <2> QED BY <1>7, <2>1, <2>3, <2>4, Plans DEF TrackOK, TrackerPhases
<1>8. CASE m = "FINAL_CONFIRMED" /\ FinalBatch(t)
  <2>1. /\ DOMAIN u = TrackerFields /\ u.kind = t.kind /\ u.batches = t.batches
        /\ u.phase = "ATTESTATION_READY" /\ u.batch = t.batch /\ u.comp = t.comp
    BY <1>0, <1>u, <1>8, MilestoneTracker
  <2>2. t.batches = FullPlan => t.batch = 2
    BY <1>8, FullPosition
  <2> QED BY <1>2, <1>8, <2>1, <2>2, Planned, Plans DEF TrackOK, TrackerPhases
<1>9. CASE m = "FINAL_CONFIRMED" /\ ~FinalBatch(t)
  <2>1. /\ DOMAIN u = TrackerFields /\ u.kind = t.kind /\ u.batches = t.batches
        /\ u.phase = "COMPONENT_READY" /\ u.batch = t.batch + 1 /\ u.comp = 1
    BY <1>0, <1>u, <1>9, MilestoneTracker
  <2>2. t.batches = FullPlan /\ t.batch = 1
    BY <1>2, <1>9, Planned, FullPosition, FailurePosition
  <2>3. u.batch = 2
    BY <2>1, <2>2
  <2> QED BY <1>9, <2>1, <2>2, <2>3, Plans DEF TrackOK, TrackerPhases
<1>10. CASE m = "ATTESTED"
  <2>1. /\ DOMAIN u = TrackerFields /\ u.kind = t.kind /\ u.batches = t.batches
        /\ u.phase = "COMPLETE" /\ u.batch = t.batch /\ u.comp = t.comp
    BY <1>0, <1>u, <1>10, MilestoneTracker
  <2>2. t.phase = "ATTESTATION_READY"
    BY <1>0, <1>10 DEF After
  <2> QED BY <1>2, <1>10, <2>1, <2>2 DEF TrackOK, TrackerPhases
<1> QED BY <1>1, <1>3, <1>4, <1>5, <1>6, <1>7, <1>8, <1>9, <1>10

\* What a record needs of the archive to keep the agreement.
LEMMA TrackerKeeps ==
    ASSUME NEW s, NEW a, NEW h, Typed(s, a, h), Agree(s, a, h), Saving(h), h.stage \notin LocalStages,
           NEW t, TrackOK(t), t.phase \notin {"NOT_STARTED", "OUTCOME_UNKNOWN"},
           t.batches = h.tracker.batches, NEW g, g = RecordTracker(h, t),
           h.identity # Unset /\ t.batch = 1 =>
             /\ t.comp = 2 => s.dirty \subseteq {"master"}
             /\ t.phase \in {"BATCH_COMMITTED", "FINAL_CONFIRM_INTENT"} => NewUser(a.root["user"], h)
             /\ h.tracker.batch = 1
             /\ a.txn = "prepare" /\ (t.comp = 2 \/ t.phase \in {"HOST_STAGED", "CONFIRM_INTENT"})
                  => NewUser(a.files["user"], h)
             /\ "user" \in DOMAIN t.staged => NewUser(t.staged["user"], h),
           h.identity # Unset /\ t.batch = 2 =>
             s.dirty = {} /\ NewUser(a.root["user"], h) /\ a.files["user"] = Absent
    PROVE  /\ Typed(s, a, g) /\ Agree(s, a, g) /\ Baselined(h, g) /\ g.tracker = t
           /\ g.identity = h.identity /\ g.status = h.status /\ g.stage = h.stage
           /\ g.phase = IF t.phase = "COMPLETE" THEN "PERSISTENCE_READY" ELSE "PERSISTING"
<1>1. DOMAIN h = HistoryFields
  BY DEF Typed, HistOK
<1>2. /\ Baselined(h, g) /\ g.identity = h.identity /\ g.status = h.status
      /\ g.stage = h.stage /\ g.tracker = t /\ g.added = h.added
      /\ g.phase = IF t.phase = "COMPLETE" THEN "PERSISTENCE_READY"
                   ELSE IF t.phase = "OUTCOME_UNKNOWN" THEN "OUTCOME_UNKNOWN" ELSE "PERSISTING"
  BY <1>1, TrackerRecorded
<1>3. g.phase \in {"PERSISTENCE_READY", "PERSISTING"} /\ Saving(g) /\ ~Unsaved(g)
  BY <1>2 DEF Saving, Unsaved
<1>4. HistOK(g)
  BY <1>2, <1>3 DEF Typed, HistOK, Baselined, EnrollPhases
<1>5. FailureInv(s, a, g)
  BY <1>2 DEF Agree, FailureInv, Before, IdentityAtBase, Baselined
<1>6. SavingInv(s, a, g)
  BY <1>2, <1>3 DEF Agree, SavingInv, Added, Baselined
<1>7. FirstBatchInv(s, a, g)
  <2>1. \A f : NewUser(f, g) <=> NewUser(f, h)
    BY <1>2 DEF NewUser, Baselined
  <2>2. ASSUME g.identity # Unset, t.batch = 1
        PROVE  /\ a.root["user"] = h.base["user"] \/ NewUser(a.root["user"], h)
               /\ a.txn = "commit" => NewUser(a.files["user"], h)
    BY <1>2, <2>2 DEF Agree, FirstBatchInv
  <2> QED BY <1>2, <2>1, <2>2 DEF FirstBatchInv, Staged, LocalStages, Baselined
<1>8. SecondBatchInv(s, a, g)
  BY <1>2 DEF SecondBatchInv, NewUser, Baselined
<1> QED BY <1>2, <1>3, <1>4, <1>5, <1>6, <1>7, <1>8, NoLongerCapturing DEF Typed, Agree

\* The place a record is written at tells the phase its tracker is in.
LEMMA PersistMilestoneInv == ASSUME EnrollInv, PersistMilestone PROVE EnrollInv'
<1> DEFINE file == Encoded(Current(j.tracker))
           t == Consume(j.tracker, pc, file)
<1>1. /\ pc \in ComponentMilestones /\ store' = store /\ authority' = authority
      /\ AppendChecked(LegalPersistence(j) /\ Accepts(j.tracker, pc), RecordTracker(j, t), ThenPersist(pc))
  BY DEF PersistMilestone, held
<1>2. pc \in {"PREPARE_INTENT", "PREPARED", "COMPLETE_INTENT", "SECURE_BLOB_CAPTURED", "HOST_STAGED",
              "CONFIRM_INTENT", "CONFIRMED", "BATCH_COMMIT_INTENT", "BATCH_COMMITTED",
              "FINAL_CONFIRM_INTENT", "FINAL_CONFIRMED", "ATTESTED"}
  BY <1>1 DEF ComponentMilestones, After
<1>3. ThenPersist(pc) \in SavePCs
  BY <1>2 DEF ThenPersist, SavePCs, PreparedPCs, CommittedPCs
<1>4. SavePCs \subseteq PCs /\ "idle" \in PCs
  BY DEF SavePCs, PreparedPCs, CommittedPCs, PCs, ComponentMilestones, After
<1>5. pc' \in PCs => RestOK'
  BY DEF PersistMilestone, counters, held, EnrollInv, RestOK
<1>6. CASE Leave /\ j' = j
  BY <1>1, <1>4, <1>5, <1>6, LeaveInv DEF Leave
<1>7. CASE /\ LegalPersistence(j) /\ Accepts(j.tracker, pc)
           /\ j' = RecordTracker(j, t) /\ pc' = ThenPersist(pc) /\ UNCHANGED <<sep, wire>>
  <2>1. pc \in SavePCs
    BY <1>2 DEF SavePCs, PreparedPCs, CommittedPCs
  <2>2. /\ Saving(j) /\ ~Unsaved(j) /\ ~sep.capture /\ j.stage \notin LocalStages
        /\ j.identity # Unset => j.tracker.batches = FullPlan
        /\ j.identity = Unset => j.tracker.batches = FailurePlan /\ Failed(j)
        /\ j.phase # "POST_REBOOT_VERIFIED"
    BY <2>1, AtSave
  <2>3. TrackOK(j.tracker) /\ DOMAIN j.tracker = TrackerFields
    BY JournalFields
  <2>4. TrackOK(t) /\ t.phase \notin {"NOT_STARTED", "OUTCOME_UNKNOWN"} /\ (t.phase = "COMPLETE" <=> pc = "ATTESTED")
    BY <1>7, <2>3, MilestonePosition
  <2>5. /\ t.batches = j.tracker.batches
        /\ pc = "HOST_STAGED" =>
                /\ t.phase = pc /\ t.batch = j.tracker.batch /\ t.comp = j.tracker.comp
                /\ t.staged = [n \in DOMAIN j.tracker.staged \cup {Current(j.tracker)} |->
                                  IF n = Current(j.tracker) THEN file ELSE j.tracker.staged[n]]
        /\ pc = "CONFIRMED" =>
                /\ t.phase = "COMPONENT_READY" /\ t.batch = j.tracker.batch
                /\ t.comp = j.tracker.comp + 1 /\ t.staged = j.tracker.staged
        /\ pc = "FINAL_CONFIRMED" /\ FinalBatch(j.tracker) =>
                /\ t.phase = "ATTESTATION_READY" /\ t.batch = j.tracker.batch
                /\ t.comp = j.tracker.comp /\ t.staged = j.tracker.staged
        /\ pc = "FINAL_CONFIRMED" /\ ~FinalBatch(j.tracker) =>
                /\ t.phase = "COMPONENT_READY" /\ t.batch = j.tracker.batch + 1
                /\ t.comp = 1 /\ t.staged = << >>
        /\ pc = "ATTESTED" =>
                /\ t.phase = "COMPLETE" /\ t.batch = j.tracker.batch
                /\ t.comp = j.tracker.comp /\ t.staged = j.tracker.staged
        /\ pc \notin {"HOST_STAGED", "CONFIRMED", "FINAL_CONFIRMED", "ATTESTED"} =>
                /\ t.phase = pc /\ t.batch = j.tracker.batch
                /\ t.comp = j.tracker.comp /\ t.staged = j.tracker.staged
    <3>1. pc = "HOST_STAGED" =>
             t.staged = [n \in DOMAIN j.tracker.staged \cup {Current(j.tracker)} |->
                            IF n = Current(j.tracker) THEN file ELSE j.tracker.staged[n]]
      BY <2>3, StagedTracker
    <3> QED BY <1>1, <2>3, <3>1, MilestoneTracker
  <2>6. "user" \in DOMAIN t.staged /\ pc = "HOST_STAGED" /\ Current(j.tracker) = "user" =>
            NewUser(t.staged["user"], j)
    BY <2>5, EncodedUser
  <2> HIDE DEF t, file
  <2>7. /\ j.identity # Unset => FirstBatchInv(sep, store, j) /\ SecondBatchInv(sep, store, j)
        /\ SavePhaseInv /\ SavePlaceInv /\ StoreOK(store)
    BY DEF EnrollInv, Agree, Typed
  \* What holds where the record is written.
  <2>8. ASSUME j.identity # Unset, t.batch = 1
        PROVE  /\ t.comp = 2 => sep.dirty \subseteq {"master"}
               /\ t.phase \in {"BATCH_COMMITTED", "FINAL_CONFIRM_INTENT"} => NewUser(store.root["user"], j)
               /\ j.tracker.batch = 1
               /\ store.txn = "prepare" /\ (t.comp = 2 \/ t.phase \in {"HOST_STAGED", "CONFIRM_INTENT"})
                    => NewUser(store.files["user"], j)
               /\ "user" \in DOMAIN t.staged => NewUser(t.staged["user"], j)
    <3>1. /\ j.tracker.batches = FullPlan /\ j.tracker.batch \in {1, 2}
          /\ FinalBatch(j.tracker) <=> j.tracker.batch = 2
          /\ j.tracker.batch = 1 => j.tracker.comp \in {1, 2}
      BY <2>2, <2>3, <2>8, FullPosition
    <3>2. j.tracker.batch = 1 /\ (pc = "FINAL_CONFIRMED" => FALSE)
      <4>1. CASE pc = "FINAL_CONFIRMED"
        BY <2>5, <2>8, <3>1, <4>1
      <4>2. CASE pc # "FINAL_CONFIRMED"
        BY <1>2, <2>5, <2>8, <4>2
      <4> QED BY <4>1, <4>2
    <3>3. t.comp = 2 => sep.dirty \subseteq {"master"}
      <4>1. CASE pc = "CONFIRMED"
        BY <2>7, <2>8, <3>2, <4>1 DEF SavePlaceInv
      <4>2. CASE pc # "CONFIRMED"
        BY <1>2, <2>2, <2>5, <2>7, <2>8, <3>2, <4>2 DEF FirstBatchInv
      <4> QED BY <4>1, <4>2
    <3>4. t.phase \in {"BATCH_COMMITTED", "FINAL_CONFIRM_INTENT"} => NewUser(store.root["user"], j)
      <4>1. CASE pc = "BATCH_COMMITTED"
        BY <2>7, <2>8, <3>2, <4>1 DEF SavePlaceInv
      <4>2. CASE pc = "FINAL_CONFIRM_INTENT"
        <5>1. j.tracker.phase = "BATCH_COMMITTED"
          BY <2>7, <4>2 DEF SavePhaseInv
        <5> QED BY <2>2, <2>7, <2>8, <3>2, <5>1 DEF FirstBatchInv
      <4>3. CASE pc \notin {"BATCH_COMMITTED", "FINAL_CONFIRM_INTENT"}
        BY <1>2, <2>5, <3>2, <4>3
      <4> QED BY <4>1, <4>2, <4>3
    <3>5. store.txn = "prepare" /\ (t.comp = 2 \/ t.phase \in {"HOST_STAGED", "CONFIRM_INTENT"})
            => NewUser(store.files["user"], j)
      <4>1. CASE pc = "HOST_STAGED"
        BY <2>7, <2>8, <3>2, <4>1 DEF SavePlaceInv
      <4>2. CASE pc \in {"CONFIRM_INTENT", "CONFIRMED"}
        <5>1. j.tracker.phase \in {"HOST_STAGED", "CONFIRM_INTENT"}
          BY <2>7, <4>2 DEF SavePhaseInv
        <5> QED BY <2>2, <2>7, <2>8, <3>2, <5>1 DEF FirstBatchInv, Staged
      <4>3. CASE pc \notin {"HOST_STAGED", "CONFIRM_INTENT", "CONFIRMED"}
        <5>1. t.comp = j.tracker.comp /\ t.phase \notin {"HOST_STAGED", "CONFIRM_INTENT"}
          BY <1>2, <2>5, <3>2, <4>3
        <5> QED BY <2>2, <2>7, <2>8, <3>2, <5>1 DEF FirstBatchInv, Staged
      <4> QED BY <4>1, <4>2, <4>3
    <3>6. "user" \in DOMAIN t.staged => NewUser(t.staged["user"], j)
      <4>1. "user" \in DOMAIN j.tracker.staged => NewUser(j.tracker.staged["user"], j)
        BY <2>2, <2>7, <2>8, <3>2 DEF FirstBatchInv
      <4>2. CASE pc = "HOST_STAGED" /\ Current(j.tracker) # "user"
        BY <2>5, <4>1, <4>2
      <4>3. CASE pc # "HOST_STAGED"
        <5>1. t.staged = j.tracker.staged
          BY <1>2, <2>5, <3>2, <4>3
        <5> QED BY <4>1, <5>1
      <4> QED BY <2>6, <4>2, <4>3
    <3> QED BY <3>2, <3>3, <3>4, <3>5, <3>6
  <2>9. ASSUME j.identity # Unset, t.batch = 2
        PROVE  sep.dirty = {} /\ NewUser(store.root["user"], j) /\ store.files["user"] = Absent
    <3>1. /\ j.tracker.batches = FullPlan /\ j.tracker.batch \in {1, 2}
          /\ FinalBatch(j.tracker) <=> j.tracker.batch = 2
      BY <2>2, <2>3, <2>9, FullPosition
    <3>2. CASE j.tracker.batch = 2
      BY <2>2, <2>7, <2>9, <3>2 DEF SecondBatchInv
    <3>3. CASE j.tracker.batch = 1
      <4>1. pc = "FINAL_CONFIRMED"
        BY <1>2, <2>5, <2>9, <3>3
      <4>2. j.tracker.phase = "FINAL_CONFIRM_INTENT" /\ store.txn = "none"
        BY <2>7, <4>1 DEF SavePhaseInv, SavePlaceInv, CommittedPCs
      <4>3. sep.dirty = {}
        BY <2>7, <2>9, <3>3, <4>1 DEF SavePlaceInv
      <4>4. NewUser(store.root["user"], j)
        BY <2>2, <2>7, <2>9, <3>3, <4>2 DEF FirstBatchInv
      <4>5. store.files["user"] = Absent
        BY <2>7, <4>2 DEF StoreOK, Components
      <4> QED BY <4>3, <4>4, <4>5
    <3> QED BY <3>1, <3>2, <3>3
  <2>10. /\ Typed(sep, store, j') /\ Agree(sep, store, j') /\ Baselined(j, j') /\ j'.tracker = t
         /\ j'.identity = j.identity /\ j'.status = j.status /\ j'.stage = j.stage
         /\ j'.phase = IF t.phase = "COMPLETE" THEN "PERSISTENCE_READY" ELSE "PERSISTING"
    <3>1. Typed(sep, store, j) /\ Agree(sep, store, j)
      BY DEF EnrollInv
    <3>2. j' = RecordTracker(j, t) /\ t.batches = j.tracker.batches
      BY <1>7, <2>5
    <3> QED BY ONLY <2>2, <2>4, <2>8, <2>9, <3>1, <3>2, TrackerKeeps
  <2>11. CapturePlaceInv' /\ LocalInv' /\ PublishInv'
    BY <1>1, <1>3, <1>7, <2>2, <2>10, SaveSides
  <2>12. SavePhaseInv' /\ SavePlaceInv'
    <3>1. /\ pc' = ThenPersist(pc) /\ store' = store /\ sep' = sep
          /\ j'.tracker = t /\ j'.identity = j.identity
          /\ j'.phase \in {"PERSISTING", "PERSISTENCE_READY"}
          /\ pc = "ATTESTED" => j'.phase = "PERSISTENCE_READY"
      BY <1>1, <1>7, <2>4, <2>10
    <3>2. CASE pc \in {"PREPARE_INTENT", "PREPARED", "COMPLETE_INTENT", "SECURE_BLOB_CAPTURED"}
      <4>1. pc' \in {"PREPARED", "COMPLETE_INTENT", "SECURE_BLOB_CAPTURED", "stage"} /\ t.phase = pc
        BY <2>5, <3>1, <3>2 DEF ThenPersist
      <4>2. store.txn = "prepare"
        BY <2>7, <3>2 DEF SavePlaceInv, PreparedPCs
      <4>3. SavePhaseInv'
        BY <3>1, <3>2, <4>1 DEF SavePhaseInv, ThenPersist
      <4> QED BY <3>1, <4>1, <4>2, <4>3 DEF SavePlaceInv, PreparedPCs, CommittedPCs
    <3>3. CASE pc = "HOST_STAGED"
      <4>1. /\ pc' = IF FinalComponent(j.tracker) THEN "BATCH_COMMIT_INTENT" ELSE "CONFIRM_INTENT"
            /\ t.phase = "HOST_STAGED" /\ t.batch = j.tracker.batch /\ t.comp = j.tracker.comp
            /\ t.batches = j.tracker.batches
        BY <2>5, <3>1, <3>3 DEF ThenPersist
      <4>2. store.txn = "prepare"
        BY <2>7, <3>3 DEF SavePlaceInv, PreparedPCs
      <4>3. /\ ~FinalComponent(j.tracker) =>
                 j.tracker.batches = FullPlan /\ j.tracker.batch = 1 /\ j.tracker.comp = 1
            /\ FinalComponent(j.tracker) /\ j.tracker.batch = 1 /\ j.identity # Unset => j.tracker.comp = 2
        BY <2>2, <2>3, FullPosition, FailurePosition
      <4>4. SavePhaseInv'
        BY <3>1, <4>1 DEF SavePhaseInv
      <4>5. SavePlaceInv'
        BY <3>1, <4>1, <4>2, <4>3 DEF SavePlaceInv, PreparedPCs, CommittedPCs
      <4> QED BY <4>4, <4>5
    <3>4. CASE pc = "CONFIRM_INTENT"
      <4>1. pc' = "early_confirm" /\ t.phase = "CONFIRM_INTENT"
        BY <2>5, <3>1, <3>4 DEF ThenPersist
      <4>2. store.txn = "prepare"
        BY <2>7, <3>4 DEF SavePlaceInv, PreparedPCs
      <4> QED BY <3>1, <4>1, <4>2 DEF SavePhaseInv, SavePlaceInv, PreparedPCs, CommittedPCs
    <3>5. CASE pc = "CONFIRMED"
      <4>1. pc' = "PREPARE_INTENT" /\ t.phase = "COMPONENT_READY"
        BY <2>5, <3>1, <3>5 DEF ThenPersist
      <4>2. store.txn = "prepare"
        BY <2>7, <3>5 DEF SavePlaceInv, PreparedPCs
      <4> QED BY <3>1, <4>1, <4>2 DEF SavePhaseInv, SavePlaceInv, PreparedPCs, CommittedPCs
    <3>6. CASE pc = "BATCH_COMMIT_INTENT"
      <4>1. pc' = "cross" /\ t.phase = "BATCH_COMMIT_INTENT"
        BY <2>5, <3>1, <3>6 DEF ThenPersist
      <4>2. store.txn = "prepare"
        BY <2>7, <3>6 DEF SavePlaceInv, PreparedPCs
      <4> QED BY <3>1, <4>1, <4>2 DEF SavePhaseInv, SavePlaceInv, PreparedPCs, CommittedPCs
    <3>7. CASE pc = "BATCH_COMMITTED"
      <4>1. pc' = "FINAL_CONFIRM_INTENT" /\ t.phase = "BATCH_COMMITTED"
        BY <2>5, <3>1, <3>7 DEF ThenPersist
      <4>2. store.txn = "none"
        BY <2>7, <3>7 DEF SavePlaceInv, CommittedPCs
      <4> QED BY <3>1, <4>1, <4>2 DEF SavePhaseInv, SavePlaceInv, PreparedPCs, CommittedPCs
    <3>8. CASE pc = "FINAL_CONFIRM_INTENT"
      <4>1. pc' = "final_confirm" /\ t.phase = "FINAL_CONFIRM_INTENT"
        BY <2>5, <3>1, <3>8 DEF ThenPersist
      <4>2. store.txn = "none"
        BY <2>7, <3>8 DEF SavePlaceInv, CommittedPCs
      <4> QED BY <3>1, <4>1, <4>2 DEF SavePhaseInv, SavePlaceInv, PreparedPCs, CommittedPCs
    <3>9. CASE pc = "FINAL_CONFIRMED"
      <4>1. /\ pc' = IF FinalBatch(j.tracker) THEN "readback" ELSE "begin_stage"
            /\ FinalBatch(j.tracker) => t.phase = "ATTESTATION_READY"
            /\ ~FinalBatch(j.tracker) => t.phase = "COMPONENT_READY" /\ t.comp = 1
        BY <2>5, <3>1, <3>9 DEF ThenPersist
      <4>2. store.txn = "none"
        BY <2>7, <3>9 DEF SavePlaceInv, CommittedPCs
      <4> QED BY <3>1, <4>1, <4>2 DEF SavePhaseInv, SavePlaceInv, PreparedPCs, CommittedPCs
    <3>10. CASE pc = "ATTESTED"
      <4>1. pc' = "E3" /\ t.phase = "COMPLETE"
        BY <2>5, <3>1, <3>10 DEF ThenPersist
      <4>2. store.txn = "none" /\ ReadsBack
        BY <2>7, <3>10 DEF SavePlaceInv, CommittedPCs
      <4>3. ReadsBack'
        BY <2>10, <3>1, <4>2
           DEF ReadsBack, Failed, BiolockoutPersisted, NoIdentityDelta, IdentityPersisted, NewFinger,
               Baselined
      <4> QED BY <3>1, <3>10, <4>1, <4>2, <4>3 DEF SavePhaseInv, SavePlaceInv, PreparedPCs, CommittedPCs
    <3> QED BY <1>2, <3>2, <3>3, <3>4, <3>5, <3>6, <3>7, <3>8, <3>9, <3>10
  <2>13. WireOK'
    BY <1>7, <2>10, WireKept DEF Baselined
  <2>14. RestOK'
    BY <1>3, <1>4, <1>5, <1>7
  <2> QED BY <1>1, <1>7, <2>10, <2>11, <2>12, <2>13, <2>14 DEF EnrollInv
<1> QED BY <1>1, <1>6, <1>7 DEF AppendChecked

-----------------------------------------------------------------------------
(* Recovery. *)

\* What a process at one of the last places, or none, leaves alone.
LEMMA OtherPlaces ==
    ASSUME pc' \in {"idle", "local", "matched", "verify"} \cup PublishPCs, wire' = <<>>, ~sep'.capture
    PROVE  WireOK' /\ CapturePlaceInv' /\ SavePhaseInv' /\ SavePlaceInv'
BY DEF WireOK, CapturePlaceInv, SavePhaseInv, SavePlaceInv, SavePCs, PreparedPCs, CommittedPCs, PublishPCs

\* No capture runs there, and nothing is on the wire.
LEMMA AtRest ==
    ASSUME EnrollInv, pc \in {"idle", "local", "matched", "verify"} \cup PublishPCs
    PROVE  wire = <<>> /\ ~sep.capture
<1>1. wire = <<>>
  BY DEF EnrollInv, CapturePlaceInv, PublishInv
<1>2. ~sep.capture
  BY DEF EnrollInv, CapturePlaceInv, CapturePCs, PublishPCs
<1> QED BY <1>1, <1>2

\* A finger that is accounted for is journaled as added.
LEMMA ReconciledIsKept ==
    ASSUME EnrollInv, j.phase = "RECONCILED", j.identity # Unset
    PROVE  /\ FingerKept(j) /\ j.added /\ j.stage \notin LocalStages /\ j.identity \notin j.ids
           /\ sep.dirty = {} /\ ~sep.capture /\ store.txn = "none" /\ HostIds(store.root) = sep.ids
           /\ sep.ids = j.ids \cup {j.identity} \/ (j.version = 1 /\ sep.ids = j.ids)
<1>1. j.added
  BY DEF EnrollInv, Agree, ClosedInv
<1>2. FingerKept(j)
  BY <1>1 DEF FingerKept
<1>3. j.stage \notin LocalStages
  BY <1>1 DEF EnrollInv, LocalInv
<1> QED BY <1>1, <1>2, <1>3 DEF EnrollInv, Agree, ClosedInv

\* The tracker once an early confirm is known to have happened.
LEMMA EarlyConfirmRecorded ==
    ASSUME NEW h, DOMAIN h = HistoryFields, DOMAIN h.tracker = TrackerFields,
           NEW g, g = RecordEarlyConfirm(h)
    PROVE  /\ Baselined(h, g) /\ g.phase = "TERMINAL_IDENTITY" /\ g.identity = h.identity
           /\ g.status = h.status /\ g.stage = h.stage /\ g.added = h.added
           /\ g.tracker = ConsumeEarlyConfirm(h.tracker)
BY DEF RecordEarlyConfirm, HistoryFields, Baselined

LEMMA EarlyConfirmTracker ==
    ASSUME NEW t, DOMAIN t = TrackerFields, NEW u, u = ConsumeEarlyConfirm(t)
    PROVE  /\ DOMAIN u = TrackerFields /\ u.kind = t.kind /\ u.phase = "COMPONENT_READY"
           /\ u.batches = t.batches /\ u.batch = t.batch /\ u.comp = t.comp + 1
           /\ u.staged = t.staged /\ u.stage = "none"
BY DEF ConsumeEarlyConfirm, TrackerFields

\* The early confirm of the first component is all the owner was missing.
LEMMA RecoverEarlyConfirmInv == ASSUME EnrollInv, RecoverEarlyConfirm PROVE EnrollInv'
<1>1. /\ pc = "idle" /\ pc' = "plan" /\ j' = RecordEarlyConfirm(j)
      /\ UNCHANGED <<sep, wire, store, authority>>
      /\ j.phase = "OUTCOME_UNKNOWN" /\ j.identity # Unset /\ j.stage = "terminal"
      /\ AcceptsEarlyConfirm(j.tracker)
      /\ store.txn = "prepare" /\ sep.dirty = {"master"}
      /\ "user" \in StagedNames(j.tracker) => store.files["user"] = j.tracker.staged["user"]
  BY DEF RecoverEarlyConfirm, LegalEarlyConfirm, held, Components
<1>2. RestOK'
  BY DEF RecoverEarlyConfirm, counters, held, EnrollInv, RestOK, PCs
<1>3. /\ TrackOK(j.tracker) /\ DOMAIN j = HistoryFields /\ DOMAIN j.tracker = TrackerFields
  BY JournalFields
<1>4. j.tracker.phase = "OUTCOME_UNKNOWN" /\ ~FinalComponent(j.tracker)
      /\ Current(j.tracker) \in StagedNames(j.tracker)
  BY <1>1 DEF AcceptsEarlyConfirm
<1>5. Saving(j) /\ ~Unsaved(j) /\ ~sep.capture /\ wire = <<>>
  BY <1>1, <1>4, AtRest DEF Saving, Unsaved
<1>6. j.tracker.batches = FullPlan /\ j.tracker.batch = 1 /\ j.tracker.comp = 1
      /\ Current(j.tracker) = "user"
  <2>1. j.tracker.batches # FailurePlan
    BY <1>1, <1>5 DEF EnrollInv, Agree, SavingInv
  <2>2. j.tracker.batches = FullPlan
    BY <1>3, <1>4, <2>1, Planned
  <2> QED BY <1>3, <1>4, <2>2, FullPosition
<1>7. NewUser(store.files["user"], j) /\ NewUser(j.tracker.staged["user"], j)
  <2>1. NewUser(j.tracker.staged["user"], j)
    BY <1>1, <1>4, <1>5, <1>6 DEF EnrollInv, Agree, FirstBatchInv, StagedNames
  <2> QED BY <1>1, <1>4, <1>6, <2>1
<1>8. /\ Baselined(j, j') /\ j'.phase = "TERMINAL_IDENTITY" /\ j'.identity = j.identity
      /\ j'.status = j.status /\ j'.stage = j.stage /\ j'.added = j.added
      /\ j'.tracker = ConsumeEarlyConfirm(j.tracker)
  BY <1>1, <1>3, EarlyConfirmRecorded
<1>9. /\ DOMAIN j'.tracker = TrackerFields /\ j'.tracker.kind = j.tracker.kind
      /\ j'.tracker.phase = "COMPONENT_READY" /\ j'.tracker.batches = j.tracker.batches
      /\ j'.tracker.batch = j.tracker.batch /\ j'.tracker.comp = j.tracker.comp + 1
      /\ j'.tracker.staged = j.tracker.staged /\ j'.tracker.stage = "none"
  BY <1>3, <1>8, EarlyConfirmTracker
<1>10. j'.tracker.batches = FullPlan /\ j'.tracker.batch = 1 /\ j'.tracker.comp = 2
  BY <1>6, <1>9
<1>11. HistOK(j')
  <2>1. TrackOK(j'.tracker)
    BY <1>3, <1>9, <1>10, Plans DEF TrackOK, TrackerPhases
  <2>2. DOMAIN j' = HistoryFields
    BY <1>8 DEF Baselined
  <2> QED BY <1>8, <2>1, <2>2 DEF EnrollInv, Typed, HistOK, Baselined, EnrollPhases
<1>12. Saving(j') /\ ~Unsaved(j')
  BY <1>8, <1>9 DEF Saving, Unsaved
<1>13. FailureInv(sep, store, j') /\ SecondBatchInv(sep, store, j')
  BY <1>1, <1>8, <1>10 DEF FailureInv, SecondBatchInv
<1>14. SavingInv(sep, store, j')
  BY <1>1, <1>5, <1>8, <1>9, <1>10, <1>12, Plans DEF EnrollInv, Agree, SavingInv, Added, Baselined
<1>15. FirstBatchInv(sep, store, j')
  <2>1. \A f : NewUser(f, j') <=> NewUser(f, j)
    BY <1>8 DEF NewUser, Baselined
  <2>2. store.root["user"] = j.base["user"] \/ NewUser(store.root["user"], j)
    BY <1>1, <1>5, <1>6 DEF EnrollInv, Agree, FirstBatchInv
  <2>3. j'.stage # "local-commit-rolled-forward"
    BY <1>1, <1>8
  <2> QED BY <1>1, <1>7, <1>8, <1>9, <2>1, <2>2, <2>3 DEF FirstBatchInv, Staged, Baselined
<1>16. Typed(sep, store, j') /\ Agree(sep, store, j')
  BY <1>11, <1>12, <1>13, <1>14, <1>15, NoLongerCapturing DEF Typed, Agree, EnrollInv
<1>17. SavePhaseInv' /\ SavePlaceInv' /\ LocalInv' /\ PublishInv'
  BY <1>1, <1>8, CaptureSides DEF CapturePlaces, LocalStages
<1>18. CapturePlaceInv'
  BY <1>1, <1>5, <1>8 DEF CapturePlaceInv
<1> QED BY <1>1, <1>2, <1>5, <1>16, <1>17, <1>18, WireEmpty DEF EnrollInv

\* A save whose readback is unknown had reached the last batch.
LEMMA ReconcileUnknownInv == ASSUME EnrollInv, ReconcileUnknown PROVE EnrollInv'
<1>1. /\ pc = "idle" /\ pc' = "idle" /\ UNCHANGED <<sep, wire, store, authority>>
      /\ j.phase = "OUTCOME_UNKNOWN"
  BY DEF ReconcileUnknown, held
<1>2. RestOK'
  BY DEF ReconcileUnknown, counters, held, EnrollInv, RestOK
<1>3. wire = <<>> /\ ~sep.capture
  BY <1>1, AtRest
<1>4. DOMAIN j = HistoryFields /\ TrackOK(j.tracker)
  BY JournalFields
<1>5. Typed(sep, store, j)
  BY DEF EnrollInv
<1>6. /\ Typed(sep, store, j') /\ Agree(sep, store, j') /\ Baselined(j, j') /\ j'.stage = j.stage
      /\ j'.phase = "RECONCILED"
      /\ j'.stage \in LocalStages => ~j'.added
  <2>1. CASE /\ ReadbackUnknown(j) /\ j.identity # Unset /\ IdentityPersisted
             /\ j' = RecordReconciled(j, TRUE, store.root)
    <3>1. j.tracker.phase = "OUTCOME_UNKNOWN" /\ j.tracker.stage = "readback"
      BY <2>1 DEF ReadbackUnknown
    <3>2. Saving(j) /\ ~Unsaved(j)
      BY <1>1, <3>1 DEF Saving, Unsaved
    <3>3. sep.ids = j.ids \cup {j.identity} /\ j.identity \notin j.ids /\ j.tracker.batches # FailurePlan
      BY <2>1, <3>2 DEF EnrollInv, Agree, SavingInv, Added
    <3>4. j.tracker.batch = 2
      BY <1>4, <3>1, <3>3, Planned DEF TrackOK
    <3>5. sep.dirty = {}
      BY <2>1, <3>2, <3>4 DEF EnrollInv, Agree, SecondBatchInv
    <3>6. store.txn = "none" /\ HostIds(store.root) = sep.ids
      BY <2>1 DEF IdentityPersisted
    <3>7. Typed(sep, store, j') /\ Agree(sep, store, j')
      BY <1>3, <1>5, <2>1, <3>3, <3>5, <3>6, AddedKeeps
    <3>8. j' = RecordReconciled(j, TRUE, store.root)
      BY <2>1
    <3>9. Baselined(j, j') /\ j'.stage = j.stage /\ j'.phase = "RECONCILED"
      BY ONLY <1>4, <3>8 DEF RecordReconciled, HistoryFields, Baselined
    <3>10. j.stage \notin LocalStages
      BY <1>1, <3>1 DEF EnrollInv, LocalInv
    <3> QED BY <3>7, <3>9, <3>10
  <2>2. CASE /\ IF ReadbackUnknown(j) /\ Failed(j) THEN BiolockoutPersisted ELSE NoChange
             /\ j' = RecordReconciled(j, FALSE, store.root)
    <3>1. store.txn = "none" /\ sep.ids = j.ids /\ IdentityAtBase(store, j)
      BY <2>2 DEF BiolockoutPersisted, NoChange, NoIdentityDelta, IdentityAtBase
    <3>2. j.identity = Unset /\ Before(sep, j)
      <4>1. CASE Unsaved(j)
        <5>1. Capturing(j)
          BY <1>1, <4>1 DEF Capturing
        <5>2. j.identity = Unset /\ Found(sep, j)
          BY <5>1 DEF EnrollInv, Agree, CapturingInv
        <5>3. ~OneMore(sep, j)
          BY <3>1 DEF OneMore
        <5> QED BY <5>2, <5>3 DEF Found
      <4>2. CASE ~Unsaved(j)
        <5>1. Saving(j)
          BY <1>1, <4>2 DEF Saving
        <5>2. j.identity # Unset => sep.ids = j.ids \cup {j.identity} /\ j.identity \notin j.ids
          BY <5>1 DEF EnrollInv, Agree, SavingInv, Added
        <5>3. j.identity = Unset
          BY <3>1, <5>2
        <5> QED BY <5>1, <5>3 DEF EnrollInv, Agree, FailureInv
      <4> QED BY <4>1, <4>2
    <3>3. Typed(sep, store, j') /\ Agree(sep, store, j')
      BY <1>3, <1>5, <2>2, <3>1, <3>2, UnchangedKeeps
    <3>4. j' = RecordReconciled(j, FALSE, store.root)
      BY <2>2
    <3>5. Baselined(j, j') /\ j'.stage = j.stage /\ j'.phase = "RECONCILED" /\ ~j'.added
      BY ONLY <1>4, <3>4 DEF RecordReconciled, HistoryFields, Baselined
    <3> QED BY <3>3, <3>5
  <2> QED BY <2>1, <2>2 DEF ReconcileUnknown
<1>7. LocalInv'
  BY <1>1, <1>6 DEF LocalInv
<1>8. PublishInv'
  BY <1>1, <1>3, <1>6 DEF EnrollInv, PublishInv, PublishPCs, Baselined
<1> QED BY <1>1, <1>2, <1>3, <1>6, <1>7, <1>8, OtherPlaces DEF EnrollInv

\* The direction of a local recovery is journaled before any file is touched.
LEMMA RecoverLocalInv == ASSUME EnrollInv, RecoverLocal PROVE EnrollInv'
<1>1. /\ pc = "idle" /\ pc' = "local" /\ UNCHANGED <<sep, wire, store, authority>>
      /\ store.txn # "none" /\ j.tracker.batches # <<>>
      /\ \/ LegalUnknown(j, LocalDirection) /\ j' = RecordUnknown(j, LocalDirection)
         \/ j.phase = "OUTCOME_UNKNOWN" /\ j.stage = LocalDirection /\ j' = j
  BY DEF RecoverLocal, held
<1>2. RestOK'
  BY DEF RecoverLocal, counters, held, EnrollInv, RestOK, PCs
<1>3. wire = <<>> /\ ~sep.capture
  BY <1>1, AtRest
<1>4. DOMAIN j = HistoryFields /\ TrackOK(j.tracker)
  BY JournalFields
<1>5. ~Unsaved(j)
  BY <1>1, <1>4 DEF TrackOK, Unsaved
<1>6. LocalDirection' = LocalDirection /\ LocalDirection \in LocalStages
  BY <1>1 DEF LocalDirection, LocalStages
<1>7. store.txn \in {"prepare", "commit"}
  BY <1>1 DEF EnrollInv, Typed, StoreOK
<1>8. /\ Typed(sep, store, j') /\ Agree(sep, store, j') /\ Baselined(j, j')
      /\ j'.phase = "OUTCOME_UNKNOWN" /\ j'.stage = LocalDirection
      /\ j'.tracker = j.tracker /\ j'.tracker.phase # "OUTCOME_UNKNOWN"
  <2>1. CASE LegalUnknown(j, LocalDirection) /\ j' = RecordUnknown(j, LocalDirection)
    <3>1. j.phase = "PERSISTING"
      BY <1>6, <2>1 DEF LegalUnknown
    <3>2. /\ Baselined(j, j') /\ j'.phase = "OUTCOME_UNKNOWN" /\ j'.identity = j.identity
          /\ j'.status = j.status /\ j'.stage = LocalDirection /\ j'.tracker = j.tracker
          /\ j'.added = j.added
      BY <1>4, <2>1, UnknownRecorded
    <3>3. Saving(j) /\ Saving(j') /\ ~Unsaved(j')
      BY <1>5, <3>1, <3>2 DEF Saving, Unsaved
    <3>4. j.tracker.phase # "OUTCOME_UNKNOWN"
      BY <3>1, <3>3 DEF EnrollInv, Agree, SavingInv
    <3>5. HistOK(j')
      BY <3>2, HistKept DEF EnrollInv, Typed, HistOK, EnrollPhases
    <3>6. FailureInv(sep, store, j') /\ SecondBatchInv(sep, store, j')
      BY <3>2, <3>3
         DEF EnrollInv, Agree, FailureInv, SecondBatchInv, Before, IdentityAtBase, NewUser, Baselined
    <3>7. SavingInv(sep, store, j')
      BY <3>2, <3>3 DEF EnrollInv, Agree, SavingInv, Added, Baselined
    <3>8. FirstBatchInv(sep, store, j')
      <4>1. j'.stage = "local-commit-rolled-forward" => store.txn = "commit"
        BY <1>7, <3>2 DEF LocalDirection
      <4> QED BY <3>2, <3>3, <4>1 DEF EnrollInv, Agree, FirstBatchInv, NewUser, Staged, Baselined
    <3> QED BY <3>2, <3>3, <3>4, <3>5, <3>6, <3>7, <3>8, NoLongerCapturing
            DEF EnrollInv, Typed, Agree
  <2>2. CASE j.phase = "OUTCOME_UNKNOWN" /\ j.stage = LocalDirection /\ j' = j
    <3>1. j.tracker.phase # "OUTCOME_UNKNOWN"
      BY <1>6, <2>2 DEF EnrollInv, LocalInv
    <3> QED BY <2>2, <3>1, StillBaselined DEF EnrollInv
  <2> QED BY <1>1, <2>1, <2>2
<1>9. LocalInv'
  BY <1>1, <1>5, <1>6, <1>8 DEF LocalInv, Unsaved
<1>10. PublishInv'
  <2>1. j.phase # "POST_REBOOT_VERIFIED"
    BY <1>1, <1>6 DEF LegalUnknown
  <2> QED BY <1>1, <1>3, <1>8, <2>1 DEF EnrollInv, PublishInv, PublishPCs, Baselined
<1> QED BY <1>1, <1>2, <1>3, <1>8, <1>9, <1>10, OtherPlaces DEF EnrollInv

LEMMA DiscardedKeeps ==
    ASSUME NEW s, NEW a, NEW h, Typed(s, a, h), Agree(s, a, h), Saving(h), ~Unsaved(h),
           h.stage # "local-commit-rolled-forward",
           NEW b, b = [a EXCEPT !.txn = "none", !.files = NoFiles]
    PROVE  Typed(s, b, h) /\ Agree(s, b, h)
<1>1. /\ DOMAIN b = {"root", "txn", "files"} /\ b.txn = "none" /\ b.root = a.root
      /\ b.files = NoFiles
  BY DEF Typed, StoreOK
<1>2. DOMAIN b.files = Components /\ \A n \in Components : b.files[n] = Absent
  BY <1>1 DEF NoFiles
<1>3. StoreOK(b)
  BY <1>1, <1>2 DEF Typed, StoreOK
<1>4. b.files["user"] = Absent /\ b.files["master"] = Absent
  BY <1>2 DEF Components
<1>5. FailureInv(s, b, h) /\ SecondBatchInv(s, b, h)
  BY <1>1, <1>4 DEF Agree, FailureInv, SecondBatchInv, IdentityAtBase
<1>6. SavingInv(s, b, h) /\ FirstBatchInv(s, b, h)
  BY <1>1 DEF Agree, SavingInv, FirstBatchInv, AtBase
<1> QED BY <1>3, <1>5, <1>6, NoLongerCapturing DEF Typed, Agree

\* A commit is rolled forward and a prepare discarded, never the other way.
LEMMA ApplyLocalInv == ASSUME EnrollInv, ApplyLocal PROVE EnrollInv'
<1>1. /\ pc = "local" /\ pc' = "idle" /\ UNCHANGED <<sep, wire, j, authority>>
      /\ \/ store.txn = "commit" /\ store' = RolledForward(store)
         \/ store.txn = "prepare" /\ store' = [store EXCEPT !.txn = "none", !.files = NoFiles]
         \/ store' = store
  BY DEF ApplyLocal, held
<1>2. RestOK'
  BY DEF ApplyLocal, counters, held, EnrollInv, RestOK, PCs
<1>3. wire = <<>> /\ ~sep.capture
  BY <1>1, AtRest
<1>4. j.phase = "OUTCOME_UNKNOWN" /\ ~Unsaved(j) /\ j.stage = LocalDirection
  BY <1>1 DEF EnrollInv, LocalInv
<1>5. Saving(j)
  BY <1>4 DEF Saving
<1>6. Typed(sep, store, j) /\ Agree(sep, store, j)
  BY DEF EnrollInv
<1>7. Typed(sep, store', j) /\ Agree(sep, store', j)
  <2>1. CASE store.txn = "commit" /\ store' = RolledForward(store)
    BY ONLY <1>4, <1>5, <1>6, <2>1, RolledForwardKeeps
  <2>2. CASE store.txn = "prepare" /\ store' = [store EXCEPT !.txn = "none", !.files = NoFiles]
    <3>1. j.stage # "local-commit-rolled-forward"
      BY <1>4, <2>2 DEF LocalDirection
    <3> QED BY ONLY <1>4, <1>5, <1>6, <2>2, <3>1, DiscardedKeeps
  <2>3. CASE store' = store
    BY <1>6, <2>3
  <2> QED BY <1>1, <2>1, <2>2, <2>3
<1>8. LocalInv' /\ PublishInv'
  BY <1>1 DEF EnrollInv, LocalInv, PublishInv, PublishPCs
<1> QED BY <1>1, <1>2, <1>3, <1>7, <1>8, OtherPlaces DEF EnrollInv

-----------------------------------------------------------------------------
(* Verification and publication. *)

\* The journal of a kept finger after a further record.
LEMMA FinalRecorded ==
    ASSUME NEW h, DOMAIN h = HistoryFields, NEW p, NEW g, g = RecordFinal(h, p)
    PROVE  /\ Baselined(h, g) /\ g.phase = p /\ g.identity = h.identity /\ g.status = h.status
           /\ g.stage = h.stage /\ g.tracker = h.tracker /\ g.added = h.added
BY PhaseRecorded DEF RecordFinal

LEMMA FinalKeeps ==
    ASSUME EnrollInv, j.phase = "RECONCILED", j.identity # Unset,
           NEW p, \/ p \in {"ADDITION_VERIFIED", "ADDITION_ROLLED_BACK"} /\ j.version = 1
                  \/ p = "POST_REBOOT_VERIFIED" /\ sep.ids = j.ids \cup {j.identity},
           NEW g, g = RecordFinal(j, p)
    PROVE  /\ Typed(sep, store, g) /\ Agree(sep, store, g)
           /\ Baselined(j, g) /\ g.phase = p /\ g.stage = j.stage /\ FingerKept(g)
<1>1. /\ Baselined(j, g) /\ g.phase = p /\ g.identity = j.identity /\ g.status = j.status
      /\ g.stage = j.stage /\ g.tracker = j.tracker /\ g.added = j.added
  BY JournalFields, FinalRecorded
<1>2. /\ j.identity \notin j.ids
      /\ sep.dirty = {} /\ ~sep.capture /\ store.txn = "none" /\ HostIds(store.root) = sep.ids
      /\ sep.ids = j.ids \cup {j.identity} \/ (j.version = 1 /\ sep.ids = j.ids)
  BY ReconciledIsKept
<1>3. ~Saving(g) /\ ~Capturing(g) /\ g.phase \notin Opened /\ FingerKept(g)
  BY <1>1 DEF Saving, Capturing, CapturePhases, Opened, FingerKept
<1>4. HistOK(g)
  BY <1>1, HistKept DEF EnrollInv, Typed, HistOK, EnrollPhases
<1>5. ClosedInv(sep, store, g)
  BY <1>1, <1>2 DEF ClosedInv, Baselined, Before
<1> QED BY <1>1, <1>3, <1>4, <1>5
        DEF EnrollInv, Typed, Agree, OpenedInv, CapturingInv, FailureInv, SavingInv, FirstBatchInv,
            SecondBatchInv

\* The readback finds the finger, and nothing is published for it yet.
LEMMA VerifiedInv == ASSUME EnrollInv, VerifyRuntime \/ VerifyPostReboot PROVE EnrollInv'
<1>1. /\ pc \in {"verify", "idle"} /\ UNCHANGED <<sep, wire, store, authority>>
      /\ \/ /\ LegalVerified(j) /\ ReproducesE3 /\ j' = RecordFinal(j, "POST_REBOOT_VERIFIED")
            /\ pc' = "idle" \/ (pc' = "publish_copy" /\ j.version = 2)
         \/ j' = j /\ pc' = "idle"
  <2>1. CASE VerifyRuntime
    BY <2>1 DEF VerifyRuntime, held, EnrollInv, PublishInv
  <2>2. CASE VerifyPostReboot
    BY <2>2 DEF VerifyPostReboot, PendingPostReboot, held
  <2> QED BY <2>1, <2>2
<1>2. RestOK'
  BY DEF VerifyRuntime, VerifyPostReboot, counters, held, EnrollInv, RestOK, PCs
<1>3. wire = <<>> /\ ~sep.capture
  BY <1>1, AtRest
<1>4. CASE /\ LegalVerified(j) /\ ReproducesE3 /\ j' = RecordFinal(j, "POST_REBOOT_VERIFIED")
           /\ pc' = "idle" \/ (pc' = "publish_copy" /\ j.version = 2)
  <2>1. j.phase = "RECONCILED" /\ j.identity # Unset
    BY <1>4 DEF LegalVerified
  <2>2. sep.ids = j.ids \cup {j.identity}
    BY <1>4 DEF ReproducesE3, IdentityPersisted, NewFinger
  <2>3. j.stage \notin LocalStages
    BY <2>1, ReconciledIsKept
  <2>4. /\ Typed(sep, store, j') /\ Agree(sep, store, j')
        /\ Baselined(j, j') /\ j'.phase = "POST_REBOOT_VERIFIED" /\ j'.stage = j.stage
    BY <1>4, <2>1, <2>2, FinalKeeps
  <2>5. LocalInv'
    BY <1>4, <2>3, <2>4 DEF LocalInv
  <2>6. PublishInv'
    BY <1>1, <1>3, <1>4, <2>1, <2>4 DEF EnrollInv, PublishInv, PublishPCs, Baselined
  <2>7. pc' \in {"idle", "local", "matched", "verify"} \cup PublishPCs
    BY <1>4 DEF PublishPCs
  <2> QED BY <1>1, <1>2, <1>3, <2>4, <2>5, <2>6, <2>7, OtherPlaces DEF EnrollInv
<1>5. CASE j' = j /\ pc' = "idle"
  <2>1. LocalInv' /\ PublishInv'
    BY <1>1, <1>5 DEF EnrollInv, LocalInv, PublishInv, PublishPCs
  <2> QED BY <1>1, <1>2, <1>3, <1>5, <2>1, OtherPlaces DEF EnrollInv
<1> QED BY <1>1, <1>4, <1>5

\* The copy and the manifest are written one after the other, and only the last step publishes.
LEMMA PublishStepInv == ASSUME EnrollInv, Publish PROVE EnrollInv'
<1>1. UNCHANGED <<sep, wire, store, j>>
  BY DEF Publish
<1>2. pc \in PublishPCs
  BY DEF Publish, WriteExclusive, FinishWrite, PublishPCs
<1>3. wire = <<>> /\ ~sep.capture
  BY <1>2, AtRest
<1>4. /\ authority \in [copy : {Absent, Torn, "journal"}, temp : {Absent, Torn, "manifest"}, published : BOOLEAN]
      /\ ~authority.published /\ j.phase = "POST_REBOOT_VERIFIED" /\ j.version = 2
      /\ pc \in {"publish_temp", "temp_write", "publish_replace"} => authority.copy = "journal"
  BY <1>2 DEF EnrollInv, RestOK, PublishInv
<1>5. /\ authority' \in [copy : {Absent, Torn, "journal"}, temp : {Absent, Torn, "manifest"}, published : BOOLEAN]
      /\ pc' \in {"idle"} \cup PublishPCs
      /\ pc' \in PublishPCs => ~authority'.published
      /\ pc' \in {"publish_temp", "temp_write", "publish_replace"} => authority'.copy = "journal"
      /\ authority'.published => authority'.copy = "journal"
  <2>1. CASE WriteExclusive("copy", "publish_copy", "copy_write", "publish_temp")
    <3>1. CASE authority.copy = Absent /\ authority' = [authority EXCEPT !.copy = Torn] /\ pc' = "copy_write"
      BY <1>4, <3>1 DEF PublishPCs
    <3>2. CASE authority' = authority /\ pc' = "idle"
      BY <1>4, <3>2 DEF PublishPCs
    <3>3. CASE authority.copy \notin {Absent, Torn} /\ authority' = authority /\ pc' = "publish_temp"
      BY <1>4, <3>3 DEF PublishPCs
    <3> QED BY <2>1, <3>1, <3>2, <3>3 DEF WriteExclusive
  <2>2. CASE FinishWrite("copy", "journal", "copy_write", "publish_temp")
    <3>1. authority' = [authority EXCEPT !.copy = "journal"] /\ pc' = "publish_temp"
      BY <2>2 DEF FinishWrite
    <3> QED BY <1>4, <3>1 DEF PublishPCs
  <2>3. CASE WriteExclusive("temp", "publish_temp", "temp_write", "publish_replace")
    <3>1. authority.copy = "journal"
      BY <1>4, <2>3 DEF WriteExclusive
    <3>2. \/ authority' = [authority EXCEPT !.temp = Torn] /\ pc' = "temp_write"
          \/ authority' = authority /\ pc' \in {"idle", "publish_replace"}
      BY <2>3 DEF WriteExclusive
    <3> QED BY <1>4, <3>1, <3>2 DEF PublishPCs
  <2>4. CASE FinishWrite("temp", "manifest", "temp_write", "publish_replace")
    <3>1. /\ authority' = [authority EXCEPT !.temp = "manifest"] /\ pc' = "publish_replace"
          /\ authority.copy = "journal"
      BY <1>4, <2>4 DEF FinishWrite
    <3> QED BY <1>4, <3>1 DEF PublishPCs
  <2>5. CASE pc = "publish_replace" /\ authority' = Published(authority) /\ pc' = "idle"
    <3>1. authority' = [copy |-> "journal", temp |-> Absent, published |-> TRUE]
      BY <2>5 DEF Published
    <3> QED BY <2>5, <3>1 DEF PublishPCs
  <2> QED BY <2>1, <2>2, <2>3, <2>4, <2>5 DEF Publish
<1>6. RestOK'
  BY <1>5 DEF Publish, counters, EnrollInv, RestOK, PCs, PublishPCs
<1>7. j.stage \notin LocalStages
  BY <1>4 DEF EnrollInv, LocalInv
<1>8. LocalInv' /\ PublishInv'
  BY <1>1, <1>3, <1>4, <1>5, <1>7 DEF LocalInv, PublishInv, PublishPCs
<1>9. pc' \in {"idle", "local", "matched", "verify"} \cup PublishPCs
  BY <1>5
<1> QED BY <1>1, <1>3, <1>6, <1>8, <1>9, OtherPlaces DEF EnrollInv

LEMMA PublishFailsInv == ASSUME EnrollInv, PublishFails PROVE EnrollInv'
<1>1. /\ UNCHANGED <<sep, wire, store, j>> /\ pc' = "idle" /\ pc \in PublishPCs
      /\ \/ authority' = [authority EXCEPT !.copy = Absent]
         \/ authority' = [authority EXCEPT !.temp = Absent]
  BY DEF PublishFails, PublishPCs
<1>2. wire = <<>> /\ ~sep.capture
  BY <1>1, AtRest
<1>3. /\ authority \in [copy : {Absent, Torn, "journal"}, temp : {Absent, Torn, "manifest"}, published : BOOLEAN]
      /\ ~authority.published /\ j.phase = "POST_REBOOT_VERIFIED"
  BY <1>1 DEF EnrollInv, RestOK, PublishInv
<1>4. /\ authority' \in [copy : {Absent, Torn, "journal"}, temp : {Absent, Torn, "manifest"}, published : BOOLEAN]
      /\ ~authority'.published
  BY <1>1, <1>3
<1>5. RestOK'
  BY <1>4 DEF PublishFails, Fails, counters, EnrollInv, RestOK, PCs
<1>6. j.stage \notin LocalStages
  BY <1>3 DEF EnrollInv, LocalInv
<1>7. LocalInv' /\ PublishInv'
  BY <1>1, <1>4, <1>6 DEF LocalInv, PublishInv, PublishPCs
<1> QED BY <1>1, <1>2, <1>5, <1>7, OtherPlaces DEF EnrollInv

LEMMA RecoverPublicationInv == ASSUME EnrollInv, RecoverPublication PROVE EnrollInv'
<1>1. /\ UNCHANGED <<sep, wire, store, j, authority>> /\ pc = "idle" /\ pc' = "publish_copy"
      /\ ~authority.published /\ j.phase = "POST_REBOOT_VERIFIED" /\ j.version = 2
  BY DEF RecoverPublication, PendingPublication, held
<1>2. wire = <<>> /\ ~sep.capture
  BY <1>1, AtRest
<1>3. RestOK'
  BY DEF RecoverPublication, counters, held, EnrollInv, RestOK, PCs
<1>4. j.stage \notin LocalStages
  BY <1>1 DEF EnrollInv, LocalInv
<1>5. LocalInv' /\ PublishInv'
  BY <1>1, <1>2, <1>4 DEF LocalInv, PublishInv, PublishPCs
<1>6. pc' \in PublishPCs
  BY <1>1 DEF PublishPCs
<1> QED BY <1>1, <1>2, <1>3, <1>5, <1>6, OtherPlaces DEF EnrollInv

-----------------------------------------------------------------------------
(* The match of an additional finger, or its rollback. *)

LEMMA AdditionMatchInv == ASSUME EnrollInv, AdditionMatch PROVE EnrollInv'
<1>1. /\ UNCHANGED <<sep, wire, j, authority>> /\ pc = "idle" /\ pc' = "matched"
      /\ j.phase = "RECONCILED" /\ j.identity # Unset /\ j.version = 1
      /\ store' = [store EXCEPT !.root["biolockout"] = [save |-> saves + 1]]
  BY DEF AdditionMatch, LegalAdditionVerified
<1>2. wire = <<>> /\ ~sep.capture
  BY <1>1, AtRest
<1>3. RestOK'
  BY DEF AdditionMatch, held, EnrollInv, RestOK, PCs
<1>4. FingerKept(j) /\ j.added /\ j.stage \notin LocalStages /\ store.txn = "none"
  BY <1>1, ReconciledIsKept
<1>5. /\ StoreOK(store') /\ store'.txn = store.txn /\ store'.files = store.files
      /\ store'.root["user"] = store.root["user"]
  BY <1>1 DEF EnrollInv, Typed, StoreOK, Components
<1>6. HostIds(store'.root) = HostIds(store.root)
  BY <1>5 DEF HostIds
<1>7. ~Saving(j) /\ ~Capturing(j) /\ j.phase \notin Opened
  BY <1>1 DEF Saving, Capturing, CapturePhases, Opened
<1>8. ClosedInv(sep, store', j)
  BY <1>4, <1>5, <1>6 DEF EnrollInv, Agree, ClosedInv
<1>9. Typed(sep, store', j) /\ Agree(sep, store', j)
  BY <1>5, <1>7, <1>8
     DEF EnrollInv, Typed, Agree, OpenedInv, CapturingInv, FailureInv, SavingInv, FirstBatchInv,
         SecondBatchInv
<1>10. LocalInv' /\ PublishInv'
  BY <1>1, <1>2, <1>4 DEF EnrollInv, LocalInv, PublishInv, PublishPCs, FingerKept
<1> QED BY <1>1, <1>2, <1>3, <1>9, <1>10, OtherPlaces DEF EnrollInv

LEMMA AdditionVerifiedInv == ASSUME EnrollInv, AdditionVerified PROVE EnrollInv'
<1>1. /\ UNCHANGED <<store, authority>> /\ pc = "matched"
      /\ AppendChecked(LegalAdditionVerified(j, boot), RecordFinal(j, "ADDITION_VERIFIED"), "idle")
  BY DEF AdditionVerified, held
<1>2. wire = <<>> /\ ~sep.capture
  BY <1>1, AtRest
<1>3. RestOK'
  BY DEF AdditionVerified, AppendChecked, Leave, counters, held, EnrollInv, RestOK, PCs
<1>4. CASE Leave /\ j' = j
  BY <1>1, <1>3, <1>4, LeaveInv
<1>5. CASE /\ LegalAdditionVerified(j, boot) /\ j' = RecordFinal(j, "ADDITION_VERIFIED")
           /\ pc' = "idle" /\ UNCHANGED <<sep, wire>>
  <2>1. j.phase = "RECONCILED" /\ j.identity # Unset /\ j.version = 1
    BY <1>5 DEF LegalAdditionVerified
  <2>2. j.stage \notin LocalStages
    BY <2>1, ReconciledIsKept
  <2>3. /\ Typed(sep, store, j') /\ Agree(sep, store, j')
        /\ Baselined(j, j') /\ j'.phase = "ADDITION_VERIFIED" /\ j'.stage = j.stage
    BY <1>5, <2>1, FinalKeeps
  <2>4. LocalInv' /\ PublishInv'
    BY <1>1, <1>5, <2>1, <2>2, <2>3 DEF EnrollInv, LocalInv, PublishInv, PublishPCs, Baselined
  <2> QED BY <1>1, <1>2, <1>3, <1>5, <2>3, <2>4, OtherPlaces DEF EnrollInv
<1> QED BY <1>1, <1>4, <1>5 DEF AppendChecked

\* It takes no lock: a process may be anywhere a reconciled addition lets it be.
LEMMA ReconcileSavedMatchInv == ASSUME EnrollInv, ReconcileSavedMatch PROVE EnrollInv'
<1>1. /\ UNCHANGED <<sep, wire, pc, store, authority>>
      /\ j' = RecordFinal(j, "ADDITION_VERIFIED")
      /\ j.phase = "RECONCILED" /\ j.identity # Unset /\ j.version = 1
  BY DEF ReconcileSavedMatch, LegalAdditionVerified, held
<1>2. RestOK'
  BY DEF ReconcileSavedMatch, counters, held, EnrollInv, RestOK
<1>3. j.stage \notin LocalStages /\ ~sep.capture
  BY <1>1, ReconciledIsKept
<1>4. /\ Typed(sep, store, j') /\ Agree(sep, store, j') /\ FingerKept(j')
      /\ Baselined(j, j') /\ j'.phase = "ADDITION_VERIFIED" /\ j'.stage = j.stage
  BY <1>1, FinalKeeps
<1>5. pc \notin SavePCs
  BY <1>1 DEF EnrollInv, SavePhaseInv
<1>6. pc \in {"idle", "matched"} \/ pc \notin (CapturePCs \cup PublishPCs \cup
          {"dispatch", "start", "START_REJECTED", "witness_readback", "finalize", "plan", "local", "verify"})
  <2>1. pc \notin CapturePCs \cup {"dispatch", "start", "START_REJECTED", "witness_readback", "finalize", "plan"}
    BY <1>1 DEF EnrollInv, CapturePlaceInv, CapturePCs
  <2>2. pc \notin PublishPCs \cup {"local", "verify"}
    BY <1>1 DEF EnrollInv, PublishInv, LocalInv
  <2> QED BY <2>1, <2>2
<1>7. CapturePlaceInv'
  BY <1>1, <1>3, <1>6 DEF EnrollInv, CapturePlaceInv, CapturePCs
<1>8. SavePhaseInv' /\ SavePlaceInv'
  BY <1>1, <1>5 DEF SavePhaseInv, SavePlaceInv, SavePCs, PreparedPCs, CommittedPCs
<1>9. LocalInv' /\ PublishInv'
  BY <1>1, <1>3, <1>4, <1>6 DEF EnrollInv, LocalInv, PublishInv, PublishPCs, Baselined
<1>10. WireOK'
  BY <1>1, <1>4, WireKept DEF Baselined
<1> QED BY <1>1, <1>2, <1>4, <1>7, <1>8, <1>9, <1>10 DEF EnrollInv

\* The deletion takes back what the enrollment added, on both sides.
LEMMA RollbackDeleteInv == ASSUME EnrollInv, RollbackDelete PROVE EnrollInv'
<1> DEFINE left == sep.ids \ {j.identity}
<1>1. /\ UNCHANGED <<wire, j, authority, pc>> /\ pc = "idle"
      /\ j.phase = "RECONCILED" /\ j.identity # Unset /\ j.version = 1
      /\ j.identity \in sep.ids
      /\ sep' = [sep EXCEPT !.ids = left]
      /\ store' = [store EXCEPT !.root["user"] = [ids |-> left, save |-> saves + 1],
                                !.root["master"] = [count |-> @.count - 1, save |-> saves + 1]]
  BY DEF RollbackDelete, LegalRolledBack, held
<1>2. wire = <<>> /\ ~sep.capture
  BY <1>1, AtRest
<1>3. RestOK'
  BY DEF RollbackDelete, held, EnrollInv, RestOK
<1>4. /\ FingerKept(j) /\ j.added /\ j.stage \notin LocalStages /\ j.identity \notin j.ids
      /\ sep.dirty = {} /\ store.txn = "none"
      /\ sep.ids = j.ids \cup {j.identity} \/ sep.ids = j.ids
  BY <1>1, ReconciledIsKept
<1>5. left = j.ids /\ left \in SUBSET Ids
  BY <1>1, <1>4 DEF EnrollInv, Typed, SepOK
<1> HIDE DEF left
<1>6. SepOK(sep') /\ sep'.ids = left /\ sep'.dirty = {} /\ ~sep'.capture
  BY <1>1, <1>2, <1>4, <1>5 DEF EnrollInv, Typed, SepOK
<1>7. /\ StoreOK(store') /\ store'.txn = store.txn /\ store'.files = store.files
      /\ store'.root["user"] = [ids |-> left, save |-> saves + 1]
  BY <1>1 DEF EnrollInv, Typed, StoreOK, Components
<1>8. saves + 1 \in Nat
  BY DEF EnrollInv, RestOK
<1>9. HostIds(store'.root) = left
  <2>1. store'.root["user"] \in [ids : SUBSET Ids, save : Nat]
    BY <1>5, <1>7, <1>8
  <2>2. store'.root["user"] # Absent
    BY <2>1, EnrollmentNames
  <2>3. store'.root["user"].ids = left
    BY <1>7
  <2> QED BY <2>2, <2>3 DEF HostIds
<1>10. ~Saving(j) /\ ~Capturing(j) /\ j.phase \notin Opened
  BY <1>1 DEF Saving, Capturing, CapturePhases, Opened
<1>11. ClosedInv(sep', store', j)
  BY <1>1, <1>4, <1>5, <1>6, <1>7, <1>9 DEF ClosedInv
<1>12. Typed(sep', store', j) /\ Agree(sep', store', j)
  BY <1>6, <1>7, <1>10, <1>11
     DEF EnrollInv, Typed, Agree, OpenedInv, CapturingInv, FailureInv, SavingInv, FirstBatchInv,
         SecondBatchInv
<1>13. LocalInv' /\ PublishInv'
  BY <1>1, <1>2, <1>4 DEF EnrollInv, LocalInv, PublishInv, PublishPCs
<1> QED BY <1>1, <1>2, <1>3, <1>6, <1>12, <1>13, OtherPlaces DEF EnrollInv

LEMMA CloseRollbackInv == ASSUME EnrollInv, CloseRollback PROVE EnrollInv'
<1>1. /\ UNCHANGED <<sep, wire, pc, store, authority>> /\ pc = "idle"
      /\ j.phase = "RECONCILED" /\ j.identity # Unset /\ j.version = 1
      /\ j' = RecordFinal(j, "ADDITION_ROLLED_BACK")
  BY DEF CloseRollback, LegalRolledBack, held
<1>2. wire = <<>> /\ ~sep.capture
  BY <1>1, AtRest
<1>3. RestOK'
  BY DEF CloseRollback, counters, held, EnrollInv, RestOK
<1>4. j.stage \notin LocalStages
  BY <1>1, ReconciledIsKept
<1>5. /\ Typed(sep, store, j') /\ Agree(sep, store, j')
      /\ Baselined(j, j') /\ j'.phase = "ADDITION_ROLLED_BACK" /\ j'.stage = j.stage
  BY <1>1, FinalKeeps
<1>6. LocalInv' /\ PublishInv'
  BY <1>1, <1>4, <1>5 DEF EnrollInv, LocalInv, PublishInv, PublishPCs, Baselined
<1> QED BY <1>1, <1>2, <1>3, <1>5, <1>6, OtherPlaces DEF EnrollInv

-----------------------------------------------------------------------------
(* The machine restarts. *)

\* Entries not yet synced are lost, and nothing that is published.
LEMMA RebootInv == ASSUME EnrollInv, Reboot PROVE EnrollInv'
<1>1. /\ j' = j /\ pc' = "idle" /\ wire' = <<>> /\ sep' \in Closed(sep)
      /\ authority' \in LostEntries
      /\ store' = store \/ (pc = "roll_forward" /\ store' = [store EXCEPT !.txn = "prepare"])
  BY DEF Reboot, Leave, Disconnect
<1>2. authority \in [copy : {Absent, Torn, "journal"}, temp : {Absent, Torn, "manifest"}, published : BOOLEAN]
  BY DEF EnrollInv, RestOK
<1>3. /\ authority' \in [copy : {Absent, Torn, "journal"}, temp : {Absent, Torn, "manifest"}, published : BOOLEAN]
      /\ authority'.published => authority' = authority
  <2>1. CASE authority.published
    BY <1>1, <1>2, <2>1 DEF LostEntries
  <2>2. CASE ~authority.published
    <3>1. PICK c \in {authority.copy, Absent}, t \in {authority.temp, Absent} :
            authority' = [authority EXCEPT !.copy = c, !.temp = t]
      BY <1>1, <2>2 DEF LostEntries
    <3> QED BY <1>2, <2>2, <3>1
  <2> QED BY <2>1, <2>2
<1>4. RestOK'
  BY <1>1, <1>3 DEF Reboot, Fails, EnrollInv, RestOK, PCs
<1>5. Typed(sep, store', j) /\ Agree(sep, store', j)
  <2>1. CASE store' = store
    BY <2>1 DEF EnrollInv
  <2>2. CASE pc = "roll_forward" /\ store' = [store EXCEPT !.txn = "prepare"]
    <3>1. /\ DOMAIN store' = {"root", "txn", "files"} /\ store'.txn = "prepare"
          /\ store'.root = store.root /\ store'.files = store.files
      BY <2>2, TxnSet DEF EnrollInv, Typed, StoreOK
    <3>2. Saving(j) /\ ~Unsaved(j) /\ j.stage \notin LocalStages
      BY <2>2, AtSave DEF SavePCs
    <3>3. store.txn = "commit"
      BY <2>2 DEF EnrollInv, SavePlaceInv
    <3>4. StoreOK(store')
      BY <3>1 DEF EnrollInv, Typed, StoreOK
    <3>5. FailureInv(sep, store', j) /\ SecondBatchInv(sep, store', j)
      BY <3>1 DEF EnrollInv, Agree, FailureInv, SecondBatchInv, IdentityAtBase
    <3>6. SavingInv(sep, store', j)
      BY <3>2 DEF EnrollInv, Agree, SavingInv
    <3>7. FirstBatchInv(sep, store', j)
      BY <3>1, <3>2, <3>3 DEF EnrollInv, Agree, FirstBatchInv, LocalStages
    <3> QED BY <3>2, <3>4, <3>5, <3>6, <3>7, NoLongerCapturing DEF EnrollInv, Typed, Agree
  <2> QED BY <1>1, <2>1, <2>2
<1>6. sep.capture => j.phase \in CapturePhases
  BY DEF EnrollInv, CapturePlaceInv
<1>7. Typed(sep', store', j) /\ Agree(sep', store', j) /\ ~sep'.capture
  BY <1>1, <1>5, <1>6, ClosedKeeps
<1>8. LocalInv' /\ PublishInv'
  BY <1>1, <1>3 DEF EnrollInv, LocalInv, PublishInv, PublishPCs
<1> QED BY <1>1, <1>4, <1>7, <1>8, IdlePlaces DEF EnrollInv

-----------------------------------------------------------------------------
(* The invariant. *)

LEMMA InitialInv == EnrollInit => EnrollInv
<1> SUFFICES ASSUME EnrollInit PROVE EnrollInv
  OBVIOUS
<1>1. /\ SepOK(sep) /\ sep.dirty = {} /\ ~sep.capture
      /\ StoreOK(store) /\ store.txn = "none" /\ HostIds(store.root) = sep.ids
      /\ native \in BOOLEAN
      /\ authority \in [copy : {Absent, Torn, "journal"}, temp : {Absent, Torn, "manifest"}, published : BOOLEAN]
      /\ authority.published => authority.copy = "journal" /\ sep.ids # {}
  <2>1. CASE \E uuid \in BOOLEAN :
               /\ sep = [ids |-> {}, dirty |-> {}, capture |-> FALSE, uuid |-> uuid]
               /\ store = [root |-> EmptyRoot, txn |-> "none", files |-> NoFiles]
               /\ native = TRUE /\ authority = NoAuthority
    <3>1. SepOK(sep) /\ sep.dirty = {} /\ ~sep.capture /\ sep.ids = {}
      BY <2>1 DEF SepOK
    <3>2. StoreOK(store) /\ store.txn = "none"
      BY <2>1 DEF StoreOK, EmptyRoot, NoFiles
    <3>3. HostIds(store.root) = {}
      BY <2>1 DEF HostIds, EmptyRoot, Components
    <3>4. /\ authority \in [copy : {Absent, Torn, "journal"}, temp : {Absent, Torn, "manifest"}, published : BOOLEAN]
          /\ ~authority.published
      BY <2>1 DEF NoAuthority
    <3> QED BY <2>1, <3>1, <3>2, <3>3, <3>4
  <2>2. CASE \E id \in Ids :
               /\ sep = [ids |-> {id}, dirty |-> {}, capture |-> FALSE, uuid |-> TRUE]
               /\ store = [root |-> RootOf({id}), txn |-> "none", files |-> NoFiles]
               /\ native \in BOOLEAN
               /\ authority = IF native THEN Published(NoAuthority) ELSE NoAuthority
    <3>0. PICK id \in Ids :
            /\ sep = [ids |-> {id}, dirty |-> {}, capture |-> FALSE, uuid |-> TRUE]
            /\ store = [root |-> RootOf({id}), txn |-> "none", files |-> NoFiles]
            /\ native \in BOOLEAN
            /\ authority = IF native THEN Published(NoAuthority) ELSE NoAuthority
      BY <2>2
    <3>1. SepOK(sep) /\ sep.dirty = {} /\ ~sep.capture /\ sep.ids = {id}
      BY <3>0 DEF SepOK
    <3>2. StoreOK(store) /\ store.txn = "none"
      BY <3>0 DEF StoreOK, RootOf, NoFiles
    <3>3. store.root["user"] = [ids |-> {id}, save |-> 0]
      BY <3>0 DEF RootOf, Components
    <3>4. store.root["user"] \in [ids : SUBSET Ids, save : Nat]
      BY <3>3
    <3>5. store.root["user"] # Absent
      BY <3>4, EnrollmentNames
    <3>6. HostIds(store.root) = {id}
      BY <3>3, <3>5 DEF HostIds
    <3>7. /\ authority \in [copy : {Absent, Torn, "journal"}, temp : {Absent, Torn, "manifest"}, published : BOOLEAN]
          /\ authority.published => authority.copy = "journal"
      <4>1. CASE native
        BY <3>0, <4>1 DEF Published
      <4>2. CASE ~native
        BY <3>0, <4>2 DEF NoAuthority
      <4> QED BY <4>1, <4>2
    <3> QED BY <3>0, <3>1, <3>2, <3>6, <3>7
  <2> QED BY <2>1, <2>2 DEF EnrollInit
<1>2. /\ wire = <<>> /\ pc = "idle" /\ boot = 0 /\ failures = 0 /\ ops = 0
      /\ saves = 0 /\ starts = 0 /\ events = 0 /\ j = NewEnrollment(1, store.root, sep.ids, 0)
  BY DEF EnrollInit
<1>3. /\ DOMAIN j = HistoryFields /\ j.phase = "BASELINE" /\ j.version = 1
      /\ j.base = store.root /\ j.ids = sep.ids /\ j.identity = Unset
      /\ j.status = Unset /\ j.stage = Unset /\ j.added \in BOOLEAN
      /\ TrackOK(j.tracker) /\ Unsaved(j)
  BY ONLY <1>2, Opening
<1>4. HistOK(j)
  BY <1>1, <1>3 DEF HistOK, EnrollPhases, SepOK
<1>5. j.phase \in Opened /\ ~Capturing(j) /\ ~Saving(j) /\ ~FingerKept(j)
  BY <1>3 DEF Opened, Capturing, CapturePhases, Saving, FingerKept
<1>6. Agree(sep, store, j)
  BY <1>1, <1>3, <1>5
     DEF Agree, OpenedInv, CapturingInv, FailureInv, SavingInv, ClosedInv, FirstBatchInv,
         SecondBatchInv, Before, AtBase
<1>7. WireOK
  BY <1>2 DEF WireOK
<1>8. RestOK
  <2>1. saved = FALSE
    BY DEF EnrollInit
  <2>2. saved \in BOOLEAN
    BY ONLY <2>1
  <2>3. events \in 0..EventLimit
    BY <1>2, EnrollmentBounds
  <2>4. boot \in Nat /\ failures \in Nat /\ ops \in Nat /\ saves \in Nat /\ starts \in Nat
    BY <1>2
  <2> QED BY <1>1, <1>2, <2>2, <2>3, <2>4 DEF RestOK, PCs
<1>9. CapturePlaceInv /\ SavePhaseInv /\ SavePlaceInv
  BY <1>1, <1>2 DEF CapturePlaceInv, SavePhaseInv, SavePlaceInv, SavePCs, PreparedPCs, CommittedPCs
<1>10. LocalInv /\ PublishInv
  BY <1>1, <1>2, <1>3, EnrollmentNames DEF LocalInv, PublishInv, PublishPCs
<1> QED BY <1>1, <1>4, <1>6, <1>7, <1>8, <1>9, <1>10 DEF EnrollInv, Typed

LEMMA StutterInv == ASSUME EnrollInv, UNCHANGED enrollVars PROVE EnrollInv'
<1>1. /\ sep' = sep /\ wire' = wire /\ store' = store /\ j' = j /\ native' = native
      /\ authority' = authority /\ saved' = saved /\ pc' = pc /\ stage' = stage
      /\ events' = events /\ boot' = boot /\ failures' = failures /\ ops' = ops
      /\ saves' = saves /\ starts' = starts
  BY DEF enrollVars, held
<1>2. Typed(sep', store', j') /\ Agree(sep', store', j')
  BY <1>1 DEF EnrollInv
<1>3. WireOK'
  BY <1>1, WireKept
<1>4. RestOK'
  BY <1>1 DEF EnrollInv, RestOK
<1>5. CapturePlaceInv' /\ SavePhaseInv' /\ LocalInv' /\ PublishInv'
  BY <1>1 DEF EnrollInv, CapturePlaceInv, SavePhaseInv, LocalInv, LocalDirection, PublishInv,
              Unsaved, Before, FingerKept
<1>6. ReadsBack' <=> ReadsBack
  BY <1>1 DEF ReadsBack, Failed, BiolockoutPersisted, NoIdentityDelta, IdentityPersisted, NewFinger
<1>7. SavePlaceInv'
  BY <1>1, <1>6 DEF EnrollInv, SavePlaceInv, NewUser
<1> QED BY <1>2, <1>3, <1>4, <1>5, <1>7 DEF EnrollInv

LEMMA CaptureStepsInv == ASSUME EnrollInv, Capture PROVE EnrollInv'
BY DispatchInv, SendStartInv, StartRejectedInv, AnswerInv, RequestCancelInv, SendCancelInv,
   ProtocolErrorInv, TakeBadInv, TakeFeedbackInv, TakeProgressInv, SendContinueInv, TakeIdentityInv,
   TakeWitnessInv, TakeFailureInv, CleanupInv, CleanupCancelInv, CaptureUnknownInv DEF Capture

LEMMA PersistStepsInv == ASSUME EnrollInv, Persist PROVE EnrollInv'
BY ReconnectInv, WitnessReadbackInv, FinalizeUnchangedInv, FinalizeSaveInv, PlanInv, BeginStageInv,
   PersistMilestoneInv, StageCreateInv, StageWriteInv, ConfirmComponentInv, CrossInv, RollForwardInv,
   ReadbackInv, ReconcileInv DEF Persist

LEMMA FailureStepsInv == ASSUME EnrollInv, Failure PROVE EnrollInv'
BY AbortBeforeStartInv, SendStartFailsInv, CaptureUnknownInv, ProtocolErrorInv, CleanupCancelFailsInv,
   QuietFailuresInv, BeginStageFailsInv, PersistCallFailsInv, ConfirmFailsInv, PublishFailsInv,
   RebootInv DEF Failure

\* The journal, the SEP, the archive and the place the process is at agree at every step.
THEOREM EnrollmentInvariant == EnrollSpec => []EnrollInv
<1>1. EnrollInit => EnrollInv
  BY InitialInv
<1>2. ASSUME EnrollInv, [EnrollNext]_enrollVars PROVE EnrollInv'
  <2>1. CASE Recovery
    BY <1>2, <2>1, ReconcileUnknownInv, RecoverIdentityInv, RecoverEarlyConfirmInv, RecoverLocalInv,
       ApplyLocalInv, RecoverPublicationInv DEF Recovery
  <2>2. CASE Verification
    BY <1>2, <2>2, VerifiedInv, PublishStepInv DEF Verification
  <2>3. CASE \/ AdditionMatch \/ AdditionVerified \/ ReconcileSavedMatch \/ RollbackDelete
             \/ CloseRollback
    BY <1>2, <2>3, AdditionMatchInv, AdditionVerifiedInv, ReconcileSavedMatchInv, RollbackDeleteInv,
       CloseRollbackInv
  <2> QED BY <1>2, <2>1, <2>2, <2>3, RunEnrollmentInv, SensorReportsInv, CaptureStepsInv,
             PersistStepsInv, FailureStepsInv, StutterInv DEF EnrollNext
<1> QED BY <1>1, <1>2, PTL DEF EnrollSpec

-----------------------------------------------------------------------------
(* What follows from it. *)

\* The plan of the tracker has the component the tracker is at.
LEMMA PositionInPlan ==
    ASSUME NEW t, TrackOK(t), t.batches # <<>>
    PROVE  t.batch \in DOMAIN t.batches /\ t.comp \in DOMAIN t.batches[t.batch]
<1>1. t.batches = FullPlan \/ t.batches = FailurePlan
  BY DEF TrackOK
<1>2. CASE t.batches = FullPlan
  <2>1. (t.batch = 1 /\ t.comp \in {1, 2}) \/ (t.batch = 2 /\ t.comp = 1)
    BY <1>2 DEF TrackOK
  <2>2. DOMAIN FullPlan = {1, 2} /\ DOMAIN FullPlan[1] = {1, 2} /\ DOMAIN FullPlan[2] = {1}
    BY DEF FullPlan
  <2> QED BY <1>2, <2>1, <2>2
<1>3. CASE t.batches = FailurePlan
  <2>1. t.batch = 1 /\ t.comp = 1
    BY <1>3, Plans DEF TrackOK
  <2>2. DOMAIN FailurePlan = {1} /\ DOMAIN FailurePlan[1] = {1}
    BY DEF FailurePlan
  <2> QED BY <1>3, <2>1, <2>2
<1> QED BY <1>1, <1>2, <1>3

LEMMA EnrollTyped == ASSUME EnrollInv PROVE EnrollTypeOK
<1>1. /\ sep.ids \subseteq Ids /\ sep.dirty \subseteq Components
      /\ store.txn \in {"none", "prepare", "commit"}
      /\ j.phase \in EnrollPhases /\ j.version \in {1, 2}
      /\ j.identity \in Ids \cup {Unset} /\ j.status \in Statuses \cup {Unset}
      /\ j.tracker.phase \in TrackerPhases
  BY DEF EnrollInv, Typed, SepOK, StoreOK, HistOK, TrackOK
<1>2. Len(wire) <= 2
  BY DEF EnrollInv, WireOK
<1>3. j.tracker.batches # <<>> =>
          /\ j.tracker.batch \in DOMAIN j.tracker.batches
          /\ j.tracker.comp \in DOMAIN j.tracker.batches[j.tracker.batch]
  BY JournalFields, PositionInPlan
<1>4. /\ {native, saved, authority.published} \subseteq BOOLEAN
      /\ authority.copy \in {Absent, Torn, "journal"} /\ authority.temp \in {Absent, Torn, "manifest"}
      /\ pc \in PCs /\ events \in 0..EventLimit
      /\ {boot, failures, ops, saves, starts} \subseteq Nat
  BY DEF EnrollInv, RestOK
<1> QED BY <1>1, <1>2, <1>3, <1>4 DEF EnrollTypeOK

\* The phases a journal is opened, captures, saves and is closed in.
LEMMA PhaseOfJournal ==
    ASSUME EnrollInv
    PROVE  \/ j.phase \in Opened
           \/ Capturing(j)
           \/ Saving(j)
           \/ FingerKept(j)
           \/ j.phase = "RECONCILED" /\ ~j.added
BY DEF EnrollInv, Typed, HistOK, EnrollPhases, Opened, Capturing, CapturePhases, Saving, FingerKept, Unsaved

LEMMA KeptOutcome ==
    ASSUME EnrollInv, FingerKept(j), ~RolledBack
    PROVE  /\ j.identity # Unset /\ sep.ids = j.ids \cup {j.identity} /\ sep.dirty = {}
           /\ HostIds(store.root) = sep.ids /\ store.txn = "none"
BY DEF EnrollInv, Agree, ClosedInv, RolledBack

\* On neither side is a finger of the baseline ever missing.
LEMMA BaselineHeld ==
    ASSUME EnrollInv
    PROVE  j.ids \subseteq sep.ids /\ j.ids \subseteq HostIds(store.root)
<1>1. j.ids \subseteq Ids /\ HostIds(j.base) = j.ids
  BY DEF EnrollInv, Typed, HistOK
<1>2. store.root["user"] = j.base["user"] => HostIds(store.root) = j.ids
  BY <1>1 DEF HostIds
<1>3. CASE j.phase \in Opened \/ Capturing(j)
  BY <1>1, <1>3 DEF EnrollInv, Agree, OpenedInv, CapturingInv, Found, OneMore, Before, AtBase
<1>4. CASE Saving(j) /\ j.identity = Unset
  BY <1>2, <1>4 DEF EnrollInv, Agree, FailureInv, Before, IdentityAtBase
<1>5. CASE Saving(j) /\ j.identity # Unset
  <2>1. sep.ids = j.ids \cup {j.identity}
    BY <1>5 DEF EnrollInv, Agree, SavingInv, Added
  <2>2. j.identity \in Ids
    BY <1>5 DEF EnrollInv, Typed, HistOK
  <2>3. j.tracker.batch = 1 \/ j.tracker.batch = 2
    BY JournalFields DEF TrackOK
  <2>4. store.root["user"] = j.base["user"] \/ NewUser(store.root["user"], j)
    BY <1>5, <2>3 DEF EnrollInv, Agree, FirstBatchInv, SecondBatchInv
  <2>5. NewUser(store.root["user"], j) => HostIds(store.root) = j.ids \cup {j.identity}
    BY <1>1, <2>2, NewUserPresent DEF HostIds
  <2> QED BY <1>2, <2>1, <2>4, <2>5
<1>6. CASE FingerKept(j)
  BY <1>6 DEF EnrollInv, Agree, ClosedInv
<1>7. CASE j.phase = "RECONCILED" /\ ~j.added
  BY <1>2, <1>7 DEF EnrollInv, Agree, ClosedInv, Before, IdentityAtBase
<1> QED BY <1>3, <1>4, <1>5, <1>6, <1>7, PhaseOfJournal

LEMMA ReconciledIsSound == ASSUME EnrollInv PROVE ReconciledSound
<1>1. ASSUME \/ j.phase = "RECONCILED" /\ j.added /\ ~RolledBack
             \/ j.phase = "ADDITION_VERIFIED" /\ ~RolledBack
             \/ j.phase = "POST_REBOOT_VERIFIED"
      PROVE  /\ sep.ids = j.ids \cup {j.identity} /\ sep.dirty = {}
             /\ HostIds(store.root) = sep.ids /\ store.txn = "none"
  <2>1. FingerKept(j)
    BY <1>1 DEF FingerKept
  <2>2. CASE ~RolledBack
    BY <2>1, <2>2, KeptOutcome
  <2>3. CASE j.phase = "POST_REBOOT_VERIFIED"
    BY <2>1, <2>3 DEF EnrollInv, Agree, ClosedInv
  <2> QED BY <1>1, <2>2, <2>3
<1>2. ASSUME j.phase = "RECONCILED", ~j.added
      PROVE  /\ sep.ids = j.ids /\ sep.dirty = {} /\ ~sep.capture
             /\ store.root["user"] = j.base["user"] /\ store.root["master"] = j.base["master"]
             /\ store.txn = "none"
  BY <1>2 DEF EnrollInv, Agree, ClosedInv, Before, IdentityAtBase
<1> QED BY <1>1, <1>2 DEF ReconciledSound

LEMMA PublishedBacked == ASSUME EnrollInv PROVE PublishedIsBacked
<1> SUFFICES ASSUME authority.published
             PROVE  /\ authority.copy = "journal"
                    /\ j.version = 2 => j.phase = "POST_REBOOT_VERIFIED"
                    /\ sep.ids \cap HostIds(store.root) # {}
  BY DEF PublishedIsBacked
<1>1. /\ authority.copy = "journal"
      /\ j.version = 1 => j.ids # {}
      /\ j.version = 2 => j.phase = "POST_REBOOT_VERIFIED"
  BY DEF EnrollInv, PublishInv
<1>2. CASE j.version = 1
  BY <1>1, <1>2, BaselineHeld
<1>3. CASE j.version = 2
  <2>1. FingerKept(j) /\ j.phase = "POST_REBOOT_VERIFIED"
    BY <1>1, <1>3 DEF FingerKept
  <2>2. HostIds(store.root) = sep.ids /\ sep.ids = j.ids \cup {j.identity}
    BY <2>1 DEF EnrollInv, Agree, ClosedInv
  <2> QED BY <1>1, <2>2
<1>4. j.version \in {1, 2}
  BY DEF EnrollInv, Typed, HistOK
<1> QED BY <1>1, <1>2, <1>3, <1>4

\* What a closed enrollment reports (append_reconciled and the verifications of
\* t2_enrollment_reconciliation), and what t2_user_authority publishes of it, is in the
\* SEP and in the host archive: OutcomesHold.
THEOREM EnrollmentOutcomes == EnrollSpec => []OutcomesHold
<1>1. EnrollInv => OutcomesHold
  BY EnrollTyped, ReconciledIsSound, PublishedBacked DEF OutcomesHold
<1> QED BY <1>1, EnrollmentInvariant, PTL

LEMMA OwnedInconsistency == ASSUME EnrollInv PROVE InconsistencyIsOwned
<1> SUFFICES ASSUME CompletePhase(j)
             PROVE  /\ sep.ids = HostIds(store.root) /\ sep.dirty = {}
                    /\ store.txn = "none" /\ ~sep.capture
  BY DEF InconsistencyIsOwned
<1>1. HostIds(j.base) = j.ids
  BY DEF EnrollInv, Typed, HistOK
<1>2. CASE j.phase \in Opened
  BY <1>1, <1>2 DEF EnrollInv, Agree, OpenedInv, Before, AtBase
<1>3. CASE FingerKept(j)
  BY <1>3 DEF EnrollInv, Agree, ClosedInv
<1>4. CASE j.phase = "RECONCILED" /\ ~j.added
  <2>1. store.root["user"] = j.base["user"]
    BY <1>4 DEF EnrollInv, Agree, ClosedInv, IdentityAtBase
  <2> QED BY <1>1, <1>4, <2>1 DEF EnrollInv, Agree, ClosedInv, Before, HostIds
<1> QED BY <1>2, <1>3, <1>4 DEF CompletePhase, Opened, FingerKept

LEMMA DurableCommit == ASSUME EnrollInv PROVE CommittedIsDurable
<1> SUFFICES ASSUME j.identity # Unset, BatchCommitted, ~RolledBack
             PROVE  \/ j.identity \in HostIds(store.root)
                    \/ store.txn = "commit" /\ j.identity \in HostIds(RolledForward(store).root)
  BY DEF CommittedIsDurable
<1>1. j.ids \subseteq Ids /\ j.identity \in Ids /\ StoreOK(store)
  BY DEF EnrollInv, Typed, HistOK
<1>2. \A f : NewUser(f, j) => f # Absent /\ f.ids = j.ids \cup {j.identity}
  BY <1>1, NewUserPresent
<1>3. CASE FingerKept(j)
  BY <1>3, KeptOutcome
<1>4. CASE Saving(j)
  <2>1. \/ NewUser(store.root["user"], j)
        \/ store.txn = "commit" /\ NewUser(store.files["user"], j)
    <3>1. TrackOK(j.tracker)
      BY JournalFields
    <3>2. j.tracker.batch = 1 \/ j.tracker.batch = 2
      BY <3>1 DEF TrackOK
    <3>3. CASE j.tracker.batch = 2
      BY <1>4, <3>3 DEF EnrollInv, Agree, SecondBatchInv
    <3>4. CASE j.tracker.batch = 1
      <4>1. j.tracker.phase # "COMPLETE"
        <5>1. ASSUME j.tracker.phase = "COMPLETE" PROVE FALSE
          <6>1. j.tracker.batches = FullPlan
            BY <1>4, <3>1, <5>1, Planned DEF EnrollInv, Agree, SavingInv
          <6> QED BY <3>1, <3>4, <5>1, <6>1 DEF TrackOK
        <5> QED BY <5>1
      <4>2. \/ j.tracker.phase \in {"BATCH_COMMITTED", "FINAL_CONFIRM_INTENT"}
            \/ j.stage = "local-commit-rolled-forward"
        BY <3>4, <4>1 DEF BatchCommitted
      <4>3. /\ j.tracker.phase \in {"BATCH_COMMITTED", "FINAL_CONFIRM_INTENT"} => NewUser(store.root["user"], j)
            /\ store.txn = "commit" => NewUser(store.files["user"], j)
            /\ j.stage = "local-commit-rolled-forward" =>
                 NewUser(store.root["user"], j) \/ store.txn = "commit"
        BY <1>4, <3>4 DEF EnrollInv, Agree, FirstBatchInv
      <4> QED BY <4>2, <4>3
    <3> QED BY <3>2, <3>3, <3>4
  <2>2. CASE NewUser(store.root["user"], j)
    BY <1>2, <2>2 DEF HostIds
  <2>3. CASE store.txn = "commit" /\ NewUser(store.files["user"], j)
    <3>1. store.files["user"] # Absent
      BY <1>2, <2>3
    <3>2. RolledForward(store).root["user"] = store.files["user"]
      BY <1>1, <3>1, RolledForwardStore DEF Components
    <3> QED BY <1>2, <2>3, <3>2 DEF HostIds
  <2> QED BY <2>1, <2>2, <2>3
<1>5. FingerKept(j) \/ Saving(j)
  BY PhaseOfJournal DEF EnrollInv, Agree, OpenedInv, CapturingInv, ClosedInv
<1> QED BY <1>3, <1>4, <1>5

\* No step sends the start again: every other action leaves the count alone or, for a
\* journal of its own, takes it back to zero.
LEMMA StartStep ==
    ASSUME EnrollInv, [EnrollNext]_enrollVars
    PROVE  OneStart
<1>1. CASE SendStart \/ SendStartFails
  BY <1>1 DEF SendStart, SendStartFails, OneStart, EnrollInv, CapturePlaceInv
<1>2. CASE starts' = starts
  BY <1>2 DEF OneStart, EnrollInv, RestOK
<1>3. CASE RunEnrollment
  BY <1>3 DEF RunEnrollment, OneStart, EnrollInv, RestOK
<1>4. CASE SensorReports
  BY <1>2, <1>4 DEF SensorReports, counters
<1>5. CASE Capture
  BY <1>1, <1>2, <1>5
     DEF Capture, Dispatch, StartRejected, StartObserved, RequestCancel, SendCancel, CancelObserved,
         EventLimitReached, TakeBad, TakeFeedback, TakeProgress, SendContinue, ContinueObserved,
         TakeIdentity, TakeWitness, TakeFailure, Cleanup, CleanupCancel, ReportUnknown, Took, counters
<1>6. CASE Persist
  BY <1>2, <1>6
     DEF Persist, Reconnect, WitnessReadback, FinalizeUnchanged, FinalizeSave, Plan, BeginStage,
         PersistMilestone, StageCreate, StageWrite, ConfirmComponent, Cross, RollForward, Readback,
         Reconcile, counters
<1>7. CASE Recovery \/ Verification
  BY <1>2, <1>7
     DEF Recovery, ReconcileUnknown, RecoverIdentity, RecoverEarlyConfirm, RecoverLocal, ApplyLocal,
         RecoverPublication, Verification, VerifyRuntime, VerifyPostReboot, Publish, counters
<1>8. CASE \/ AdditionMatch \/ AdditionVerified \/ ReconcileSavedMatch \/ RollbackDelete
           \/ CloseRollback
  BY <1>2, <1>8
     DEF AdditionMatch, AdditionVerified, ReconcileSavedMatch, RollbackDelete, CloseRollback, counters
<1>9. CASE Failure
  BY <1>1, <1>2, <1>9
     DEF Failure, AbortBeforeStart, SendCancelFails, ConnectionLost, CallbackFails, SendContinueFails,
         CleanupCancelFails, ReconnectFails, FinalizeFails, BeginStageFails, PersistCallFails,
         ConfirmFails, PublishFails, ProcessExit, Reboot, counters
<1>10. CASE UNCHANGED enrollVars
  BY <1>2, <1>10 DEF enrollVars
<1> QED BY <1>3, <1>4, <1>5, <1>6, <1>7, <1>8, <1>9, <1>10 DEF EnrollNext

\* The finger under enrollment is asked for once, the journal keeps the registry closed
\* until it is saved, and a batch the journal says is committed is not lost however often
\* t2_enrollment_persistence_operation is interrupted: FingerOwned.
THEOREM EnrollmentOwnsFinger == EnrollSpec => FingerOwned
<1>1. EnrollInv => InconsistencyIsOwned /\ CommittedIsDurable
  BY OwnedInconsistency, DurableCommit
<1>2. EnrollInv /\ [EnrollNext]_enrollVars => [OneStart]_enrollVars
  BY StartStep
<1> QED BY <1>1, <1>2, EnrollmentInvariant, PTL DEF EnrollSpec, FingerOwned
=============================================================================
