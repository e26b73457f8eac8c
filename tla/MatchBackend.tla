---------------------------- MODULE MatchBackend ----------------------------
(***************************************************************************)
(* How a verification reaches the hardware: T2Backend of t2-fprintd.py,    *)
(* its resident worker (t2-native-match.py) and the hand over of the AKS   *)
(* device between an idle worker and other owners (t2_preparation_lease).  *)
(*                                                                         *)
(* The daemon is one event loop: a step runs from one await to the next,   *)
(* and a cancelled task continues with the cancellation.  Its tasks share  *)
(* two FIFO locks.  A worker is a process: it may answer late, never, or   *)
(* die.  Suspend and resume arrive at any time, also twice in a row before *)
(* any task has run.                                                       *)
(*                                                                         *)
(* The worker always announces that it retains its identity, so that the   *)
(* spare worker of T2Backend is never started and is left out.             *)
(***************************************************************************)
EXTENDS Naturals, Sequences, FiniteSets

CONSTANTS None,
          Procs,         \* worker processes
          MaxChanges,    \* bound on changes of the sleep state
          MaxCalls,      \* bound on verifications, inventories and other reads
          MaxStops,      \* bound on stops of a verification by its client
          MaxDeaths,     \* bound on workers that die on their own
          MaxOthers      \* bound on operations of another process

ASSUME BoundsAssumption ==
    {MaxChanges, MaxCalls, MaxStops, MaxDeaths, MaxOthers} \subseteq Nat

ASSUME NamesAssumption == {None, "other"} \cap Procs = {} /\ None \notin Nat /\ None # "other"

VARIABLES sleep,      \* system_sleeping, sleep_generation
          quiesce,    \* the running sleep task and those chained behind it
          quiet,      \* history: the current sleep was quiesced to the end
          task,       \* every task: where it waits, its worker, cancelled
          warming,    \* runtime_warm_task
          op, start,  \* operation_lock and native_worker_start_lock, holder first
          worker,     \* native_worker
          proc,       \* the worker processes
          other,      \* another process that wants the AKS device
          flock,      \* who holds the operation lock file
          aks,        \* who has /dev/t2-aks open
          used        \* bounds

vars == <<sleep, quiesce, quiet, task, warming, op, start, worker, proc, other, flock, aks, used>>
daemon == <<sleep, quiesce, quiet, task, warming, op, start, worker>>

Warms == {"warmA", "warmB"}
Tasks == {"verify", "inventory", "caller", "spawn"} \cup Warms

Idle == [pc |-> "none", p |-> None, hit |-> FALSE]
NoProc == [state |-> "none", eof |-> FALSE, request |-> None, stop |-> FALSE, answer |-> None]

Init ==
    /\ sleep = [on |-> TRUE, gen |-> 0]
    /\ quiesce = <<>> /\ quiet = FALSE
    /\ task = [t \in Tasks |-> Idle] /\ warming = None
    /\ op = <<>> /\ start = <<>>
    /\ worker = None /\ proc = [p \in Procs |-> NoProc]
    /\ other = [stage |-> "none", to |-> None] /\ flock = None /\ aks = None
    /\ used = [calls |-> 0, id |-> 0, stops |-> 0, deaths |-> 0, others |-> 0]

-----------------------------------------------------------------------------
(* Tasks and locks. *)

Running(t) == task[t].pc # "none"

Without(lock, t) == SelectSeq(lock, LAMBDA u : u # t)

Goes(t, pc) == task' = [task EXCEPT ![t].pc = pc]

\* Mutant: a task that ends keeps the start lock.
EndsLocked(t) ==
    /\ task' = [task EXCEPT ![t] = Idle]
    /\ op' = Without(op, t) /\ start' = start
    /\ warming' = IF warming = t THEN None ELSE warming
    /\ quiesce' = [i \in DOMAIN quiesce |-> [quiesce[i] EXCEPT !.waits = @ \ {t}]]

\* Task t is done: it leaves the locks, and whoever gathers it goes on.
Ends(t) ==
    /\ task' = [task EXCEPT ![t] = Idle]
    /\ op' = Without(op, t) /\ start' = Without(start, t)
    /\ warming' = IF warming = t THEN None ELSE warming
    /\ quiesce' = [i \in DOMAIN quiesce |-> [quiesce[i] EXCEPT !.waits = @ \ {t}]]

Holds(lock, t) == lock # <<>> /\ lock[1] = t

Alive(p) == proc[p].state \notin {"none", "exited"}

-----------------------------------------------------------------------------
(* The end of a worker, and what the kernel releases with it. *)

Released(p) == /\ flock' = IF flock = p THEN None ELSE flock
               /\ aks' = IF aks = p THEN None ELSE aks
               /\ UNCHANGED other

\* The process is gone and reaped.
Reaped(p) == proc' = [proc EXCEPT ![p] = NoProc] /\ Released(p)

\* First half of _discard_native_worker; the second waits for the exit, and
\* kills after NATIVE_CANCEL_SECONDS.
Dropped(p) == /\ worker' = IF worker = p THEN None ELSE worker
              /\ proc' = IF worker = p THEN [proc EXCEPT ![p].eof = TRUE] ELSE proc

\* Mutant: the wait for a worker has no deadline.
GoneWhenExited(p) == proc[p].state = "exited" /\ Reaped(p)

\* The worker has exited, or the deadline passes and it is killed.
Gone(p) == Reaped(p)

-----------------------------------------------------------------------------
(* _ensure_native_worker: t holds the start lock. *)

Free == {p \in Procs : proc[p].state = "none" /\ \A t \in Tasks : task[t].p # p}

\* Where t goes with a worker that is ready.
Returned(t, p) ==
    IF t = "verify"
    THEN /\ task' = [task EXCEPT ![t] = [pc |-> "exchange", p |-> p, hit |-> FALSE]]
         /\ start' = Without(start, t)
         /\ used' = [used EXCEPT !.id = @ + 1]
         /\ proc' = [proc EXCEPT ![p].request = used.id + 1]
         /\ UNCHANGED <<op, warming, quiesce>>
    ELSE Ends(t) /\ UNCHANGED <<used, proc>>

EnsureReady(t) ==
    /\ task[t].pc = "start" /\ Holds(start, t) /\ ~task[t].hit
    /\ ~sleep.on /\ worker # None /\ Alive(worker)
    /\ Returned(t, worker)
    /\ UNCHANGED <<sleep, quiet, worker, other, flock, aks>>

\* A dead worker is reaped, and a new one is started.
EnsureStarts(t) ==
    /\ task[t].pc = "start" /\ Holds(start, t) /\ ~task[t].hit
    /\ ~sleep.on /\ (worker # None => ~Alive(worker))
    /\ \E p \in Free \cup ({worker} \ {None}) :
          /\ proc' = [[proc EXCEPT ![IF worker = None THEN p ELSE worker] = NoProc]
                         EXCEPT ![p] = [NoProc EXCEPT !.state = "starting"]]
          /\ worker' = p
          /\ task' = [task EXCEPT ![t].pc = "boot", ![t].p = p]
    /\ UNCHANGED <<sleep, quiesce, quiet, warming, op, start, other, flock, aks, used>>

EnsureRefused(t) ==
    /\ task[t].pc = "start" /\ ~task[t].hit /\ Holds(start, t) /\ sleep.on
    /\ Ends(t)
    /\ UNCHANGED <<sleep, quiet, worker, proc, other, flock, aks, used>>

BootDone(t) ==
    /\ task[t].pc = "boot" /\ ~task[t].hit /\ proc[task[t].p].state \notin {"starting", "exited"}
    /\ Returned(t, task[t].p)
    /\ UNCHANGED <<sleep, quiet, worker, other, flock, aks>>

\* No ready line in time, or cancelled: the worker is killed before t ends.
BootFails(t) ==
    /\ task[t].pc = "boot"
    /\ Ends(t) /\ Reaped(task[t].p)
    /\ worker' = IF worker = task[t].p THEN None ELSE worker
    /\ UNCHANGED <<sleep, quiet, used>>

Ensure(t) == EnsureReady(t) \/ EnsureStarts(t) \/ EnsureRefused(t) \/ BootDone(t) \/ BootFails(t)

\* _schedule_native_worker_warm
Respawned(ts) ==
    IF sleep.on \/ ts["spawn"].pc # "none" THEN ts ELSE [ts EXCEPT !["spawn"].pc = "start"]

RespawnQueue(ts) ==
    IF sleep.on \/ ts["spawn"].pc # "none" THEN Without(start, "verify")
    ELSE Append(Without(start, "verify"), "spawn")

-----------------------------------------------------------------------------
(* A verification: verify_fprint and _run_native_match. *)

Verify ==
    /\ ~Running("verify") /\ used.calls < MaxCalls
    /\ Goes("verify", "op") /\ op' = Append(op, "verify")
    /\ used' = [used EXCEPT !.calls = @ + 1]
    /\ UNCHANGED <<sleep, quiesce, quiet, warming, start, worker, proc, other, flock, aks>>

VerifyLocked ==
    /\ task["verify"].pc = "op" /\ Holds(op, "verify") /\ ~task["verify"].hit
    /\ Goes("verify", "start") /\ start' = Append(start, "verify")
    /\ UNCHANGED <<sleep, quiesce, quiet, warming, op, worker, proc, other, flock, aks, used>>

\* The task ends, and a replacement for its worker is warmed.
VerifyEnds ==
    /\ task' = Respawned([task EXCEPT !["verify"] = Idle])
    /\ op' = Without(op, "verify") /\ start' = RespawnQueue(task)
    /\ quiesce' = [i \in DOMAIN quiesce |-> [quiesce[i] EXCEPT !.waits = @ \ {"verify"}]]
    /\ UNCHANGED <<sleep, quiet, warming>>

\* An answer of its own request lets the worker serve the next one.
Reusable(answer) ==
    /\ ~sleep.on /\ answer # None /\ answer.id = used.id
    /\ \/ answer.kind = "result"
       \/ answer.kind = "cancelled" /\ task["verify"].pc = "stopping"

\* The answer is read.
VerifyAnswered ==
    LET p == task["verify"].p IN
    /\ task["verify"].pc \in {"exchange", "stopping"} /\ proc[p].answer # None
    /\ task["verify"].pc = "exchange" => ~task["verify"].hit
    /\ \/ /\ Reusable(proc[p].answer) \/ worker # p
          /\ VerifyEnds
          /\ proc' = [proc EXCEPT ![p].answer = None]
          /\ UNCHANGED worker
       \/ /\ ~Reusable(proc[p].answer) /\ worker = p
          /\ task' = [task EXCEPT !["verify"].pc = "discard", !["verify"].hit = FALSE]
          /\ worker' = None
          /\ proc' = [proc EXCEPT ![p].eof = TRUE, ![p].answer = None]
          /\ UNCHANGED <<sleep, quiesce, quiet, warming, op, start>>
    /\ UNCHANGED <<other, flock, aks, used>>

\* The worker's output ends without an answer.
VerifyUnanswered ==
    LET p == task["verify"].p IN
    /\ task["verify"].pc \in {"exchange", "stopping"}
    /\ task["verify"].pc = "exchange" => ~task["verify"].hit
    /\ proc[p].state = "none" \/ (proc[p].state = "exited" /\ proc[p].answer = None)
    /\ VerifyEnds
    /\ worker' = IF worker = p THEN None ELSE worker
    /\ IF proc[p].state = "exited" THEN Reaped(p) ELSE UNCHANGED <<proc, other, flock, aks>>
    /\ UNCHANGED used

\* Cancelled: SIGTERM, which only a request that is running notices.
VerifyCancelled ==
    LET p == task["verify"].p IN
    /\ task["verify"].pc = "exchange" /\ task["verify"].hit
    /\ task' = [task EXCEPT !["verify"].pc = "stopping", !["verify"].hit = FALSE]
    /\ proc' = [proc EXCEPT ![p].stop = (proc[p].state = "busy")]
    /\ UNCHANGED <<sleep, quiesce, quiet, warming, op, start, worker, other, flock, aks, used>>

\* Mutant: a worker that does not answer in time is kept.
VerifyGivesUpKeeps ==
    /\ task["verify"].pc = "stopping"
    /\ VerifyEnds
    /\ UNCHANGED <<sleep, quiet, warming, worker, proc, other, flock, aks, used>>

\* NATIVE_CANCEL_SECONDS pass without an answer.
VerifyGivesUp ==
    LET p == task["verify"].p IN
    /\ task["verify"].pc = "stopping"
    /\ IF worker = p THEN Goes("verify", "kill") /\ Dropped(p) /\ UNCHANGED <<op, start, quiesce>>
       ELSE VerifyEnds /\ UNCHANGED <<worker, proc>>
    /\ UNCHANGED <<sleep, quiet, warming, other, flock, aks, used>>

\* _finish_native_worker_discard goes on when it is cancelled again; the
\* discard of the finally clause does not.
VerifyDiscarded ==
    /\ task["verify"].pc \in {"kill", "discard"}
    /\ task["verify"].pc = "discard" => ~task["verify"].hit
    /\ VerifyEnds /\ Gone(task["verify"].p)
    /\ UNCHANGED <<worker, used>>

\* A task that is cancelled where it cleans up nothing.
Cancelled(t) ==
    /\ task[t].hit /\ task[t].pc \in {"new", "op", "op2", "start", "discard"}
    /\ Ends(t)
    /\ UNCHANGED <<sleep, quiet, worker, proc, other, flock, aks, used>>

\* The client stops the verification or its VerifyStart, or leaves.
Stop ==
    /\ used.stops < MaxStops
    /\ \E t \in {"verify", "caller"} : Running(t) /\ task' = [task EXCEPT ![t].hit = TRUE]
    /\ used' = [used EXCEPT !.stops = @ + 1]
    /\ UNCHANGED <<sleep, quiesce, quiet, warming, op, start, worker, proc, other, flock, aks>>

-----------------------------------------------------------------------------
(* What collects a projection: the inventory, a call of the device object that *)
(* reads the fingers before its operation, and the warm up after a resume.     *)

Inventory ==
    /\ ~Running("inventory") /\ ~sleep.on /\ used.calls < MaxCalls
    /\ Goes("inventory", "op") /\ op' = Append(op, "inventory")
    /\ used' = [used EXCEPT !.calls = @ + 1]
    /\ UNCHANGED <<sleep, quiesce, quiet, warming, start, worker, proc, other, flock, aks>>

\* VerifyStart, EnrollStart or DeleteEnrolledFinger of the device object: it
\* looks at the sleep state once it has the lock, and suspend does not know it.
Call ==
    /\ ~Running("caller") /\ ~Running("verify") /\ used.calls < MaxCalls
    /\ Goes("caller", "op") /\ op' = Append(op, "caller")
    /\ used' = [used EXCEPT !.calls = @ + 1]
    /\ UNCHANGED <<sleep, quiesce, quiet, warming, start, worker, proc, other, flock, aks>>

\* The latest sleep task, when it is not done.
SleepTask == quiesce[Len(quiesce)].gen

WarmStarts(t) ==
    /\ task[t].pc = "new" /\ ~task[t].hit
    /\ IF quiesce # <<>> THEN task' = [task EXCEPT ![t].pc = "sleep", ![t].p = SleepTask] /\ op' = op
       ELSE Goes(t, "op") /\ op' = Append(op, t)
    /\ UNCHANGED <<sleep, quiesce, quiet, warming, start, worker, proc, other, flock, aks, used>>

\* A cancellation passes through the gather to the sleep task, so it has no
\* effect as long as that task is not done.
WarmAfterSleep(t) ==
    /\ task[t].pc = "sleep" /\ \A i \in DOMAIN quiesce : quiesce[i].gen # task[t].p
    /\ IF task[t].hit \/ sleep.on THEN Ends(t)
       ELSE /\ task' = [task EXCEPT ![t].pc = "op", ![t].p = None] /\ op' = Append(op, t)
            /\ UNCHANGED <<start, warming, quiesce>>
    /\ UNCHANGED <<sleep, quiet, worker, proc, other, flock, aks, used>>

Collectors == Warms \cup {"inventory", "caller"}

\* The first operation of warm_runtime ends; the second queues again.
Collected(t) ==
    IF t \in {"inventory", "caller"} THEN Ends(t)
    ELSE /\ Goes(t, "op2") /\ op' = Append(Without(op, t), t)
         /\ UNCHANGED <<start, warming, quiesce>>

\* runtime_projection: refused, from its cache, or a collector is launched.
Project(t) ==
    /\ task[t].pc = "op" /\ Holds(op, t) /\ ~task[t].hit
    /\ \/ Collected(t)
       \/ ~sleep.on /\ Goes(t, "launch") /\ UNCHANGED <<op, start, warming, quiesce>>
    /\ UNCHANGED <<sleep, quiet, worker, proc, other, flock, aks, used>>

\* create_subprocess_exec returns, and _collect_process publishes its task as
\* the owner, also when a suspend has come in between; or it fails.  asyncio
\* kills and reaps the process of a launch that is cancelled.
Launched(t) ==
    /\ task[t].pc = "launch"
    /\ IF task[t].hit THEN Ends(t)
       ELSE \/ Collected(t)
            \/ Goes(t, "collect") /\ UNCHANGED <<op, start, warming, quiesce>>
    /\ UNCHANGED <<sleep, quiet, worker, proc, other, flock, aks, used>>

\* The collector ends.  One that is cancelled is killed and reaped first.
CollectDone(t) ==
    /\ task[t].pc = "collect"
    /\ IF task[t].hit THEN Ends(t) ELSE Collected(t)
    /\ UNCHANGED <<sleep, quiet, worker, proc, other, flock, aks, used>>

WarmLocked(t) ==
    /\ task[t].pc = "op2" /\ Holds(op, t) /\ ~task[t].hit
    /\ Goes(t, "start") /\ start' = Append(start, t)
    /\ UNCHANGED <<sleep, quiesce, quiet, warming, op, worker, proc, other, flock, aks, used>>

-----------------------------------------------------------------------------
(* Suspend and resume. *)

SystemSleepChanged(on) ==
    /\ sleep.gen < MaxChanges
    /\ sleep' = [on |-> on, gen |-> sleep.gen + 1]
    /\ quiet' = FALSE
    /\ IF on
       THEN /\ quiesce' = Append(quiesce, [gen |-> sleep.gen + 1, pc |-> "new", waits |-> {}, p |-> None])
            /\ UNCHANGED <<task, warming>>
       ELSE /\ quiesce' = quiesce
            /\ IF warming # None /\ quiesce = <<>> THEN UNCHANGED <<task, warming>>
               ELSE \E t \in Warms : /\ ~Running(t)
                                     /\ Goes(t, "new") /\ warming' = t
    /\ UNCHANGED <<op, start, worker, proc, other, flock, aks, used>>

Head1 == quiesce[1]
Still == sleep.on /\ sleep.gen = Head1.gen

QuiesceAt(pc) == quiesce # <<>> /\ Head1.pc = pc

QuiesceGoes(pc, p, waits) ==
    quiesce' = [quiesce EXCEPT ![1] = [gen |-> Head1.gen, pc |-> pc, p |-> p, waits |-> waits]]

QuiesceEnds == quiesce' = Tail(quiesce)

\* process_owner.  A task whose collector is being launched is not there yet.
Owners == {t \in Tasks : task[t].pc \in {"exchange", "stopping", "kill", "collect"}}

Active == {t \in {"spawn", "inventory"} \cup ({warming} \ {None}) \cup Owners : Running(t)}

QuiesceBegins ==
    /\ QuiesceAt("new")
    /\ IF ~Still THEN QuiesceEnds /\ UNCHANGED task
       ELSE /\ QuiesceGoes("gather", None, Active)
            /\ task' = [t \in Tasks |-> IF t \in Active THEN [task[t] EXCEPT !.hit = TRUE] ELSE task[t]]
    /\ UNCHANGED <<sleep, quiet, warming, op, start, worker, proc, other, flock, aks, used>>

QuiesceGathered ==
    /\ QuiesceAt("gather") /\ Head1.waits = {}
    /\ IF ~Still THEN QuiesceEnds /\ UNCHANGED start
       ELSE QuiesceGoes("start", None, {}) /\ start' = Append(start, "quiesce")
    /\ UNCHANGED <<sleep, quiet, task, warming, op, worker, proc, other, flock, aks, used>>

\* Mutant: the quiesce does not wait for whoever holds the operation lock.
QuiesceBarrierless ==
    /\ QuiesceEnds /\ quiet' = TRUE
    /\ UNCHANGED op

QuiesceBarrier == QuiesceGoes("barrier", None, {}) /\ op' = Append(op, "quiesce") /\ UNCHANGED quiet

QuiesceDrops ==
    /\ QuiesceAt("start") /\ Holds(start, "quiesce")
    /\ \/ /\ Still /\ worker # None
          /\ QuiesceGoes("drop", worker, {}) /\ Dropped(worker)
          /\ UNCHANGED <<start, op, quiet>>
       \/ /\ Still /\ worker = None
          /\ QuiesceBarrier /\ start' = Tail(start)
          /\ UNCHANGED <<worker, proc>>
       \/ /\ ~Still /\ QuiesceEnds /\ start' = Tail(start)
          /\ UNCHANGED <<op, worker, proc, quiet>>
    /\ UNCHANGED <<sleep, task, warming, other, flock, aks, used>>

QuiesceDropped ==
    /\ QuiesceAt("drop") /\ Gone(Head1.p)
    /\ start' = Tail(start)
    /\ IF Still THEN QuiesceBarrier ELSE QuiesceEnds /\ UNCHANGED <<op, quiet>>
    /\ UNCHANGED <<sleep, task, warming, worker, used>>

QuiesceDone ==
    /\ QuiesceAt("barrier") /\ Holds(op, "quiesce")
    /\ op' = Tail(op) /\ QuiesceEnds /\ quiet' = Still
    /\ UNCHANGED <<sleep, task, warming, start, worker, proc, other, flock, aks, used>>

Quiesce == \/ QuiesceBegins \/ QuiesceGathered \/ QuiesceDrops \/ QuiesceDropped \/ QuiesceDone

-----------------------------------------------------------------------------
(* The AKS device: _run of t2-native-match, _open_device and the lease. *)

Idlers == {p \in Procs : proc[p].state = "idle"}

\* Mutant: a worker that opens the device again does not take the lock file.
TakeDeviceUnlocked(p) ==
    /\ proc[p].state \in {"starting", "busy"} /\ aks \in Idlers \cup {None, p}
    /\ aks' = p /\ flock' = IF flock = None THEN p ELSE flock
    /\ UNCHANGED <<daemon, proc, other, used>>

\* A worker takes the lock file and the device, which another idle worker
\* would hand over.
TakeDevice(p) ==
    /\ proc[p].state \in {"starting", "busy"}
    /\ flock = None /\ aks \in Idlers \cup {None, p}
    /\ flock' = p /\ aks' = p
    /\ UNCHANGED <<daemon, proc, other, used>>

Other(stage, to) == other' = [stage |-> stage, to |-> to]

OtherLocks ==
    /\ other.stage = "none" /\ flock = None /\ used.others < MaxOthers
    /\ flock' = "other" /\ Other("locked", None)
    /\ used' = [used EXCEPT !.others = @ + 1]
    /\ UNCHANGED <<daemon, proc, aks>>

OtherOpens ==
    /\ other.stage \in {"locked", "acked"} /\ aks = None
    /\ aks' = "other" /\ Other("open", None)
    /\ UNCHANGED <<daemon, proc, flock, used>>

\* EBUSY: the request waits in the backlog of a worker's socket.
OtherAsks ==
    /\ other.stage = "locked" /\ aks # None
    /\ \E q \in Procs : Alive(q) /\ proc[q].state # "starting" /\ Other("asking", q)
    /\ UNCHANGED <<daemon, proc, flock, aks, used>>

\* The worker is idle and the caller still there: "?", then "Y".
Confirm ==
    /\ other.stage = "asking" /\ proc[other.to].state = "idle"
    /\ Other("confirmed", other.to)
    /\ proc' = [proc EXCEPT ![other.to].state = "releasing"]
    /\ UNCHANGED <<daemon, flock, aks, used>>

\* PreparedIdentity.close, then "K" to a caller that is still there.
Release(q) ==
    /\ proc[q].state = "releasing"
    /\ proc' = [proc EXCEPT ![q].state = "idle"]
    /\ aks' = IF aks = q THEN None ELSE aks
    /\ IF other = [stage |-> "confirmed", to |-> q] THEN Other("acked", q) ELSE UNCHANGED other
    /\ UNCHANGED <<daemon, flock, used>>

\* Nobody to ask, no answer in time, or busy after all.
OtherGivesUp ==
    /\ \/ other.stage \in {"asking", "confirmed"}
       \/ other.stage \in {"locked", "acked"} /\ aks # None
    /\ Other("none", None) /\ flock' = None
    /\ UNCHANGED <<daemon, proc, aks, used>>

OtherDone == /\ other.stage = "open"
             /\ Other("none", None) /\ flock' = None /\ aks' = None
             /\ UNCHANGED <<daemon, proc, used>>

-----------------------------------------------------------------------------
(* The resident worker: _serve_worker. *)

Exited(p, answer) == /\ proc' = [proc EXCEPT ![p] = [NoProc EXCEPT !.state = "exited", !.answer = answer]]
                     /\ Released(p)

\* A preparation or a match ends with the device kept, and the lock dropped.
Kept(p, answer) ==
    /\ flock = p /\ flock' = None
    /\ proc' = [proc EXCEPT ![p].state = "idle", ![p].request = IF answer = None THEN @ ELSE None,
                            ![p].stop = FALSE, ![p].answer = IF answer = None THEN @ ELSE answer]
    /\ UNCHANGED <<other, aks>>

\* The startup preparation fails: everything is closed, the worker is usable.
PrepareFails(p) ==
    /\ proc' = [proc EXCEPT ![p].state = "idle", ![p].stop = FALSE]
    /\ Released(p)

Prepare(p) == /\ proc[p].state = "starting"
              /\ Kept(p, None) \/ PrepareFails(p)
              /\ UNCHANGED <<daemon, used>>

ReadRequest(p) ==
    /\ proc[p].state = "idle" /\ proc[p].request # None
    /\ proc' = [proc EXCEPT ![p].state = "busy"]
    /\ UNCHANGED <<daemon, other, flock, aks, used>>

ReadEof(p) == /\ proc[p].state = "idle" /\ proc[p].eof /\ proc[p].request = None
              /\ Exited(p, None)
              /\ UNCHANGED <<daemon, used>>

\* A verdict, or the probe noticed the stop.
Matched(p) ==
    /\ proc[p].state = "busy"
    /\ \/ Kept(p, [id |-> proc[p].request, kind |-> "result"])
       \/ proc[p].stop /\ Kept(p, [id |-> proc[p].request, kind |-> "cancelled"])
    /\ UNCHANGED <<daemon, used>>

\* The lock file or the device is taken, the match was stopped before the
\* sensor started, or it fails: an error is the worker's last answer.
MatchFails(p) ==
    /\ proc[p].state = "busy"
    /\ Exited(p, [id |-> proc[p].request, kind |-> "error"])
    /\ UNCHANGED <<daemon, used>>

\* A worker is killed from outside.
Die(p) ==
    /\ Alive(p) /\ used.deaths < MaxDeaths
    /\ Exited(p, None)
    /\ used' = [used EXCEPT !.deaths = @ + 1]
    /\ UNCHANGED daemon

\* An orphan that exits is reaped by nobody's wait.
Vanish(p) == /\ proc[p].state = "exited" /\ worker # p
             /\ \A t \in Tasks : task[t].p # p
             /\ QuiesceAt("drop") => Head1.p # p
             /\ Reaped(p)
             /\ UNCHANGED <<daemon, used>>

-----------------------------------------------------------------------------
Loop ==
    \/ \E t \in Tasks : Ensure(t) \/ Cancelled(t)
    \/ VerifyLocked \/ VerifyAnswered \/ VerifyUnanswered \/ VerifyCancelled
    \/ VerifyGivesUp \/ VerifyDiscarded
    \/ \E t \in Warms : WarmStarts(t) \/ WarmAfterSleep(t) \/ WarmLocked(t)
    \/ \E t \in Collectors : Project(t) \/ Launched(t) \/ CollectDone(t)
    \/ Quiesce

Environment == \/ Verify \/ Stop \/ Inventory \/ Call
               \/ \E on \in BOOLEAN : SystemSleepChanged(on)

Hardware == \/ OtherLocks \/ OtherOpens \/ OtherAsks \/ Confirm \/ OtherGivesUp \/ OtherDone
            \/ \E p \in Procs : TakeDevice(p) \/ Release(p)

Worker == \E p \in Procs : \/ Prepare(p) \/ ReadRequest(p) \/ ReadEof(p) \/ Matched(p)
                           \/ MatchFails(p) \/ Die(p) \/ Vanish(p)

Next == Loop \/ Environment \/ Hardware \/ Worker

Spec == Init /\ [][Next]_vars

-----------------------------------------------------------------------------
(* Properties. *)

\* Every variable keeps its type, and nobody is twice in a lock.
TypeOK ==
    /\ \A t \in Tasks : task[t].hit \in BOOLEAN
    /\ worker \in Procs \cup {None} /\ {flock, aks} \subseteq Procs \cup {None, "other"}
    /\ \A p \in Procs : proc[p].state \in {"none", "starting", "idle", "busy", "releasing", "exited"}
    /\ other.stage \in {"none", "locked", "asking", "confirmed", "acked", "open"}
    /\ \A lock \in {op, start} : \A i, j \in DOMAIN lock :
          lock[i] \in Tasks \cup {"quiesce"} /\ (lock[i] = lock[j] => i = j)

\* A sleep that was quiesced to the end has no worker, and no task that works:
\* what is left of an earlier worker was told to go.
QuietSleep ==
    quiet => /\ worker = None
             /\ \A t \in Tasks : task[t].pc \notin
                   {"boot", "exchange", "stopping", "kill", "launch", "collect"}
             /\ \A p \in Procs : Alive(p) => proc[p].eof

\* A worker that may serve the next request has no request, and no answer of
\* an earlier one, left.
NoStaleRequest ==
    worker # None /\ task["verify"].pc \notin {"exchange", "stopping"}
        => proc[worker].request = None /\ proc[worker].answer = None

\* Whoever was told that the device is free, and holds the lock file, does not
\* find it taken by the same worker again.
HandoverHolds == other.stage = "acked" => aks # other.to

\* The sleep task and a warm up wait for each other.
MutualWait == /\ QuiesceAt("gather")
              /\ \E t \in Head1.waits : task[t].pc = "sleep" /\ task[t].p = Head1.gen

\* Nothing that the sleep task waits for is stuck: the event loop can go on,
\* or a match that nobody has stopped still runs towards its own deadline.
SleepGetsOn ==
    sleep.on /\ quiesce # <<>> /\ ~MutualWait
        => ENABLED Loop \/ (task["verify"].pc = "exchange" /\ ~task["verify"].hit)

\* Suspend gets on, and ends with nothing running.
SleepSound == TypeOK /\ QuietSleep /\ SleepGetsOn
=============================================================================
