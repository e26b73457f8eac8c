---------------------------- MODULE FprintDevice ----------------------------
(***************************************************************************)
(* The D-Bus device object of t2-fprintd.py: who holds the claim, which    *)
(* biometric operation runs under it and when the claim expires, while     *)
(* method calls of several clients, background operations, expiry timers   *)
(* and departing connections interleave.                                   *)
(*                                                                         *)
(* asyncio runs one coroutine at a time, from one await to the next; loop  *)
(* is the coroutine that has not yet reached its next await.  A task has   *)
(* the identity of the method call it comes from: a Claim call names the   *)
(* claim it makes (claim_generation), a VerifyStart or EnrollStart call    *)
(* its operation, and any call the expiry timer it creates.  A call name   *)
(* is used again once nothing refers to it.                                *)
(***************************************************************************)
EXTENDS Naturals, FiniteSets

CONSTANTS Senders,           \* unique bus names, one client process each
          Calls,             \* names of method calls: bounds what is live at once
          None,
          DeletionEnabled,   \* --enable-native-deletion
          Suspends           \* the machine may go to sleep

ASSUME NameAssumption == Senders \cap Calls = {} /\ None \notin Senders \cup Calls
ASSUME FlagAssumption == {DeletionEnabled, Suspends} \subseteq BOOLEAN

\* A connection's departure is handled by a task of its own.
Actors == Calls \cup Senders

VARIABLES enrollment,  \* --enable-native-enrollment, as the service was started
          loop,        \* the running coroutine
          dead,        \* senders whose process is gone
          pc, op, snd, \* the method calls (and departure handlers)
          seen,        \* the claim an owner check started from
          wait,        \* the task an actor awaits
          lock,        \* holder of claim_lock
          claim, owner,
          verifyTask, enrollTask, deleteTask,
          run,         \* the background operation of a call
          expiry,      \* claim_expiry_task
          timer,       \* the expiry timer a call created
          under        \* claim a timer or an operation belongs to (for the properties)

vars == <<enrollment, loop, dead, pc, op, snd, seen, wait, lock, claim, owner, verifyTask,
          enrollTask, deleteTask, run, expiry, timer, under>>
claims == <<claim, owner>>
tasks == <<verifyTask, enrollTask, deleteTask>>
timers == <<expiry, timer>>
locals == <<op, snd, seen, wait>>

EnrollOps == {"EnrollStart", "EnrollStop"}
Ops == {"Claim", "Release", "VerifyStart", "VerifyStop"} \cup EnrollOps
         \cup (IF DeletionEnabled THEN {"DeleteEnrolledFinger"} ELSE {})

ASSUME OpAssumption == None \notin Ops

\* Without an enrollment client, EnrollStart and EnrollStop fail at once.
Offered == IF enrollment THEN Ops ELSE Ops \ EnrollOps

PCs == {"idle", "gone", "lock", "collect", "own1", "begin", "proj", "own2", "finally",
        "cancelled", "del", "stopV", "waitV", "stopE", "send", "waitE", "stopD",
        "waitD", "clear"}

Opt(S) == S \cup {None}

\* The types of the variables.
TypeOK == /\ enrollment \in BOOLEAN
          /\ loop \in Opt(Actors) /\ dead \subseteq Senders
          /\ pc \in [Actors -> PCs] /\ op \in [Calls -> Opt(Ops)]
          /\ snd \in [Calls -> Opt(Senders)]
          /\ seen \in [Calls -> Opt(Calls)] /\ wait \in [Actors -> Opt(Calls)]
          /\ lock \in Opt(Actors)
          /\ claim \in Opt(Calls) /\ owner \in Opt(Senders) /\ (claim = None <=> owner = None)
          /\ {verifyTask, enrollTask, deleteTask, expiry} \subseteq Opt(Calls)
          /\ run \in [Calls -> {"none", "verify", "check", "cancel", "enroll", "ended"}]
          /\ timer \in [Calls -> {"none", "unstarted", "verified", "enrolled"}]
          /\ under \in [Calls -> Opt(Calls)]

Init == /\ enrollment \in BOOLEAN
        /\ loop = None /\ dead = {}
        /\ pc = [a \in Actors |-> "idle"] /\ op = [c \in Calls |-> None]
        /\ snd = [c \in Calls |-> None] /\ seen = [c \in Calls |-> None]
        /\ wait = [a \in Actors |-> None]
        /\ lock = None /\ claim = None /\ owner = None
        /\ verifyTask = None /\ enrollTask = None /\ deleteTask = None
        /\ run = [c \in Calls |-> "none"]
        /\ expiry = None /\ timer = [c \in Calls |-> "none"]
        /\ under = [c \in Calls |-> None]

-----------------------------------------------------------------------------
(* The event loop. *)

\* The task of call c is done: its method returned and no operation runs.
Finished(c) == pc[c] = "idle" /\ run[c] \in {"none", "ended"}

\* Coroutines whose awaited task is done are queued before any later event.
Woken == {a \in Actors : pc[a] \in {"waitV", "waitE", "waitD"} /\ Finished(wait[a])}

CanRun(a) == loop = a \/ (loop = None /\ Woken = {})
Idle == loop = None /\ Woken = {}

Op(a) == IF a \in Senders THEN "Depart" ELSE op[a]
Sender(a) == IF a \in Senders THEN a ELSE snd[a]

\* Continue at p without an await; suspend at p.
Continue(a, p) == pc' = [pc EXCEPT ![a] = p] /\ loop' = a
Await(a, p) == pc' = [pc EXCEPT ![a] = p] /\ loop' = None

\* The call returns or raises; a started verification keeps its sender's context.
Forget(c, keep) == /\ op' = [op EXCEPT ![c] = None]
                   /\ snd' = [snd EXCEPT ![c] = IF keep THEN @ ELSE None]
                   /\ seen' = [seen EXCEPT ![c] = None]
                   /\ wait' = [wait EXCEPT ![c] = None]
Return(c) == Await(c, "idle") /\ Forget(c, FALSE)

Busy == verifyTask # None \/ enrollTask # None \/ deleteTask # None

\* Nothing refers to the name c.
Free(c) == /\ pc[c] = "idle" /\ run[c] = "none" /\ timer[c] = "none"
           /\ c \notin {claim, verifyTask, enrollTask, deleteTask, expiry}
           /\ \A d \in Calls : seen[d] # c /\ under[d] # c
           /\ \A a \in Actors : wait[a] # c

-----------------------------------------------------------------------------
(* Claim expiry timers. *)

CancelExpiry == /\ expiry' = None
                /\ IF expiry = None THEN UNCHANGED <<timer, under>>
                   ELSE /\ timer' = [timer EXCEPT ![expiry] = "none"]
                        /\ under' = [under EXCEPT ![expiry] = None]

\* _arm_unstarted_claim_expiry, after the caller has updated the task fields.
ArmUnstarted(c, replace) ==
  IF claim # None /\ (expiry = None \/ replace)
       /\ verifyTask' = None /\ enrollTask' = None /\ deleteTask' = None
  THEN /\ expiry' = c
       /\ timer' = [d \in Calls |-> IF d = c THEN "unstarted"
                                    ELSE IF d = expiry THEN "none" ELSE timer[d]]
       /\ under' = [d \in Calls |-> IF d = c THEN claim
                                    ELSE IF d = expiry THEN None ELSE under[d]]
  ELSE UNCHANGED <<timers, under>>

\* Mutant: the sender is not reset with the claim.
ClearClaimKeepsSender == claim' = None /\ UNCHANGED owner

ClearClaim == claim' = None /\ owner' = None

TimerGone(c) == timer' = [timer EXCEPT ![c] = "none"] /\ under' = [under EXCEPT ![c] = None]

\* _expire_unstarted_claim: clears whatever claim is current, unless an operation is active.
ExpireUnstarted(c) == /\ Idle /\ timer[c] = "unstarted"
                      /\ TimerGone(c) /\ expiry' = None
                      /\ IF Busy THEN UNCHANGED claims ELSE ClearClaim
                      /\ UNCHANGED <<loop, dead, pc, locals, lock, tasks, run>>

\* _expire_stale_claim.
ExpireVerified(c) == /\ Idle /\ timer[c] = "verified"
                     /\ TimerGone(c) /\ expiry' = None
                     /\ IF verifyTask = c
                        THEN /\ ClearClaim /\ verifyTask' = None
                             /\ run' = [run EXCEPT ![c] = "none"]
                        ELSE UNCHANGED <<claims, verifyTask, run>>
                     /\ UNCHANGED <<loop, dead, pc, locals, lock, enrollTask, deleteTask>>

\* _expire_stale_enrollment_claim: the retained worker is done, client.stop does not wait.
ExpireEnrolled(c) == /\ Idle /\ timer[c] = "enrolled"
                     /\ TimerGone(c)
                     /\ expiry' = IF expiry = c THEN None ELSE expiry
                     /\ IF enrollTask = c
                        THEN /\ enrollTask' = None /\ run' = [run EXCEPT ![c] = "none"]
                             /\ IF expiry = c THEN ClearClaim ELSE UNCHANGED claims
                        ELSE UNCHANGED <<claims, enrollTask, run>>
                     /\ UNCHANGED <<loop, dead, pc, locals, lock, verifyTask, deleteTask>>

-----------------------------------------------------------------------------
(* Calls arrive. *)

Live(s) == s \notin dead /\ pc[s] = "idle"

\* Every method but Claim begins with _require_claim_owner, up to its await.
Call(c, s, o) == /\ Idle /\ Live(s) /\ Free(c)
                 /\ IF o = "Claim"
                    THEN Await(c, "lock") /\ UNCHANGED seen
                    ELSE /\ owner = s
                         /\ Await(c, "own1") /\ seen' = [seen EXCEPT ![c] = claim]
                 /\ op' = [op EXCEPT ![c] = o] /\ snd' = [snd EXCEPT ![c] = s]
                 /\ UNCHANGED <<dead, wait, lock, claims, tasks, run, timers, under>>

\* Mutant: the claim is not compared again after the await.
OwnsClaimUnchecked(c) == snd[c] \notin dead

\* The rest of _require_claim_owner: same claim, process still there.
OwnsClaim(c) == claim = seen[c] /\ snd[c] \notin dead

First(o) == CASE o \in {"Release", "VerifyStop"} -> "stopV"
              [] o = "EnrollStop" -> "stopE"
              [] OTHER -> "begin"

OwnerAccepted(c) == /\ pc[c] = "own1" /\ CanRun(c) /\ OwnsClaim(c)
                    /\ Continue(c, First(op[c]))
                    /\ seen' = [seen EXCEPT ![c] = None]
                    /\ UNCHANGED <<dead, op, snd, wait, lock, claims, tasks, run, timers, under>>

OwnerRefused(c) == /\ pc[c] = "own1" /\ CanRun(c) /\ ~OwnsClaim(c)
                   /\ Return(c)
                   /\ UNCHANGED <<dead, lock, claims, tasks, run, timers, under>>

-----------------------------------------------------------------------------
(* Claim and sender_departed serialise on claim_lock. *)

\* A live owner keeps the claim; the claim of a dead process is reaped.
ClaimLocked(c) == /\ pc[c] = "lock" /\ Op(c) = "Claim" /\ lock = None /\ CanRun(c)
                  /\ \/ /\ claim = None /\ lock' = c /\ Await(c, "collect") /\ UNCHANGED locals
                     \/ /\ claim # None /\ owner \in dead
                        /\ lock' = c /\ Continue(c, "stopV") /\ UNCHANGED locals
                     \/ /\ claim # None /\ owner \notin dead
                        /\ Return(c) /\ UNCHANGED lock
                  /\ UNCHANGED <<dead, claims, tasks, run, timers, under>>

\* Identity and evidence collected and verified again; needs the connection and the process.
ClaimGranted(c) == /\ pc[c] = "collect" /\ CanRun(c)
                   /\ snd[c] \notin dead /\ pc[snd[c]] # "gone"
                   /\ claim' = c /\ owner' = snd[c]
                   /\ expiry' = c /\ timer' = [timer EXCEPT ![c] = "unstarted"]
                   /\ under' = [under EXCEPT ![c] = c]
                   /\ lock' = None /\ Return(c)
                   /\ UNCHANGED <<dead, tasks, run>>

ClaimRejected(c) == /\ pc[c] = "collect" /\ CanRun(c)
                    /\ lock' = None /\ Return(c)
                    /\ UNCHANGED <<dead, claims, tasks, run, timers, under>>

\* Mutant: a departure is ignored while an operation is active.
DepartureIgnoredWhenBusy(s) ==
  /\ pc[s] = "lock" /\ lock = None /\ CanRun(s)
  /\ IF owner = s /\ ~Busy THEN lock' = s /\ Continue(s, "stopV")
     ELSE Await(s, "gone") /\ UNCHANGED lock
  /\ UNCHANGED <<dead, locals, claims, tasks, run, timers, under>>

\* Mutant: the departure handler does not hold claim_lock while it stops the operation.
DepartureUnlocked(s) ==
  /\ pc[s] = "lock" /\ lock = None /\ CanRun(s)
  /\ IF owner = s THEN Continue(s, "stopV") ELSE Await(s, "gone")
  /\ UNCHANGED <<dead, locals, lock, claims, tasks, run, timers, under>>

DepartureLocked(s) == /\ pc[s] = "lock" /\ lock = None /\ CanRun(s)
                      /\ IF owner = s THEN lock' = s /\ Continue(s, "stopV")
                         ELSE Await(s, "gone") /\ UNCHANGED lock
                      /\ UNCHANGED <<dead, locals, claims, tasks, run, timers, under>>

-----------------------------------------------------------------------------
(* Stopping whatever runs: VerifyStop and EnrollStop do one part, Release,  *)
(* sender_departed and the reaping Claim do all three and clear the claim.  *)

Stopper(a) == Op(a) \in {"VerifyStop", "EnrollStop"}

\* Mutant: the running verification is neither cancelled nor awaited.
StopVerificationDetached(a) ==
  /\ pc[a] = "stopV" /\ loop = a
  /\ CancelExpiry /\ Continue(a, "stopE")
  /\ UNCHANGED <<dead, locals, lock, claims, tasks, run>>

\* task.cancel() reaches a started verification, or the VerifyStart preparing one.
StopVerification(a) ==
  /\ pc[a] = "stopV" /\ loop = a
  /\ \/ /\ verifyTask = None /\ Stopper(a)      \* NoActionInProgress, then the finally
        /\ UNCHANGED <<tasks, run>> /\ ArmUnstarted(a, TRUE) /\ Return(a)
     \/ /\ verifyTask = None /\ ~Stopper(a)
        /\ CancelExpiry /\ Continue(a, "stopE") /\ UNCHANGED <<tasks, run, locals>>
     \/ /\ verifyTask # None
        /\ CancelExpiry
        /\ run' = IF run[verifyTask] \in {"verify", "check"}
                  THEN [run EXCEPT ![verifyTask] = "cancel"] ELSE run
        /\ pc' = [pc EXCEPT ![a] = "waitV",
                            ![verifyTask] = IF @ \in {"proj", "own2"} THEN "cancelled" ELSE @]
        /\ loop' = None
        /\ wait' = [wait EXCEPT ![a] = verifyTask]
        /\ UNCHANGED <<tasks, op, snd, seen>>
  /\ UNCHANGED <<dead, lock, claims>>

\* Drop the reference to the task a waited for, unless it was replaced.
Dropped(task, a) == IF task = wait[a] THEN None ELSE task
Retired(task, a) == IF task = wait[a] THEN [run EXCEPT ![wait[a]] = "none"] ELSE run

VerificationStopped(a) ==
  /\ pc[a] = "waitV" /\ loop = None /\ Finished(wait[a])
  /\ verifyTask' = Dropped(verifyTask, a) /\ run' = Retired(verifyTask, a)
  /\ UNCHANGED <<dead, lock, claims, enrollTask, deleteTask>>
  /\ IF Stopper(a)
     THEN ArmUnstarted(a, TRUE) /\ Return(a)
     ELSE /\ Continue(a, "stopE") /\ wait' = [wait EXCEPT ![a] = None]
          /\ UNCHANGED <<op, snd, seen, timers, under>>

\* client.stop may have to send the cancel request from a thread before it waits.
StopEnrollment(a) ==
  /\ pc[a] = "stopE" /\ loop = a
  /\ \/ /\ enrollTask = None /\ Stopper(a)
        /\ UNCHANGED tasks /\ ArmUnstarted(a, TRUE) /\ Return(a)
     \/ /\ enrollTask = None /\ ~Stopper(a)
        /\ CancelExpiry /\ Continue(a, "stopD") /\ UNCHANGED <<tasks, locals>>
     \/ /\ enrollTask # None
        /\ CancelExpiry
        /\ wait' = [wait EXCEPT ![a] = enrollTask]
        /\ \/ Await(a, "waitE")
           \/ run[enrollTask] = "enroll" /\ Await(a, "send")
        /\ UNCHANGED <<tasks, op, snd, seen>>
  /\ UNCHANGED <<dead, lock, claims, run>>

CancelSent(a) == /\ pc[a] = "send" /\ CanRun(a)
                 /\ Await(a, "waitE")
                 /\ UNCHANGED <<dead, locals, lock, claims, tasks, run, timers, under>>

EnrollmentStopped(a) ==
  /\ pc[a] = "waitE" /\ loop = None /\ Finished(wait[a])
  /\ enrollTask' = Dropped(enrollTask, a) /\ run' = Retired(enrollTask, a)
  /\ UNCHANGED <<dead, lock, claims, verifyTask, deleteTask>>
  /\ IF Stopper(a)
     THEN ArmUnstarted(a, TRUE) /\ Return(a)
     ELSE /\ Continue(a, "stopD") /\ wait' = [wait EXCEPT ![a] = None]
          /\ UNCHANGED <<op, snd, seen, timers, under>>

\* Mutant: an active deletion is not waited for.
WaitDeletionSkipped(a) ==
  /\ pc[a] = "stopD" /\ loop = a
  /\ Continue(a, "clear")
  /\ UNCHANGED <<dead, locals, lock, claims, tasks, run, timers, under>>

\* _wait_deletion never cancels a deletion.
WaitDeletion(a) ==
  /\ pc[a] = "stopD" /\ loop = a
  /\ IF deleteTask = None
     THEN Continue(a, "clear") /\ UNCHANGED wait
     ELSE Await(a, "waitD") /\ wait' = [wait EXCEPT ![a] = deleteTask]
  /\ UNCHANGED <<dead, op, snd, seen, lock, claims, tasks, run, timers, under>>

DeletionWaited(a) ==
  /\ pc[a] = "waitD" /\ loop = None /\ Finished(wait[a])
  /\ CancelExpiry
  /\ Continue(a, "clear") /\ wait' = [wait EXCEPT ![a] = None]
  /\ UNCHANGED <<dead, op, snd, seen, lock, claims, tasks, run>>

Clear(a) ==
  /\ pc[a] = "clear" /\ loop = a
  /\ ClearClaim
  /\ CASE Op(a) = "Release" -> Return(a) /\ UNCHANGED lock
       [] Op(a) = "Claim"   -> Await(a, "collect") /\ UNCHANGED <<locals, lock>>
       [] OTHER             -> Await(a, "gone") /\ lock' = None /\ UNCHANGED locals
  /\ UNCHANGED <<dead, tasks, run, timers, under>>

-----------------------------------------------------------------------------
(* VerifyStart, EnrollStart and DeleteEnrolledFinger.  Only EnrollStart     *)
(* leaves no mark of itself while it collects the projection.               *)

Begins(c, o) == pc[c] = "begin" /\ loop = c /\ op[c] = o /\ ~Busy

\* AlreadyInUse, before anything is touched.
BeginRefused(c) == /\ pc[c] = "begin" /\ loop = c /\ Busy
                   /\ Return(c)
                   /\ UNCHANGED <<dead, lock, claims, tasks, run, timers, under>>

VerifyBegins(c) == /\ Begins(c, "VerifyStart")
                   /\ CancelExpiry /\ verifyTask' = c
                   /\ Await(c, "proj")
                   /\ UNCHANGED <<dead, locals, lock, claims, enrollTask, deleteTask, run>>

EnrollBegins(c) == /\ Begins(c, "EnrollStart")
                   /\ CancelExpiry
                   /\ Await(c, "proj")
                   /\ UNCHANGED <<dead, locals, lock, claims, tasks, run>>

DeleteBegins(c) == /\ Begins(c, "DeleteEnrolledFinger")
                   /\ CancelExpiry /\ deleteTask' = c
                   /\ Await(c, "proj")
                   /\ UNCHANGED <<dead, locals, lock, claims, verifyTask, enrollTask, run>>

\* The projection is collected, and _require_claim_owner runs again up to its await.
Projected(c) == /\ pc[c] = "proj" /\ CanRun(c)
                /\ owner = snd[c] /\ snd[c] \notin dead
                /\ Await(c, "own2") /\ seen' = [seen EXCEPT ![c] = claim]
                /\ UNCHANGED <<dead, op, snd, wait, lock, claims, tasks, run, timers, under>>

\* Any failure on the way to the operation goes to the finally.
StartFails(c) == /\ pc[c] \in {"proj", "own2"} /\ CanRun(c)
                 /\ Continue(c, "finally")
                 /\ UNCHANGED <<dead, locals, lock, claims, tasks, run, timers, under>>

Started(c, r) == /\ run' = [run EXCEPT ![c] = r]
                 /\ under' = [under EXCEPT ![c] = claim]

VerifyStarts(c) == /\ pc[c] = "own2" /\ op[c] = "VerifyStart" /\ CanRun(c)
                   /\ OwnsClaim(c) /\ enrollTask = None /\ deleteTask = None
                   /\ Started(c, "verify")
                   /\ Await(c, "idle") /\ Forget(c, TRUE)
                   /\ UNCHANGED <<dead, lock, claims, tasks, timers>>

\* Mutant: nothing is checked again after the projection.
EnrollStartsUnchecked(c) == /\ pc[c] = "own2" /\ op[c] = "EnrollStart" /\ CanRun(c)
                            /\ OwnsClaim(c)
                            /\ Started(c, "enroll") /\ enrollTask' = c
                            /\ Return(c)
                            /\ UNCHANGED <<dead, lock, claims, verifyTask, deleteTask, timers>>

EnrollStarts(c) == /\ pc[c] = "own2" /\ op[c] = "EnrollStart" /\ CanRun(c)
                   /\ OwnsClaim(c) /\ ~Busy
                   /\ Started(c, "enroll") /\ enrollTask' = c
                   /\ Return(c)
                   /\ UNCHANGED <<dead, lock, claims, verifyTask, deleteTask, timers>>

DeleteStarts(c) == /\ pc[c] = "own2" /\ op[c] = "DeleteEnrolledFinger" /\ CanRun(c)
                   /\ OwnsClaim(c) /\ verifyTask = None /\ enrollTask = None
                   /\ Started(c, "none") /\ Await(c, "del")
                   /\ UNCHANGED <<dead, locals, lock, claims, tasks, timers>>

\* The deletion worker answers or fails.
DeleteEnds(c) == /\ pc[c] = "del" /\ CanRun(c)
                 /\ Continue(c, "finally")
                 /\ under' = [under EXCEPT ![c] = None]
                 /\ UNCHANGED <<dead, locals, lock, claims, tasks, run, timers>>

Finally(c) == /\ pc[c] \in {"finally", "cancelled"} /\ CanRun(c)
              /\ verifyTask' = IF verifyTask = c THEN None ELSE verifyTask
              /\ deleteTask' = IF deleteTask = c THEN None ELSE deleteTask
              /\ UNCHANGED <<dead, lock, claims, enrollTask, run>>
              /\ ArmUnstarted(c, FALSE)
              /\ Return(c)

-----------------------------------------------------------------------------
(* The background operations. *)

\* The backend returned a verdict; the run checks its claim again before it publishes.
VerdictArrives(c) == /\ Idle /\ run[c] = "verify" /\ owner = snd[c] /\ snd[c] \notin dead
                     /\ run' = [run EXCEPT ![c] = "check"] /\ seen' = [seen EXCEPT ![c] = claim]
                     /\ UNCHANGED <<loop, dead, pc, op, snd, wait, lock, claims, tasks, timers, under>>

\* Mutant: a finished verification arms no timer.
VerifyEndsForever(c) == /\ Idle /\ run[c] \in {"verify", "check"}
                        /\ run' = [run EXCEPT ![c] = "ended"]
                        /\ snd' = [snd EXCEPT ![c] = None] /\ seen' = [seen EXCEPT ![c] = None]
                        /\ UNCHANGED <<loop, dead, pc, op, wait, lock, claims, tasks, timers, under>>

\* A terminal VerifyStatus goes to the current claim's sender: the verdict if the
\* claim check passed, verify-unknown-error after any failure.
VerifyEnds(c) == /\ Idle /\ run[c] \in {"verify", "check"}
                 /\ run' = [run EXCEPT ![c] = "ended"]
                 /\ expiry' = c /\ timer' = [timer EXCEPT ![c] = "verified"]
                 /\ snd' = [snd EXCEPT ![c] = None] /\ seen' = [seen EXCEPT ![c] = None]
                 /\ UNCHANGED <<loop, dead, pc, op, wait, lock, claims, tasks, under>>

\* A cancelled verification drains its worker and publishes nothing.
VerifyDrained(c) == /\ Idle /\ run[c] = "cancel"
                    /\ run' = [run EXCEPT ![c] = "ended"]
                    /\ snd' = [snd EXCEPT ![c] = None] /\ seen' = [seen EXCEPT ![c] = None]
                    /\ under' = [under EXCEPT ![c] = None]
                    /\ UNCHANGED <<loop, dead, pc, op, wait, lock, claims, tasks, timers>>

\* Going to sleep cancels the task that owns the match worker.
SleepCancels(c) == /\ Suspends /\ Idle /\ run[c] = "verify"
                   /\ run' = [run EXCEPT ![c] = "cancel"]
                   /\ UNCHANGED <<loop, dead, pc, locals, lock, claims, tasks, timers, under>>

\* The terminal enrollment update replaces the expiry timer without cancelling it.
EnrollEnds(c) == /\ Idle /\ run[c] = "enroll"
                 /\ run' = [run EXCEPT ![c] = "ended"]
                 /\ expiry' = c /\ timer' = [timer EXCEPT ![c] = "enrolled"]
                 /\ UNCHANGED <<loop, dead, pc, locals, lock, claims, tasks, under>>

-----------------------------------------------------------------------------
(* Clients. *)

Die(s) == /\ s \notin dead /\ dead' = dead \cup {s}
          /\ UNCHANGED <<loop, pc, locals, lock, claims, tasks, run, timers, under>>

\* NameOwnerChanged: the handler task waits for claim_lock.
Disconnect(s) == /\ Idle /\ pc[s] = "idle" /\ Await(s, "lock")
                 /\ UNCHANGED <<dead, locals, lock, claims, tasks, run, timers, under>>

Stopping(a) == \/ StopVerification(a) \/ VerificationStopped(a)
               \/ StopEnrollment(a) \/ CancelSent(a) \/ EnrollmentStopped(a)
               \/ WaitDeletion(a) \/ DeletionWaited(a) \/ Clear(a)

Method(c) == \/ OwnerAccepted(c) \/ OwnerRefused(c)
             \/ ClaimLocked(c) \/ ClaimGranted(c) \/ ClaimRejected(c)
             \/ BeginRefused(c) \/ VerifyBegins(c) \/ EnrollBegins(c) \/ DeleteBegins(c)
             \/ Projected(c) \/ StartFails(c)
             \/ VerifyStarts(c) \/ EnrollStarts(c) \/ DeleteStarts(c)
             \/ DeleteEnds(c) \/ Finally(c)

Timers(c) == ExpireUnstarted(c) \/ ExpireVerified(c) \/ ExpireEnrolled(c)
Runs(c) == VerdictArrives(c) \/ VerifyEnds(c) \/ VerifyDrained(c) \/ EnrollEnds(c)

Step == \/ \E c \in Calls, s \in Senders, o \in Offered : Call(c, s, o)
        \/ \E c \in Calls : Method(c) \/ Timers(c) \/ Runs(c) \/ SleepCancels(c)
        \/ \E a \in Actors : Stopping(a)
        \/ \E s \in Senders : DepartureLocked(s) \/ Die(s) \/ Disconnect(s)

Next == Step /\ UNCHANGED enrollment

Spec == Init /\ [][Next]_vars

\* Whatever does not depend on a client goes on: the loop is never blocked, threads
\* and workers answer, a match is observed for at most 120 seconds, the bus reports
\* the connection of a dead process, and asyncio.Lock serves its waiters in order.
\* Nothing is assumed of the timers.
Fairly(A) == A /\ UNCHANGED enrollment
Fairness == /\ \A c \in Calls : WF_vars(Fairly(Method(c))) /\ WF_vars(Fairly(Runs(c)))
            /\ \A a \in Actors : WF_vars(Fairly(Stopping(a)))
            /\ \A s \in Senders : /\ WF_vars(s \in dead /\ Fairly(Disconnect(s)))
                                  /\ SF_vars(Fairly(DepartureLocked(s)))

LiveSpec == Spec /\ Fairness

-----------------------------------------------------------------------------
(* Properties. *)

Active(c) == run[c] \in {"verify", "check", "cancel", "enroll"} \/ pc[c] = "del"

\* One biometric operation at a time: a verification (even one that is being
\* cancelled), an enrollment and a deletion never run together, although the checks
\* for another operation are separated from its start by awaits.
OneOperation == \A c, d \in Calls : Active(c) /\ Active(d) => c = d

\* An operation runs only under the claim it was started for: no release, expiry,
\* departure or reaping takes the claim away from under a running operation.
RunsUnderItsClaim == \A c \in Calls :
  run[c] \in {"verify", "check", "enroll"} \/ pc[c] = "del" => claim = under[c]

\* The terminal VerifyStatus of a verification reaches the claim that started it.
StatusToItsClaim == \A c \in Calls :
  run[c] \in {"verify", "check"} /\ run'[c] = "ended" => claim = under[c]

\* Nobody but a Release or a timer takes the claim of a live owner (Claim: "A live owner
\* remains strictly exclusive"): a reaping Claim and a departure handler clear whatever
\* claim is current after several awaits, and it is still the dead or departed client's.
\* Without native enrollment the Release is the owner's, and the timer was armed for this
\* claim; with it neither is certain.
LiveOwnerKeepsClaim == claim # None /\ claim' # claim =>
  \/ owner \in dead \/ pc[owner] # "idle"
  \/ \E c \in Calls : /\ pc[c] = "clear" /\ pc'[c] = "idle" /\ op[c] = "Release"
                      /\ snd[c] = owner \/ enrollment
  \/ \E c \in Calls : /\ timer[c] # "none" /\ timer'[c] = "none"
                      /\ under[c] = claim \/ enrollment

\* No pending call and no running operation.
Quiet == loop = None /\ (\A a \in Actors : pc[a] \in {"idle", "gone"})
           /\ (\A c \in Calls : ~Active(c))

\* Suspend ended the verification, without a status and without a timer.
Suspended == verifyTask # None /\ run[verifyTask] = "ended" /\ under[verifyTask] = None

\* The claim of a client that has gone silent always has a timer that will end it,
\* unless the machine was suspended during its verification.
NoImmortalClaim == claim # None /\ Quiet /\ ~Suspended =>
  /\ expiry # None
  /\ \/ timer[expiry] = "unstarted" /\ ~Busy
     \/ timer[expiry] = "verified" /\ verifyTask = expiry
     \/ timer[expiry] = "enrolled" /\ enrollTask = expiry

\* The claim of a dead process is cleared, whatever was running or waiting, when
\* native enrollment is not enabled.
DeadOwnerReaped == \A s \in Senders : ~enrollment /\ owner = s /\ s \in dead ~> owner # s

\* One operation runs at a time; without native enrollment what runs, runs under a
\* claim, and a claim nobody uses ends.
ClaimSound == TypeOK /\ OneOperation /\ (~enrollment => RunsUnderItsClaim /\ NoImmortalClaim)

\* No step takes a live client's claim, or, without native enrollment, gives one
\* client's status to another.
ClaimRespected == [][LiveOwnerKeepsClaim /\ (~enrollment => StatusToItsClaim)]_vars
=============================================================================
