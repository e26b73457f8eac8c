---------------------------- MODULE WorkerSession ----------------------------
(***************************************************************************)
(* An enrollment or a deletion that the fprintd facade runs in a transient *)
(* root worker: the facade's client (t2_fprint_worker_client,              *)
(* t2_fprint_delete_worker_client), the private connection, and the worker *)
(* (t2_fprint_worker, t2_fprint_delete_worker) with the authority it       *)
(* collects (SelfService) and the finger it changes.                       *)
(*                                                                         *)
(* The facade's coroutines run from await to await; the worker, its cancel *)
(* listener and the threads the facade sends from are concurrent.  The     *)
(* facade or a worker may be killed at any time; a worker outlives the     *)
(* facade until it hears that the connection is closed.                    *)
(***************************************************************************)
EXTENDS SelfService

CONSTANTS Waiters,  \* concurrent EnrollStop calls
          NoOne

ASSUME WorkerNames == NoOne \notin Requests \cup {"enroll", "delete"} \cup {"completed", "failed", "data-full", "unknown"}

VARIABLES kind,        \* what a request asks for
          client,      \* the facade's coroutine of a request
          task,        \* EnrollmentWorkerClient.task
          asked,       \* the cancel event of a request
          requestSent, cancelSent,  \* EnrollmentWorkerClient._request_sent, _cancel_sent
          stop, target,             \* the EnrollStop calls, and the task each waits for
          up,          \* the facade's end of the connection is open
          started, cancel,          \* packets on their way to the worker
          mail,        \* the terminal packet on its way to the facade
          told,        \* what the facade's caller was told in the end
          worker,      \* the worker process of a request
          heard,       \* the worker's cancel_event
          full,        \* runtime.last_progress is 100
          result,      \* what the worker is about to report
          finger,      \* the finger this request adds, or deletes
          holder       \* who has the operation lock (and the mapping lock)

facade == <<client, task, requestSent, cancelSent, told>>
stops == <<stop, target>>
wire == <<started, cancel, mail>>
process == <<worker, heard, full, result>>
sessionVars == <<native, world, authority, kind, facade, asked, stops, up, wire, process, finger, holder>>

Calling == {"check", "launch", "recheck", "send", "sent", "cancel", "receive"}
Working == {"receive", "admit", "queue", "authorize", "capture", "recover", "saved",
            "publish", "match", "rollback", "delete", "report", "failing"}
Statuses == {"completed", "failed", "data-full", "unknown"}
Fingers == {"none", "captured", "saved", "verified", "published", "present", "deleted"}

SessionTypeOK ==
    /\ AuthorityTypeOK
    /\ kind \in [Requests -> {"enroll", "delete", NoOne}]
    /\ client \in [Requests -> Calling \cup {"idle", "done", "lost"}]
    /\ task \in Requests \cup {NoOne} /\ asked \in [Requests -> BOOLEAN]
    /\ requestSent \in BOOLEAN /\ cancelSent \in BOOLEAN
    /\ stop \in [Waiters -> {"idle", "send", "wait"}] /\ target \in [Waiters -> Requests \cup {NoOne}]
    /\ up \in [Requests -> BOOLEAN] /\ started \in [Requests -> BOOLEAN] /\ cancel \in [Requests -> BOOLEAN]
    /\ mail \in [Requests -> Statuses \cup {NoOne}] /\ told \in [Requests -> Statuses \cup {NoOne}]
    /\ worker \in [Requests -> Working \cup {"none", "ended"}]
    /\ heard \in [Requests -> BOOLEAN] /\ full \in [Requests -> BOOLEAN]
    /\ result \in [Requests -> Statuses \cup {NoOne}]
    /\ finger \in [Requests -> Fingers] /\ holder \in Requests \cup {NoOne}

SessionInit ==
    /\ AuthorityInit
    /\ kind = [o \in Requests |-> NoOne] /\ client = [o \in Requests |-> "idle"]
    /\ task = NoOne /\ asked = [o \in Requests |-> FALSE]
    /\ requestSent = FALSE /\ cancelSent = FALSE
    /\ stop = [w \in Waiters |-> "idle"] /\ target = [w \in Waiters |-> NoOne]
    /\ up = [o \in Requests |-> FALSE]
    /\ started = [o \in Requests |-> FALSE] /\ cancel = [o \in Requests |-> FALSE]
    /\ mail = [o \in Requests |-> NoOne] /\ told = [o \in Requests |-> NoOne]
    /\ worker = [o \in Requests |-> "none"] /\ heard = [o \in Requests |-> FALSE]
    /\ full = [o \in Requests |-> FALSE] /\ result = [o \in Requests |-> NoOne]
    /\ finger = [o \in Requests |-> "none"] /\ holder = NoOne

-----------------------------------------------------------------------------
(* The facade: EnrollmentWorkerClient and DeletionWorkerClient. *)

Client(o, p) == client' = [client EXCEPT ![o] = p]

\* The device runs one operation at a time (OneOperation of FprintDevice).
Starts(o, k) ==
    /\ client[o] = "idle" /\ \A p \in Requests : client[p] \notin Calling
    /\ kind' = [kind EXCEPT ![o] = k] /\ Client(o, "check") /\ EnterRound(o, "claim")
    /\ UNCHANGED <<native, world, asked, stops, up, wire, told, process, holder>>

\* EnrollmentWorkerClient.start needs a client without a task.
StartEnroll(o) ==
    /\ task = NoOne /\ Starts(o, "enroll")
    /\ task' = o /\ requestSent' = FALSE /\ cancelSent' = FALSE /\ UNCHANGED finger

\* DeletionWorkerClient.delete, for a finger that is there.
StartDelete(o) ==
    /\ Starts(o, "delete") /\ finger' = [finger EXCEPT ![o] = "present"]
    /\ UNCHANGED <<task, requestSent, cancelSent>>

\* evidence.revalidate, in a thread: before the launch, and again before the request.
ClaimHolds(o) ==
    /\ client[o] \in {"check", "recheck"} /\ Through(o, "claim")
    /\ Client(o, IF client[o] = "check" THEN "launch" ELSE "send")
    /\ EnterRound(o, "none")
    /\ UNCHANGED <<native, world, kind, task, requestSent, cancelSent, told, asked, stops, up, wire,
                   process, finger, holder>>

\* The transient unit is started, connects, and is the one that was started.
Launches(o) ==
    /\ client[o] = "launch"
    /\ Client(o, "recheck") /\ EnterRound(o, "claim")
    /\ up' = [up EXCEPT ![o] = TRUE] /\ worker' = [worker EXCEPT ![o] = "receive"]
    /\ UNCHANGED <<native, world, kind, task, requestSent, cancelSent, told, asked, stops, wire,
                   heard, full, result, finger, holder>>

LaunchEnroll(o) == kind[o] = "enroll" /\ Launches(o)
LaunchDelete(o) == kind[o] = "delete" /\ Launches(o)

SendStart(o) ==
    /\ client[o] = "send" /\ worker[o] # "ended"
    /\ Client(o, "sent") /\ started' = [started EXCEPT ![o] = TRUE]
    /\ UNCHANGED <<native, world, authority, kind, task, requestSent, cancelSent, told, asked, stops,
                   up, cancel, mail, process, finger, holder>>

\* Mutant: the cancel event is not looked at once the request is out.
StartSentUnchecked(o) ==
    /\ client[o] = "sent" /\ kind[o] = "enroll"
    /\ requestSent' = TRUE /\ Client(o, "receive")
    /\ UNCHANGED <<native, world, authority, kind, task, cancelSent, told, asked, stops, up, wire,
                   process, finger, holder>>

\* A Stop that came before the request was out left the cancel packet to this coroutine.
StartSent(o) ==
    /\ client[o] = "sent" /\ kind[o] = "enroll"
    /\ requestSent' = TRUE
    /\ IF asked[o] /\ ~cancelSent THEN Client(o, "cancel") /\ cancelSent' = TRUE
       ELSE Client(o, "receive") /\ UNCHANGED cancelSent
    /\ UNCHANGED <<native, world, authority, kind, task, told, asked, stops, up, wire,
                   process, finger, holder>>

\* A deletion has no cancel packet.
DeleteSent(o) ==
    /\ client[o] = "sent" /\ kind[o] = "delete" /\ Client(o, "receive")
    /\ UNCHANGED <<native, world, authority, kind, task, requestSent, cancelSent, told, asked, stops,
                   up, wire, process, finger, holder>>

\* The cancel packet is for a worker that is still there to listen.
Post(o) == cancel' = [cancel EXCEPT ![o] = @ \/ (up[o] /\ worker[o] # "ended")]

SendCancel(o) ==
    /\ client[o] = "cancel"
    /\ Client(o, "receive") /\ Post(o)
    /\ UNCHANGED <<native, world, authority, kind, task, requestSent, cancelSent, told, asked, stops,
                   up, started, mail, process, finger, holder>>

\* The terminal update is delivered and the session closed.
ClientEnds(o, status) ==
    /\ Client(o, "done") /\ told' = [told EXCEPT ![o] = status]
    /\ up' = [up EXCEPT ![o] = FALSE] /\ mail' = [mail EXCEPT ![o] = NoOne]
    /\ asked' = [asked EXCEPT ![o] = FALSE]
    /\ IF kind[o] = "enroll" THEN requestSent' = FALSE ELSE UNCHANGED requestSent
    /\ UNCHANGED <<native, world, kind, task, cancelSent, stops, started, cancel, process, finger, holder>>

Receives(o) == /\ client[o] = "receive" /\ mail[o] # NoOne
               /\ ClientEnds(o, mail[o]) /\ UNCHANGED authority

ReceiveUpdate(o) == kind[o] = "enroll" /\ Receives(o)
ReceiveCompletion(o) == kind[o] = "delete" /\ Receives(o)

\* Whatever fails, the caller is told enroll-unknown-error, or the deletion raises: the
\* claim does not hold, the launch fails, the worker is gone, or a packet is refused.
ClientFails(o) == /\ client[o] \in Calling \ {"cancel"}
                  /\ ClientEnds(o, "unknown")
                  /\ IF client[o] \in {"check", "recheck"} THEN EnterRound(o, "none")
                     ELSE UNCHANGED authority

\* EnrollmentWorkerClient.stop: the event, and the packet if the request is out.
Stop(w) ==
    /\ stop[w] = "idle" /\ task # NoOne
    /\ target' = [target EXCEPT ![w] = task]
    /\ LET running == client[task] \in Calling
           ready == running /\ up[task] /\ requestSent /\ ~cancelSent
       IN /\ asked' = [asked EXCEPT ![task] = @ \/ running]
          /\ stop' = [stop EXCEPT ![w] = IF ready THEN "send" ELSE "wait"]
          /\ cancelSent' = (cancelSent \/ ready)
    /\ UNCHANGED <<native, world, authority, kind, client, task, requestSent, told, up, wire,
                   process, finger, holder>>

StopSends(w) ==
    /\ stop[w] = "send"
    /\ stop' = [stop EXCEPT ![w] = "wait"]
    /\ Post(target[w])
    /\ UNCHANGED <<native, world, authority, kind, facade, asked, target, up, started, mail,
                   process, finger, holder>>

\* Mutant: the waiter clears whatever task the client has by now.
StopReturnsClearing(w) ==
    /\ stop[w] = "wait" /\ client[target[w]] = "done"
    /\ stop' = [stop EXCEPT ![w] = "idle"] /\ target' = [target EXCEPT ![w] = NoOne]
    /\ task' = NoOne /\ requestSent' = FALSE /\ cancelSent' = FALSE
    /\ UNCHANGED <<native, world, authority, kind, client, told, asked, up, wire, process, finger, holder>>

\* The task is done, and is forgotten unless another waiter let it be replaced.
StopReturns(w) ==
    /\ stop[w] = "wait" /\ client[target[w]] = "done"
    /\ stop' = [stop EXCEPT ![w] = "idle"] /\ target' = [target EXCEPT ![w] = NoOne]
    /\ IF task = target[w] THEN task' = NoOne /\ requestSent' = FALSE /\ cancelSent' = FALSE
       ELSE UNCHANGED <<task, requestSent, cancelSent>>
    /\ UNCHANGED <<native, world, authority, kind, client, told, asked, up, wire, process, finger, holder>>

\* A waiter that is itself cancelled leaves the task to the others.
StopAbandoned(w) ==
    /\ stop[w] = "wait" /\ client[target[w]] \in Calling
    /\ stop' = [stop EXCEPT ![w] = "idle"] /\ target' = [target EXCEPT ![w] = NoOne]
    /\ UNCHANGED <<native, world, authority, kind, facade, asked, up, wire, process, finger, holder>>

\* The facade is killed; the kernel closes its connections, and a new one is started.
FacadeDies ==
    /\ \E o \in Requests : client[o] \in Calling
    /\ client' = [o \in Requests |-> IF client[o] \in Calling THEN "lost" ELSE client[o]]
    /\ round' = [o \in Requests |-> IF round[o] = "claim" THEN "none" ELSE round[o]]
    /\ task' = NoOne /\ requestSent' = FALSE /\ cancelSent' = FALSE
    /\ stop' = [w \in Waiters |-> "idle"] /\ target' = [w \in Waiters |-> NoOne]
    /\ up' = [o \in Requests |-> FALSE] /\ mail' = [o \in Requests |-> NoOne]
    /\ asked' = [o \in Requests |-> FALSE]
    /\ UNCHANGED <<native, world, next, since, witness, kind, told, started, cancel, process, finger, holder>>

-----------------------------------------------------------------------------
(* The worker, up to its command. *)

Worker(o, p) == worker' = [worker EXCEPT ![o] = p]
Result(o, r) == result' = [result EXCEPT ![o] = r]
Finger(o, f) == finger' = [finger EXCEPT ![o] = f]
Unlock(o) == holder' = IF holder = o THEN NoOne ELSE holder

\* With the process go its event and what it has not read.
WorkerEnds(o) ==
    /\ Worker(o, "ended") /\ Result(o, NoOne)
    /\ heard' = [heard EXCEPT ![o] = FALSE] /\ full' = [full EXCEPT ![o] = FALSE]
    /\ started' = [started EXCEPT ![o] = FALSE] /\ cancel' = [cancel EXCEPT ![o] = FALSE]

untouched == <<native, world, kind, facade, asked, stops, up>>

TakesRequest(o) ==
    /\ worker[o] = "receive" /\ started[o]
    /\ Worker(o, "admit") /\ EnterRound(o, "admit") /\ started' = [started EXCEPT ![o] = FALSE]
    /\ UNCHANGED <<untouched, cancel, mail, heard, full, result, finger, holder>>

ReceiveStart(o) == kind[o] = "enroll" /\ TakesRequest(o)
ReceiveRequest(o) == kind[o] = "delete" /\ TakesRequest(o)

\* The transferred process is pinned, its session and account are those of the claim; from
\* here on an enrollment's worker listens for the cancel packet.
Admitted(o) ==
    /\ worker[o] = "admit" /\ Through(o, "admit")
    /\ Worker(o, "queue") /\ EnterRound(o, "none")
    /\ UNCHANGED <<untouched, wire, heard, full, result, finger, holder>>

\* _cancel_listener: the cancel packet, or the end of the facade's connection.
Hear(o) ==
    /\ kind[o] = "enroll" /\ worker[o] \in Working \ {"receive", "admit"} /\ ~heard[o]
    /\ cancel[o] \/ ~up[o]
    /\ heard' = [heard EXCEPT ![o] = TRUE] /\ cancel' = [cancel EXCEPT ![o] = FALSE]
    /\ UNCHANGED <<untouched, authority, started, mail, worker, full, result, finger, holder>>

\* The native owner gives up if the lock is taken, or if it was cancelled; the broker waits.
TakeLock(o) ==
    /\ worker[o] = "queue" /\ holder = NoOne /\ ~(native /\ heard[o])
    /\ holder' = o /\ Worker(o, "authorize") /\ EnterRound(o, "collect")
    /\ UNCHANGED <<untouched, wire, heard, full, result, finger>>

\* The round before the one in which dispatch_allowed reads everything again.
LastRound == IF native THEN "collect" ELSE "handoff"

\* The grant is given, the decision is made, and the authority is handed to its consumer.
NextRound(o) ==
    /\ worker[o] = "authorize" /\ Through(o, round[o])
    /\ \/ round[o] = "collect" /\ ~native /\ EnterRound(o, "decide")
       \/ round[o] = "decide" /\ EnterRound(o, "handoff")
       \/ /\ round[o] = LastRound /\ EnterRound(o, "dispatch")
          /\ kind[o] = "enroll" => ~heard[o] /\ (native \/ up[o])
    /\ UNCHANGED <<untouched, wire, process, finger, holder>>

\* prepare_enrollment_material finds no room; nothing was sent.
CapacityExhausted(o) ==
    /\ worker[o] = "authorize" /\ kind[o] = "enroll" /\ ~native /\ Through(o, "handoff")
    /\ Worker(o, "failing") /\ Result(o, "data-full") /\ EnterRound(o, "none") /\ Unlock(o)
    /\ UNCHANGED <<untouched, wire, heard, full, finger>>

\* dispatch_allowed is true: the intent is journaled and the command sent.
DispatchEnroll(o) ==
    /\ worker[o] = "authorize" /\ kind[o] = "enroll" /\ Through(o, "dispatch") /\ Worker(o, "capture")
    /\ UNCHANGED <<untouched, authority, wire, heard, full, result, finger, holder>>

DispatchDelete(o) ==
    /\ worker[o] = "authorize" /\ kind[o] = "delete" /\ Through(o, "dispatch") /\ Worker(o, "delete")
    /\ UNCHANGED <<untouched, authority, wire, heard, full, result, finger, holder>>

\* What the finger may be when the step under way stops half-way.
Underway(o) == CASE worker[o] = "capture" -> {"none", "captured", "saved"}
                 [] worker[o] = "delete"  -> {"present", "deleted"}
                 [] worker[o] = "recover" /\ finger[o] = "captured" /\ holder = NoOne -> {"captured", "saved"}
                 [] worker[o] = "publish" /\ holder = NoOne -> {"saved", "published"}
                 [] worker[o] = "rollback" /\ finger[o] = "saved" /\ holder = NoOne -> {"saved", "none"}
                 [] OTHER -> {finger[o]}

\* Any exception before the command, or on the way to a result that may be reported.
WorkerRaises(o) ==
    /\ worker[o] \in {"receive", "admit", "queue", "authorize", "recover", "saved", "publish", "rollback"}
    /\ \E f \in Underway(o) : Finger(o, f)
    /\ Worker(o, "failing") /\ Result(o, "unknown") /\ EnterRound(o, "none") /\ Unlock(o)
    /\ UNCHANGED <<untouched, wire, heard, full>>

-----------------------------------------------------------------------------
(* The finger.  Enrollment and IdentityDelete have the steps of the journals. *)

\* runtime.accept: the last progress, which the facade still has to be there to receive.
CaptureFull(o) ==
    /\ worker[o] = "capture" /\ ~full[o] /\ up[o]
    /\ full' = [full EXCEPT ![o] = TRUE]
    /\ UNCHANGED <<untouched, authority, wire, worker, heard, result, finger, holder>>

\* The coordinator returns a finger that is saved, with the final policy satisfied or not;
\* or, cancelled, timed out, failed or rejected, that none was added.
CaptureEnds(o) ==
    /\ worker[o] = "capture"
    /\ \/ Finger(o, "saved") /\ Worker(o, "saved") /\ UNCHANGED result
       \/ Finger(o, "saved") /\ Worker(o, "report") /\ Result(o, "unknown")
       \/ Finger(o, "none") /\ Worker(o, "report") /\ \E r \in {"failed", "unknown"} : Result(o, r)
    /\ Unlock(o)
    /\ UNCHANGED <<untouched, authority, wire, heard, full>>

\* It raises, with the outcome in the journal; a complete capture is worth a recovery.
CaptureRaises(o) ==
    /\ worker[o] = "capture"
    /\ \E f \in Underway(o) : Finger(o, f)
    /\ Worker(o, IF native /\ full[o] THEN "recover" ELSE "failing")
    /\ Result(o, "unknown") /\ Unlock(o)
    /\ UNCHANGED <<untouched, authority, wire, heard, full>>

Recovered(o) ==
    /\ worker[o] = "recover" /\ finger[o] = "captured" /\ holder = NoOne
    /\ Finger(o, "saved") /\ Worker(o, "saved") /\ Result(o, NoOne)
    /\ UNCHANGED <<untouched, authority, wire, heard, full, holder>>

\* Mutant: a saved finger is reported before it has matched.
SettleUnverified(o) ==
    /\ worker[o] = "saved"
    /\ Worker(o, "report") /\ Result(o, "completed")
    /\ UNCHANGED <<untouched, authority, wire, heard, full, finger, holder>>

\* The broker's enrollment is complete; a native one is first published, or matched.
Settle(o) ==
    /\ worker[o] = "saved"
    /\ \/ ~native /\ Worker(o, "report") /\ Result(o, "completed")
       \/ /\ native /\ full[o] /\ up[o]
          /\ Worker(o, "publish") \/ Worker(o, "match")
          /\ UNCHANGED result
    /\ UNCHANGED <<untouched, authority, wire, heard, full, finger, holder>>

\* The first finger: the runtime authority is published.
Published(o) ==
    /\ worker[o] = "publish" /\ holder = NoOne
    /\ Finger(o, "published") /\ Worker(o, "report") /\ Result(o, "completed")
    /\ UNCHANGED <<untouched, authority, wire, heard, full, holder>>

\* A further finger: the match worker journals that it matched; the cancel event is
\* looked at once more after that.
Matched(o) ==
    /\ worker[o] = "match" /\ finger[o] = "saved" /\ holder = NoOne
    /\ Finger(o, "verified")
    /\ UNCHANGED <<untouched, authority, wire, process, holder>>

MatchAccepted(o) ==
    /\ worker[o] = "match" /\ finger[o] = "verified" /\ ~heard[o]
    /\ Worker(o, "report") /\ Result(o, "completed")
    /\ UNCHANGED <<untouched, authority, wire, heard, full, finger, holder>>

MatchFails(o) ==
    /\ worker[o] = "match"
    /\ Worker(o, "rollback")
    /\ UNCHANGED <<untouched, authority, wire, heard, full, result, finger, holder>>

\* Mutant: the result of the rollback is not looked at.
RolledBackUnchecked(o) ==
    /\ worker[o] = "rollback"
    /\ Worker(o, "report") /\ Result(o, "failed")
    /\ UNCHANGED <<untouched, authority, wire, heard, full, finger, holder>>

\* rollback-unverified-addition refuses a finger whose match is journaled.
RolledBack(o) ==
    /\ worker[o] = "rollback" /\ finger[o] = "saved" /\ holder = NoOne
    /\ Finger(o, "none") /\ Worker(o, "report") /\ Result(o, "failed")
    /\ UNCHANGED <<untouched, authority, wire, heard, full, holder>>

Deleted(o) ==
    /\ worker[o] = "delete"
    /\ Finger(o, "deleted") /\ Worker(o, "report") /\ Result(o, "completed") /\ Unlock(o)
    /\ UNCHANGED <<untouched, authority, wire, heard, full>>

DeleteRaises(o) ==
    /\ worker[o] = "delete"
    /\ \E f \in Underway(o) : Finger(o, f)
    /\ Worker(o, "failing") /\ Result(o, "unknown") /\ Unlock(o)
    /\ UNCHANGED <<untouched, authority, wire, heard, full>>

\* The one terminal packet.  A send to a closed connection fails, and nothing follows it.
Report(o) ==
    /\ worker[o] \in {"report", "failing"}
    /\ mail' = [mail EXCEPT ![o] = IF up[o] THEN result[o] ELSE @]
    /\ WorkerEnds(o) /\ EnterRound(o, "none")
    /\ UNCHANGED <<untouched, finger, holder>>

\* The worker is killed.
WorkerDies(o) ==
    /\ worker[o] \in Working
    /\ WorkerEnds(o) /\ EnterRound(o, "none") /\ Unlock(o)
    /\ \E f \in Underway(o) : Finger(o, f)
    /\ UNCHANGED <<untouched, mail>>

-----------------------------------------------------------------------------
Read(o) == /\ ReadHolds(o)
           /\ UNCHANGED <<native, world, kind, facade, asked, stops, up, wire, process, finger, holder>>

\* The world matters to a request until its command is sent.
WorldChanges(o) ==
    /\ client[o] # "idle" /\ worker[o] \in {"none", "receive", "admit", "queue", "authorize"}
    /\ worker[o] = "none" => client[o] \in Calling
    /\ \E f \in Facts : Loses(o, f, holder = o) \/ Regains(o, f)
    /\ UNCHANGED <<native, kind, facade, asked, stops, up, wire, process, finger, holder>>

ClientSteps(o) == \/ ClaimHolds(o) \/ LaunchEnroll(o) \/ LaunchDelete(o) \/ SendStart(o)
                  \/ StartSent(o) \/ DeleteSent(o) \/ SendCancel(o)
                  \/ ReceiveUpdate(o) \/ ReceiveCompletion(o) \/ ClientFails(o)

Works(o) == \/ ReceiveStart(o) \/ ReceiveRequest(o) \/ Admitted(o) \/ TakeLock(o) \/ NextRound(o)
            \/ CapacityExhausted(o) \/ DispatchEnroll(o) \/ DispatchDelete(o) \/ WorkerRaises(o)
            \/ CaptureFull(o) \/ CaptureEnds(o) \/ CaptureRaises(o) \/ Recovered(o)
            \/ Settle(o) \/ Published(o) \/ Matched(o) \/ MatchAccepted(o) \/ MatchFails(o)
            \/ RolledBack(o) \/ Deleted(o) \/ DeleteRaises(o) \/ Report(o)

SessionNext ==
        \/ \E o \in Requests : StartEnroll(o) \/ StartDelete(o)
        \/ \E o \in Requests : ClientSteps(o) \/ Read(o) \/ Works(o) \/ Hear(o) \/ WorkerDies(o) \/ WorldChanges(o)
        \/ \E w \in Waiters : Stop(w) \/ StopSends(w) \/ StopReturns(w) \/ StopAbandoned(w)
        \/ FacadeDies

SessionSpec == SessionInit /\ [][SessionNext]_sessionVars

\* Threads and processes get on; a capture and a match wait for touches, and only a
\* cancelled one ends by itself.  Nobody is obliged to call Stop.
Touched(o) == worker[o] \in {"capture", "match"} => heard[o]
Unblocked(o) == worker[o] = "queue" => native \/ holder = NoOne
Answered(o) == client[o] = "receive" => mail[o] # NoOne \/ worker[o] = "ended"

SessionFairness ==
    /\ \A o \in Requests : /\ WF_sessionVars(Answered(o) /\ ClientSteps(o)) /\ WF_sessionVars(Read(o)) /\ WF_sessionVars(Hear(o))
                      /\ WF_sessionVars(Touched(o) /\ Unblocked(o) /\ Works(o))
    /\ \A w \in Waiters : WF_sessionVars(StopSends(w)) /\ WF_sessionVars(StopReturns(w))

LiveSession == SessionSpec /\ SessionFairness

-----------------------------------------------------------------------------
(* Properties. *)

\* A command goes to the SEP only after one last check in which the caller, its login
\* session, its account, the mapping, the keybag, the device and the grant each held;
\* and the process, the connection and the grant held at the moment at which the
\* session was seen active, although the world may change between any two reads
\* (dispatch_allowed of the broker and of t2_native_caller_authorization).
DispatchWitnessed == \A o \in Requests : worker[o] \in {"capture", "delete"} =>
    LET read == {DispatchReads[i] : i \in 1 .. Len(DispatchReads)}
    IN read \subseteq since[o] /\ read \cap Lasting \subseteq witness[o]

\* The finger of a request that is complete.
Complete(o) == IF kind[o] = "delete" THEN {"deleted"}
               ELSE IF native THEN {"verified", "published"} ELSE {"saved"}

Reported(o, s) == mail[o] = s \/ told[o] = s

\* What the caller is told is so, whatever died in between: a completed enrollment is
\* saved, and natively published or matched; after a failed one, or one refused for
\* lack of room, there is no new finger; a completed deletion has deleted.
TerminalsHold == \A o \in Requests :
    /\ Reported(o, "completed") => finger[o] \in Complete(o)
    /\ Reported(o, "failed") \/ Reported(o, "data-full") => finger[o] = "none"

\* The enrollment that runs is the client's task, so that every later Stop, release or
\* departure finds it ("never clear a replacement installed by a different completed
\* Stop waiter").
OwnedUntilDone == \A o \in Requests : kind[o] = "enroll" /\ client[o] \in Calling => task = o

\* A Stop is not lost, whether it comes before the request is out, while it is being
\* sent or after: the cancel packet is on its way before the client waits for updates.
StopNotLost == \A o \in Requests : asked[o] /\ client[o] = "receive" =>
    cancel[o] \/ heard[o] \/ worker[o] = "ended" \/ \E w \in Waiters : stop[w] = "send" /\ target[w] = o

\* What the facade and its workers know of each other.
SessionSound == SessionTypeOK /\ TerminalsHold /\ OwnedUntilDone /\ StopNotLost

\* An enrollment that was asked to stop ends, and so does every worker whose facade is
\* gone or has given up, without another touch of the sensor.
StopEnds == \A o \in Requests : asked[o] \/ client[o] \in {"done", "lost"} ~>
    client[o] \in {"done", "lost"} /\ worker[o] \in {"none", "ended"}
=============================================================================
