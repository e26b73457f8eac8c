------------------------- MODULE FprintDeviceProofs -------------------------
(***************************************************************************)
(* Proofs about FprintDevice, for any number of clients and calls: one     *)
(* biometric operation at a time, and no Claim or departure takes a live   *)
(* owner's claim, whatever is enabled; and, when native enrollment is not  *)
(* enabled, that what runs, runs under the claim it was started for, that  *)
(* a claim which nobody uses has a timer, and that a live owner loses its  *)
(* claim only by its own Release or timer.  And about WorkerSession, which *)
(* is what an enrollment or a deletion of the device runs, for any number  *)
(* of requests and of Stop calls.                                          *)
(***************************************************************************)
EXTENDS FprintDevice, WorkerSession, TLAPS

-----------------------------------------------------------------------------
(* One operation at a time. *)

\* A call that has not returned runs nothing in the background, and has no timer.
CallInv == \A c \in Calls :
    /\ pc[c] # "idle" => /\ run[c] = "none" /\ op[c] \in Ops /\ snd[c] \in Senders
    /\ timer[c] # "none" \/ expiry = c => pc[c] = "idle" /\ run[c] \in {"none", "ended"}

\* What runs, or is about to run, is marked in the task field of its kind.  Only an enrollment
\* that is still being prepared has no mark.
MarkInv == \A c \in Calls :
    /\ run[c] \in {"verify", "check", "cancel"} => verifyTask = c
    /\ run[c] = "enroll" => enrollTask = c
    /\ pc[c] = "del" => deleteTask = c
    /\ pc[c] \in {"proj", "own2"} /\ op[c] = "VerifyStart" => verifyTask = c
    /\ pc[c] \in {"proj", "own2"} /\ op[c] = "DeleteEnrolledFinger" => deleteTask = c

\* The three task fields exclude each other.
Exclusive == /\ verifyTask = None \/ enrollTask = None
             /\ verifyTask = None \/ deleteTask = None
             /\ enrollTask = None \/ deleteTask = None

Inv == TypeOK /\ CallInv /\ MarkInv /\ Exclusive

-----------------------------------------------------------------------------
(* claim_lock, whatever is enabled. *)

Chain == {"stopV", "waitV", "stopE", "stopD", "waitD", "clear"}
Holding == Chain \cup {"send", "waitE"}
Ending == {"stopD", "waitD", "clear"}

\* While a reaping Claim or a departure handler stops what runs, and while a Claim collects its
\* evidence, it holds claim_lock, and no other client is granted the claim.
LockInv ==
    /\ \A c \in Calls : pc[c] \in {"lock", "collect"} <=> pc[c] \notin Holding \cup {"idle"} /\ op[c] = "Claim"
    /\ \A a \in Actors : pc[a] \in Holding =>
          Op(a) \in {"Release", "Claim", "Depart", "VerifyStop", "EnrollStop"}
    /\ \A c \in Calls : pc[c] = "collect" => lock = c /\ claim = None
    /\ \A a \in Actors : pc[a] \in Ending => Op(a) \in {"Release", "Claim", "Depart"}
    /\ \A a \in Actors : pc[a] \in Holding /\ Op(a) = "Claim" =>
          lock = a /\ (claim # None => owner \in dead)
    /\ \A a \in Actors : pc[a] \in Holding /\ Op(a) = "Depart" =>
          lock = a /\ (claim # None => owner = a)

-----------------------------------------------------------------------------
(* The claim, when native enrollment is not enabled. *)

\* Without an enrollment client, no call is on its way to an enrollment.
OfferInv == ~enrollment => \A c \in Calls : op[c] \notin EnrollOps

Waiting == {a \in Actors : pc[a] \in {"waitV", "waitD"}}

NoEnrollment ==
    /\ enrollTask = None
    /\ \A c \in Calls : run[c] # "enroll" /\ timer[c] # "enrolled"
    /\ \A a \in Actors : pc[a] \notin {"send", "waitE"}

\* Where a coroutine that runs without an await can be, and what it has made sure of.
LoopInv ==
    /\ \A a \in Actors : pc[a] \in {"stopV", "stopE", "stopD", "clear", "begin", "finally"} <=> loop = a
    /\ \A a \in Actors : pc[a] = "begin" =>
          claim # None /\ \A b \in Waiting : ~Finished(wait[b])
    /\ \A a \in Actors : pc[a] \in {"stopE", "stopD", "clear"} => verifyTask = None
    /\ \A a \in Actors : pc[a] \in {"stopD", "clear"} => expiry = None
    /\ \A a \in Actors : pc[a] = "clear" => deleteTask = None
    /\ \A a \in Actors : pc[a] \in Chain => Op(a) \in {"Release", "VerifyStop", "Claim", "Depart"}
    /\ \A a \in Actors : pc[a] \in Chain \ {"stopV", "waitV"} => Op(a) # "VerifyStop"

\* Whoever waits is woken before the task it waited for is replaced.
WaitInv == \A a \in Actors :
    /\ pc[a] \in {"waitV", "waitD"} => wait[a] \in Calls
    /\ pc[a] = "waitV" =>
          /\ verifyTask \in {None, wait[a]}
          /\ verifyTask = None => Finished(wait[a])
          /\ pc[wait[a]] \notin {"proj", "own2"} /\ run[wait[a]] \notin {"verify", "check"}
          /\ timer[wait[a]] # "verified"
    /\ pc[a] = "waitD" =>
          /\ verifyTask = None /\ deleteTask \in {None, wait[a]}
          /\ deleteTask = None => Finished(wait[a])

\* Where the task of a task field is.
TaskInv ==
    /\ verifyTask # None =>
          \/ pc[verifyTask] \in {"proj", "own2", "cancelled", "finally"}
          \/ /\ pc[verifyTask] = "idle"
             /\ \/ run[verifyTask] \in {"verify", "check", "cancel"}
                \/ run[verifyTask] = "ended" /\ (expiry = verifyTask \/ under[verifyTask] = None)
    /\ deleteTask # None => pc[deleteTask] \in {"proj", "own2", "del", "finally"}
    /\ \A c \in Calls : pc[c] = "cancelled" => verifyTask = c

\* The claim of what runs, of the timer, and of the owner checks in flight.
HoldInv ==
    /\ claim = None => ~Busy /\ expiry = None
    /\ \A c \in Calls : run[c] \in {"verify", "check"} \/ pc[c] = "del" => claim = under[c]
    /\ \A c \in Calls : pc[c] \in {"own1", "own2"} => seen[c] # None
    /\ \A c \in Calls : pc[c] # "idle" => claim # c /\ \A d \in Calls : seen[d] # c
    /\ \A c \in Calls : pc[c] = "own1" => op[c] # "Claim" /\ (seen[c] = claim => owner = snd[c])

TimerInv ==
    /\ \A c \in Calls : timer[c] # "none" => expiry = c
    /\ expiry # None =>
          /\ under[expiry] = claim
          /\ \/ timer[expiry] = "unstarted" /\ ~Busy
             \/ timer[expiry] = "verified" /\ verifyTask = expiry
    /\ claim # None => \/ expiry # None \/ Busy
                       \/ \E a \in Actors : pc[a] \in {"waitV", "stopE", "stopD", "waitD", "clear"}

\* Who may clear the claim, and who holds the lock for it.
OwnerInv ==
    /\ \A c \in Calls : pc[c] = "collect" => lock = c /\ claim = None
    /\ \A a \in Actors : pc[a] \in Chain /\ Op(a) \in {"Claim", "Depart"} => lock = a
    /\ \A a \in Actors : pc[a] \in Chain /\ claim # None =>
          /\ Op(a) = "Release" => owner = snd[a]
          /\ Op(a) = "Claim" => owner \in dead
          /\ Op(a) = "Depart" => owner = a

ClaimInv == NoEnrollment /\ LoopInv /\ WaitInv /\ TaskInv /\ HoldInv /\ TimerInv /\ OwnerInv

-----------------------------------------------------------------------------
\* Method calls and the departure handlers of senders are the coroutines, and distinct.
LEMMA ActorFacts ==
    /\ Calls \subseteq Actors /\ Senders \subseteq Actors /\ Actors \subseteq Calls \cup Senders
    /\ None \notin Actors /\ \A c \in Calls : c \notin Senders
BY NameAssumption DEF Actors

\* One lemma per action: it keeps Inv.
LEMMA CallMarked == ASSUME Inv, NEW c \in Calls, NEW s \in Senders, NEW o \in Ops, Call(c, s, o), UNCHANGED enrollment PROVE Inv'
<1>1. TypeOK'
  BY DEF Inv, TypeOK, Opt, PCs, Call, Await, claims, tasks, timers
<1>2. CallInv'
  BY ActorFacts DEF Inv, TypeOK, CallInv, Call, Await, Free, timers
<1>3. MarkInv'
  BY ActorFacts DEF Inv, TypeOK, MarkInv, Call, Await, tasks
<1>4. Exclusive'
  BY DEF Inv, Exclusive, Call, tasks
<1> QED BY <1>1, <1>2, <1>3, <1>4 DEF Inv

LEMMA OwnerAcceptedMarked == ASSUME Inv, NEW c \in Calls, OwnerAccepted(c), UNCHANGED enrollment PROVE Inv'
<1>1. TypeOK'
  BY ActorFacts DEF Inv, TypeOK, Opt, PCs, OwnerAccepted, First, Continue, claims, tasks, timers
<1>2. CallInv'
  BY DEF Inv, CallInv, OwnerAccepted, Continue, timers
<1>3. MarkInv'
  BY DEF Inv, MarkInv, OwnerAccepted, First, Continue, tasks
<1>4. Exclusive'
  BY DEF Inv, Exclusive, OwnerAccepted, tasks
<1> QED BY <1>1, <1>2, <1>3, <1>4 DEF Inv

LEMMA OwnerRefusedMarked == ASSUME Inv, NEW c \in Calls, OwnerRefused(c), UNCHANGED enrollment PROVE Inv'
<1>1. TypeOK'
  BY DEF Inv, TypeOK, Opt, PCs, OwnerRefused, Return, Await, Forget, claims, tasks, timers
<1>2. CallInv'
  BY ActorFacts DEF Inv, TypeOK, CallInv, OwnerRefused, Return, Await, Forget, timers
<1>3. MarkInv'
  BY DEF Inv, MarkInv, OwnerRefused, Return, Await, Forget, tasks
<1>4. Exclusive'
  BY DEF Inv, Exclusive, OwnerRefused, tasks
<1> QED BY <1>1, <1>2, <1>3, <1>4 DEF Inv

LEMMA ClaimLockedMarked == ASSUME Inv, NEW c \in Calls, ClaimLocked(c), UNCHANGED enrollment PROVE Inv'
<1>1. TypeOK'
  BY ActorFacts DEF Inv, TypeOK, Opt, PCs, ClaimLocked, Return, Await, Continue, Forget, locals,
      claims, tasks, timers
<1>2. CallInv'
  BY ActorFacts DEF Inv, TypeOK, CallInv, ClaimLocked, Return, Await, Continue, Forget, locals,
      timers
<1>3. MarkInv'
  BY ActorFacts DEF Inv, TypeOK, MarkInv, ClaimLocked, Return, Await, Continue, Forget, locals,
      tasks
<1>4. Exclusive'
  BY DEF Inv, Exclusive, ClaimLocked, tasks
<1> QED BY <1>1, <1>2, <1>3, <1>4 DEF Inv

LEMMA ClaimGrantedMarked == ASSUME Inv, NEW c \in Calls, ClaimGranted(c), UNCHANGED enrollment PROVE Inv'
<1>1. TypeOK'
  BY ActorFacts DEF Inv, TypeOK, Opt, PCs, CallInv, ClaimGranted, Return, Await, Forget, tasks
<1>2. CallInv'
  BY ActorFacts DEF Inv, TypeOK, CallInv, ClaimGranted, Return, Await, Forget
<1>3. MarkInv'
  BY DEF Inv, MarkInv, ClaimGranted, Return, Await, Forget, tasks
<1>4. Exclusive'
  BY DEF Inv, Exclusive, ClaimGranted, tasks
<1> QED BY <1>1, <1>2, <1>3, <1>4 DEF Inv

LEMMA ClaimRejectedMarked == ASSUME Inv, NEW c \in Calls, ClaimRejected(c), UNCHANGED enrollment PROVE Inv'
<1>1. TypeOK'
  BY DEF Inv, TypeOK, Opt, PCs, ClaimRejected, Return, Await, Forget, claims, tasks, timers
<1>2. CallInv'
  BY ActorFacts DEF Inv, TypeOK, CallInv, ClaimRejected, Return, Await, Forget, timers
<1>3. MarkInv'
  BY DEF Inv, MarkInv, ClaimRejected, Return, Await, Forget, tasks
<1>4. Exclusive'
  BY DEF Inv, Exclusive, ClaimRejected, tasks
<1> QED BY <1>1, <1>2, <1>3, <1>4 DEF Inv

LEMMA DepartureLockedMarked == ASSUME Inv, NEW s \in Senders, DepartureLocked(s), UNCHANGED enrollment PROVE Inv'
<1>1. TypeOK'
  BY ActorFacts DEF Inv, TypeOK, Opt, PCs, DepartureLocked, Await, Continue, locals, claims, tasks,
      timers
<1>2. CallInv'
  BY ActorFacts DEF Inv, TypeOK, CallInv, DepartureLocked, Await, Continue, locals, timers
<1>3. MarkInv'
  BY ActorFacts DEF Inv, TypeOK, MarkInv, DepartureLocked, Await, Continue, locals, tasks
<1>4. Exclusive'
  BY DEF Inv, Exclusive, DepartureLocked, tasks
<1> QED BY <1>1, <1>2, <1>3, <1>4 DEF Inv

LEMMA CancelSentMarked == ASSUME Inv, NEW a \in Actors, CancelSent(a), UNCHANGED enrollment PROVE Inv'
<1>1. TypeOK'
  BY DEF Inv, TypeOK, Opt, PCs, CancelSent, Await, locals, claims, tasks, timers
<1>2. CallInv'
  BY DEF Inv, CallInv, CancelSent, Await, locals, timers
<1>3. MarkInv'
  BY DEF Inv, MarkInv, CancelSent, Await, locals, tasks
<1>4. Exclusive'
  BY DEF Inv, Exclusive, CancelSent, tasks
<1> QED BY <1>1, <1>2, <1>3, <1>4 DEF Inv

LEMMA WaitDeletionMarked == ASSUME Inv, NEW a \in Actors, WaitDeletion(a), UNCHANGED enrollment PROVE Inv'
<1>1. TypeOK'
  BY DEF Inv, TypeOK, Opt, PCs, WaitDeletion, Await, Continue, claims, tasks, timers
<1>2. CallInv'
  BY ActorFacts DEF Inv, TypeOK, CallInv, WaitDeletion, Await, Continue, timers
<1>3. MarkInv'
  BY ActorFacts DEF Inv, TypeOK, MarkInv, WaitDeletion, Await, Continue, tasks
<1>4. Exclusive'
  BY DEF Inv, Exclusive, WaitDeletion, tasks
<1> QED BY <1>1, <1>2, <1>3, <1>4 DEF Inv

LEMMA BeginRefusedMarked == ASSUME Inv, NEW c \in Calls, BeginRefused(c), UNCHANGED enrollment PROVE Inv'
<1>1. TypeOK'
  BY DEF Inv, TypeOK, Opt, PCs, BeginRefused, Return, Await, Forget, claims, tasks, timers
<1>2. CallInv'
  BY ActorFacts DEF Inv, TypeOK, CallInv, BeginRefused, Return, Await, Forget, timers
<1>3. MarkInv'
  BY DEF Inv, MarkInv, BeginRefused, Return, Await, Forget, tasks
<1>4. Exclusive'
  BY DEF Inv, Exclusive, BeginRefused, tasks
<1> QED BY <1>1, <1>2, <1>3, <1>4 DEF Inv

LEMMA ProjectedMarked == ASSUME Inv, NEW c \in Calls, Projected(c), UNCHANGED enrollment PROVE Inv'
<1>1. TypeOK'
  BY DEF Inv, TypeOK, Opt, PCs, Projected, Await, claims, tasks, timers
<1>2. CallInv'
  BY DEF Inv, CallInv, Projected, Await, timers
<1>3. MarkInv'
  BY DEF Inv, MarkInv, Projected, Await, tasks
<1>4. Exclusive'
  BY DEF Inv, Exclusive, Projected, tasks
<1> QED BY <1>1, <1>2, <1>3, <1>4 DEF Inv

LEMMA StartFailsMarked == ASSUME Inv, NEW c \in Calls, StartFails(c), UNCHANGED enrollment PROVE Inv'
<1>1. TypeOK'
  BY ActorFacts DEF Inv, TypeOK, Opt, PCs, StartFails, Continue, locals, claims, tasks, timers
<1>2. CallInv'
  BY DEF Inv, CallInv, StartFails, Continue, locals, timers
<1>3. MarkInv'
  BY DEF Inv, MarkInv, StartFails, Continue, locals, tasks
<1>4. Exclusive'
  BY DEF Inv, Exclusive, StartFails, tasks
<1> QED BY <1>1, <1>2, <1>3, <1>4 DEF Inv

LEMMA VerifyStartsMarked == ASSUME Inv, NEW c \in Calls, VerifyStarts(c), UNCHANGED enrollment PROVE Inv'
<1>1. TypeOK'
  BY DEF Inv, TypeOK, Opt, PCs, VerifyStarts, Started, Await, Forget, claims, tasks, timers
<1>2. CallInv'
  BY ActorFacts DEF Inv, TypeOK, CallInv, VerifyStarts, Started, Await, Forget, timers
<1>3. MarkInv'
  BY ActorFacts DEF Inv, TypeOK, MarkInv, VerifyStarts, Started, Await, Forget, tasks
<1>4. Exclusive'
  BY DEF Inv, Exclusive, VerifyStarts, tasks
<1> QED BY <1>1, <1>2, <1>3, <1>4 DEF Inv

LEMMA EnrollStartsMarked == ASSUME Inv, NEW c \in Calls, EnrollStarts(c), UNCHANGED enrollment PROVE Inv'
<1>1. TypeOK'
  BY ActorFacts DEF Inv, TypeOK, Opt, PCs, EnrollStarts, Started, Return, Await, Forget, claims,
      timers
<1>2. CallInv'
  BY ActorFacts DEF Inv, TypeOK, CallInv, EnrollStarts, Started, Return, Await, Forget, timers
<1>3. MarkInv'
  BY ActorFacts DEF Inv, TypeOK, MarkInv, EnrollStarts, Started, Return, Await, Forget, Busy
<1>4. Exclusive'
  BY DEF Inv, Exclusive, EnrollStarts, Busy
<1> QED BY <1>1, <1>2, <1>3, <1>4 DEF Inv

LEMMA DeleteStartsMarked == ASSUME Inv, NEW c \in Calls, DeleteStarts(c), UNCHANGED enrollment PROVE Inv'
<1>1. TypeOK'
  BY DEF Inv, TypeOK, Opt, PCs, DeleteStarts, Started, Await, locals, claims, tasks, timers
<1>2. CallInv'
  BY DEF Inv, CallInv, DeleteStarts, Started, Await, locals, timers
<1>3. MarkInv'
  BY DEF Inv, MarkInv, DeleteStarts, Started, Await, locals, tasks
<1>4. Exclusive'
  BY DEF Inv, Exclusive, DeleteStarts, tasks
<1> QED BY <1>1, <1>2, <1>3, <1>4 DEF Inv

LEMMA DeleteEndsMarked == ASSUME Inv, NEW c \in Calls, DeleteEnds(c), UNCHANGED enrollment PROVE Inv'
<1>1. TypeOK'
  BY ActorFacts DEF Inv, TypeOK, Opt, PCs, DeleteEnds, Continue, locals, claims, tasks, timers
<1>2. CallInv'
  BY DEF Inv, CallInv, DeleteEnds, Continue, locals, timers
<1>3. MarkInv'
  BY DEF Inv, MarkInv, DeleteEnds, Continue, locals, tasks
<1>4. Exclusive'
  BY DEF Inv, Exclusive, DeleteEnds, tasks
<1> QED BY <1>1, <1>2, <1>3, <1>4 DEF Inv

LEMMA VerdictArrivesMarked == ASSUME Inv, NEW c \in Calls, VerdictArrives(c), UNCHANGED enrollment PROVE Inv'
<1>1. TypeOK'
  BY DEF Inv, TypeOK, VerdictArrives, claims, tasks, timers
<1>2. CallInv'
  BY DEF Inv, CallInv, VerdictArrives, timers
<1>3. MarkInv'
  BY DEF Inv, MarkInv, VerdictArrives, tasks
<1>4. Exclusive'
  BY DEF Inv, Exclusive, VerdictArrives, tasks
<1> QED BY <1>1, <1>2, <1>3, <1>4 DEF Inv

LEMMA VerifyEndsMarked == ASSUME Inv, NEW c \in Calls, VerifyEnds(c), UNCHANGED enrollment PROVE Inv'
<1>1. TypeOK'
  BY DEF Inv, TypeOK, Opt, VerifyEnds, claims, tasks
<1>2. CallInv'
  BY DEF Inv, TypeOK, CallInv, VerifyEnds
<1>3. MarkInv'
  BY DEF Inv, MarkInv, VerifyEnds, tasks
<1>4. Exclusive'
  BY DEF Inv, Exclusive, VerifyEnds, tasks
<1> QED BY <1>1, <1>2, <1>3, <1>4 DEF Inv

LEMMA VerifyDrainedMarked == ASSUME Inv, NEW c \in Calls, VerifyDrained(c), UNCHANGED enrollment PROVE Inv'
<1>1. TypeOK'
  BY DEF Inv, TypeOK, Opt, VerifyDrained, claims, tasks, timers
<1>2. CallInv'
  BY DEF Inv, CallInv, VerifyDrained, timers
<1>3. MarkInv'
  BY DEF Inv, MarkInv, VerifyDrained, tasks
<1>4. Exclusive'
  BY DEF Inv, Exclusive, VerifyDrained, tasks
<1> QED BY <1>1, <1>2, <1>3, <1>4 DEF Inv

LEMMA SleepCancelsMarked == ASSUME Inv, NEW c \in Calls, SleepCancels(c), UNCHANGED enrollment PROVE Inv'
<1>1. TypeOK'
  BY DEF Inv, TypeOK, SleepCancels, locals, claims, tasks, timers
<1>2. CallInv'
  BY DEF Inv, CallInv, SleepCancels, locals, timers
<1>3. MarkInv'
  BY DEF Inv, MarkInv, SleepCancels, locals, tasks
<1>4. Exclusive'
  BY DEF Inv, Exclusive, SleepCancels, tasks
<1> QED BY <1>1, <1>2, <1>3, <1>4 DEF Inv

LEMMA EnrollEndsMarked == ASSUME Inv, NEW c \in Calls, EnrollEnds(c), UNCHANGED enrollment PROVE Inv'
<1>1. TypeOK'
  BY DEF Inv, TypeOK, Opt, EnrollEnds, locals, claims, tasks
<1>2. CallInv'
  BY DEF Inv, TypeOK, CallInv, EnrollEnds, locals
<1>3. MarkInv'
  BY DEF Inv, MarkInv, EnrollEnds, locals, tasks
<1>4. Exclusive'
  BY DEF Inv, Exclusive, EnrollEnds, tasks
<1> QED BY <1>1, <1>2, <1>3, <1>4 DEF Inv

LEMMA ExpireUnstartedMarked == ASSUME Inv, NEW c \in Calls, ExpireUnstarted(c), UNCHANGED enrollment PROVE Inv'
<1>1. TypeOK'
  BY DEF Inv, TypeOK, Opt, ExpireUnstarted, TimerGone, ClearClaim, locals, claims, tasks
<1>2. CallInv'
  BY ActorFacts DEF Inv, CallInv, ExpireUnstarted, TimerGone, locals
<1>3. MarkInv'
  BY DEF Inv, MarkInv, ExpireUnstarted, locals, tasks
<1>4. Exclusive'
  BY DEF Inv, Exclusive, ExpireUnstarted, tasks
<1> QED BY <1>1, <1>2, <1>3, <1>4 DEF Inv

LEMMA ExpireVerifiedMarked == ASSUME Inv, NEW c \in Calls, ExpireVerified(c), UNCHANGED enrollment PROVE Inv'
<1>1. TypeOK'
  BY DEF Inv, TypeOK, Opt, ExpireVerified, TimerGone, ClearClaim, locals, claims
<1>2. CallInv'
  BY ActorFacts DEF Inv, TypeOK, CallInv, ExpireVerified, TimerGone, locals
<1>3. MarkInv'
  BY DEF Inv, TypeOK, CallInv, MarkInv, ExpireVerified, locals
<1>4. Exclusive'
  BY DEF Inv, Exclusive, ExpireVerified
<1> QED BY <1>1, <1>2, <1>3, <1>4 DEF Inv

LEMMA ExpireEnrolledMarked == ASSUME Inv, NEW c \in Calls, ExpireEnrolled(c), UNCHANGED enrollment PROVE Inv'
<1>1. TypeOK'
  BY DEF Inv, TypeOK, Opt, ExpireEnrolled, TimerGone, ClearClaim, locals, claims
<1>2. CallInv'
  BY ActorFacts DEF Inv, TypeOK, CallInv, ExpireEnrolled, TimerGone, locals
<1>3. MarkInv'
  BY DEF Inv, TypeOK, MarkInv, ExpireEnrolled, locals
<1>4. Exclusive'
  BY DEF Inv, Exclusive, ExpireEnrolled
<1> QED BY <1>1, <1>2, <1>3, <1>4 DEF Inv

LEMMA DieMarked == ASSUME Inv, NEW s \in Senders, Die(s), UNCHANGED enrollment PROVE Inv'
<1>1. TypeOK'
  BY DEF Inv, TypeOK, Die, locals, claims, tasks, timers
<1>2. CallInv'
  BY DEF Inv, CallInv, Die, locals, timers
<1>3. MarkInv'
  BY DEF Inv, MarkInv, Die, locals, tasks
<1>4. Exclusive'
  BY DEF Inv, Exclusive, Die, tasks
<1> QED BY <1>1, <1>2, <1>3, <1>4 DEF Inv

LEMMA DisconnectMarked == ASSUME Inv, NEW s \in Senders, Disconnect(s), UNCHANGED enrollment PROVE Inv'
<1>1. TypeOK'
  BY DEF Inv, TypeOK, Opt, PCs, Disconnect, Await, locals, claims, tasks, timers
<1>2. CallInv'
  BY ActorFacts DEF Inv, CallInv, Disconnect, Await, locals, timers
<1>3. MarkInv'
  BY DEF Inv, MarkInv, Disconnect, Await, locals, tasks
<1>4. Exclusive'
  BY DEF Inv, Exclusive, Disconnect, tasks
<1> QED BY <1>1, <1>2, <1>3, <1>4 DEF Inv

LEMMA VerifyBeginsMarked == ASSUME Inv, NEW c \in Calls, VerifyBegins(c), UNCHANGED enrollment PROVE Inv'
<1>1. TypeOK'
  BY ActorFacts DEF Inv, TypeOK, Opt, PCs, VerifyBegins, Await, CancelExpiry, locals, claims
<1>2. CallInv'
  BY ActorFacts DEF Inv, TypeOK, CallInv, VerifyBegins, Begins, Await, CancelExpiry, locals
<1>3. MarkInv'
  BY ActorFacts DEF Inv, MarkInv, VerifyBegins, Begins, Await, Busy, locals
<1>4. Exclusive'
  BY DEF Inv, Exclusive, VerifyBegins, Begins, Busy
<1> QED BY <1>1, <1>2, <1>3, <1>4 DEF Inv

LEMMA EnrollBeginsMarked == ASSUME Inv, NEW c \in Calls, EnrollBegins(c), UNCHANGED enrollment PROVE Inv'
<1>1. TypeOK'
  BY ActorFacts DEF Inv, TypeOK, Opt, PCs, EnrollBegins, Await, CancelExpiry, locals, claims, tasks
<1>2. CallInv'
  BY ActorFacts DEF Inv, TypeOK, CallInv, EnrollBegins, Begins, Await, CancelExpiry, locals
<1>3. MarkInv'
  BY DEF Inv, MarkInv, EnrollBegins, Begins, Await, locals, tasks
<1>4. Exclusive'
  BY DEF Inv, Exclusive, EnrollBegins, tasks
<1> QED BY <1>1, <1>2, <1>3, <1>4 DEF Inv

LEMMA DeleteBeginsMarked == ASSUME Inv, NEW c \in Calls, DeleteBegins(c), UNCHANGED enrollment PROVE Inv'
<1>1. TypeOK'
  BY ActorFacts DEF Inv, TypeOK, Opt, PCs, DeleteBegins, Await, CancelExpiry, locals, claims
<1>2. CallInv'
  BY ActorFacts DEF Inv, TypeOK, CallInv, DeleteBegins, Begins, Await, CancelExpiry, locals
<1>3. MarkInv'
  BY ActorFacts DEF Inv, MarkInv, DeleteBegins, Begins, Await, Busy, locals
<1>4. Exclusive'
  BY DEF Inv, Exclusive, DeleteBegins, Begins, Busy
<1> QED BY <1>1, <1>2, <1>3, <1>4 DEF Inv

LEMMA FinallyMarked == ASSUME Inv, NEW c \in Calls, Finally(c), UNCHANGED enrollment PROVE Inv'
<1>1. TypeOK'
  BY ActorFacts DEF Inv, TypeOK, Opt, PCs, Finally, Return, Await, Forget, ArmUnstarted, claims,
      timers
<1>2. CallInv'
  BY ActorFacts DEF Inv, TypeOK, CallInv, Finally, Return, Await, Forget, ArmUnstarted, timers
<1>3. MarkInv'
  BY DEF Inv, CallInv, MarkInv, Finally, Return, Await, Forget
<1>4. Exclusive'
  BY DEF Inv, Exclusive, Finally
<1> QED BY <1>1, <1>2, <1>3, <1>4 DEF Inv

LEMMA ClearMarked == ASSUME Inv, NEW a \in Actors, Clear(a), UNCHANGED enrollment PROVE Inv'
<1>1. TypeOK'
  BY DEF Inv, TypeOK, Opt, PCs, Clear, Return, Await, Forget, ClearClaim, locals, tasks, timers
<1>2. CallInv'
  BY ActorFacts DEF Inv, TypeOK, CallInv, Clear, Return, Await, Forget, locals, timers
<1>3. MarkInv'
  BY ActorFacts DEF Inv, TypeOK, MarkInv, Clear, Return, Await, Forget, locals, tasks
<1>4. Exclusive'
  BY DEF Inv, Exclusive, Clear, tasks
<1> QED BY <1>1, <1>2, <1>3, <1>4 DEF Inv

LEMMA DeletionWaitedMarked == ASSUME Inv, NEW a \in Actors, DeletionWaited(a), UNCHANGED enrollment PROVE Inv'
<1>1. TypeOK'
  BY DEF Inv, TypeOK, Opt, PCs, DeletionWaited, Continue, CancelExpiry, claims, tasks
<1>2. CallInv'
  BY ActorFacts DEF Inv, TypeOK, CallInv, DeletionWaited, Continue, CancelExpiry
<1>3. MarkInv'
  BY DEF Inv, MarkInv, DeletionWaited, Continue, tasks
<1>4. Exclusive'
  BY DEF Inv, Exclusive, DeletionWaited, tasks
<1> QED BY <1>1, <1>2, <1>3, <1>4 DEF Inv

LEMMA StopVerificationMarked == ASSUME Inv, NEW a \in Actors, StopVerification(a), UNCHANGED enrollment PROVE Inv'
<1>1. TypeOK'
  BY ActorFacts DEF Inv, TypeOK, Opt, PCs, StopVerification, Stopper, Op, Return, Await, Continue,
      Forget, ArmUnstarted, CancelExpiry, locals, claims, tasks, timers
<1>2. CallInv'
  BY ActorFacts DEF Inv, TypeOK, CallInv, StopVerification, Return, Await, Continue, Forget,
      ArmUnstarted, CancelExpiry, locals, timers
<1>3. MarkInv'
  BY ActorFacts DEF Inv, TypeOK, MarkInv, StopVerification, Return, Await, Continue, Forget,
      ArmUnstarted, locals, tasks
<1>4. Exclusive'
  BY DEF Inv, Exclusive, StopVerification, tasks
<1> QED BY <1>1, <1>2, <1>3, <1>4 DEF Inv

LEMMA VerificationStoppedMarked == ASSUME Inv, NEW a \in Actors, VerificationStopped(a), UNCHANGED enrollment PROVE Inv'
<1>1. TypeOK'
  <2>1. run' \in [Calls -> {"none", "verify", "check", "cancel", "enroll", "ended"}]
    BY DEF Inv, TypeOK, VerificationStopped, Retired
  <2>2. timer' \in [Calls -> {"none", "unstarted", "verified", "enrolled"}] /\ under' \in [Calls -> Opt(Calls)]
    BY ActorFacts DEF Inv, TypeOK, Opt, VerificationStopped, Stopper, Op, ArmUnstarted, timers
  <2> QED BY <2>1, <2>2, ActorFacts DEF Inv, TypeOK, Opt, PCs, VerificationStopped, Finished, Dropped, Retired,
      Stopper, Op, Return, Await, Continue, Forget, ArmUnstarted, claims, timers
<1>2. CallInv'
  BY ActorFacts DEF Inv, TypeOK, CallInv, VerificationStopped, Retired, Return, Await, Continue,
      Forget, ArmUnstarted, timers
<1>3. MarkInv'
  BY ActorFacts DEF Inv, TypeOK, MarkInv, VerificationStopped, Finished, Dropped, Retired, Return,
      Await, Continue, Forget, ArmUnstarted
<1>4. Exclusive'
  BY DEF Inv, Exclusive, VerificationStopped, Dropped
<1> QED BY <1>1, <1>2, <1>3, <1>4 DEF Inv

LEMMA StopEnrollmentMarked == ASSUME Inv, NEW a \in Actors, StopEnrollment(a), UNCHANGED enrollment PROVE Inv'
<1>1. TypeOK'
  BY ActorFacts DEF Inv, TypeOK, Opt, PCs, StopEnrollment, Stopper, Op, Return, Await, Continue,
      Forget, ArmUnstarted, CancelExpiry, locals, claims, tasks, timers
<1>2. CallInv'
  BY ActorFacts DEF Inv, TypeOK, CallInv, StopEnrollment, Return, Await, Continue, Forget,
      ArmUnstarted, CancelExpiry, locals, timers
<1>3. MarkInv'
  BY ActorFacts DEF Inv, TypeOK, MarkInv, StopEnrollment, Return, Await, Continue, Forget,
      ArmUnstarted, locals, tasks
<1>4. Exclusive'
  BY DEF Inv, Exclusive, StopEnrollment, tasks
<1> QED BY <1>1, <1>2, <1>3, <1>4 DEF Inv

LEMMA EnrollmentStoppedMarked == ASSUME Inv, NEW a \in Actors, EnrollmentStopped(a), UNCHANGED enrollment PROVE Inv'
<1>1. TypeOK'
  <2>1. run' \in [Calls -> {"none", "verify", "check", "cancel", "enroll", "ended"}]
    BY DEF Inv, TypeOK, EnrollmentStopped, Retired
  <2>2. timer' \in [Calls -> {"none", "unstarted", "verified", "enrolled"}] /\ under' \in [Calls -> Opt(Calls)]
    BY ActorFacts DEF Inv, TypeOK, Opt, EnrollmentStopped, Stopper, Op, ArmUnstarted, timers
  <2> QED BY <2>1, <2>2, ActorFacts DEF Inv, TypeOK, Opt, PCs, EnrollmentStopped, Finished, Dropped, Retired, Stopper,
      Op, Return, Await, Continue, Forget, ArmUnstarted, claims, timers
<1>2. CallInv'
  BY ActorFacts DEF Inv, TypeOK, CallInv, EnrollmentStopped, Retired, Return, Await, Continue,
      Forget, ArmUnstarted, timers
<1>3. MarkInv'
  BY ActorFacts DEF Inv, TypeOK, MarkInv, EnrollmentStopped, Dropped, Retired, Return, Await,
      Continue, Forget, ArmUnstarted
<1>4. Exclusive'
  BY DEF Inv, Exclusive, EnrollmentStopped, Dropped
<1> QED BY <1>1, <1>2, <1>3, <1>4 DEF Inv

-----------------------------------------------------------------------------
LEMMA InitMarked == Init => Inv
BY ActorFacts DEF Init, Inv, TypeOK, Opt, PCs, CallInv, MarkInv, Exclusive

LEMMA NextMarked == Inv /\ [Next]_vars => Inv'
<1> SUFFICES ASSUME Inv, [Next]_vars PROVE Inv'
  OBVIOUS
<1>1. CASE Next
  <2> UNCHANGED enrollment
    BY <1>1 DEF Next
  <2>1. ASSUME NEW c \in Calls, NEW s \in Senders, NEW o \in Ops, Call(c, s, o) PROVE Inv'
    BY <2>1, CallMarked
  <2>2. ASSUME NEW c \in Calls, Method(c) PROVE Inv'
    BY <2>2, OwnerAcceptedMarked, OwnerRefusedMarked, ClaimLockedMarked, ClaimGrantedMarked,
       ClaimRejectedMarked, BeginRefusedMarked, VerifyBeginsMarked, EnrollBeginsMarked,
       DeleteBeginsMarked, ProjectedMarked, StartFailsMarked, VerifyStartsMarked, EnrollStartsMarked,
       DeleteStartsMarked, DeleteEndsMarked, FinallyMarked DEF Method
  <2>3. ASSUME NEW c \in Calls, Timers(c) \/ Runs(c) \/ SleepCancels(c) PROVE Inv'
    BY <2>3, ExpireUnstartedMarked, ExpireVerifiedMarked, ExpireEnrolledMarked, VerdictArrivesMarked,
       VerifyEndsMarked, VerifyDrainedMarked, EnrollEndsMarked, SleepCancelsMarked DEF Timers, Runs
  <2>4. ASSUME NEW a \in Actors, Stopping(a) PROVE Inv'
    BY <2>4, StopVerificationMarked, VerificationStoppedMarked, StopEnrollmentMarked, CancelSentMarked,
       EnrollmentStoppedMarked, WaitDeletionMarked, DeletionWaitedMarked, ClearMarked DEF Stopping
  <2>5. ASSUME NEW s \in Senders, DepartureLocked(s) \/ Die(s) \/ Disconnect(s) PROVE Inv'
    BY <2>5, DepartureLockedMarked, DieMarked, DisconnectMarked
  <2> QED BY <1>1, <2>1, <2>2, <2>3, <2>4, <2>5 DEF Next, Step, Offered
<1>2. CASE UNCHANGED vars
  BY <1>2 DEF vars, Inv, TypeOK, CallInv, MarkInv, Exclusive
<1> QED BY <1>1, <1>2

\* The inductive invariant holds whatever is enabled: every running operation, and every one that
\* has passed its checks, holds one of three task fields that exclude each other.
THEOREM Invariance == Spec => []Inv
BY InitMarked, NextMarked, PTL DEF Spec

\* A verification, even one that is being cancelled, an enrollment and a deletion never run
\* together: the checks that an await separates from the start of an operation are enough.
THEOREM OneOperationAlways == Spec => []OneOperation
<1>1. Inv => OneOperation
  BY ActorFacts DEF Inv, MarkInv, Exclusive, OneOperation, Active
<1> QED BY <1>1, Invariance, PTL

-----------------------------------------------------------------------------
(* Who holds claim_lock. *)

\* A coroutine a that goes on under claim_lock, or returns, keeps LockInv.  Those it cancels
\* were not under the lock.
LEMMA LockFrame ==
    ASSUME Inv, LockInv, NEW a \in Actors, pc[a] \in Holding, UNCHANGED <<lock, claims, dead>>,
           \/ op' = op /\ pc'[a] \in Holding /\ (pc'[a] \in Ending => ~Stopper(a))
           \/ pc'[a] = "idle" /\ \A c \in Calls \ {a} : op'[c] = op[c],
           \A b \in Actors : b # a /\ pc'[b] # pc[b] => pc[b] \in {"proj", "own2"} /\ pc'[b] = "cancelled"
    PROVE  LockInv'
<1>1. \A b \in Actors : pc'[b] \in Holding => pc[b] \in Holding /\ Op(b)' = Op(b)
  BY ActorFacts DEF Op, Holding, Chain
<1>2. \A c \in Calls : pc'[c] \in {"lock", "collect"} <=> pc'[c] \notin Holding \cup {"idle"} /\ op'[c] = "Claim"
  BY ActorFacts DEF LockInv, Holding, Chain
<1>3. \A b \in Actors : pc'[b] \in Ending => Op(b)' \in {"Release", "Claim", "Depart"}
  BY <1>1 DEF LockInv, Holding, Chain, Ending, Stopper
<1>4. \A c \in Calls : pc'[c] = "collect" => pc[c] = "collect"
  BY ActorFacts DEF Holding, Chain
<1> QED BY <1>1, <1>2, <1>3, <1>4 DEF LockInv, claims

\* One step per action: nobody is granted the claim while claim_lock is held.
LEMMA MethodLocked ==
    ASSUME Inv, LockInv, NEW c \in Calls, Method(c)
    PROVE  LockInv'
<1>1. CASE OwnerAccepted(c)
  BY <1>1, ActorFacts DEF Inv, TypeOK, CallInv, LockInv, Holding, Chain, Ending, Op, claims,
     OwnerAccepted, First, Continue
<1>2. CASE OwnerRefused(c)
  BY <1>2, ActorFacts DEF Inv, TypeOK, CallInv, LockInv, Holding, Chain, Ending, Op, claims,
     OwnerRefused, Return, Await, Forget
<1>3. CASE ClaimLocked(c)
  BY <1>3, ActorFacts DEF Inv, TypeOK, CallInv, LockInv, Holding, Chain, Ending, Op, claims,
     ClaimLocked, Return, Await, Continue, Forget, locals
<1>4. CASE ClaimGranted(c)
  BY <1>4, ActorFacts DEF Inv, TypeOK, CallInv, LockInv, Holding, Chain, Ending, Op, claims,
     ClaimGranted, Return, Await, Forget
<1>5. CASE ClaimRejected(c)
  BY <1>5, ActorFacts DEF Inv, TypeOK, CallInv, LockInv, Holding, Chain, Ending, Op, claims,
     ClaimRejected, Return, Await, Forget
<1>6. CASE BeginRefused(c)
  BY <1>6, ActorFacts DEF Inv, TypeOK, CallInv, LockInv, Holding, Chain, Ending, Op, claims,
     BeginRefused, Return, Await, Forget
<1>7. CASE VerifyBegins(c)
  BY <1>7, ActorFacts DEF Inv, TypeOK, CallInv, LockInv, Holding, Chain, Ending, Op, claims,
     VerifyBegins, Begins, Await, locals
<1>8. CASE EnrollBegins(c)
  BY <1>8, ActorFacts DEF Inv, TypeOK, CallInv, LockInv, Holding, Chain, Ending, Op, claims,
     EnrollBegins, Begins, Await, locals
<1>9. CASE DeleteBegins(c)
  BY <1>9, ActorFacts DEF Inv, TypeOK, CallInv, LockInv, Holding, Chain, Ending, Op, claims,
     DeleteBegins, Begins, Await, locals
<1>10. CASE Projected(c)
  BY <1>10, ActorFacts DEF Inv, TypeOK, CallInv, LockInv, Holding, Chain, Ending, Op, claims,
     Projected, Await
<1>11. CASE StartFails(c)
  BY <1>11, ActorFacts DEF Inv, TypeOK, CallInv, LockInv, Holding, Chain, Ending, Op, claims,
     StartFails, Continue, locals
<1>12. CASE VerifyStarts(c)
  BY <1>12, ActorFacts DEF Inv, TypeOK, CallInv, LockInv, Holding, Chain, Ending, Op, claims,
     VerifyStarts, Await, Forget
<1>13. CASE EnrollStarts(c)
  BY <1>13, ActorFacts DEF Inv, TypeOK, CallInv, LockInv, Holding, Chain, Ending, Op, claims,
     EnrollStarts, Return, Await, Forget
<1>14. CASE DeleteStarts(c)
  BY <1>14, ActorFacts DEF Inv, TypeOK, CallInv, LockInv, Holding, Chain, Ending, Op, claims,
     DeleteStarts, Await, locals
<1>15. CASE DeleteEnds(c)
  BY <1>15, ActorFacts DEF Inv, TypeOK, CallInv, LockInv, Holding, Chain, Ending, Op, claims,
     DeleteEnds, Continue, locals
<1>16. CASE Finally(c)
  BY <1>16, ActorFacts DEF Inv, TypeOK, CallInv, LockInv, Holding, Chain, Ending, Op, claims,
     Finally, Return, Await, Forget
<1> QED BY <1>1, <1>2, <1>3, <1>4, <1>5, <1>6, <1>7, <1>8,
         <1>9, <1>10, <1>11, <1>12, <1>13, <1>14, <1>15, <1>16 DEF Method

LEMMA StoppingLocked ==
    ASSUME Inv, LockInv, NEW a \in Actors, Stopping(a)
    PROVE  LockInv'
<1>1. CASE StopVerification(a)
  <2>1. \/ op' = op /\ pc'[a] \in Holding /\ (pc'[a] \in Ending => ~Stopper(a))
        \/ pc'[a] = "idle" /\ \A c \in Calls \ {a} : op'[c] = op[c]
    BY <1>1, ActorFacts DEF Inv, TypeOK, Holding, Chain, Ending, StopVerification, Return, Await,
       Continue, Forget, ArmUnstarted, locals
  <2>2. ASSUME NEW b \in Actors, b # a, pc'[b] # pc[b]
        PROVE  pc[b] \in {"proj", "own2"} /\ pc'[b] = "cancelled"
    <3>1. \/ pc' = [pc EXCEPT ![a] = "idle"] \/ pc' = [pc EXCEPT ![a] = "stopE"]
          \/ pc' = [pc EXCEPT ![a] = "waitV",
                              ![verifyTask] = IF @ \in {"proj", "own2"} THEN "cancelled" ELSE @]
      BY <1>1 DEF StopVerification, Return, Await, Continue, Forget, ArmUnstarted
    <3>2. pc'[b] = IF b = verifyTask /\ pc[b] \in {"proj", "own2"} THEN "cancelled" ELSE pc[b]
      BY <2>2, <3>1 DEF Inv, TypeOK
    <3> QED BY <2>2, <3>2
  <2>3. pc[a] \in Holding /\ UNCHANGED <<lock, claims, dead>>
    BY <1>1 DEF StopVerification, Holding, Chain
  <2> QED BY <2>1, <2>2, <2>3, LockFrame
<1>2. CASE VerificationStopped(a)
  <2>1. \/ op' = op /\ pc'[a] \in Holding /\ (pc'[a] \in Ending => ~Stopper(a))
        \/ pc'[a] = "idle" /\ \A c \in Calls \ {a} : op'[c] = op[c]
    BY <1>2, ActorFacts DEF Inv, TypeOK, Holding, Chain, Ending, VerificationStopped, Return, Await,
       Continue, Forget, ArmUnstarted
  <2>2. ASSUME NEW b \in Actors, b # a
        PROVE  pc'[b] = pc[b]
    BY <1>2, <2>2 DEF Inv, TypeOK, VerificationStopped, Return, Await, Continue, Forget, ArmUnstarted
  <2>3. pc[a] \in Holding /\ UNCHANGED <<lock, claims, dead>>
    BY <1>2 DEF VerificationStopped, Holding, Chain
  <2> QED BY <2>1, <2>2, <2>3, LockFrame
<1>3. CASE StopEnrollment(a)
  <2>1. \/ op' = op /\ pc'[a] \in Holding /\ (pc'[a] \in Ending => ~Stopper(a))
        \/ pc'[a] = "idle" /\ \A c \in Calls \ {a} : op'[c] = op[c]
    BY <1>3, ActorFacts DEF Inv, TypeOK, Holding, Chain, Ending, StopEnrollment, Return, Await,
       Continue, Forget, ArmUnstarted, locals
  <2>2. ASSUME NEW b \in Actors, b # a
        PROVE  pc'[b] = pc[b]
    BY <1>3, <2>2 DEF Inv, TypeOK, StopEnrollment, Return, Await, Continue, Forget, ArmUnstarted
  <2>3. pc[a] \in Holding /\ UNCHANGED <<lock, claims, dead>>
    BY <1>3 DEF StopEnrollment, Holding, Chain
  <2> QED BY <2>1, <2>2, <2>3, LockFrame
<1>4. CASE CancelSent(a)
  BY <1>4, ActorFacts DEF Inv, TypeOK, CallInv, LockInv, Holding, Chain, Ending, Op, claims,
     CancelSent, Await, locals
<1>5. CASE EnrollmentStopped(a)
  <2>1. \/ op' = op /\ pc'[a] \in Holding /\ (pc'[a] \in Ending => ~Stopper(a))
        \/ pc'[a] = "idle" /\ \A c \in Calls \ {a} : op'[c] = op[c]
    BY <1>5, ActorFacts DEF Inv, TypeOK, Holding, Chain, Ending, EnrollmentStopped, Return, Await,
       Continue, Forget, ArmUnstarted
  <2>2. ASSUME NEW b \in Actors, b # a
        PROVE  pc'[b] = pc[b]
    BY <1>5, <2>2 DEF Inv, TypeOK, EnrollmentStopped, Return, Await, Continue, Forget, ArmUnstarted
  <2>3. pc[a] \in Holding /\ UNCHANGED <<lock, claims, dead>>
    BY <1>5 DEF EnrollmentStopped, Holding, Chain
  <2> QED BY <2>1, <2>2, <2>3, LockFrame
<1>6. CASE WaitDeletion(a)
  BY <1>6, ActorFacts DEF Inv, TypeOK, CallInv, LockInv, Holding, Chain, Ending, Op, claims,
     WaitDeletion, Await, Continue
<1>7. CASE DeletionWaited(a)
  BY <1>7, ActorFacts DEF Inv, TypeOK, CallInv, LockInv, Holding, Chain, Ending, Op, claims,
     DeletionWaited, Continue
<1>8. CASE Clear(a)
  BY <1>8, ActorFacts DEF Inv, TypeOK, CallInv, LockInv, Holding, Chain, Ending, Op, claims,
     Clear, ClearClaim, Return, Await, Forget, locals
<1> QED BY <1>1, <1>2, <1>3, <1>4, <1>5, <1>6, <1>7, <1>8 DEF Stopping

LEMMA TimersAndRunsLocked ==
    ASSUME Inv, LockInv, NEW c \in Calls, Timers(c) \/ Runs(c) \/ SleepCancels(c)
    PROVE  LockInv'
<1>1. CASE ExpireUnstarted(c)
  BY <1>1, ActorFacts DEF Inv, TypeOK, CallInv, LockInv, Holding, Chain, Ending, Op, claims,
     ExpireUnstarted, ClearClaim, locals
<1>2. CASE ExpireVerified(c)
  BY <1>2, ActorFacts DEF Inv, TypeOK, CallInv, LockInv, Holding, Chain, Ending, Op, claims,
     ExpireVerified, ClearClaim, locals
<1>3. CASE ExpireEnrolled(c)
  BY <1>3, ActorFacts DEF Inv, TypeOK, CallInv, LockInv, Holding, Chain, Ending, Op, claims,
     ExpireEnrolled, ClearClaim, locals
<1>4. CASE VerdictArrives(c)
  BY <1>4, ActorFacts DEF Inv, TypeOK, CallInv, LockInv, Holding, Chain, Ending, Op, claims,
     VerdictArrives
<1>5. CASE VerifyEnds(c)
  BY <1>5, ActorFacts DEF Inv, TypeOK, CallInv, LockInv, Holding, Chain, Ending, Op, claims,
     VerifyEnds
<1>6. CASE VerifyDrained(c)
  BY <1>6, ActorFacts DEF Inv, TypeOK, CallInv, LockInv, Holding, Chain, Ending, Op, claims,
     VerifyDrained
<1>7. CASE EnrollEnds(c)
  BY <1>7, ActorFacts DEF Inv, TypeOK, CallInv, LockInv, Holding, Chain, Ending, Op, claims,
     EnrollEnds, locals
<1>8. CASE SleepCancels(c)
  BY <1>8, ActorFacts DEF Inv, TypeOK, CallInv, LockInv, Holding, Chain, Ending, Op, claims,
     SleepCancels, locals
<1> QED BY <1>1, <1>2, <1>3, <1>4, <1>5, <1>6, <1>7, <1>8 DEF Timers, Runs

\* Whatever is enabled, claim_lock keeps other clients out while a Claim or a departure handler
\* holds it.
LEMMA LockInvariance == Spec => []LockInv
<1>1. Init => LockInv
  BY ActorFacts DEF Init, LockInv, Holding, Chain, Ending
<1>2. Inv /\ LockInv /\ [Next]_vars => LockInv'
  <2> SUFFICES ASSUME Inv, LockInv, [Next]_vars PROVE LockInv'
    OBVIOUS
  <2>1. ASSUME NEW c \in Calls, NEW s \in Senders, NEW o \in Ops, Call(c, s, o) PROVE LockInv'
    BY <2>1, ActorFacts DEF Inv, TypeOK, CallInv, LockInv, Holding, Chain, Ending, Op, claims,
       Call, Await
  <2>2. ASSUME NEW s \in Senders, DepartureLocked(s) PROVE LockInv'
    BY <2>2, ActorFacts DEF Inv, TypeOK, CallInv, LockInv, Holding, Chain, Ending, Op, claims,
       DepartureLocked, Await, Continue, locals
  <2>3. ASSUME NEW s \in Senders, Die(s) \/ Disconnect(s) PROVE LockInv'
    BY <2>3, ActorFacts DEF Inv, TypeOK, CallInv, LockInv, Holding, Chain, Ending, Op, claims,
       Die, Disconnect, Await, locals
  <2>4. CASE UNCHANGED vars
    BY <2>4 DEF LockInv, Op, vars
  <2> QED BY <2>1, <2>2, <2>3, <2>4, MethodLocked, StoppingLocked, TimersAndRunsLocked DEF Next, Step, Offered
<1> QED BY <1>1, <1>2, Invariance, PTL DEF Spec

-----------------------------------------------------------------------------
\* One lemma per action: without enrollment, it also keeps ClaimInv.
LEMMA CallKeeps ==
    ASSUME ~enrollment, Inv, ClaimInv, NEW c \in Calls, NEW s \in Senders, NEW o \in Ops, Call(c, s, o)
    PROVE  ClaimInv'
<1>1. NoEnrollment'
  BY DEF Inv, TypeOK, ClaimInv, NoEnrollment, Call, Await, tasks, timers
<1>2. LoopInv'
  BY ActorFacts DEF Inv, TypeOK, ClaimInv, LoopInv, Chain, Op, Call, Await, Idle
<1>3. WaitInv'
  BY ActorFacts DEF Inv, TypeOK, ClaimInv, WaitInv, Finished, Call, Await, Free, tasks, timers
<1>4. TaskInv'
  BY ActorFacts DEF Inv, TypeOK, Opt, ClaimInv, TaskInv, Call, Await, Free, tasks, timers
<1>5. HoldInv'
  BY ActorFacts DEF Inv, TypeOK, ClaimInv, HoldInv, Busy, Call, Await, Free, claims, tasks, timers
<1>6. TimerInv'
  BY DEF Inv, TypeOK, ClaimInv, TimerInv, Busy, Call, Await, Free, claims, tasks, timers
<1>7. OwnerInv'
  BY ActorFacts DEF Inv, TypeOK, ClaimInv, OwnerInv, Chain, Op, Call, Await, claims
<1> QED BY <1>1, <1>2, <1>3, <1>4, <1>5, <1>6, <1>7 DEF ClaimInv

LEMMA OwnerAcceptedKeeps ==
    ASSUME ~enrollment, OfferInv, Inv, ClaimInv, NEW c \in Calls, OwnerAccepted(c)
    PROVE  ClaimInv'
<1>1. NoEnrollment'
  BY DEF ClaimInv, NoEnrollment, OwnerAccepted, First, Continue, tasks, timers
<1>2. LoopInv'
  BY ActorFacts DEF Inv, TypeOK, CallInv, ClaimInv, LoopInv, WaitInv, HoldInv, Chain, Waiting,
      Finished, Op, OfferInv, EnrollOps, Ops, OwnerAccepted, First, Continue, claims, CanRun, OwnsClaim, Woken
<1>3. WaitInv'
  BY DEF ClaimInv, WaitInv, Finished, OwnerAccepted, First, Continue, tasks, timers
<1>4. TaskInv'
  BY DEF ClaimInv, TaskInv, OwnerAccepted, First, Continue, tasks, timers
<1>5. HoldInv'
  BY ActorFacts DEF Inv, TypeOK, ClaimInv, HoldInv, Busy, OwnerAccepted, First, Continue, claims,
      tasks, timers
<1>6. TimerInv'
  BY DEF ClaimInv, TimerInv, Busy, OwnerAccepted, Continue, claims, tasks, timers
<1>7. OwnerInv'
  BY ActorFacts DEF ClaimInv, HoldInv, OwnerInv, Chain, Op, OwnerAccepted, First, Continue, claims,
      OwnsClaim
<1> QED BY <1>1, <1>2, <1>3, <1>4, <1>5, <1>6, <1>7 DEF ClaimInv

LEMMA OwnerRefusedKeeps ==
    ASSUME ~enrollment, Inv, ClaimInv, NEW c \in Calls, OwnerRefused(c)
    PROVE  ClaimInv'
<1>1. NoEnrollment'
  BY DEF ClaimInv, NoEnrollment, OwnerRefused, Return, Await, tasks, timers
<1>2. LoopInv'
  BY ActorFacts DEF ClaimInv, LoopInv, Chain, Op, OwnerRefused, Return, Await, Forget, CanRun
<1>3. WaitInv'
  BY DEF ClaimInv, WaitInv, Finished, OwnerRefused, Return, Await, Forget, tasks, timers
<1>4. TaskInv'
  BY DEF ClaimInv, TaskInv, OwnerRefused, Return, Await, tasks, timers
<1>5. HoldInv'
  BY ActorFacts DEF Inv, TypeOK, ClaimInv, HoldInv, Busy, OwnerRefused, Return, Await, Forget,
      claims, tasks, timers
<1>6. TimerInv'
  BY DEF ClaimInv, TimerInv, Busy, OwnerRefused, Return, Await, claims, tasks, timers
<1>7. OwnerInv'
  BY DEF ClaimInv, OwnerInv, Chain, Op, OwnerRefused, Return, Await, Forget, claims
<1> QED BY <1>1, <1>2, <1>3, <1>4, <1>5, <1>6, <1>7 DEF ClaimInv

LEMMA ClaimLockedKeeps ==
    ASSUME ~enrollment, Inv, ClaimInv, NEW c \in Calls, ClaimLocked(c)
    PROVE  ClaimInv'
<1>1. NoEnrollment'
  BY DEF Inv, TypeOK, ClaimInv, NoEnrollment, ClaimLocked, Return, Await, Continue, tasks, timers
<1>2. LoopInv'
  BY ActorFacts DEF Inv, TypeOK, ClaimInv, LoopInv, Chain, Op, ClaimLocked, Return, Await,
      Continue, Forget, locals, CanRun
<1>3. WaitInv'
  BY ActorFacts DEF Inv, TypeOK, ClaimInv, WaitInv, Finished, ClaimLocked, Return, Await, Continue,
      Forget, locals, tasks, timers
<1>4. TaskInv'
  BY ActorFacts DEF Inv, TypeOK, Opt, ClaimInv, TaskInv, ClaimLocked, Return, Await, Continue,
      Forget, tasks, timers
<1>5. HoldInv'
  BY ActorFacts DEF Inv, TypeOK, ClaimInv, HoldInv, Busy, ClaimLocked, Return, Await, Continue,
      Forget, locals, claims, tasks, timers
<1>6. TimerInv'
  BY DEF Inv, TypeOK, ClaimInv, TimerInv, Busy, ClaimLocked, Return, Await, Continue, claims,
      tasks, timers
<1>7. OwnerInv'
  BY ActorFacts DEF Inv, TypeOK, ClaimInv, OwnerInv, Chain, Op, ClaimLocked, Return, Await,
      Continue, Forget, locals, claims
<1> QED BY <1>1, <1>2, <1>3, <1>4, <1>5, <1>6, <1>7 DEF ClaimInv

LEMMA ClaimGrantedKeeps ==
    ASSUME ~enrollment, Inv, ClaimInv, NEW c \in Calls, ClaimGranted(c)
    PROVE  ClaimInv'
<1>1. NoEnrollment'
  BY DEF ClaimInv, NoEnrollment, ClaimGranted, Return, Await, tasks
<1>2. LoopInv'
  BY ActorFacts DEF ClaimInv, LoopInv, Chain, Op, ClaimGranted, Return, Await, Forget, CanRun
<1>3. WaitInv'
  BY DEF ClaimInv, WaitInv, Finished, ClaimGranted, Return, Await, Forget, tasks
<1>4. TaskInv'
  BY DEF ClaimInv, TaskInv, TimerInv, OwnerInv, ClaimGranted, Return, Await, tasks
<1>5. HoldInv'
  BY ActorFacts DEF Inv, TypeOK, MarkInv, ClaimInv, HoldInv, OwnerInv, Busy, ClaimGranted, Return,
      Await, Forget
<1>6. TimerInv'
  BY ActorFacts DEF Inv, TypeOK, ClaimInv, HoldInv, TimerInv, OwnerInv, Busy, ClaimGranted, tasks
<1>7. OwnerInv'
  <2>1. claim = None /\ lock = c /\ loop = None /\ Woken = {} /\ ~Busy
    BY ActorFacts DEF ClaimInv, LoopInv, HoldInv, OwnerInv, ClaimGranted, CanRun
  <2>2. \A a \in Actors : pc[a] \notin Chain
    BY <2>1, ActorFacts DEF ClaimInv, LoopInv, WaitInv, Chain, Busy, Woken
  <2>3. pc' = [pc EXCEPT ![c] = "idle"] /\ pc \in [Actors -> PCs]
    BY DEF ClaimGranted, Return, Await, Inv, TypeOK
  <2>4. \A a \in Actors : pc'[a] \notin Chain /\ (pc'[a] = "collect" => pc[a] = "collect" /\ a # c)
    BY <2>2, <2>3, ActorFacts DEF Chain
  <2> QED BY <2>1, <2>4, ActorFacts DEF ClaimInv, OwnerInv
<1> QED BY <1>1, <1>2, <1>3, <1>4, <1>5, <1>6, <1>7 DEF ClaimInv

LEMMA ClaimRejectedKeeps ==
    ASSUME ~enrollment, Inv, ClaimInv, NEW c \in Calls, ClaimRejected(c)
    PROVE  ClaimInv'
<1>1. NoEnrollment'
  BY DEF ClaimInv, NoEnrollment, ClaimRejected, Return, Await, tasks, timers
<1>2. LoopInv'
  BY ActorFacts DEF ClaimInv, LoopInv, Chain, Op, ClaimRejected, Return, Await, Forget, CanRun
<1>3. WaitInv'
  BY DEF ClaimInv, WaitInv, Finished, ClaimRejected, Return, Await, Forget, tasks, timers
<1>4. TaskInv'
  BY DEF ClaimInv, TaskInv, ClaimRejected, Return, Await, tasks, timers
<1>5. HoldInv'
  BY ActorFacts DEF ClaimInv, HoldInv, Busy, ClaimRejected, Return, Await, Forget, claims, tasks,
      timers
<1>6. TimerInv'
  BY DEF ClaimInv, TimerInv, Busy, ClaimRejected, Return, Await, claims, tasks, timers
<1>7. OwnerInv'
  BY ActorFacts DEF Inv, TypeOK, ClaimInv, OwnerInv, Chain, Op, ClaimRejected, Return, Await,
      Forget, claims
<1> QED BY <1>1, <1>2, <1>3, <1>4, <1>5, <1>6, <1>7 DEF ClaimInv

LEMMA DepartureLockedKeeps ==
    ASSUME ~enrollment, Inv, ClaimInv, NEW s \in Senders, DepartureLocked(s)
    PROVE  ClaimInv'
<1>1. NoEnrollment'
  BY DEF Inv, TypeOK, ClaimInv, NoEnrollment, DepartureLocked, Await, Continue, tasks, timers
<1>2. LoopInv'
  BY ActorFacts DEF Inv, TypeOK, ClaimInv, LoopInv, Op, DepartureLocked, Await, Continue, locals,
      CanRun
<1>3. WaitInv'
  BY ActorFacts DEF Inv, TypeOK, ClaimInv, WaitInv, Finished, DepartureLocked, Await, Continue,
      locals, tasks, timers
<1>4. TaskInv'
  BY ActorFacts DEF Inv, TypeOK, Opt, ClaimInv, TaskInv, DepartureLocked, Await, Continue, tasks,
      timers
<1>5. HoldInv'
  BY ActorFacts DEF Inv, TypeOK, ClaimInv, HoldInv, Busy, DepartureLocked, Await, Continue, locals,
      claims, tasks, timers
<1>6. TimerInv'
  BY DEF Inv, TypeOK, ClaimInv, TimerInv, Busy, DepartureLocked, Await, Continue, claims, tasks,
      timers
<1>7. OwnerInv'
  BY ActorFacts DEF Inv, TypeOK, ClaimInv, OwnerInv, Chain, Op, DepartureLocked, Await, Continue,
      locals, claims
<1> QED BY <1>1, <1>2, <1>3, <1>4, <1>5, <1>6, <1>7 DEF ClaimInv

LEMMA CancelSentKeeps ==
    ASSUME ~enrollment, Inv, ClaimInv, NEW a \in Actors, CancelSent(a)
    PROVE  ClaimInv'
<1>1. NoEnrollment'
  BY DEF ClaimInv, NoEnrollment, CancelSent
<1>2. LoopInv'
  BY ActorFacts DEF ClaimInv, LoopInv, Chain, Op, CancelSent, Await, locals, CanRun
<1>3. WaitInv'
  BY DEF ClaimInv, WaitInv, Finished, CancelSent, Await, locals, tasks, timers
<1>4. TaskInv'
  BY DEF ClaimInv, TaskInv, CancelSent, Await, tasks, timers
<1>5. HoldInv'
  BY DEF ClaimInv, HoldInv, Busy, CancelSent, Await, locals, claims, tasks, timers
<1>6. TimerInv'
  BY DEF ClaimInv, TimerInv, Busy, CancelSent, Await, claims, tasks, timers
<1>7. OwnerInv'
  BY DEF ClaimInv, OwnerInv, Chain, Op, CancelSent, Await, locals, claims
<1> QED BY <1>1, <1>2, <1>3, <1>4, <1>5, <1>6, <1>7 DEF ClaimInv

LEMMA WaitDeletionKeeps ==
    ASSUME ~enrollment, Inv, ClaimInv, NEW a \in Actors, WaitDeletion(a)
    PROVE  ClaimInv'
<1>1. NoEnrollment'
  BY DEF Inv, TypeOK, ClaimInv, NoEnrollment, WaitDeletion, Await, Continue, tasks, timers
<1>2. LoopInv'
  BY ActorFacts DEF Inv, TypeOK, ClaimInv, LoopInv, Chain, Op, WaitDeletion, Await, Continue,
      tasks, timers
<1>3. WaitInv'
  BY ActorFacts DEF Inv, TypeOK, Opt, Exclusive, ClaimInv, WaitInv, Finished, WaitDeletion, Await,
      Continue, tasks, timers
<1>4. TaskInv'
  BY ActorFacts DEF Inv, TypeOK, Opt, ClaimInv, TaskInv, WaitDeletion, Await, Continue, tasks,
      timers
<1>5. HoldInv'
  BY ActorFacts DEF Inv, TypeOK, ClaimInv, HoldInv, Busy, WaitDeletion, Await, Continue, claims,
      tasks, timers
<1>6. TimerInv'
  BY DEF Inv, TypeOK, ClaimInv, TimerInv, Busy, WaitDeletion, Continue, claims, tasks, timers
<1>7. OwnerInv'
  BY ActorFacts DEF Inv, TypeOK, ClaimInv, OwnerInv, Chain, Op, WaitDeletion, Await, Continue,
      claims
<1> QED BY <1>1, <1>2, <1>3, <1>4, <1>5, <1>6, <1>7 DEF ClaimInv

LEMMA BeginRefusedKeeps ==
    ASSUME ~enrollment, Inv, ClaimInv, NEW c \in Calls, BeginRefused(c)
    PROVE  ClaimInv'
<1>1. NoEnrollment'
  BY DEF ClaimInv, NoEnrollment, BeginRefused, Return, Await, tasks, timers
<1>2. LoopInv'
  BY ActorFacts DEF Inv, TypeOK, ClaimInv, LoopInv, Chain, Op, BeginRefused, Return, Await, Forget
<1>3. WaitInv'
  BY DEF ClaimInv, WaitInv, Finished, BeginRefused, Return, Await, Forget, tasks, timers
<1>4. TaskInv'
  BY DEF ClaimInv, TaskInv, BeginRefused, Return, Await, tasks, timers
<1>5. HoldInv'
  BY ActorFacts DEF ClaimInv, HoldInv, BeginRefused, Return, Await, Forget, claims
<1>6. TimerInv'
  BY DEF ClaimInv, TimerInv, BeginRefused, claims, tasks, timers, Busy
<1>7. OwnerInv'
  BY DEF ClaimInv, OwnerInv, Chain, Op, BeginRefused, Return, Await, Forget, claims
<1> QED BY <1>1, <1>2, <1>3, <1>4, <1>5, <1>6, <1>7 DEF ClaimInv

LEMMA ProjectedKeeps ==
    ASSUME ~enrollment, Inv, ClaimInv, NEW c \in Calls, Projected(c)
    PROVE  ClaimInv'
<1>1. NoEnrollment'
  BY DEF ClaimInv, NoEnrollment, Projected, Await, tasks, timers
<1>2. LoopInv'
  BY ActorFacts DEF ClaimInv, LoopInv, Chain, Op, Projected, Await, CanRun
<1>3. WaitInv'
  BY DEF ClaimInv, WaitInv, Finished, Projected, Await, tasks, timers
<1>4. TaskInv'
  BY DEF ClaimInv, TaskInv, Projected, Await, tasks, timers
<1>5. HoldInv'
  BY ActorFacts DEF Inv, TypeOK, CallInv, ClaimInv, HoldInv, Projected, Await, claims
<1>6. TimerInv'
  BY DEF ClaimInv, TimerInv, Busy, Projected, Await, claims, tasks, timers
<1>7. OwnerInv'
  BY DEF ClaimInv, OwnerInv, Chain, Op, Projected, Await, claims
<1> QED BY <1>1, <1>2, <1>3, <1>4, <1>5, <1>6, <1>7 DEF ClaimInv

LEMMA StartFailsKeeps ==
    ASSUME ~enrollment, Inv, ClaimInv, NEW c \in Calls, StartFails(c)
    PROVE  ClaimInv'
<1>1. NoEnrollment'
  BY DEF ClaimInv, NoEnrollment, StartFails, Continue, tasks, timers
<1>2. LoopInv'
  BY ActorFacts DEF Inv, TypeOK, ClaimInv, LoopInv, Chain, Op, StartFails, Continue, locals, CanRun
<1>3. WaitInv'
  BY DEF ClaimInv, WaitInv, Finished, StartFails, Continue, locals, tasks, timers
<1>4. TaskInv'
  BY DEF ClaimInv, TaskInv, StartFails, Continue, tasks, timers
<1>5. HoldInv'
  BY DEF ClaimInv, HoldInv, Busy, StartFails, Continue, locals, claims, tasks, timers
<1>6. TimerInv'
  BY DEF ClaimInv, TimerInv, Busy, StartFails, Continue, claims, tasks, timers
<1>7. OwnerInv'
  BY DEF ClaimInv, OwnerInv, Chain, Op, StartFails, Continue, locals, claims
<1> QED BY <1>1, <1>2, <1>3, <1>4, <1>5, <1>6, <1>7 DEF ClaimInv

LEMMA VerifyStartsKeeps ==
    ASSUME ~enrollment, Inv, ClaimInv, NEW c \in Calls, VerifyStarts(c)
    PROVE  ClaimInv'
<1>1. NoEnrollment'
  BY DEF ClaimInv, NoEnrollment, VerifyStarts, Started, Await, tasks, timers
<1>2. LoopInv'
  BY ActorFacts DEF ClaimInv, LoopInv, Chain, Op, VerifyStarts, Await, Forget, CanRun
<1>3. WaitInv'
  BY DEF ClaimInv, WaitInv, Finished, VerifyStarts, Started, Await, Forget, tasks, timers
<1>4. TaskInv'
  BY DEF Inv, TypeOK, ClaimInv, TaskInv, VerifyStarts, Started, Await, tasks, timers
<1>5. HoldInv'
  BY ActorFacts DEF Inv, TypeOK, ClaimInv, HoldInv, Busy, VerifyStarts, Started, Await, Forget,
      claims, tasks, timers
<1>6. TimerInv'
  BY DEF ClaimInv, TimerInv, Busy, VerifyStarts, Started, Await, claims, tasks, timers
<1>7. OwnerInv'
  BY DEF ClaimInv, OwnerInv, Chain, Op, VerifyStarts, Await, Forget, claims
<1> QED BY <1>1, <1>2, <1>3, <1>4, <1>5, <1>6, <1>7 DEF ClaimInv

LEMMA EnrollStartsKeeps ==
    ASSUME ~enrollment, OfferInv, Inv, ClaimInv, NEW c \in Calls, EnrollStarts(c)
    PROVE  ClaimInv'
<1>1. NoEnrollment'
  BY DEF Inv, CallInv, ClaimInv, NoEnrollment, OfferInv, EnrollOps, Ops, EnrollStarts
<1>2. LoopInv'
  BY ActorFacts DEF ClaimInv, LoopInv, Chain, Op, EnrollStarts, Return, Await, Forget, CanRun
<1>3. WaitInv'
  BY DEF ClaimInv, WaitInv, Finished, EnrollStarts, Started, Return, Await, Forget, timers
<1>4. TaskInv'
  BY DEF ClaimInv, TaskInv, EnrollStarts, Return, Await, Busy
<1>5. HoldInv'
  BY ActorFacts DEF Inv, TypeOK, ClaimInv, HoldInv, EnrollStarts, Started, Return, Await, Forget,
      claims, OwnsClaim
<1>6. TimerInv'
  BY DEF Inv, CallInv, ClaimInv, TimerInv, OfferInv, EnrollOps, Ops, EnrollStarts
<1>7. OwnerInv'
  BY DEF ClaimInv, OwnerInv, Chain, Op, EnrollStarts, Return, Await, Forget, claims
<1> QED BY <1>1, <1>2, <1>3, <1>4, <1>5, <1>6, <1>7 DEF ClaimInv

LEMMA DeleteStartsKeeps ==
    ASSUME ~enrollment, Inv, ClaimInv, NEW c \in Calls, DeleteStarts(c)
    PROVE  ClaimInv'
<1>1. NoEnrollment'
  BY DEF ClaimInv, NoEnrollment, DeleteStarts, Started, Await, tasks, timers
<1>2. LoopInv'
  BY ActorFacts DEF ClaimInv, LoopInv, Chain, Op, DeleteStarts, Await, locals, CanRun
<1>3. WaitInv'
  BY DEF ClaimInv, WaitInv, Finished, DeleteStarts, Started, Await, locals, tasks, timers
<1>4. TaskInv'
  BY DEF ClaimInv, TaskInv, DeleteStarts, Await, tasks
<1>5. HoldInv'
  BY DEF Inv, TypeOK, ClaimInv, HoldInv, Busy, DeleteStarts, Started, Await, locals, claims, tasks,
      timers
<1>6. TimerInv'
  BY DEF ClaimInv, TimerInv, Busy, DeleteStarts, Started, Await, claims, tasks, timers
<1>7. OwnerInv'
  BY ActorFacts DEF ClaimInv, OwnerInv, Op, DeleteStarts, Await, locals, claims
<1> QED BY <1>1, <1>2, <1>3, <1>4, <1>5, <1>6, <1>7 DEF ClaimInv

LEMMA DeleteEndsKeeps ==
    ASSUME ~enrollment, Inv, ClaimInv, NEW c \in Calls, DeleteEnds(c)
    PROVE  ClaimInv'
<1>1. NoEnrollment'
  BY DEF ClaimInv, NoEnrollment, DeleteEnds, Continue, tasks, timers
<1>2. LoopInv'
  BY ActorFacts DEF Inv, TypeOK, ClaimInv, LoopInv, Chain, Op, DeleteEnds, Continue, locals, CanRun
<1>3. WaitInv'
  BY DEF ClaimInv, WaitInv, Finished, DeleteEnds, Continue, locals, tasks, timers
<1>4. TaskInv'
  BY DEF ClaimInv, TaskInv, DeleteEnds, Continue, tasks, timers
<1>5. HoldInv'
  BY ActorFacts DEF Inv, TypeOK, MarkInv, Exclusive, ClaimInv, HoldInv, Busy, DeleteEnds, Continue,
      locals, claims
<1>6. TimerInv'
  BY ActorFacts DEF Inv, MarkInv, Exclusive, ClaimInv, TimerInv, Busy, DeleteEnds, tasks, timers
<1>7. OwnerInv'
  BY DEF ClaimInv, OwnerInv, Chain, Op, DeleteEnds, Continue, locals, claims
<1> QED BY <1>1, <1>2, <1>3, <1>4, <1>5, <1>6, <1>7 DEF ClaimInv

LEMMA VerdictArrivesKeeps ==
    ASSUME ~enrollment, Inv, ClaimInv, NEW c \in Calls, VerdictArrives(c)
    PROVE  ClaimInv'
<1>1. NoEnrollment'
  BY DEF ClaimInv, NoEnrollment, VerdictArrives, tasks, timers
<1>2. LoopInv'
  BY DEF ClaimInv, LoopInv, Waiting, Finished, Op, VerdictArrives, claims, tasks, timers
<1>3. WaitInv'
  BY DEF ClaimInv, WaitInv, Finished, VerdictArrives, tasks, timers
<1>4. TaskInv'
  BY DEF ClaimInv, TaskInv, VerdictArrives, tasks, timers
<1>5. HoldInv'
  BY ActorFacts DEF Inv, MarkInv, ClaimInv, HoldInv, Busy, VerdictArrives, claims
<1>6. TimerInv'
  BY DEF ClaimInv, TimerInv, Busy, VerdictArrives, claims, tasks, timers
<1>7. OwnerInv'
  BY DEF ClaimInv, OwnerInv, Op, VerdictArrives, claims
<1> QED BY <1>1, <1>2, <1>3, <1>4, <1>5, <1>6, <1>7 DEF ClaimInv

LEMMA VerifyEndsKeeps ==
    ASSUME ~enrollment, Inv, ClaimInv, NEW c \in Calls, VerifyEnds(c)
    PROVE  ClaimInv'
<1>1. NoEnrollment'
  BY DEF ClaimInv, NoEnrollment, VerifyEnds, tasks
<1>2. LoopInv'
  BY ActorFacts DEF ClaimInv, LoopInv, Op, VerifyEnds, Idle
<1>3. WaitInv'
  BY DEF ClaimInv, WaitInv, Finished, VerifyEnds, tasks
<1>4. TaskInv'
  BY DEF Inv, MarkInv, ClaimInv, TaskInv, VerifyEnds, tasks
<1>5. HoldInv'
  BY ActorFacts DEF Inv, CallInv, MarkInv, ClaimInv, HoldInv, Busy, VerifyEnds, claims
<1>6. TimerInv'
  BY ActorFacts DEF Inv, TypeOK, MarkInv, ClaimInv, HoldInv, TimerInv, Busy, VerifyEnds, claims,
      tasks
<1>7. OwnerInv'
  BY DEF Inv, CallInv, ClaimInv, OwnerInv, Chain, Op, VerifyEnds, claims
<1> QED BY <1>1, <1>2, <1>3, <1>4, <1>5, <1>6, <1>7 DEF ClaimInv

LEMMA VerifyDrainedKeeps ==
    ASSUME ~enrollment, Inv, ClaimInv, NEW c \in Calls, VerifyDrained(c)
    PROVE  ClaimInv'
<1>1. NoEnrollment'
  BY DEF ClaimInv, NoEnrollment, VerifyDrained, tasks, timers
<1>2. LoopInv'
  BY ActorFacts DEF ClaimInv, LoopInv, Op, VerifyDrained, Idle
<1>3. WaitInv'
  BY DEF ClaimInv, WaitInv, Finished, VerifyDrained, tasks, timers
<1>4. TaskInv'
  BY DEF Inv, TypeOK, ClaimInv, TaskInv, VerifyDrained, tasks, timers
<1>5. HoldInv'
  BY ActorFacts DEF Inv, CallInv, ClaimInv, HoldInv, Busy, VerifyDrained, claims, tasks, timers
<1>6. TimerInv'
  BY DEF Inv, CallInv, ClaimInv, TimerInv, Busy, VerifyDrained, claims, tasks, timers
<1>7. OwnerInv'
  BY DEF Inv, CallInv, ClaimInv, OwnerInv, Chain, Op, VerifyDrained, claims
<1> QED BY <1>1, <1>2, <1>3, <1>4, <1>5, <1>6, <1>7 DEF ClaimInv

LEMMA SleepCancelsKeeps ==
    ASSUME ~enrollment, Inv, ClaimInv, NEW c \in Calls, SleepCancels(c)
    PROVE  ClaimInv'
<1>1. NoEnrollment'
  BY DEF ClaimInv, NoEnrollment, SleepCancels, tasks, timers
<1>2. LoopInv'
  BY DEF ClaimInv, LoopInv, Waiting, Finished, Op, SleepCancels, locals, claims, tasks, timers
<1>3. WaitInv'
  BY DEF ClaimInv, WaitInv, Finished, SleepCancels, locals, tasks, timers
<1>4. TaskInv'
  BY DEF ClaimInv, TaskInv, SleepCancels, tasks, timers
<1>5. HoldInv'
  BY DEF ClaimInv, HoldInv, Busy, SleepCancels, locals, claims, tasks, timers
<1>6. TimerInv'
  BY DEF ClaimInv, TimerInv, Busy, SleepCancels, claims, tasks, timers
<1>7. OwnerInv'
  BY DEF ClaimInv, OwnerInv, Op, SleepCancels, locals, claims
<1> QED BY <1>1, <1>2, <1>3, <1>4, <1>5, <1>6, <1>7 DEF ClaimInv

LEMMA EnrollEndsKeeps ==
    ASSUME ~enrollment, Inv, ClaimInv, NEW c \in Calls, EnrollEnds(c)
    PROVE  ClaimInv'
<1>1. NoEnrollment'
  BY DEF ClaimInv, NoEnrollment, EnrollEnds
<1>2. LoopInv'
  BY ActorFacts DEF ClaimInv, LoopInv, Op, EnrollEnds, locals, Idle
<1>3. WaitInv'
  BY DEF ClaimInv, WaitInv, Finished, EnrollEnds, locals, tasks
<1>4. TaskInv'
  BY ActorFacts DEF Inv, MarkInv, Exclusive, ClaimInv, TaskInv, EnrollEnds, tasks
<1>5. HoldInv'
  BY ActorFacts DEF Inv, MarkInv, ClaimInv, HoldInv, Busy, EnrollEnds, locals, claims
<1>6. TimerInv'
  BY DEF ClaimInv, NoEnrollment, TimerInv, EnrollEnds
<1>7. OwnerInv'
  BY DEF ClaimInv, OwnerInv, Op, EnrollEnds, locals, claims
<1> QED BY <1>1, <1>2, <1>3, <1>4, <1>5, <1>6, <1>7 DEF ClaimInv

LEMMA ExpireUnstartedKeeps ==
    ASSUME ~enrollment, Inv, ClaimInv, NEW c \in Calls, ExpireUnstarted(c)
    PROVE  ClaimInv'
<1>1. NoEnrollment'
  BY DEF ClaimInv, NoEnrollment, ExpireUnstarted, TimerGone, tasks
<1>2. LoopInv'
  BY ActorFacts DEF ClaimInv, LoopInv, Op, ExpireUnstarted, locals, Idle
<1>3. WaitInv'
  BY DEF ClaimInv, WaitInv, Finished, ExpireUnstarted, TimerGone, locals, tasks
<1>4. TaskInv'
  BY DEF Inv, TypeOK, ClaimInv, TaskInv, TimerInv, ExpireUnstarted, TimerGone, tasks
<1>5. HoldInv'
  BY ActorFacts DEF Inv, CallInv, MarkInv, ClaimInv, HoldInv, ExpireUnstarted, TimerGone,
      ClearClaim, locals, claims, tasks, Busy
<1>6. TimerInv'
  BY ActorFacts DEF Inv, TypeOK, ClaimInv, TimerInv, ExpireUnstarted, TimerGone, ClearClaim
<1>7. OwnerInv'
  BY DEF ClaimInv, OwnerInv, Op, ExpireUnstarted, ClearClaim, locals, claims
<1> QED BY <1>1, <1>2, <1>3, <1>4, <1>5, <1>6, <1>7 DEF ClaimInv

LEMMA ExpireVerifiedKeeps ==
    ASSUME ~enrollment, Inv, ClaimInv, NEW c \in Calls, ExpireVerified(c)
    PROVE  ClaimInv'
<1>1. NoEnrollment'
  BY DEF Inv, TypeOK, ClaimInv, NoEnrollment, ExpireVerified, TimerGone
<1>2. LoopInv'
  BY ActorFacts DEF ClaimInv, LoopInv, Op, ExpireVerified, locals, Idle
<1>3. WaitInv'
  BY ActorFacts DEF ClaimInv, WaitInv, Finished, ExpireVerified, TimerGone, locals
<1>4. TaskInv'
  BY ActorFacts DEF Inv, CallInv, ClaimInv, TaskInv, TimerInv, ExpireVerified
<1>5. HoldInv'
  BY ActorFacts DEF Inv, TypeOK, CallInv, MarkInv, Exclusive, ClaimInv, HoldInv, Busy,
      ExpireVerified, TimerGone, ClearClaim, locals, claims
<1>6. TimerInv'
  BY ActorFacts DEF Inv, TypeOK, ClaimInv, TimerInv, ExpireVerified, TimerGone, ClearClaim
<1>7. OwnerInv'
  BY DEF ClaimInv, OwnerInv, Op, ExpireVerified, ClearClaim, locals, claims
<1> QED BY <1>1, <1>2, <1>3, <1>4, <1>5, <1>6, <1>7 DEF ClaimInv

LEMMA ExpireEnrolledKeeps ==
    ASSUME ~enrollment, Inv, ClaimInv, NEW c \in Calls, ExpireEnrolled(c)
    PROVE  ClaimInv'
<1>1. NoEnrollment'
  BY DEF ClaimInv, NoEnrollment, ExpireEnrolled
<1>2. LoopInv'
  BY ActorFacts DEF ClaimInv, LoopInv, Op, ExpireEnrolled, locals, Idle
<1>3. WaitInv'
  BY DEF Inv, TypeOK, ClaimInv, WaitInv, Finished, ExpireEnrolled, TimerGone, locals
<1>4. TaskInv'
  BY ActorFacts DEF Inv, TypeOK, Exclusive, ClaimInv, TaskInv, ExpireEnrolled, TimerGone
<1>5. HoldInv'
  BY ActorFacts DEF Inv, TypeOK, CallInv, MarkInv, Exclusive, ClaimInv, HoldInv, Busy,
      ExpireEnrolled, TimerGone, ClearClaim, locals, claims
<1>6. TimerInv'
  BY ActorFacts DEF ClaimInv, TimerInv, ExpireEnrolled
<1>7. OwnerInv'
  BY DEF ClaimInv, OwnerInv, Op, ExpireEnrolled, ClearClaim, locals, claims
<1> QED BY <1>1, <1>2, <1>3, <1>4, <1>5, <1>6, <1>7 DEF ClaimInv

LEMMA DieKeeps ==
    ASSUME ~enrollment, Inv, ClaimInv, NEW s \in Senders, Die(s)
    PROVE  ClaimInv'
<1>1. NoEnrollment'
  BY DEF ClaimInv, NoEnrollment, Die, tasks, timers
<1>2. LoopInv'
  BY DEF ClaimInv, LoopInv, Waiting, Finished, Op, Die, locals, claims, tasks, timers
<1>3. WaitInv'
  BY DEF ClaimInv, WaitInv, Finished, Die, locals, tasks, timers
<1>4. TaskInv'
  BY DEF ClaimInv, TaskInv, Die, tasks, timers
<1>5. HoldInv'
  BY DEF ClaimInv, HoldInv, Busy, Die, locals, claims, tasks, timers
<1>6. TimerInv'
  BY DEF ClaimInv, TimerInv, Busy, Die, claims, tasks, timers
<1>7. OwnerInv'
  BY DEF ClaimInv, OwnerInv, Op, Die, locals, claims
<1> QED BY <1>1, <1>2, <1>3, <1>4, <1>5, <1>6, <1>7 DEF ClaimInv

LEMMA DisconnectKeeps ==
    ASSUME ~enrollment, Inv, ClaimInv, NEW s \in Senders, Disconnect(s)
    PROVE  ClaimInv'
<1>1. NoEnrollment'
  BY DEF ClaimInv, NoEnrollment, Disconnect, Await, tasks, timers
<1>2. LoopInv'
  BY ActorFacts DEF ClaimInv, LoopInv, Op, Disconnect, Await, locals, Idle
<1>3. WaitInv'
  BY ActorFacts DEF ClaimInv, WaitInv, Finished, Disconnect, Await, locals, tasks, timers
<1>4. TaskInv'
  BY ActorFacts DEF Inv, TypeOK, Opt, ClaimInv, TaskInv, Disconnect, Await, tasks, timers
<1>5. HoldInv'
  BY ActorFacts DEF ClaimInv, HoldInv, Busy, Disconnect, Await, locals, claims, tasks, timers
<1>6. TimerInv'
  BY DEF ClaimInv, TimerInv, Busy, Disconnect, Await, claims, tasks, timers
<1>7. OwnerInv'
  BY DEF ClaimInv, OwnerInv, Chain, Op, Disconnect, Await, locals, claims
<1> QED BY <1>1, <1>2, <1>3, <1>4, <1>5, <1>6, <1>7 DEF ClaimInv

LEMMA VerifyBeginsKeeps ==
    ASSUME ~enrollment, Inv, ClaimInv, NEW c \in Calls, VerifyBegins(c)
    PROVE  ClaimInv'
<1>1. NoEnrollment'
  BY DEF Inv, TypeOK, ClaimInv, NoEnrollment, VerifyBegins, Await, CancelExpiry
<1>2. LoopInv'
  BY ActorFacts DEF Inv, TypeOK, ClaimInv, LoopInv, Chain, Op, VerifyBegins, Begins, Await, locals
<1>3. WaitInv'
  BY ActorFacts DEF ClaimInv, LoopInv, WaitInv, Waiting, VerifyBegins, Begins, Await, Busy
<1>4. TaskInv'
  BY ActorFacts DEF Inv, TypeOK, ClaimInv, TaskInv, VerifyBegins, Begins, Await, Busy
<1>5. HoldInv'
  BY ActorFacts DEF Inv, MarkInv, ClaimInv, LoopInv, HoldInv, VerifyBegins, Begins, Await, Busy,
      locals, claims
<1>6. TimerInv'
  BY ActorFacts DEF Inv, TypeOK, ClaimInv, TimerInv, VerifyBegins, Busy, CancelExpiry
<1>7. OwnerInv'
  BY ActorFacts DEF ClaimInv, OwnerInv, Op, VerifyBegins, Begins, Await, locals, claims
<1> QED BY <1>1, <1>2, <1>3, <1>4, <1>5, <1>6, <1>7 DEF ClaimInv

LEMMA EnrollBeginsKeeps ==
    ASSUME ~enrollment, OfferInv, Inv, ClaimInv, NEW c \in Calls, EnrollBegins(c)
    PROVE  ClaimInv'
<1>1. NoEnrollment'
  BY DEF Inv, TypeOK, ClaimInv, NoEnrollment, EnrollBegins, Await, CancelExpiry, tasks
<1>2. LoopInv'
  BY ActorFacts DEF Inv, TypeOK, ClaimInv, LoopInv, Chain, Op, EnrollBegins, Begins, Await, locals
<1>3. WaitInv'
  BY DEF Inv, TypeOK, ClaimInv, WaitInv, Finished, EnrollBegins, Begins, Await, Busy, CancelExpiry,
      locals, tasks
<1>4. TaskInv'
  BY DEF Inv, TypeOK, Opt, ClaimInv, TaskInv, EnrollBegins, Await, CancelExpiry, tasks
<1>5. HoldInv'
  BY ActorFacts DEF Inv, MarkInv, ClaimInv, HoldInv, EnrollBegins, Begins, Await, Busy,
      CancelExpiry, locals, claims, tasks
<1>6. TimerInv'
  BY DEF Inv, CallInv, ClaimInv, TimerInv, OfferInv, EnrollOps, Ops, EnrollBegins, Begins
<1>7. OwnerInv'
  BY ActorFacts DEF ClaimInv, OwnerInv, Op, EnrollBegins, Begins, Await, locals, claims
<1> QED BY <1>1, <1>2, <1>3, <1>4, <1>5, <1>6, <1>7 DEF ClaimInv

LEMMA DeleteBeginsKeeps ==
    ASSUME ~enrollment, Inv, ClaimInv, NEW c \in Calls, DeleteBegins(c)
    PROVE  ClaimInv'
<1>1. NoEnrollment'
  BY DEF Inv, TypeOK, ClaimInv, NoEnrollment, DeleteBegins, Await, CancelExpiry
<1>2. LoopInv'
  BY ActorFacts DEF Inv, TypeOK, ClaimInv, LoopInv, Chain, Op, DeleteBegins, Begins, Await, locals
<1>3. WaitInv'
  BY ActorFacts DEF ClaimInv, LoopInv, WaitInv, Waiting, DeleteBegins, Begins, Await, Busy
<1>4. TaskInv'
  BY ActorFacts DEF Inv, TypeOK, Opt, ClaimInv, TaskInv, DeleteBegins, Await, CancelExpiry
<1>5. HoldInv'
  BY ActorFacts DEF Inv, MarkInv, ClaimInv, LoopInv, HoldInv, DeleteBegins, Begins, Await, Busy,
      locals, claims
<1>6. TimerInv'
  BY ActorFacts DEF Inv, TypeOK, ClaimInv, TimerInv, DeleteBegins, Busy, CancelExpiry
<1>7. OwnerInv'
  BY ActorFacts DEF ClaimInv, OwnerInv, Op, DeleteBegins, Begins, Await, locals, claims
<1> QED BY <1>1, <1>2, <1>3, <1>4, <1>5, <1>6, <1>7 DEF ClaimInv

LEMMA FinallyKeeps ==
    ASSUME ~enrollment, Inv, ClaimInv, NEW c \in Calls, Finally(c)
    PROVE  ClaimInv'
<1>1. NoEnrollment'
  BY DEF ClaimInv, NoEnrollment, Finally, Return, Await, ArmUnstarted, timers
<1>2. LoopInv'
  BY ActorFacts DEF Inv, TypeOK, ClaimInv, LoopInv, Chain, Op, Finally, Return, Await, Forget,
      CanRun
<1>3. WaitInv'
  BY ActorFacts DEF Inv, TypeOK, CallInv, ClaimInv, WaitInv, Finished, Finally, Return, Await,
      Forget, ArmUnstarted, timers
<1>4. TaskInv'
  BY ActorFacts DEF Inv, TypeOK, ClaimInv, TaskInv, Finally, Return, Await, ArmUnstarted, timers
<1>5. HoldInv'
  BY ActorFacts DEF ClaimInv, HoldInv, Busy, Finally, Return, Await, Forget, ArmUnstarted, claims,
      timers
<1>6. TimerInv'
  BY DEF Inv, CallInv, ClaimInv, TimerInv, Busy, Finally, ArmUnstarted, claims, timers
<1>7. OwnerInv'
  BY DEF ClaimInv, OwnerInv, Chain, Op, Finally, Return, Await, Forget, claims
<1> QED BY <1>1, <1>2, <1>3, <1>4, <1>5, <1>6, <1>7 DEF ClaimInv

LEMMA ClearKeeps ==
    ASSUME ~enrollment, Inv, ClaimInv, NEW a \in Actors, Clear(a)
    PROVE  ClaimInv'
<1>1. NoEnrollment'
  BY ZenonT(60) DEF Inv, TypeOK, ClaimInv, NoEnrollment, Clear, Return, Await, tasks, timers
<1>2. LoopInv'
  BY ActorFacts DEF Inv, TypeOK, ClaimInv, LoopInv, Chain, Op, Clear, Return, Await, Forget, locals
<1>3. WaitInv'
  BY ActorFacts DEF Inv, TypeOK, ClaimInv, WaitInv, Finished, Clear, Return, Await, Forget, locals,
      tasks, timers
<1>4. TaskInv'
  BY ActorFacts DEF Inv, TypeOK, Opt, ClaimInv, TaskInv, Clear, Return, Await, Forget, tasks,
      timers
<1>5. HoldInv'
  BY ActorFacts DEF Inv, TypeOK, MarkInv, ClaimInv, NoEnrollment, LoopInv, HoldInv, Busy, Clear,
      Return, Await, Forget, ClearClaim, locals, tasks, timers
<1>6. TimerInv'
  BY DEF ClaimInv, LoopInv, TimerInv, Clear, ClearClaim, timers
<1>7. OwnerInv'
  BY ActorFacts DEF Inv, TypeOK, ClaimInv, LoopInv, OwnerInv, Chain, Op, Clear, Return, Await,
      Forget, ClearClaim, locals
<1> QED BY <1>1, <1>2, <1>3, <1>4, <1>5, <1>6, <1>7 DEF ClaimInv

LEMMA DeletionWaitedKeeps ==
    ASSUME ~enrollment, Inv, ClaimInv, NEW a \in Actors, DeletionWaited(a)
    PROVE  ClaimInv'
<1>1. NoEnrollment'
  BY DEF Inv, TypeOK, ClaimInv, NoEnrollment, DeletionWaited, Continue, CancelExpiry, tasks
<1>2. LoopInv'
  BY ActorFacts DEF Inv, TypeOK, ClaimInv, LoopInv, WaitInv, TaskInv, Chain, Op, DeletionWaited,
      Continue, CancelExpiry, tasks, Finished
<1>3. WaitInv'
  BY DEF Inv, TypeOK, ClaimInv, WaitInv, DeletionWaited, Continue, CancelExpiry, tasks, Finished
<1>4. TaskInv'
  BY DEF Inv, TypeOK, Opt, ClaimInv, TaskInv, DeletionWaited, Continue, CancelExpiry, tasks
<1>5. HoldInv'
  BY DEF Inv, TypeOK, CallInv, ClaimInv, HoldInv, Busy, DeletionWaited, Continue, CancelExpiry,
      claims, tasks
<1>6. TimerInv'
  BY DEF Inv, TypeOK, ClaimInv, TimerInv, DeletionWaited, Continue, CancelExpiry
<1>7. OwnerInv'
  BY DEF ClaimInv, OwnerInv, Chain, Op, DeletionWaited, Continue, claims
<1> QED BY <1>1, <1>2, <1>3, <1>4, <1>5, <1>6, <1>7 DEF ClaimInv

LEMMA StopVerificationKeeps ==
    ASSUME ~enrollment, Inv, ClaimInv, NEW a \in Actors, StopVerification(a)
    PROVE  ClaimInv'
<1>1. NoEnrollment'
  BY DEF Inv, TypeOK, ClaimInv, NoEnrollment, StopVerification, Return, Await, Continue, Forget,
      ArmUnstarted, CancelExpiry, tasks, timers
<1>2. LoopInv'
  BY ActorFacts DEF Inv, TypeOK, ClaimInv, LoopInv, Chain, StopVerification, Stopper, Op, Return,
      Await, Continue, Forget, ArmUnstarted, locals, tasks
<1>3. WaitInv'
  BY ActorFacts DEF Inv, TypeOK, Opt, ClaimInv, WaitInv, TimerInv, Finished, StopVerification,
      Return, Await, Continue, Forget, ArmUnstarted, CancelExpiry, locals, tasks, timers
<1>4. TaskInv'
  BY ActorFacts DEF Inv, TypeOK, Opt, Exclusive, ClaimInv, TaskInv, StopVerification, Return,
      Await, Continue, Forget, ArmUnstarted, CancelExpiry, tasks
<1>5. HoldInv'
  BY ActorFacts DEF Inv, TypeOK, MarkInv, Exclusive, ClaimInv, LoopInv, HoldInv, TimerInv, Busy,
      StopVerification, Return, Await, Continue, Forget, ArmUnstarted, CancelExpiry, locals,
      claims, tasks, timers
<1>6. TimerInv'
  BY ActorFacts DEF Inv, TypeOK, ClaimInv, TimerInv, Busy, StopVerification, Stopper, Op, Continue,
      Forget, ArmUnstarted, CancelExpiry, claims, tasks, timers
<1>7. OwnerInv'
  BY ActorFacts DEF Inv, TypeOK, ClaimInv, OwnerInv, Chain, StopVerification, Op, Return, Await,
      Continue, Forget, ArmUnstarted, locals, claims
<1> QED BY <1>1, <1>2, <1>3, <1>4, <1>5, <1>6, <1>7 DEF ClaimInv

LEMMA VerificationStoppedKeeps ==
    ASSUME ~enrollment, Inv, ClaimInv, NEW a \in Actors, VerificationStopped(a)
    PROVE  ClaimInv'
<1>1. NoEnrollment'
  BY DEF Inv, TypeOK, ClaimInv, NoEnrollment, VerificationStopped, Retired, Return, Await,
      Continue, Forget, ArmUnstarted, timers
<1>2. LoopInv'
  BY ActorFacts DEF Inv, TypeOK, ClaimInv, LoopInv, WaitInv, Chain, VerificationStopped, Dropped,
      Stopper, Op, Return, Await, Continue, Forget, ArmUnstarted
<1>3. WaitInv'
  BY ActorFacts DEF Inv, TypeOK, ClaimInv, WaitInv, VerificationStopped, Finished, Dropped,
      Retired, Return, Await, Continue, Forget, ArmUnstarted, timers
<1>4. TaskInv'
  BY ActorFacts DEF Inv, TypeOK, Opt, ClaimInv, TaskInv, VerificationStopped, Finished, Dropped,
      Retired, Return, Await, Continue, Forget, ArmUnstarted, timers
<1>5. HoldInv'
  BY ActorFacts, SMTT(20) DEF Inv, TypeOK, CallInv, Exclusive, ClaimInv, LoopInv, WaitInv, HoldInv, TimerInv,
      Chain, Busy, VerificationStopped, Finished, Dropped, Retired, Return, Await, Continue,
      Forget, ArmUnstarted, claims, timers
<1>6. TimerInv'
  BY ActorFacts DEF Inv, TypeOK, ClaimInv, WaitInv, TimerInv, Busy, VerificationStopped, Dropped,
      Stopper, Op, Continue, Forget, ArmUnstarted, claims, timers
<1>7. OwnerInv'
  BY ActorFacts DEF Inv, TypeOK, ClaimInv, OwnerInv, Chain, VerificationStopped, Op, Return, Await,
      Continue, Forget, ArmUnstarted, claims
<1> QED BY <1>1, <1>2, <1>3, <1>4, <1>5, <1>6, <1>7 DEF ClaimInv

LEMMA StopEnrollmentKeeps ==
    ASSUME ~enrollment, Inv, ClaimInv, NEW a \in Actors, StopEnrollment(a)
    PROVE  ClaimInv'
<1>1. NoEnrollment'
  BY DEF Inv, TypeOK, ClaimInv, NoEnrollment, StopEnrollment, Return, Await, Continue, Forget,
      ArmUnstarted, CancelExpiry, tasks, timers
<1>2. LoopInv'
  BY ActorFacts DEF Inv, TypeOK, ClaimInv, LoopInv, Chain, StopEnrollment, Stopper, Op, Await,
      Continue, Forget, ArmUnstarted, CancelExpiry, locals, tasks
<1>3. WaitInv'
  BY ActorFacts DEF Inv, TypeOK, ClaimInv, WaitInv, Finished, StopEnrollment, Return, Await,
      Continue, Forget, ArmUnstarted, CancelExpiry, locals, tasks, timers
<1>4. TaskInv'
  BY ActorFacts DEF Inv, TypeOK, Opt, ClaimInv, TaskInv, StopEnrollment, Return, Await, Continue,
      Forget, ArmUnstarted, CancelExpiry, tasks, timers
<1>5. HoldInv'
  BY ActorFacts DEF Inv, TypeOK, CallInv, ClaimInv, HoldInv, Busy, StopEnrollment, Return, Await,
      Continue, Forget, ArmUnstarted, CancelExpiry, locals, claims, tasks, timers
<1>6. TimerInv'
  BY ActorFacts DEF Inv, TypeOK, ClaimInv, TimerInv, Busy, StopEnrollment, Stopper, Op, Continue,
      Forget, ArmUnstarted, CancelExpiry, claims, tasks, timers
<1>7. OwnerInv'
  BY ActorFacts DEF Inv, TypeOK, ClaimInv, OwnerInv, Chain, StopEnrollment, Op, Return, Await,
      Continue, Forget, ArmUnstarted, locals, claims
<1> QED BY <1>1, <1>2, <1>3, <1>4, <1>5, <1>6, <1>7 DEF ClaimInv

LEMMA EnrollmentStoppedKeeps ==
    ASSUME ~enrollment, Inv, ClaimInv, NEW a \in Actors, EnrollmentStopped(a)
    PROVE  ClaimInv'
<1>1. NoEnrollment'
  BY DEF ClaimInv, NoEnrollment, EnrollmentStopped
<1>2. LoopInv'
  BY DEF ClaimInv, NoEnrollment, LoopInv, EnrollmentStopped
<1>3. WaitInv'
  BY ActorFacts DEF Inv, TypeOK, ClaimInv, WaitInv, EnrollmentStopped, Finished, Retired, Return,
      Await, Continue, Forget, ArmUnstarted, timers
<1>4. TaskInv'
  BY ActorFacts DEF Inv, TypeOK, Opt, Exclusive, ClaimInv, TaskInv, EnrollmentStopped, Retired,
      Return, Await, Continue, Forget, ArmUnstarted, timers
<1>5. HoldInv'
  BY ActorFacts DEF Inv, TypeOK, MarkInv, ClaimInv, WaitInv, HoldInv, TimerInv, Busy,
      EnrollmentStopped, Dropped, Retired, Return, Await, Continue, Forget, ArmUnstarted, claims,
      timers
<1>6. TimerInv'
  BY ActorFacts DEF Inv, TypeOK, ClaimInv, TimerInv, Busy, EnrollmentStopped, Dropped, Stopper, Op,
      Continue, Forget, ArmUnstarted, claims, timers
<1>7. OwnerInv'
  BY DEF ClaimInv, NoEnrollment, OwnerInv, EnrollmentStopped
<1> QED BY <1>1, <1>2, <1>3, <1>4, <1>5, <1>6, <1>7 DEF ClaimInv

-----------------------------------------------------------------------------
LEMMA InitKeeps == Init => ClaimInv
BY ActorFacts DEF Init, ClaimInv, NoEnrollment, LoopInv, WaitInv, TaskInv, HoldInv, TimerInv, OwnerInv,
    Chain, Waiting, Finished, Busy, Op

LEMMA NextKeeps == ~enrollment /\ OfferInv /\ Inv /\ ClaimInv /\ [Next]_vars => ClaimInv'
<1> SUFFICES ASSUME ~enrollment, OfferInv, Inv, ClaimInv, [Next]_vars PROVE ClaimInv'
  OBVIOUS
<1>1. CASE Next
  <2> UNCHANGED enrollment
    BY <1>1 DEF Next
  <2>1. ASSUME NEW c \in Calls, NEW s \in Senders, NEW o \in Ops, Call(c, s, o) PROVE ClaimInv'
    BY <2>1, CallKeeps
  <2>2. ASSUME NEW c \in Calls, Method(c) PROVE ClaimInv'
    BY <2>2, OwnerAcceptedKeeps, OwnerRefusedKeeps, ClaimLockedKeeps, ClaimGrantedKeeps,
       ClaimRejectedKeeps, BeginRefusedKeeps, VerifyBeginsKeeps, EnrollBeginsKeeps,
       DeleteBeginsKeeps, ProjectedKeeps, StartFailsKeeps, VerifyStartsKeeps, EnrollStartsKeeps,
       DeleteStartsKeeps, DeleteEndsKeeps, FinallyKeeps DEF Method
  <2>3. ASSUME NEW c \in Calls, Timers(c) \/ Runs(c) \/ SleepCancels(c) PROVE ClaimInv'
    BY <2>3, ExpireUnstartedKeeps, ExpireVerifiedKeeps, ExpireEnrolledKeeps, VerdictArrivesKeeps,
       VerifyEndsKeeps, VerifyDrainedKeeps, EnrollEndsKeeps, SleepCancelsKeeps DEF Timers, Runs
  <2>4. ASSUME NEW a \in Actors, Stopping(a) PROVE ClaimInv'
    BY <2>4, StopVerificationKeeps, VerificationStoppedKeeps, StopEnrollmentKeeps, CancelSentKeeps,
       EnrollmentStoppedKeeps, WaitDeletionKeeps, DeletionWaitedKeeps, ClearKeeps DEF Stopping
  <2>5. ASSUME NEW s \in Senders, DepartureLocked(s) \/ Die(s) \/ Disconnect(s) PROVE ClaimInv'
    BY <2>5, DepartureLockedKeeps, DieKeeps, DisconnectKeeps
  <2> QED BY <1>1, <2>1, <2>2, <2>3, <2>4, <2>5 DEF Next, Step, Offered
<1>2. CASE UNCHANGED vars
  BY <1>2 DEF vars, ClaimInv, NoEnrollment, LoopInv, WaitInv, TaskInv, HoldInv, TimerInv, OwnerInv,
     Waiting, Finished, Busy, Op
<1> QED BY <1>1, <1>2

\* What a call asks for does not change while it is served.
LEMMA OpsKept ==
    ASSUME TypeOK, NEW c \in Calls, Next
    PROVE  op'[c] \in {op[c], None} \cup Offered
<1>1. ASSUME NEW d \in Calls, NEW s \in Senders, NEW o \in Offered, Call(d, s, o)
      PROVE  op'[c] \in {op[c]} \cup Offered
  BY <1>1 DEF TypeOK, Call
<1>2. ASSUME NEW d \in Calls, Method(d) PROVE op'[c] \in {op[c], None}
  BY <1>2 DEF TypeOK, Method, OwnerAccepted, OwnerRefused, ClaimLocked, ClaimGranted, ClaimRejected,
     BeginRefused, VerifyBegins, EnrollBegins, DeleteBegins, Projected, StartFails, VerifyStarts,
     EnrollStarts, DeleteStarts, DeleteEnds, Finally, Return, Forget, locals
<1>3. ASSUME NEW d \in Calls, Timers(d) \/ Runs(d) \/ SleepCancels(d) PROVE op'[c] = op[c]
  BY <1>3 DEF Timers, Runs, ExpireUnstarted, ExpireVerified, ExpireEnrolled, VerdictArrives,
     VerifyEnds, VerifyDrained, EnrollEnds, SleepCancels, locals
<1>4. ASSUME NEW a \in Actors, Stopping(a) PROVE op'[c] \in {op[c], None}
  BY <1>4 DEF TypeOK, Stopping, StopVerification, VerificationStopped, StopEnrollment, CancelSent,
     EnrollmentStopped, WaitDeletion, DeletionWaited, Clear, Return, Forget, locals
<1>5. ASSUME NEW s \in Senders, DepartureLocked(s) \/ Die(s) \/ Disconnect(s) PROVE op'[c] = op[c]
  BY <1>5 DEF DepartureLocked, Die, Disconnect, locals
<1> QED BY <1>1, <1>2, <1>3, <1>4, <1>5 DEF Next, Step

\* Without an enrollment client, EnrollStart and EnrollStop are never served.
LEMMA OfferInvariance == Spec => []OfferInv
<1>1. Init => OfferInv
  BY OpAssumption DEF Init, OfferInv, Ops, EnrollOps
<1>2. TypeOK /\ OfferInv /\ [Next]_vars => OfferInv'
  <2> SUFFICES ASSUME TypeOK, OfferInv, [Next]_vars, ~enrollment', NEW c \in Calls
               PROVE  op'[c] \notin EnrollOps
    BY DEF OfferInv
  <2>1. ~enrollment
    BY DEF Next, vars
  <2>2. None \notin EnrollOps
    BY OpAssumption DEF Ops, EnrollOps
  <2>3. CASE Next
    BY <2>1, <2>2, <2>3, OpsKept DEF OfferInv, Offered
  <2>4. CASE UNCHANGED vars
    BY <2>1, <2>4 DEF OfferInv, vars
  <2> QED BY <2>3, <2>4
<1>3. Inv => TypeOK
  BY DEF Inv
<1> QED BY <1>1, <1>2, <1>3, Invariance, PTL DEF Spec

\* Without native enrollment, what the claim, its timer and the tasks under it have to do with
\* each other holds between any two steps of the event loop.
THEOREM ClaimInvariance == Spec => [](~enrollment => ClaimInv)
<1>1. Init => ClaimInv
  BY InitKeeps
<1>2. OfferInv /\ Inv /\ (~enrollment => ClaimInv) /\ [Next]_vars => (~enrollment => ClaimInv)'
  <2>1. [Next]_vars => enrollment' = enrollment
    BY DEF Next, vars
  <2> QED BY <2>1, NextKeeps
<1> QED BY <1>1, <1>2, Invariance, OfferInvariance, PTL DEF Spec

\* Without native enrollment, no release, expiry, departure or reaping takes the claim away from
\* under a running operation, and the claim of a client that has gone silent has a timer that
\* ends it, unless the machine was suspended during its verification.
THEOREM ClaimAlwaysSound == Spec => []ClaimSound
<1>1. Inv /\ (~enrollment => ClaimInv) => ClaimSound
  <2>0. Inv => OneOperation
    BY ActorFacts DEF Inv, MarkInv, Exclusive, OneOperation, Active
  <2> SUFFICES ASSUME Inv, ClaimInv PROVE RunsUnderItsClaim /\ NoImmortalClaim
    BY <2>0 DEF ClaimSound, Inv
  <2>1. RunsUnderItsClaim
    BY DEF ClaimInv, NoEnrollment, HoldInv, RunsUnderItsClaim
  <2>2. ASSUME claim # None, Quiet, ~Suspended
        PROVE  /\ expiry # None
               /\ \/ timer[expiry] = "unstarted" /\ ~Busy
                  \/ timer[expiry] = "verified" /\ verifyTask = expiry
    <3>1. deleteTask = None /\ enrollTask = None
      BY <2>2, ActorFacts DEF ClaimInv, NoEnrollment, TaskInv, Quiet, Inv, TypeOK, Opt
    <3>2. verifyTask # None => expiry = verifyTask
      BY <2>2, ActorFacts DEF ClaimInv, TaskInv, Quiet, Active, Suspended, Inv, TypeOK, Opt
    <3>3. \A a \in Actors : pc[a] \notin {"waitV", "stopE", "stopD", "waitD", "clear"}
      BY <2>2 DEF Quiet
    <3>4. expiry # None
      BY <2>2, <3>1, <3>2, <3>3 DEF ClaimInv, TimerInv, Busy
    <3> QED BY <3>4 DEF ClaimInv, TimerInv
  <2>3. NoImmortalClaim
    BY <2>2 DEF NoImmortalClaim
  <2> QED BY <2>1, <2>3
<1>2. Spec => [](~enrollment => ClaimInv)
  BY ClaimInvariance
<1> QED BY <1>1, <1>2, Invariance, PTL

-----------------------------------------------------------------------------
(* What a step may do with a claim. *)

\* Without native enrollment, whoever clears a claim was asked to by its owner or found the
\* owner gone.
LEMMA ClearsOwnClaim ==
    ASSUME Inv, ClaimInv, NEW a \in Actors, Clear(a), claim # None
    PROVE  \/ owner \in dead \/ pc[owner] # "idle"
           \/ \E c \in Calls : pc[c] = "clear" /\ pc'[c] = "idle" /\ op[c] = "Release" /\ snd[c] = owner
<1>1. pc[a] = "clear" /\ Op(a) \in {"Release", "Claim", "Depart"}
  BY DEF Clear, ClaimInv, LoopInv, Chain
<1>2. CASE Op(a) = "Release"
  <2>1. a \in Calls /\ op[a] = "Release" /\ owner = snd[a]
    BY <1>1, <1>2, ActorFacts DEF ClaimInv, OwnerInv, Chain, Op
  <2>2. pc'[a] = "idle"
    BY <1>2 DEF Clear, Return, Await, Inv, TypeOK
  <2> QED BY <1>1, <2>1, <2>2
<1>3. CASE Op(a) = "Claim"
  BY <1>1, <1>3 DEF ClaimInv, OwnerInv, Chain
<1>4. CASE Op(a) = "Depart"
  BY <1>1, <1>4 DEF ClaimInv, OwnerInv, Chain
<1> QED BY <1>1, <1>2, <1>3, <1>4

\* Whatever is enabled, what clears a claim is a Release, or found the owner gone.
LEMMA ClearsLostClaim ==
    ASSUME Inv, LockInv, NEW a \in Actors, Clear(a), claim # None
    PROVE  \/ owner \in dead \/ pc[owner] # "idle"
           \/ \E c \in Calls : pc[c] = "clear" /\ pc'[c] = "idle" /\ op[c] = "Release"
<1>1. pc[a] = "clear" /\ Op(a) \in {"Release", "Claim", "Depart"}
  BY DEF Clear, LockInv, Ending
<1>2. CASE Op(a) = "Release"
  <2>1. a \in Calls /\ op[a] = "Release"
    BY <1>2, ActorFacts DEF Op
  <2>2. pc'[a] = "idle"
    BY <1>2 DEF Clear, Return, Await, Inv, TypeOK
  <2> QED BY <1>1, <2>1, <2>2
<1>3. CASE Op(a) = "Claim"
  BY <1>1, <1>3 DEF LockInv, Holding, Chain
<1>4. CASE Op(a) = "Depart"
  BY <1>1, <1>4 DEF LockInv, Holding, Chain
<1> QED BY <1>1, <1>2, <1>3, <1>4

\* A timer that changes the claim has fired.
LEMMA TimerFires ==
    ASSUME Inv, NEW c \in Calls, Timers(c)
    PROVE  timer[c] # "none" /\ timer'[c] = "none"
BY DEF Timers, ExpireUnstarted, ExpireVerified, ExpireEnrolled, TimerGone, Inv, TypeOK

\* Without native enrollment, an expiry ends the claim its timer was armed for.
LEMMA ExpiresOwnClaim ==
    ASSUME Inv, ClaimInv, NEW c \in Calls, Timers(c)
    PROVE  under[c] = claim
BY TimerFires, ActorFacts DEF ClaimInv, TimerInv

\* A claim that exists ends in Clear or by a timer: nobody is granted one meanwhile.
LEMMA ClaimEnds ==
    ASSUME LockInv, Next, claim # None, claim' # claim
    PROVE  (\E a \in Actors : Clear(a)) \/ (\E c \in Calls : Timers(c))
<1>1. ASSUME NEW c \in Calls, Method(c) PROVE FALSE
  <2>1. ~ClaimGranted(c)
    BY DEF ClaimGranted, LockInv
  <2> QED BY <1>1, <2>1 DEF Method, OwnerAccepted, OwnerRefused, ClaimLocked, ClaimRejected,
        BeginRefused, VerifyBegins, EnrollBegins, DeleteBegins, Projected, StartFails,
        VerifyStarts, EnrollStarts, DeleteStarts, DeleteEnds, Finally, claims
<1>2. ASSUME NEW c \in Calls, Runs(c) \/ SleepCancels(c) PROVE FALSE
  BY <1>2 DEF Runs, VerdictArrives, VerifyEnds, VerifyDrained, EnrollEnds, SleepCancels, claims
<1>3. ASSUME NEW a \in Actors, Stopping(a) PROVE Clear(a)
  BY <1>3 DEF Stopping, StopVerification, VerificationStopped, StopEnrollment, CancelSent,
     EnrollmentStopped, WaitDeletion, DeletionWaited, claims
<1>4. ASSUME NEW s \in Senders, DepartureLocked(s) \/ Die(s) \/ Disconnect(s) PROVE FALSE
  BY <1>4 DEF DepartureLocked, Die, Disconnect, claims
<1>5. ASSUME NEW c \in Calls, NEW s \in Senders, NEW o \in Ops, Call(c, s, o) PROVE FALSE
  BY <1>5 DEF Call, claims
<1> QED BY <1>1, <1>2, <1>3, <1>4, <1>5 DEF Next, Step, Offered

\* Every step respects the claim.  Whatever is enabled, nobody but a Release or a timer takes it
\* from a live owner.  Without native enrollment the Release is the owner's and the timer was
\* armed for this claim, and the terminal status of a verification goes to the claim that
\* started it.
THEOREM ClaimAlwaysRespected == Spec => ClaimRespected
<1>1. ASSUME Inv, ~enrollment => ClaimInv, LockInv, Next
      PROVE  LiveOwnerKeepsClaim /\ (~enrollment => StatusToItsClaim)
  <2>1. ~enrollment => StatusToItsClaim
    BY <1>1 DEF ClaimInv, HoldInv, StatusToItsClaim
  <2>2. ASSUME enrollment PROVE LiveOwnerKeepsClaim
    BY <1>1, <2>2, ClaimEnds, ClearsLostClaim, TimerFires DEF LiveOwnerKeepsClaim
  <2>3. ASSUME ~enrollment PROVE LiveOwnerKeepsClaim
    BY <1>1, <2>3, ClaimEnds, ClearsOwnClaim, TimerFires, ExpiresOwnClaim DEF LiveOwnerKeepsClaim
  <2> QED BY <2>1, <2>2, <2>3
<1>2. Spec => [](~enrollment => ClaimInv)
  BY ClaimInvariance
<1>3. Inv /\ (~enrollment => ClaimInv) /\ LockInv /\ [Next]_vars
        => [LiveOwnerKeepsClaim /\ (~enrollment => StatusToItsClaim)]_vars
  BY <1>1
<1> QED BY <1>2, <1>3, Invariance, LockInvariance, PTL DEF Spec, ClaimRespected

-----------------------------------------------------------------------------
(* The workers: WorkerSession. *)

\* A worker that has sent no command.
Before == {"none", "receive", "admit", "queue", "authorize"}

\* What the facade has done is what the worker can have seen.
PhaseInv == \A o \in Requests :
    /\ client[o] \in {"idle", "check", "launch"} => worker[o] = "none"
    /\ client[o] \in {"recheck", "send"} => worker[o] \in {"receive", "failing", "ended"}
    /\ client[o] \in {"idle", "check", "launch", "recheck", "send"} => ~started[o]

\* What the last check has read has held since it began; and what lasts and was read
\* after the session, held when the session was read.
CheckOf(o) ==
    /\ round[o] = "dispatch" =>
        /\ Facts \ lost[o] \subseteq since[o]
        /\ \A i \in 1 .. Len(DispatchReads) : i < next[o] => DispatchReads[i] \in since[o]
        /\ next[o] > 2 => Lasting \ lost[o] \subseteq witness[o]
        /\ \A i \in 3 .. Len(DispatchReads) :
             i < next[o] /\ DispatchReads[i] \in Lasting => DispatchReads[i] \in witness[o]
    /\ worker[o] \in {"capture", "delete"} => Through(o, "dispatch")

CheckInv == \A o \in Requests : CheckOf(o)

\* A worker does what its request asked for.
KindInv == \A o \in Requests :
    /\ kind[o] = NoOne <=> client[o] = "idle"
    /\ worker[o] \in {"capture", "recover", "saved", "publish", "match", "rollback"} => kind[o] = "enroll"
    /\ worker[o] = "delete" => kind[o] = "delete"
    /\ worker[o] \in {"recover", "publish", "match", "rollback"} => native

\* It is right to tell the caller s.
Settled(o, s) ==
    /\ s = "completed" => finger[o] \in Complete(o)
    /\ s \in {"failed", "data-full"} => finger[o] = "none"

\* What a worker will report, has sent, or has had delivered, is so; nobody touches the
\* finger after that.
FingerOf(o) ==
    /\ client[o] = "idle" => finger[o] = "none" /\ told[o] = NoOne
    /\ worker[o] \in Before \cup {"capture"} /\ kind[o] = "enroll" => finger[o] = "none"
    /\ worker[o] \in {"saved", "publish"} => finger[o] = "saved"
    /\ worker[o] \in {"match", "rollback"} => finger[o] \in {"saved", "verified"}
    /\ worker[o] \in {"report", "failing"} => Settled(o, result[o])
    /\ mail[o] # NoOne => worker[o] = "ended" /\ Settled(o, mail[o])
    /\ told[o] \in {"completed", "failed", "data-full"} => worker[o] = "ended" /\ Settled(o, told[o])

FingerInv == \A o \in Requests : FingerOf(o)

\* The cancel packet was sent, or is about to be, or the worker is gone.
Sent(o) == \/ cancel[o] \/ heard[o] \/ worker[o] = "ended"
           \/ \E w \in Waiters : stop[w] = "send" /\ target[w] = o

\* The flags of the one client belong to the enrollment that runs.
StopOf(o) ==
    /\ client[o] \in {"recheck", "send", "sent", "cancel", "receive"} => up[o]
    /\ asked[o] => kind[o] = "enroll" /\ client[o] \in Calling
    /\ kind[o] = "enroll" /\ client[o] \in Calling \ {"cancel", "receive"} => ~requestSent /\ ~cancelSent
    /\ kind[o] = "enroll" /\ client[o] \in {"cancel", "receive"} => requestSent
    /\ kind[o] = "enroll" /\ client[o] = "cancel" => cancelSent
    /\ kind[o] = "enroll" /\ client[o] = "receive" /\ (asked[o] \/ cancelSent) => Sent(o)

StopInv == /\ OwnedUntilDone
           /\ task # NoOne => kind[task] = "enroll"
           /\ \A w \in Waiters : stop[w] # "idle" => target[w] \in Requests
           /\ \A o \in Requests : StopOf(o)

SessionInv == SessionTypeOK /\ PhaseInv /\ CheckInv /\ KindInv /\ FingerInv /\ StopInv

-----------------------------------------------------------------------------
(* What the last check reads. *)

\* A sequence of reads with one more read.
LEMMA Extended ==
  ASSUME NEW s \in Seq(Facts), NEW x \in Facts
  PROVE  /\ s \o <<x>> \in Seq(Facts) /\ Len(s \o <<x>>) = Len(s) + 1
         /\ (s \o <<x>>)[Len(s) + 1] = x /\ \A i \in 1 .. Len(s) : (s \o <<x>>)[i] = s[i]
OBVIOUS

\* AuthorizationSession.revalidate: the process, its session, the process, the account.
LEMMA Revalidation ==
  /\ Revalidate \in Seq(Facts) /\ Len(Revalidate) = 4
  /\ Revalidate[1] = "caller" /\ Revalidate[2] = "session" /\ Revalidate[3] = "caller"
  /\ Revalidate[4] = "account"
<1>0. <<"caller">> \in Seq(Facts) /\ Len(<<"caller">>) = 1 /\ <<"caller">>[1] = "caller"
  BY DEF Facts, Lasting
<1>9. "caller" \in Facts /\ "session" \in Facts /\ "account" \in Facts
  BY DEF Facts, Lasting
<1> SUFFICES ASSUME NEW two, two = <<"caller">> \o <<"session">>,
                    NEW three, three = two \o <<"caller">>,
                    NEW four, four = three \o <<"account">>
             PROVE  /\ four \in Seq(Facts) /\ Len(four) = 4 /\ four[1] = "caller"
                    /\ four[2] = "session" /\ four[3] = "caller" /\ four[4] = "account"
  BY DEF Revalidate, CollectSession, Peer, Process, Login, Account
<1>2. two \in Seq(Facts) /\ Len(two) = 2 /\ two[1] = "caller" /\ two[2] = "session"
  BY <1>0, <1>9, Extended
<1>3. three \in Seq(Facts) /\ Len(three) = 3 /\ three[1] = "caller" /\ three[2] = "session" /\ three[3] = "caller"
  <2>1. three \in Seq(Facts) /\ Len(three) = Len(two) + 1 /\ three[Len(two) + 1] = "caller"
        /\ \A i \in 1 .. Len(two) : three[i] = two[i]
    BY <1>2, <1>9, Extended, ZenonT(60)
  <2> QED BY <1>2, <2>1
<1>4. four \in Seq(Facts) /\ Len(four) = 4 /\ four[1] = "caller" /\ four[2] = "session" /\ four[3] = "caller" /\ four[4] = "account"
  <2>1. four \in Seq(Facts) /\ Len(four) = Len(three) + 1 /\ four[Len(three) + 1] = "account"
        /\ \A i \in 1 .. Len(three) : four[i] = three[i]
    BY <1>3, <1>9, Extended, ZenonT(60)
  <2> QED BY <1>3, <2>1
<1> QED BY <1>4

\* A worker whose command is out.
Dispatched == {"capture", "delete"}

\* No worker starts its command.
KeepsOut(before, after) == \A p \in Requests : after[p] \in Dispatched => before[p] \in Dispatched

\* A check that looks at the process on both sides of its session, and at the session once.
Sandwich(s) == /\ s \in Seq(Facts) /\ Len(s) >= 3
               /\ s[1] = "caller" /\ s[2] = "session" /\ s[3] = "caller"
               /\ \A i \in 1 .. Len(s) : i # 2 => s[i] # "session"

\* It stays one when something other than the session is read after it.
LEMMA SandwichExtended ==
  ASSUME NEW s, Sandwich(s), NEW x \in Facts \ {"session"} PROVE Sandwich(s \o <<x>>)
<1>1. s \in Seq(Facts) /\ Len(s) \in Nat
  BY DEF Sandwich
<1>2. /\ s \o <<x>> \in Seq(Facts) /\ Len(s \o <<x>>) = Len(s) + 1
      /\ (s \o <<x>>)[Len(s) + 1] = x /\ \A i \in 1 .. Len(s) : (s \o <<x>>)[i] = s[i]
  BY <1>1, Extended, Zenon
<1> DEFINE t == s \o <<x>>
<1> HIDE DEF t
<1>3. t \in Seq(Facts) /\ Len(t) = Len(s) + 1 /\ t[Len(s) + 1] = x /\ \A i \in 1 .. Len(s) : t[i] = s[i]
  BY <1>2, Zenon DEF t
<1>4. Sandwich(t)
  BY <1>1, <1>3 DEF Sandwich
<1> QED BY <1>4, Zenon DEF t

\* What dispatch_allowed reads, natively and in the broker.
LEMMA DispatchOrder == Sandwich(DispatchReads) /\ Reads("dispatch") = DispatchReads
<1>1. Sandwich(Revalidate)
  BY Revalidation DEF Sandwich
<1>2. {"mapping", "keybag", "device", "grant"} \subseteq Facts \ {"session"}
  BY DEF Facts, Lasting
<1>3. Sandwich(Revalidate \o <<"mapping">>)
  BY <1>1, <1>2, SandwichExtended, Zenon
<1>4. Sandwich(NativeDispatch)
  <2>1. Sandwich((Revalidate \o <<"mapping">>) \o <<"grant">>)
    BY <1>3, <1>2, SandwichExtended, Zenon
  <2> QED BY <2>1, Zenon DEF NativeDispatch, Mapping, Grant
<1>5. Sandwich(BrokerDispatch)
  <2>1. Sandwich((Revalidate \o <<"mapping">>) \o <<"keybag">>)
    BY <1>3, <1>2, SandwichExtended, Zenon
  <2>2. Sandwich(((Revalidate \o <<"mapping">>) \o <<"keybag">>) \o <<"device">>)
    BY <2>1, <1>2, SandwichExtended, Zenon
  <2>3. Sandwich((((Revalidate \o <<"mapping">>) \o <<"keybag">>) \o <<"device">>) \o <<"grant">>)
    BY <2>2, <1>2, SandwichExtended, Zenon
  <2> QED BY <2>3, Zenon DEF BrokerDispatch, Mapping, Keybag, Device, Grant
<1>6. Reads("dispatch") = DispatchReads
  BY DEF Reads
<1> QED BY <1>4, <1>5, <1>6 DEF DispatchReads

\* The order of the reads is fixed by the mode, which never changes.
LEMMA SameReads == UNCHANGED native => DispatchReads' = DispatchReads /\ Reads("dispatch")' = Reads("dispatch")
  BY DEF DispatchReads, Reads

\* Steps that leave the authority alone and send no command.
LEMMA CheckKept ==
  ASSUME CheckInv, SessionTypeOK, UNCHANGED <<native, lost, authority>>, KeepsOut(worker, worker')
  PROVE  CheckInv'
<1>1. DispatchReads' = DispatchReads /\ Reads("dispatch")' = Reads("dispatch")
  BY SameReads
<1> QED BY <1>1 DEF CheckInv, CheckOf, KeepsOut, Dispatched, authority, Through

\* Steps by which a request enters another round than the last check.
LEMMA CheckLeft ==
  ASSUME CheckInv, SessionTypeOK, NEW o \in Requests, NEW r, r # "dispatch", UNCHANGED <<native, lost>>,
         EnterRound(o, r), KeepsOut(worker, worker'), worker'[o] \notin Dispatched
  PROVE  CheckInv'
<1>1. DispatchReads' = DispatchReads /\ Reads("dispatch")' = Reads("dispatch")
  BY SameReads
<1>2. ASSUME NEW p \in Requests, p # o
      PROVE  round'[p] = round[p] /\ next'[p] = next[p] /\ since'[p] = since[p] /\ witness'[p] = witness[p]
  BY <1>2 DEF EnterRound, SessionTypeOK, AuthorityTypeOK
<1>3. round'[o] # "dispatch"
  BY DEF EnterRound, SessionTypeOK, AuthorityTypeOK
<1> QED BY <1>1, <1>2, <1>3 DEF CheckInv, CheckOf, KeepsOut, Dispatched, Through

-----------------------------------------------------------------------------
(* One lemma per part of the invariant, one step per action. *)

\* A round begins with its first read.
LEMMA EnterRoundTypes ==
  ASSUME AuthorityTypeOK, NEW o \in Requests, NEW r \in Rounds, EnterRound(o, r), UNCHANGED <<native, world>>
  PROVE  AuthorityTypeOK'
<1>1. (IF r = "dispatch" THEN Facts \ lost[o] ELSE {}) \in SUBSET Facts
  OBVIOUS
<1> QED BY <1>1 DEF EnterRound, AuthorityTypeOK, world

\* Every step keeps the types.
LEMMA NextTypes == SessionInv /\ [SessionNext]_sessionVars => SessionTypeOK'
<1> SUFFICES ASSUME SessionInv, [SessionNext]_sessionVars PROVE SessionTypeOK'
  OBVIOUS
<1> USE DEF Client, Worker, Result, Finger, Unlock, EnterRound, world, authority, facade, stops, wire, process, untouched, SessionInv, SessionTypeOK, AuthorityTypeOK, Calling, Working, Statuses, Fingers, Rounds, Facts, Lasting
<1>1. ASSUME NEW o \in Requests, StartEnroll(o) PROVE SessionTypeOK'
  <2>1. AuthorityTypeOK'
    BY <1>1, EnterRoundTypes DEF StartEnroll, Starts
  <2> QED BY <1>1, <2>1 DEF StartEnroll, Starts
<1>2. ASSUME NEW o \in Requests, StartDelete(o) PROVE SessionTypeOK'
  BY <1>2 DEF StartDelete, Starts
<1>3. ASSUME NEW o \in Requests, ClaimHolds(o) PROVE SessionTypeOK'
  BY <1>3 DEF ClaimHolds
<1>4. ASSUME NEW o \in Requests, LaunchEnroll(o) PROVE SessionTypeOK'
  BY <1>4 DEF LaunchEnroll, Launches
<1>5. ASSUME NEW o \in Requests, LaunchDelete(o) PROVE SessionTypeOK'
  BY <1>5 DEF LaunchDelete, Launches
<1>6. ASSUME NEW o \in Requests, SendStart(o) PROVE SessionTypeOK'
  BY <1>6 DEF SendStart
<1>7. ASSUME NEW o \in Requests, StartSent(o) PROVE SessionTypeOK'
  <2>1. CASE asked[o] /\ ~cancelSent
    BY <1>7, <2>1 DEF StartSent
  <2>2. CASE ~(asked[o] /\ ~cancelSent)
    BY <1>7, <2>2 DEF StartSent
  <2> QED BY <2>1, <2>2
<1>8. ASSUME NEW o \in Requests, DeleteSent(o) PROVE SessionTypeOK'
  BY <1>8 DEF DeleteSent
<1>9. ASSUME NEW o \in Requests, SendCancel(o) PROVE SessionTypeOK'
  BY <1>9 DEF SendCancel, Post
<1>10. ASSUME NEW o \in Requests, ReceiveUpdate(o) PROVE SessionTypeOK'
  BY <1>10 DEF ReceiveUpdate, Receives, ClientEnds
<1>11. ASSUME NEW o \in Requests, ReceiveCompletion(o) PROVE SessionTypeOK'
  BY <1>11 DEF ReceiveCompletion, Receives, ClientEnds
<1>12. ASSUME NEW o \in Requests, ClientFails(o) PROVE SessionTypeOK'
  <2>1. AuthorityTypeOK'
    <3>1. CASE client[o] \in {"check", "recheck"}
      BY <1>12, <3>1, EnterRoundTypes DEF ClientFails, ClientEnds
    <3>2. CASE client[o] \notin {"check", "recheck"}
      BY <1>12, <3>2 DEF ClientFails, ClientEnds
    <3> QED BY <3>1, <3>2
  <2>2. requestSent' \in BOOLEAN
    BY <1>12 DEF ClientFails, ClientEnds
  <2> QED BY <1>12, <2>1, <2>2 DEF ClientFails, ClientEnds
<1>13. ASSUME NEW o \in Requests, Read(o) PROVE SessionTypeOK'
  BY <1>13 DEF Read, ReadHolds
<1>14. ASSUME NEW o \in Requests, WorldChanges(o) PROVE SessionTypeOK'
  <2>1. PICK f \in Facts : Loses(o, f, holder = o) \/ Regains(o, f)
    BY <1>14 DEF WorldChanges
  <2>2. AuthorityTypeOK'
    <3>1. CASE Loses(o, f, holder = o)
      <4>1. UNCHANGED <<native, authority>> /\ lost' = [lost EXCEPT ![o] = @ \cup {f}] /\ changes' \in 0 .. MaxChanges
        BY <1>14, <3>1, ChangesAssumption DEF Loses, WorldChanges
      <4> QED BY <2>1, <4>1
    <3>2. CASE Regains(o, f)
      <4>1. /\ UNCHANGED <<native, round, next, witness>> /\ lost' = [lost EXCEPT ![o] = @ \ {f}] 
            /\ changes' \in 0 .. MaxChanges
            /\ since' = [since EXCEPT ![o] = IF round[o] = "dispatch" THEN @ \cup {f} ELSE @]
        BY <1>14, <3>2, ChangesAssumption DEF Regains, WorldChanges
      <4>2. CASE round[o] = "dispatch"
        BY <2>1, <4>1, <4>2
      <4>3. CASE round[o] # "dispatch"
        BY <2>1, <4>1, <4>3
      <4> QED BY <4>2, <4>3
    <3> QED BY <2>1, <3>1, <3>2
  <2> QED BY <1>14, <2>2 DEF WorldChanges
<1>15. ASSUME NEW o \in Requests, ReceiveStart(o) PROVE SessionTypeOK'
  BY <1>15 DEF ReceiveStart, TakesRequest
<1>16. ASSUME NEW o \in Requests, ReceiveRequest(o) PROVE SessionTypeOK'
  BY <1>16 DEF ReceiveRequest, TakesRequest
<1>17. ASSUME NEW o \in Requests, Admitted(o) PROVE SessionTypeOK'
  BY <1>17 DEF Admitted
<1>18. ASSUME NEW o \in Requests, Hear(o) PROVE SessionTypeOK'
  BY <1>18 DEF Hear
<1>19. ASSUME NEW o \in Requests, TakeLock(o) PROVE SessionTypeOK'
  BY <1>19 DEF TakeLock
<1>20. ASSUME NEW o \in Requests, NextRound(o) PROVE SessionTypeOK'
  <2>1. AuthorityTypeOK'
    <3>1. \E r \in Rounds : EnterRound(o, r)
      BY <1>20 DEF NextRound
    <3>2. UNCHANGED <<native, world>>
      BY <1>20 DEF NextRound
    <3> QED BY <3>1, <3>2, EnterRoundTypes
  <2> QED BY <1>20, <2>1 DEF NextRound
<1>21. ASSUME NEW o \in Requests, CapacityExhausted(o) PROVE SessionTypeOK'
  BY <1>21 DEF CapacityExhausted
<1>22. ASSUME NEW o \in Requests, DispatchEnroll(o) PROVE SessionTypeOK'
  BY <1>22 DEF DispatchEnroll
<1>23. ASSUME NEW o \in Requests, DispatchDelete(o) PROVE SessionTypeOK'
  BY <1>23 DEF DispatchDelete
<1>24. ASSUME NEW o \in Requests, WorkerRaises(o) PROVE SessionTypeOK'
  BY <1>24 DEF WorkerRaises, Underway
<1>25. ASSUME NEW o \in Requests, CaptureFull(o) PROVE SessionTypeOK'
  BY <1>25 DEF CaptureFull
<1>26. ASSUME NEW o \in Requests, CaptureEnds(o) PROVE SessionTypeOK'
  <2>1. "saved" \in Fingers /\ "none" \in Fingers /\ {"failed", "unknown"} \subseteq Statuses
    OBVIOUS
  <2>2. finger' \in [Requests -> Fingers] /\ result' \in [Requests -> Statuses \cup {NoOne}]
    BY <1>26, <2>1 DEF CaptureEnds
  <2>3. worker' \in [Requests -> Working \cup {"none", "ended"}]
    BY <1>26 DEF CaptureEnds
  <2> QED BY <1>26, <2>2, <2>3 DEF CaptureEnds
<1>27. ASSUME NEW o \in Requests, CaptureRaises(o) PROVE SessionTypeOK'
  BY <1>27 DEF CaptureRaises, Underway
<1>28. ASSUME NEW o \in Requests, Recovered(o) PROVE SessionTypeOK'
  BY <1>28 DEF Recovered
<1>29. ASSUME NEW o \in Requests, Settle(o) PROVE SessionTypeOK'
  BY <1>29 DEF Settle
<1>30. ASSUME NEW o \in Requests, Published(o) PROVE SessionTypeOK'
  BY <1>30 DEF Published
<1>31. ASSUME NEW o \in Requests, Matched(o) PROVE SessionTypeOK'
  BY <1>31 DEF Matched
<1>32. ASSUME NEW o \in Requests, MatchAccepted(o) PROVE SessionTypeOK'
  BY <1>32 DEF MatchAccepted
<1>33. ASSUME NEW o \in Requests, MatchFails(o) PROVE SessionTypeOK'
  BY <1>33 DEF MatchFails
<1>34. ASSUME NEW o \in Requests, RolledBack(o) PROVE SessionTypeOK'
  BY <1>34 DEF RolledBack
<1>35. ASSUME NEW o \in Requests, Deleted(o) PROVE SessionTypeOK'
  BY <1>35 DEF Deleted
<1>36. ASSUME NEW o \in Requests, DeleteRaises(o) PROVE SessionTypeOK'
  BY <1>36 DEF DeleteRaises, Underway
<1>37. ASSUME NEW o \in Requests, Report(o) PROVE SessionTypeOK'
  BY <1>37 DEF Report, WorkerEnds
<1>38. ASSUME NEW o \in Requests, WorkerDies(o) PROVE SessionTypeOK'
  BY <1>38 DEF WorkerDies, WorkerEnds, Underway
<1>39. ASSUME NEW w \in Waiters, Stop(w) PROVE SessionTypeOK'
  BY <1>39 DEF Stop
<1>40. ASSUME NEW w \in Waiters, StopSends(w) PROVE SessionTypeOK'
  BY <1>40 DEF StopSends, Post
<1>41. ASSUME NEW w \in Waiters, StopReturns(w) PROVE SessionTypeOK'
  <2>1. task' \in Requests \cup {NoOne} /\ requestSent' \in BOOLEAN /\ cancelSent' \in BOOLEAN
    <3>1. CASE task = target[w]
      BY <1>41, <3>1 DEF StopReturns
    <3>2. CASE task # target[w]
      BY <1>41, <3>2 DEF StopReturns
    <3> QED BY <3>1, <3>2
  <2>2. stop' \in [Waiters -> {"idle", "send", "wait"}] /\ target' \in [Waiters -> Requests \cup {NoOne}]
    BY <1>41 DEF StopReturns
  <2> QED BY <1>41, <2>1, <2>2 DEF StopReturns
<1>42. ASSUME NEW w \in Waiters, StopAbandoned(w) PROVE SessionTypeOK'
  BY <1>42 DEF StopAbandoned
<1>43. ASSUME FacadeDies PROVE SessionTypeOK'
  BY <1>43 DEF FacadeDies
<1>44. ASSUME UNCHANGED sessionVars PROVE SessionTypeOK'
  BY <1>44 DEF sessionVars
<1> QED BY <1>1, <1>2, <1>3, <1>4, <1>5, <1>6, <1>7, <1>8, <1>9, <1>10, <1>11, <1>12, <1>13, <1>14, <1>15, <1>16, <1>17, <1>18, <1>19, <1>20, <1>21, <1>22, <1>23, <1>24, <1>25, <1>26, <1>27, <1>28, <1>29, <1>30, <1>31, <1>32, <1>33, <1>34, <1>35, <1>36, <1>37, <1>38, <1>39, <1>40, <1>41, <1>42, <1>43, <1>44 DEF SessionNext, ClientSteps, Works

\* The phases of the facade and of the worker agree.
LEMMA NextPhase == SessionInv /\ [SessionNext]_sessionVars => PhaseInv'
<1> SUFFICES ASSUME SessionInv, [SessionNext]_sessionVars PROVE PhaseInv'
  OBVIOUS
<1> USE DEF Client, Worker, Result, Finger, Unlock, EnterRound, world, authority, facade, stops, wire, process, untouched, SessionInv, PhaseInv, SessionTypeOK, AuthorityTypeOK, Calling
<1>1. ASSUME NEW o \in Requests, StartEnroll(o) PROVE PhaseInv'
  BY <1>1 DEF StartEnroll, Starts
<1>2. ASSUME NEW o \in Requests, StartDelete(o) PROVE PhaseInv'
  BY <1>2 DEF StartDelete, Starts
<1>3. ASSUME NEW o \in Requests, ClaimHolds(o) PROVE PhaseInv'
  BY <1>3 DEF ClaimHolds
<1>4. ASSUME NEW o \in Requests, LaunchEnroll(o) PROVE PhaseInv'
  BY <1>4 DEF LaunchEnroll, Launches
<1>5. ASSUME NEW o \in Requests, LaunchDelete(o) PROVE PhaseInv'
  BY <1>5 DEF LaunchDelete, Launches
<1>6. ASSUME NEW o \in Requests, SendStart(o) PROVE PhaseInv'
  BY <1>6 DEF SendStart
<1>7. ASSUME NEW o \in Requests, StartSent(o) PROVE PhaseInv'
  BY <1>7 DEF StartSent
<1>8. ASSUME NEW o \in Requests, DeleteSent(o) PROVE PhaseInv'
  BY <1>8 DEF DeleteSent
<1>9. ASSUME NEW o \in Requests, SendCancel(o) PROVE PhaseInv'
  BY <1>9 DEF SendCancel, Post
<1>10. ASSUME NEW o \in Requests, ReceiveUpdate(o) PROVE PhaseInv'
  BY <1>10 DEF ReceiveUpdate, Receives, ClientEnds
<1>11. ASSUME NEW o \in Requests, ReceiveCompletion(o) PROVE PhaseInv'
  BY <1>11 DEF ReceiveCompletion, Receives, ClientEnds
<1>12. ASSUME NEW o \in Requests, ClientFails(o) PROVE PhaseInv'
  BY <1>12 DEF ClientFails, ClientEnds
<1>13. ASSUME NEW o \in Requests, Read(o) PROVE PhaseInv'
  BY <1>13 DEF Read, ReadHolds
<1>14. ASSUME NEW o \in Requests, WorldChanges(o) PROVE PhaseInv'
  BY <1>14 DEF WorldChanges, Loses, Regains
<1>15. ASSUME NEW o \in Requests, ReceiveStart(o) PROVE PhaseInv'
  BY <1>15 DEF ReceiveStart, TakesRequest
<1>16. ASSUME NEW o \in Requests, ReceiveRequest(o) PROVE PhaseInv'
  BY <1>16 DEF ReceiveRequest, TakesRequest
<1>17. ASSUME NEW o \in Requests, Admitted(o) PROVE PhaseInv'
  BY <1>17 DEF Admitted
<1>18. ASSUME NEW o \in Requests, Hear(o) PROVE PhaseInv'
  BY <1>18 DEF Hear
<1>19. ASSUME NEW o \in Requests, TakeLock(o) PROVE PhaseInv'
  BY <1>19 DEF TakeLock
<1>20. ASSUME NEW o \in Requests, NextRound(o) PROVE PhaseInv'
  BY <1>20 DEF NextRound
<1>21. ASSUME NEW o \in Requests, CapacityExhausted(o) PROVE PhaseInv'
  BY <1>21 DEF CapacityExhausted
<1>22. ASSUME NEW o \in Requests, DispatchEnroll(o) PROVE PhaseInv'
  BY <1>22 DEF DispatchEnroll
<1>23. ASSUME NEW o \in Requests, DispatchDelete(o) PROVE PhaseInv'
  BY <1>23 DEF DispatchDelete
<1>24. ASSUME NEW o \in Requests, WorkerRaises(o) PROVE PhaseInv'
  BY <1>24 DEF WorkerRaises, Underway
<1>25. ASSUME NEW o \in Requests, CaptureFull(o) PROVE PhaseInv'
  BY <1>25 DEF CaptureFull
<1>26. ASSUME NEW o \in Requests, CaptureEnds(o) PROVE PhaseInv'
  BY <1>26 DEF CaptureEnds
<1>27. ASSUME NEW o \in Requests, CaptureRaises(o) PROVE PhaseInv'
  BY <1>27 DEF CaptureRaises, Underway
<1>28. ASSUME NEW o \in Requests, Recovered(o) PROVE PhaseInv'
  BY <1>28 DEF Recovered
<1>29. ASSUME NEW o \in Requests, Settle(o) PROVE PhaseInv'
  BY <1>29 DEF Settle
<1>30. ASSUME NEW o \in Requests, Published(o) PROVE PhaseInv'
  BY <1>30 DEF Published
<1>31. ASSUME NEW o \in Requests, Matched(o) PROVE PhaseInv'
  BY <1>31 DEF Matched
<1>32. ASSUME NEW o \in Requests, MatchAccepted(o) PROVE PhaseInv'
  BY <1>32 DEF MatchAccepted
<1>33. ASSUME NEW o \in Requests, MatchFails(o) PROVE PhaseInv'
  BY <1>33 DEF MatchFails
<1>34. ASSUME NEW o \in Requests, RolledBack(o) PROVE PhaseInv'
  BY <1>34 DEF RolledBack
<1>35. ASSUME NEW o \in Requests, Deleted(o) PROVE PhaseInv'
  BY <1>35 DEF Deleted
<1>36. ASSUME NEW o \in Requests, DeleteRaises(o) PROVE PhaseInv'
  BY <1>36 DEF DeleteRaises, Underway
<1>37. ASSUME NEW o \in Requests, Report(o) PROVE PhaseInv'
  BY <1>37 DEF Report, WorkerEnds
<1>38. ASSUME NEW o \in Requests, WorkerDies(o) PROVE PhaseInv'
  BY <1>38 DEF WorkerDies, WorkerEnds, Working
<1>39. ASSUME NEW w \in Waiters, Stop(w) PROVE PhaseInv'
  BY <1>39 DEF Stop
<1>40. ASSUME NEW w \in Waiters, StopSends(w) PROVE PhaseInv'
  BY <1>40 DEF StopSends, Post
<1>41. ASSUME NEW w \in Waiters, StopReturns(w) PROVE PhaseInv'
  BY <1>41 DEF StopReturns
<1>42. ASSUME NEW w \in Waiters, StopAbandoned(w) PROVE PhaseInv'
  BY <1>42 DEF StopAbandoned
<1>43. ASSUME FacadeDies PROVE PhaseInv'
  BY <1>43 DEF FacadeDies
<1>44. ASSUME UNCHANGED sessionVars PROVE PhaseInv'
  BY <1>44 DEF sessionVars
<1> QED BY <1>1, <1>2, <1>3, <1>4, <1>5, <1>6, <1>7, <1>8, <1>9, <1>10, <1>11, <1>12, <1>13, <1>14, <1>15, <1>16, <1>17, <1>18, <1>19, <1>20, <1>21, <1>22, <1>23, <1>24, <1>25, <1>26, <1>27, <1>28, <1>29, <1>30, <1>31, <1>32, <1>33, <1>34, <1>35, <1>36, <1>37, <1>38, <1>39, <1>40, <1>41, <1>42, <1>43, <1>44 DEF SessionNext, ClientSteps, Works

\* What a worker does is what its request asked for.
LEMMA NextKind == SessionInv /\ [SessionNext]_sessionVars => KindInv'
<1> SUFFICES ASSUME SessionInv, [SessionNext]_sessionVars PROVE KindInv'
  OBVIOUS
<1> USE DEF Client, Worker, Result, Finger, Unlock, EnterRound, world, authority, facade, stops, wire, process, untouched, SessionInv, KindInv, PhaseInv, SessionTypeOK, Calling
<1>1. ASSUME NEW o \in Requests, StartEnroll(o) PROVE KindInv'
  BY <1>1, WorkerNames DEF StartEnroll, Starts
<1>2. ASSUME NEW o \in Requests, StartDelete(o) PROVE KindInv'
  BY <1>2, WorkerNames DEF StartDelete, Starts
<1>3. ASSUME NEW o \in Requests, ClaimHolds(o) PROVE KindInv'
  BY <1>3 DEF ClaimHolds
<1>4. ASSUME NEW o \in Requests, LaunchEnroll(o) PROVE KindInv'
  BY <1>4 DEF LaunchEnroll, Launches
<1>5. ASSUME NEW o \in Requests, LaunchDelete(o) PROVE KindInv'
  BY <1>5 DEF LaunchDelete, Launches
<1>6. ASSUME NEW o \in Requests, SendStart(o) PROVE KindInv'
  BY <1>6 DEF SendStart
<1>7. ASSUME NEW o \in Requests, StartSent(o) PROVE KindInv'
  BY <1>7 DEF StartSent
<1>8. ASSUME NEW o \in Requests, DeleteSent(o) PROVE KindInv'
  BY <1>8 DEF DeleteSent
<1>9. ASSUME NEW o \in Requests, SendCancel(o) PROVE KindInv'
  BY <1>9 DEF SendCancel, Post
<1>10. ASSUME NEW o \in Requests, ReceiveUpdate(o) PROVE KindInv'
  BY <1>10 DEF ReceiveUpdate, Receives, ClientEnds
<1>11. ASSUME NEW o \in Requests, ReceiveCompletion(o) PROVE KindInv'
  BY <1>11 DEF ReceiveCompletion, Receives, ClientEnds
<1>12. ASSUME NEW o \in Requests, ClientFails(o) PROVE KindInv'
  BY <1>12 DEF ClientFails, ClientEnds
<1>13. ASSUME NEW o \in Requests, Read(o) PROVE KindInv'
  BY <1>13 DEF Read, ReadHolds
<1>14. ASSUME NEW o \in Requests, WorldChanges(o) PROVE KindInv'
  BY <1>14 DEF WorldChanges, Loses, Regains
<1>15. ASSUME NEW o \in Requests, ReceiveStart(o) PROVE KindInv'
  BY <1>15 DEF ReceiveStart, TakesRequest
<1>16. ASSUME NEW o \in Requests, ReceiveRequest(o) PROVE KindInv'
  BY <1>16 DEF ReceiveRequest, TakesRequest
<1>17. ASSUME NEW o \in Requests, Admitted(o) PROVE KindInv'
  BY <1>17 DEF Admitted
<1>18. ASSUME NEW o \in Requests, Hear(o) PROVE KindInv'
  BY <1>18 DEF Hear
<1>19. ASSUME NEW o \in Requests, TakeLock(o) PROVE KindInv'
  BY <1>19 DEF TakeLock
<1>20. ASSUME NEW o \in Requests, NextRound(o) PROVE KindInv'
  BY <1>20 DEF NextRound
<1>21. ASSUME NEW o \in Requests, CapacityExhausted(o) PROVE KindInv'
  BY <1>21 DEF CapacityExhausted
<1>22. ASSUME NEW o \in Requests, DispatchEnroll(o) PROVE KindInv'
  BY <1>22 DEF DispatchEnroll
<1>23. ASSUME NEW o \in Requests, DispatchDelete(o) PROVE KindInv'
  BY <1>23 DEF DispatchDelete
<1>24. ASSUME NEW o \in Requests, WorkerRaises(o) PROVE KindInv'
  BY <1>24 DEF WorkerRaises, Underway
<1>25. ASSUME NEW o \in Requests, CaptureFull(o) PROVE KindInv'
  BY <1>25 DEF CaptureFull
<1>26. ASSUME NEW o \in Requests, CaptureEnds(o) PROVE KindInv'
  BY <1>26 DEF CaptureEnds
<1>27. ASSUME NEW o \in Requests, CaptureRaises(o) PROVE KindInv'
  BY <1>27 DEF CaptureRaises, Underway
<1>28. ASSUME NEW o \in Requests, Recovered(o) PROVE KindInv'
  BY <1>28 DEF Recovered
<1>29. ASSUME NEW o \in Requests, Settle(o) PROVE KindInv'
  BY <1>29 DEF Settle
<1>30. ASSUME NEW o \in Requests, Published(o) PROVE KindInv'
  BY <1>30 DEF Published
<1>31. ASSUME NEW o \in Requests, Matched(o) PROVE KindInv'
  BY <1>31 DEF Matched
<1>32. ASSUME NEW o \in Requests, MatchAccepted(o) PROVE KindInv'
  BY <1>32 DEF MatchAccepted
<1>33. ASSUME NEW o \in Requests, MatchFails(o) PROVE KindInv'
  BY <1>33 DEF MatchFails
<1>34. ASSUME NEW o \in Requests, RolledBack(o) PROVE KindInv'
  BY <1>34 DEF RolledBack
<1>35. ASSUME NEW o \in Requests, Deleted(o) PROVE KindInv'
  BY <1>35 DEF Deleted
<1>36. ASSUME NEW o \in Requests, DeleteRaises(o) PROVE KindInv'
  BY <1>36 DEF DeleteRaises, Underway
<1>37. ASSUME NEW o \in Requests, Report(o) PROVE KindInv'
  BY <1>37 DEF Report, WorkerEnds
<1>38. ASSUME NEW o \in Requests, WorkerDies(o) PROVE KindInv'
  BY <1>38 DEF WorkerDies, WorkerEnds, Underway
<1>39. ASSUME NEW w \in Waiters, Stop(w) PROVE KindInv'
  BY <1>39 DEF Stop
<1>40. ASSUME NEW w \in Waiters, StopSends(w) PROVE KindInv'
  BY <1>40 DEF StopSends, Post
<1>41. ASSUME NEW w \in Waiters, StopReturns(w) PROVE KindInv'
  BY <1>41 DEF StopReturns
<1>42. ASSUME NEW w \in Waiters, StopAbandoned(w) PROVE KindInv'
  BY <1>42 DEF StopAbandoned
<1>43. ASSUME FacadeDies PROVE KindInv'
  BY <1>43 DEF FacadeDies
<1>44. ASSUME UNCHANGED sessionVars PROVE KindInv'
  BY <1>44 DEF sessionVars
<1> QED BY <1>1, <1>2, <1>3, <1>4, <1>5, <1>6, <1>7, <1>8, <1>9, <1>10, <1>11, <1>12, <1>13, <1>14, <1>15, <1>16, <1>17, <1>18, <1>19, <1>20, <1>21, <1>22, <1>23, <1>24, <1>25, <1>26, <1>27, <1>28, <1>29, <1>30, <1>31, <1>32, <1>33, <1>34, <1>35, <1>36, <1>37, <1>38, <1>39, <1>40, <1>41, <1>42, <1>43, <1>44 DEF SessionNext, ClientSteps, Works

\* What a worker is about to report, has sent or has had delivered, is so.
LEMMA NextFinger == SessionInv /\ [SessionNext]_sessionVars => FingerInv'
<1> SUFFICES ASSUME SessionInv, [SessionNext]_sessionVars PROVE FingerInv'
  OBVIOUS
<1> USE DEF Client, Worker, Result, Finger, Unlock, EnterRound, world, authority, facade, stops, wire, process, untouched, SessionInv, FingerInv, FingerOf, Complete, KindInv, PhaseInv, Settled, Before, SessionTypeOK, Calling
<1>1. ASSUME NEW o \in Requests, StartEnroll(o) PROVE FingerInv'
  BY <1>1 DEF StartEnroll, Starts
<1>2. ASSUME NEW o \in Requests, StartDelete(o) PROVE FingerInv'
  BY <1>2 DEF StartDelete, Starts
<1>3. ASSUME NEW o \in Requests, ClaimHolds(o) PROVE FingerInv'
  BY <1>3 DEF ClaimHolds
<1>4. ASSUME NEW o \in Requests, LaunchEnroll(o) PROVE FingerInv'
  BY <1>4 DEF LaunchEnroll, Launches
<1>5. ASSUME NEW o \in Requests, LaunchDelete(o) PROVE FingerInv'
  BY <1>5 DEF LaunchDelete, Launches
<1>6. ASSUME NEW o \in Requests, SendStart(o) PROVE FingerInv'
  BY <1>6 DEF SendStart
<1>7. ASSUME NEW o \in Requests, StartSent(o) PROVE FingerInv'
  BY <1>7 DEF StartSent
<1>8. ASSUME NEW o \in Requests, DeleteSent(o) PROVE FingerInv'
  BY <1>8 DEF DeleteSent
<1>9. ASSUME NEW o \in Requests, SendCancel(o) PROVE FingerInv'
  BY <1>9 DEF SendCancel, Post
<1>10. ASSUME NEW o \in Requests, ReceiveUpdate(o) PROVE FingerInv'
  BY <1>10 DEF ReceiveUpdate, Receives, ClientEnds
<1>11. ASSUME NEW o \in Requests, ReceiveCompletion(o) PROVE FingerInv'
  BY <1>11 DEF ReceiveCompletion, Receives, ClientEnds
<1>12. ASSUME NEW o \in Requests, ClientFails(o) PROVE FingerInv'
  BY <1>12 DEF ClientFails, ClientEnds
<1>13. ASSUME NEW o \in Requests, Read(o) PROVE FingerInv'
  BY <1>13 DEF Read, ReadHolds
<1>14. ASSUME NEW o \in Requests, WorldChanges(o) PROVE FingerInv'
  BY <1>14 DEF WorldChanges, Loses, Regains
<1>15. ASSUME NEW o \in Requests, ReceiveStart(o) PROVE FingerInv'
  BY <1>15 DEF ReceiveStart, TakesRequest
<1>16. ASSUME NEW o \in Requests, ReceiveRequest(o) PROVE FingerInv'
  BY <1>16 DEF ReceiveRequest, TakesRequest
<1>17. ASSUME NEW o \in Requests, Admitted(o) PROVE FingerInv'
  BY <1>17 DEF Admitted
<1>18. ASSUME NEW o \in Requests, Hear(o) PROVE FingerInv'
  BY <1>18 DEF Hear
<1>19. ASSUME NEW o \in Requests, TakeLock(o) PROVE FingerInv'
  BY <1>19 DEF TakeLock
<1>20. ASSUME NEW o \in Requests, NextRound(o) PROVE FingerInv'
  BY <1>20 DEF NextRound
<1>21. ASSUME NEW o \in Requests, CapacityExhausted(o) PROVE FingerInv'
  BY <1>21 DEF CapacityExhausted
<1>22. ASSUME NEW o \in Requests, DispatchEnroll(o) PROVE FingerInv'
  BY <1>22 DEF DispatchEnroll
<1>23. ASSUME NEW o \in Requests, DispatchDelete(o) PROVE FingerInv'
  BY <1>23 DEF DispatchDelete
<1>24. ASSUME NEW o \in Requests, WorkerRaises(o) PROVE FingerInv'
  BY <1>24 DEF WorkerRaises, Underway
<1>25. ASSUME NEW o \in Requests, CaptureFull(o) PROVE FingerInv'
  BY <1>25 DEF CaptureFull
<1>26. ASSUME NEW o \in Requests, CaptureEnds(o) PROVE FingerInv'
  BY <1>26 DEF CaptureEnds
<1>27. ASSUME NEW o \in Requests, CaptureRaises(o) PROVE FingerInv'
  BY <1>27 DEF CaptureRaises, Underway
<1>28. ASSUME NEW o \in Requests, Recovered(o) PROVE FingerInv'
  BY <1>28 DEF Recovered
<1>29. ASSUME NEW o \in Requests, Settle(o) PROVE FingerInv'
  BY <1>29 DEF Settle
<1>30. ASSUME NEW o \in Requests, Published(o) PROVE FingerInv'
  BY <1>30 DEF Published
<1>31. ASSUME NEW o \in Requests, Matched(o) PROVE FingerInv'
  BY <1>31 DEF Matched
<1>32. ASSUME NEW o \in Requests, MatchAccepted(o) PROVE FingerInv'
  BY <1>32 DEF MatchAccepted
<1>33. ASSUME NEW o \in Requests, MatchFails(o) PROVE FingerInv'
  BY <1>33 DEF MatchFails
<1>34. ASSUME NEW o \in Requests, RolledBack(o) PROVE FingerInv'
  BY <1>34 DEF RolledBack
<1>35. ASSUME NEW o \in Requests, Deleted(o) PROVE FingerInv'
  BY <1>35 DEF Deleted
<1>36. ASSUME NEW o \in Requests, DeleteRaises(o) PROVE FingerInv'
  BY <1>36 DEF DeleteRaises, Underway
<1>37. ASSUME NEW o \in Requests, Report(o) PROVE FingerInv'
  BY <1>37 DEF Report, WorkerEnds
<1>38. ASSUME NEW o \in Requests, WorkerDies(o) PROVE FingerInv'
  BY <1>38 DEF WorkerDies, WorkerEnds, Underway
<1>39. ASSUME NEW w \in Waiters, Stop(w) PROVE FingerInv'
  BY <1>39 DEF Stop
<1>40. ASSUME NEW w \in Waiters, StopSends(w) PROVE FingerInv'
  BY <1>40 DEF StopSends, Post
<1>41. ASSUME NEW w \in Waiters, StopReturns(w) PROVE FingerInv'
  BY <1>41 DEF StopReturns
<1>42. ASSUME NEW w \in Waiters, StopAbandoned(w) PROVE FingerInv'
  BY <1>42 DEF StopAbandoned
<1>43. ASSUME FacadeDies PROVE FingerInv'
  BY <1>43 DEF FacadeDies
<1>44. ASSUME UNCHANGED sessionVars PROVE FingerInv'
  BY <1>44 DEF sessionVars
<1> QED BY <1>1, <1>2, <1>3, <1>4, <1>5, <1>6, <1>7, <1>8, <1>9, <1>10, <1>11, <1>12, <1>13, <1>14, <1>15, <1>16, <1>17, <1>18, <1>19, <1>20, <1>21, <1>22, <1>23, <1>24, <1>25, <1>26, <1>27, <1>28, <1>29, <1>30, <1>31, <1>32, <1>33, <1>34, <1>35, <1>36, <1>37, <1>38, <1>39, <1>40, <1>41, <1>42, <1>43, <1>44 DEF SessionNext, ClientSteps, Works

\* A Stop is where somebody will see it.
LEMMA NextStop == SessionInv /\ [SessionNext]_sessionVars => StopInv'
<1> SUFFICES ASSUME SessionInv, [SessionNext]_sessionVars PROVE StopInv'
  OBVIOUS
<1> USE DEF Client, Worker, Result, Finger, Unlock, EnterRound, world, authority, facade, stops, wire, process, untouched, SessionInv, StopInv, StopOf, KindInv, PhaseInv, OwnedUntilDone, Sent, SessionTypeOK, Calling
<1>1. ASSUME NEW o \in Requests, StartEnroll(o) PROVE StopInv'
  <2>1. OwnedUntilDone'
    BY <1>1, WorkerNames DEF StartEnroll, Starts
  <2>2. (task # NoOne => kind[task] = "enroll")'
    BY <1>1, WorkerNames DEF StartEnroll, Starts
  <2>3. (\A v \in Waiters : stop[v] # "idle" => target[v] \in Requests)'
    BY <1>1, WorkerNames DEF StartEnroll, Starts
  <2>4. \A p \in Requests : StopOf(p)'
    BY <1>1, WorkerNames DEF StartEnroll, Starts
  <2> QED BY <2>1, <2>2, <2>3, <2>4
<1>2. ASSUME NEW o \in Requests, StartDelete(o) PROVE StopInv'
  <2>1. OwnedUntilDone'
    BY <1>2, WorkerNames DEF StartDelete, Starts
  <2>2. (task # NoOne => kind[task] = "enroll")'
    BY <1>2, WorkerNames DEF StartDelete, Starts
  <2>3. (\A v \in Waiters : stop[v] # "idle" => target[v] \in Requests)'
    BY <1>2, WorkerNames DEF StartDelete, Starts
  <2>4. \A p \in Requests : StopOf(p)'
    BY <1>2, WorkerNames DEF StartDelete, Starts
  <2> QED BY <2>1, <2>2, <2>3, <2>4
<1>3. ASSUME NEW o \in Requests, ClaimHolds(o) PROVE StopInv'
  BY <1>3 DEF ClaimHolds
<1>4. ASSUME NEW o \in Requests, LaunchEnroll(o) PROVE StopInv'
  BY <1>4 DEF LaunchEnroll, Launches
<1>5. ASSUME NEW o \in Requests, LaunchDelete(o) PROVE StopInv'
  BY <1>5 DEF LaunchDelete, Launches
<1>6. ASSUME NEW o \in Requests, SendStart(o) PROVE StopInv'
  BY <1>6 DEF SendStart
<1>7. ASSUME NEW o \in Requests, StartSent(o) PROVE StopInv'
  BY <1>7 DEF StartSent
<1>8. ASSUME NEW o \in Requests, DeleteSent(o) PROVE StopInv'
  BY <1>8 DEF DeleteSent
<1>9. ASSUME NEW o \in Requests, SendCancel(o) PROVE StopInv'
  BY <1>9 DEF SendCancel, Post
<1>10. ASSUME NEW o \in Requests, ReceiveUpdate(o) PROVE StopInv'
  <2>1. OwnedUntilDone'
    BY <1>10, WorkerNames DEF ReceiveUpdate, Receives, ClientEnds
  <2>2. (task # NoOne => kind[task] = "enroll")'
    BY <1>10, WorkerNames DEF ReceiveUpdate, Receives, ClientEnds
  <2>3. (\A v \in Waiters : stop[v] # "idle" => target[v] \in Requests)'
    BY <1>10, WorkerNames DEF ReceiveUpdate, Receives, ClientEnds
  <2>4. \A p \in Requests : StopOf(p)'
    BY <1>10, WorkerNames DEF ReceiveUpdate, Receives, ClientEnds
  <2> QED BY <2>1, <2>2, <2>3, <2>4
<1>11. ASSUME NEW o \in Requests, ReceiveCompletion(o) PROVE StopInv'
  BY <1>11 DEF ReceiveCompletion, Receives, ClientEnds
<1>12. ASSUME NEW o \in Requests, ClientFails(o) PROVE StopInv'
  <2>1. OwnedUntilDone'
    BY <1>12, WorkerNames DEF ClientFails, ClientEnds
  <2>2. (task # NoOne => kind[task] = "enroll")'
    BY <1>12, WorkerNames DEF ClientFails, ClientEnds
  <2>3. (\A v \in Waiters : stop[v] # "idle" => target[v] \in Requests)'
    BY <1>12, WorkerNames DEF ClientFails, ClientEnds
  <2>4. \A p \in Requests : StopOf(p)'
    BY <1>12, WorkerNames DEF ClientFails, ClientEnds
  <2> QED BY <2>1, <2>2, <2>3, <2>4
<1>13. ASSUME NEW o \in Requests, Read(o) PROVE StopInv'
  BY <1>13 DEF Read, ReadHolds
<1>14. ASSUME NEW o \in Requests, WorldChanges(o) PROVE StopInv'
  BY <1>14 DEF WorldChanges, Loses, Regains
<1>15. ASSUME NEW o \in Requests, ReceiveStart(o) PROVE StopInv'
  BY <1>15 DEF ReceiveStart, TakesRequest
<1>16. ASSUME NEW o \in Requests, ReceiveRequest(o) PROVE StopInv'
  BY <1>16 DEF ReceiveRequest, TakesRequest
<1>17. ASSUME NEW o \in Requests, Admitted(o) PROVE StopInv'
  BY <1>17 DEF Admitted
<1>18. ASSUME NEW o \in Requests, Hear(o) PROVE StopInv'
  BY <1>18 DEF Hear
<1>19. ASSUME NEW o \in Requests, TakeLock(o) PROVE StopInv'
  BY <1>19 DEF TakeLock
<1>20. ASSUME NEW o \in Requests, NextRound(o) PROVE StopInv'
  BY <1>20 DEF NextRound
<1>21. ASSUME NEW o \in Requests, CapacityExhausted(o) PROVE StopInv'
  BY <1>21 DEF CapacityExhausted
<1>22. ASSUME NEW o \in Requests, DispatchEnroll(o) PROVE StopInv'
  BY <1>22 DEF DispatchEnroll
<1>23. ASSUME NEW o \in Requests, DispatchDelete(o) PROVE StopInv'
  BY <1>23 DEF DispatchDelete
<1>24. ASSUME NEW o \in Requests, WorkerRaises(o) PROVE StopInv'
  BY <1>24 DEF WorkerRaises, Underway
<1>25. ASSUME NEW o \in Requests, CaptureFull(o) PROVE StopInv'
  BY <1>25 DEF CaptureFull
<1>26. ASSUME NEW o \in Requests, CaptureEnds(o) PROVE StopInv'
  BY <1>26 DEF CaptureEnds
<1>27. ASSUME NEW o \in Requests, CaptureRaises(o) PROVE StopInv'
  BY <1>27 DEF CaptureRaises, Underway
<1>28. ASSUME NEW o \in Requests, Recovered(o) PROVE StopInv'
  BY <1>28 DEF Recovered
<1>29. ASSUME NEW o \in Requests, Settle(o) PROVE StopInv'
  BY <1>29 DEF Settle
<1>30. ASSUME NEW o \in Requests, Published(o) PROVE StopInv'
  BY <1>30 DEF Published
<1>31. ASSUME NEW o \in Requests, Matched(o) PROVE StopInv'
  BY <1>31 DEF Matched
<1>32. ASSUME NEW o \in Requests, MatchAccepted(o) PROVE StopInv'
  BY <1>32 DEF MatchAccepted
<1>33. ASSUME NEW o \in Requests, MatchFails(o) PROVE StopInv'
  BY <1>33 DEF MatchFails
<1>34. ASSUME NEW o \in Requests, RolledBack(o) PROVE StopInv'
  BY <1>34 DEF RolledBack
<1>35. ASSUME NEW o \in Requests, Deleted(o) PROVE StopInv'
  BY <1>35 DEF Deleted
<1>36. ASSUME NEW o \in Requests, DeleteRaises(o) PROVE StopInv'
  BY <1>36 DEF DeleteRaises, Underway
<1>37. ASSUME NEW o \in Requests, Report(o) PROVE StopInv'
  BY <1>37 DEF Report, WorkerEnds
<1>38. ASSUME NEW o \in Requests, WorkerDies(o) PROVE StopInv'
  BY <1>38 DEF WorkerDies, WorkerEnds, Underway
<1>39. ASSUME NEW w \in Waiters, Stop(w) PROVE StopInv'
  <2>1. OwnedUntilDone'
    BY <1>39, WorkerNames DEF Stop
  <2>2. (task # NoOne => kind[task] = "enroll")'
    BY <1>39, WorkerNames DEF Stop
  <2>3. (\A v \in Waiters : stop[v] # "idle" => target[v] \in Requests)'
    BY <1>39, WorkerNames DEF Stop
  <2>4. \A p \in Requests : StopOf(p)'
    BY <1>39, WorkerNames DEF Stop
  <2> QED BY <2>1, <2>2, <2>3, <2>4
<1>40. ASSUME NEW w \in Waiters, StopSends(w) PROVE StopInv'
  BY <1>40 DEF StopSends, Post
<1>41. ASSUME NEW w \in Waiters, StopReturns(w) PROVE StopInv'
  BY <1>41 DEF StopReturns
<1>42. ASSUME NEW w \in Waiters, StopAbandoned(w) PROVE StopInv'
  BY <1>42 DEF StopAbandoned
<1>43. ASSUME FacadeDies PROVE StopInv'
  BY <1>43 DEF FacadeDies
<1>44. ASSUME UNCHANGED sessionVars PROVE StopInv'
  BY <1>44 DEF sessionVars
<1> QED BY <1>1, <1>2, <1>3, <1>4, <1>5, <1>6, <1>7, <1>8, <1>9, <1>10, <1>11, <1>12, <1>13, <1>14, <1>15, <1>16, <1>17, <1>18, <1>19, <1>20, <1>21, <1>22, <1>23, <1>24, <1>25, <1>26, <1>27, <1>28, <1>29, <1>30, <1>31, <1>32, <1>33, <1>34, <1>35, <1>36, <1>37, <1>38, <1>39, <1>40, <1>41, <1>42, <1>43, <1>44 DEF SessionNext, ClientSteps, Works

\* The last check is as far as its reads.
LEMMA NextCheck == SessionInv /\ [SessionNext]_sessionVars => CheckInv'
<1> SUFFICES ASSUME SessionInv, [SessionNext]_sessionVars PROVE CheckInv'
  OBVIOUS
<1>0. CheckInv /\ SessionTypeOK /\ PhaseInv
  BY DEF SessionInv
<1>1. ASSUME NEW o \in Requests, StartEnroll(o) PROVE CheckInv'
  <2>1. /\ UNCHANGED <<native, lost>> /\ EnterRound(o, "claim") /\ KeepsOut(worker, worker')
        /\ worker'[o] \notin Dispatched
    BY <1>0, <1>1 DEF StartEnroll, Starts, SessionTypeOK, PhaseInv, KeepsOut, Dispatched, Worker, world, untouched, process
  <2> QED BY <1>0, <2>1, CheckLeft, Zenon
<1>2. ASSUME NEW o \in Requests, StartDelete(o) PROVE CheckInv'
  <2>1. /\ UNCHANGED <<native, lost>> /\ EnterRound(o, "claim") /\ KeepsOut(worker, worker')
        /\ worker'[o] \notin Dispatched
    BY <1>0, <1>2 DEF StartDelete, Starts, SessionTypeOK, PhaseInv, KeepsOut, Dispatched, Worker, world, untouched, process
  <2> QED BY <1>0, <2>1, CheckLeft, Zenon
<1>3. ASSUME NEW o \in Requests, ClaimHolds(o) PROVE CheckInv'
  <2>1. /\ UNCHANGED <<native, lost>> /\ EnterRound(o, "none") /\ KeepsOut(worker, worker')
        /\ worker'[o] \notin Dispatched
    BY <1>0, <1>3 DEF ClaimHolds, SessionTypeOK, PhaseInv, KeepsOut, Dispatched, Worker, world, untouched, process
  <2> QED BY <1>0, <2>1, CheckLeft, Zenon
<1>4. ASSUME NEW o \in Requests, LaunchEnroll(o) PROVE CheckInv'
  <2>1. /\ UNCHANGED <<native, lost>> /\ EnterRound(o, "claim") /\ KeepsOut(worker, worker')
        /\ worker'[o] \notin Dispatched
    BY <1>0, <1>4 DEF LaunchEnroll, Launches, SessionTypeOK, PhaseInv, KeepsOut, Dispatched, Worker, world, untouched, process
  <2> QED BY <1>0, <2>1, CheckLeft, Zenon
<1>5. ASSUME NEW o \in Requests, LaunchDelete(o) PROVE CheckInv'
  <2>1. /\ UNCHANGED <<native, lost>> /\ EnterRound(o, "claim") /\ KeepsOut(worker, worker')
        /\ worker'[o] \notin Dispatched
    BY <1>0, <1>5 DEF LaunchDelete, Launches, SessionTypeOK, PhaseInv, KeepsOut, Dispatched, Worker, world, untouched, process
  <2> QED BY <1>0, <2>1, CheckLeft, Zenon
<1>6. ASSUME NEW o \in Requests, SendStart(o) PROVE CheckInv'
  <2>1. UNCHANGED <<native, lost, authority>> /\ KeepsOut(worker, worker')
    BY <1>0, <1>6 DEF SendStart, SessionTypeOK, KeepsOut, Dispatched, Worker, world, untouched, process
  <2> QED BY <1>0, <2>1, CheckKept
<1>7. ASSUME NEW o \in Requests, StartSent(o) PROVE CheckInv'
  <2>1. UNCHANGED <<native, lost, authority>> /\ KeepsOut(worker, worker')
    BY <1>0, <1>7 DEF StartSent, SessionTypeOK, KeepsOut, Dispatched, Worker, world, untouched, process
  <2> QED BY <1>0, <2>1, CheckKept
<1>8. ASSUME NEW o \in Requests, DeleteSent(o) PROVE CheckInv'
  <2>1. UNCHANGED <<native, lost, authority>> /\ KeepsOut(worker, worker')
    BY <1>0, <1>8 DEF DeleteSent, SessionTypeOK, KeepsOut, Dispatched, Worker, world, untouched, process
  <2> QED BY <1>0, <2>1, CheckKept
<1>9. ASSUME NEW o \in Requests, SendCancel(o) PROVE CheckInv'
  <2>1. UNCHANGED <<native, lost, authority>> /\ KeepsOut(worker, worker')
    BY <1>0, <1>9 DEF SendCancel, Post, SessionTypeOK, KeepsOut, Dispatched, Worker, world, untouched, process
  <2> QED BY <1>0, <2>1, CheckKept
<1>10. ASSUME NEW o \in Requests, ReceiveUpdate(o) PROVE CheckInv'
  <2>1. UNCHANGED <<native, lost, authority>> /\ KeepsOut(worker, worker')
    BY <1>0, <1>10 DEF ReceiveUpdate, Receives, ClientEnds, SessionTypeOK, KeepsOut, Dispatched, Worker, world, untouched, process
  <2> QED BY <1>0, <2>1, CheckKept
<1>11. ASSUME NEW o \in Requests, ReceiveCompletion(o) PROVE CheckInv'
  <2>1. UNCHANGED <<native, lost, authority>> /\ KeepsOut(worker, worker')
    BY <1>0, <1>11 DEF ReceiveCompletion, Receives, ClientEnds, SessionTypeOK, KeepsOut, Dispatched, Worker, world, untouched, process
  <2> QED BY <1>0, <2>1, CheckKept
<1>12. ASSUME NEW o \in Requests, ClientFails(o) PROVE CheckInv'
  <2>1. UNCHANGED <<native, lost>> /\ worker' = worker /\ KeepsOut(worker, worker')
    BY <1>12 DEF ClientFails, ClientEnds, world, process, KeepsOut
  <2>2. CASE client[o] \in {"check", "recheck"}
    <3>1. EnterRound(o, "none") /\ worker'[o] \notin Dispatched
      BY <1>0, <1>12, <2>1, <2>2 DEF ClientFails, PhaseInv, Dispatched
    <3> QED BY <1>0, <2>1, <3>1, CheckLeft, Zenon
  <2>3. CASE client[o] \notin {"check", "recheck"}
    BY <1>0, <1>12, <2>1, <2>3, CheckKept DEF ClientFails
  <2> QED BY <2>2, <2>3
<1>13. ASSUME NEW o \in Requests, Read(o) PROVE CheckInv'
  <2>1. UNCHANGED <<native, lost, worker, round, since>>
    BY <1>13 DEF Read, ReadHolds, world, process
  <2>2. DispatchReads' = DispatchReads /\ Reads("dispatch")' = Reads("dispatch")
    BY <2>1, SameReads
  <2>3. SUFFICES ASSUME NEW p \in Requests PROVE CheckOf(p)'
    BY DEF CheckInv, CheckOf
  <2>4. CASE p # o
    <3>1. next'[p] = next[p] /\ witness'[p] = witness[p]
      BY <1>0, <1>13, <2>4 DEF Read, ReadHolds, SessionTypeOK, AuthorityTypeOK
    <3> QED BY <1>0, <2>1, <2>2, <3>1 DEF CheckInv, CheckOf, Through
  <2>5. CASE p = o /\ round[o] # "dispatch"
    BY <1>0, <2>1, <2>5 DEF CheckInv, CheckOf, Through
  <2>6. CASE p = o /\ round[o] = "dispatch"
    <3> DEFINE f == DispatchReads[next[o]]
    <3>1. /\ next[o] \in 1 .. Len(DispatchReads) /\ f \notin lost[o] /\ next'[o] = next[o] + 1
          /\ witness'[o] = IF f = "session" THEN Lasting \ lost[o] ELSE witness[o]
      BY <1>0, <1>13, <2>6, DispatchOrder DEF Read, ReadHolds, SessionTypeOK, AuthorityTypeOK, Sandwich
    <3>2. CheckOf(o)
      BY <1>0 DEF CheckInv, CheckOf
    <3>3. f \in Facts /\ (f = "session" <=> next[o] = 2)
      BY <3>1, DispatchOrder DEF Sandwich
    <3> HIDE DEF f
    <3>4. f \in since[o]
      BY <2>6, <3>1, <3>2, <3>3 DEF CheckOf
    <3>5. \A i \in 1 .. Len(DispatchReads) : i < next'[o] => DispatchReads[i] \in since[o]
      BY <2>6, <3>1, <3>2, <3>4, DispatchOrder DEF CheckOf, f, Sandwich
    <3>6. next'[o] > 2 => Lasting \ lost[o] \subseteq witness'[o]
      BY <2>6, <3>1, <3>2, <3>3 DEF CheckOf
    <3>7. \A i \in 3 .. Len(DispatchReads) :
             i < next'[o] /\ DispatchReads[i] \in Lasting => DispatchReads[i] \in witness'[o]
      BY <2>6, <3>1, <3>2, <3>3, <3>6, DispatchOrder DEF CheckOf, f, Sandwich
    <3>8. worker'[o] \in {"capture", "delete"} => Through(o, "dispatch")'
      BY <1>0, <2>1, <2>2, <2>6, <3>1, <3>2 DEF CheckOf, Through, SessionTypeOK, AuthorityTypeOK
    <3> QED BY <2>1, <2>2, <2>6, <3>2, <3>5, <3>6, <3>7, <3>8 DEF CheckOf
  <2> QED BY <2>4, <2>5, <2>6
<1>14. ASSUME NEW o \in Requests, WorldChanges(o) PROVE CheckInv'
  <2>1. UNCHANGED <<native, worker, round, next, witness>>
    BY <1>14 DEF WorldChanges, Loses, Regains, authority, process
  <2>2. DispatchReads' = DispatchReads /\ Reads("dispatch")' = Reads("dispatch")
    BY <2>1, SameReads
  <2>3. PICK f \in Facts : Loses(o, f, holder = o) \/ Regains(o, f)
    BY <1>14 DEF WorldChanges
  <2>4. \A p \in Requests : /\ since[p] \subseteq since'[p]
                            /\ Lasting \ lost'[p] \subseteq Lasting \ lost[p]
                            /\ round[p] = "dispatch" => (Facts \ lost'[p]) \ (Facts \ lost[p]) \subseteq since'[p]
    BY <1>0, <2>3 DEF Loses, Regains, SessionTypeOK, AuthorityTypeOK, authority
  <2> QED BY <1>0, <2>1, <2>2, <2>4 DEF CheckInv, CheckOf, Through
<1>15. ASSUME NEW o \in Requests, ReceiveStart(o) PROVE CheckInv'
  <2>1. /\ UNCHANGED <<native, lost>> /\ EnterRound(o, "admit") /\ KeepsOut(worker, worker')
        /\ worker'[o] \notin Dispatched
    BY <1>0, <1>15 DEF ReceiveStart, TakesRequest, SessionTypeOK, PhaseInv, KeepsOut, Dispatched, Worker, world, untouched, process
  <2> QED BY <1>0, <2>1, CheckLeft, Zenon
<1>16. ASSUME NEW o \in Requests, ReceiveRequest(o) PROVE CheckInv'
  <2>1. /\ UNCHANGED <<native, lost>> /\ EnterRound(o, "admit") /\ KeepsOut(worker, worker')
        /\ worker'[o] \notin Dispatched
    BY <1>0, <1>16 DEF ReceiveRequest, TakesRequest, SessionTypeOK, PhaseInv, KeepsOut, Dispatched, Worker, world, untouched, process
  <2> QED BY <1>0, <2>1, CheckLeft, Zenon
<1>17. ASSUME NEW o \in Requests, Admitted(o) PROVE CheckInv'
  <2>1. /\ UNCHANGED <<native, lost>> /\ EnterRound(o, "none") /\ KeepsOut(worker, worker')
        /\ worker'[o] \notin Dispatched
    BY <1>0, <1>17 DEF Admitted, SessionTypeOK, PhaseInv, KeepsOut, Dispatched, Worker, world, untouched, process
  <2> QED BY <1>0, <2>1, CheckLeft, Zenon
<1>18. ASSUME NEW o \in Requests, Hear(o) PROVE CheckInv'
  <2>1. UNCHANGED <<native, lost, authority>> /\ KeepsOut(worker, worker')
    BY <1>0, <1>18 DEF Hear, SessionTypeOK, KeepsOut, Dispatched, Worker, world, untouched, process
  <2> QED BY <1>0, <2>1, CheckKept
<1>19. ASSUME NEW o \in Requests, TakeLock(o) PROVE CheckInv'
  <2>1. /\ UNCHANGED <<native, lost>> /\ EnterRound(o, "collect") /\ KeepsOut(worker, worker')
        /\ worker'[o] \notin Dispatched
    BY <1>0, <1>19 DEF TakeLock, SessionTypeOK, PhaseInv, KeepsOut, Dispatched, Worker, world, untouched, process
  <2> QED BY <1>0, <2>1, CheckLeft, Zenon
<1>20. ASSUME NEW o \in Requests, NextRound(o) PROVE CheckInv'
  <2>1. /\ UNCHANGED <<native, lost, worker>> /\ KeepsOut(worker, worker') /\ worker'[o] \notin Dispatched
        /\ EnterRound(o, "decide") \/ EnterRound(o, "handoff") \/ EnterRound(o, "dispatch")
    BY <1>20 DEF NextRound, KeepsOut, Dispatched, world, process, untouched
  <2>2. CASE EnterRound(o, "decide") \/ EnterRound(o, "handoff")
    BY <1>0, <2>1, <2>2, CheckLeft, Zenon
  <2>3. CASE EnterRound(o, "dispatch")
    <3>1. DispatchReads' = DispatchReads /\ Reads("dispatch")' = Reads("dispatch")
      BY <2>1, SameReads
    <3>2. ASSUME NEW p \in Requests, p # o
          PROVE  round'[p] = round[p] /\ next'[p] = next[p] /\ since'[p] = since[p] /\ witness'[p] = witness[p]
      BY <1>0, <2>3, <3>2 DEF EnterRound, SessionTypeOK, AuthorityTypeOK
    <3>3. next'[o] = 1 /\ since'[o] = Facts \ lost[o]
      BY <1>0, <2>3 DEF EnterRound, SessionTypeOK, AuthorityTypeOK
    <3> QED BY <1>0, <2>1, <3>1, <3>2, <3>3 DEF CheckInv, CheckOf, Through, Dispatched
  <2> QED BY <2>1, <2>2, <2>3
<1>21. ASSUME NEW o \in Requests, CapacityExhausted(o) PROVE CheckInv'
  <2>1. /\ UNCHANGED <<native, lost>> /\ EnterRound(o, "none") /\ KeepsOut(worker, worker')
        /\ worker'[o] \notin Dispatched
    BY <1>0, <1>21 DEF CapacityExhausted, SessionTypeOK, PhaseInv, KeepsOut, Dispatched, Worker, world, untouched, process
  <2> QED BY <1>0, <2>1, CheckLeft, Zenon
<1>22. ASSUME NEW o \in Requests, DispatchEnroll(o) PROVE CheckInv'
  <2>1. UNCHANGED <<native, lost, authority>> /\ Through(o, "dispatch")
    BY <1>22 DEF DispatchEnroll, world, untouched
  <2>2. \A p \in Requests : p # o => worker'[p] = worker[p]
    BY <1>0, <1>22 DEF DispatchEnroll, Worker, SessionTypeOK
  <2>3. DispatchReads' = DispatchReads /\ Reads("dispatch")' = Reads("dispatch")
    BY <2>1, SameReads
  <2> QED BY <1>0, <2>1, <2>2, <2>3 DEF CheckInv, CheckOf, authority, Through
<1>23. ASSUME NEW o \in Requests, DispatchDelete(o) PROVE CheckInv'
  <2>1. UNCHANGED <<native, lost, authority>> /\ Through(o, "dispatch")
    BY <1>23 DEF DispatchDelete, world, untouched
  <2>2. \A p \in Requests : p # o => worker'[p] = worker[p]
    BY <1>0, <1>23 DEF DispatchDelete, Worker, SessionTypeOK
  <2>3. DispatchReads' = DispatchReads /\ Reads("dispatch")' = Reads("dispatch")
    BY <2>1, SameReads
  <2> QED BY <1>0, <2>1, <2>2, <2>3 DEF CheckInv, CheckOf, authority, Through
<1>24. ASSUME NEW o \in Requests, WorkerRaises(o) PROVE CheckInv'
  <2>1. /\ UNCHANGED <<native, lost>> /\ EnterRound(o, "none") /\ KeepsOut(worker, worker')
        /\ worker'[o] \notin Dispatched
    BY <1>0, <1>24 DEF WorkerRaises, SessionTypeOK, PhaseInv, KeepsOut, Dispatched, Worker, world, untouched, process
  <2> QED BY <1>0, <2>1, CheckLeft, Zenon
<1>25. ASSUME NEW o \in Requests, CaptureFull(o) PROVE CheckInv'
  <2>1. UNCHANGED <<native, lost, authority>> /\ KeepsOut(worker, worker')
    BY <1>0, <1>25 DEF CaptureFull, SessionTypeOK, KeepsOut, Dispatched, Worker, world, untouched, process
  <2> QED BY <1>0, <2>1, CheckKept
<1>26. ASSUME NEW o \in Requests, CaptureEnds(o) PROVE CheckInv'
  <2>1. UNCHANGED <<native, lost, authority>> /\ KeepsOut(worker, worker')
    BY <1>0, <1>26 DEF CaptureEnds, SessionTypeOK, KeepsOut, Dispatched, Worker, world, untouched, process
  <2> QED BY <1>0, <2>1, CheckKept
<1>27. ASSUME NEW o \in Requests, CaptureRaises(o) PROVE CheckInv'
  <2>1. UNCHANGED <<native, lost, authority>> /\ KeepsOut(worker, worker')
    BY <1>0, <1>27 DEF CaptureRaises, SessionTypeOK, KeepsOut, Dispatched, Worker, world, untouched, process
  <2> QED BY <1>0, <2>1, CheckKept
<1>28. ASSUME NEW o \in Requests, Recovered(o) PROVE CheckInv'
  <2>1. UNCHANGED <<native, lost, authority>> /\ KeepsOut(worker, worker')
    BY <1>0, <1>28 DEF Recovered, SessionTypeOK, KeepsOut, Dispatched, Worker, world, untouched, process
  <2> QED BY <1>0, <2>1, CheckKept
<1>29. ASSUME NEW o \in Requests, Settle(o) PROVE CheckInv'
  <2>1. UNCHANGED <<native, lost, authority>> /\ KeepsOut(worker, worker')
    BY <1>0, <1>29 DEF Settle, SessionTypeOK, KeepsOut, Dispatched, Worker, world, untouched, process
  <2> QED BY <1>0, <2>1, CheckKept
<1>30. ASSUME NEW o \in Requests, Published(o) PROVE CheckInv'
  <2>1. UNCHANGED <<native, lost, authority>> /\ KeepsOut(worker, worker')
    BY <1>0, <1>30 DEF Published, SessionTypeOK, KeepsOut, Dispatched, Worker, world, untouched, process
  <2> QED BY <1>0, <2>1, CheckKept
<1>31. ASSUME NEW o \in Requests, Matched(o) PROVE CheckInv'
  <2>1. UNCHANGED <<native, lost, authority>> /\ KeepsOut(worker, worker')
    BY <1>0, <1>31 DEF Matched, SessionTypeOK, KeepsOut, Dispatched, Worker, world, untouched, process
  <2> QED BY <1>0, <2>1, CheckKept
<1>32. ASSUME NEW o \in Requests, MatchAccepted(o) PROVE CheckInv'
  <2>1. UNCHANGED <<native, lost, authority>> /\ KeepsOut(worker, worker')
    BY <1>0, <1>32 DEF MatchAccepted, SessionTypeOK, KeepsOut, Dispatched, Worker, world, untouched, process
  <2> QED BY <1>0, <2>1, CheckKept
<1>33. ASSUME NEW o \in Requests, MatchFails(o) PROVE CheckInv'
  <2>1. UNCHANGED <<native, lost, authority>> /\ KeepsOut(worker, worker')
    BY <1>0, <1>33 DEF MatchFails, SessionTypeOK, KeepsOut, Dispatched, Worker, world, untouched, process
  <2> QED BY <1>0, <2>1, CheckKept
<1>34. ASSUME NEW o \in Requests, RolledBack(o) PROVE CheckInv'
  <2>1. UNCHANGED <<native, lost, authority>> /\ KeepsOut(worker, worker')
    BY <1>0, <1>34 DEF RolledBack, SessionTypeOK, KeepsOut, Dispatched, Worker, world, untouched, process
  <2> QED BY <1>0, <2>1, CheckKept
<1>35. ASSUME NEW o \in Requests, Deleted(o) PROVE CheckInv'
  <2>1. UNCHANGED <<native, lost, authority>> /\ KeepsOut(worker, worker')
    BY <1>0, <1>35 DEF Deleted, SessionTypeOK, KeepsOut, Dispatched, Worker, world, untouched, process
  <2> QED BY <1>0, <2>1, CheckKept
<1>36. ASSUME NEW o \in Requests, DeleteRaises(o) PROVE CheckInv'
  <2>1. UNCHANGED <<native, lost, authority>> /\ KeepsOut(worker, worker')
    BY <1>0, <1>36 DEF DeleteRaises, SessionTypeOK, KeepsOut, Dispatched, Worker, world, untouched, process
  <2> QED BY <1>0, <2>1, CheckKept
<1>37. ASSUME NEW o \in Requests, Report(o) PROVE CheckInv'
  <2>1. /\ UNCHANGED <<native, lost>> /\ EnterRound(o, "none") /\ KeepsOut(worker, worker')
        /\ worker'[o] \notin Dispatched
    BY <1>0, <1>37 DEF Report, WorkerEnds, SessionTypeOK, PhaseInv, KeepsOut, Dispatched, Worker, world, untouched, process
  <2> QED BY <1>0, <2>1, CheckLeft, Zenon
<1>38. ASSUME NEW o \in Requests, WorkerDies(o) PROVE CheckInv'
  <2>1. /\ UNCHANGED <<native, lost>> /\ EnterRound(o, "none") /\ KeepsOut(worker, worker')
        /\ worker'[o] \notin Dispatched
    BY <1>0, <1>38 DEF WorkerDies, WorkerEnds, SessionTypeOK, PhaseInv, KeepsOut, Dispatched, Worker, world, untouched, process
  <2> QED BY <1>0, <2>1, CheckLeft, Zenon
<1>39. ASSUME NEW w \in Waiters, Stop(w) PROVE CheckInv'
  <2>1. UNCHANGED <<native, lost, authority>> /\ KeepsOut(worker, worker')
    BY <1>0, <1>39 DEF Stop, SessionTypeOK, KeepsOut, Dispatched, Worker, world, untouched, process
  <2> QED BY <1>0, <2>1, CheckKept
<1>40. ASSUME NEW w \in Waiters, StopSends(w) PROVE CheckInv'
  <2>1. UNCHANGED <<native, lost, authority>> /\ KeepsOut(worker, worker')
    BY <1>0, <1>40 DEF StopSends, Post, SessionTypeOK, KeepsOut, Dispatched, Worker, world, untouched, process
  <2> QED BY <1>0, <2>1, CheckKept
<1>41. ASSUME NEW w \in Waiters, StopReturns(w) PROVE CheckInv'
  <2>1. UNCHANGED <<native, lost, authority>> /\ KeepsOut(worker, worker')
    BY <1>0, <1>41 DEF StopReturns, SessionTypeOK, KeepsOut, Dispatched, Worker, world, untouched, process
  <2> QED BY <1>0, <2>1, CheckKept
<1>42. ASSUME NEW w \in Waiters, StopAbandoned(w) PROVE CheckInv'
  <2>1. UNCHANGED <<native, lost, authority>> /\ KeepsOut(worker, worker')
    BY <1>0, <1>42 DEF StopAbandoned, SessionTypeOK, KeepsOut, Dispatched, Worker, world, untouched, process
  <2> QED BY <1>0, <2>1, CheckKept
<1>43. ASSUME FacadeDies PROVE CheckInv'
  <2>1. UNCHANGED <<native, lost, worker, next, since, witness>>
    BY <1>43 DEF FacadeDies, world, process
  <2>2. \A p \in Requests : /\ round[p] = "dispatch" => round'[p] = "dispatch"
                            /\ round'[p] = "dispatch" => round[p] = "dispatch"
    BY <1>43 DEF FacadeDies
  <2>3. DispatchReads' = DispatchReads /\ Reads("dispatch")' = Reads("dispatch")
    BY <2>1, SameReads
  <2> QED BY <1>0, <2>1, <2>2, <2>3 DEF CheckInv, CheckOf, Through
<1>44. ASSUME UNCHANGED sessionVars PROVE CheckInv'
  <2>1. UNCHANGED <<native, lost, authority>> /\ KeepsOut(worker, worker')
    BY <1>44 DEF sessionVars, KeepsOut, world, process
  <2> QED BY <1>0, <2>1, CheckKept
<1> QED BY <1>1, <1>2, <1>3, <1>4, <1>5, <1>6, <1>7, <1>8, <1>9, <1>10, <1>11, <1>12, <1>13, <1>14, <1>15, <1>16, <1>17, <1>18, <1>19, <1>20, <1>21, <1>22, <1>23, <1>24, <1>25, <1>26, <1>27, <1>28, <1>29, <1>30, <1>31, <1>32, <1>33, <1>34, <1>35, <1>36, <1>37, <1>38, <1>39, <1>40, <1>41, <1>42, <1>43, <1>44 DEF SessionNext, ClientSteps, Works

\* No request was made yet.
LEMMA SessionStarts == SessionInit => SessionInv
<1> SUFFICES ASSUME SessionInit PROVE SessionInv
  OBVIOUS
<1> USE DEF SessionInit, AuthorityInit
<1>1. SessionTypeOK
  <2>1. AuthorityTypeOK
    BY ChangesAssumption DEF AuthorityTypeOK, Rounds
  <2>2. /\ asked \in [Requests -> BOOLEAN] /\ requestSent \in BOOLEAN /\ cancelSent \in BOOLEAN
        /\ up \in [Requests -> BOOLEAN] /\ started \in [Requests -> BOOLEAN] /\ cancel \in [Requests -> BOOLEAN]
        /\ heard \in [Requests -> BOOLEAN] /\ full \in [Requests -> BOOLEAN]
    OBVIOUS
  <2> QED BY <2>1, <2>2 DEF SessionTypeOK, Fingers
<1>2. PhaseInv /\ KindInv
  BY DEF PhaseInv, KindInv
<1>3. CheckInv
  BY DEF CheckInv, CheckOf
<1>4. FingerInv
  BY WorkerNames DEF FingerInv, FingerOf, Before
<1>5. StopInv
  BY DEF StopInv, StopOf, OwnedUntilDone, Calling
<1> QED BY <1>1, <1>2, <1>3, <1>4, <1>5 DEF SessionInv

\* Whatever the requests, the waiters and the changes of the world: the phases of the two
\* ends of a connection agree, the last check is as far as its reads, what a worker is about
\* to report is so, and a Stop is where somebody will see it.
THEOREM SessionInvariance == SessionSpec => []SessionInv
<1>1. SessionInv /\ [SessionNext]_sessionVars => SessionInv'
  BY NextTypes, NextPhase, NextCheck, NextKind, NextFinger, NextStop DEF SessionInv
<1> QED BY SessionStarts, <1>1, PTL DEF SessionSpec

\* dispatch_allowed of the broker and of the native owners: no command is sent that one
\* last check has not cleared, with the process, the connection and the grant standing at
\* the moment at which the session was seen active.
THEOREM DispatchAlwaysWitnessed == SessionSpec => []DispatchWitnessed
<1>1. SessionInv => DispatchWitnessed
  <2> SUFFICES ASSUME SessionInv, NEW o \in Requests, worker[o] \in {"capture", "delete"},
                      NEW i \in 1 .. Len(DispatchReads)
               PROVE  /\ DispatchReads[i] \in since[o]
                      /\ DispatchReads[i] \in Lasting => DispatchReads[i] \in witness[o]
    BY DEF DispatchWitnessed
  <2>1. CheckOf(o) /\ next[o] \in Nat
    BY DEF SessionInv, CheckInv, SessionTypeOK, AuthorityTypeOK
  <2>2. round[o] = "dispatch" /\ next[o] > Len(DispatchReads)
    BY <2>1, DispatchOrder DEF CheckOf, Through
  <2>3. Sandwich(DispatchReads) /\ Len(DispatchReads) \in Nat
    BY DispatchOrder DEF Sandwich
  <2>4. DispatchReads[i] \in since[o]
    BY <2>1, <2>2, <2>3 DEF CheckOf
  <2>5. CASE i \in 3 .. Len(DispatchReads)
    BY <2>1, <2>2, <2>3, <2>4, <2>5 DEF CheckOf
  <2>6. CASE i = 2
    BY <2>3, <2>4, <2>6 DEF Sandwich, Lasting
  <2>7. CASE i = 1
    <3>1. DispatchReads[1] = DispatchReads[3] /\ 3 \in 3 .. Len(DispatchReads)
      BY <2>3 DEF Sandwich
    <3> QED BY <2>1, <2>2, <2>3, <2>4, <2>7, <3>1 DEF CheckOf
  <2> QED BY <2>5, <2>6, <2>7, <2>3
<1> QED BY <1>1, SessionInvariance, PTL

\* The worker clients and their workers: every variable keeps its type, what the caller is
\* told is so, the enrollment that runs is the client's task, and no Stop is lost.
THEOREM SessionAlwaysSound == SessionSpec => []SessionSound
<1>1. SessionInv => SessionSound
  <2> SUFFICES ASSUME SessionInv PROVE SessionSound
    OBVIOUS
  <2>1. SessionTypeOK /\ OwnedUntilDone
    BY DEF SessionInv, StopInv
  <2>2. TerminalsHold
    <3> SUFFICES ASSUME NEW o \in Requests
                 PROVE  /\ Reported(o, "completed") => finger[o] \in Complete(o)
                        /\ Reported(o, "failed") \/ Reported(o, "data-full") => finger[o] = "none"
      BY DEF TerminalsHold
    <3>1. FingerOf(o) /\ mail[o] \in Statuses \cup {NoOne}
      BY DEF SessionInv, FingerInv, SessionTypeOK
    <3>2. ASSUME NEW s \in {"completed", "failed", "data-full"}, Reported(o, s) PROVE Settled(o, s)
      <4>1. CASE told[o] = s
        BY <3>1, <3>2, <4>1 DEF FingerOf
      <4>2. CASE mail[o] = s
        BY <3>1, <3>2, <4>2, WorkerNames DEF FingerOf
      <4> QED BY <3>2, <4>1, <4>2 DEF Reported
    <3> QED BY <3>2 DEF Settled
  <2>3. StopNotLost
    BY DEF SessionInv, StopInv, StopOf, StopNotLost, Sent
  <2> QED BY <2>1, <2>2, <2>3 DEF SessionSound
<1> QED BY <1>1, SessionInvariance, PTL
=============================================================================
