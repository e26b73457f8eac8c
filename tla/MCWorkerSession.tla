--------------------------- MODULE MCWorkerSession ---------------------------
(* WorkerSession for TLC: the requests are alike, and so are the waiters; the first name is *)
(* used first. *)
EXTENDS WorkerSession

CONSTANTS o1, o2, w1, w2

\* The world changes under a single request that nobody stops.
OneChanges == changes > 0 => kind[o2] = NoOne /\ \A w \in Waiters : stop[w] = "idle"

\* A second request comes while the worker of the first is left, not reading, or while a
\* Stop of the first is; it is followed until it has the lock.
SecondMeetsFirst ==
    kind[o2] # NoOne => /\ kind[o1] # NoOne /\ worker[o1] \notin {"admit", "authorize"}
                       /\ worker[o2] # "authorize"
                       /\ IF worker[o1] \in Working THEN \A w \in Waiters : stop[w] = "idle"
                          ELSE \E w \in Waiters : target[w] = o1

Bounds == OneChanges /\ SecondMeetsFirst /\ (stop[w2] # "idle" => stop[w1] # "idle")
=============================================================================
