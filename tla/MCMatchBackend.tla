--------------------------- MODULE MCMatchBackend ---------------------------
(* An instance of MatchBackend for TLC. *)
EXTENDS MatchBackend, TLC

\* Worker processes are alike.
Alike == Permutations(Procs)

\* The two warm ups are alike: the second starts only while the first runs.
FirstWarm == ~Running("warmA") => task'["warmB"].pc # "new" \/ Running("warmB")

=============================================================================
