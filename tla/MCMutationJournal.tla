------------------------- MODULE MCMutationJournal -------------------------
(* Model-checking instance of MutationJournal. *)
EXTENDS MutationJournal
CONSTANTS p1, p2

MCProcs == {p1, p2}
=============================================================================
