--------------------------- MODULE MCSepTransport ---------------------------
(* An instance of SepTransport for TLC. *)
EXTENDS SepTransport, TLC

\* Sessions are alike, and so are contexts.
Alike == Permutations(Sessions) \cup Permutations(Contexts)

=============================================================================
