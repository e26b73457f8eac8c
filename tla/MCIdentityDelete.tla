-------------------------- MODULE MCIdentityDelete --------------------------
(* Model-checking instance of IdentityDelete. *)
EXTENDS IdentityDelete
CONSTANTS f1, f2

MCIds == {f1, f2}
=============================================================================
