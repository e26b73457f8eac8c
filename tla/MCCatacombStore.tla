-------------------------- MODULE MCCatacombStore --------------------------
(* Model-checking instance of CatacombStore. *)
EXTENDS CatacombStore
CONSTANTS v1, v2

\* biolockout.cat < master.cat < user_*.cat in sorted() order
MCNames == 1..3
MCValues == {v1, v2}
=============================================================================
