---------------------------- MODULE MCEnrollment ----------------------------
(* Model-checking instance of Enrollment. *)
EXTENDS Enrollment, TLC
CONSTANTS f1, f2

MCIds == {f1, f2}
=============================================================================
