--------------------------- MODULE MCFprintDevice ---------------------------
(* Model-checking instance of FprintDevice. *)
EXTENDS FprintDevice
CONSTANTS s1, s2, c1, c2, c3

TwoSenders == {s1, s2}
ThreeCalls == {c1, c2, c3}

\* A bound: where enrollment is enabled, only one of the clients enrolls, verifies and
\* deletes, and dies or departs; the other one competes for the claim.
OneClientEnrolls == enrollment =>
  /\ s2 \notin dead /\ pc[s2] = "idle"
  /\ \A c \in Calls : snd[c] = s2 => op[c] \in {"Claim", "Release"}
=============================================================================
