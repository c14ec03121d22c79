-------------------------- MODULE MCRequestCancel --------------------------
(* Values for the constants of RequestCancel.                              *)
EXTENDS RequestCancel

CONSTANTS r1, r2, k1, k2

TwoRuns    == {r1, r2}
TwoCancels == {k1, k2}
=============================================================================
