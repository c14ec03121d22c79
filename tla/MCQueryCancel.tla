--------------------------- MODULE MCQueryCancel ---------------------------
(* Values for the constants of QueryCancel.                                *)
EXTENDS QueryCancel

CONSTANTS q1, q2, r1, r2, k1, k2, b1, b2, b3, b4

TwoQueries == {q1, q2}
TwoRuns    == {r1, r2}
OneCancel  == {k1}
TwoCancels == {k1, k2}
TwoConns   == {b1, b2}
FourConns  == {b1, b2, b3, b4}

Postgresql == {"postgresql"}
Both       == {"postgresql", "mysql"}
=============================================================================
