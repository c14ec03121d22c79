--------------------------- MODULE MCTruncateAll ---------------------------
(* Values for the constants of TruncateAll.                                *)
EXTENDS TruncateAll

CONSTANTS t1, t2, t3

ThreeTables == {t1, t2, t3}

\* Redshift, the releases around 8.4, one with a part that is no number, and the
\* numbers of two digits.
Reported == {<<8, 0, 2>>, <<8, 3, 23>>, <<8, 4>>, <<8, 4, NaN>>, <<9, 0>>, <<10>>, <<12, 3>>}
=============================================================================
