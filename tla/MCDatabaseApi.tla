--------------------------- MODULE MCDatabaseApi ----------------------------
EXTENDS DatabaseApi

CONSTANTS k1, k2, d1, d2, c1, c2, c3, o1

TwoKeys    == {k1, k2}
ThreeCalls == {c1, c2, c3}
TwoDbs     == {d1, d2}
OneOp      == {o1}
=============================================================================
