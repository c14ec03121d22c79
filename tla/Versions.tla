------------------------------ MODULE Versions ------------------------------
(***************************************************************************)
(* versionCompare() of utils.ts, on which the PostgreSQL adapter decides   *)
(* what a server understands.  A version is the sequence of the numbers    *)
(* between its dots; a part that does not start with a digit is NaN, which *)
(* no comparison of JavaScript holds for.                                  *)
(***************************************************************************)
EXTENDS Integers, Sequences

NaN     == -1
Part    == Nat \cup {NaN}
Version == Seq(Part)

Greater(x, y) == x # NaN /\ y # NaN /\ x > y

\* The parts that are compared: as many as the shorter version has.
Common(a, b) == DOMAIN a \cap DOMAIN b

\* The first parts that differ decide.
Exceeds(a, b) ==
    \E i \in Common(a, b) :
        /\ Greater(a[i], b[i])
        /\ \A j \in Common(a, b) : j < i => ~Greater(b[j], a[j])

\* The mutant compares the texts: the first digit decides.
Digit(x) == IF x < 10 THEN x ELSE x \div 10
TextCompare(a, b) ==
    IF Digit(a[1]) > Digit(b[1]) THEN 1 ELSE IF Digit(a[1]) < Digit(b[1]) THEN -1
    ELSE IF Exceeds(a, b) THEN 1 ELSE IF Exceeds(b, a) THEN -1 ELSE 0
VersionCompare(a, b) ==
    IF Exceeds(a, b) THEN 1 ELSE IF Exceeds(b, a) THEN -1 ELSE 0
=============================================================================
