-------------------------- MODULE MCServerSession --------------------------
(* Values for the constants of ServerSession, and its symmetry.            *)
EXTENDS ServerSession, TLC

CONSTANTS k1, k2, d1, d2, d3, c1, c2, c3

TwoKeys  == {k1, k2}
TwoDbs   == {d1, d2}
ThreeDbs == {d1, d2, d3}
TwoCalls   == {c1, c2}
ThreeCalls == {c1, c2, c3}

\* The identities are interchangeable; used by the runs of safety properties only.
Symmetry == Permutations(Keys) \cup Permutations(Dbs) \cup Permutations(Calls)
=============================================================================
