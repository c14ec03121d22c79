----------------------------- MODULE MCResults -----------------------------
(* Values for the constants of Results.                                    *)
EXTENDS Results

NoneOrTwo == {0, 2}
=============================================================================
