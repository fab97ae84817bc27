------------------------------- MODULE MCLog -------------------------------
(* Two processes that write to three blocks, or to two.                    *)
EXTENDS Log, TLC

CONSTANTS p1, p2, b1, b2, b3

MCProc == {p1, p2}
MCSymmetry == Permutations(MCProc) \cup Permutations({b2, b3})

=============================================================================
