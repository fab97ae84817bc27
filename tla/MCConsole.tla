----------------------------- MODULE MCConsole -----------------------------
(***************************************************************************)
(* Two readers and a ring of three characters; the indices wrap at six.    *)
(***************************************************************************)
EXTENDS Console, TLC

CONSTANTS p1, p2
MCReader == {p1, p2}
MCSymmetry == Permutations(MCReader)
MCChar == {"a", "b"}

=============================================================================
