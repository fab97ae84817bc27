---------------------------- MODULE MCLockOrder ----------------------------
(* Three CPUs.                                                             *)
EXTENDS LockOrder, TLC

CONSTANTS c0, c1, c2

MCCpu == {c0, c1, c2}
MCSymmetry == Permutations(MCCpu)

=============================================================================
