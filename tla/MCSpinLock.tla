----------------------------- MODULE MCSpinLock -----------------------------
(* Two CPUs, two processes, ptable.lock and a device lock under which the  *)
(* kernel calls wakeup() and sleep(), like tickslock or idelock.           *)
EXTENDS SpinLock, TLC

CONSTANTS c1, c2, p1, p2, ticks

MCCpu == {c1, c2}
MCProc == {p1, p2}
MCLock == {ptable, ticks}
MCNest == {<<ticks, ptable>>}
MCSymmetry == Permutations(MCCpu) \cup Permutations(MCProc)
=============================================================================
