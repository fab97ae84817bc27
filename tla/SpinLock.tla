------------------------------ MODULE SpinLock ------------------------------
(***************************************************************************)
(* The spin locks of spinlock.c at the grain of their memory accesses,     *)
(* together with what they rely on: the per-CPU nesting of cli (pushcli,   *)
(* popcli), device interrupts that run a handler on top of a kernel        *)
(* thread, and the hand-over of ptable.lock from one kernel thread to      *)
(* another in sched() and scheduler().                                     *)
(*                                                                         *)
(* A kernel thread is a process of Proc, or the scheduler thread of a CPU, *)
(* which is named by the CPU itself.  A thread is outside interrupts       *)
(* (level "thread"), in an interrupt handler ("intr"), or on its way from  *)
(* forkret() to user space for the first time ("new").  A local variable   *)
(* of a thread (lk, eflags, sintena) has its initial value while it is     *)
(* dead.                                                                   *)
(***************************************************************************)
EXTENDS Naturals, FiniteSets

CONSTANTS
  Cpu,      \* the CPUs
  Proc,     \* the kernel threads of processes
  Lock,     \* the spin locks
  ptable,   \* the lock of the process table
  Nest,     \* <<h, l>>: the kernel acquires l somewhere while it holds h
  NoCpu     \* lk->cpu == 0

ASSUME LockAssumption ==
  /\ Cpu \cap Proc = {}
  /\ NoCpu \notin Cpu
  /\ ptable \in Lock
  /\ IsFiniteSet(Lock)

VARIABLES
  locked,   \* locked[l]  lk->locked
  lkcpu,    \* lkcpu[l]   lk->cpu
  ncli,     \* ncli[c]    cpu->ncli
  intena,   \* intena[c]  cpu->intena
  iflag,    \* iflag[c]   the FL_IF bit of the CPU's eflags
  curr,     \* curr[c]    the kernel thread the CPU is executing
  pc,       \* pc[t]      where thread t is
  lk,       \* lk[t]      the argument of its current acquire() or release()
  eflags,   \* eflags[t]  pushcli()'s local variable
  mine,     \* mine[t]    locks its current level has acquired, not released
  level,    \* level[t]   "thread", "intr" or "new"
  saved,    \* saved[t]   what the interrupt handler returns to
  sintena   \* sintena[t] sched()'s local variable intena

vars == <<locked, lkcpu, ncli, intena, iflag, curr, pc, lk, eflags, mine,
          level, saved, sintena>>

Thread == Cpu \cup Proc

Pcs == {"run", "push", "acq1", "acq2", "spin", "own", "rel1", "rel2",
        "clear", "unlock", "pop", "off", "forkret", "panic"}

Frame == [pc : Pcs, lk : Lock, eflags : {0, 1}, mine : SUBSET Lock,
          level : {"thread", "new"}]

\* The frame of a thread no interrupt handler runs on.
NoFrame == [pc |-> "run", lk |-> ptable, eflags |-> 0, mine |-> {},
            level |-> "thread"]

\* The locks the code running on CPU c has acquired and not yet released.
Held(c) == mine[curr[c]] \cup saved[curr[c]].mine

-----------------------------------------------------------------------------

\* Every CPU boots with interrupts off and runs its scheduler thread; the
\* processes exist but have not run: swtch will take them to forkret().
Init ==
  /\ locked = [l \in Lock |-> 0]
  /\ lkcpu = [l \in Lock |-> NoCpu]
  /\ ncli = [c \in Cpu |-> 0]
  /\ intena = [c \in Cpu |-> 0]
  /\ iflag = [c \in Cpu |-> 0]
  /\ curr = [c \in Cpu |-> c]
  /\ pc = [t \in Thread |-> IF t \in Proc THEN "forkret" ELSE "run"]
  /\ lk = [t \in Thread |-> ptable]
  /\ eflags = [t \in Thread |-> 0]
  /\ mine = [t \in Thread |-> IF t \in Proc THEN {ptable} ELSE {}]
  /\ level = [t \in Thread |-> IF t \in Proc THEN "new" ELSE "thread"]
  /\ saved = [t \in Thread |-> NoFrame]
  /\ sintena = [t \in Thread |-> 0]

At(c, p) == pc[curr[c]] = p
Goto(c, p) == pc' = [pc EXCEPT ![curr[c]] = p]

\* acquire(l) is called: pushcli() reads eflags.  Code acquires only locks its
\* own level does not hold, nested the way Nest says; a scheduler thread has
\* executed sti() and starts with ptable.lock.
Acquire(c, l) ==
  /\ At(c, "run")
  /\ l \notin mine[curr[c]]
  /\ \A h \in mine[curr[c]] : <<h, l>> \in Nest
  /\ (curr[c] = c /\ level[c] = "thread" /\ mine[c] = {}) =>
        iflag[c] = 1 /\ l = ptable
  /\ lk' = [lk EXCEPT ![curr[c]] = l]
  /\ eflags' = [eflags EXCEPT ![curr[c]] = iflag[c]]
  /\ Goto(c, "push")
  /\ UNCHANGED <<locked, lkcpu, ncli, intena, iflag, curr, mine, level, saved, sintena>>

\* The rest of pushcli(): cli, and from there on nothing interrupts this CPU.
Pushcli(c) ==
  /\ At(c, "push")
  /\ iflag' = [iflag EXCEPT ![c] = 0]
  /\ ncli' = [ncli EXCEPT ![c] = @ + 1]
  /\ intena' = [intena EXCEPT ![c] = IF ncli[c] = 0 THEN eflags[curr[c]] ELSE @]
  /\ eflags' = [eflags EXCEPT ![curr[c]] = 0]
  /\ Goto(c, "acq1")
  /\ UNCHANGED <<locked, lkcpu, curr, lk, mine, level, saved, sintena>>

\* Fault: holding() does not ask who holds the lock.
AcquireAnyHolder(c) ==
  /\ At(c, "acq1")
  /\ Goto(c, IF locked[lk[curr[c]]] = 1 THEN "panic" ELSE "spin")
  /\ UNCHANGED <<locked, lkcpu, ncli, intena, iflag, curr, lk, eflags, mine, level, saved, sintena>>

\* holding(lk) in acquire(): it reads lk->locked, then lk->cpu, while other
\* CPUs may write both.
AcquireReadLocked(c) ==
  /\ At(c, "acq1")
  /\ Goto(c, IF locked[lk[curr[c]]] = 1 THEN "acq2" ELSE "spin")
  /\ UNCHANGED <<locked, lkcpu, ncli, intena, iflag, curr, lk, eflags, mine, level, saved, sintena>>

AcquireReadCpu(c) ==
  /\ At(c, "acq2")
  /\ Goto(c, IF lkcpu[lk[curr[c]]] = c THEN "panic" ELSE "spin")
  /\ UNCHANGED <<locked, lkcpu, ncli, intena, iflag, curr, lk, eflags, mine, level, saved, sintena>>

\* Fault: the exchange does not look at the value it replaces.
AcquireXchgBlind(c) ==
  /\ At(c, "spin")
  /\ locked' = [locked EXCEPT ![lk[curr[c]]] = 1]
  /\ mine' = [mine EXCEPT ![curr[c]] = @ \cup {lk[curr[c]]}]
  /\ Goto(c, "own")
  /\ UNCHANGED <<lkcpu, ncli, intena, iflag, curr, lk, eflags, level, saved, sintena>>

\* The xchg that finds the lock free (one that does not changes nothing).
AcquireXchg(c) ==
  /\ At(c, "spin")
  /\ locked[lk[curr[c]]] = 0
  /\ locked' = [locked EXCEPT ![lk[curr[c]]] = 1]
  /\ mine' = [mine EXCEPT ![curr[c]] = @ \cup {lk[curr[c]]}]
  /\ Goto(c, "own")
  /\ UNCHANGED <<lkcpu, ncli, intena, iflag, curr, lk, eflags, level, saved, sintena>>

AcquireSetCpu(c) ==
  /\ At(c, "own")
  /\ lkcpu' = [lkcpu EXCEPT ![lk[curr[c]]] = c]
  /\ lk' = [lk EXCEPT ![curr[c]] = ptable]
  /\ Goto(c, "run")
  /\ UNCHANGED <<locked, ncli, intena, iflag, curr, eflags, mine, level, saved, sintena>>

\* release(l) is called for a lock the current level holds.
Release(c, l) ==
  /\ At(c, "run")
  /\ l \in mine[curr[c]]
  /\ lk' = [lk EXCEPT ![curr[c]] = l]
  /\ Goto(c, "rel1")
  /\ UNCHANGED <<locked, lkcpu, ncli, intena, iflag, curr, eflags, mine, level, saved, sintena>>

ReleaseReadLocked(c) ==
  /\ At(c, "rel1")
  /\ Goto(c, IF locked[lk[curr[c]]] = 1 THEN "rel2" ELSE "panic")
  /\ UNCHANGED <<locked, lkcpu, ncli, intena, iflag, curr, lk, eflags, mine, level, saved, sintena>>

ReleaseReadCpu(c) ==
  /\ At(c, "rel2")
  /\ Goto(c, IF lkcpu[lk[curr[c]]] = c THEN "clear" ELSE "panic")
  /\ UNCHANGED <<locked, lkcpu, ncli, intena, iflag, curr, lk, eflags, mine, level, saved, sintena>>

\* Fault: lk->cpu is not cleared.
ReleaseKeepsCpu(c) ==
  /\ At(c, "clear")
  /\ Goto(c, "unlock")
  /\ UNCHANGED <<locked, lkcpu, ncli, intena, iflag, curr, lk, eflags, mine, level, saved, sintena>>

\* lk->cpu = 0 comes before the xchg that frees the lock.
ReleaseClearCpu(c) ==
  /\ At(c, "clear")
  /\ lkcpu' = [lkcpu EXCEPT ![lk[curr[c]]] = NoCpu]
  /\ Goto(c, "unlock")
  /\ UNCHANGED <<locked, ncli, intena, iflag, curr, lk, eflags, mine, level, saved, sintena>>

ReleaseXchg(c) ==
  /\ At(c, "unlock")
  /\ locked' = [locked EXCEPT ![lk[curr[c]]] = 0]
  /\ mine' = [mine EXCEPT ![curr[c]] = @ \ {lk[curr[c]]}]
  /\ lk' = [lk EXCEPT ![curr[c]] = ptable]
  /\ Goto(c, "pop")
  /\ UNCHANGED <<lkcpu, ncli, intena, iflag, curr, eflags, level, saved, sintena>>

\* Fault: interrupts come back on at every popcli().
PopcliEager(c) ==
  /\ At(c, "pop")
  /\ Goto(c, "run")
  /\ ncli' = [ncli EXCEPT ![c] = @ - 1]
  /\ iflag' = [iflag EXCEPT ![c] = intena[c]]
  /\ UNCHANGED <<locked, lkcpu, intena, curr, lk, eflags, mine, level, saved, sintena>>

Popcli(c) ==
  /\ At(c, "pop")
  /\ IF iflag[c] = 1 \/ ncli[c] = 0
     THEN /\ Goto(c, "panic")
          /\ UNCHANGED <<ncli, iflag>>
     ELSE /\ Goto(c, "run")
          /\ ncli' = [ncli EXCEPT ![c] = @ - 1]
          /\ iflag' = IF ncli[c] = 1 /\ intena[c] = 1 THEN [iflag EXCEPT ![c] = 1]
                                                      ELSE iflag
  /\ UNCHANGED <<locked, lkcpu, intena, curr, lk, eflags, mine, level, saved, sintena>>

-----------------------------------------------------------------------------

\* A device interrupt: its gate clears FL_IF and trap() runs on the stack of
\* the interrupted thread.
Interrupt(c) ==
  LET t == curr[c] IN
  /\ iflag[c] = 1
  /\ level[t] /= "intr"
  /\ pc[t] /= "panic"
  /\ iflag' = [iflag EXCEPT ![c] = 0]
  /\ saved' = [saved EXCEPT ![t] = [pc |-> pc[t], lk |-> lk[t], eflags |-> eflags[t],
                                    mine |-> mine[t], level |-> level[t]]]
  /\ level' = [level EXCEPT ![t] = "intr"]
  /\ mine' = [mine EXCEPT ![t] = {}]
  /\ lk' = [lk EXCEPT ![t] = ptable]
  /\ eflags' = [eflags EXCEPT ![t] = 0]
  /\ Goto(c, "run")
  /\ UNCHANGED <<locked, lkcpu, ncli, intena, curr, sintena>>

\* iret at the end of trapret, from an interrupt or (first run of a process)
\* to user space: eflags come from the trap frame, which has FL_IF set.
Iret(c) ==
  LET t == curr[c] IN
  /\ At(c, "run")
  /\ level[t] /= "thread"
  /\ mine[t] = {}
  /\ iflag' = [iflag EXCEPT ![c] = 1]
  /\ IF level[t] = "intr"
     THEN /\ pc' = [pc EXCEPT ![t] = saved[t].pc]
          /\ lk' = [lk EXCEPT ![t] = saved[t].lk]
          /\ eflags' = [eflags EXCEPT ![t] = saved[t].eflags]
          /\ mine' = [mine EXCEPT ![t] = saved[t].mine]
          /\ level' = [level EXCEPT ![t] = saved[t].level]
          /\ saved' = [saved EXCEPT ![t] = NoFrame]
     ELSE /\ level' = [level EXCEPT ![t] = "thread"]
          /\ UNCHANGED <<pc, lk, eflags, mine, saved>>
  /\ UNCHANGED <<locked, lkcpu, ncli, intena, curr, sintena>>

\* sti() at the top of scheduler()'s loop.
Sti(c) ==
  /\ At(c, "run")
  /\ curr[c] = c
  /\ level[c] = "thread"
  /\ mine[c] = {}
  /\ iflag' = [iflag EXCEPT ![c] = 1]
  /\ UNCHANGED <<locked, lkcpu, ncli, intena, curr, pc, lk, eflags, mine, level, saved, sintena>>

\* sched(), called with only ptable.lock held by sleep(), yield() or exit(),
\* from a system call or from the timer interrupt: the CPU goes on in its
\* scheduler thread and cpu->intena stays with the process.  Of the tests of sched()
\* the one of proc->state ("sched running") is left out: states are in module Proc,
\* where every caller has changed its own before.
Sched(c) ==
  LET p == curr[c] IN
  /\ At(c, "run")
  /\ p \in Proc
  /\ mine[p] = {ptable}
  /\ IF locked[ptable] = 0 \/ lkcpu[ptable] /= c \/ ncli[c] /= 1 \/ iflag[c] = 1
     THEN /\ Goto(c, "panic")
          /\ UNCHANGED <<curr, sintena>>
     ELSE /\ Goto(c, "off")
          /\ sintena' = [sintena EXCEPT ![p] = intena[c]]
          /\ curr' = [curr EXCEPT ![c] = c]
  /\ UNCHANGED <<locked, lkcpu, ncli, intena, iflag, lk, eflags, mine, level, saved>>

\* Fault: sched() does not give the process its intena back.
DispatchKeepsIntena(c, p) ==
  /\ At(c, "run")
  /\ curr[c] = c
  /\ level[c] = "thread"
  /\ mine[c] = {ptable}
  /\ curr' = [curr EXCEPT ![c] = p]
  /\ pc[p] \in {"off", "forkret"}
  /\ pc' = [pc EXCEPT ![p] = IF @ = "off" THEN "run" ELSE "rel1"]
  /\ sintena' = [sintena EXCEPT ![p] = 0]
  /\ UNCHANGED <<locked, lkcpu, ncli, intena, iflag, lk, eflags, mine, level, saved>>

\* scheduler() switches to a process: into the rest of its sched(), which
\* restores cpu->intena, or into forkret(), which releases ptable.lock.
Dispatch(c, p) ==
  /\ At(c, "run")
  /\ curr[c] = c
  /\ level[c] = "thread"
  /\ mine[c] = {ptable}
  /\ curr' = [curr EXCEPT ![c] = p]
  /\ \/ /\ pc[p] = "off"
        /\ pc' = [pc EXCEPT ![p] = "run"]
        /\ intena' = [intena EXCEPT ![c] = sintena[p]]
        /\ sintena' = [sintena EXCEPT ![p] = 0]
     \/ /\ pc[p] = "forkret"
        /\ pc' = [pc EXCEPT ![p] = "rel1"]
        /\ UNCHANGED <<intena, sintena>>
  /\ UNCHANGED <<locked, lkcpu, ncli, iflag, lk, eflags, mine, level, saved>>

Next ==
  \E c \in Cpu :
    \/ \E l \in Lock : Acquire(c, l) \/ Release(c, l)
    \/ Pushcli(c)
    \/ AcquireReadLocked(c)
    \/ AcquireReadCpu(c)
    \/ AcquireXchg(c)
    \/ AcquireSetCpu(c)
    \/ ReleaseReadLocked(c)
    \/ ReleaseReadCpu(c)
    \/ ReleaseClearCpu(c)
    \/ ReleaseXchg(c)
    \/ Popcli(c)
    \/ Interrupt(c)
    \/ Iret(c)
    \/ Sti(c)
    \/ Sched(c)
    \/ \E p \in Proc : Dispatch(c, p)

Spec == Init /\ [][Next]_vars

-----------------------------------------------------------------------------

TypeOK ==
  /\ locked \in [Lock -> {0, 1}]
  /\ lkcpu \in [Lock -> Cpu \cup {NoCpu}]
  /\ ncli \in [Cpu -> Nat]
  /\ intena \in [Cpu -> {0, 1}]
  /\ iflag \in [Cpu -> {0, 1}]
  /\ curr \in [Cpu -> Thread]
  /\ pc \in [Thread -> Pcs]
  /\ lk \in [Thread -> Lock]
  /\ eflags \in [Thread -> {0, 1}]
  /\ mine \in [Thread -> SUBSET Lock]
  /\ level \in [Thread -> {"thread", "intr", "new"}]
  /\ saved \in [Thread -> Frame]
  /\ sintena \in [Thread -> {0, 1}]

\* No two CPUs are between the acquire() and the release() of the same lock,
\* although ptable.lock is acquired by one kernel thread and released by another.
MutualExclusion ==
  \A c, d \in Cpu : c /= d => Held(c) \cap Held(d) = {}

\* holding(), which reads two fields that other CPUs write without a lock,
\* answers exactly for the CPU that asks: release() clears lk->cpu before it
\* frees the lock and acquire() sets it after it took the lock.
HoldingExact ==
  \A c \in Cpu, l \in Lock :
    At(c, "run") => ((locked[l] = 1 /\ lkcpu[l] = c) <=> l \in Held(c))

\* Interrupts are off on a CPU that holds a lock, so no handler spins for a
\* lock that the code it interrupted would have to release.
MaskedWhileHeld == \A c \in Cpu : Held(c) /= {} => iflag[c] = 0

\* Once the locks are released interrupts are as the thread had them, on
\* whatever CPU it runs now: off in a handler, on in a process outside one.
InterruptsRestored ==
  \A c \in Cpu :
    (At(c, "run") /\ Held(c) = {}) =>
      /\ level[curr[c]] = "intr" => iflag[c] = 0
      /\ (level[curr[c]] = "thread" /\ curr[c] \in Proc) => iflag[c] = 1

\* None of the panics of acquire(), release() and popcli() is reached, and none of
\* those of sched() about ptable.lock, the nesting of locks and interrupts.
NoPanic == \A t \in Thread : pc[t] /= "panic"

=============================================================================
