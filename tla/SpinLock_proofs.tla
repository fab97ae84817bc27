--------------------------- MODULE SpinLock_proofs ---------------------------
(***************************************************************************)
(* The inductive invariant of SpinLock, for any number of CPUs, processes  *)
(* and locks and any nesting of the locks, its proof, and the theorems     *)
(* about SpinLock.                                                         *)
(***************************************************************************)
EXTENDS SpinLock, TLAPS

\* The program points of acquire() and release() where ncli counts one more
\* than the locks acquired.
Pushed == {"acq1", "acq2", "spin", "pop"}

Counted(p) == IF p \in Pushed THEN 1 ELSE 0

\* What FL_IF is, or will be once the locks are released.
Eff(c) == IF ncli[c] = 0 THEN iflag[c] ELSE intena[c]

\* Who runs where: a thread runs on at most one CPU, and a process that runs
\* nowhere stopped in sched() or waits for its first run.
Placed ==
  /\ \A c \in Cpu : curr[c] \in Proc \cup {c}
  /\ \A c, d \in Cpu : curr[c] = curr[d] => c = d
  /\ \A p \in Proc : pc[p] \notin {"off", "forkret"} => \E c \in Cpu : curr[c] = p
  /\ \A c \in Cpu : pc[curr[c]] \notin {"off", "forkret"}

\* A process that runs nowhere takes over ptable.lock, and nothing else, from
\* the scheduler thread that swtches to it; sched() keeps its intena for it.
Waiting(p) ==
  /\ pc[p] \in {"off", "forkret"} => mine[p] = {ptable}
  /\ pc[p] = "forkret" => lk[p] = ptable /\ level[p] = "new"
  /\ pc[p] = "off" /\ level[p] = "intr" => sintena[p] = 0
  /\ pc[p] = "off" /\ level[p] = "thread" => sintena[p] = 1

\* The scheduler thread of a CPU that runs a process stands behind its swtch.
Behind(c) == curr[c] /= c => pc[c] = "run" /\ level[c] = "thread" /\ mine[c] = {ptable}

\* An interrupt handler returns to code that held no lock and was not inside
\* acquire() or release() with interrupts off.
FrameOK(t) ==
  /\ saved[t].mine = {} /\ saved[t].pc \in {"run", "push"}
  /\ level[t] = "intr" /\ saved[t].pc = "push" => saved[t].eflags = 1

\* What the lock words say about the locks of the code on CPU c.
Locks(c) ==
  /\ \A l \in mine[curr[c]] : locked[l] = 1
  /\ \A l \in Lock : lkcpu[l] = c => l \in mine[curr[c]]
  /\ \A l \in mine[curr[c]] :
       lkcpu[l] /= c => pc[curr[c]] \in {"own", "unlock"} /\ lk[curr[c]] = l
  /\ pc[curr[c]] \in {"own", "rel1", "rel2", "clear", "unlock"} => lk[curr[c]] \in mine[curr[c]]
  /\ pc[curr[c]] \in {"push", "acq1", "acq2", "spin"} => lk[curr[c]] \notin mine[curr[c]]
  /\ pc[curr[c]] = "unlock" => lkcpu[lk[curr[c]]] /= c

\* What ncli counts.
Count(c) == ncli[c] = Cardinality(mine[curr[c]]) + Counted(pc[curr[c]])

\* What the interrupt flag is.
Flags(c) ==
  /\ iflag[c] = 1 => ncli[c] = 0
  /\ pc[curr[c]] = "push" => eflags[curr[c]] = iflag[c]
  /\ level[curr[c]] = "intr" => Eff(c) = 0
  /\ level[curr[c]] = "thread" /\ curr[c] \in Proc => Eff(c) = 1

CpuInv == \A c \in Cpu : Locks(c) /\ Count(c) /\ Flags(c)

Apart == \A c, d \in Cpu : c /= d => mine[curr[c]] \cap mine[curr[d]] = {}

IInv ==
  /\ TypeOK /\ NoPanic /\ Placed /\ CpuInv /\ Apart
  /\ \A p \in Proc : Waiting(p)
  /\ \A c \in Cpu : Behind(c)
  /\ \A t \in Thread : FrameOK(t)

-----------------------------------------------------------------------------

\* How many locks there are in the sets of locks a thread can hold.
LockCounts ==
  /\ \A S \in SUBSET Lock :
       /\ Cardinality(S) \in Nat
       /\ Cardinality(S) = 0 <=> S = {}
       /\ \A l \in Lock \ S : Cardinality(S \cup {l}) = Cardinality(S) + 1
       /\ \A l \in S : Cardinality(S \ {l}) = Cardinality(S) - 1
  /\ Cardinality({ptable}) = 1

LEMMA HeldCard ==
  ASSUME LockCounts, NEW S \in SUBSET Lock
  PROVE  /\ Cardinality(S) \in Nat
         /\ Cardinality(S) = 0 <=> S = {}
         /\ \A l \in Lock \ S : Cardinality(S \cup {l}) = Cardinality(S) + 1
         /\ \A l \in S : Cardinality(S \ {l}) = Cardinality(S) - 1
BY Zenon DEF LockCounts

\* A thread that holds ptable.lock only holds one lock.
LEMMA PtableCard == LockCounts => Cardinality({ptable}) = 1
BY Zenon DEF LockCounts

\* A thread that holds no lock.
LEMMA NoneCard == LockCounts => Cardinality({}) = 0
BY HeldCard, Zenon

\* The invariant holds when the CPUs enter scheduler().
LEMMA InitInv == LockCounts /\ Init => IInv
<1> SUFFICES ASSUME LockCounts, Init PROVE IInv
  BY Zenon
<1> USE LockAssumption DEF Init
<1>1. TypeOK
  BY Zenon DEF TypeOK, Thread, Pcs, Frame, NoFrame
<1>2. NoPanic /\ Placed
  BY Zenon DEF NoPanic, Placed, Thread
<1>3. ASSUME NEW c \in Cpu PROVE Locks(c) /\ Count(c) /\ Flags(c) /\ Behind(c)
  <2>1. curr[c] = c /\ mine[c] = {} /\ pc[c] = "run" /\ level[c] = "thread" /\ iflag[c] = 0
        /\ ncli[c] = 0 /\ c \notin Proc /\ \A l \in Lock : lkcpu[l] /= c
    BY Zenon DEF Thread
  <2> HIDE DEF Init
  <2> QED
    BY <2>1, NoneCard DEF Locks, Count, Counted, Pushed, Flags, Eff, Behind
<1>4. Apart
  BY Zenon DEF Apart, Thread
<1>5. ASSUME NEW p \in Proc PROVE Waiting(p)
  BY Zenon DEF Waiting, Thread
<1>6. ASSUME NEW t \in Thread PROVE FrameOK(t)
  BY Zenon DEF FrameOK, NoFrame
<1> QED
  BY <1>1, <1>2, <1>3, <1>4, <1>5, <1>6, Zenon DEF IInv, CpuInv

\* What ncli says about the locks held, at the points where the proofs of the
\* steps need it.
LEMMA CountFacts ==
  ASSUME LockCounts, IInv, NEW c \in Cpu
  PROVE  /\ curr[c] \in Thread /\ mine[curr[c]] \in SUBSET Lock /\ lk[curr[c]] \in Lock
         /\ Cardinality(mine[curr[c]]) \in Nat
         /\ Locks(c) /\ Count(c) /\ Flags(c)
         /\ pc[curr[c]] = "run" => (ncli[c] = 0 <=> mine[curr[c]] = {})
         /\ pc[curr[c]] = "run" /\ mine[curr[c]] = {ptable} => ncli[c] = 1
         /\ pc[curr[c]] \in Pushed => ncli[c] /= 0
         /\ ncli[c] = 0 => mine[curr[c]] = {} /\ pc[curr[c]] \in {"run", "push"}
<1>1. curr[c] \in Thread /\ mine[curr[c]] \in SUBSET Lock /\ lk[curr[c]] \in Lock
  BY Zenon DEF IInv, TypeOK
<1>2. /\ Cardinality(mine[curr[c]]) \in Nat
      /\ Cardinality(mine[curr[c]]) = 0 <=> mine[curr[c]] = {}
  BY <1>1, HeldCard, Zenon
<1>0. Locks(c) /\ Count(c) /\ Flags(c)
  BY Zenon DEF IInv, CpuInv
<1>3. ncli[c] = Cardinality(mine[curr[c]]) + Counted(pc[curr[c]])
  BY <1>0, Zenon DEF Count
<1>4. pc[curr[c]] \in Pcs \ {"off", "forkret", "panic"}
  BY <1>1, Zenon DEF IInv, TypeOK, NoPanic, Placed
<1>5. pc[curr[c]] \in {"own", "rel1", "rel2", "clear", "unlock"} => mine[curr[c]] /= {}
  BY <1>0, Zenon DEF Locks
<1>6. pc[curr[c]] = "run" => (ncli[c] = 0 <=> mine[curr[c]] = {})
  BY <1>2, <1>3 DEF Counted, Pushed
<1>7. pc[curr[c]] = "run" /\ mine[curr[c]] = {ptable} => ncli[c] = 1
  BY <1>3, PtableCard DEF Counted, Pushed
<1>8. pc[curr[c]] \in Pushed => ncli[c] /= 0
  BY <1>2, <1>3 DEF Counted
<1>9. ncli[c] = 0 => mine[curr[c]] = {} /\ pc[curr[c]] \in {"run", "push"}
  BY <1>2, <1>3, <1>4, <1>5 DEF Counted, Pushed, Pcs
<1> QED
  BY <1>0, <1>1, <1>2, <1>6, <1>7, <1>8, <1>9, Zenon

-----------------------------------------------------------------------------

\* A step that leaves thread t alone, one that leaves CPU d alone, and one that
\* leaves the words of the locks alone that are held on CPU d.
ThreadSame(t) ==
  /\ pc'[t] = pc[t] /\ lk'[t] = lk[t] /\ eflags'[t] = eflags[t] /\ mine'[t] = mine[t]
  /\ level'[t] = level[t] /\ saved'[t] = saved[t] /\ sintena'[t] = sintena[t]

CpuSame(d) ==
  curr'[d] = curr[d] /\ ncli'[d] = ncli[d] /\ intena'[d] = intena[d] /\ iflag'[d] = iflag[d]

LocksSame(d) ==
  /\ \A l \in mine[curr[d]] : locked'[l] = locked[l] /\ lkcpu'[l] = lkcpu[l]
  /\ \A l \in Lock : lkcpu'[l] = d => lkcpu[l] = d

\* What holds on a CPU goes on holding when it, its thread and its locks are left
\* alone.
LEMMA OtherCpu ==
  ASSUME IInv, NEW d \in Cpu, ThreadSame(curr[d]), CpuSame(d), LocksSame(d)
  PROVE  (Locks(d) /\ Count(d) /\ Flags(d))'
<1>1. Locks(d) /\ Count(d) /\ Flags(d) /\ curr[d] \in Thread /\ mine[curr[d]] \in SUBSET Lock
      /\ lk[curr[d]] \in Lock
  BY Zenon DEF IInv, CpuInv, TypeOK
<1>2. /\ curr'[d] = curr[d] /\ mine'[curr'[d]] = mine[curr[d]] /\ pc'[curr'[d]] = pc[curr[d]]
      /\ lk'[curr'[d]] = lk[curr[d]] /\ eflags'[curr'[d]] = eflags[curr[d]]
      /\ level'[curr'[d]] = level[curr[d]] /\ ncli'[d] = ncli[d] /\ intena'[d] = intena[d]
      /\ iflag'[d] = iflag[d]
  BY Zenon DEF ThreadSame, CpuSame
<1>3. Locks(d)'
  BY <1>1, <1>2 DEF Locks, LocksSame
<1>4. Count(d)'
  BY <1>1, <1>2, Zenon DEF Count
<1>5. Flags(d)'
  BY <1>1, <1>2, Zenon DEF Flags, Eff
<1> QED
  BY <1>3, <1>4, <1>5, Zenon

\* A step of the thread that runs on CPU c keeps the invariant, if it does so for
\* c and that thread, and leaves everything else alone.
LEMMA OnCpu ==
  ASSUME IInv, NEW c \in Cpu, TypeOK',
         \A t \in Thread : t /= curr[c] => ThreadSame(t),
         \A d \in Cpu : d /= c => CpuSame(d) /\ LocksSame(d),
         curr' = curr, pc'[curr[c]] \notin {"off", "forkret", "panic"},
         FrameOK(curr[c])', Locks(c)', Count(c)', Flags(c)',
         \A d \in Cpu : d /= c => mine'[curr[c]] \cap mine[curr[d]] = {}
  PROVE  IInv'
<1>1. \A d \in Cpu : d /= c => curr[d] \in Thread /\ curr[d] /= curr[c]
  BY Zenon DEF IInv, TypeOK, Placed
<1>2. NoPanic'
  BY Zenon DEF IInv, NoPanic, ThreadSame
<1>3. Placed'
  BY <1>1 DEF IInv, Placed, ThreadSame, Thread
<1>4. CpuInv'
  <2> SUFFICES ASSUME NEW d \in Cpu, d /= c PROVE (Locks(d) /\ Count(d) /\ Flags(d))'
    BY Zenon DEF CpuInv
  <2> QED
    BY <1>1, OtherCpu, Zenon
<1>5. Apart'
  BY <1>1 DEF IInv, Apart, ThreadSame
<1>6. ASSUME NEW p \in Proc PROVE Waiting(p)'
  <2>1. Waiting(p) /\ p \in Thread
    BY Zenon DEF IInv, Thread
  <2> QED
    BY <2>1, Zenon DEF Waiting, ThreadSame
<1>7. ASSUME NEW d \in Cpu PROVE Behind(d)'
  <2>1. Behind(d) /\ d \in Thread /\ (curr[d] /= d => d /= curr[c])
    BY LockAssumption DEF IInv, Thread, Placed
  <2> QED
    BY <2>1, Zenon DEF Behind, ThreadSame
<1>8. ASSUME NEW t \in Thread PROVE FrameOK(t)'
  BY DEF IInv, FrameOK, ThreadSame
<1> QED
  BY <1>2, <1>3, <1>4, <1>5, <1>6, <1>7, <1>8, Zenon DEF IInv

\* A step of acquire() or release() that changes no lock word.
LEMMA OnCpuLocksSame ==
  ASSUME IInv, NEW c \in Cpu, TypeOK',
         \A t \in Thread : t /= curr[c] => ThreadSame(t),
         \A d \in Cpu : d /= c => CpuSame(d),
         UNCHANGED <<locked, lkcpu, curr>>, mine'[curr[c]] = mine[curr[c]],
         pc'[curr[c]] \notin {"off", "forkret", "panic"},
         FrameOK(curr[c])', Locks(c)', Count(c)', Flags(c)'
  PROVE  IInv'
<1>1. \A d \in Cpu : d /= c => LocksSame(d)
  BY Zenon DEF LocksSame
<1>2. \A d \in Cpu : d /= c => mine'[curr[c]] \cap mine[curr[d]] = {}
  BY Zenon DEF IInv, Apart
<1>3. curr' = curr
  BY Zenon
<1> QED
  BY <1>1, <1>2, <1>3, OnCpu, Zenon

-----------------------------------------------------------------------------

\* The call of acquire() keeps the invariant.
LEMMA AcquireInv ==
  ASSUME LockCounts, IInv, NEW c \in Cpu, NEW l \in Lock, Acquire(c, l)
  PROVE  IInv'
<1>0. FrameOK(curr[c]) /\ curr[c] \in Thread /\ Locks(c) /\ Count(c) /\ Flags(c)
  BY CountFacts, Zenon DEF IInv
<1>1. TypeOK'
  BY Zenon DEF Acquire, Goto, IInv, TypeOK, Pcs
<1>2. /\ \A t \in Thread : t /= curr[c] => ThreadSame(t)
      /\ \A d \in Cpu : d /= c => CpuSame(d)
  BY Zenon DEF Acquire, Goto, IInv, TypeOK, ThreadSame, CpuSame
<1>3. /\ pc[curr[c]] = "run" /\ l \notin mine[curr[c]]
      /\ pc'[curr[c]] = "push" /\ lk'[curr[c]] = l /\ eflags'[curr[c]] = iflag[c]
  BY <1>0, Zenon DEF Acquire, Goto, At, IInv, TypeOK
<1>4. UNCHANGED <<locked, lkcpu, ncli, intena, iflag, curr, mine, level, saved>>
  BY Zenon DEF Acquire
<1>5. Locks(c)' /\ FrameOK(curr[c])'
  BY <1>0, <1>3, <1>4, Zenon DEF Locks, FrameOK
<1>6. Count(c)' /\ Flags(c)'
  BY <1>0, <1>3, <1>4, Zenon DEF Count, Counted, Pushed, Flags, Eff
<1>7. pc'[curr[c]] \notin {"off", "forkret", "panic"} /\ UNCHANGED <<locked, lkcpu, curr>>
      /\ mine'[curr[c]] = mine[curr[c]]
  BY <1>3, <1>4, Zenon
<1> QED
  BY <1>1, <1>2, <1>5, <1>6, <1>7, OnCpuLocksSame, Zenon

\* The call of release() keeps the invariant.
LEMMA ReleaseInv ==
  ASSUME LockCounts, IInv, NEW c \in Cpu, NEW l \in Lock, Release(c, l)
  PROVE  IInv'
<1>0. FrameOK(curr[c]) /\ curr[c] \in Thread /\ Locks(c) /\ Count(c) /\ Flags(c)
  BY CountFacts, Zenon DEF IInv
<1>1. TypeOK'
  BY Zenon DEF Release, Goto, IInv, TypeOK, Pcs
<1>2. /\ \A t \in Thread : t /= curr[c] => ThreadSame(t)
      /\ \A d \in Cpu : d /= c => CpuSame(d)
  BY Zenon DEF Release, Goto, IInv, TypeOK, ThreadSame, CpuSame
<1>3. /\ pc[curr[c]] = "run" /\ l \in mine[curr[c]]
      /\ pc'[curr[c]] = "rel1" /\ lk'[curr[c]] = l
  BY <1>0, Zenon DEF Release, Goto, At, IInv, TypeOK
<1>4. UNCHANGED <<locked, lkcpu, ncli, intena, iflag, curr, eflags, mine, level, saved>>
  BY Zenon DEF Release
<1>5. Locks(c)' /\ FrameOK(curr[c])'
  BY <1>0, <1>3, <1>4, Zenon DEF Locks, FrameOK
<1>6. Count(c)' /\ Flags(c)'
  BY <1>0, <1>3, <1>4, Zenon DEF Count, Counted, Pushed, Flags, Eff
<1>7. pc'[curr[c]] \notin {"off", "forkret", "panic"} /\ UNCHANGED <<locked, lkcpu, curr>>
      /\ mine'[curr[c]] = mine[curr[c]]
  BY <1>3, <1>4, Zenon
<1> QED
  BY <1>1, <1>2, <1>5, <1>6, <1>7, OnCpuLocksSame, Zenon

\* pushcli() keeps the invariant.
LEMMA PushcliInv ==
  ASSUME LockCounts, IInv, NEW c \in Cpu, Pushcli(c)
  PROVE  IInv'
<1>0. /\ FrameOK(curr[c]) /\ curr[c] \in Thread /\ Locks(c) /\ Count(c) /\ Flags(c)
      /\ Cardinality(mine[curr[c]]) \in Nat
  BY CountFacts, Zenon DEF IInv
<1>1. TypeOK'
  BY DEF Pushcli, Goto, IInv, TypeOK, Pcs
<1>2. /\ \A t \in Thread : t /= curr[c] => ThreadSame(t)
      /\ \A d \in Cpu : d /= c => CpuSame(d)
  BY Zenon DEF Pushcli, Goto, IInv, TypeOK, ThreadSame, CpuSame
<1>3. /\ pc[curr[c]] = "push" /\ pc'[curr[c]] = "acq1" /\ iflag'[c] = 0 /\ ncli'[c] = ncli[c] + 1
      /\ intena'[c] = IF ncli[c] = 0 THEN eflags[curr[c]] ELSE intena[c]
  BY <1>0, Zenon DEF Pushcli, Goto, At, IInv, TypeOK
<1>4. UNCHANGED <<locked, lkcpu, curr, lk, mine, level, saved>>
  BY Zenon DEF Pushcli
<1>5. Locks(c)' /\ FrameOK(curr[c])'
  BY <1>0, <1>3, <1>4, Zenon DEF Locks, FrameOK
<1>6. Count(c)'
  BY <1>0, <1>3, <1>4 DEF Count, Counted, Pushed
<1>7. Flags(c)'
  BY <1>0, <1>3, <1>4 DEF Count, Counted, Pushed, Flags, Eff
<1>8. pc'[curr[c]] \notin {"off", "forkret", "panic"} /\ UNCHANGED <<locked, lkcpu, curr>>
      /\ mine'[curr[c]] = mine[curr[c]]
  BY <1>3, <1>4, Zenon
<1> QED
  BY <1>1, <1>2, <1>5, <1>6, <1>7, <1>8, OnCpuLocksSame, Zenon

\* A step that only goes on behind a test of holding(), and not to panic(), keeps
\* the invariant.
LEMMA GotoInv ==
  ASSUME LockCounts, IInv, NEW c \in Cpu, NEW q, Goto(c, q),
         \/ At(c, "acq1") /\ q \in {"acq2", "spin"}
         \/ At(c, "acq2") /\ q = "spin"
         \/ At(c, "rel1") /\ q = "rel2"
         \/ At(c, "rel2") /\ q = "clear",
         UNCHANGED <<locked, lkcpu, ncli, intena, iflag, curr, lk, eflags, mine, level,
                     saved, sintena>>
  PROVE  IInv'
<1>0. FrameOK(curr[c]) /\ curr[c] \in Thread /\ Locks(c) /\ Count(c) /\ Flags(c)
  BY CountFacts, Zenon DEF IInv
<1>1. TypeOK'
  BY Zenon DEF Goto, At, IInv, TypeOK, Pcs
<1>2. /\ \A t \in Thread : t /= curr[c] => ThreadSame(t)
      /\ \A d \in Cpu : d /= c => CpuSame(d)
  BY Zenon DEF Goto, IInv, TypeOK, ThreadSame, CpuSame
<1>3. /\ pc'[curr[c]] = q
      /\ \/ pc[curr[c]] \in {"acq1", "acq2"} /\ q \in {"acq2", "spin"}
         \/ pc[curr[c]] \in {"rel1", "rel2"} /\ q \in {"rel2", "clear"}
  BY <1>0, Zenon DEF Goto, At, IInv, TypeOK
<1>5. Locks(c)' /\ FrameOK(curr[c])'
  BY <1>0, <1>3, Zenon DEF Locks, FrameOK
<1>6. Count(c)' /\ Flags(c)'
  BY <1>0, <1>3, Zenon DEF Count, Counted, Pushed, Flags, Eff
<1>7. pc'[curr[c]] \notin {"off", "forkret", "panic"} /\ UNCHANGED <<locked, lkcpu, curr>>
      /\ mine'[curr[c]] = mine[curr[c]]
  BY <1>3, Zenon
<1> QED
  BY <1>1, <1>2, <1>5, <1>6, <1>7, OnCpuLocksSame, Zenon

\* The tests of holding(), in acquire() and in release(), keep the invariant.
LEMMA TestInv ==
  ASSUME LockCounts, IInv, NEW c \in Cpu,
         AcquireReadLocked(c) \/ AcquireReadCpu(c) \/ ReleaseReadLocked(c) \/ ReleaseReadCpu(c)
  PROVE  IInv'
<1> DEFINE l == lk[curr[c]]
<1>0. Locks(c) /\ lk[curr[c]] \in Lock
  BY CountFacts, Zenon
<1>1. CASE AcquireReadLocked(c)
  <2>1. (IF locked[l] = 1 THEN "acq2" ELSE "spin") \in {"acq2", "spin"}
    BY Zenon
  <2> QED
    BY <1>1, <2>1, GotoInv, Zenon DEF AcquireReadLocked
<1>2. CASE AcquireReadCpu(c)
  <2>1. lkcpu[l] /= c
    BY <1>0, <1>2, Zenon DEF AcquireReadCpu, At, Locks
  <2> QED
    BY <1>2, <2>1, GotoInv, Zenon DEF AcquireReadCpu
<1>3. CASE ReleaseReadLocked(c)
  <2>1. locked[l] = 1
    BY <1>0, <1>3, Zenon DEF ReleaseReadLocked, At, Locks
  <2> QED
    BY <1>3, <2>1, GotoInv, Zenon DEF ReleaseReadLocked
<1>4. CASE ReleaseReadCpu(c)
  <2>1. lkcpu[l] = c
    BY <1>0, <1>4, Zenon DEF ReleaseReadCpu, At, Locks
  <2> QED
    BY <1>4, <2>1, GotoInv, Zenon DEF ReleaseReadCpu
<1> QED
  BY <1>1, <1>2, <1>3, <1>4, Zenon

\* The xchg that takes the lock keeps the invariant.
LEMMA AcquireXchgInv ==
  ASSUME LockCounts, IInv, NEW c \in Cpu, AcquireXchg(c)
  PROVE  IInv'
<1>0. /\ FrameOK(curr[c]) /\ curr[c] \in Thread /\ Locks(c) /\ Count(c) /\ Flags(c)
      /\ mine[curr[c]] \in SUBSET Lock /\ lk[curr[c]] \in Lock
  BY CountFacts, Zenon DEF IInv
<1>1. TypeOK'
  BY DEF AcquireXchg, Goto, IInv, TypeOK, Pcs
<1>2. /\ \A t \in Thread : t /= curr[c] => ThreadSame(t)
      /\ \A d \in Cpu : d /= c => CpuSame(d)
  BY Zenon DEF AcquireXchg, Goto, IInv, TypeOK, ThreadSame, CpuSame
<1>3. /\ pc[curr[c]] = "spin" /\ locked[lk[curr[c]]] = 0
      /\ locked' = [locked EXCEPT ![lk[curr[c]]] = 1] /\ locked \in [Lock -> {0, 1}]
      /\ pc'[curr[c]] = "own" /\ mine'[curr[c]] = mine[curr[c]] \cup {lk[curr[c]]}
  BY <1>0, Zenon DEF AcquireXchg, Goto, At, IInv, TypeOK
<1>4. UNCHANGED <<lkcpu, ncli, intena, iflag, curr, lk, eflags, level, saved>>
  BY Zenon DEF AcquireXchg
<1>5. Locks(c)' /\ FrameOK(curr[c])'
  BY <1>0, <1>3, <1>4, Zenon DEF Locks, FrameOK
<1>6. Count(c)'
  <2>1. lk[curr[c]] \in Lock \ mine[curr[c]]
    BY <1>0, <1>3, Zenon DEF Locks
  <2>2. /\ Cardinality(mine[curr[c]]) \in Nat
        /\ Cardinality(mine[curr[c]] \cup {lk[curr[c]]}) = Cardinality(mine[curr[c]]) + 1
    BY <1>0, <2>1, HeldCard, Zenon
  <2>3. Cardinality(mine'[curr'[c]]) = Cardinality(mine[curr[c]]) + 1
    BY <1>3, <1>4, <2>2, Zenon
  <2> QED
    BY <1>0, <1>3, <1>4, <2>2, <2>3 DEF Count, Counted, Pushed
<1>7. Flags(c)'
  BY <1>0, <1>3, <1>4, Zenon DEF Flags, Eff
<1>8. ASSUME NEW d \in Cpu, d /= c
      PROVE  LocksSame(d) /\ mine'[curr[c]] \cap mine[curr[d]] = {}
  <2>1. mine[curr[c]] \cap mine[curr[d]] = {} /\ Locks(d) /\ mine[curr[d]] \in SUBSET Lock
    BY <1>8, CountFacts, Zenon DEF IInv, Apart
  <2>2. lk[curr[c]] \notin mine[curr[d]]
    BY <1>3, <2>1 DEF Locks
  <2> QED
    BY <1>3, <1>4, <2>1, <2>2, Zenon DEF LocksSame
<1>9. pc'[curr[c]] \notin {"off", "forkret", "panic"} /\ curr' = curr
  BY <1>3, <1>4, Zenon
<1> QED
  BY <1>1, <1>2, <1>5, <1>6, <1>7, <1>8, <1>9, OnCpu, Zenon

\* acquire()'s assignment of lk->cpu keeps the invariant.
LEMMA AcquireSetCpuInv ==
  ASSUME LockCounts, IInv, NEW c \in Cpu, AcquireSetCpu(c)
  PROVE  IInv'
<1>0. /\ FrameOK(curr[c]) /\ curr[c] \in Thread /\ Locks(c) /\ Count(c) /\ Flags(c)
      /\ mine[curr[c]] \in SUBSET Lock /\ lk[curr[c]] \in Lock
  BY CountFacts, Zenon DEF IInv
<1>1. TypeOK'
  BY LockAssumption, Zenon DEF AcquireSetCpu, Goto, IInv, TypeOK, Pcs
<1>2. /\ \A t \in Thread : t /= curr[c] => ThreadSame(t)
      /\ \A d \in Cpu : d /= c => CpuSame(d)
  BY Zenon DEF AcquireSetCpu, Goto, IInv, TypeOK, ThreadSame, CpuSame
<1>3. /\ pc[curr[c]] = "own" /\ pc'[curr[c]] = "run"
      /\ lkcpu' = [lkcpu EXCEPT ![lk[curr[c]]] = c] /\ lkcpu \in [Lock -> Cpu \cup {NoCpu}]
  BY <1>0, Zenon DEF AcquireSetCpu, Goto, At, IInv, TypeOK
<1>4. UNCHANGED <<locked, ncli, intena, iflag, curr, eflags, mine, level, saved>>
  BY Zenon DEF AcquireSetCpu
<1>5. Locks(c)' /\ FrameOK(curr[c])'
  BY <1>0, <1>3, <1>4, Zenon DEF Locks, FrameOK
<1>6. Count(c)' /\ Flags(c)'
  BY <1>0, <1>3, <1>4, Zenon DEF Count, Counted, Pushed, Flags, Eff
<1>7. ASSUME NEW d \in Cpu, d /= c
      PROVE  LocksSame(d) /\ mine'[curr[c]] \cap mine[curr[d]] = {}
  <2>1. mine[curr[c]] \cap mine[curr[d]] = {} /\ mine[curr[d]] \in SUBSET Lock
    BY <1>7, CountFacts, Zenon DEF IInv, Apart
  <2>2. lk[curr[c]] \notin mine[curr[d]]
    BY <1>0, <1>3, <2>1, Zenon DEF Locks
  <2> QED
    BY <1>3, <1>4, <1>7, <2>1, <2>2, Zenon DEF LocksSame
<1>8. pc'[curr[c]] \notin {"off", "forkret", "panic"} /\ curr' = curr
  BY <1>3, <1>4, Zenon
<1> QED
  BY <1>1, <1>2, <1>5, <1>6, <1>7, <1>8, OnCpu, Zenon

\* release()'s reset of lk->cpu keeps the invariant.
LEMMA ReleaseClearCpuInv ==
  ASSUME LockCounts, IInv, NEW c \in Cpu, ReleaseClearCpu(c)
  PROVE  IInv'
<1>0. /\ FrameOK(curr[c]) /\ curr[c] \in Thread /\ Locks(c) /\ Count(c) /\ Flags(c)
      /\ mine[curr[c]] \in SUBSET Lock /\ lk[curr[c]] \in Lock
  BY CountFacts, Zenon DEF IInv
<1>1. TypeOK'
  BY Zenon DEF ReleaseClearCpu, Goto, IInv, TypeOK, Pcs
<1>2. /\ \A t \in Thread : t /= curr[c] => ThreadSame(t)
      /\ \A d \in Cpu : d /= c => CpuSame(d)
  BY Zenon DEF ReleaseClearCpu, Goto, IInv, TypeOK, ThreadSame, CpuSame
<1>3. /\ pc[curr[c]] = "clear" /\ pc'[curr[c]] = "unlock"
      /\ lkcpu' = [lkcpu EXCEPT ![lk[curr[c]]] = NoCpu] /\ lkcpu \in [Lock -> Cpu \cup {NoCpu}]
  BY <1>0, Zenon DEF ReleaseClearCpu, Goto, At, IInv, TypeOK
<1>4. UNCHANGED <<locked, ncli, intena, iflag, curr, lk, eflags, mine, level, saved>>
  BY Zenon DEF ReleaseClearCpu
<1>5. Locks(c)' /\ FrameOK(curr[c])'
  BY <1>0, <1>3, <1>4, LockAssumption, Zenon DEF Locks, FrameOK
<1>6. Count(c)' /\ Flags(c)'
  BY <1>0, <1>3, <1>4, Zenon DEF Count, Counted, Pushed, Flags, Eff
<1>7. ASSUME NEW d \in Cpu, d /= c
      PROVE  LocksSame(d) /\ mine'[curr[c]] \cap mine[curr[d]] = {}
  <2>1. mine[curr[c]] \cap mine[curr[d]] = {} /\ mine[curr[d]] \in SUBSET Lock
    BY <1>7, CountFacts, Zenon DEF IInv, Apart
  <2>2. lk[curr[c]] \notin mine[curr[d]]
    BY <1>0, <1>3, <2>1, Zenon DEF Locks
  <2> QED
    BY <1>3, <1>4, <1>7, <2>1, <2>2, LockAssumption, Zenon DEF LocksSame
<1>8. pc'[curr[c]] \notin {"off", "forkret", "panic"} /\ curr' = curr
  BY <1>3, <1>4, Zenon
<1> QED
  BY <1>1, <1>2, <1>5, <1>6, <1>7, <1>8, OnCpu, Zenon

\* The xchg that frees the lock keeps the invariant.
LEMMA ReleaseXchgInv ==
  ASSUME LockCounts, IInv, NEW c \in Cpu, ReleaseXchg(c)
  PROVE  IInv'
<1>0. /\ FrameOK(curr[c]) /\ curr[c] \in Thread /\ Locks(c) /\ Count(c) /\ Flags(c)
      /\ mine[curr[c]] \in SUBSET Lock /\ lk[curr[c]] \in Lock
  BY CountFacts, Zenon DEF IInv
<1>1. TypeOK'
  BY LockAssumption, Zenon DEF ReleaseXchg, Goto, IInv, TypeOK, Pcs
<1>2. /\ \A t \in Thread : t /= curr[c] => ThreadSame(t)
      /\ \A d \in Cpu : d /= c => CpuSame(d)
  BY Zenon DEF ReleaseXchg, Goto, IInv, TypeOK, ThreadSame, CpuSame
<1>3. /\ pc[curr[c]] = "unlock" /\ pc'[curr[c]] = "pop"
      /\ locked' = [locked EXCEPT ![lk[curr[c]]] = 0] /\ locked \in [Lock -> {0, 1}]
      /\ mine'[curr[c]] = mine[curr[c]] \ {lk[curr[c]]}
  BY <1>0, Zenon DEF ReleaseXchg, Goto, At, IInv, TypeOK
<1>4. UNCHANGED <<lkcpu, ncli, intena, iflag, curr, eflags, level, saved>>
  BY Zenon DEF ReleaseXchg
<1>5. Locks(c)' /\ FrameOK(curr[c])'
  BY <1>0, <1>3, <1>4, Zenon DEF Locks, FrameOK
<1>6. Count(c)'
  <2>1. lk[curr[c]] \in mine[curr[c]]
    BY <1>0, <1>3, Zenon DEF Locks
  <2>2. /\ Cardinality(mine[curr[c]]) \in Nat
        /\ Cardinality(mine[curr[c]] \ {lk[curr[c]]}) = Cardinality(mine[curr[c]]) - 1
    BY <1>0, <2>1, HeldCard, Zenon
  <2>3. Cardinality(mine'[curr'[c]]) = Cardinality(mine[curr[c]]) - 1
    BY <1>3, <1>4, <2>2, Zenon
  <2> QED
    BY <1>0, <1>3, <1>4, <2>2, <2>3 DEF Count, Counted, Pushed
<1>7. Flags(c)'
  BY <1>0, <1>3, <1>4, Zenon DEF Flags, Eff
<1>8. ASSUME NEW d \in Cpu, d /= c
      PROVE  LocksSame(d) /\ mine'[curr[c]] \cap mine[curr[d]] = {}
  <2>1. mine[curr[c]] \cap mine[curr[d]] = {} /\ mine[curr[d]] \in SUBSET Lock
    BY <1>8, CountFacts, Zenon DEF IInv, Apart
  <2>2. lk[curr[c]] \notin mine[curr[d]]
    BY <1>0, <1>3, <2>1, Zenon DEF Locks
  <2> QED
    BY <1>3, <1>4, <2>1, <2>2, Zenon DEF LocksSame
<1>9. pc'[curr[c]] \notin {"off", "forkret", "panic"} /\ curr' = curr
  BY <1>3, <1>4, Zenon
<1> QED
  BY <1>1, <1>2, <1>5, <1>6, <1>7, <1>8, <1>9, OnCpu, Zenon

\* popcli() keeps the invariant.
LEMMA PopcliInv ==
  ASSUME LockCounts, IInv, NEW c \in Cpu, Popcli(c)
  PROVE  IInv'
<1>0. /\ FrameOK(curr[c]) /\ curr[c] \in Thread /\ Locks(c) /\ Count(c) /\ Flags(c)
      /\ Cardinality(mine[curr[c]]) \in Nat /\ (pc[curr[c]] \in Pushed => ncli[c] /= 0)
      /\ {ncli[c]} \subseteq Nat /\ {iflag[c], intena[c]} \subseteq {0, 1}
  BY CountFacts DEF IInv, TypeOK
<1>a. pc[curr[c]] = "pop" /\ ncli[c] /= 0 /\ iflag[c] = 0
  BY <1>0, Zenon DEF Popcli, At, Pushed, Flags
<1>b. /\ pc' = [pc EXCEPT ![curr[c]] = "run"]
      /\ ncli' = [ncli EXCEPT ![c] = @ - 1]
      /\ iflag' = IF ncli[c] = 1 /\ intena[c] = 1 THEN [iflag EXCEPT ![c] = 1] ELSE iflag
      /\ UNCHANGED <<locked, lkcpu, intena, curr, lk, eflags, mine, level, saved, sintena>>
  BY <1>a DEF Popcli, Goto
<1>1. TypeOK'
  <2>1. ncli[c] - 1 \in Nat
    BY <1>0, <1>a
  <2> QED
    BY <1>b, <2>1, Zenon DEF IInv, TypeOK, Pcs
<1>2. /\ \A t \in Thread : t /= curr[c] => ThreadSame(t)
      /\ \A d \in Cpu : d /= c => CpuSame(d)
  BY <1>b, Zenon DEF IInv, TypeOK, ThreadSame, CpuSame
<1>3. /\ pc'[curr[c]] = "run" /\ ncli'[c] = ncli[c] - 1
      /\ iflag'[c] = IF ncli[c] = 1 /\ intena[c] = 1 THEN 1 ELSE 0
  BY <1>0, <1>a, <1>b, Zenon DEF IInv, TypeOK
<1>4. UNCHANGED <<locked, lkcpu, intena, curr, lk, eflags, mine, level, saved>>
  BY <1>b, Zenon
<1>5. Locks(c)'
  BY <1>0, <1>a, <1>3, <1>4, Zenon DEF Locks
<1>6. FrameOK(curr[c])'
  BY <1>0, <1>4, Zenon DEF FrameOK
<1>7. Count(c)'
  BY <1>0, <1>a, <1>3, <1>4 DEF Count, Counted, Pushed
<1>8. Flags(c)'
  BY <1>0, <1>a, <1>3, <1>4 DEF Flags, Eff
<1>9. pc'[curr[c]] \notin {"off", "forkret", "panic"} /\ UNCHANGED <<locked, lkcpu, curr>>
      /\ mine'[curr[c]] = mine[curr[c]]
  BY <1>3, <1>4, Zenon
<1> QED
  BY <1>1, <1>2, <1>5, <1>6, <1>7, <1>8, <1>9, OnCpuLocksSame, Zenon

\* The entry of an interrupt handler keeps the invariant.
LEMMA InterruptInv ==
  ASSUME LockCounts, IInv, NEW c \in Cpu, Interrupt(c)
  PROVE  IInv'
<1>0. /\ curr[c] \in Thread /\ Locks(c) /\ Count(c) /\ Flags(c)
      /\ ncli[c] = 0 => mine[curr[c]] = {} /\ pc[curr[c]] \in {"run", "push"}
  BY CountFacts, Zenon
<1>a. /\ mine[curr[c]] = {} /\ pc[curr[c]] \in {"run", "push"} /\ ncli[c] = 0 /\ iflag[c] = 1
      /\ pc[curr[c]] = "push" => eflags[curr[c]] = 1
  BY <1>0, Zenon DEF Interrupt, Flags
<1>1. TypeOK'
  BY LockAssumption, Zenon DEF Interrupt, Goto, IInv, TypeOK, Pcs, Frame
<1>2. /\ \A t \in Thread : t /= curr[c] => ThreadSame(t)
      /\ \A d \in Cpu : d /= c => CpuSame(d)
  BY Zenon DEF Interrupt, Goto, IInv, TypeOK, ThreadSame, CpuSame
<1>3. /\ pc'[curr[c]] = "run" /\ level'[curr[c]] = "intr" /\ mine'[curr[c]] = {} /\ iflag'[c] = 0
      /\ saved'[curr[c]].pc = pc[curr[c]] /\ saved'[curr[c]].mine = mine[curr[c]]
      /\ saved'[curr[c]].eflags = eflags[curr[c]]
  BY <1>0, Zenon DEF Interrupt, Goto, IInv, TypeOK
<1>4. UNCHANGED <<locked, lkcpu, ncli, intena, curr>>
  BY Zenon DEF Interrupt
<1>5. Locks(c)'
  <2>1. \A l \in Lock : lkcpu'[l] /= c
    BY <1>0, <1>a, <1>4, Zenon DEF Locks
  <2>2. mine'[curr'[c]] = {} /\ pc'[curr'[c]] \in {"run", "push"}
    BY <1>3, <1>4, Zenon
  <2> QED
    BY <2>1, <2>2, Zenon DEF Locks
<1>6. FrameOK(curr[c])'
  BY <1>a, <1>3, <1>4, Zenon DEF FrameOK
<1>7. Count(c)'
  <2>1. mine'[curr'[c]] = {} /\ pc'[curr'[c]] \notin Pushed /\ ncli'[c] = 0
    BY <1>a, <1>3, <1>4, Zenon DEF Pushed
  <2>2. Cardinality(mine'[curr'[c]]) = 0
    BY <2>1, NoneCard, Zenon
  <2> QED
    BY <2>1, <2>2 DEF Count, Counted
<1>8. Flags(c)'
  BY <1>a, <1>3, <1>4, Zenon DEF Flags, Eff
<1>9. pc'[curr[c]] \notin {"off", "forkret", "panic"} /\ UNCHANGED <<locked, lkcpu, curr>>
      /\ mine'[curr[c]] = mine[curr[c]]
  BY <1>a, <1>3, <1>4, Zenon
<1> QED
  BY <1>1, <1>2, <1>5, <1>6, <1>7, <1>8, <1>9, OnCpuLocksSame, Zenon

\* The return from an interrupt handler keeps the invariant.
LEMMA IretHandlerInv ==
  ASSUME LockCounts, IInv, NEW c \in Cpu, Iret(c), level[curr[c]] = "intr"
  PROVE  IInv'
<1>0. /\ curr[c] \in Thread /\ Locks(c) /\ Count(c) /\ Flags(c)
      /\ pc[curr[c]] = "run" => (ncli[c] = 0 <=> mine[curr[c]] = {})
  BY CountFacts, Zenon
<1>a. mine[curr[c]] = {} /\ pc[curr[c]] = "run" /\ ncli[c] = 0
  BY <1>0, Zenon DEF Iret, At
<1>b. /\ iflag' = [iflag EXCEPT ![c] = 1]
      /\ pc' = [pc EXCEPT ![curr[c]] = saved[curr[c]].pc]
      /\ lk' = [lk EXCEPT ![curr[c]] = saved[curr[c]].lk]
      /\ eflags' = [eflags EXCEPT ![curr[c]] = saved[curr[c]].eflags]
      /\ mine' = [mine EXCEPT ![curr[c]] = saved[curr[c]].mine]
      /\ level' = [level EXCEPT ![curr[c]] = saved[curr[c]].level]
      /\ saved' = [saved EXCEPT ![curr[c]] = NoFrame]
      /\ UNCHANGED <<locked, lkcpu, ncli, intena, curr, sintena>>
  BY Zenon DEF Iret
<1>1. TypeOK'
  BY <1>b, LockAssumption DEF IInv, TypeOK, Frame, NoFrame, Pcs
<1>2. /\ \A t \in Thread : t /= curr[c] => ThreadSame(t)
      /\ \A d \in Cpu : d /= c => CpuSame(d)
  BY <1>b, Zenon DEF IInv, TypeOK, ThreadSame, CpuSame
<1>c. /\ saved[curr[c]].mine = {} /\ saved[curr[c]].pc \in {"run", "push"}
      /\ saved[curr[c]].pc = "push" => saved[curr[c]].eflags = 1
      /\ saved[curr[c]].level /= "intr"
  <2>1. FrameOK(curr[c]) /\ saved[curr[c]] \in Frame
    BY <1>0, Zenon DEF IInv, TypeOK
  <2> QED
    BY <2>1, Zenon DEF FrameOK, Frame
<1>3. /\ pc'[curr[c]] = saved[curr[c]].pc /\ level'[curr[c]] = saved[curr[c]].level
      /\ mine'[curr[c]] = {} /\ eflags'[curr[c]] = saved[curr[c]].eflags
      /\ saved'[curr[c]] = NoFrame /\ iflag'[c] = 1
  BY <1>0, <1>b, <1>c, Zenon DEF IInv, TypeOK
<1>4. UNCHANGED <<locked, lkcpu, ncli, intena, curr>>
  BY <1>b, Zenon
<1>5. Locks(c)'
  <2>1. \A l \in Lock : lkcpu'[l] /= c
    BY <1>0, <1>a, <1>4, Zenon DEF Locks
  <2>2. mine'[curr'[c]] = {} /\ pc'[curr'[c]] \in {"run", "push"}
    BY <1>c, <1>3, <1>4, Zenon
  <2> QED
    BY <2>1, <2>2, Zenon DEF Locks
<1>6. FrameOK(curr[c])'
  BY <1>3, <1>4 DEF FrameOK, NoFrame
<1>7. Count(c)'
  <2>1. mine'[curr'[c]] = {} /\ pc'[curr'[c]] \notin Pushed /\ ncli'[c] = 0
    BY <1>a, <1>c, <1>3, <1>4, Zenon DEF Pushed
  <2>2. Cardinality(mine'[curr'[c]]) = 0
    BY <2>1, NoneCard, Zenon
  <2> QED
    BY <2>1, <2>2 DEF Count, Counted
<1>8. Flags(c)'
  BY <1>a, <1>c, <1>3, <1>4, Zenon DEF Flags, Eff
<1>9. pc'[curr[c]] \notin {"off", "forkret", "panic"} /\ UNCHANGED <<locked, lkcpu, curr>>
      /\ mine'[curr[c]] = mine[curr[c]]
  BY <1>a, <1>c, <1>3, <1>4, Zenon
<1> QED
  BY <1>1, <1>2, <1>5, <1>6, <1>7, <1>8, <1>9, OnCpuLocksSame, Zenon

\* The first return to user space keeps the invariant.
LEMMA IretNewInv ==
  ASSUME LockCounts, IInv, NEW c \in Cpu, Iret(c), level[curr[c]] /= "intr"
  PROVE  IInv'
<1>0. /\ curr[c] \in Thread /\ Locks(c) /\ Count(c) /\ FrameOK(curr[c])
      /\ pc[curr[c]] = "run" => (ncli[c] = 0 <=> mine[curr[c]] = {})
  BY CountFacts, Zenon DEF IInv
<1>a. mine[curr[c]] = {} /\ pc[curr[c]] = "run" /\ ncli[c] = 0
  BY <1>0, Zenon DEF Iret, At
<1>b. /\ iflag' = [iflag EXCEPT ![c] = 1]
      /\ level' = [level EXCEPT ![curr[c]] = "thread"]
      /\ UNCHANGED <<locked, lkcpu, ncli, intena, curr, pc, lk, eflags, mine, saved, sintena>>
  BY Zenon DEF Iret
<1>1. TypeOK'
  BY <1>b, Zenon DEF IInv, TypeOK
<1>2. /\ \A t \in Thread : t /= curr[c] => ThreadSame(t)
      /\ \A d \in Cpu : d /= c => CpuSame(d)
  BY <1>b, Zenon DEF IInv, TypeOK, ThreadSame, CpuSame
<1>3. level'[curr[c]] = "thread" /\ iflag'[c] = 1
  BY <1>0, <1>b, Zenon DEF IInv, TypeOK
<1>5. Locks(c)'
  BY <1>0, <1>b, Zenon DEF Locks
<1>6. FrameOK(curr[c])'
  BY <1>0, <1>b, <1>3, Zenon DEF FrameOK
<1>7. Count(c)'
  BY <1>0, <1>b, Zenon DEF Count
<1>8. Flags(c)'
  BY <1>a, <1>b, <1>3, Zenon DEF Flags, Eff
<1>9. pc'[curr[c]] \notin {"off", "forkret", "panic"} /\ UNCHANGED <<locked, lkcpu, curr>>
      /\ mine'[curr[c]] = mine[curr[c]]
  BY <1>a, <1>b, Zenon
<1> QED
  BY <1>1, <1>2, <1>5, <1>6, <1>7, <1>8, <1>9, OnCpuLocksSame, Zenon

\* sti() in scheduler() keeps the invariant.
LEMMA StiInv ==
  ASSUME LockCounts, IInv, NEW c \in Cpu, Sti(c)
  PROVE  IInv'
<1>0. /\ curr[c] \in Thread /\ Locks(c) /\ Count(c) /\ FrameOK(curr[c])
      /\ pc[curr[c]] = "run" => (ncli[c] = 0 <=> mine[curr[c]] = {})
  BY CountFacts, Zenon DEF IInv
<1>a. curr[c] = c /\ mine[curr[c]] = {} /\ level[curr[c]] = "thread" /\ pc[curr[c]] = "run"
      /\ ncli[c] = 0 /\ c \notin Proc
  BY <1>0, LockAssumption, Zenon DEF Sti, At
<1>b. /\ iflag' = [iflag EXCEPT ![c] = 1]
      /\ UNCHANGED <<locked, lkcpu, ncli, intena, curr, pc, lk, eflags, mine, level, saved, sintena>>
  BY Zenon DEF Sti
<1>1. TypeOK'
  BY <1>b, Zenon DEF IInv, TypeOK
<1>2. /\ \A t \in Thread : t /= curr[c] => ThreadSame(t)
      /\ \A d \in Cpu : d /= c => CpuSame(d)
  BY <1>b, Zenon DEF IInv, TypeOK, ThreadSame, CpuSame
<1>5. Locks(c)'
  BY <1>0, <1>b, Zenon DEF Locks
<1>6. FrameOK(curr[c])'
  BY <1>0, <1>b, Zenon DEF FrameOK
<1>7. Count(c)'
  BY <1>0, <1>b, Zenon DEF Count
<1>8. Flags(c)'
  BY <1>a, <1>b, Zenon DEF Flags, Eff
<1>9. pc'[curr[c]] \notin {"off", "forkret", "panic"} /\ UNCHANGED <<locked, lkcpu, curr>>
      /\ mine'[curr[c]] = mine[curr[c]]
  BY <1>a, <1>b, Zenon
<1> QED
  BY <1>1, <1>2, <1>5, <1>6, <1>7, <1>8, <1>9, OnCpuLocksSame, Zenon

\* sched() and scheduler() change which thread runs on CPU c.  They keep the
\* invariant if they do so for c, the two threads and the lock they hand over.
LEMMA SwitchInv ==
  ASSUME IInv, NEW c \in Cpu, NEW t, t \in Proc \/ t = c, NEW p \in Proc, TypeOK', NoPanic',
         curr' = [curr EXCEPT ![c] = t], \A d \in Cpu : curr[d] = t => d = c,
         UNCHANGED <<locked, lkcpu, lk, eflags, mine, level, saved>>,
         \A d \in Cpu : d /= c => CpuSame(d),
         \A u \in Thread : u /= p => pc'[u] = pc[u] /\ sintena'[u] = sintena[u],
         p = curr[c] \/ p = t, mine[curr[c]] = mine[t],
         pc'[t] \notin {"off", "forkret"}, curr[c] \in Proc => pc'[curr[c]] = "off",
         Locks(c)', Count(c)', Flags(c)', Waiting(p)', Behind(c)'
  PROVE  IInv'
<1>0. curr'[c] = t /\ \A d \in Cpu : d /= c => curr'[d] = curr[d]
  BY Zenon DEF IInv, TypeOK
<1>1. \A d \in Cpu : d /= c => curr[d] \in Thread /\ curr[d] /= curr[c] /\ curr[d] /= t /\ curr[d] /= p
  BY DEF IInv, TypeOK, Placed
<1>2. Placed'
  <2>1. \A d \in Cpu : curr'[d] \in Proc \cup {d}
    BY <1>0 DEF IInv, Placed
  <2>2. \A d, e \in Cpu : curr'[d] = curr'[e] => d = e
    BY <1>0, <1>1 DEF IInv, Placed
  <2>3. \A d \in Cpu : pc'[curr'[d]] \notin {"off", "forkret"}
    BY <1>0, <1>1 DEF IInv, Placed
  <2>4. ASSUME NEW q \in Proc, pc'[q] \notin {"off", "forkret"}
        PROVE  \E d \in Cpu : curr'[d] = q
    <3>1. CASE q = t
      BY <1>0, <3>1, Zenon
    <3>2. CASE q /= t
      <4>1. q /= curr[c]
        BY <2>4, Zenon
      <4>2. q \in Thread /\ q /= p
        BY <3>2, <4>1, Zenon DEF Thread
      <4>3. \E d \in Cpu : curr[d] = q
        BY <2>4, <4>2, Zenon DEF IInv, Placed
      <4> QED
        BY <1>0, <4>1, <4>3, Zenon
    <3> QED
      BY <3>1, <3>2, Zenon
  <2> QED
    BY <2>1, <2>2, <2>3, <2>4, Zenon DEF Placed
<1>3. CpuInv'
  <2> SUFFICES ASSUME NEW d \in Cpu, d /= c PROVE (Locks(d) /\ Count(d) /\ Flags(d))'
    BY Zenon DEF CpuInv
  <2>1. ThreadSame(curr[d])
    BY <1>1, Zenon DEF ThreadSame
  <2>2. LocksSame(d) /\ CpuSame(d)
    BY Zenon DEF LocksSame
  <2> QED
    BY <2>1, <2>2, OtherCpu, Zenon
<1>4. Apart'
  BY <1>0 DEF IInv, Apart
<1>5. ASSUME NEW q \in Proc PROVE Waiting(q)'
  BY DEF IInv, Waiting, Thread
<1>6. ASSUME NEW d \in Cpu PROVE Behind(d)'
  <2>1. CASE d /= c
    <3>1. d \in Thread /\ d /= p /\ Behind(d) /\ curr'[d] = curr[d]
      BY <1>0, <2>1, LockAssumption, Zenon DEF IInv, Thread
    <3> QED
      BY <3>1, Zenon DEF Behind
  <2> QED
    BY <2>1, Zenon
<1>7. ASSUME NEW u \in Thread PROVE FrameOK(u)'
  BY Zenon DEF IInv, FrameOK
<1> QED
  BY <1>2, <1>3, <1>4, <1>5, <1>6, <1>7, Zenon DEF IInv

\* sched() keeps the invariant.
LEMMA SchedInv ==
  ASSUME LockCounts, IInv, NEW c \in Cpu, Sched(c)
  PROVE  IInv'
<1>0. /\ curr[c] \in Proc /\ curr[c] \in Thread /\ pc[curr[c]] = "run" /\ mine[curr[c]] = {ptable}
      /\ Locks(c) /\ Count(c) /\ Flags(c) /\ ncli[c] = 1
  BY CountFacts, Zenon DEF Sched, At
<1>1. /\ locked[ptable] = 1 /\ lkcpu[ptable] = c /\ iflag[c] = 0
  <2>1. iflag[c] \in {0, 1}
    BY Zenon DEF IInv, TypeOK
  <2> QED
    BY <1>0, <2>1, Zenon DEF Locks, Flags
<1>2. /\ pc' = [pc EXCEPT ![curr[c]] = "off"]
      /\ sintena' = [sintena EXCEPT ![curr[c]] = intena[c]]
      /\ curr' = [curr EXCEPT ![c] = c]
      /\ UNCHANGED <<locked, lkcpu, ncli, intena, iflag, lk, eflags, mine, level, saved>>
  BY <1>0, <1>1 DEF Sched, Goto
<1>3. TypeOK'
  BY <1>2, Zenon DEF IInv, TypeOK, Thread, Pcs
<1>4. NoPanic'
  BY <1>2, Zenon DEF IInv, TypeOK, NoPanic
<1>5. c \in Thread /\ c /= curr[c] /\ pc[c] = "run" /\ level[c] = "thread" /\ mine[c] = {ptable}
      /\ c \notin Proc
  BY <1>0, LockAssumption, Zenon DEF IInv, Behind, Thread
<1> PICK p \in Proc : p = curr[c]
  BY <1>0, Zenon
<1>6. /\ curr'[c] = c /\ pc'[c] = "run" /\ pc'[p] = "off" /\ sintena'[p] = intena[c]
      /\ \A d \in Cpu : d /= c => CpuSame(d)
      /\ \A u \in Thread : u /= p => pc'[u] = pc[u] /\ sintena'[u] = sintena[u]
  BY <1>0, <1>2, <1>5, Zenon DEF IInv, TypeOK, CpuSame
<1>7. \A d \in Cpu : curr[d] = c => d = c
  BY LockAssumption, Zenon DEF IInv, Placed
<1>8. Locks(c)'
  BY <1>0, <1>1, <1>2, <1>5, <1>6 DEF Locks
<1>9. Count(c)'
  <2>1. mine'[curr'[c]] = mine[curr[c]] /\ pc'[curr'[c]] = pc[curr[c]] /\ ncli' = ncli
    BY <1>0, <1>2, <1>5, <1>6, Zenon
  <2> QED
    BY <1>0, <2>1, Zenon DEF Count
<1>10. Flags(c)'
  BY <1>0, <1>1, <1>2, <1>5, <1>6, Zenon DEF Flags
<1>11. Waiting(p)'
  <2>1. /\ level[curr[c]] = "intr" => intena[c] = 0
        /\ level[curr[c]] = "thread" => intena[c] = 1
    BY <1>0 DEF Flags, Eff
  <2> QED
    BY <1>0, <1>2, <1>6, <2>1, Zenon DEF Waiting
<1>12. Behind(c)'
  BY <1>6, Zenon DEF Behind
<1>13. /\ pc'[c] \notin {"off", "forkret"} /\ mine[curr[c]] = mine[c]
       /\ p = curr[c] /\ (curr[c] \in Proc => pc'[curr[c]] = "off")
       /\ UNCHANGED <<locked, lkcpu, lk, eflags, mine, level, saved>>
  BY <1>0, <1>2, <1>5, <1>6, Zenon
<1> QED
  BY <1>2, <1>3, <1>4, <1>6, <1>7, <1>8, <1>9, <1>10, <1>11, <1>12, <1>13, SwitchInv, Zenon

\* scheduler()'s switch to a process, into its sched() or into forkret(), keeps
\* the invariant.
LEMMA DispatchInv ==
  ASSUME LockCounts, IInv, NEW c \in Cpu, NEW p \in Proc, Dispatch(c, p)
  PROVE  IInv'
<1>0. /\ curr[c] = c /\ c \in Thread /\ pc[c] = "run" /\ level[c] = "thread" /\ mine[c] = {ptable}
      /\ Locks(c) /\ Count(c) /\ Flags(c) /\ ncli[c] = 1
  BY CountFacts, Zenon DEF Dispatch, At
<1>1. /\ p \in Thread /\ pc[p] \in {"off", "forkret"} /\ mine[p] = {ptable} /\ Waiting(p) /\ p /= c
      /\ \A d \in Cpu : curr[d] /= p
  BY LockAssumption DEF Dispatch, IInv, Waiting, Placed, Thread
<1>2. /\ curr' = [curr EXCEPT ![c] = p]
      /\ pc' = [pc EXCEPT ![p] = IF pc[p] = "off" THEN "run" ELSE "rel1"]
      /\ intena' = [intena EXCEPT ![c] = IF pc[p] = "off" THEN sintena[p] ELSE intena[c]]
      /\ sintena' = [sintena EXCEPT ![p] = IF pc[p] = "off" THEN 0 ELSE sintena[p]]
      /\ UNCHANGED <<locked, lkcpu, ncli, iflag, lk, eflags, mine, level, saved>>
  BY Zenon DEF Dispatch, IInv, TypeOK
<1>3. TypeOK'
  BY <1>1, <1>2, Zenon DEF IInv, TypeOK, Thread, Pcs
<1>4. NoPanic'
  BY <1>2, Zenon DEF IInv, TypeOK, NoPanic
<1>5. /\ curr'[c] = p /\ pc'[p] = (IF pc[p] = "off" THEN "run" ELSE "rel1")
      /\ intena'[c] = (IF pc[p] = "off" THEN sintena[p] ELSE intena[c]) /\ iflag[c] = 0
      /\ \A d \in Cpu : d /= c => CpuSame(d)
      /\ \A u \in Thread : u /= p => pc'[u] = pc[u] /\ sintena'[u] = sintena[u]
  BY <1>0, <1>1, <1>2, Zenon DEF IInv, TypeOK, CpuSame, Flags
<1>6. Locks(c)'
  BY <1>0, <1>1, <1>2, <1>5 DEF Locks, Waiting
<1>7. Count(c)'
  <2>1. mine'[curr'[c]] = mine[curr[c]] /\ Counted(pc'[curr'[c]]) = Counted(pc[curr[c]]) /\ ncli' = ncli
    BY <1>0, <1>1, <1>2, <1>5 DEF Counted, Pushed
  <2> QED
    BY <1>0, <2>1, Zenon DEF Count
<1>8. Flags(c)'
  BY <1>0, <1>1, <1>2, <1>5 DEF Flags, Eff, Waiting
<1>9. Waiting(p)' /\ Behind(c)'
  BY <1>0, <1>1, <1>2, <1>5, Zenon DEF Waiting, Behind
<1>10. /\ pc'[p] \notin {"off", "forkret"} /\ mine[curr[c]] = mine[p] /\ curr[c] \notin Proc
       /\ UNCHANGED <<locked, lkcpu, lk, eflags, mine, level, saved>>
  BY <1>0, <1>1, <1>2, <1>5, LockAssumption
<1> QED
  BY <1>1, <1>2, <1>3, <1>4, <1>5, <1>6, <1>7, <1>8, <1>9, <1>10, SwitchInv, Zenon

\* Every step keeps the invariant.
LEMMA NextInv == LockCounts /\ IInv /\ [Next]_vars => IInv'
<1> SUFFICES ASSUME LockCounts, IInv, [Next]_vars PROVE IInv'
  BY Zenon
<1>1. CASE UNCHANGED vars
  <2>0. /\ locked' = locked /\ lkcpu' = lkcpu /\ ncli' = ncli /\ intena' = intena /\ iflag' = iflag
        /\ curr' = curr /\ pc' = pc /\ lk' = lk /\ eflags' = eflags /\ mine' = mine /\ level' = level
        /\ saved' = saved /\ sintena' = sintena
    BY <1>1, Zenon DEF vars
  <2>1. TypeOK' /\ NoPanic'
    BY <2>0, Zenon DEF IInv, TypeOK, NoPanic
  <2>2. Placed' /\ Apart'
    BY <2>0, Zenon DEF IInv, Placed, Apart
  <2>3. CpuInv'
    <3> SUFFICES ASSUME NEW d \in Cpu PROVE (Locks(d) /\ Count(d) /\ Flags(d))'
      BY Zenon DEF CpuInv
    <3>1. ThreadSame(curr[d]) /\ CpuSame(d) /\ LocksSame(d)
      BY <2>0, Zenon DEF ThreadSame, CpuSame, LocksSame
    <3> QED
      BY <3>1, OtherCpu, Zenon
  <2>4. /\ \A p \in Proc : Waiting(p)'
        /\ \A c \in Cpu : Behind(c)'
        /\ \A t \in Thread : FrameOK(t)'
    BY <2>0, Zenon DEF IInv, Waiting, Behind, FrameOK
  <2> QED
    BY <2>1, <2>2, <2>3, <2>4, Zenon DEF IInv
<1>2. ASSUME NEW c \in Cpu, NEW l \in Lock, Acquire(c, l) \/ Release(c, l) PROVE IInv'
  BY <1>2, AcquireInv, ReleaseInv, Zenon
<1>3. ASSUME NEW c \in Cpu, NEW p \in Proc, Dispatch(c, p) PROVE IInv'
  BY <1>3, DispatchInv, Zenon
<1>4. ASSUME NEW c \in Cpu, Iret(c) PROVE IInv'
  BY <1>4, IretHandlerInv, IretNewInv, Zenon
<1>5. ASSUME NEW c \in Cpu, \/ AcquireReadLocked(c) \/ AcquireReadCpu(c)
                            \/ ReleaseReadLocked(c) \/ ReleaseReadCpu(c)
      PROVE  IInv'
  BY <1>5, TestInv, Zenon
<1>6. ASSUME NEW c \in Cpu, Pushcli(c) \/ AcquireXchg(c) \/ AcquireSetCpu(c) PROVE IInv'
  BY <1>6, PushcliInv, AcquireXchgInv, AcquireSetCpuInv, Zenon
<1>7. ASSUME NEW c \in Cpu, ReleaseClearCpu(c) \/ ReleaseXchg(c) \/ Popcli(c) PROVE IInv'
  BY <1>7, ReleaseClearCpuInv, ReleaseXchgInv, PopcliInv, Zenon
<1>8. ASSUME NEW c \in Cpu, Interrupt(c) \/ Sti(c) \/ Sched(c) PROVE IInv'
  BY <1>8, InterruptInv, StiInv, SchedInv, Zenon
<1> QED
  BY <1>1, <1>2, <1>3, <1>4, <1>5, <1>6, <1>7, <1>8, Zenon DEF Next

\* The invariant gives each of the properties.
LEMMA InvImplies ==
  ASSUME LockCounts
  PROVE  IInv => TypeOK /\ MutualExclusion /\ HoldingExact /\ MaskedWhileHeld /\ InterruptsRestored /\ NoPanic
<1>0. IInv => \A c \in Cpu : Held(c) = mine[curr[c]]
  BY Zenon DEF IInv, TypeOK, FrameOK, Held
<1>1. IInv => MutualExclusion
  BY <1>0, Zenon DEF IInv, Apart, MutualExclusion
<1>2. IInv => HoldingExact
  <2> SUFFICES ASSUME IInv, NEW c \in Cpu, NEW l \in Lock, At(c, "run")
               PROVE  (locked[l] = 1 /\ lkcpu[l] = c) <=> l \in Held(c)
    BY Zenon DEF HoldingExact
  <2>1. Held(c) = mine[curr[c]] /\ Locks(c)
    BY <1>0, Zenon DEF IInv, CpuInv
  <2> QED
    BY <2>1, Zenon DEF Locks, At
<1>3. IInv => MaskedWhileHeld
  <2> SUFFICES ASSUME IInv, NEW c \in Cpu, Held(c) /= {} PROVE iflag[c] = 0
    BY Zenon DEF MaskedWhileHeld
  <2>1. iflag[c] \in {0, 1}
    BY Zenon DEF IInv, TypeOK
  <2>2. ncli[c] /= 0 /\ Flags(c)
    BY <1>0, CountFacts, Zenon
  <2> QED
    BY <2>1, <2>2, Zenon DEF Flags
<1>4. IInv => InterruptsRestored
  <2> SUFFICES ASSUME IInv, NEW c \in Cpu, At(c, "run"), Held(c) = {}
               PROVE  /\ level[curr[c]] = "intr" => iflag[c] = 0
                      /\ level[curr[c]] = "thread" /\ curr[c] \in Proc => iflag[c] = 1
    BY Zenon DEF InterruptsRestored
  <2>1. ncli[c] = 0 /\ Flags(c)
    BY <1>0, CountFacts, Zenon DEF At
  <2> QED
    BY <2>1, Zenon DEF Flags, Eff
<1>5. IInv => TypeOK /\ NoPanic
  BY Zenon DEF IInv
<1> QED
  BY <1>1, <1>2, <1>3, <1>4, <1>5, Zenon

-----------------------------------------------------------------------------

INSTANCE FiniteSetTheorems

LEMMA LockCountsHold == LockCounts
<1>1. ASSUME NEW S \in SUBSET Lock
      PROVE  /\ Cardinality(S) \in Nat
             /\ Cardinality(S) = 0 <=> S = {}
             /\ \A l \in Lock \ S : Cardinality(S \cup {l}) = Cardinality(S) + 1
             /\ \A l \in S : Cardinality(S \ {l}) = Cardinality(S) - 1
  <2>1. IsFiniteSet(S)
    BY FS_Subset, LockAssumption, Zenon
  <2> QED
    BY <2>1, FS_CardinalityType, FS_EmptySet, FS_AddElement, FS_RemoveElement
<1>2. Cardinality({ptable}) = 1
  BY FS_Singleton, Zenon
<1> QED
  BY <1>1, <1>2, Zenon DEF LockCounts

LEMMA Invariance == Spec => []IInv
BY LockCountsHold, InitInv, NextInv, PTL DEF Spec

\* No two CPUs hold the same lock, for any number of CPUs, processes and locks:
\* the xchg of acquire() is the only way to a lock, and sched() hands ptable.lock
\* over to exactly one thread.
THEOREM MutualExclusionAlways == Spec => []MutualExclusion
BY LockCountsHold, Invariance, InvImplies, PTL

\* holding() never answers for another CPU, although it reads locked and cpu one
\* after the other and without a lock.
THEOREM HoldingExactAlways == Spec => []HoldingExact
BY LockCountsHold, Invariance, InvImplies, PTL

\* Interrupts are off on every CPU that holds a lock.
THEOREM MaskedWhileHeldAlways == Spec => []MaskedWhileHeld
BY LockCountsHold, Invariance, InvImplies, PTL

\* A thread that has given back its last lock has the interrupt flag it had before
\* the first, on whatever CPU sched() has taken it to in between.
THEOREM InterruptsRestoredAlways == Spec => []InterruptsRestored
BY LockCountsHold, Invariance, InvImplies, PTL

\* acquire(), release(), popcli() and sched() never panic.
THEOREM NoPanicAlways == Spec => []NoPanic
BY LockCountsHold, Invariance, InvImplies, PTL

\* The variables keep their types; the flags stay 0 or 1 and ncli never goes
\* below zero.
THEOREM TypeCorrect == Spec => []TypeOK
BY LockCountsHold, Invariance, InvImplies, PTL

=============================================================================
