----------------------------- MODULE LockOrder -----------------------------
(***************************************************************************)
(* The order in which the kernel's functions take its spin locks.  A       *)
(* kernel function is abstracted to its lock footprint: the sequence of    *)
(* the acquire() and release() calls on one path through it, with those of *)
(* the functions it calls while it holds a lock, and the sched() in which  *)
(* ptable.lock is handed over.  A CPU runs one path after another, and     *)
(* spins in front of a lock that another CPU holds.  An interrupt handler  *)
(* starts only on a CPU that holds no lock (SpinLock: MaskedWhileHeld), so *)
(* it is a path like the others.                                           *)
(***************************************************************************)
EXTENDS Naturals, Sequences, FiniteSets

CONSTANT Cpu

ptable == "ptable"
cons == "cons"
Lock == {ptable, cons, "tickslock", "idelock", "bcache", "log", "icache", "ftable", "kmem", "pipe"}

VARIABLES
  held,      \* held[c]  the locks CPU c has acquired and not released
  todo,      \* todo[c]  the rest of the path it is on
  started    \* procdump() has run: scheduler() prints every draw

vars == <<held, todo, started>>

A(l) == <<<<"acquire", l>>>>
R(l) == <<<<"release", l>>>>
Sched == <<<<"sched", ptable>>>>

\* Acquire and release, with nothing in between that takes a lock.
Short(l) == A(l) \o R(l)

-----------------------------------------------------------------------------
(* Footprints of the functions called while locks are held.                *)

Cprintf == Short(cons)
Kfree == Short("kmem")
Wakeup == Short(ptable)

\* Fault: the caller's lock is not released.
SleepKeepsLock(l) == A(ptable) \o Sched

\* sleep(chan, lk) up to sched(); what follows sched() is a path in Resumed.
Sleep(l) == A(ptable) \o R(l) \o Sched

UpdatePerformanceFields == Short(ptable)

\* What wait() and wait_stat() do with ptable.lock held: print the child's
\* status, free its kernel stack and memory; or give up; or sleep.
Reap == Cprintf \o Cprintf \o Kfree \o Kfree \o R(ptable)
WaitScan == {Reap, R(ptable), Sched}

-----------------------------------------------------------------------------
(* The paths a CPU can start on.                                           *)

\* fork() and allocproc(), signal(), sigsend(), sigreturn(), kill(), wakeup().
ProcPaths == {Short(ptable)} \cup {A(ptable) \o rest : rest \in WaitScan}

\* Fault: exit() takes tickslock to read ticks.
SwitchPathsWithTicks == {A(ptable) \o Sched, A(ptable) \o Short("tickslock") \o Sched}

\* exit() and yield(): a critical section that ends in sched().
SwitchPaths == {A(ptable) \o Sched}

\* scheduler(): it prints the chosen ticket if started, and runs a process
\* (which goes on where its sched() left it) or nobody.
SchedulerPaths ==
  LET draw == IF started = 1 THEN Cprintf ELSE <<>>
  IN  {A(ptable) \o draw \o R(ptable), A(ptable) \o draw \o Sched}

TrapTimer == A("tickslock") \o UpdatePerformanceFields \o Wakeup \o R("tickslock")
SysSleep == {A("tickslock") \o Sleep("tickslock"), Short("tickslock")}

\* consoleintr(), with or without the wakeup of a finished line.
ConsoleIntr == {A(cons) \o Wakeup \o R(cons), Short(cons)}
ConsoleRead == {A(cons) \o Sleep(cons), Short(cons)}

PipePaths ==
  {Short("pipe"), A("pipe") \o Wakeup \o R("pipe"), A("pipe") \o Wakeup \o R("pipe") \o Kfree,
   A("pipe") \o Wakeup \o Sleep("pipe"), A("pipe") \o Sleep("pipe")}

IdeIntr == {A("idelock") \o Wakeup \o R("idelock"), Short("idelock")}
IdeRw == {A("idelock") \o Sleep("idelock"), Short("idelock")}
Bget == {A("bcache") \o Sleep("bcache"), Short("bcache")}
Brelse == A("bcache") \o Wakeup \o R("bcache")
BeginOp == {A("log") \o Sleep("log"), Short("log")}
EndOp == {A("log") \o Wakeup \o R("log"), Short("log")}
Ilock == {A("icache") \o Sleep("icache"), Short("icache")}
Iunlock == A("icache") \o Wakeup \o R("icache")
Iput == {Short("icache"), Short("icache") \o A("icache") \o Wakeup \o R("icache")}

\* filealloc(), filedup(), fileclose(); kalloc(), kfree(); cprintf().
TablePaths == {Short("ftable"), Short("kmem"), Cprintf}

Paths ==
  UNION {ProcPaths, SwitchPaths, SchedulerPaths, {TrapTimer}, SysSleep, ConsoleIntr, ConsoleRead,
         PipePaths, IdeIntr, IdeRw, Bget, {Brelse}, BeginOp, EndOp, Ilock, {Iunlock}, Iput, TablePaths}

\* Where swtch can take a CPU that holds ptable.lock: to the end of scheduler()'s
\* loop, of yield(), of forkret() or of sleep(), which all release it, or back
\* into the loop of wait() or wait_stat().
Resumed == WaitScan \cup {R(ptable)}

-----------------------------------------------------------------------------

Init ==
  /\ held = [c \in Cpu |-> {}]
  /\ todo = [c \in Cpu |-> <<>>]
  /\ started = 0

Start(c) ==
  /\ todo[c] = <<>>
  /\ \E path \in Paths : todo' = [todo EXCEPT ![c] = path]
  /\ UNCHANGED <<held, started>>

\* consoleintr() on ^P: procdump(), after cons.lock is released, sets started
\* and prints.
Procdump(c) ==
  /\ todo[c] = <<>>
  /\ started' = 1
  /\ todo' = [todo EXCEPT ![c] = Cprintf]
  /\ UNCHANGED held

At(c, op, l) == todo[c] /= <<>> /\ Head(todo[c]) = <<op, l>>
Advance(c) == todo' = [todo EXCEPT ![c] = Tail(@)]

Acquire(c, l) ==
  /\ At(c, "acquire", l)
  /\ \A d \in Cpu : l \notin held[d]
  /\ held' = [held EXCEPT ![c] = @ \cup {l}]
  /\ Advance(c)
  /\ UNCHANGED started

Release(c, l) ==
  /\ At(c, "release", l)
  /\ held' = [held EXCEPT ![c] = @ \ {l}]
  /\ Advance(c)
  /\ UNCHANGED started

Switch(c) ==
  /\ At(c, "sched", ptable)
  /\ \E path \in Resumed : todo' = [todo EXCEPT ![c] = path]
  /\ UNCHANGED <<held, started>>

Next ==
  \E c \in Cpu :
    \/ Start(c)
    \/ Procdump(c)
    \/ \E l \in Lock : Acquire(c, l) \/ Release(c, l)
    \/ Switch(c)

Spec == Init /\ [][Next]_vars

-----------------------------------------------------------------------------

\* c spins in front of a lock that d holds.
WaitsFor(c, d) == \E l \in held[d] : At(c, "acquire", l)

\* CPUs that wait for each other in a circle: each for one of them, and each is
\* waited for by one of them.
Circle(ring) ==
  /\ ring /= {}
  /\ \A c \in ring : \E d \in ring : WaitsFor(c, d)
  /\ \A c \in ring : \E d \in ring : WaitsFor(d, c)

\* No path takes a lock it has, and every other lock is ordered: CPUs that wait for
\* each other in a circle do so over ptable.lock and cons.lock, which wait() and
\* scheduler() take in one order and consoleintr() and consoleread() in the other.
OnlyConsoleCircles ==
  /\ \A c \in Cpu : ~WaitsFor(c, c)
  /\ \A ring \in SUBSET Cpu :
       Circle(ring) => \A c \in ring : At(c, "acquire", ptable) \/ At(c, "acquire", cons)

\* sched() panics ("sched locks", "sched ptable.lock") unless its caller holds
\* ptable.lock and nothing else; whoever is resumed by it starts out like that.
SchedHoldsPtableOnly == \A c \in Cpu : At(c, "sched", ptable) => held[c] = {ptable}

=============================================================================
