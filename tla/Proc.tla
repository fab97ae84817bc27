-------------------------------- MODULE Proc --------------------------------
(***************************************************************************)
(* The process table of proc.c: fork, exit, wait, wait_stat, sleep,        *)
(* wakeup, yield, kill, schedp, the lottery scheduler and the accounting   *)
(* of the timer interrupt, on several CPUs.                                *)
(*                                                                         *)
(* A critical section of ptable.lock is one step, except that the lock     *)
(* stays with a CPU from sched() through scheduler() until the process     *)
(* switched to releases it.  A process is named by its slot; slot 1 is     *)
(* initproc, and 0 is the null pointer.                                    *)
(***************************************************************************)
EXTENDS Lottery, Integers, FiniteSets

CONSTANTS
  Cpu,            \* the CPUs
  boot,           \* the CPU with id 0, which counts the ticks
  NoCpu,          \* ptable.lock is free
  Chan,           \* what the kernel sleeps on besides processes
  Status,         \* exit statuses
  PolicyIds,      \* what schedp() is called with
  BaseTickets,    \* tickets of a new process under policies 1 and 2 (10)
  ShareTickets,   \* tickets of a new process under policy 3 (20)
  MaxPid,         \* bound on nextpid
  MaxTicks        \* bound on ticks

initproc == 1

ASSUME ProcAssumption ==
  /\ boot \in Cpu
  /\ NoCpu \notin Cpu
  /\ Chan \cap (Slot \cup {0}) = {}
  /\ 0 \in Status
  /\ BaseTickets \in Nat \ {0}
  /\ ShareTickets \in Nat \ {0}
  /\ MaxPid \in Nat
  /\ MaxTicks \in Nat

VARIABLES
  state, pid, parent, chan, killed, status, ntickets,   \* struct proc
  perf,            \* perf[s]  ctime, ttime, stime, retime, rutime of struct proc
  pc,              \* pc[s]    the kernel function the process is in
  np,              \* np[s]    fork()'s local variable
  curr,            \* curr[c]  the process a CPU runs, 0 in its scheduler
  pos,             \* pos[c]   p of scheduler()'s loop, 0 outside the loop
  lock,            \* the CPU that holds ptable.lock
  currentPolicy, nextpid, ticks,
  tickpc,          \* where the boot CPU is in its timer interrupt
  panicked,
  exited,          \* history: <<pid, status>> of every exit
  delivered        \* history: <<pid, status>> of every reaping

slotVars == <<state, pid, parent, chan, killed, status, ntickets, perf>>
threadVars == <<pc, np, curr, pos, lock>>
globalVars == <<currentPolicy, nextpid, ticks, tickpc, panicked>>
history == <<exited, delivered>>
vars == <<slotVars, threadVars, globalVars, history>>

NoPerf == [ctime |-> 0, ttime |-> 0, stime |-> 0, retime |-> 0, rutime |-> 0]

\* ntickets that fork() and userinit() give a process.
NewTickets == IF currentPolicy = 3 THEN ShareTickets ELSE BaseTickets

-----------------------------------------------------------------------------

\* After userinit(): one process, initproc, ready to run.
Init ==
  /\ state = [s \in Slot |-> IF s = initproc THEN "RUNNABLE" ELSE "UNUSED"]
  /\ pid = [s \in Slot |-> IF s = initproc THEN 1 ELSE 0]
  /\ parent = [s \in Slot |-> 0]
  /\ chan = [s \in Slot |-> 0]
  /\ killed = [s \in Slot |-> 0]
  /\ status = [s \in Slot |-> 0]
  /\ ntickets = [s \in Slot |-> IF s = initproc THEN BaseTickets ELSE 0]
  /\ perf = [s \in Slot |-> NoPerf]
  /\ pc = [s \in Slot |-> "run"]
  /\ np = [s \in Slot |-> 0]
  /\ curr = [c \in Cpu |-> 0]
  /\ pos = [c \in Cpu |-> 0]
  /\ lock = NoCpu
  /\ currentPolicy = 1
  /\ nextpid = 2
  /\ ticks = 0
  /\ tickpc = "idle"
  /\ panicked = FALSE
  /\ exited = {} /\ delivered = {}

\* CPU c executes process s, outside an interrupt handler and at kernel
\* function f.
Runs(c, s, f) ==
  /\ ~panicked
  /\ s \in Slot
  /\ curr[c] = s
  /\ pc[s] = f
  /\ c = boot => tickpc = "idle"

\* The state after wakeup1() on every channel of chans.  (Its ticket bonus of
\* policy 3 follows the loop and hits no slot: it is past the table's end.)
Wakeup1(chans) ==
  [s \in Slot |-> IF state[s] = "SLEEPING" /\ chan[s] \in chans THEN "RUNNABLE" ELSE state[s]]

\* sched(): the CPU is back in its scheduler, with ptable.lock.
Sched(c) == curr' = [curr EXCEPT ![c] = 0] /\ lock' = c

\* allocproc(): the first UNUSED slot becomes EMBRYO.  killed is not reset.
Fork(c, s) ==
  /\ Runs(c, s, "run")
  /\ lock = NoCpu
  /\ nextpid <= MaxPid
  /\ \E n \in Slot :
       /\ state[n] = "UNUSED"
       /\ \A q \in Slot : state[q] = "UNUSED" => n <= q
       /\ state' = [state EXCEPT ![n] = "EMBRYO"]
       /\ pid' = [pid EXCEPT ![n] = nextpid]
       /\ np' = [np EXCEPT ![s] = n]
  /\ nextpid' = nextpid + 1
  /\ pc' = [pc EXCEPT ![s] = "fork"]
  /\ UNCHANGED <<parent, chan, killed, status, ntickets, perf, curr, pos, lock,
                 currentPolicy, ticks, tickpc, panicked, history>>

\* kalloc() or copyuvm() fails: the slot is given back without ptable.lock.
ForkFail(c, s) ==
  /\ Runs(c, s, "fork")
  /\ state' = [state EXCEPT ![np[s]] = "UNUSED"]
  /\ np' = [np EXCEPT ![s] = 0]
  /\ pc' = [pc EXCEPT ![s] = "run"]
  /\ UNCHANGED <<pid, parent, chan, killed, status, ntickets, perf, curr, pos, lock,
                 globalVars, history>>

\* Fault: the running time of the slot's last process is kept.
ForkPerfKept(old) == [old EXCEPT !.stime = 0, !.retime = 0, !.ctime = ticks]

\* The accounting of a new process; ttime is left as it was.
ForkPerf(old) == [old EXCEPT !.stime = 0, !.rutime = 0, !.retime = 0, !.ctime = ticks]

\* The rest of fork(), up to the critical section that makes the child RUNNABLE.
\* (np->parent is set before it, but nobody else looks for the EMBRYO's parent.)
ForkDone(c, s) ==
  /\ Runs(c, s, "fork")
  /\ lock = NoCpu
  /\ parent' = [parent EXCEPT ![np[s]] = s]
  /\ ntickets' = [ntickets EXCEPT ![np[s]] = NewTickets]
  /\ perf' = [perf EXCEPT ![np[s]] = ForkPerf(@)]
  /\ state' = [state EXCEPT ![np[s]] = "RUNNABLE"]
  /\ np' = [np EXCEPT ![s] = 0]
  /\ pc' = [pc EXCEPT ![s] = "run", ![np[s]] = "run"]
  /\ UNCHANGED <<pid, chan, killed, status, curr, pos, lock, globalVars, history>>

Children(s) == {k \in Slot : parent[k] = s}

\* Faults: exit() wakes nobody; it forgets initproc.
ExitWakesNobody(s) == {}
ExitWakesParentOnly(s) == {parent[s]}

\* The channels of exit()'s calls of wakeup1(): the parent, and initproc if it
\* inherits a ZOMBIE.
ExitWakes(s) ==
  {parent[s]} \cup {q \in {initproc} : \E k \in Children(s) : state[k] = "ZOMBIE"}

\* The parents after "Pass abandoned children to init."
PassChildren(s) == [k \in Slot |-> IF parent[k] = s THEN initproc ELSE parent[k]]

\* exit(st): wake the parent, pass the children to initproc (and wake it for
\* those that are ZOMBIE already), become ZOMBIE.
Exit(c, s, st) ==
  /\ Runs(c, s, "run")
  /\ lock = NoCpu
  /\ IF s = initproc
     THEN /\ panicked' = TRUE
          /\ UNCHANGED <<slotVars, threadVars, exited>>
     ELSE /\ state' = [Wakeup1(ExitWakes(s)) EXCEPT ![s] = "ZOMBIE"]
          /\ parent' = PassChildren(s)
          /\ perf' = [perf EXCEPT ![s].ttime = ticks]
          /\ status' = [status EXCEPT ![s] = st]
          /\ ntickets' = [ntickets EXCEPT ![s] = 0]
          /\ exited' = exited \cup {<<pid[s], st>>}
          /\ Sched(c)
          /\ UNCHANGED <<pid, chan, killed, pc, np, pos, panicked>>
  /\ UNCHANGED <<currentPolicy, nextpid, ticks, tickpc, delivered>>

\* wait() or wait_stat() is called.
Wait(c, s, f) ==
  /\ Runs(c, s, "run")
  /\ lock = NoCpu
  /\ lock' = c
  /\ pc' = [pc EXCEPT ![s] = f]
  /\ UNCHANGED <<slotVars, np, curr, pos, globalVars, history>>

\* Fault: p->status is read after it was reset.
ReportCleared(z) == <<pid[z], 0>>

\* What wait() and wait_stat() return of the child in slot z: pid and status.
Report(z) == <<pid[z], status[z]>>

\* One pass of their loop, holding ptable.lock: reap the first ZOMBIE child,
\* give up, or sleep.
WaitScan(c, s, f) ==
  /\ Runs(c, s, f)
  /\ lock = c
  /\ LET kids == Children(s)
         zombies == {k \in kids : state[k] = "ZOMBIE"}
     IN  \/ \E z \in zombies :
              /\ \A q \in zombies : z <= q
              /\ delivered' = delivered \cup {Report(z)}
              /\ status' = [status EXCEPT ![z] = 0]
              /\ ntickets' = [ntickets EXCEPT ![z] = 0]
              /\ perf' = IF f = "wait_stat" THEN [perf EXCEPT ![z] = NoPerf] ELSE perf
              /\ state' = [state EXCEPT ![z] = "UNUSED"]
              /\ pid' = [pid EXCEPT ![z] = 0]
              /\ parent' = [parent EXCEPT ![z] = 0]
              /\ killed' = [killed EXCEPT ![z] = 0]
              /\ pc' = [pc EXCEPT ![s] = "run"]
              /\ lock' = NoCpu
              /\ UNCHANGED <<chan, curr>>
         \/ /\ zombies = {}
            /\ kids = {} \/ killed[s] = 1
            /\ pc' = [pc EXCEPT ![s] = "run"]
            /\ lock' = NoCpu
            /\ UNCHANGED <<slotVars, curr, delivered>>
         \/ /\ zombies = {}
            /\ kids /= {} /\ killed[s] = 0
            /\ state' = [state EXCEPT ![s] = "SLEEPING"]
            /\ chan' = [chan EXCEPT ![s] = s]
            /\ Sched(c)
            /\ UNCHANGED <<pid, parent, killed, status, ntickets, perf, pc, delivered>>
  /\ UNCHANGED <<np, pos, globalVars, exited>>

\* sleep() on something other than a child, up to its sched().
Sleep(c, s, ch) ==
  /\ Runs(c, s, "run")
  /\ lock = NoCpu
  /\ state' = [state EXCEPT ![s] = "SLEEPING"]
  /\ chan' = [chan EXCEPT ![s] = ch]
  /\ pc' = [pc EXCEPT ![s] = "sleep"]
  /\ Sched(c)
  /\ UNCHANGED <<pid, parent, killed, status, ntickets, perf, np, pos, globalVars, history>>

\* wakeup(ch), by a process or an interrupt handler.
Wakeup(ch) ==
  /\ ~panicked
  /\ lock = NoCpu
  /\ state' = Wakeup1({ch})
  /\ UNCHANGED <<pid, parent, chan, killed, status, ntickets, perf, threadVars,
                 globalVars, history>>

\* Fault: the last ticket can be taken.
YieldTicketsToZero(s) ==
  IF currentPolicy = 3 /\ ntickets[s] > 0 THEN ntickets[s] - 1 ELSE ntickets[s]

\* What yield() leaves of the tickets under policy 3.
YieldTickets(s) == IF currentPolicy = 3 /\ ntickets[s] > 1 THEN ntickets[s] - 1 ELSE ntickets[s]

\* yield(), from the timer interrupt of CPU c, wherever the process is as long
\* as it does not hold ptable.lock.
Yield(c, s, f) ==
  /\ Runs(c, s, f)
  /\ lock = NoCpu
  /\ state' = [state EXCEPT ![s] = "RUNNABLE"]
  /\ ntickets' = [ntickets EXCEPT ![s] = YieldTickets(s)]
  /\ Sched(c)
  /\ UNCHANGED <<pid, parent, chan, killed, status, perf, pc, np, pos, globalVars, history>>

\* kill(i): the first slot with that pid, whatever its state.
Kill(c, s, i) ==
  /\ Runs(c, s, "run")
  /\ lock = NoCpu
  /\ \E q \in Slot :
       /\ pid[q] = i
       /\ \A r \in Slot : pid[r] = i => q <= r
       /\ killed' = [killed EXCEPT ![q] = 1]
       /\ perf' = [perf EXCEPT ![q].ttime = ticks]
       /\ state' = IF state[q] = "SLEEPING" THEN [state EXCEPT ![q] = "RUNNABLE"] ELSE state
  /\ UNCHANGED <<pid, parent, chan, status, ntickets, threadVars, globalVars, history>>

\* An unexpected trap in user space: trap() marks the process killed.
Fault(c, s) ==
  /\ Runs(c, s, "run")
  /\ killed' = [killed EXCEPT ![s] = 1]
  /\ UNCHANGED <<state, pid, parent, chan, status, ntickets, perf, threadVars, globalVars, history>>

ValidPolicy(id) == 1 <= id /\ id <= 3

\* schedp(id).
Schedp(c, s, id) ==
  /\ Runs(c, s, "run")
  /\ IF ValidPolicy(id)
     THEN currentPolicy' = id /\ UNCHANGED panicked
     ELSE panicked' = TRUE /\ UNCHANGED currentPolicy
  /\ UNCHANGED <<slotVars, threadVars, nextpid, ticks, tickpc, history>>

-----------------------------------------------------------------------------

\* Fault: the winner is not asked for its state.
DispatchAny(c, s) ==
  /\ state[s] \in {"RUNNABLE", "RUNNING"}
  /\ state' = [state EXCEPT ![s] = "RUNNING"]
  /\ curr' = [curr EXCEPT ![c] = s]
  /\ pos' = [pos EXCEPT ![c] = s]
  /\ lock' = NoCpu
  /\ UNCHANGED <<chan, pc>>

\* scheduler() runs the process in slot s: it is RUNNING, and releases
\* ptable.lock at once unless it goes on in wait() or wait_stat().
Dispatch(c, s) ==
  /\ state[s] = "RUNNABLE"
  /\ state' = [state EXCEPT ![s] = "RUNNING"]
  /\ curr' = [curr EXCEPT ![c] = s]
  /\ pos' = [pos EXCEPT ![c] = s]
  /\ chan' = [chan EXCEPT ![s] = IF pc[s] \in {"sleep", "wait", "wait_stat"} THEN 0 ELSE @]
  /\ IF pc[s] \in {"wait", "wait_stat"}
     THEN lock' = c /\ UNCHANGED pc
     ELSE lock' = NoCpu /\ pc' = [pc EXCEPT ![s] = IF @ = "sleep" THEN "run" ELSE @]

\* The top of scheduler()'s loop, up to the first slot the chosen ticket
\* reaches.  (A draw that runs nobody changes nothing.)
Draw(c, s) ==
  /\ ~panicked
  /\ curr[c] = 0 /\ pos[c] = 0
  /\ c = boot => tickpc = "idle"
  /\ lock = NoCpu
  /\ \E chosen \in Rand(TicketCounterAll(ntickets, state)) : Wins(ntickets, chosen, s)
  /\ Dispatch(c, s)
  /\ UNCHANGED <<pid, parent, killed, status, ntickets, perf, np, globalVars, history>>

\* The process is back in the scheduler.  Every slot after the winner has the
\* ticket too: the loop runs the next one, or stops where one is not RUNNABLE.
DrawOn(c) ==
  /\ ~panicked
  /\ curr[c] = 0 /\ pos[c] /= 0
  /\ lock = c
  /\ IF pos[c] < NPROC /\ state[pos[c] + 1] = "RUNNABLE"
     THEN Dispatch(c, pos[c] + 1)
     ELSE /\ pos' = [pos EXCEPT ![c] = 0]
          /\ lock' = NoCpu
          /\ UNCHANGED <<state, chan, pc, curr>>
  /\ UNCHANGED <<pid, parent, killed, status, ntickets, perf, np, globalVars, history>>

\* The timer interrupt of the boot CPU, which holds no lock then: ticks++ ...
Tick ==
  /\ ~panicked
  /\ tickpc = "idle" /\ ticks < MaxTicks
  /\ lock /= boot
  /\ ticks' = ticks + 1
  /\ tickpc' = "count"
  /\ UNCHANGED <<slotVars, threadVars, currentPolicy, nextpid, panicked, history>>

\* ... updatePerformanceFields() in a critical section of ptable.lock. The
\* wakeup(&ticks) that follows is a Wakeup.
UpdatePerformanceFields ==
  /\ ~panicked
  /\ tickpc = "count"
  /\ lock = NoCpu
  /\ perf' = [s \in Slot |->
                CASE state[s] = "RUNNING"  -> [perf[s] EXCEPT !.rutime = @ + 1]
                  [] state[s] = "SLEEPING" -> [perf[s] EXCEPT !.stime = @ + 1]
                  [] state[s] = "RUNNABLE" -> [perf[s] EXCEPT !.retime = @ + 1]
                  [] OTHER -> perf[s]]
  /\ tickpc' = "idle"
  /\ UNCHANGED <<state, pid, parent, chan, killed, status, ntickets, threadVars,
                 currentPolicy, nextpid, ticks, panicked, history>>

Next ==
  \/ \E c \in Cpu :
       \/ \E s \in Slot :
            \/ Fork(c, s) \/ ForkFail(c, s) \/ ForkDone(c, s)
            \/ \E st \in Status : Exit(c, s, st)
            \/ \E f \in {"wait", "wait_stat"} : Wait(c, s, f) \/ WaitScan(c, s, f)
            \/ \E ch \in Chan : Sleep(c, s, ch)
            \/ \E f \in {"run", "fork"} : Yield(c, s, f)
            \/ \E i \in 0..MaxPid : Kill(c, s, i)
            \/ Fault(c, s)
            \/ \E id \in PolicyIds : Schedp(c, s, id)
            \/ Draw(c, s)
       \/ DrawOn(c)
  \/ \E ch \in Chan : Wakeup(ch)
  \/ Tick
  \/ UpdatePerformanceFields

Spec == Init /\ [][Next]_vars

\* What the machine and the lottery guarantee.  A CPU that holds ptable.lock goes
\* on; a CPU whose timer fires again and again gets the lock some time; and a
\* process that can win draw after draw wins one.
Fairness ==
  /\ \A c \in Cpu :
       /\ WF_vars(DrawOn(c))
       /\ WF_vars(\E s \in Slot, f \in {"wait", "wait_stat"} : WaitScan(c, s, f))
       /\ SF_vars(\E s \in Slot, f \in {"run", "fork"} : Yield(c, s, f))
  /\ \A s \in Slot : SF_vars(\E c \in Cpu : Draw(c, s))

FairSpec == Spec /\ Fairness

Live(s) == state[s] \in {"SLEEPING", "RUNNABLE", "RUNNING"}

TypeOK ==
  /\ state \in [Slot -> ProcState]
  /\ pid \in [Slot -> 0..MaxPid]
  /\ parent \in [Slot -> Slot \cup {0}]
  /\ chan \in [Slot -> Slot \cup {0} \cup Chan]
  /\ killed \in [Slot -> {0, 1}]
  /\ status \in [Slot -> Status]
  /\ ntickets \in [Slot -> Nat]
  /\ perf \in [Slot -> [ctime : Nat, ttime : Nat, stime : Nat, retime : Nat, rutime : Nat]]
  /\ pc \in [Slot -> {"run", "fork", "sleep", "wait", "wait_stat"}]
  /\ np \in [Slot -> Slot \cup {0}]
  /\ curr \in [Cpu -> Slot \cup {0}]
  /\ pos \in [Cpu -> Slot \cup {0}]
  /\ lock \in Cpu \cup {NoCpu}
  /\ currentPolicy \in 1..3
  /\ nextpid \in 1..(MaxPid + 1)
  /\ ticks \in 0..MaxTicks
  /\ tickpc \in {"idle", "count"}
  /\ panicked \in BOOLEAN

\* scheduler() and sched() keep the table and the CPUs in step: a process is
\* RUNNING exactly while one CPU, and only one, executes it.
RunningOnce ==
  \A s \in Slot : LET on == {c \in Cpu : curr[c] = s}
                  IN  IF state[s] = "RUNNING" THEN \E c \in Cpu : on = {c} ELSE on = {}

\* No wakeup of exit() is lost on wait() or wait_stat(): a process asleep in
\* either has a child that can still exit, has none that has exited already,
\* and has not been killed.
WaitersHaveWork ==
  \A s \in Slot : (state[s] = "SLEEPING" /\ pc[s] \in {"wait", "wait_stat"}) =>
    /\ killed[s] = 0
    /\ \E k \in Slot : parent[k] = s
    /\ \A k \in Slot : parent[k] = s => state[k] /= "ZOMBIE"

\* An exit status is never lost, changed or reported twice: it is either with
\* one ZOMBIE slot or was returned, once, by wait() or wait_stat().
ExitReportedOnce ==
  \A i \in 1..MaxPid, st \in Status :
    LET there == {s \in Slot : state[s] = "ZOMBIE" /\ pid[s] = i /\ status[s] = st}
    IN  /\ (<<i, st>> \in exited) <=> (there /= {} \/ <<i, st>> \in delivered)
        /\ there /= {} => Cardinality(there) = 1 /\ <<i, st>> \notin delivered

\* A wait() or wait_stat() that has a ZOMBIE child to report, no child, or a
\* killed caller returns, wherever it was and whatever else runs.
WaitReturns ==
  \A s \in Slot :
    (/\ pc[s] \in {"wait", "wait_stat"}
     /\ \/ killed[s] = 1
        \/ \A k \in Slot : parent[k] /= s
        \/ \E k \in Slot : parent[k] = s /\ state[k] = "ZOMBIE")
    ~> (panicked \/ pc[s] = "run")

\* The lottery starves nobody for good: in every state, whatever the policies
\* were and however often yield() took a ticket, each RUNNABLE process has a
\* ticket rand() can draw.
RunnableCanWin ==
  \A s \in Slot : state[s] = "RUNNABLE" =>
    \E chosen \in Rand(TicketCounterAll(ntickets, state)) : Wins(ntickets, chosen, s)

\* The counters of updatePerformanceFields() add up: sleeping, ready and running
\* times of a process are the ticks since its ctime.  The tick that a fork()
\* overtakes, between ticks++ and the update, is the only one counted twice.
TimesAddUp ==
  \A s \in Slot : Live(s) =>
    LET spent == perf[s].stime + perf[s].retime + perf[s].rutime
        due == (ticks - perf[s].ctime) - (IF tickpc = "count" THEN 1 ELSE 0)
    IN  spent \in {due, due + 1}

=============================================================================
