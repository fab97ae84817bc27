---------------------------- MODULE Proc_proofs ----------------------------
(***************************************************************************)
(* Proofs about the process table, for any number of CPUs, slots, channels *)
(* and exit statuses: who runs where, who sleeps in wait(), and what       *)
(* becomes of an exit status.                                              *)
(***************************************************************************)
EXTENDS Proc, FiniteSets, TLAPS

Types ==
  /\ state \in [Slot -> ProcState]
  /\ pid \in [Slot -> Nat]
  /\ parent \in [Slot -> Slot \cup {0}]
  /\ chan \in [Slot -> Slot \cup {0} \cup Chan]
  /\ killed \in [Slot -> {0, 1}]
  /\ status \in [Slot -> Status]
  /\ pc \in [Slot -> {"run", "fork", "sleep", "wait", "wait_stat"}]
  /\ np \in [Slot -> Slot \cup {0}]
  /\ curr \in [Cpu -> Slot \cup {0}]
  /\ pos \in [Cpu -> Slot \cup {0}]
  /\ nextpid \in Nat
  /\ exited \subseteq Nat \X Status
  /\ delivered \subseteq Nat \X Status

\* The table and the CPUs agree.
Running ==
  /\ \A c \in Cpu : curr[c] /= 0 => state[curr[c]] = "RUNNING"
  /\ \A s \in Slot : state[s] = "RUNNING" => \E c \in Cpu : curr[c] = s
  /\ \A c, d \in Cpu : curr[c] = curr[d] /\ curr[c] /= 0 => c = d

\* A fork() in progress has an EMBRYO of its own; only live processes are in the
\* middle of a system call.
Forking ==
  /\ \A s \in Slot : pc[s] = "fork" => np[s] \in Slot /\ state[np[s]] = "EMBRYO"
  /\ \A s, t \in Slot : pc[s] = "fork" /\ pc[t] = "fork" /\ np[s] = np[t] => s = t
  /\ \A s \in Slot : pc[s] /= "run" => Live(s)

\* A slot has a parent only after fork(); initproc has none and never ends.
Family ==
  /\ \A k \in Slot : state[k] \in {"UNUSED", "EMBRYO"} => parent[k] = 0
  /\ \A k \in Slot : parent[k] /= k
  /\ Live(initproc) /\ parent[initproc] = 0

\* Who sleeps in wait() or wait_stat() sleeps on itself.
Waiting ==
  /\ \A s \in Slot : state[s] = "SLEEPING" /\ pc[s] \in {"wait", "wait_stat"} => chan[s] = s
  /\ WaitersHaveWork

\* Slots in use have pids of their own that were given out.
Ids ==
  /\ \A s \in Slot : state[s] /= "UNUSED" => 0 < pid[s] /\ pid[s] < nextpid
  /\ \A s, t \in Slot : state[s] /= "UNUSED" /\ state[t] /= "UNUSED" /\ pid[s] = pid[t] => s = t

\* An exit is with a ZOMBIE or was delivered, and its pid is not in use any more.
Reported ==
  /\ \A s \in Slot : state[s] = "ZOMBIE" => <<pid[s], status[s]>> \in exited \ delivered
  /\ delivered \subseteq exited
  /\ \A i \in Nat, st \in Status : <<i, st>> \in exited =>
       /\ i < nextpid
       /\ \A s \in Slot : pid[s] = i => state[s] \in {"UNUSED", "ZOMBIE"}
       /\ \/ <<i, st>> \in delivered
          \/ \E s \in Slot : state[s] = "ZOMBIE" /\ pid[s] = i /\ status[s] = st

Inv == Types /\ Running /\ Forking /\ Family /\ Waiting /\ Ids /\ Reported

-----------------------------------------------------------------------------

LEMMA Constants ==
  /\ NPROC \in Nat /\ initproc \in Slot /\ 0 \notin Slot /\ 0 \in Status
  /\ Slot \subseteq Nat /\ Chan \cap Slot = {}
BY NprocAssumption, ProcAssumption DEF Slot, initproc

\* The invariant holds after userinit().
LEMMA InitInv == Init => Inv
<1> SUFFICES ASSUME Init PROVE Inv
  BY Zenon
<1> USE Constants
<1>1. Types
  BY Zenon DEF Init, Types, ProcState
<1>2. Running /\ Forking
  BY Zenon DEF Init, Running, Forking
<1>3. Family /\ Waiting
  BY Zenon DEF Init, Family, Live, Waiting, WaitersHaveWork, initproc
<1>4. Ids /\ Reported
  BY DEF Init, Ids, Reported, initproc
<1> QED
  BY <1>1, <1>2, <1>3, <1>4, Zenon DEF Inv

\* The process a CPU executes is RUNNING.
LEMMA Executes ==
  ASSUME Inv, NEW c \in Cpu, NEW s, NEW f, Runs(c, s, f)
  PROVE  s \in Slot /\ curr[c] = s /\ state[s] = "RUNNING" /\ pc[s] = f
BY Constants, Zenon DEF Inv, Running, Runs

\* Steps that change no state: a process goes into wait() or comes back, or is
\* marked killed while it runs, and the end of scheduler()'s loop.
LEMMA QuietInv ==
  ASSUME Inv,
         UNCHANGED <<state, pid, parent, chan, status, np, curr, nextpid, history>>,
         pos' \in [Cpu -> Slot \cup {0}],
         pc' \in [Slot -> {"run", "fork", "sleep", "wait", "wait_stat"}],
         killed' \in [Slot -> {0, 1}],
         \A s \in Slot : \/ pc'[s] = pc[s] /\ killed'[s] = killed[s]
                         \/ /\ state[s] = "RUNNING"
                            /\ {pc[s], pc'[s]} \subseteq {"run", "wait", "wait_stat"}
  PROVE  Inv'
<1>1. Types' /\ Running'
  BY DEF Inv, Types, Running, history
<1>2. Forking'
  BY DEF Inv, Forking, Live
<1>3. Family' /\ Waiting'
  BY DEF Inv, Family, Live, Waiting, WaitersHaveWork
<1>4. Ids' /\ Reported'
  BY DEF Inv, Ids, Reported, history
<1> QED
  BY <1>1, <1>2, <1>3, <1>4, Zenon DEF Inv

\* Steps that make sleepers RUNNABLE: wakeup() and kill().
LEMMA WakeInv ==
  ASSUME Inv,
         UNCHANGED <<pid, parent, chan, status, pc, np, curr, pos, nextpid, history>>,
         state' \in [Slot -> ProcState], killed' \in [Slot -> {0, 1}],
         \A s \in Slot : state'[s] = state[s] \/ (state[s] = "SLEEPING" /\ state'[s] = "RUNNABLE"),
         \A s \in Slot : state'[s] = "SLEEPING" => killed'[s] = killed[s]
  PROVE  Inv'
<1>1. Types'
  BY Zenon DEF Inv, Types, history
<1>2. Running'
  BY DEF Inv, Types, Running
<1>3. Forking'
  BY DEF Inv, Forking, Live
<1>4. Family'
  BY Constants, Zenon DEF Inv, Family, Live
<1>5. Waiting'
  BY DEF Inv, Waiting, WaitersHaveWork
<1>6. Ids'
  BY DEF Inv, Ids
<1>7. Reported'
  <2>1. \A s \in Slot : /\ state'[s] = "ZOMBIE" <=> state[s] = "ZOMBIE"
                        /\ state'[s] \in {"UNUSED", "ZOMBIE"} <=> state[s] \in {"UNUSED", "ZOMBIE"}
    BY Zenon
  <2> QED
    BY <2>1 DEF Inv, Reported, history
<1> QED
  BY <1>1, <1>2, <1>3, <1>4, <1>5, <1>6, <1>7, Zenon DEF Inv

\* scheduler() runs a process on a CPU that runs none.
LEMMA DispatchInv ==
  ASSUME Inv, NEW c \in Cpu, NEW s \in Slot, curr[c] = 0, Dispatch(c, s),
         UNCHANGED <<pid, parent, killed, status, np, nextpid, history>>
  PROVE  Inv'
<1>1. /\ state[s] = "RUNNABLE" /\ state' = [state EXCEPT ![s] = "RUNNING"]
      /\ curr' = [curr EXCEPT ![c] = s] /\ pos' = [pos EXCEPT ![c] = s]
      /\ chan' = [chan EXCEPT ![s] = 0] \/ chan' = chan
      /\ pc' = pc \/ (pc[s] = "sleep" /\ pc' = [pc EXCEPT ![s] = "run"])
  <2>1. Types
    BY Zenon DEF Inv
  <2>2. chan' = [chan EXCEPT ![s] = 0] \/ chan' = chan
    BY Zenon, <2>1 DEF Dispatch, Types
  <2>3. pc' = pc \/ (pc[s] = "sleep" /\ pc' = [pc EXCEPT ![s] = "run"])
    BY <2>1, Zenon DEF Dispatch, Types
  <2> QED
    BY <2>2, <2>3, Zenon DEF Dispatch
<1>2. Types'
  BY <1>1, Zenon DEF Inv, Types, ProcState, history
<1>3. Running'
  BY <1>1, Constants DEF Inv, Types, Running
<1>4. Forking'
  BY <1>1 DEF Inv, Types, Forking, Live
<1>5. Family'
  BY <1>1, Constants, Zenon DEF Inv, Types, Family, Live
<1>6. Waiting'
  BY <1>1 DEF Inv, Types, Waiting, WaitersHaveWork
<1>7. Ids'
  BY <1>1 DEF Inv, Types, Ids
<1>8. Reported'
  BY <1>1 DEF Inv, Types, Reported, history
<1> QED
  BY <1>2, <1>3, <1>4, <1>5, <1>6, <1>7, <1>8, Zenon DEF Inv

\* A process gives up its CPU: yield() and sleep().
LEMMA LeaveInv ==
  ASSUME Inv, NEW c \in Cpu, NEW s \in Slot, curr[c] = s,
         NEW to \in {"SLEEPING", "RUNNABLE"}, state' = [state EXCEPT ![s] = to],
         curr' = [curr EXCEPT ![c] = 0],
         pc' = pc \/ (pc[s] = "run" /\ pc' = [pc EXCEPT ![s] = "sleep"]),
         NEW ch \in Slot \cup {0} \cup Chan, chan' = [chan EXCEPT ![s] = ch],
         UNCHANGED <<pid, parent, killed, status, np, pos, nextpid, history>>,
         (to = "SLEEPING" /\ pc'[s] \in {"wait", "wait_stat"}) =>
           /\ ch = s /\ killed[s] = 0
           /\ \E k \in Slot : parent[k] = s
           /\ \A k \in Slot : parent[k] = s => state[k] /= "ZOMBIE"
  PROVE  Inv'
<1>1. state[s] = "RUNNING"
  BY Constants, Zenon DEF Inv, Running
<1>2. Types'
  BY DEF Inv, Types, ProcState, history
<1>3. Running'
  BY <1>1, Constants DEF Inv, Types, Running
<1>4. Forking'
  BY <1>1 DEF Inv, Types, Forking, Live
<1>5. Family'
  BY <1>1, Constants, Zenon DEF Inv, Types, Family, Live
<1>6. Waiting'
  <2>1. \A t \in Slot : t /= s => state'[t] = state[t] /\ pc'[t] = pc[t] /\ chan'[t] = chan[t]
    BY Zenon DEF Inv, Types
  <2>2. state'[s] = to /\ chan'[s] = ch
    BY Zenon DEF Inv, Types
  <2>3. \A k \in Slot : state'[k] = "ZOMBIE" => state[k] = "ZOMBIE"
    BY <2>1, <2>2, Zenon
  <2> QED
    BY <2>1, <2>2, <2>3 DEF Inv, Waiting, WaitersHaveWork
<1>7. Ids'
  BY <1>1 DEF Inv, Types, Ids
<1>8. Reported'
  BY <1>1 DEF Inv, Types, Reported, history
<1> QED
  BY <1>2, <1>3, <1>4, <1>5, <1>6, <1>7, <1>8, Zenon DEF Inv

\* allocproc() for fork(): a new EMBRYO with a new pid.
LEMMA ForkInv ==
  ASSUME Inv, NEW c \in Cpu, NEW s \in Slot, Fork(c, s)
  PROVE  Inv'
<1>1. curr[c] = s /\ state[s] = "RUNNING" /\ pc[s] = "run"
  BY Executes, Zenon DEF Fork
<1>2. PICK n \in Slot : /\ state[n] = "UNUSED"
                        /\ state' = [state EXCEPT ![n] = "EMBRYO"]
                        /\ pid' = [pid EXCEPT ![n] = nextpid]
                        /\ np' = [np EXCEPT ![s] = n]
  BY Zenon DEF Fork
<1>3. /\ nextpid' = nextpid + 1 /\ pc' = [pc EXCEPT ![s] = "fork"]
      /\ UNCHANGED <<parent, chan, killed, status, curr, pos, history>>
  BY Zenon DEF Fork
<1>4. n /= s
  BY <1>1, <1>2, Zenon
<1>5. Types'
  BY <1>2, <1>3 DEF Inv, Types, ProcState, history
<1>6. Running'
  BY <1>2, <1>3, Constants DEF Inv, Types, Running
<1>7. Forking'
  <2>1. \A t \in Slot : pc[t] = "fork" => np[t] /= n
    BY <1>2, Zenon DEF Inv, Forking
  <2>2. \A t \in Slot : t /= s => pc'[t] = pc[t] /\ np'[t] = np[t]
    BY <1>2, <1>3, Zenon DEF Inv, Types
  <2>3. pc'[s] = "fork" /\ np'[s] = n
    BY <1>2, <1>3, Zenon DEF Inv, Types
  <2>4. \A t \in Slot : pc[t] /= "run" => t /= n
    BY <1>2, Zenon DEF Inv, Forking, Live
  <2>5. state'[n] = "EMBRYO" /\ \A t \in Slot : t /= n => state'[t] = state[t]
    BY <1>2, Zenon DEF Inv, Types
  <2> QED
    BY <1>1, <1>4, <2>1, <2>2, <2>3, <2>4, <2>5 DEF Inv, Forking, Live
<1>8. Family'
  BY <1>2, <1>3, Constants, Zenon DEF Inv, Types, Family, Live
<1>9. Waiting'
  <2>1. \A t \in Slot : state'[t] = "SLEEPING" /\ pc'[t] \in {"wait", "wait_stat"} =>
          state[t] = "SLEEPING" /\ pc[t] \in {"wait", "wait_stat"}
    BY <1>2, <1>3, Zenon DEF Inv, Types
  <2>2. \A k \in Slot : state'[k] = "ZOMBIE" => state[k] = "ZOMBIE"
    BY <1>2, Zenon DEF Inv, Types
  <2> QED
    BY SMTT(60), <1>3, <2>1, <2>2 DEF Inv, Waiting, WaitersHaveWork
<1>10. nextpid > 0
  BY Constants DEF Inv, Types, Ids, Family, Live
<1>11. Ids'
  BY <1>2, <1>3, <1>10 DEF Inv, Types, Ids
<1>12. Reported'
  <2>1. \A t \in Slot : t /= n => state'[t] = state[t] /\ pid'[t] = pid[t]
    BY <1>2, Zenon DEF Inv, Types
  <2>2. state'[n] = "EMBRYO" /\ pid'[n] = nextpid /\ nextpid \in Nat
    BY <1>2, Zenon DEF Inv, Types
  <2>3. status' = status /\ exited' = exited /\ delivered' = delivered
    BY <1>3, Zenon DEF history
  <2>4. \A t \in Slot : state'[t] = "ZOMBIE" => <<pid'[t], status'[t]>> \in exited' \ delivered'
    BY <2>1, <2>2, <2>3, Zenon DEF Inv, Reported
  <2>5. ASSUME NEW i \in Nat, NEW st \in Status, <<i, st>> \in exited
        PROVE  /\ i < nextpid'
               /\ \A t \in Slot : pid'[t] = i => state'[t] \in {"UNUSED", "ZOMBIE"}
               /\ \/ <<i, st>> \in delivered'
                  \/ \E t \in Slot : state'[t] = "ZOMBIE" /\ pid'[t] = i /\ status'[t] = st
    <3>1. i < nextpid /\ \A t \in Slot : pid[t] = i => state[t] \in {"UNUSED", "ZOMBIE"}
      BY <2>5, Zenon DEF Inv, Reported
    <3>2. i < nextpid' /\ \A t \in Slot : pid'[t] = i => state'[t] \in {"UNUSED", "ZOMBIE"}
      BY <1>3, <2>1, <2>2, <3>1
    <3>3. <<i, st>> \in delivered \/ \E t \in Slot : state[t] = "ZOMBIE" /\ pid[t] = i /\ status[t] = st
      BY <2>5 DEF Inv, Reported
    <3>4. ASSUME NEW t \in Slot, state[t] = "ZOMBIE" PROVE t /= n
      BY <1>2, <3>4, Zenon
    <3> QED
      BY <2>1, <2>3, <3>2, <3>3, <3>4, Zenon
  <2>6. delivered' \subseteq exited'
    BY <2>3, Zenon DEF Inv, Reported
  <2> QED
    BY <2>3, <2>4, <2>5, <2>6 DEF Reported
<1> QED
  BY <1>5, <1>6, <1>7, <1>8, <1>9, <1>11, <1>12, Zenon DEF Inv

\* fork() fails and gives the EMBRYO back.
LEMMA ForkFailInv ==
  ASSUME Inv, NEW c \in Cpu, NEW s \in Slot, ForkFail(c, s)
  PROVE  Inv'
<1> DEFINE n == np[s]
<1>1. curr[c] = s /\ state[s] = "RUNNING" /\ pc[s] = "fork" /\ n \in Slot /\ state[n] = "EMBRYO"
  BY Executes DEF ForkFail, Inv, Forking
<1>2. /\ state' = [state EXCEPT ![n] = "UNUSED"] /\ np' = [np EXCEPT ![s] = 0]
      /\ pc' = [pc EXCEPT ![s] = "run"] /\ nextpid' = nextpid
      /\ UNCHANGED <<pid, parent, chan, killed, status, curr, pos, history>>
  BY Zenon DEF ForkFail, globalVars
<1> HIDE DEF n
<1>3. Types'
  BY Zenon, <1>2 DEF Inv, Types, ProcState, history
<1>4. Running'
  BY <1>1, <1>2, Constants DEF Inv, Types, Running
<1>5. Forking'
  <2>1. \A t \in Slot : t /= s => pc'[t] = pc[t] /\ np'[t] = np[t]
    BY <1>2, Zenon DEF Inv, Types
  <2>2. pc'[s] = "run"
    BY <1>2, Zenon DEF Inv, Types
  <2>3. \A t \in Slot : t /= s /\ pc[t] = "fork" => np[t] /= n
    BY <1>1, Zenon DEF Inv, Forking, n
  <2>4. \A t \in Slot : t /= n => state'[t] = state[t]
    BY <1>2, Zenon DEF Inv, Types
  <2>5. \A t \in Slot : pc[t] /= "run" => t /= n
    BY <1>1, Zenon DEF Inv, Forking, Live
  <2> QED
    BY <2>1, <2>2, <2>3, <2>4, <2>5 DEF Inv, Forking, Live
<1>6. Family'
  BY <1>1, <1>2, Constants, Zenon DEF Inv, Types, Family, Live
<1>7. Waiting'
  BY <1>1, <1>2 DEF Inv, Types, Waiting, WaitersHaveWork
<1>8. Ids'
  BY <1>2, Zenon DEF Inv, Types, Ids
<1>9. Reported'
  BY <1>1, <1>2 DEF Inv, Types, Reported, history
<1> QED
  BY <1>3, <1>4, <1>5, <1>6, <1>7, <1>8, <1>9, Zenon DEF Inv

\* fork() makes its EMBRYO RUNNABLE, a child of the process.
LEMMA ForkDoneInv ==
  ASSUME Inv, NEW c \in Cpu, NEW s \in Slot, ForkDone(c, s)
  PROVE  Inv'
<1> DEFINE n == np[s]
<1>1. curr[c] = s /\ state[s] = "RUNNING" /\ pc[s] = "fork" /\ n \in Slot /\ state[n] = "EMBRYO"
  BY Executes DEF ForkDone, Inv, Forking
<1>2. /\ state' = [state EXCEPT ![n] = "RUNNABLE"] /\ np' = [np EXCEPT ![s] = 0]
      /\ pc' = [pc EXCEPT ![s] = "run", ![n] = "run"] /\ nextpid' = nextpid
      /\ parent' = [parent EXCEPT ![n] = s]
      /\ UNCHANGED <<pid, chan, killed, status, curr, pos, history>>
  BY Zenon DEF ForkDone, globalVars
<1> HIDE DEF n
<1>3. n /= s /\ pc[n] = "run"
  BY <1>1, Zenon DEF Inv, Types, Forking, Live
<1>4. Types'
  BY Zenon, <1>2 DEF Inv, Types, ProcState, history
<1>5. Running'
  BY <1>1, <1>2, Constants DEF Inv, Types, Running
<1>6. Forking'
  <2>1. \A t \in Slot : t /= s => pc'[t] = pc[t] /\ np'[t] = np[t]
    BY <1>2, <1>3, Zenon DEF Inv, Types
  <2>2. pc'[s] = "run"
    BY <1>2, <1>3, Zenon DEF Inv, Types
  <2>3. \A t \in Slot : t /= s /\ pc[t] = "fork" => np[t] /= n
    BY <1>1, Zenon DEF Inv, Forking, n
  <2>4. \A t \in Slot : t /= n => state'[t] = state[t]
    BY <1>2, Zenon DEF Inv, Types
  <2> QED
    BY SMTT(60), <1>3, <2>1, <2>2, <2>3, <2>4 DEF Inv, Forking, Live
<1>7. Family'
  BY <1>1, <1>2, <1>3, Constants, Zenon DEF Inv, Types, Family, Live
<1>8. Waiting'
  <2>1. \A t \in Slot : state'[t] = "SLEEPING" /\ pc'[t] \in {"wait", "wait_stat"} =>
          state[t] = "SLEEPING" /\ pc[t] \in {"wait", "wait_stat"} /\ t /= s
    BY <1>1, <1>2, <1>3, Zenon DEF Inv, Types
  <2>2. \A k \in Slot : state'[k] = "ZOMBIE" => state[k] = "ZOMBIE" /\ k /= n
    BY <1>2, Zenon DEF Inv, Types
  <2>3. parent[n] = 0 /\ parent'[n] = s /\ \A k \in Slot : k /= n => parent'[k] = parent[k]
    BY <1>1, <1>2, Zenon DEF Inv, Types, Family
  <2>4. ASSUME NEW t \in Slot, state'[t] = "SLEEPING", pc'[t] \in {"wait", "wait_stat"}
        PROVE  /\ \E k \in Slot : parent'[k] = t
               /\ \A k \in Slot : parent'[k] = t => state'[k] /= "ZOMBIE"
    <3>1. /\ t /= s
          /\ \E k \in Slot : parent[k] = t
          /\ \A k \in Slot : parent[k] = t => state[k] /= "ZOMBIE"
      BY <2>1, <2>4, Zenon DEF Inv, Waiting, WaitersHaveWork
    <3> QED
      BY <2>2, <2>3, <3>1, Constants, Zenon
  <2> QED
    BY Zenon, <1>2, <2>1, <2>4 DEF Inv, Waiting, WaitersHaveWork
<1>9. Ids'
  BY <1>1, <1>2 DEF Inv, Types, Ids
<1>10. Reported'
  BY SMTT(60), <1>1, <1>2 DEF Inv, Types, Reported, history
<1> QED
  BY <1>4, <1>5, <1>6, <1>7, <1>8, <1>9, <1>10, Zenon DEF Inv

\* exit(): the parent is woken, and initproc if it gets a ZOMBIE.
LEMMA ExitInv ==
  ASSUME Inv, NEW c \in Cpu, NEW s \in Slot, NEW st \in Status, Exit(c, s, st), s /= initproc
  PROVE  Inv'
<1>1. curr[c] = s /\ state[s] = "RUNNING" /\ pc[s] = "run"
  BY Executes, Zenon DEF Exit
<1>2. /\ state' = [Wakeup1(ExitWakes(s)) EXCEPT ![s] = "ZOMBIE"]
      /\ parent' = PassChildren(s)
      /\ status' = [status EXCEPT ![s] = st]
      /\ exited' = exited \cup {<<pid[s], st>>}
      /\ delivered' = delivered /\ nextpid' = nextpid
      /\ curr' = [curr EXCEPT ![c] = 0]
      /\ UNCHANGED <<pid, chan, killed, pc, np, pos>>
  BY Zenon DEF Exit, Sched
<1>3. /\ state'[s] = "ZOMBIE"
      /\ \A t \in Slot : t /= s =>
           \/ state'[t] = state[t] /\ ~(state[t] = "SLEEPING" /\ chan[t] \in ExitWakes(s))
           \/ state[t] = "SLEEPING" /\ state'[t] = "RUNNABLE"
  BY Zenon, <1>2 DEF Wakeup1
<1>4. state' \in [Slot -> ProcState]
  BY <1>2, Zenon DEF Inv, Types, Wakeup1, ProcState
<1>5. \A k \in Slot : parent'[k] = IF parent[k] = s THEN initproc ELSE parent[k]
  BY <1>2, Zenon DEF PassChildren
<1>6. Types'
  <2>1. parent' \in [Slot -> Slot \cup {0}]
    BY <1>2, Constants, Zenon DEF Inv, Types, PassChildren
  <2>2. exited' \subseteq Nat \X Status
    BY <1>2 DEF Inv, Types
  <2> QED
    BY <1>2, <1>4, <2>1, <2>2, Zenon DEF Inv, Types
<1>7. Running'
  <2>1. \A t \in Slot : state'[t] = "RUNNING" <=> state[t] = "RUNNING" /\ t /= s
    BY <1>3, Zenon
  <2>2. curr'[c] = 0 /\ \A d \in Cpu : d /= c => curr'[d] = curr[d]
    BY <1>2, Zenon DEF Inv, Types
  <2>3. \A d \in Cpu : d /= c /\ curr[d] /= 0 => curr[d] \in Slot /\ curr[d] /= s
    BY <1>1, Constants, Zenon DEF Inv, Types, Running
  <2>4. \A d \in Cpu : curr'[d] /= 0 => state'[curr'[d]] = "RUNNING"
    BY SMTT(60), <2>1, <2>2, <2>3 DEF Inv, Running
  <2>5. \A t \in Slot : state'[t] = "RUNNING" => \E d \in Cpu : curr'[d] = t
    BY <1>1, <2>1, <2>2 DEF Inv, Running
  <2> QED
    BY <2>2, <2>4, <2>5 DEF Inv, Running
<1>8. Forking'
  <2>1. \A t \in Slot : state[t] = "EMBRYO" => state'[t] = "EMBRYO"
    BY <1>1, <1>3, Zenon
  <2>2. \A t \in Slot : t /= s /\ Live(t) => Live(t)'
    BY <1>3, Zenon DEF Live
  <2> QED
    BY <1>1, <1>2, <2>1, <2>2, Zenon DEF Inv, Forking
<1>9. Family'
  <2>1. \A t \in Slot : state'[t] \in {"UNUSED", "EMBRYO"} => state[t] = state'[t]
    BY <1>3, Zenon
  <2>2. Live(initproc)'
    BY <1>3, Constants, Zenon DEF Inv, Family, Live
  <2>3. \A k \in Slot : parent[k] = s => k /= initproc
    BY Constants, Zenon DEF Inv, Family
  <2> QED
    BY <1>5, <2>1, <2>2, <2>3, Constants, Zenon DEF Inv, Family
<1>10. Waiting'
  <2>1. ASSUME NEW t \in Slot, state'[t] = "SLEEPING", pc'[t] \in {"wait", "wait_stat"}
        PROVE  /\ chan'[t] = t /\ killed'[t] = 0
               /\ \E k \in Slot : parent'[k] = t
               /\ \A k \in Slot : parent'[k] = t => state'[k] /= "ZOMBIE"
    <3>0. pc' = pc
      BY <1>2, Zenon
    <3>1. /\ t /= s /\ state[t] = "SLEEPING" /\ pc[t] \in {"wait", "wait_stat"}
          /\ chan[t] \notin ExitWakes(s)
      BY <1>3, <2>1, <3>0, Zenon
    <3>2. /\ chan[t] = t /\ killed[t] = 0
          /\ \E k \in Slot : parent[k] = t
          /\ \A k \in Slot : parent[k] = t => state[k] /= "ZOMBIE"
      BY <3>1, Zenon DEF Inv, Waiting, WaitersHaveWork
    <3>3. t /= parent[s]
      BY <3>1, <3>2, Zenon DEF ExitWakes
    <3>4. t = initproc => \A k \in Slot : parent[k] = s => state[k] /= "ZOMBIE"
      BY <3>1, <3>2, Zenon DEF ExitWakes, Children
    <3>5. \A k \in Slot : parent'[k] = t => k /= s /\ state[k] /= "ZOMBIE"
      <4> SUFFICES ASSUME NEW k \in Slot, parent'[k] = t PROVE k /= s /\ state[k] /= "ZOMBIE"
        BY Zenon
      <4>1. CASE parent[k] = s
        BY <1>5, <3>4, <4>1, Zenon DEF Inv, Family
      <4>2. CASE parent[k] /= s
        BY <1>5, <3>2, <3>3, <4>2, Zenon
      <4> QED
        BY <4>1, <4>2, Zenon
    <3>6. \A k \in Slot : k /= s /\ state'[k] = "ZOMBIE" => state[k] = "ZOMBIE"
      BY <1>3, Zenon
    <3>7. \E k \in Slot : parent'[k] = t
      BY <1>5, <3>1, <3>2, Zenon
    <3> QED
      BY Zenon, <1>2, <3>2, <3>5, <3>6, <3>7
  <2> QED
    BY <2>1, Zenon DEF Waiting, WaitersHaveWork
<1>11. \A t \in Slot : /\ state'[t] = "UNUSED" <=> state[t] = "UNUSED"
                       /\ state'[t] = "ZOMBIE" <=> state[t] = "ZOMBIE" \/ t = s
  BY <1>1, <1>3, Zenon
<1>12. Ids'
  BY <1>2, <1>11, Zenon DEF Inv, Ids
<1>13. Reported'
  <2>1. pid' = pid /\ pid[s] \in Nat /\ pid[s] < nextpid
    BY <1>1, <1>2, Zenon DEF Inv, Types, Ids
  <2>2. \A t \in Slot : t /= s => status'[t] = status[t]
    BY <1>2, Zenon DEF Inv, Types
  <2>3. status'[s] = st
    BY <1>2, Zenon DEF Inv, Types
  <2>4. <<pid[s], st>> \notin exited
    BY <1>1, <2>1, Zenon DEF Inv, Reported
  <2>5. delivered \subseteq exited
    BY Zenon DEF Inv, Reported
  <2>6. ASSUME NEW t \in Slot, state'[t] = "ZOMBIE"
        PROVE  <<pid'[t], status'[t]>> \in exited' \ delivered'
    <3>1. exited' = exited \cup {<<pid[s], st>>} /\ delivered' = delivered
      BY <1>2, Zenon
    <3>2. CASE t = s
      BY <2>1, <2>3, <2>4, <2>5, <3>1, <3>2, Zenon
    <3>3. CASE t /= s
      <4>1. state[t] = "ZOMBIE"
        BY <1>11, <2>6, <3>3, Zenon
      <4>2. <<pid[t], status[t]>> \in exited \ delivered
        BY <4>1, Zenon DEF Inv, Reported
      <4> QED
        BY <2>1, <2>2, <3>1, <3>3, <4>2, Zenon
    <3> QED
      BY <3>2, <3>3, Zenon
  <2>7. ASSUME NEW i \in Nat, NEW x \in Status, <<i, x>> \in exited'
        PROVE  /\ i < nextpid'
               /\ \A t \in Slot : pid'[t] = i => state'[t] \in {"UNUSED", "ZOMBIE"}
               /\ \/ <<i, x>> \in delivered'
                  \/ \E t \in Slot : state'[t] = "ZOMBIE" /\ pid'[t] = i /\ status'[t] = x
    <3>1. CASE <<i, x>> \in exited
      <4>1. /\ i < nextpid
            /\ \A t \in Slot : pid[t] = i => state[t] \in {"UNUSED", "ZOMBIE"}
            /\ \/ <<i, x>> \in delivered
               \/ \E t \in Slot : state[t] = "ZOMBIE" /\ pid[t] = i /\ status[t] = x
        BY <3>1 DEF Inv, Reported
      <4>2. nextpid' = nextpid /\ delivered' = delivered
        BY <1>2, Zenon
      <4> QED
        BY <1>1, <1>11, <2>1, <2>2, <4>1, <4>2, Zenon
    <3>2. CASE i = pid[s] /\ x = st
      <4>1. \A t \in Slot : pid[t] = i => t = s \/ state[t] = "UNUSED"
        BY <1>1, <3>2, Zenon DEF Inv, Ids
      <4> QED
        BY <1>2, <1>11, <2>1, <2>3, <3>2, <4>1, Zenon
    <3> QED
      BY <1>2, <2>7, <3>1, <3>2, Zenon
  <2> QED
    BY <1>2, <2>5, <2>6, <2>7, Zenon DEF Reported
<1> QED
  BY <1>6, <1>7, <1>8, <1>9, <1>10, <1>12, <1>13, Zenon DEF Inv

\* wait() and wait_stat() free the slot of a ZOMBIE and report it.
LEMMA ReapInv ==
  ASSUME Inv, NEW c \in Cpu, NEW s \in Slot, curr[c] = s, NEW z \in Slot,
         parent[z] = s, state[z] = "ZOMBIE",
         delivered' = delivered \cup {Report(z)},
         status' = [status EXCEPT ![z] = 0], state' = [state EXCEPT ![z] = "UNUSED"],
         pid' = [pid EXCEPT ![z] = 0], parent' = [parent EXCEPT ![z] = 0],
         killed' = [killed EXCEPT ![z] = 0], pc' = [pc EXCEPT ![s] = "run"],
         UNCHANGED <<chan, curr, np, pos, nextpid, exited>>
  PROVE  Inv'
<1>1. state[s] = "RUNNING" /\ <<pid[z], status[z]>> \in exited \ delivered
  BY Constants DEF Inv, Running, Reported
<1>2. Types'
  <2>1. delivered' \subseteq Nat \X Status
    BY DEF Inv, Types, Report
  <2> QED
    BY <2>1, Constants, Zenon DEF Inv, Types, ProcState
<1>3. Running'
  BY SMTT(60), Constants DEF Inv, Types, Running
<1>4. Forking'
  BY SMTT(60), <1>1 DEF Inv, Types, Forking, Live
<1>5. Family'
  BY Constants DEF Inv, Types, Family, Live
<1>6. Waiting'
  <2>1. \A t \in Slot : state'[t] = "SLEEPING" /\ pc'[t] \in {"wait", "wait_stat"} =>
          state[t] = "SLEEPING" /\ pc[t] \in {"wait", "wait_stat"} /\ t /= s /\ t /= z
    BY <1>1, Zenon DEF Inv, Types
  <2>2. parent'[z] = 0 /\ \A k \in Slot : k /= z => parent'[k] = parent[k] /\ state'[k] = state[k]
    BY Zenon DEF Inv, Types
  <2>3. \A t \in Slot : t /= z => killed'[t] = killed[t]
    BY Zenon DEF Inv, Types
  <2>4. ASSUME NEW t \in Slot, state'[t] = "SLEEPING", pc'[t] \in {"wait", "wait_stat"}
        PROVE  /\ chan'[t] = t /\ killed'[t] = 0
               /\ \E k \in Slot : parent'[k] = t
               /\ \A k \in Slot : parent'[k] = t => state'[k] /= "ZOMBIE"
    <3>1. /\ t /= s /\ t /= z /\ chan[t] = t /\ killed[t] = 0
          /\ \E k \in Slot : parent[k] = t
          /\ \A k \in Slot : parent[k] = t => state[k] /= "ZOMBIE"
      BY <2>1, <2>4, Zenon DEF Inv, Waiting, WaitersHaveWork
    <3> QED
      BY <2>2, <2>3, <3>1, Constants
  <2> QED
    BY <2>4, Zenon DEF Waiting, WaitersHaveWork
<1>7. Ids'
  BY Zenon DEF Inv, Types, Ids
<1>8. \A t \in Slot : t /= z => pid'[t] = pid[t] /\ status'[t] = status[t] /\ state'[t] = state[t]
  BY Zenon DEF Inv, Types
<1>9. pid'[z] = 0 /\ state'[z] = "UNUSED"
  BY Zenon DEF Inv, Types
<1>10. Reported'
  <2>1. \A t \in Slot : t /= z /\ state[t] = "ZOMBIE" => pid[t] /= pid[z]
    BY Zenon DEF Inv, Ids
  <2>2. \A t \in Slot : state'[t] = "ZOMBIE" => <<pid'[t], status'[t]>> \in exited' \ delivered'
    BY SMTT(60), <1>8, <1>9, <2>1 DEF Inv, Reported, Report
  <2>3. delivered' \subseteq exited'
    BY <1>1 DEF Inv, Reported, Report
  <2>4. ASSUME NEW i \in Nat, NEW x \in Status, <<i, x>> \in exited
        PROVE  /\ i < nextpid
               /\ \A t \in Slot : pid'[t] = i => state'[t] \in {"UNUSED", "ZOMBIE"}
               /\ \/ <<i, x>> \in delivered'
                  \/ \E t \in Slot : state'[t] = "ZOMBIE" /\ pid'[t] = i /\ status'[t] = x
    <3>1. /\ i < nextpid
          /\ \A t \in Slot : pid[t] = i => state[t] \in {"UNUSED", "ZOMBIE"}
          /\ \/ <<i, x>> \in delivered
             \/ \E t \in Slot : state[t] = "ZOMBIE" /\ pid[t] = i /\ status[t] = x
      BY <2>4, Zenon DEF Inv, Reported
    <3> QED
      BY <1>8, <1>9, <3>1 DEF Report
  <2> QED
    BY SMTT(60), <2>2, <2>3, <2>4 DEF Reported
<1> QED
  BY <1>2, <1>3, <1>4, <1>5, <1>6, <1>7, <1>10, Zenon DEF Inv

\* Steps of the process that CPU c executes, except fork() and exit().
LEMMA ProcessInv ==
  ASSUME Inv, NEW c \in Cpu, NEW s \in Slot
  PROVE  /\ \A f \in {"wait", "wait_stat"} : Wait(c, s, f) \/ WaitScan(c, s, f) => Inv'
         /\ \A ch \in Chan : Sleep(c, s, ch) => Inv'
         /\ \A f \in {"run", "fork"} : Yield(c, s, f) => Inv'
         /\ \A i \in 0..MaxPid : Kill(c, s, i) => Inv'
         /\ Fault(c, s) => Inv'
         /\ \A id \in PolicyIds : Schedp(c, s, id) => Inv'
<1>1. Types
  BY Zenon DEF Inv
<1>2. ASSUME NEW f \in {"wait", "wait_stat"}, Wait(c, s, f) PROVE Inv'
  <2>1. state[s] = "RUNNING" /\ pc[s] = "run"
    BY <1>2, Executes, Zenon DEF Wait
  <2>2. pc' = [pc EXCEPT ![s] = f] /\ killed' = killed /\ pos' = pos
        /\ UNCHANGED <<state, pid, parent, chan, status, np, curr, nextpid, history>>
    BY <1>2, Zenon DEF Wait, slotVars, globalVars
  <2> QED
    BY <1>1, <1>2, <2>1, <2>2, QuietInv, Zenon DEF Types
<1>3. ASSUME NEW f \in {"wait", "wait_stat"}, WaitScan(c, s, f) PROVE Inv'
  <2>1. curr[c] = s /\ state[s] = "RUNNING" /\ pc[s] = f
    BY <1>3, Executes, Zenon DEF WaitScan
  <2>2. UNCHANGED <<np, pos, nextpid, exited>>
    BY <1>3, Zenon DEF WaitScan, globalVars
  <2>3. ASSUME NEW z \in Slot, parent[z] = s, state[z] = "ZOMBIE",
               delivered' = delivered \cup {Report(z)},
               status' = [status EXCEPT ![z] = 0], state' = [state EXCEPT ![z] = "UNUSED"],
               pid' = [pid EXCEPT ![z] = 0], parent' = [parent EXCEPT ![z] = 0],
               killed' = [killed EXCEPT ![z] = 0], pc' = [pc EXCEPT ![s] = "run"],
               UNCHANGED <<chan, curr>>
        PROVE  Inv'
    BY Zenon, <2>1, <2>2, <2>3, ReapInv
  <2>4. ASSUME pc' = [pc EXCEPT ![s] = "run"], UNCHANGED <<slotVars, curr, delivered>>
        PROVE  Inv'
    <3>1. UNCHANGED <<state, pid, parent, chan, status, np, curr, nextpid, history>>
          /\ killed' = killed /\ pos' = pos
      BY <2>2, <2>4, Zenon DEF slotVars, history
    <3> QED
      BY <1>1, <2>1, <2>4, <3>1, QuietInv, Zenon DEF Types
  <2>5. ASSUME Children(s) /= {}, killed[s] = 0, {k \in Children(s) : state[k] = "ZOMBIE"} = {},
               state' = [state EXCEPT ![s] = "SLEEPING"], chan' = [chan EXCEPT ![s] = s], Sched(c),
               UNCHANGED <<pid, parent, killed, status, ntickets, perf, pc, delivered>>
        PROVE  Inv'
    <3>1. /\ \E k \in Slot : parent[k] = s
          /\ \A k \in Slot : parent[k] = s => state[k] /= "ZOMBIE"
      BY <2>5, Zenon DEF Children
    <3>2. UNCHANGED <<pid, parent, killed, status, np, pos, nextpid, history>>
          /\ curr' = [curr EXCEPT ![c] = 0] /\ pc' = pc
      BY <2>2, <2>5, Zenon DEF Sched, history
    <3> QED
      BY Zenon, <2>1, <2>5, <3>1, <3>2, LeaveInv
  <2> QED
    BY <1>3, <2>3, <2>4, <2>5, Zenon DEF WaitScan, Children
<1>4. ASSUME NEW ch \in Chan, Sleep(c, s, ch) PROVE Inv'
  <2>1. curr[c] = s /\ pc[s] = "run"
    BY <1>4, Executes, Zenon DEF Sleep
  <2>2. /\ state' = [state EXCEPT ![s] = "SLEEPING"] /\ chan' = [chan EXCEPT ![s] = ch]
        /\ pc' = [pc EXCEPT ![s] = "sleep"] /\ curr' = [curr EXCEPT ![c] = 0]
        /\ UNCHANGED <<pid, parent, killed, status, np, pos, nextpid, history>>
    BY <1>4, Zenon DEF Sleep, Sched, globalVars
  <2>3. pc'[s] = "sleep"
    BY <1>1, <2>2, Zenon DEF Types
  <2> QED
    BY Zenon, <2>1, <2>2, <2>3, LeaveInv
<1>5. ASSUME NEW f \in {"run", "fork"}, Yield(c, s, f) PROVE Inv'
  <2>1. curr[c] = s
    BY <1>5, Executes, Zenon DEF Yield
  <2>2. /\ state' = [state EXCEPT ![s] = "RUNNABLE"] /\ pc' = pc /\ curr' = [curr EXCEPT ![c] = 0]
        /\ UNCHANGED <<pid, parent, killed, status, np, pos, nextpid, history>>
    BY <1>5, Zenon DEF Yield, Sched, globalVars
  <2>3. chan' = [chan EXCEPT ![s] = chan[s]] /\ chan[s] \in Slot \cup {0} \cup Chan
    BY <1>1, <1>5, Zenon DEF Yield, Types
  <2> QED
    BY Zenon, <2>1, <2>2, <2>3, LeaveInv
<1>6. ASSUME NEW i \in 0..MaxPid, Kill(c, s, i) PROVE Inv'
  <2>1. PICK q \in Slot :
          /\ killed' = [killed EXCEPT ![q] = 1]
          /\ state' = IF state[q] = "SLEEPING" THEN [state EXCEPT ![q] = "RUNNABLE"] ELSE state
    BY Zenon, <1>6 DEF Kill
  <2>2. UNCHANGED <<pid, parent, chan, status, pc, np, curr, pos, nextpid, history>>
    BY <1>6, Zenon DEF Kill, threadVars, globalVars
  <2>3. /\ state' \in [Slot -> ProcState] /\ killed' \in [Slot -> {0, 1}]
        /\ \A t \in Slot : state'[t] = state[t] \/ (state[t] = "SLEEPING" /\ state'[t] = "RUNNABLE")
        /\ \A t \in Slot : state'[t] = "SLEEPING" => killed'[t] = killed[t]
    BY <1>1, <2>1, Zenon DEF Types, ProcState
  <2> QED
    BY <2>2, <2>3, WakeInv, Zenon
<1>7. ASSUME Fault(c, s) PROVE Inv'
  <2>1. state[s] = "RUNNING" /\ pc[s] = "run"
    BY <1>7, Executes, Zenon DEF Fault
  <2>2. killed' = [killed EXCEPT ![s] = 1] /\ pc' = pc /\ pos' = pos
        /\ UNCHANGED <<state, pid, parent, chan, status, np, curr, nextpid, history>>
    BY <1>7, Zenon DEF Fault, threadVars, globalVars
  <2> QED
    BY <1>1, <2>1, <2>2, QuietInv, Zenon DEF Types
<1>8. ASSUME NEW id \in PolicyIds, Schedp(c, s, id) PROVE Inv'
  <2>1. UNCHANGED <<state, pid, parent, chan, status, np, curr, nextpid, history, killed, pc, pos>>
    BY <1>8, Zenon DEF Schedp, slotVars, threadVars
  <2> QED
    BY <1>1, <2>1, QuietInv, Zenon DEF Types
<1> QED
  BY <1>2, <1>3, <1>4, <1>5, <1>6, <1>7, <1>8, Zenon

\* Steps of the scheduler, of interrupt handlers, and of nobody.
LEMMA KernelInv ==
  ASSUME Inv
  PROVE  /\ \A c \in Cpu, s \in Slot : Draw(c, s) => Inv'
         /\ \A c \in Cpu : DrawOn(c) => Inv'
         /\ \A ch \in Chan : Wakeup(ch) => Inv'
         /\ Tick \/ UpdatePerformanceFields \/ UNCHANGED vars => Inv'
<1>1. Types
  BY Zenon DEF Inv
<1>2. ASSUME NEW c \in Cpu, NEW s \in Slot, Draw(c, s) PROVE Inv'
  <2>1. curr[c] = 0 /\ Dispatch(c, s) /\ UNCHANGED <<pid, parent, killed, status, np, nextpid, history>>
    BY Zenon, <1>2 DEF Draw, globalVars
  <2> QED
    BY <2>1, DispatchInv, Zenon
<1>3. ASSUME NEW c \in Cpu, DrawOn(c) PROVE Inv'
  <2>1. curr[c] = 0 /\ pos[c] \in Slot /\ UNCHANGED <<pid, parent, killed, status, np, nextpid, history>>
    BY <1>1, <1>3, Zenon DEF DrawOn, globalVars, Types
  <2>2. CASE pos[c] < NPROC /\ state[pos[c] + 1] = "RUNNABLE"
    <3>1. pos[c] + 1 \in Slot
      BY <2>1, <2>2, Constants DEF Slot
    <3>2. Dispatch(c, pos[c] + 1)
      BY <1>3, <2>2, Zenon DEF DrawOn
    <3> QED
      BY Zenon, <2>1, <3>1, <3>2, DispatchInv
  <2>3. CASE ~(pos[c] < NPROC /\ state[pos[c] + 1] = "RUNNABLE")
    <3>1. pos' = [pos EXCEPT ![c] = 0] /\ UNCHANGED <<state, chan, pc, curr>>
      BY Zenon, <1>3, <2>3 DEF DrawOn
    <3> QED
      BY <1>1, <2>1, <3>1, QuietInv, Zenon DEF Types
  <2> QED
    BY <2>2, <2>3, Zenon
<1>4. ASSUME NEW ch \in Chan, Wakeup(ch) PROVE Inv'
  <2>1. UNCHANGED <<pid, parent, chan, status, pc, np, curr, pos, nextpid, history, killed>>
    BY <1>4, Zenon DEF Wakeup, threadVars, globalVars
  <2>2. /\ state' \in [Slot -> ProcState]
        /\ \A t \in Slot : state'[t] = state[t] \/ (state[t] = "SLEEPING" /\ state'[t] = "RUNNABLE")
    BY <1>1, <1>4, Zenon DEF Wakeup, Wakeup1, Types, ProcState
  <2> QED
    BY <1>1, <2>1, <2>2, WakeInv, Zenon DEF Types
<1>5. ASSUME Tick \/ UpdatePerformanceFields \/ UNCHANGED vars PROVE Inv'
  <2>1. UNCHANGED <<state, pid, parent, chan, status, np, curr, nextpid, history, killed, pc, pos>>
    BY <1>5, Zenon DEF Tick, UpdatePerformanceFields, vars, slotVars, threadVars, globalVars
  <2> QED
    BY <1>1, <2>1, QuietInv, Zenon DEF Types
<1> QED
  BY <1>2, <1>3, <1>4, <1>5, Zenon

\* No step breaks the invariant.
LEMMA NextInv == Inv /\ [Next]_vars => Inv'
<1> SUFFICES ASSUME Inv, [Next]_vars PROVE Inv'
  BY Zenon
<1>1. ASSUME NEW c \in Cpu, NEW s \in Slot, NEW st \in Status, Exit(c, s, st) PROVE Inv'
  <2>1. CASE s = initproc
    <3>1. UNCHANGED <<state, pid, parent, chan, status, np, curr, nextpid, history, killed, pc, pos>>
      BY <1>1, <2>1, Zenon DEF Exit, slotVars, threadVars, history
    <3> QED
      BY Zenon, <3>1, QuietInv DEF Inv, Types
  <2> QED
    BY <1>1, <2>1, ExitInv, Zenon
<1>2. ASSUME NEW c \in Cpu, NEW s \in Slot, Fork(c, s) \/ ForkFail(c, s) \/ ForkDone(c, s) PROVE Inv'
  BY <1>2, ForkInv, ForkFailInv, ForkDoneInv, Zenon
<1> QED
  BY <1>1, <1>2, ProcessInv, KernelInv, Zenon DEF Next

-----------------------------------------------------------------------------

\* scheduler(), sched() and everything that changes p->state keep the table and
\* the CPUs in step: a process is RUNNING exactly while one CPU executes it.
THEOREM RunningOnceAlways == Spec => []RunningOnce
<1>1. Inv => RunningOnce
  <2> SUFFICES ASSUME Inv, NEW s \in Slot
               PROVE  IF state[s] = "RUNNING" THEN \E c \in Cpu : {d \in Cpu : curr[d] = s} = {c}
                      ELSE {d \in Cpu : curr[d] = s} = {}
    BY Zenon DEF RunningOnce
  <2>1. CASE state[s] = "RUNNING"
    <3>1. PICK c \in Cpu : curr[c] = s
      BY <2>1, Zenon DEF Inv, Running
    <3>2. \A d \in Cpu : curr[d] = s => d = c
      BY <3>1, Constants, Zenon DEF Inv, Running
    <3>3. {d \in Cpu : curr[d] = s} = {c}
      BY <3>1, <3>2, Zenon
    <3> QED
      BY <2>1, <3>3, Zenon
  <2>2. CASE state[s] /= "RUNNING"
    BY <2>2, Constants DEF Inv, Running
  <2> QED
    BY <2>1, <2>2, Zenon
<1> QED
  BY <1>1, InitInv, NextInv, PTL DEF Spec

\* No wakeup of exit() is lost on a process that sleeps in wait() or wait_stat():
\* it has a child, none that is a ZOMBIE already, and has not been killed.
THEOREM WaitersHaveWorkAlways == Spec => []WaitersHaveWork
<1>1. Inv => WaitersHaveWork
  BY Zenon DEF Inv, Waiting
<1> QED
  BY <1>1, InitInv, NextInv, PTL DEF Spec

\* What updatePerformanceFields() has counted for a process is what it should be.
PerfType == [ctime : Nat, ttime : Nat, stime : Nat, retime : Nat, rutime : Nat]
Balanced(p, now, counting) ==
  LET spent == p.stime + p.retime + p.rutime
      due == (now - p.ctime) - (IF counting THEN 1 ELSE 0)
  IN  spent \in {due, due + 1}

\* A live process has a ticket and its times add up; a ZOMBIE has no ticket.
Accounts ==
  /\ ntickets \in [Slot -> Nat] /\ perf \in [Slot -> PerfType] /\ ticks \in Nat
  /\ \A s \in Slot : Live(s) => ntickets[s] > 0 /\ Balanced(perf[s], ticks, tickpc = "count")
  /\ \A s \in Slot : state[s] = "ZOMBIE" => ntickets[s] = 0

\* Steps that bring no process to life and count nothing.
LEMMA AccountsKept ==
  ASSUME Accounts, ticks' = ticks, tickpc' = tickpc,
         ntickets' \in [Slot -> Nat], perf' \in [Slot -> PerfType],
         \A s \in Slot : Live(s)' => /\ Live(s) /\ ntickets'[s] > 0
                                     /\ perf'[s].stime = perf[s].stime
                                     /\ perf'[s].retime = perf[s].retime
                                     /\ perf'[s].rutime = perf[s].rutime
                                     /\ perf'[s].ctime = perf[s].ctime,
         \A s \in Slot : state'[s] = "ZOMBIE" => ntickets'[s] = 0
  PROVE  Accounts'
<1>1. ASSUME NEW s \in Slot, Live(s)' PROVE Balanced(perf'[s], ticks, tickpc = "count")
  <2>1. Balanced(perf[s], ticks, tickpc = "count")
    BY <1>1, Zenon DEF Accounts
  <2> QED
    BY <1>1, <2>1, Zenon DEF Balanced
<1>2. ticks' \in Nat
  BY Zenon DEF Accounts
<1> QED
  BY <1>1, <1>2, Zenon DEF Accounts

\* Steps that only change states, of live processes among each other.
LEMMA AccountsStill ==
  ASSUME Accounts, UNCHANGED <<ntickets, perf, ticks, tickpc>>,
         \A s \in Slot : /\ Live(s)' => Live(s)
                         /\ state'[s] = "ZOMBIE" => state[s] = "ZOMBIE"
  PROVE  Accounts'
BY Zenon DEF Accounts

\* A process that was created now owes nothing, or the tick that is being counted.
LEMMA BalancedAtFork ==
  ASSUME NEW p, NEW now \in Nat, NEW counting \in BOOLEAN,
         p.stime = 0, p.retime = 0, p.rutime = 0, p.ctime = now
  PROVE  Balanced(p, now, counting)
<1>1. now - now = 0 /\ 0 - 0 = 0 /\ (0 - 1) + 1 = 0 /\ 0 + 0 + 0 = 0
  OBVIOUS
<1> QED
  BY Zenon, <1>1 DEF Balanced

\* fork() gives the child tickets and sets its times back.
LEMMA ForkDoneAccounts ==
  ASSUME Inv, Accounts, NEW c \in Cpu, NEW s \in Slot, ForkDone(c, s)
  PROVE  Accounts'
<1> DEFINE n == np[s]
<1>1. n \in Slot
  BY Executes DEF ForkDone, Inv, Forking
<1>2. /\ ntickets' = [ntickets EXCEPT ![n] = NewTickets] /\ state' = [state EXCEPT ![n] = "RUNNABLE"]
      /\ perf' = [perf EXCEPT ![n] = ForkPerf(perf[n])] /\ ticks' = ticks /\ tickpc' = tickpc
  BY Zenon DEF ForkDone, globalVars
<1> HIDE DEF n
<1>3. NewTickets \in Nat /\ NewTickets > 0
  BY ProcAssumption DEF NewTickets
<1>4. /\ ForkPerf(perf[n]) \in PerfType
      /\ ForkPerf(perf[n]).stime = 0 /\ ForkPerf(perf[n]).retime = 0
      /\ ForkPerf(perf[n]).rutime = 0 /\ ForkPerf(perf[n]).ctime = ticks
  <2>1. perf[n] \in PerfType /\ ticks \in Nat
    BY <1>1, Zenon DEF Accounts
  <2> QED
    BY Zenon, <2>1 DEF ForkPerf, PerfType
<1>5. ticks \in Nat /\ ntickets' \in [Slot -> Nat] /\ perf' \in [Slot -> PerfType]
  BY Zenon, <1>2, <1>3, <1>4 DEF Accounts
<1>6. /\ ntickets'[n] = NewTickets /\ perf'[n] = ForkPerf(perf[n]) /\ state'[n] = "RUNNABLE"
      /\ \A t \in Slot : t /= n => /\ ntickets'[t] = ntickets[t] /\ perf'[t] = perf[t]
                                   /\ state'[t] = state[t]
  BY <1>1, <1>2, Zenon DEF Accounts, Inv, Types
<1>7. ASSUME NEW t \in Slot, Live(t)'
      PROVE  ntickets'[t] > 0 /\ Balanced(perf'[t], ticks, tickpc = "count")
  <2>1. CASE t = n
    <3>1. Balanced(ForkPerf(perf[n]), ticks, tickpc = "count")
      BY Zenon, <1>4, <1>5, BalancedAtFork
    <3> QED
      BY Zenon, <1>3, <1>6, <2>1, <3>1
  <2>2. CASE t /= n
    BY Zenon, <1>6, <1>7, <2>2 DEF Accounts, Live
  <2> QED
    BY Zenon, <2>1, <2>2
<1>8. \A t \in Slot : state'[t] = "ZOMBIE" => ntickets'[t] = 0
  BY <1>6, Zenon DEF Accounts
<1> QED
  BY <1>2, <1>5, <1>7, <1>8, Zenon DEF Accounts

\* exit() leaves a ZOMBIE without tickets.
LEMMA ExitAccounts ==
  ASSUME Inv, Accounts, NEW c \in Cpu, NEW s \in Slot, NEW st \in Status, Exit(c, s, st)
  PROVE  Accounts'
<1>1. CASE s = initproc
  <2>1. UNCHANGED <<state, ntickets, perf, ticks, tickpc>>
    BY <1>1, Zenon DEF Exit, slotVars
  <2> QED
    BY <2>1, AccountsStill, Zenon DEF Live
<1>2. CASE s /= initproc
  <2>1. /\ state' = [Wakeup1(ExitWakes(s)) EXCEPT ![s] = "ZOMBIE"] /\ ticks' = ticks /\ tickpc' = tickpc
        /\ perf' = [perf EXCEPT ![s].ttime = ticks] /\ ntickets' = [ntickets EXCEPT ![s] = 0]
    BY <1>2, Zenon DEF Exit
  <2>2. /\ state'[s] = "ZOMBIE" /\ ntickets'[s] = 0
        /\ \A t \in Slot : t /= s => /\ ntickets'[t] = ntickets[t] /\ perf'[t] = perf[t]
                                     /\ \/ state'[t] = state[t]
                                        \/ state[t] = "SLEEPING" /\ state'[t] = "RUNNABLE"
    BY <2>1, Zenon DEF Accounts, Wakeup1
  <2>3. ntickets' \in [Slot -> Nat] /\ perf' \in [Slot -> PerfType]
    BY <2>1, Zenon DEF Accounts, PerfType
  <2>4. \A t \in Slot : Live(t)' => t /= s /\ Live(t)
    BY <2>2, Zenon DEF Live
  <2>5. \A t \in Slot : state'[t] = "ZOMBIE" => ntickets'[t] = 0
    BY Zenon, <2>2 DEF Accounts
  <2>6. \A t \in Slot : Live(t)' => ntickets'[t] > 0 /\ perf'[t] = perf[t]
    BY <2>2, <2>4, Zenon DEF Accounts
  <2> QED
    BY <2>1, <2>3, <2>4, <2>5, <2>6, AccountsKept, Zenon
<1> QED
  BY <1>1, <1>2, Zenon

\* A pass of wait()'s loop: the slot of a reaped child has no live process.
LEMMA WaitScanAccounts ==
  ASSUME Inv, Accounts, NEW c \in Cpu, NEW s \in Slot, NEW f, WaitScan(c, s, f)
  PROVE  Accounts'
<1>1. state[s] = "RUNNING" /\ UNCHANGED <<ticks, tickpc>>
  BY Executes, Zenon DEF WaitScan, globalVars
<1>2. ASSUME NEW z \in Slot, state[z] = "ZOMBIE",
             ntickets' = [ntickets EXCEPT ![z] = 0], state' = [state EXCEPT ![z] = "UNUSED"],
             perf' = IF f = "wait_stat" THEN [perf EXCEPT ![z] = NoPerf] ELSE perf
      PROVE  Accounts'
  <2>1. NoPerf \in PerfType
    BY Zenon DEF NoPerf, PerfType
  <2>2. ntickets' \in [Slot -> Nat] /\ perf' \in [Slot -> PerfType]
    BY <1>2, <2>1, Zenon DEF Accounts
  <2>3. /\ state'[z] = "UNUSED" /\ ntickets'[z] = 0
        /\ \A t \in Slot : t /= z => /\ ntickets'[t] = ntickets[t] /\ perf'[t] = perf[t]
                                     /\ state'[t] = state[t]
    BY <1>2, Zenon DEF Accounts, Inv, Types
  <2>4. \A t \in Slot : Live(t)' => t /= z /\ Live(t)
    BY Zenon, <2>3 DEF Live
  <2>5. \A t \in Slot : state'[t] = "ZOMBIE" => ntickets'[t] = 0
    BY <2>3, Zenon DEF Accounts
  <2>6. \A t \in Slot : Live(t)' => ntickets'[t] > 0 /\ perf'[t] = perf[t]
    BY Zenon, <2>3, <2>4 DEF Accounts
  <2> QED
    BY Zenon, <1>1, <2>2, <2>4, <2>5, <2>6, AccountsKept
<1>3. ASSUME UNCHANGED slotVars PROVE Accounts'
  <2>1. UNCHANGED <<state, ntickets, perf>>
    BY <1>3, Zenon DEF slotVars
  <2> QED
    BY <1>1, <2>1, AccountsStill, Zenon DEF Live
<1>4. ASSUME state' = [state EXCEPT ![s] = "SLEEPING"], UNCHANGED <<ntickets, perf>> PROVE Accounts'
  <2>1. \A t \in Slot : (Live(t)' => Live(t)) /\ (state'[t] = "ZOMBIE" => state[t] = "ZOMBIE")
    BY <1>1, <1>4, Zenon DEF Live, Inv, Types
  <2> QED
    BY <1>1, <1>4, <2>1, AccountsStill, Zenon
<1> QED
  BY <1>2, <1>3, <1>4, Zenon DEF WaitScan, Children

\* yield() leaves a process its last ticket.
LEMMA YieldAccounts ==
  ASSUME Inv, Accounts, NEW c \in Cpu, NEW s \in Slot, NEW f, Yield(c, s, f)
  PROVE  Accounts'
<1>1. /\ state[s] = "RUNNING" /\ UNCHANGED <<perf, ticks, tickpc>>
      /\ state' = [state EXCEPT ![s] = "RUNNABLE"] /\ ntickets' = [ntickets EXCEPT ![s] = YieldTickets(s)]
  BY Zenon, Executes DEF Yield, globalVars
<1>2. ntickets[s] \in Nat /\ ntickets[s] > 0
  BY <1>1, Zenon DEF Accounts, Live
<1>3. YieldTickets(s) \in Nat /\ YieldTickets(s) > 0
  BY <1>2 DEF YieldTickets
<1>4. /\ state'[s] = "RUNNABLE" /\ ntickets'[s] > 0
      /\ \A t \in Slot : t /= s => ntickets'[t] = ntickets[t] /\ state'[t] = state[t]
  BY <1>1, <1>3, Zenon DEF Accounts, Inv, Types
<1>5. ntickets' \in [Slot -> Nat] /\ perf' \in [Slot -> PerfType]
  BY <1>1, <1>3, Zenon DEF Accounts
<1>6. \A t \in Slot : Live(t)' => Live(t) /\ ntickets'[t] > 0
  BY <1>1, <1>4, Zenon DEF Accounts, Live
<1>7. \A t \in Slot : state'[t] = "ZOMBIE" => ntickets'[t] = 0
  BY Zenon, <1>4 DEF Accounts
<1> QED
  BY <1>1, <1>5, <1>6, <1>7, AccountsKept, Zenon

\* kill() stamps the end of a process, which no counter depends on.
LEMMA KillAccounts ==
  ASSUME Inv, Accounts, NEW c \in Cpu, NEW s \in Slot, NEW i, Kill(c, s, i)
  PROVE  Accounts'
<1>1. PICK q \in Slot :
        /\ perf' = [perf EXCEPT ![q].ttime = ticks]
        /\ state' = IF state[q] = "SLEEPING" THEN [state EXCEPT ![q] = "RUNNABLE"] ELSE state
  BY Zenon DEF Kill
<1>2. UNCHANGED <<ntickets, ticks, tickpc>>
  BY Zenon DEF Kill, globalVars
<1>3. perf' \in [Slot -> PerfType] /\ ntickets' \in [Slot -> Nat]
  BY <1>1, <1>2, Zenon DEF Accounts, PerfType
<1>4. \A t \in Slot : /\ perf'[t].stime = perf[t].stime /\ perf'[t].retime = perf[t].retime
                      /\ perf'[t].rutime = perf[t].rutime /\ perf'[t].ctime = perf[t].ctime
  BY <1>1, Zenon DEF Accounts, PerfType
<1>5. \A t \in Slot : (Live(t)' => Live(t)) /\ (state'[t] = "ZOMBIE" => state[t] = "ZOMBIE")
  BY <1>1, Zenon DEF Live, Inv, Types
<1>6. \A t \in Slot : /\ Live(t)' => ntickets'[t] > 0
                      /\ state'[t] = "ZOMBIE" => ntickets'[t] = 0
  BY Zenon, <1>2, <1>5 DEF Accounts
<1> QED
  BY Zenon, <1>2, <1>3, <1>4, <1>5, <1>6, AccountsKept

\* A tick is due when it is counted: ticks++ and updatePerformanceFields().
LEMMA TickAccounts == ASSUME Accounts, Tick PROVE Accounts'
<1>1. /\ ticks' = ticks + 1 /\ tickpc = "idle" /\ tickpc' = "count"
      /\ UNCHANGED <<state, ntickets, perf>>
  BY Zenon DEF Tick, slotVars
<1>2. ASSUME NEW t \in Slot, Live(t) PROVE Balanced(perf[t], ticks + 1, TRUE)
  <2>1. Balanced(perf[t], ticks, FALSE) /\ ticks \in Nat /\ perf[t] \in PerfType
    BY Zenon, <1>1, <1>2 DEF Accounts
  <2>2. perf[t].ctime \in Nat
    BY <2>1, Zenon DEF PerfType
  <2>3. ((ticks + 1) - perf[t].ctime) - 1 = (ticks - perf[t].ctime) - 0
    BY <2>1, <2>2
  <2> QED
    BY <2>1, <2>3, Zenon DEF Balanced
<1>3. \A t \in Slot : Live(t)' <=> Live(t)
  BY <1>1, Zenon DEF Live
<1>4. (tickpc = "count")' = TRUE /\ ticks' \in Nat
  BY <1>1 DEF Accounts
<1> QED
  BY <1>1, <1>2, <1>3, <1>4, Zenon DEF Accounts

LEMMA UpdateAccounts == ASSUME Accounts, UpdatePerformanceFields PROVE Accounts'
<1>1. tickpc = "count" /\ tickpc' = "idle" /\ UNCHANGED <<state, ntickets, ticks>>
  BY Zenon DEF UpdatePerformanceFields
<1>2. perf' = [s \in Slot |->
                CASE state[s] = "RUNNING"  -> [perf[s] EXCEPT !.rutime = @ + 1]
                  [] state[s] = "SLEEPING" -> [perf[s] EXCEPT !.stime = @ + 1]
                  [] state[s] = "RUNNABLE" -> [perf[s] EXCEPT !.retime = @ + 1]
                  [] OTHER -> perf[s]]
  BY Zenon DEF UpdatePerformanceFields
<1>3. ASSUME NEW t \in Slot
      PROVE  /\ perf'[t] \in PerfType
             /\ Live(t) => Balanced(perf'[t], ticks, FALSE)
  <2>1. perf[t] \in PerfType /\ ticks \in Nat
    BY Zenon DEF Accounts
  <2>2. perf[t].stime \in Nat /\ perf[t].retime \in Nat /\ perf[t].rutime \in Nat /\ perf[t].ctime \in Nat
    BY <2>1, Zenon DEF PerfType
  <2>3. \/ perf'[t] = [perf[t] EXCEPT !.rutime = @ + 1]
        \/ perf'[t] = [perf[t] EXCEPT !.stime = @ + 1]
        \/ perf'[t] = [perf[t] EXCEPT !.retime = @ + 1]
        \/ ~Live(t) /\ perf'[t] = perf[t]
    BY <1>2, Zenon DEF Live
  <2>4. perf'[t] \in PerfType
    BY <2>1, <2>3 DEF PerfType
  <2>5. ASSUME Live(t)
        PROVE  /\ perf'[t].ctime = perf[t].ctime
               /\ perf'[t].stime + perf'[t].retime + perf'[t].rutime
                    = (perf[t].stime + perf[t].retime + perf[t].rutime) + 1
    BY <2>1, <2>2, <2>3, <2>5 DEF PerfType
  <2>6. ASSUME Live(t) PROVE Balanced(perf'[t], ticks, FALSE)
    <3> DEFINE spent == perf[t].stime + perf[t].retime + perf[t].rutime
               due == ticks - perf[t].ctime
    <3>1. spent \in {due - 1, (due - 1) + 1}
      BY <1>1, <2>6, Zenon DEF Accounts, Balanced
    <3>2. spent \in Nat /\ due \in Int
      BY <2>1, <2>2
    <3>3. spent + 1 \in {due - 0, (due - 0) + 1}
      BY <3>1, <3>2
    <3> QED
      BY <2>5, <2>6, <3>3, Zenon DEF Balanced
  <2> QED
    BY Zenon, <2>4, <2>6
<1>4. perf' \in [Slot -> PerfType]
  BY Zenon, <1>2, <1>3
<1>5. \A t \in Slot : Live(t)' <=> Live(t)
  BY <1>1, Zenon DEF Live
<1>6. (tickpc = "count")' = FALSE
  BY <1>1, Zenon
<1> QED
  BY <1>1, <1>3, <1>4, <1>5, <1>6, Zenon DEF Accounts

\* No step unbalances the accounts.
LEMMA NextAccounts == ASSUME Inv, Accounts, [Next]_vars PROVE Accounts'
<1>0. state \in [Slot -> ProcState]
  BY Zenon DEF Inv, Types
<1>1. ASSUME NEW c \in Cpu, NEW s \in Slot, Fork(c, s) PROVE Accounts'
  <2>1. PICK n \in Slot : state[n] = "UNUSED" /\ state' = [state EXCEPT ![n] = "EMBRYO"]
    BY <1>1, Zenon DEF Fork
  <2>2. UNCHANGED <<ntickets, perf, ticks, tickpc>>
    BY <1>1, Zenon DEF Fork
  <2>3. \A t \in Slot : (Live(t)' => Live(t)) /\ (state'[t] = "ZOMBIE" => state[t] = "ZOMBIE")
    BY <1>0, <2>1, Zenon DEF Live
  <2> QED
    BY <2>2, <2>3, AccountsStill, Zenon
<1>2. ASSUME NEW c \in Cpu, NEW s \in Slot, ForkFail(c, s) PROVE Accounts'
  <2>1. state' = [state EXCEPT ![np[s]] = "UNUSED"] /\ UNCHANGED <<ntickets, perf, ticks, tickpc>>
    BY <1>2, Zenon DEF ForkFail, globalVars
  <2>2. \A t \in Slot : (Live(t)' => Live(t)) /\ (state'[t] = "ZOMBIE" => state[t] = "ZOMBIE")
    BY <1>0, <2>1, Zenon DEF Live
  <2> QED
    BY <2>1, <2>2, AccountsStill, Zenon
<1>3. ASSUME NEW c \in Cpu, NEW s \in Slot, NEW ch \in Chan, Sleep(c, s, ch) PROVE Accounts'
  <2>1. /\ state[s] = "RUNNING" /\ state' = [state EXCEPT ![s] = "SLEEPING"]
        /\ UNCHANGED <<ntickets, perf, ticks, tickpc>>
    BY <1>3, Executes, Zenon DEF Sleep, globalVars
  <2>2. \A t \in Slot : (Live(t)' => Live(t)) /\ (state'[t] = "ZOMBIE" => state[t] = "ZOMBIE")
    BY <1>0, <2>1, Zenon DEF Live
  <2> QED
    BY <2>1, <2>2, AccountsStill, Zenon
<1>4. ASSUME NEW c \in Cpu, NEW s \in Slot, Dispatch(c, s), UNCHANGED <<ntickets, perf, ticks, tickpc>>
      PROVE  Accounts'
  <2>1. \A t \in Slot : (Live(t)' => Live(t)) /\ (state'[t] = "ZOMBIE" => state[t] = "ZOMBIE")
    BY <1>0, <1>4, Zenon DEF Dispatch, Live
  <2> QED
    BY <1>4, <2>1, AccountsStill, Zenon
<1>5. ASSUME NEW c \in Cpu, NEW s \in Slot, Draw(c, s) PROVE Accounts'
  <2>1. Dispatch(c, s) /\ UNCHANGED <<ntickets, perf, ticks, tickpc>>
    BY <1>5, Zenon DEF Draw, globalVars
  <2> QED
    BY <1>4, <2>1, Zenon
<1>6. ASSUME UNCHANGED <<state, ntickets, perf, ticks, tickpc>> PROVE Accounts'
  BY <1>6, AccountsStill, Zenon DEF Live
<1>7. ASSUME NEW c \in Cpu, DrawOn(c) PROVE Accounts'
  <2>1. UNCHANGED <<ntickets, perf, ticks, tickpc>>
    BY Zenon, <1>7 DEF DrawOn, globalVars
  <2>2. CASE pos[c] < NPROC /\ state[pos[c] + 1] = "RUNNABLE"
    <3>1. pos[c] + 1 \in Slot
      BY <1>7, <2>2, Constants DEF DrawOn, Inv, Types, Slot
    <3>2. Dispatch(c, pos[c] + 1)
      BY <1>7, <2>2, Zenon DEF DrawOn
    <3> QED
      BY <1>4, <2>1, <3>1, <3>2, Zenon
  <2>3. CASE ~(pos[c] < NPROC /\ state[pos[c] + 1] = "RUNNABLE")
    <3>1. state' = state
      BY <1>7, <2>3, Zenon DEF DrawOn
    <3> QED
      BY <1>6, <2>1, <3>1, Zenon
  <2> QED
    BY <2>2, <2>3, Zenon
<1>8. ASSUME NEW ch \in Chan, Wakeup(ch) PROVE Accounts'
  <2>1. UNCHANGED <<ntickets, perf, ticks, tickpc>> /\ state' = Wakeup1({ch})
    BY <1>8, Zenon DEF Wakeup, globalVars
  <2>2. \A t \in Slot : (Live(t)' => Live(t)) /\ (state'[t] = "ZOMBIE" => state[t] = "ZOMBIE")
    BY <2>1, Zenon DEF Wakeup1, Live
  <2> QED
    BY <2>1, <2>2, AccountsStill, Zenon
<1>9. ASSUME NEW c \in Cpu, NEW s \in Slot,
             \/ \E f \in {"wait", "wait_stat"} : Wait(c, s, f)
             \/ Fault(c, s)
             \/ \E id \in PolicyIds : Schedp(c, s, id)
      PROVE  Accounts'
  <2>1. UNCHANGED <<state, ntickets, perf, ticks, tickpc>>
    BY <1>9, Zenon DEF Wait, Fault, Schedp, slotVars, globalVars
  <2> QED
    BY <1>6, <2>1, Zenon
<1>10. ASSUME UNCHANGED vars PROVE Accounts'
  BY <1>6, <1>10, Zenon DEF vars, slotVars, globalVars
<1>11. ASSUME NEW c \in Cpu, NEW s \in Slot,
              \/ \E st \in Status : Exit(c, s, st)
              \/ \E f \in {"wait", "wait_stat"} : WaitScan(c, s, f)
              \/ \E f \in {"run", "fork"} : Yield(c, s, f)
              \/ \E i \in 0..MaxPid : Kill(c, s, i)
              \/ ForkDone(c, s)
       PROVE  Accounts'
  BY <1>11, ExitAccounts, WaitScanAccounts, YieldAccounts, KillAccounts, ForkDoneAccounts, Zenon
<1> QED
  BY <1>1, <1>2, <1>3, <1>5, <1>7, <1>8, <1>9, <1>10, <1>11, TickAccounts, UpdateAccounts, Zenon DEF Next

LEMMA InitAccounts == Init => Accounts
<1> SUFFICES ASSUME Init PROVE Accounts
  BY Zenon
<1>1. NoPerf \in PerfType /\ Balanced(NoPerf, 0, FALSE)
  <2>1. NoPerf \in PerfType
    BY Zenon DEF NoPerf, PerfType
  <2>2. NoPerf.stime = 0 /\ NoPerf.retime = 0 /\ NoPerf.rutime = 0 /\ NoPerf.ctime = 0
    BY Zenon DEF NoPerf
  <2> QED
    BY Zenon, <2>1, <2>2, BalancedAtFork
<1>2. BaseTickets \in Nat /\ BaseTickets > 0
  BY ProcAssumption
<1>3. \A s \in Slot : perf[s] = NoPerf /\ ticks = 0 /\ (tickpc = "count") = FALSE
  BY Zenon DEF Init
<1>4. \A s \in Slot : /\ Live(s) => ntickets[s] > 0
                      /\ state[s] /= "ZOMBIE"
  BY <1>2, Zenon DEF Init, Live
<1>5. ntickets \in [Slot -> Nat] /\ perf \in [Slot -> PerfType] /\ ticks \in Nat
  BY <1>1, <1>2, Zenon DEF Init
<1> QED
  BY Zenon, <1>1, <1>3, <1>4, <1>5 DEF Accounts

LEMMA AccountsAlways == Spec => []Accounts
<1>1. Inv /\ Accounts /\ [Next]_vars => Accounts'
  BY NextAccounts, Zenon
<1> QED
  BY <1>1, InitInv, NextInv, InitAccounts, PTL DEF Spec

\* wait_stat() can be trusted with any number of processes, CPUs and clock ticks:
\* what it reports as sleeping, ready and running times adds up to the ticks
\* since the creation, up to one tick that fork() overtook.
THEOREM TimesAddUpAlways == Spec => []TimesAddUp
<1>1. Accounts => TimesAddUp
  BY Zenon DEF Accounts, TimesAddUp, Balanced
<1> QED
  BY <1>1, AccountsAlways, PTL

INSTANCE FiniteSetTheorems

\* wait() and wait_stat() report every exit status once, and unchanged.
THEOREM ExitReportedOnceAlways == Spec => []ExitReportedOnce
<1>1. Inv => ExitReportedOnce
  <2> SUFFICES ASSUME Inv, NEW i \in 1..MaxPid, NEW st \in Status
               PROVE  LET there == {s \in Slot : state[s] = "ZOMBIE" /\ pid[s] = i /\ status[s] = st}
                      IN  /\ (<<i, st>> \in exited) <=> (there /= {} \/ <<i, st>> \in delivered)
                          /\ there /= {} => Cardinality(there) = 1 /\ <<i, st>> \notin delivered
    BY Zenon DEF ExitReportedOnce
  <2> DEFINE there == {s \in Slot : state[s] = "ZOMBIE" /\ pid[s] = i /\ status[s] = st}
  <2>1. (<<i, st>> \in exited) <=> (there /= {} \/ <<i, st>> \in delivered)
    BY ProcAssumption DEF Inv, Reported
  <2>2. ASSUME there /= {} PROVE Cardinality(there) = 1 /\ <<i, st>> \notin delivered
    <3>1. PICK s \in Slot : state[s] = "ZOMBIE" /\ pid[s] = i /\ status[s] = st
      BY <2>2, Zenon
    <3>2. there = {s}
      BY <3>1, Zenon DEF Inv, Ids
    <3>3. Cardinality({s}) = 1
      BY FS_Singleton, Zenon
    <3> QED
      BY <3>1, <3>2, <3>3, Zenon DEF Inv, Reported
  <2> QED
    BY <2>1, <2>2, Zenon
<1> QED
  BY <1>1, InitInv, NextInv, PTL DEF Spec

\* The least-number principle, for sets: what induction over the slots rests on.
LEMMA Least == ASSUME NEW T \in SUBSET Nat, T /= {} PROVE \E x \in T : \A y \in T : x <= y
<1> DEFINE R == OpToRel(<, Nat)
<1>1. IsWellFoundedOn(R, Nat)
  BY Zenon, NatLessThanWellFounded
<1>2. \A x, y \in Nat : <<y, x>> \in R <=> y < x
  BY Zenon DEF OpToRel
<1> HIDE DEF R
<1>3. \E x \in T : \A y \in T : ~ (<<y, x>> \in R)
  BY <1>1, WFMin, Zenon
<1>4. PICK x \in T : \A y \in T : ~ (<<y, x>> \in R)
  BY <1>3, Zenon
<1>5. ASSUME NEW y \in T PROVE x <= y
  <2>1. x \in Nat /\ y \in Nat
    BY Zenon
  <2>2. ~(y < x)
    BY Zenon, <1>2, <1>4, <2>1
  <2> QED
    BY <2>1, <2>2
<1> QED
  BY <1>5, Zenon

\* g is the running sum of the tickets t of the slots up to n.
SumTo(t, n, g) ==
  /\ g \in [0..n -> Nat]
  /\ g[0] = 0
  /\ \A i \in 1..n : g[i] = g[i - 1] + t[i]

\* There is such a function, whatever the tickets are.
LEMMA SumsExist == ASSUME NEW t \in [Slot -> Nat] PROVE \E g : SumTo(t, NPROC, g)
<1> DEFINE T == {n \in 0..NPROC : ~\E g : SumTo(t, n, g)}
<1>0. NPROC \in Nat
  BY NprocAssumption, Zenon
<1> SUFFICES ASSUME T /= {} PROVE FALSE
  BY <1>0
<1>1. PICK n \in T : \A m \in T : n <= m
  <2>1. T \in SUBSET Nat
    BY <1>0
  <2> HIDE DEF T
  <2> QED
    BY <2>1, Least, Zenon
<1>2. n \in 0..NPROC /\ ~\E g : SumTo(t, n, g)
  BY <1>1, Zenon
<1>3. n /= 0
  <2>1. SumTo(t, 0, [i \in 0..0 |-> 0])
    BY DEF SumTo
  <2> QED
    BY <1>2, <2>1, Zenon
<1>4. n - 1 \in 0..NPROC /\ ~(n <= n - 1)
  BY <1>0, <1>2, <1>3
<1>5. PICK g : SumTo(t, n - 1, g)
  BY <1>1, <1>4, Zenon
<1>6. g \in [0..(n - 1) -> Nat] /\ g[0] = 0 /\ \A i \in 1..(n - 1) : g[i] = g[i - 1] + t[i]
  BY <1>5, Zenon DEF SumTo
<1> DEFINE h == [i \in 0..n |-> IF i = n THEN g[n - 1] + t[n] ELSE g[i]]
<1>7. n \in Slot /\ t[n] \in Nat /\ g[n - 1] \in Nat /\ n \in Nat
  BY <1>0, <1>2, <1>3, <1>6 DEF Slot
<1>8. \A i \in 0..n : i /= n => i \in 0..(n - 1)
  BY <1>7
<1>9. h \in [0..n -> Nat]
  BY <1>6, <1>7, <1>8
<1>10. h[0] = 0
  BY <1>3, <1>6, <1>7
<1>11. ASSUME NEW i \in 1..n PROVE h[i] = h[i - 1] + t[i]
  <2>1. i \in 0..n /\ i - 1 \in 0..n /\ i - 1 /= n
    BY <1>7
  <2>2. CASE i = n
    BY <2>1, <2>2, Zenon
  <2>3. CASE i /= n
    <3>1. i \in 1..(n - 1)
      BY <1>7, <2>3
    <3> QED
      BY <1>6, <2>1, <2>3, <3>1, Zenon
  <2> QED
    BY <2>2, <2>3, Zenon
<1> HIDE DEF h
<1> QED
  BY <1>2, <1>9, <1>10, <1>11, Zenon DEF SumTo

\* ticketCounter, as scheduler()'s loop adds it up, is one.
LEMMA TicketCounterSums == ASSUME NEW t \in [Slot -> Nat] PROVE SumTo(t, NPROC, TicketCounter(t))
<1> DEFINE sum == TicketCounter(t)
<1>0. NPROC \in Nat
  BY NprocAssumption, Zenon
<1>1. PICK g : SumTo(t, NPROC, g)
  BY SumsExist, Zenon
<1>2. g = [i \in 0..NPROC |-> IF i = 0 THEN 0 ELSE g[i - 1] + t[i]]
  <2>1. ASSUME NEW i \in 0..NPROC PROVE g[i] = IF i = 0 THEN 0 ELSE g[i - 1] + t[i]
    BY <1>0, <1>1 DEF SumTo
  <2>2. g = [i \in 0..NPROC |-> g[i]]
    BY <1>1, Zenon DEF SumTo
  <2> QED
    BY Zenon, <2>1, <2>2
<1> DEFINE Def(f) == [i \in 0..NPROC |-> IF i = 0 THEN 0 ELSE f[i - 1] + t[i]]
<1>3. sum = Def(sum)
  <2>1. sum = CHOOSE f : f = Def(f)
    BY Zenon DEF TicketCounter
  <2>2. \E f : f = Def(f)
    BY <1>2, Zenon
  <2> HIDE DEF Def, sum
  <2> QED
    BY <2>1, <2>2, Zenon
<1>4. ASSUME NEW f
      PROVE  /\ Def(f)[0] = 0 /\ \A i \in 1..NPROC : Def(f)[i] = f[i - 1] + t[i]
             /\ Def(f) = [i \in 0..NPROC |-> Def(f)[i]]
  <2>1. 0 \in 0..NPROC /\ \A i \in 1..NPROC : i \in 0..NPROC /\ i /= 0
    BY <1>0
  <2>2. \A i \in 0..NPROC : Def(f)[i] = IF i = 0 THEN 0 ELSE f[i - 1] + t[i]
    BY Zenon
  <2>3. Def(f) = [i \in 0..NPROC |-> Def(f)[i]]
    BY Zenon
  <2> HIDE DEF Def
  <2> QED
    BY <2>1, <2>2, <2>3, Zenon
<1> HIDE DEF sum, Def
<1>7. sum[0] = 0 /\ \A i \in 1..NPROC : sum[i] = sum[i - 1] + t[i]
  BY <1>3, <1>4, Zenon
<1> DEFINE T == {n \in 0..NPROC : sum[n] \notin Nat}
<1>5. T = {}
  <2> SUFFICES ASSUME T /= {} PROVE FALSE
    BY Zenon
  <2>0. T \in SUBSET Nat
    BY <1>0
  <2> HIDE DEF T
  <2>1. PICK n \in T : \A m \in T : n <= m
    BY <2>0, Least, Zenon
  <2>2. n \in 0..NPROC /\ sum[n] \notin Nat
    BY <2>1, Zenon DEF T
  <2>3. n /= 0 /\ n \in 1..NPROC /\ n \in Slot
    BY <1>0, <1>7, <2>2 DEF Slot
  <2>4. n - 1 \in 0..NPROC /\ ~(n <= n - 1)
    BY <1>0, <2>3
  <2>5. sum[n - 1] \in Nat
    BY <2>1, <2>4, Zenon DEF T
  <2> QED
    BY <1>7, <2>2, <2>3, <2>5
<1>6. sum \in [0..NPROC -> Nat]
  <2>1. sum = [i \in 0..NPROC |-> sum[i]]
    BY <1>3, <1>4, Zenon
  <2> QED
    BY Zenon, <1>5, <2>1
<1> QED
  BY <1>6, <1>7, Zenon DEF SumTo, sum

\* ticketCounter never decreases along the loop.
LEMMA TicketCounterGrows ==
  ASSUME NEW t \in [Slot -> Nat], NEW i \in 0..NPROC
  PROVE  \A j \in i..NPROC : TicketCounter(t)[i] <= TicketCounter(t)[j]
<1> DEFINE sum == TicketCounter(t)
<1>0. NPROC \in Nat /\ SumTo(t, NPROC, sum)
  BY NprocAssumption, TicketCounterSums, Zenon
<1> HIDE DEF sum
<1> DEFINE T == {j \in i..NPROC : ~(sum[i] <= sum[j])}
<1>1. T = {}
  <2> SUFFICES ASSUME T /= {} PROVE FALSE
    BY Zenon
  <2>0. T \in SUBSET Nat
    BY <1>0
  <2> HIDE DEF T
  <2>1. PICK n \in T : \A m \in T : n <= m
    BY <2>0, Least, Zenon
  <2>2. n \in i..NPROC /\ ~(sum[i] <= sum[n])
    BY <2>1, Zenon DEF T
  <2>3. sum[i] \in Nat /\ sum[n] \in Nat /\ n /= i
    BY <1>0, <2>2 DEF SumTo
  <2>4. n - 1 \in i..NPROC /\ ~(n <= n - 1) /\ n \in 1..NPROC /\ n - 1 \in 0..NPROC
    BY <1>0, <2>2, <2>3
  <2>5. sum[i] <= sum[n - 1]
    BY <2>1, <2>4, Zenon DEF T
  <2>6. sum[n] = sum[n - 1] + t[n] /\ t[n] \in Nat /\ sum[n - 1] \in Nat
    BY <1>0, <2>4, Zenon DEF SumTo, Slot
  <2> QED
    BY <2>2, <2>3, <2>5, <2>6
<1> QED
  BY <1>1, Zenon DEF sum

\* The lottery leaves out nobody, with any number of slots and under any mix of
\* policies: whenever a process is RUNNABLE there is a ticket that rand() can
\* return and for which scheduler()'s loop stops at its slot first.
THEOREM RunnableCanWinAlways == Spec => []RunnableCanWin
<1>1. Accounts => RunnableCanWin
  <2> SUFFICES ASSUME Accounts, NEW s \in Slot, state[s] = "RUNNABLE"
               PROVE  \E chosen \in Rand(TicketCounterAll(ntickets, state)) : Wins(ntickets, chosen, s)
    BY Zenon DEF RunnableCanWin
  <2> DEFINE sum == TicketCounter(ntickets)
  <2>1. ntickets \in [Slot -> Nat] /\ ntickets[s] > 0
    BY Zenon DEF Accounts, Live
  <2>2. TicketCounterAll(ntickets, state) = 1 + sum[NPROC]
    <3>1. [q \in Slot |-> IF state[q] = "ZOMBIE" THEN 0 ELSE ntickets[q]] = ntickets
      BY Zenon DEF Accounts
    <3> QED
      BY <3>1, Zenon DEF TicketCounterAll
  <2>3. NPROC \in Nat /\ SumTo(ntickets, NPROC, sum)
    BY <2>1, NprocAssumption, TicketCounterSums, Zenon
  <2>4. s - 1 \in 0..NPROC /\ s \in 1..NPROC /\ NPROC \in (s - 1)..NPROC
    BY <2>3 DEF Slot
  <2>5. \A i \in 0..NPROC : \A j \in i..NPROC : sum[i] <= sum[j]
    BY <2>1, TicketCounterGrows, Zenon
  <2> HIDE DEF sum
  <2>6. sum[s] = sum[s - 1] + ntickets[s] /\ sum \in [0..NPROC -> Nat]
    BY <2>3, <2>4, Zenon DEF SumTo
  <2>7. sum[s - 1] \in Rand(TicketCounterAll(ntickets, state))
    <3>1. sum[s - 1] \in Nat /\ sum[NPROC] \in Nat /\ sum[s - 1] <= sum[NPROC]
      BY <2>3, <2>4, <2>5, <2>6
    <3> QED
      BY <2>2, <3>1 DEF Rand
  <2>8. sum[s - 1] < sum[s]
    BY <2>1, <2>4, <2>6
  <2>9. ASSUME NEW q \in Slot, sum[s - 1] < sum[q] PROVE s <= q
    <3> SUFFICES ASSUME ~(s <= q) PROVE FALSE
      BY Zenon
    <3>1. q \in 0..NPROC /\ s - 1 \in q..NPROC
      BY <2>3, <2>4 DEF Slot
    <3>2. sum[q] <= sum[s - 1] /\ sum[q] \in Nat /\ sum[s - 1] \in Nat
      BY <2>4, <2>5, <2>6, <3>1, Zenon
    <3> QED
      BY <2>9, <3>2
  <2>10. Wins(ntickets, sum[s - 1], s)
    BY <2>8, <2>9, Zenon DEF Wins, Reached, sum
  <2> QED
    BY <2>7, <2>10, Zenon
<1> QED
  BY <1>1, AccountsAlways, PTL

=============================================================================
