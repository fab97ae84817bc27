-------------------------------- MODULE Pipe --------------------------------
(***************************************************************************)
(* One pipe of pipe.c: processes that share its two ends, sleep on a full  *)
(* or an empty buffer, are killed, and close.  A critical section of the   *)
(* pipe's lock is a step, or two where it ends in sleep(): kill() takes    *)
(* only ptable.lock, so it can come after the test of killed and before    *)
(* the sleep.  A sleeping process wakes to look again.  A byte is          *)
(* abstracted to the process that wrote it.  The counters nread and nwrite *)
(* wrap at Wrap, a multiple of PIPESIZE like 2^32.                         *)
(***************************************************************************)
EXTENDS Integers, Sequences, FiniteSets

CONSTANTS
  Reader, Writer,   \* the processes that use the read and the write end
  Shared,           \* sets of processes that fork() leaves an end of the pipe with
  Killable,         \* those that kill() is called for
  PIPESIZE, Wrap,
  MaxRead, MaxWrite,\* bounds: the n of a piperead() and of a pipewrite()
  MaxBytes          \* bound: bytes written to the pipe

ASSUME PipeAssumption ==
  /\ Reader \cap Writer = {}
  /\ \A s \in Shared : s \subseteq Reader \cup Writer /\ s \cap Reader /= {} /\ s \cap Writer /= {}
  /\ PIPESIZE \in Nat \ {0}
  /\ Wrap \in Nat \ {0}
  /\ Wrap % PIPESIZE = 0 /\ Wrap > PIPESIZE
  /\ {MaxRead, MaxWrite, MaxBytes} \subseteq Nat

Proc == Reader \cup Writer

VARIABLES
  data, nread, nwrite, readopen, writeopen,   \* struct pipe
  freed,      \* kfree() has been called on it
  refs,       \* the processes that have not closed their end
  pc,         \* pc[p]  where a process is: "tosleep" holds the lock on its way into sleep()
  n,          \* n[p]   bytes it still has to read or write
  killed,
  late,       \* history: the processes that kill() found on their way into sleep()
  sent,       \* history: the bytes written
  got         \* history: the bytes read

pipeVars == <<data, nread, nwrite, readopen, writeopen, freed>>
vars == <<pipeVars, refs, pc, n, killed, late, sent, got>>

Used == (nwrite - nread) % Wrap
Smaller(a, b) == IF a < b THEN a ELSE b

\* What the buffer holds, oldest first.
Buffered == [i \in 1..Used |-> data[(nread + i - 1) % PIPESIZE]]

-----------------------------------------------------------------------------

\* pipealloc() has succeeded and fork() has shared its files.
Init ==
  /\ data \in [0..(PIPESIZE - 1) -> Writer]
  /\ nread = 0 /\ nwrite = 0
  /\ readopen = 1 /\ writeopen = 1
  /\ freed = 0
  /\ refs \in Shared
  /\ pc = [p \in Proc |-> "idle"]
  /\ n = [p \in Proc |-> 0]
  /\ killed = [p \in Proc |-> 0]
  /\ late = {}
  /\ sent = <<>> /\ got = <<>>

\* p->lock is free: only a process on its way into sleep() keeps it from step to step.
Unlocked == \A p \in Proc : pc[p] /= "tosleep"

\* wakeup() on &nread (Reader) or &nwrite (Writer).
Woken(who) == [p \in Proc |-> IF p \in who /\ pc[p] = "sleep" THEN "call" ELSE pc[p]]

\* A process enters piperead() or pipewrite().
Call(p, k) ==
  /\ pc[p] = "idle" /\ p \in refs /\ killed[p] = 0
  /\ pc' = [pc EXCEPT ![p] = "call"]
  /\ n' = [n EXCEPT ![p] = k]
  /\ UNCHANGED <<pipeVars, refs, killed, late, sent, got>>

\* k increments of nread or nwrite.
Advance(i, k) == (i + k) % Wrap

\* Fault: one byte too many.
RoomForOneMore == PIPESIZE + 1 - Used

\* What pipewrite() can add until nwrite == nread + PIPESIZE.
Room == PIPESIZE - Used

\* Fault: no wakeup of the readers.
WriteWakesNobody == pc

\* pipewrite() calls wakeup(&nread) before it sleeps and when it has written all.
WriteWakes == Woken(Reader)

\* pipewrite() while it holds the lock: it fills the buffer as far as it can, and
\* returns, gives up or goes on to sleep().
PipeWrite(p) ==
  LET k == Smaller(n[p], Room)
  IN  /\ p \in Writer /\ pc[p] = "call" /\ Unlocked
      /\ Len(sent) + k <= MaxBytes
      /\ data' = [i \in 0..(PIPESIZE - 1) |->
                    IF \E j \in 0..(k - 1) : i = (nwrite + j) % PIPESIZE THEN p ELSE data[i]]
      /\ nwrite' = Advance(nwrite, k)
      /\ sent' = sent \o [i \in 1..k |-> p]
      /\ \/ /\ k = n[p]
            /\ pc' = [WriteWakes EXCEPT ![p] = "idle"]
            /\ n' = [n EXCEPT ![p] = 0]
         \/ /\ k < n[p]
            /\ readopen = 0 \/ killed[p] = 1
            /\ pc' = [pc EXCEPT ![p] = "idle"]
            /\ n' = [n EXCEPT ![p] = 0]
         \/ /\ k < n[p]
            /\ readopen = 1 /\ killed[p] = 0
            /\ pc' = [WriteWakes EXCEPT ![p] = "tosleep"]
            /\ n' = [n EXCEPT ![p] = @ - k]
      /\ UNCHANGED <<nread, readopen, writeopen, freed, refs, killed, late, got>>

\* piperead() while it holds the lock, on an empty buffer that can still fill.
PipeReadEmpty(p) ==
  /\ p \in Reader /\ pc[p] = "call" /\ Unlocked
  /\ nread = nwrite /\ writeopen = 1
  /\ IF killed[p] = 1
     THEN pc' = [pc EXCEPT ![p] = "idle"] /\ n' = [n EXCEPT ![p] = 0]
     ELSE pc' = [pc EXCEPT ![p] = "tosleep"] /\ UNCHANGED n
  /\ UNCHANGED <<pipeVars, refs, killed, late, sent, got>>

\* sleep(): the process is SLEEPING when ptable.lock is released.  It let go of
\* p->lock only after it had ptable.lock, so no wakeup() comes in between.
Sleep(p) ==
  /\ pc[p] = "tosleep"
  /\ pc' = [pc EXCEPT ![p] = "sleep"]
  /\ UNCHANGED <<pipeVars, refs, n, killed, late, sent, got>>

\* piperead() ends with wakeup(&nwrite).
ReadWakes == Woken(Writer)

\* piperead() otherwise: it takes what is there, up to n bytes.
PipeRead(p) ==
  LET k == Smaller(n[p], Used)
  IN  /\ p \in Reader /\ pc[p] = "call" /\ Unlocked
      /\ nread /= nwrite \/ writeopen = 0
      /\ got' = got \o SubSeq(Buffered, 1, k)
      /\ nread' = Advance(nread, k)
      /\ pc' = [ReadWakes EXCEPT ![p] = "idle"]
      /\ n' = [n EXCEPT ![p] = 0]
      /\ UNCHANGED <<data, nwrite, readopen, writeopen, freed, refs, killed, late, sent>>

\* kill(): a sleeping process becomes runnable, one that is about to sleep does not
\* notice.
Kill(p) ==
  /\ p \in Killable /\ killed[p] = 0 /\ p \in refs
  /\ killed' = [killed EXCEPT ![p] = 1]
  /\ pc' = [pc EXCEPT ![p] = IF @ = "sleep" THEN "call" ELSE @]
  /\ late' = IF pc[p] = "tosleep" THEN late \cup {p} ELSE late
  /\ UNCHANGED <<pipeVars, refs, n, sent, got>>

\* Fault: every fileclose() goes on to pipeclose().
LastRefAlways(p) == TRUE

\* Fault: both ends count as one file.
LastRefOfBoth(p) == refs \ {p} = {}

\* --f->ref is 0: no other process has p's end of the pipe.
LastRef(p) == (refs \ {p}) \cap (IF p \in Reader THEN Reader ELSE Writer) = {}

\* fileclose(), by close() or exit(): the last reference to an end goes on to
\* pipeclose().
FileClose(p) ==
  /\ pc[p] = "idle" /\ p \in refs
  /\ refs' = refs \ {p}
  /\ pc' = [pc EXCEPT ![p] = IF LastRef(p) THEN "close" ELSE "idle"]
  /\ UNCHANGED <<pipeVars, n, killed, late, sent, got>>

\* pipeclose() wakes the other end.
CloseWakes(p) == Woken(IF p \in Writer THEN Reader ELSE Writer)

PipeClose(p) ==
  /\ pc[p] = "close" /\ Unlocked
  /\ pc' = [CloseWakes(p) EXCEPT ![p] = "idle"]
  /\ IF p \in Writer
     THEN writeopen' = 0 /\ UNCHANGED readopen
     ELSE readopen' = 0 /\ UNCHANGED writeopen
  /\ freed' = IF readopen' = 0 /\ writeopen' = 0 THEN freed + 1 ELSE freed
  /\ UNCHANGED <<data, nread, nwrite, refs, n, killed, late, sent, got>>

Next ==
  \E p \in Proc :
    \/ \E k \in 0..(IF p \in Reader THEN MaxRead ELSE MaxWrite) : Call(p, k)
    \/ PipeWrite(p)
    \/ PipeReadEmpty(p)
    \/ Sleep(p)
    \/ PipeRead(p)
    \/ Kill(p)
    \/ FileClose(p)
    \/ PipeClose(p)

Spec == Init /\ [][Next]_vars

\* What a process does with the lock in a system call.
InCall(p) == PipeWrite(p) \/ PipeReadEmpty(p) \/ PipeRead(p) \/ PipeClose(p)

\* A process in a system call goes on: it is scheduled, and it gets the lock that
\* others take again and again.
FairSpec ==
  /\ Spec
  /\ \A p \in Proc : WF_vars(Sleep(p))
  /\ \A p \in Proc : SF_vars(InCall(p))

-----------------------------------------------------------------------------

TypeOK ==
  /\ data \in [0..(PIPESIZE - 1) -> Writer]
  /\ nread \in 0..(Wrap - 1) /\ nwrite \in 0..(Wrap - 1)
  /\ readopen \in {0, 1} /\ writeopen \in {0, 1}
  /\ freed \in {0, 1}
  /\ refs \subseteq Proc
  /\ pc \in [Proc -> {"idle", "call", "tosleep", "sleep", "close"}]
  /\ n \in [Proc -> Nat]
  /\ killed \in [Proc -> {0, 1}]
  /\ late \subseteq Proc
  /\ sent \in Seq(Writer) /\ got \in Seq(Writer)

\* Bytes come out of the pipe once each and in the order pipewrite() put them in,
\* across the wrap of the buffer and of the counters, and the buffer never holds
\* more than PIPESIZE of them.
Fifo == Used <= PIPESIZE /\ sent = got \o Buffered

Waits(p) == pc[p] \in {"tosleep", "sleep"}

\* Nobody sleeps through a wakeup.  A reader sleeps only on an empty pipe that can
\* still fill, and a writer only on a full one that can still be read.  Neither
\* sleeps once it is killed, unless kill() came between its test of killed and
\* sleep().  The other exception is a pipewrite() that fills the buffer, finds its
\* process killed and returns without the wakeup that readers asleep since before
\* depend on.
SleepersHaveNoWork ==
  /\ \A r \in Reader : Waits(r) =>
       writeopen = 1 /\ (nread = nwrite \/ \E w \in Writer : killed[w] = 1)
  /\ \A w \in Writer : Waits(w) => readopen = 1 /\ Used = PIPESIZE
  /\ \A p \in Proc : Waits(p) /\ killed[p] = 1 => p \in late

\* pipeclose() frees the pipe once, when no process is in it or can come back.
FreedUnused == freed = 1 => refs = {} /\ \A p \in Proc : pc[p] = "idle"

\* Calls return.  A read does once no writer is left, and, where no writer is
\* killed, once the pipe holds a byte that other readers leave to it; and when the
\* last reader closes, writers that sleep on a full pipe get their error.
CallsReturn ==
  /\ \A r \in Reader :
       /\ ((pc[r] = "call" \/ Waits(r)) /\ refs \cap Writer = {}) ~> pc[r] = "idle"
       /\ ((pc[r] = "call" \/ Waits(r)) /\ nread /= nwrite)
            ~> (pc[r] = "idle" \/ nread = nwrite \/ \E w \in Writer : killed[w] = 1)
  /\ \A w \in Writer : (Waits(w) /\ refs \cap Reader = {}) ~> pc[w] = "idle"

=============================================================================
