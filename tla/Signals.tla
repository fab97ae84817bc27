------------------------------ MODULE Signals ------------------------------
(***************************************************************************)
(* The signals of one process: sigsend() by processes on other CPUs,       *)
(* signal() and sigreturn() by the process, and do_signal(), which runs on *)
(* every return from a trap (trapasm.S).                                   *)
(*                                                                         *)
(* The user context in the trap frame is abstracted to where the program   *)
(* is (eip) and the register eax.  do_signal() does not take ptable.lock,  *)
(* so its accesses to proc->pending and those of sigsend(), a read and a   *)
(* write each, interleave.                                                 *)
(***************************************************************************)
EXTENDS Integers, FiniteSets

CONSTANTS
  Sender,      \* processes on other CPUs
  NUMSIG,      \* how many signals there are (32)
  SigArg,      \* the numbers that signal() and sigsend() are called with
  Code,        \* places in the program outside its handlers
  Eax,         \* values of eax, among them what a system call returns
  NoSender,
  MaxSends     \* bound on sigsend() calls

\* The signal numbers; for the others signal() and sigsend() return -1.
Sig == 0..(NUMSIG - 1)

ASSUME SignalsAssumption ==
  /\ NUMSIG \in 1..32 /\ SigArg \subseteq Int
  /\ Code /= {} /\ Code \cap Sig = {}
  /\ {0, -1} \subseteq Eax
  /\ NoSender \notin Sender
  /\ MaxSends \in Nat

\* A user context: eip is in Code, or is the signal whose handler is running.
Context == [eip : Code \cup Sig, eax : Eax]

VARIABLES
  pending,     \* proc->pending
  handling,    \* proc->handling_signal
  handler,     \* handler[s]  "default" or "user": proc->handlers_array
  tf,          \* the user context, on the CPU or in the trap frame
  backup,      \* proc->backup_tf
  pc,          \* "user", or where the process is on its way out of a trap
  signum, seen,\* do_signal(): the signal chosen, the value of pending read
  lock,        \* the sender that holds ptable.lock in sigsend()
  sig, old,    \* sigsend(): its argument, the value of pending it has read
  sends,       \* sigsend() calls so far
  owed,        \* history: signals sent since the process last accepted them
  lost,        \* history: those a write of do_signal() has wiped out
  interrupted  \* history: the context the running handler interrupted

sendVars == <<lock, sig, old>>
history == <<owed, lost, interrupted>>
vars == <<pending, handling, handler, tf, backup, pc, signum, seen, sendVars, sends, history>>

Start == [eip |-> CHOOSE e \in Code : TRUE, eax |-> 0]

-----------------------------------------------------------------------------

\* allocproc() has called set_default_handlers().
Init ==
  /\ pending = {}
  /\ handling = 0
  /\ handler = [s \in Sig |-> "default"]
  /\ tf = Start /\ backup = Start /\ interrupted = Start
  /\ pc = "user"
  /\ signum = 0 /\ seen = {}
  /\ lock = NoSender /\ sig = 0 /\ old = {}
  /\ sends = 0
  /\ owed = {} /\ lost = {}

\* sigsend() by another process, in its critical section: pending is read ...
SigsendRead(q, s) ==
  /\ s \in Sig
  /\ lock = NoSender /\ sends < MaxSends
  /\ lock' = q
  /\ sig' = s
  /\ old' = pending
  /\ sends' = sends + 1
  /\ UNCHANGED <<pending, handling, handler, tf, backup, pc, signum, seen, history>>

\* ... and written.
SigsendWrite(q) ==
  /\ lock = q
  /\ pending' = old \cup {sig}
  /\ owed' = owed \cup {sig} /\ lost' = lost \ {sig}
  /\ lock' = NoSender /\ sig' = 0 /\ old' = {}
  /\ UNCHANGED <<handling, handler, tf, backup, pc, signum, seen, sends, interrupted>>

\* The program computes.
UserStep(c) ==
  /\ pc = "user"
  /\ tf' = c
  /\ (tf.eip \in Sig \/ c.eip \in Sig) => c.eip = tf.eip
  /\ UNCHANGED <<pending, handling, handler, backup, pc, signum, seen, sendVars, sends, history>>

\* An interrupt, or a system call that has nothing to do with signals.
Trap(eax) ==
  /\ pc = "user"
  /\ tf' = [tf EXCEPT !.eax = eax]
  /\ pc' = "trapret"
  /\ UNCHANGED <<pending, handling, handler, backup, signum, seen, sendVars, sends, history>>

\* signal(s, h).  syscall() puts the previous handler into eax, or -1.
Signal(s, h, eax) ==
  /\ pc = "user"
  /\ IF s \in Sig
     THEN /\ lock = NoSender
          /\ handler' = [handler EXCEPT ![s] = h]
          /\ tf' = [tf EXCEPT !.eax = eax]
     ELSE /\ tf' = [tf EXCEPT !.eax = -1]
          /\ UNCHANGED handler
  /\ pc' = "trapret"
  /\ UNCHANGED <<pending, handling, backup, signum, seen, sendVars, sends, history>>

\* sigsend() to itself.
SigsendSelf(s) ==
  /\ pc = "user"
  /\ IF s \in Sig
     THEN /\ lock = NoSender /\ sends < MaxSends
          /\ pending' = pending \cup {s}
          /\ owed' = owed \cup {s} /\ lost' = lost \ {s}
          /\ sends' = sends + 1
          /\ tf' = [tf EXCEPT !.eax = 0]
     ELSE /\ tf' = [tf EXCEPT !.eax = -1]
          /\ UNCHANGED <<pending, owed, lost, sends>>
  /\ pc' = "trapret"
  /\ UNCHANGED <<handling, handler, backup, signum, seen, sendVars, interrupted>>

\* restore_tf(): every register comes from the backup.
Restored == backup

\* The handler returns to the code exec() left on the stack, which calls
\* sigreturn(): restore_tf(), and then syscall() stores its result in eax.
Sigreturn ==
  /\ pc = "user" /\ tf.eip \in Sig
  /\ lock = NoSender
  /\ handling' = 0
  /\ tf' = [Restored EXCEPT !.eax = 0]
  /\ pc' = "trapret"
  /\ UNCHANGED <<pending, handler, backup, signum, seen, sendVars, sends, history>>

-----------------------------------------------------------------------------

\* Fault: handling_signal is not looked at.
AnyPending == pending /= {}

\* do_signal() goes on if a signal is pending and no handler is running.
CanDeliver == pending /= {} /\ handling = 0

\* do_signal(): is there anything to do?
DoSignal ==
  /\ pc = "trapret"
  /\ IF CanDeliver
     THEN handling' = 1 /\ pc' = "scan"
     ELSE pc' = "user" /\ UNCHANGED handling
  /\ UNCHANGED <<pending, handler, tf, backup, signum, seen, sendVars, sends, history>>

\* The loop looks at one bit after the other, and stops at the first that is set.
DoSignalScan ==
  /\ pc = "scan"
  /\ IF signum \in pending THEN pc' = "found" /\ UNCHANGED signum
     ELSE signum' = signum + 1 /\ UNCHANGED pc
  /\ UNCHANGED <<pending, handling, handler, tf, backup, seen, sendVars, sends, history>>

\* The bit is cleared: pending is read again ...
DoSignalRead ==
  /\ pc = "found"
  /\ seen' = pending
  /\ pc' = "clear"
  /\ UNCHANGED <<pending, handling, handler, tf, backup, signum, sendVars, sends, history>>

\* Faults: the bit is not cleared; all bits are.
ClearedNone == seen
ClearedAll == {}

\* proc->pending & ~(1 << signum).
Cleared == seen \ {signum}

\* ... and written.
DoSignalClear ==
  /\ pc = "clear"
  /\ pending' = Cleared
  /\ owed' = owed \ {signum}
  /\ lost' = lost \cup (pending \ seen)
  /\ seen' = {}
  /\ pc' = "deliver"
  /\ UNCHANGED <<handling, handler, tf, backup, signum, sendVars, sends, interrupted>>

\* save_tf().
Saved == tf

\* default_handler(), or save_tf() and a frame for the user's handler.
DoSignalDeliver ==
  /\ pc = "deliver"
  /\ IF handler[signum] = "default"
     THEN handling' = 0 /\ UNCHANGED <<tf, backup, interrupted>>
     ELSE /\ backup' = Saved
          /\ interrupted' = tf
          /\ tf' = [tf EXCEPT !.eip = signum]
          /\ UNCHANGED handling
  /\ signum' = 0
  /\ pc' = "user"
  /\ UNCHANGED <<pending, handler, seen, sendVars, sends, owed, lost>>

Next ==
  \/ \E q \in Sender : SigsendWrite(q) \/ \E s \in SigArg : SigsendRead(q, s)
  \/ \E c \in Context : UserStep(c)
  \/ \E eax \in Eax :
       \/ Trap(eax)
       \/ \E s \in SigArg, h \in {"default", "user"} : Signal(s, h, eax)
  \/ \E s \in SigArg : SigsendSelf(s)
  \/ Sigreturn
  \/ DoSignal \/ DoSignalScan \/ DoSignalRead \/ DoSignalClear \/ DoSignalDeliver

Spec == Init /\ [][Next]_vars

\* The timer interrupts the process again and again, the kernel goes on, on this
\* CPU and in sigsend(), and a handler that runs returns some time.
FairSpec ==
  /\ Spec
  /\ WF_vars(\E eax \in Eax : Trap(eax))
  /\ WF_vars(\E q \in Sender : SigsendWrite(q))
  /\ WF_vars(DoSignal \/ DoSignalScan \/ DoSignalRead \/ DoSignalClear \/ DoSignalDeliver)
  /\ SF_vars(Sigreturn)

-----------------------------------------------------------------------------

TypeOK ==
  /\ pending \subseteq Sig /\ seen \subseteq Sig /\ old \subseteq Sig /\ owed \subseteq Sig
  /\ lost \subseteq Sig
  /\ handling \in {0, 1}
  /\ handler \in [Sig -> {"default", "user"}]
  /\ {tf, backup, interrupted} \subseteq Context
  /\ pc \in {"user", "trapret", "scan", "found", "clear", "deliver"}
  /\ signum \in Sig /\ sig \in Sig
  /\ lock \in Sender \cup {NoSender}
  /\ sends \in 0..MaxSends

\* handling_signal keeps handlers from nesting: outside do_signal() it is set exactly
\* while a handler runs, so save_tf() never overwrites a context still needed.
HandlersDoNotNest ==
  pc \in {"user", "trapret"} => ((handling = 1) <=> (tf.eip \in Sig))

\* sigreturn() takes the program back to where the handler interrupted it, whatever
\* system calls, signals and handler changes came in between: the one backup of the
\* context is not overwritten by a signal that comes while a handler runs.
ResumesWhereInterrupted ==
  [][Sigreturn => tf'.eip = interrupted.eip /\ tf'.eip \in Code]_vars

\* Once sigsend() is no longer called (MaxSends is reached), do_signal() accepts every
\* pending signal, in spite of the handlers that run and of those signal() installs,
\* or has lost it to a race.  (An endless stream of lower signals can keep it from a
\* higher one: it takes the lowest first.)
SignalsAccepted == \A s \in Sig : (s \in pending) ~> (s \notin pending)

\* A signal for which sigsend() returned stays pending until do_signal() accepts it.
\* The one exception: do_signal() reads and writes pending without ptable.lock, and
\* wipes out a signal that sigsend() adds between the two.
LostOnlyInRace == owed \subseteq pending \cup lost

=============================================================================
