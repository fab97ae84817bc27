--------------------------- MODULE Signals_proofs ---------------------------
(***************************************************************************)
(* Proofs about module Signals, for any number of signals, senders and     *)
(* calls: the inductive invariant Inv relates where the process is on its  *)
(* way out of a trap to handling_signal, to the saved context, and to the  *)
(* copies of pending that do_signal() and sigsend() work on.               *)
(***************************************************************************)
EXTENDS Signals, TLAPS

\* handling_signal and the saved context.
Handling ==
  /\ HandlersDoNotNest
  /\ pc \in {"scan", "found", "clear", "deliver"} => handling = 1 /\ tf.eip \in Code
  /\ tf.eip \in Sig => backup = interrupted /\ interrupted.eip \in Code

\* While do_signal() scans there is a bit ahead of it; the copy it has read is not
\* newer than pending, and the copy that sigsend() has read not older.
Copies ==
  /\ pc \in {"user", "trapret"} => signum = 0
  /\ pc = "scan" => \E s \in pending : signum <= s
  /\ pc = "found" => signum \in pending
  /\ pc = "clear" => seen \subseteq pending
  /\ lock /= NoSender => pending \subseteq old

Inv == TypeOK /\ Handling /\ Copies /\ LostOnlyInRace

\* A number that is ahead of the scan and below another signal is a signal.
LEMMA NextIsSignal ==
  ASSUME NEW i \in Sig, NEW s \in Sig, i < s
  PROVE  i + 1 \in Sig
  BY SignalsAssumption DEF Sig

\* The initial state, as set_default_handlers() leaves it.
LEMMA InitInv == Init => Inv
  <1> SUFFICES ASSUME Init PROVE Inv
    BY Zenon
  <1>1. 0 \in Sig /\ 0 \in Eax /\ \A e \in Code : e \notin Sig
    BY SignalsAssumption DEF Sig
  <1>2. Start \in Context /\ Start.eip \in Code
    BY <1>1, SignalsAssumption, Zenon DEF Start, Context
  <1>3. TypeOK
    BY <1>1, <1>2, SignalsAssumption DEF Init, TypeOK
  <1>4. Handling
    BY <1>1, <1>2 DEF Init, Handling, HandlersDoNotNest
  <1>5. Copies /\ LostOnlyInRace
    BY Zenon DEF Init, Copies, LostOnlyInRace
  <1> QED
    BY <1>3, <1>4, <1>5, Zenon DEF Inv

\* Types are kept by every step.
LEMMA TypeStep == Inv /\ [Next]_vars => TypeOK'
  <1> SUFFICES ASSUME Inv, [Next]_vars PROVE TypeOK'
    BY Zenon
  <1> USE SignalsAssumption
  <1>0. TypeOK /\ 0 \in Sig /\ 0 \in Eax /\ -1 \in Eax
    BY DEF Inv, Sig
  <1>1. ASSUME NEW q \in Sender, NEW s \in SigArg, SigsendRead(q, s) PROVE TypeOK'
    BY <1>0, <1>1 DEF TypeOK, SigsendRead, history
  <1>2. ASSUME NEW q \in Sender, SigsendWrite(q) PROVE TypeOK'
    BY <1>0, <1>2, Zenon DEF TypeOK, SigsendWrite
  <1>3. ASSUME NEW c \in Context, UserStep(c) PROVE TypeOK'
    BY <1>0, <1>3, Zenon DEF TypeOK, UserStep, history, sendVars
  <1>4. ASSUME NEW eax \in Eax, Trap(eax) PROVE TypeOK'
    BY <1>0, <1>4 DEF TypeOK, Trap, history, sendVars, Context
  <1>5. ASSUME NEW s \in SigArg, NEW h \in {"default", "user"}, NEW eax \in Eax, Signal(s, h, eax)
        PROVE  TypeOK'
    BY <1>0, <1>5 DEF TypeOK, Signal, history, sendVars, Context
  <1>6. ASSUME NEW s \in SigArg, SigsendSelf(s) PROVE TypeOK'
    BY <1>0, <1>6 DEF TypeOK, SigsendSelf, sendVars, Context
  <1>7. ASSUME Sigreturn PROVE TypeOK'
    BY <1>0, <1>7 DEF TypeOK, Sigreturn, Restored, history, sendVars, Context
  <1>8. ASSUME DoSignal PROVE TypeOK'
    BY <1>0, <1>8, Zenon DEF TypeOK, DoSignal, history, sendVars
  <1>9. ASSUME DoSignalScan PROVE TypeOK'
    <2>1. signum' \in Sig
      <3>1. CASE signum \in pending
        BY <1>0, <1>9, <3>1, Zenon DEF DoSignalScan, TypeOK
      <3>2. CASE signum \notin pending
        <4>1. PICK s \in pending : signum <= s
          BY <1>9, Zenon DEF Inv, Copies, DoSignalScan
        <4>2. s \in Sig /\ signum \in Sig /\ signum < s
          BY <1>0, <3>2, <4>1 DEF TypeOK, Sig
        <4> QED
          BY <1>9, <3>2, <4>2, NextIsSignal, Zenon DEF DoSignalScan
      <3> QED
        BY <3>1, <3>2, Zenon
    <2> QED
      BY <1>0, <1>9, <2>1, Zenon DEF TypeOK, DoSignalScan, history, sendVars
  <1>10. ASSUME DoSignalRead PROVE TypeOK'
    BY <1>0, <1>10, Zenon DEF TypeOK, DoSignalRead, history, sendVars
  <1>11. ASSUME DoSignalClear PROVE TypeOK'
    BY <1>0, <1>11, Zenon DEF TypeOK, DoSignalClear, Cleared, sendVars
  <1>12. ASSUME DoSignalDeliver PROVE TypeOK'
    BY <1>0, <1>12 DEF TypeOK, DoSignalDeliver, Saved, sendVars, Context
  <1>13. ASSUME UNCHANGED vars PROVE TypeOK'
    BY <1>0, <1>13, Zenon DEF TypeOK, vars, history, sendVars
  <1> QED
    BY <1>1, <1>2, <1>3, <1>4, <1>5, <1>6, <1>7, <1>8, <1>9, <1>10, <1>11, <1>12, <1>13, Zenon DEF Next

\* A handler starts only when none runs, and its context is kept until sigreturn().
LEMMA HandlingStep == Inv /\ [Next]_vars => Handling'
  <1> SUFFICES ASSUME Inv, [Next]_vars PROVE Handling'
    BY Zenon
  <1>0. TypeOK /\ Handling /\ \A e \in Code : e \notin Sig
    BY SignalsAssumption, Zenon DEF Inv
  <1>1. ASSUME NEW q \in Sender, NEW s \in SigArg, SigsendRead(q, s) PROVE Handling'
    BY <1>0, <1>1, Zenon DEF Handling, HandlersDoNotNest, TypeOK, Context, history, sendVars, SigsendRead
  <1>2. ASSUME NEW q \in Sender, SigsendWrite(q) PROVE Handling'
    BY <1>0, <1>2, Zenon DEF Handling, HandlersDoNotNest, TypeOK, Context, history, sendVars, SigsendWrite
  <1>3. ASSUME NEW c \in Context, UserStep(c) PROVE Handling'
    BY <1>0, <1>3, Zenon DEF Handling, HandlersDoNotNest, TypeOK, Context, history, sendVars, UserStep
  <1>4. ASSUME NEW eax \in Eax, Trap(eax) PROVE Handling'
    BY <1>0, <1>4, Zenon DEF Handling, HandlersDoNotNest, TypeOK, Context, history, sendVars, Trap
  <1>5. ASSUME NEW s \in SigArg, NEW h \in {"default", "user"}, NEW eax \in Eax, Signal(s, h, eax) PROVE Handling'
    BY <1>0, <1>5 DEF Handling, HandlersDoNotNest, TypeOK, Context, history, sendVars, Signal
  <1>6. ASSUME NEW s \in SigArg, SigsendSelf(s) PROVE Handling'
    BY <1>0, <1>6 DEF Handling, HandlersDoNotNest, TypeOK, Context, history, sendVars, SigsendSelf
  <1>7. ASSUME Sigreturn PROVE Handling'
    BY <1>0, <1>7 DEF Handling, HandlersDoNotNest, TypeOK, Context, history, sendVars, Sigreturn, Restored
  <1>8. ASSUME DoSignal PROVE Handling'
    BY <1>0, <1>8 DEF Handling, HandlersDoNotNest, TypeOK, Context, history, sendVars, DoSignal, CanDeliver
  <1>9. ASSUME DoSignalScan PROVE Handling'
    BY <1>0, <1>9, Zenon DEF Handling, HandlersDoNotNest, TypeOK, Context, history, sendVars, DoSignalScan
  <1>10. ASSUME DoSignalRead PROVE Handling'
    BY <1>0, <1>10, Zenon DEF Handling, HandlersDoNotNest, TypeOK, Context, history, sendVars, DoSignalRead
  <1>11. ASSUME DoSignalClear PROVE Handling'
    BY <1>0, <1>11, Zenon DEF Handling, HandlersDoNotNest, TypeOK, Context, history, sendVars, DoSignalClear, Cleared
  <1>12. ASSUME DoSignalDeliver PROVE Handling'
    BY <1>0, <1>12 DEF Handling, HandlersDoNotNest, TypeOK, Context, history, sendVars, DoSignalDeliver, Saved
  <1>13. ASSUME UNCHANGED vars PROVE Handling'
    BY <1>0, <1>13, Zenon DEF Handling, HandlersDoNotNest, TypeOK, Context, history, sendVars, vars
  <1> QED
    BY <1>1, <1>2, <1>3, <1>4, <1>5, <1>6, <1>7, <1>8, <1>9, <1>10, <1>11, <1>12, <1>13, Zenon DEF Next

\* The copies of pending stay between what they were read from and what it is now.
LEMMA CopiesStep == Inv /\ [Next]_vars => Copies'
  <1> SUFFICES ASSUME Inv, [Next]_vars PROVE Copies'
    BY Zenon
  <1>0. TypeOK /\ Copies /\ NoSender \notin Sender
    BY SignalsAssumption, Zenon DEF Inv
  <1>1. ASSUME NEW q \in Sender, NEW s \in SigArg, SigsendRead(q, s) PROVE Copies'
    BY <1>0, <1>1, Zenon DEF Copies, TypeOK, Sig, history, sendVars, SigsendRead
  <1>2. ASSUME NEW q \in Sender, SigsendWrite(q) PROVE Copies'
    BY <1>0, <1>2, Zenon DEF Copies, TypeOK, Sig, history, sendVars, SigsendWrite
  <1>3. ASSUME NEW c \in Context, UserStep(c) PROVE Copies'
    BY <1>0, <1>3, Zenon DEF Copies, TypeOK, Sig, history, sendVars, UserStep
  <1>4. ASSUME NEW eax \in Eax, Trap(eax) PROVE Copies'
    BY <1>0, <1>4, Zenon DEF Copies, TypeOK, Sig, history, sendVars, Trap
  <1>5. ASSUME NEW s \in SigArg, NEW h \in {"default", "user"}, NEW eax \in Eax, Signal(s, h, eax) PROVE Copies'
    BY <1>0, <1>5, Zenon DEF Copies, TypeOK, Sig, history, sendVars, Signal
  <1>6. ASSUME NEW s \in SigArg, SigsendSelf(s) PROVE Copies'
    BY <1>0, <1>6, Zenon DEF Copies, TypeOK, Sig, history, sendVars, SigsendSelf
  <1>7. ASSUME Sigreturn PROVE Copies'
    BY <1>0, <1>7, Zenon DEF Copies, TypeOK, Sig, history, sendVars, Sigreturn, Restored
  <1>8. ASSUME DoSignal PROVE Copies'
    <2>1. \A s \in Sig : 0 <= s
      BY SignalsAssumption DEF Sig
    <2>2. ASSUME CanDeliver PROVE \E s \in pending : signum <= s
      BY <1>0, <1>8, <2>1, <2>2 DEF Copies, TypeOK, DoSignal, CanDeliver
    <2> QED
      BY <1>0, <1>8, <2>2, Zenon DEF Copies, history, sendVars, DoSignal
  <1>9. ASSUME DoSignalScan PROVE Copies'
    BY <1>0, <1>9 DEF Copies, TypeOK, Sig, history, sendVars, DoSignalScan
  <1>10. ASSUME DoSignalRead PROVE Copies'
    BY <1>0, <1>10, Zenon DEF Copies, TypeOK, Sig, history, sendVars, DoSignalRead
  <1>11. ASSUME DoSignalClear PROVE Copies'
    BY <1>0, <1>11, Zenon DEF Copies, TypeOK, Sig, history, sendVars, DoSignalClear, Cleared
  <1>12. ASSUME DoSignalDeliver PROVE Copies'
    BY <1>0, <1>12, Zenon DEF Copies, TypeOK, Sig, history, sendVars, DoSignalDeliver, Saved
  <1>13. ASSUME UNCHANGED vars PROVE Copies'
    BY <1>0, <1>13, Zenon DEF Copies, TypeOK, Sig, history, sendVars, vars
  <1> QED
    BY <1>1, <1>2, <1>3, <1>4, <1>5, <1>6, <1>7, <1>8, <1>9, <1>10, <1>11, <1>12, <1>13, Zenon DEF Next

\* A signal is only lost to the write of do_signal() that overtakes a sigsend().
LEMMA LostStep == Inv /\ [Next]_vars => LostOnlyInRace'
  <1> SUFFICES ASSUME Inv, [Next]_vars PROVE LostOnlyInRace'
    BY Zenon
  <1>0. Copies /\ LostOnlyInRace /\ NoSender \notin Sender
    BY SignalsAssumption, Zenon DEF Inv
  <1>1. ASSUME NEW q \in Sender, NEW s \in SigArg, SigsendRead(q, s) PROVE LostOnlyInRace'
    BY <1>0, <1>1, Zenon DEF LostOnlyInRace, Copies, history, sendVars, SigsendRead
  <1>2. ASSUME NEW q \in Sender, SigsendWrite(q) PROVE LostOnlyInRace'
    BY <1>0, <1>2, Zenon DEF LostOnlyInRace, Copies, history, sendVars, SigsendWrite
  <1>3. ASSUME NEW c \in Context, UserStep(c) PROVE LostOnlyInRace'
    BY <1>0, <1>3, Zenon DEF LostOnlyInRace, Copies, history, sendVars, UserStep
  <1>4. ASSUME NEW eax \in Eax, Trap(eax) PROVE LostOnlyInRace'
    BY <1>0, <1>4, Zenon DEF LostOnlyInRace, Copies, history, sendVars, Trap
  <1>5. ASSUME NEW s \in SigArg, NEW h \in {"default", "user"}, NEW eax \in Eax, Signal(s, h, eax) PROVE LostOnlyInRace'
    BY <1>0, <1>5, Zenon DEF LostOnlyInRace, Copies, history, sendVars, Signal
  <1>6. ASSUME NEW s \in SigArg, SigsendSelf(s) PROVE LostOnlyInRace'
    BY <1>0, <1>6, Zenon DEF LostOnlyInRace, Copies, history, sendVars, SigsendSelf
  <1>7. ASSUME Sigreturn PROVE LostOnlyInRace'
    BY <1>0, <1>7, Zenon DEF LostOnlyInRace, Copies, history, sendVars, Sigreturn, Restored
  <1>8. ASSUME DoSignal PROVE LostOnlyInRace'
    BY <1>0, <1>8, Zenon DEF LostOnlyInRace, Copies, history, sendVars, DoSignal, CanDeliver
  <1>9. ASSUME DoSignalScan PROVE LostOnlyInRace'
    BY <1>0, <1>9, Zenon DEF LostOnlyInRace, Copies, history, sendVars, DoSignalScan
  <1>10. ASSUME DoSignalRead PROVE LostOnlyInRace'
    BY <1>0, <1>10, Zenon DEF LostOnlyInRace, Copies, history, sendVars, DoSignalRead
  <1>11. ASSUME DoSignalClear PROVE LostOnlyInRace'
    BY <1>0, <1>11, Zenon DEF LostOnlyInRace, Copies, history, sendVars, DoSignalClear, Cleared
  <1>12. ASSUME DoSignalDeliver PROVE LostOnlyInRace'
    BY <1>0, <1>12, Zenon DEF LostOnlyInRace, Copies, history, sendVars, DoSignalDeliver, Saved
  <1>13. ASSUME UNCHANGED vars PROVE LostOnlyInRace'
    BY <1>0, <1>13, Zenon DEF LostOnlyInRace, Copies, history, sendVars, vars
  <1> QED
    BY <1>1, <1>2, <1>3, <1>4, <1>5, <1>6, <1>7, <1>8, <1>9, <1>10, <1>11, <1>12, <1>13, Zenon DEF Next

\* Inv holds in every reachable state.
LEMMA Invariance == Spec => []Inv
  <1>1. Inv /\ [Next]_vars => Inv'
    BY TypeStep, HandlingStep, CopiesStep, LostStep, Zenon DEF Inv
  <1> QED
    BY <1>1, InitInv, PTL DEF Spec

\* For any number of signals, senders and calls, a signal that sigsend() put into
\* pending stays there until do_signal() accepts it, unless do_signal() had already
\* read pending when sigsend() wrote it.
THEOREM LostOnlyInRaceAlways == Spec => []LostOnlyInRace
  <1>1. Inv => LostOnlyInRace
    BY Zenon DEF Inv
  <1> QED
    BY <1>1, Invariance, PTL

\* handling_signal is set exactly while a handler runs, so that save_tf() never
\* overwrites a context that sigreturn() still needs.
THEOREM HandlersDoNotNestAlways == Spec => []HandlersDoNotNest
  <1>1. Inv => HandlersDoNotNest
    BY Zenon DEF Inv, Handling
  <1> QED
    BY <1>1, Invariance, PTL

\* sigreturn() goes back to the code that was interrupted, and that is never a
\* handler.
THEOREM ResumesAlways == Spec => ResumesWhereInterrupted
  <1>1. Inv /\ [Next]_vars => [Sigreturn => tf'.eip = interrupted.eip /\ tf'.eip \in Code]_vars
    <2> SUFFICES ASSUME Inv, Sigreturn PROVE tf'.eip = interrupted.eip /\ tf'.eip \in Code
      BY Zenon
    <2> QED
      BY Zenon DEF Inv, Handling, Sigreturn, Restored, TypeOK, Context
  <1> QED
    BY <1>1, Invariance, PTL DEF Spec, ResumesWhereInterrupted

=============================================================================
