------------------------------ MODULE Console ------------------------------
(***************************************************************************)
(* The input side of console.c: the interrupt handler consoleintr() edits  *)
(* a line in the ring input.buf, consoleread() takes entered lines out of  *)
(* it and sleeps when there are none.                                      *)
(*                                                                         *)
(* consoleintr() is one step for each character, with cons.lock free;      *)
(* consoleread() holds cons.lock over several steps, as kill() can come    *)
(* between them.  What is echoed to the screen is left out, and so are     *)
(* characters that do not change the input (^P, 0).                        *)
(***************************************************************************)
EXTENDS Integers, Sequences

CONSTANTS
  Reader,      \* processes that read the console
  Char,        \* ordinary characters
  INPUT_BUF,   \* size of the ring
  WORD,        \* indices are unsigned ints: they wrap at 2^32
  MaxRead      \* bound on what a call asks for

ASSUME ConsoleAssumption ==
  /\ INPUT_BUF \in Nat \ {0} /\ WORD \in Nat /\ MaxRead \in Nat
  /\ WORD > INPUT_BUF /\ WORD % INPUT_BUF = 0
  /\ "nobody" \notin Reader

VARIABLES
  buf, r, w, e,  \* input: the ring; read, write and edit index
  lock,          \* who holds cons.lock
  pc,            \* pc[p]: where p is in consoleread()
  target, dst,   \* target[p], dst[p]: how much p asked for, and got so far
  killed         \* killed[p]: proc->killed

input == <<buf, r, w, e>>
call == <<target, dst>>
vars == <<input, lock, pc, call, killed>>

Nobody == "nobody"
Newline == "\n"
CtrlD == "^D"
Stored == Char \cup {Newline, CtrlD}

Init ==
  /\ buf = [i \in 0..(INPUT_BUF - 1) |-> CHOOSE c \in Char : TRUE]
  /\ r = 0 /\ w = 0 /\ e = 0
  /\ lock = Nobody
  /\ pc = [p \in Reader |-> "user"]
  /\ target = [p \in Reader |-> 0] /\ dst = [p \in Reader |-> <<>>]
  /\ killed = [p \in Reader |-> FALSE]

\* Arithmetic on the indices.
Plus(a, b) == (a + b) % WORD
Minus(a, b) == (a - b) % WORD
Slot(a) == a % INPUT_BUF

-----------------------------------------------------------------------------
(* consoleintr(), for one character.                                       *)

\* Kill line: the loop takes back k characters, and stops at the write index or
\* behind a newline.
CtrlU ==
  /\ lock = Nobody
  /\ \E k \in 0..Minus(e, w) :
       /\ \A j \in 1..k : buf[Slot(Minus(e, j))] /= Newline
       /\ k = Minus(e, w) \/ buf[Slot(Minus(e, k + 1))] = Newline
       /\ e' = Minus(e, k)
  /\ UNCHANGED <<buf, r, w, lock, pc, call, killed>>

Backspace ==
  /\ lock = Nobody
  /\ e /= w
  /\ e' = Minus(e, 1)
  /\ UNCHANGED <<buf, r, w, lock, pc, call, killed>>

\* Fault: one reader is woken.
WokenOne == [p \in Reader |-> IF pc[p] = "sleeping" /\ p = CHOOSE q \in Reader : pc[q] = "sleeping"
                              THEN "acquire" ELSE pc[p]]

\* wakeup(&input.r).
Woken == [p \in Reader |-> IF pc[p] = "sleeping" THEN "acquire" ELSE pc[p]]

Entered(c, end) == c \in {Newline, CtrlD} \/ end = Plus(r, INPUT_BUF)

Put(key) ==
  LET c == IF key = "\r" THEN Newline ELSE key
      end == Plus(e, 1)
  IN  /\ lock = Nobody
      /\ Minus(e, r) < INPUT_BUF
      /\ buf' = [buf EXCEPT ![Slot(e)] = c]
      /\ e' = end
      /\ IF Entered(c, end) THEN w' = end /\ pc' = Woken ELSE UNCHANGED <<w, pc>>
      /\ UNCHANGED <<r, lock, call, killed>>

Consoleintr == CtrlU \/ Backspace \/ \E key \in Stored \cup {"\r"} : Put(key)

-----------------------------------------------------------------------------
(* consoleread().                                                          *)

Goto(p, l) == pc' = [pc EXCEPT ![p] = l]

Call(p) ==
  /\ pc[p] = "user" /\ ~killed[p]
  /\ \E n \in 1..MaxRead : target' = [target EXCEPT ![p] = n]
  /\ dst' = [dst EXCEPT ![p] = <<>>]
  /\ Goto(p, "acquire")
  /\ UNCHANGED <<input, lock, killed>>

\* acquire(&cons.lock), at the start of the call or at the end of sleep().
Acquire(p) ==
  /\ pc[p] = "acquire" /\ lock = Nobody
  /\ lock' = p
  /\ Goto(p, "loop")
  /\ UNCHANGED <<input, call, killed>>

\* Releases the lock and returns.
Return(p) ==
  /\ lock' = Nobody
  /\ Goto(p, "user")
  /\ target' = [target EXCEPT ![p] = 0]
  /\ UNCHANGED <<dst, killed>>

\* n is 0, or the last character was a newline.
Done(p) == Len(dst[p]) = target[p] \/ (dst[p] /= <<>> /\ dst[p][Len(dst[p])] = Newline)

ReturnDone(p) ==
  /\ pc[p] = "loop" /\ Done(p)
  /\ Return(p)
  /\ UNCHANGED input

\* Takes an ordinary character or a newline.
Take(p) ==
  LET c == buf[Slot(r)] IN
  /\ pc[p] = "loop" /\ ~Done(p) /\ r /= w /\ c /= CtrlD
  /\ r' = Plus(r, 1)
  /\ dst' = [dst EXCEPT ![p] = Append(@, c)]
  /\ UNCHANGED <<buf, w, e, lock, pc, target, killed>>

\* Fault: the mark is used up by the call that it cuts short.
TakeMarkAlways(p) ==
  /\ pc[p] = "loop" /\ ~Done(p) /\ r /= w /\ buf[Slot(r)] = CtrlD
  /\ r' = Plus(r, 1)
  /\ Return(p)
  /\ UNCHANGED <<buf, w, e>>

\* ^D: the call returns; the mark stays if it returns something.
TakeMark(p) ==
  /\ pc[p] = "loop" /\ ~Done(p) /\ r /= w /\ buf[Slot(r)] = CtrlD
  /\ r' = IF dst[p] /= <<>> THEN r ELSE Plus(r, 1)
  /\ Return(p)
  /\ UNCHANGED <<buf, w, e>>

ReturnKilled(p) ==
  /\ pc[p] = "loop" /\ ~Done(p) /\ r = w /\ killed[p]
  /\ Return(p)
  /\ UNCHANGED input

\* Not killed: the reader will sleep.
Check(p) ==
  /\ pc[p] = "loop" /\ ~Done(p) /\ r = w /\ ~killed[p]
  /\ Goto(p, "sleep")
  /\ UNCHANGED <<input, lock, call, killed>>

\* sleep(&input.r, &cons.lock).
Sleep(p) ==
  /\ pc[p] = "sleep"
  /\ lock' = Nobody
  /\ Goto(p, "sleeping")
  /\ UNCHANGED <<input, call, killed>>

\* kill() of the process, by another one.
Kill(p) ==
  /\ ~killed[p]
  /\ killed' = [killed EXCEPT ![p] = TRUE]
  /\ IF pc[p] = "sleeping" THEN Goto(p, "acquire") ELSE UNCHANGED pc
  /\ UNCHANGED <<input, lock, call>>

Consoleread(p) ==
  \/ Acquire(p) \/ ReturnDone(p) \/ Take(p) \/ TakeMark(p) \/ ReturnKilled(p)
  \/ Check(p) \/ Sleep(p)

Next == Consoleintr \/ \E p \in Reader : Call(p) \/ Consoleread(p) \/ Kill(p)

Spec == Init /\ [][Next]_vars

-----------------------------------------------------------------------------

\* No reader sleeps while there is input for it: neither the newline that comes
\* while it is on its way to sleep(), nor the character that fills the ring, nor
\* what another reader left over goes unnoticed.
SleepersHaveNoInput == \A p \in Reader : pc[p] = "sleeping" => r = w

\* What lies in the ring between two indices.
Segment(from, to) == [i \in 1..Minus(to, from) |-> buf[Slot(Plus(from, i - 1))]]

Promise == INSTANCE Terminal WITH
  ready <- Segment(r, w), line <- Segment(w, e), asked <- target, got <- dst, Room <- INPUT_BUF

\* The ring with its three wrapping indices, edited by the interrupt handler while
\* several processes read, is a terminal: no character is lost, doubled, reordered
\* or erased once entered, ^U erases exactly the line, lines are not run together,
\* a ^D ends one call only, and no call returns early without a reason.
ImplementsTerminal == Promise!Spec

=============================================================================
