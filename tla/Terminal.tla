------------------------------ MODULE Terminal ------------------------------
(***************************************************************************)
(* What the console promises to those who read it: a line can be edited    *)
(* until it is entered, what was entered is read in order and only once,   *)
(* and a call returns less than it asked for only at the end of a line or  *)
(* of the input, or when its process was killed.                           *)
(***************************************************************************)
EXTENDS Naturals, Sequences

CONSTANTS
  Reader,     \* processes that read the console
  Char,       \* ordinary characters
  Room,       \* how many characters wait to be read, or are edited
  MaxRead     \* bound on what a call asks for

Newline == "\n"
EndOfFile == "^D"

VARIABLES
  ready,     \* what was entered and is not read yet
  line,      \* the line that is being edited
  asked,     \* asked[p]: for how many characters p called, or 0
  got,       \* got[p]: what its call has got so far
  killed     \* killed[p]: kill() was called for p

vars == <<ready, line, asked, got, killed>>

Init ==
  /\ ready = <<>> /\ line = <<>>
  /\ asked = [p \in Reader |-> 0] /\ got = [p \in Reader |-> <<>>]
  /\ killed = [p \in Reader |-> FALSE]

\* A character goes to the line, if there is room; the line is entered by
\* newline, by the end-of-file mark, and when there is no more room.
Type(c) ==
  /\ Len(ready) + Len(line) < Room
  /\ IF c \in {Newline, EndOfFile} \/ Len(ready) + Len(line) + 1 = Room
     THEN ready' = ready \o Append(line, c) /\ line' = <<>>
     ELSE line' = Append(line, c) /\ UNCHANGED ready
  /\ UNCHANGED <<asked, got, killed>>

Erase ==
  /\ line /= <<>>
  /\ line' = SubSeq(line, 1, Len(line) - 1)
  /\ UNCHANGED <<ready, asked, got, killed>>

EraseLine == line' = <<>> /\ UNCHANGED <<ready, asked, got, killed>>

Call(p, n) ==
  /\ asked[p] = 0
  /\ asked' = [asked EXCEPT ![p] = n]
  /\ got' = [got EXCEPT ![p] = <<>>]
  /\ UNCHANGED <<ready, line, killed>>

Complete(p) == Len(got[p]) = asked[p] \/ (got[p] /= <<>> /\ got[p][Len(got[p])] = Newline)

Deliver(p) ==
  /\ asked[p] > 0 /\ ~Complete(p)
  /\ ready /= <<>> /\ Head(ready) /= EndOfFile
  /\ got' = [got EXCEPT ![p] = Append(@, Head(ready))]
  /\ ready' = Tail(ready)
  /\ UNCHANGED <<line, asked, killed>>

\* The end-of-file mark is used up by the call that returns nothing.
Return(p) ==
  /\ asked[p] > 0
  /\ \/ Complete(p) /\ UNCHANGED ready
     \/ killed[p] /\ ready = <<>> /\ UNCHANGED ready
     \/ /\ ~Complete(p)
        /\ ready /= <<>> /\ Head(ready) = EndOfFile
        /\ ready' = IF got[p] = <<>> THEN Tail(ready) ELSE ready
  /\ asked' = [asked EXCEPT ![p] = 0]
  /\ UNCHANGED <<line, got, killed>>

KillReader(p) ==
  /\ killed' = [killed EXCEPT ![p] = TRUE]
  /\ UNCHANGED <<ready, line, asked, got>>

Next ==
  \/ \E c \in Char \cup {Newline, EndOfFile} : Type(c)
  \/ Erase \/ EraseLine
  \/ \E p \in Reader :
       Deliver(p) \/ Return(p) \/ KillReader(p) \/ \E n \in 1..MaxRead : Call(p, n)

Spec == Init /\ [][Next]_vars

=============================================================================
