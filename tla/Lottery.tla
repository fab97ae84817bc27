------------------------------ MODULE Lottery ------------------------------
(***************************************************************************)
(* The draw of scheduler() in proc.c as pure operators on the tickets and  *)
(* the states of the slots of the process table.                           *)
(***************************************************************************)
EXTENDS Naturals

CONSTANT NPROC            \* slots of the process table

ASSUME NprocAssumption == NPROC \in Nat \ {0}

Slot == 1..NPROC

ProcState == {"UNUSED", "EMBRYO", "SLEEPING", "RUNNABLE", "RUNNING", "ZOMBIE"}

\* The running sum ticketCounter: the tickets of the slots up to i.
TicketCounter(tickets) ==
  LET sum[i \in 0..NPROC] == IF i = 0 THEN 0 ELSE sum[i - 1] + tickets[i]
  IN  sum

\* ticketCounterAll: one more than the tickets of the slots that are not ZOMBIE.
TicketCounterAll(tickets, st) ==
  1 + TicketCounter([s \in Slot |-> IF st[s] = "ZOMBIE" THEN 0 ELSE tickets[s]])[NPROC]

\* What rand(n) can return: (next / (2*(n+1))) % (n+1), for any value of next.
Rand(n) == 0..n

\* The slots at which the loop does not `continue' for the ticket chosen.
Reached(tickets, chosen) == {s \in Slot : chosen < TicketCounter(tickets)[s]}

\* The first of them is where the loop stops, or the process it runs first.
Wins(tickets, chosen, s) ==
  /\ s \in Reached(tickets, chosen)
  /\ \A q \in Reached(tickets, chosen) : s <= q

=============================================================================
