----------------------------- MODULE AtomicDisk -----------------------------
(***************************************************************************)
(* What the log promises to the file system: a disk whose contents change  *)
(* in one step, to what memory holds while no operation is in progress,    *)
(* and that a crash takes memory back to.                                  *)
(***************************************************************************)
EXTENDS Naturals

CONSTANTS Block, Value, Zero

VARIABLES
  durable,   \* durable[b]  what block b holds if the machine crashes now
  memory,    \* memory[b]   what a system call reads from block b
  active     \* the number of operations in progress

Init ==
  /\ durable = [b \in Block |-> Zero]
  /\ memory = durable
  /\ active = 0

Begin == active' = active + 1 /\ UNCHANGED <<durable, memory>>

End == active > 0 /\ active' = active - 1 /\ UNCHANGED <<durable, memory>>

Write(b, v) ==
  /\ active > 0
  /\ memory' = [memory EXCEPT ![b] = v]
  /\ UNCHANGED <<durable, active>>

Commit ==
  /\ active = 0
  /\ durable' = memory
  /\ UNCHANGED <<memory, active>>

Crash ==
  /\ memory' = durable
  /\ active' = 0
  /\ UNCHANGED durable

Next ==
  \/ Begin
  \/ End
  \/ \E b \in Block, v \in Value : Write(b, v)
  \/ Commit
  \/ Crash

Spec == Init /\ [][Next]_<<durable, memory, active>>

=============================================================================
