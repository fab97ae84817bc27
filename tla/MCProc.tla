------------------------------- MODULE MCProc -------------------------------
(***************************************************************************)
(* The process table on two CPUs, with one channel to sleep on.  Its       *)
(* bounds are four scenarios, each of which lets one thing grow and keeps  *)
(* the others small: more slots; exit statuses and kills; clock ticks; and *)
(* changes of policy, sleeping on a channel and panics.                    *)
(***************************************************************************)
EXTENDS Proc

CONSTANTS c0, c1, disk

MCCpu == {c0, c1}
MCChan == {disk}

\* How many slots and pids a scenario uses.
Slots == [orphans |-> 4, statuses |-> 3, ticks |-> 2, policies |-> 3]
Pids == [orphans |-> 4, statuses |-> 4, ticks |-> 3, policies |-> 3]

Within(scenario) ==
  /\ \A s \in Slot : s > Slots[scenario] => state[s] = "UNUSED"
  /\ nextpid <= Pids[scenario] + 1
  /\ Cardinality({s \in Slot : killed[s] = 1}) <= 1
  /\ scenario /= "statuses" =>
       exited \subseteq (1..MaxPid) \X {0} /\ \A s \in Slot : killed[s] = 0
  /\ scenario /= "policies" =>
       currentPolicy = 1 /\ ~panicked /\ \A s \in Slot : chan[s] \notin Chan
  /\ scenario /= "ticks" => ticks = 0

StaysWithin == \E scenario \in DOMAIN Slots : Within(scenario)'

=============================================================================
