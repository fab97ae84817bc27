-------------------------------- MODULE Bio --------------------------------
(***************************************************************************)
(* The buffer cache of bio.c on the disk driver of ide.c: bget, bread,     *)
(* bwrite, brelse, iderw and ideintr, and the pinning of buffers by        *)
(* log_write().                                                            *)
(*                                                                         *)
(* A critical section of bcache.lock or of idelock is a step.  Both layers *)
(* sleep on the address of the buffer, so the wakeups of one reach the     *)
(* sleepers of the other.  A process uses one buffer at a time.            *)
(***************************************************************************)
EXTENDS Integers, Sequences, FiniteSets

CONSTANTS
  Proc,        \* the processes
  Block,       \* the blocks of the disk
  NoBlock,     \* the block of a buffer that was never used (dev = -1)
  Reads,       \* Reads[p]: the blocks process p may ask for
  NBUF,        \* how many buffers there are
  IdeOk,       \* what idewait(1) may find: {TRUE}, or BOOLEAN with read errors
  MaxPinned,   \* bound on the blocks in the log's current transaction
  MaxWrites    \* bound on the changes of block contents

Buf == 1..NBUF

ASSUME BioAssumption ==
  /\ NBUF \in Nat
  /\ NoBlock \notin Block
  /\ Reads \in [Proc -> SUBSET Block]
  /\ IdeOk \subseteq BOOLEAN /\ TRUE \in IdeOk
  /\ MaxPinned \in Nat /\ MaxWrites \in Nat

VARIABLES
  blockno, flags, data,   \* blockno[b], flags[b], data[b]: struct buf
  lru,           \* the list from bcache.head.next to bcache.head.prev
  idequeue,      \* the requests, the active one first
  ide,           \* the command the controller executes
  disk,          \* disk[n]: what the disk holds
  pc,            \* pc[p]: where process p is
  mine,          \* mine[p]: its local variable b
  want,          \* want[p]: the block it asked for
  panicked,      \* the message of the panic() that stopped the kernel, "no" if none did
  content,       \* history: content[n]: what was last put into block n
  nwrites        \* history: how many changes there were

bufVars == <<blockno, flags, data, lru>>
ideVars == <<idequeue, ide, disk>>
vars == <<bufVars, ideVars, pc, mine, want, panicked, content, nwrites>>

Idle == [cmd |-> "idle", blockno |-> NoBlock, data |-> 0]

-----------------------------------------------------------------------------

\* binit(): the last buffer is at the head of the list.
Init ==
  /\ blockno = [b \in Buf |-> NoBlock]
  /\ flags = [b \in Buf |-> {}]
  /\ data = [b \in Buf |-> 0]
  /\ lru = [i \in Buf |-> NBUF + 1 - i]
  /\ idequeue = <<>> /\ ide = Idle
  /\ disk = [n \in Block |-> 0]
  /\ pc = [p \in Proc |-> "idle"]
  /\ mine = [p \in Proc |-> 0]
  /\ want = [p \in Proc |-> NoBlock]
  /\ panicked = "no"
  /\ content = [n \in Block |-> 0] /\ nwrites = 0

\* Fault: a wakeup that only reaches the sleepers of bget().
WakeupBget(b) ==
  [p \in Proc |-> IF mine[p] = b /\ pc[p] = "bsleep" THEN "bget" ELSE pc[p]]

\* wakeup(b): sleepers of bget() look again, sleepers of iderw() test the flags.
Wakeup(b) ==
  [p \in Proc |-> IF mine[p] /= b THEN pc[p]
                  ELSE CASE pc[p] = "bsleep" -> "bget"
                         [] pc[p] = "iosleep" -> "iotest"
                         [] OTHER -> pc[p]]

\* Process p leaves bget() with buffer b, and bread() reads it if it must.
Got(p, b) ==
  /\ mine' = [mine EXCEPT ![p] = b]
  /\ pc' = [pc EXCEPT ![p] = IF "VALID" \in flags'[b] THEN "use" ELSE "iderw"]

\* bget() recycles "some non-busy and clean buffer".
Recyclable(b) == flags[b] \cap {"BUSY", "DIRTY"} = {}

\* Fault: a recycled buffer stays VALID.
KeptFlags(b) == flags[b] \cup {"BUSY"}

\* The flags of a recycled buffer: its contents are not those of the new block.
RecycledFlags(b) == {"BUSY"}

\* One pass of bget()'s loop: take the buffer of block n, sleep until it is not
\* busy, or recycle the least recently used one.
BgetLoop(p, n) ==
  LET hits == {i \in Buf : blockno[lru[i]] = n}
      spare == {i \in Buf : Recyclable(lru[i])}
  IN  \/ \E i \in hits :
           /\ \A j \in hits : i <= j
           /\ IF "BUSY" \in flags[lru[i]]
              THEN /\ mine' = [mine EXCEPT ![p] = lru[i]]
                   /\ pc' = [pc EXCEPT ![p] = "bsleep"]
                   /\ UNCHANGED flags
              ELSE /\ flags' = [flags EXCEPT ![lru[i]] = @ \cup {"BUSY"}]
                   /\ Got(p, lru[i])
           /\ UNCHANGED <<blockno, data, lru, panicked>>
      \/ /\ hits = {}
         /\ \E i \in spare :
              /\ \A j \in spare : j <= i
              /\ blockno' = [blockno EXCEPT ![lru[i]] = n]
              /\ flags' = [flags EXCEPT ![lru[i]] = RecycledFlags(lru[i])]
              /\ Got(p, lru[i])
         /\ UNCHANGED <<data, lru, panicked>>
      \/ /\ hits = {} /\ spare = {}
         /\ panicked' = "bget: no buffers"
         /\ UNCHANGED <<bufVars, pc, mine>>

\* bread(n) is called.
Bread(p, n) ==
  /\ panicked = "no"
  /\ pc[p] = "idle"
  /\ want' = [want EXCEPT ![p] = n]
  /\ BgetLoop(p, n)
  /\ UNCHANGED <<ideVars, content, nwrites>>

\* Fault: a process that slept takes the buffer without a second look.
BgetTakes(p) ==
  /\ panicked = "no"
  /\ pc[p] = "bget"
  /\ flags' = [flags EXCEPT ![mine[p]] = @ \cup {"BUSY"}]
  /\ Got(p, mine[p])
  /\ UNCHANGED <<blockno, data, lru, ideVars, want, panicked, content, nwrites>>

\* A process that slept in bget() goes back to loop.
BgetAgain(p) ==
  /\ panicked = "no"
  /\ pc[p] = "bget"
  /\ BgetLoop(p, want[p])
  /\ UNCHANGED <<ideVars, want, content, nwrites>>

\* What idestart(b) tells the controller; it hands over the data of a write.
Command(b) ==
  IF "DIRTY" \in flags[b]
  THEN [cmd |-> "write", blockno |-> blockno[b], data |-> data[b]]
  ELSE [cmd |-> "read", blockno |-> blockno[b], data |-> 0]

\* iderw(): queue the buffer, start the disk if it is idle, and sleep.
Iderw(p) ==
  LET b == mine[p] IN
  /\ panicked = "no"
  /\ pc[p] = "iderw"
  /\ IF "BUSY" \notin flags[b] \/ flags[b] \cap {"VALID", "DIRTY"} = {"VALID"}
     THEN /\ panicked' = IF "BUSY" \notin flags[b] THEN "iderw: buf not busy" ELSE "iderw: nothing to do"
          /\ UNCHANGED <<idequeue, ide, pc>>
     ELSE /\ idequeue' = Append(idequeue, b)
          /\ ide' = IF idequeue = <<>> THEN Command(b) ELSE ide
          /\ pc' = [pc EXCEPT ![p] = "iosleep"]
          /\ UNCHANGED panicked
  /\ UNCHANGED <<bufVars, disk, mine, want, content, nwrites>>

\* The test of iderw()'s loop after a wakeup.
IderwTest(p) ==
  /\ panicked = "no"
  /\ pc[p] = "iotest"
  /\ pc' = [pc EXCEPT ![p] = IF flags[mine[p]] \cap {"VALID", "DIRTY"} = {"VALID"}
                             THEN "use" ELSE "iosleep"]
  /\ UNCHANGED <<bufVars, ideVars, mine, want, panicked, content, nwrites>>

\* idestart() on the request that is first now.
StartNext(queue) == IF queue = <<>> THEN Idle ELSE Command(Head(queue))

\* The controller is done and ideintr() takes the result.  After a read error the
\* buffer is VALID all the same.
Ideintr ==
  /\ panicked = "no"
  /\ idequeue /= <<>> /\ ide /= Idle
  /\ LET b == Head(idequeue) IN
     /\ disk' = IF ide.cmd = "write" THEN [disk EXCEPT ![ide.blockno] = ide.data] ELSE disk
     /\ \E ok \in IdeOk :
          data' = IF "DIRTY" \notin flags[b] /\ ok
                  THEN [data EXCEPT ![b] = disk[ide.blockno]] ELSE data
     /\ flags' = [flags EXCEPT ![b] = (@ \cup {"VALID"}) \ {"DIRTY"}]
     /\ pc' = Wakeup(b)
  /\ idequeue' = Tail(idequeue)
  /\ ide' = StartNext(Tail(idequeue))
  /\ UNCHANGED <<blockno, lru, mine, want, panicked, content, nwrites>>

\* The process puts something new into the block.
Change(p) ==
  /\ nwrites < MaxWrites
  /\ nwrites' = nwrites + 1
  /\ data' = [data EXCEPT ![mine[p]] = nwrites + 1]
  /\ content' = [content EXCEPT ![want[p]] = nwrites + 1]

\* bwrite(), after a change or, when the log installs a block, without one.
Bwrite(p) ==
  /\ panicked = "no"
  /\ pc[p] = "use"
  /\ Change(p) \/ UNCHANGED <<data, content, nwrites>>
  /\ IF "BUSY" \notin flags[mine[p]]
     THEN panicked' = "bwrite" /\ UNCHANGED <<flags, pc>>
     ELSE /\ flags' = [flags EXCEPT ![mine[p]] = @ \cup {"DIRTY"}]
          /\ pc' = [pc EXCEPT ![p] = "iderw"]
          /\ UNCHANGED panicked
  /\ UNCHANGED <<blockno, lru, ideVars, mine, want>>

\* A change followed by log_write(), which pins the buffer.
LogWrite(p) ==
  /\ panicked = "no"
  /\ pc[p] = "use"
  /\ \/ "DIRTY" \in flags[mine[p]]
     \/ Cardinality({b \in Buf : "DIRTY" \in flags[b]}) < MaxPinned
  /\ Change(p)
  /\ flags' = [flags EXCEPT ![mine[p]] = @ \cup {"DIRTY"}]
  /\ UNCHANGED <<blockno, lru, ideVars, pc, mine, want, panicked>>

\* The list after brelse() unlinked a buffer and linked it in at the head.
ToHead(b) ==
  LET i == CHOOSE k \in Buf : lru[k] = b
  IN  [j \in Buf |-> IF j = 1 THEN b ELSE IF j <= i THEN lru[j - 1] ELSE lru[j]]

\* brelse(): to the head of the list, not busy, wake who waits for it.
Brelse(p) ==
  /\ panicked = "no"
  /\ pc[p] = "use"
  /\ IF "BUSY" \notin flags[mine[p]]
     THEN panicked' = "brelse" /\ UNCHANGED <<lru, flags, pc, mine, want>>
     ELSE /\ lru' = ToHead(mine[p])
          /\ flags' = [flags EXCEPT ![mine[p]] = @ \ {"BUSY"}]
          /\ pc' = [Wakeup(mine[p]) EXCEPT ![p] = "idle"]
          /\ mine' = [mine EXCEPT ![p] = 0]
          /\ want' = [want EXCEPT ![p] = NoBlock]
          /\ UNCHANGED panicked
  /\ UNCHANGED <<blockno, data, ideVars, content, nwrites>>

\* ideintr() finds the queue empty.
SpuriousIdeintr == idequeue = <<>> /\ UNCHANGED vars

Next ==
  \/ \E p \in Proc :
       \/ \E n \in Reads[p] : Bread(p, n)
       \/ BgetAgain(p) \/ Iderw(p) \/ IderwTest(p)
       \/ Bwrite(p) \/ LogWrite(p) \/ Brelse(p)
  \/ Ideintr \/ SpuriousIdeintr

Spec == Init /\ [][Next]_vars

\* The disk completes what it was told, and a process that is not asleep and
\* not at liberty to do something else goes on and gets the lock.
Fairness ==
  /\ WF_vars(Ideintr)
  /\ \A p \in Proc : WF_vars(BgetAgain(p)) /\ WF_vars(Iderw(p)) /\ WF_vars(IderwTest(p))

FairSpec == Spec /\ Fairness

-----------------------------------------------------------------------------

\* Process p has got a buffer from bget() and has not passed it to brelse().
Owns(p) == pc[p] \in {"iderw", "iosleep", "iotest", "use"}

\* The cache is "a synchronization point for disk blocks": a block is in one
\* buffer at most, and a buffer is with one process at most, which finds the
\* block it asked for in it.
OneUserPerBlock ==
  /\ \A a, b \in Buf : blockno[a] = blockno[b] /\ blockno[a] /= NoBlock => a = b
  /\ \A p, q \in Proc : Owns(p) /\ Owns(q) /\ mine[p] = mine[q] => p = q
  /\ \A p \in Proc : Owns(p) => blockno[mine[p]] = want[p] /\ "BUSY" \in flags[mine[p]]

\* bread() returns what was last put into the block, however the buffer was
\* recycled, pinned or written in between.
ReadsLatest ==
  \A p \in Proc : pc[p] = "use" => data[mine[p]] = content[want[p]]

\* A process in iderw() comes back with the buffer in step with the disk.
IoReturns == \A p \in Proc : pc[p] = "iderw" ~> pc[p] = "use"

=============================================================================
