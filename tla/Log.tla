-------------------------------- MODULE Log --------------------------------
(***************************************************************************)
(* The write-ahead log of log.c: system calls bracketed by begin_op() and  *)
(* end_op(), log_write(), the commit by the last of them, and recovery     *)
(* after a crash.                                                          *)
(*                                                                         *)
(* A critical section of log.lock is a step, and so is the write of one    *)
(* disk block, which is atomic.  A block holds the number of the operation *)
(* that wrote it last (0: none has).  The buffer cache is abstracted to    *)
(* what bread() finds: cache[b] is what a B_DIRTY buffer pins, and the     *)
(* home block's contents otherwise.                                        *)
(***************************************************************************)
EXTENDS Naturals, Sequences

CONSTANTS
  Proc,          \* processes that make file system calls
  Block,         \* the blocks outside the log
  inodestart,    \* the block that follows the log on the disk
  MAXOPBLOCKS,   \* blocks begin_op() reserves for an operation
  LOGSIZE,       \* capacity of the header block
  nlog,          \* blocks of the log on disk, its header included (log.size)
  OpBlocks,      \* bound: blocks that one operation passes to log_write()
  MaxOps         \* bound: operations

ASSUME LogAssumption ==
  /\ inodestart \in Block
  /\ {MAXOPBLOCKS, LOGSIZE, nlog, OpBlocks, MaxOps} \subseteq Nat
  /\ MAXOPBLOCKS <= LOGSIZE

Value == 0..MaxOps

VARIABLES
  home,          \* home[b]  block b on disk
  logdata,       \* logdata[i]  block i of the log's data blocks on disk
  head,          \* the block numbers in the header block on disk
  cache,         \* cache[b]  what bread(b) returns
  lh,            \* log.lh, the blocks of the transaction in memory
  outstanding,
  committing,
  pc,            \* pc[p]  where process p is
  op,            \* op[p]  the number of its operation
  left,          \* left[p]  blocks it may still add to those it wrote
  wrote,         \* wrote[p]  the blocks it passed to log_write()
  bp,            \* bp[p]  the block it is log_write()ing
  tail,          \* the loop variable of write_log() and install_trans()
  ops,           \* operations begun so far
  mode           \* the machine: "recovery", "install" (recovering), "up" or "panic"

diskVars == <<home, logdata, head>>
logVars == <<lh, outstanding, committing>>
procVars == <<pc, op, left, wrote, bp>>
vars == <<diskVars, cache, logVars, procVars, tail, ops, mode>>

-----------------------------------------------------------------------------

\* mkfs leaves an empty log; initlog() has nothing to recover.
Init ==
  /\ home = [b \in Block |-> 0]
  /\ logdata = [i \in 1..(nlog - 1) |-> 0]
  /\ head = <<>>
  /\ cache = home
  /\ lh = <<>>
  /\ outstanding = 0
  /\ committing = 0
  /\ pc = [p \in Proc |-> "idle"]
  /\ op = [p \in Proc |-> 0]
  /\ left = [p \in Proc |-> 0]
  /\ wrote = [p \in Proc |-> {}]
  /\ bp = [p \in Proc |-> inodestart]
  /\ tail = 0
  /\ ops = 0
  /\ mode = "recovery"

Up(p, at) == mode = "up" /\ pc[p] = at
Goto(p, at) == pc' = [pc EXCEPT ![p] = at]

\* Fault: wakeup(&log) is left out.
WokenNobody == pc

\* wakeup(&log): sleepers in begin_op() look again.
Woken == [p \in Proc |-> IF pc[p] = "sleep" THEN "woken" ELSE pc[p]]

\* begin_op() sleeps during a commit and when the log might overflow.
MustWait == committing = 1 \/ Len(lh) + (outstanding + 1) * MAXOPBLOCKS > LOGSIZE

\* One iteration of begin_op()'s loop.
BeginOp(p) ==
  /\ Up(p, "idle") \/ Up(p, "woken")
  /\ ops < MaxOps
  /\ IF MustWait
     THEN /\ Goto(p, "sleep")
          /\ UNCHANGED <<outstanding, op, left, wrote, ops>>
     ELSE /\ outstanding' = outstanding + 1
          /\ ops' = ops + 1
          /\ op' = [op EXCEPT ![p] = ops + 1]
          /\ left' = [left EXCEPT ![p] = OpBlocks]
          /\ wrote' = [wrote EXCEPT ![p] = {}]
          /\ Goto(p, "op")
  /\ UNCHANGED <<diskVars, cache, lh, committing, bp, tail, mode>>

\* log_write(b): the checks, which are made before log.lock is acquired.  The
\* caller holds b's buffer B_BUSY from before its change to the end of LogWrite.
LogWriteCheck(p, b) ==
  /\ Up(p, "op")
  /\ left[p] > 0 \/ b \in wrote[p]
  /\ \A q \in Proc : pc[q] = "write" => bp[q] /= b
  /\ IF Len(lh) >= LOGSIZE \/ Len(lh) >= nlog - 1 \/ outstanding < 1
     THEN mode' = "panic" /\ UNCHANGED procVars
     ELSE /\ bp' = [bp EXCEPT ![p] = b]
          /\ Goto(p, "write")
          /\ UNCHANGED <<op, left, wrote, mode>>
  /\ UNCHANGED <<diskVars, cache, logVars, tail, ops>>

\* The block is in the header: a search like log_write()'s finds it.
Logged(header, b) == \E i \in 1..Len(header) : header[i] = b

\* Its critical section: the block joins the transaction unless it is in it.
LogWrite(p) ==
  /\ Up(p, "write")
  /\ cache' = [cache EXCEPT ![bp[p]] = op[p]]
  /\ lh' = IF Logged(lh, bp[p]) THEN lh ELSE Append(lh, bp[p])
  /\ left' = [left EXCEPT ![p] = IF bp[p] \in wrote[p] THEN @ ELSE @ - 1]
  /\ wrote' = [wrote EXCEPT ![p] = @ \cup {bp[p]}]
  /\ bp' = [bp EXCEPT ![p] = inodestart]
  /\ Goto(p, "op")
  /\ UNCHANGED <<diskVars, outstanding, committing, op, tail, ops, mode>>

\* Fault: a transaction of one block is not written.
NothingMuch == Len(lh) <= 1

\* commit() does nothing unless log.lh.n > 0.
NothingToCommit == Len(lh) = 0

\* end_op(): its first critical section.
EndOp(p) ==
  /\ Up(p, "op")
  /\ outstanding' = outstanding - 1
  /\ op' = [op EXCEPT ![p] = 0]
  /\ left' = [left EXCEPT ![p] = 0]
  /\ wrote' = [wrote EXCEPT ![p] = {}]
  /\ IF committing = 1
     THEN mode' = "panic" /\ UNCHANGED <<pc, committing>>
     ELSE /\ UNCHANGED mode
          /\ IF outstanding = 1
             THEN /\ committing' = 1
                  /\ Goto(p, IF NothingToCommit THEN "done" ELSE "write_log")
             ELSE /\ pc' = [Woken EXCEPT ![p] = "idle"]
                  /\ UNCHANGED committing
  /\ UNCHANGED <<diskVars, cache, lh, bp, tail, ops>>

\* write_log(), one block: to the log's data block tail+1, or past the log's end.
WriteLog(p) ==
  /\ Up(p, "write_log")
  /\ tail < Len(lh)
  /\ IF tail + 1 < nlog
     THEN /\ logdata' = [logdata EXCEPT ![tail + 1] = cache[lh[tail + 1]]]
          /\ UNCHANGED <<home, cache>>
     ELSE /\ home' = [home EXCEPT ![inodestart] = cache[lh[tail + 1]]]
          /\ cache' = [cache EXCEPT ![inodestart] = cache[lh[tail + 1]]]
          /\ UNCHANGED logdata
  /\ tail' = tail + 1
  /\ UNCHANGED <<head, logVars, procVars, ops, mode>>

\* Fault: the header is written before the last block.
LogAlmostWritten == tail + 1 >= Len(lh)

\* write_log() has come to its end.
LogWritten == tail = Len(lh)

\* write_head() with the transaction's block numbers: the commit.
WriteHead(p) ==
  /\ Up(p, "write_log")
  /\ LogWritten
  /\ head' = lh
  /\ tail' = 0
  /\ Goto(p, "install")
  /\ UNCHANGED <<home, logdata, cache, logVars, op, left, wrote, bp, ops, mode>>

\* Block log.start+i, which is a data block of the log or lies past its end.
LogBlock(i) == IF i < nlog THEN logdata[i] ELSE cache[inodestart]

\* One block of install_trans().
InstallBlock ==
  /\ tail < Len(lh)
  /\ home' = [home EXCEPT ![lh[tail + 1]] = LogBlock(tail + 1)]
  /\ cache' = [cache EXCEPT ![lh[tail + 1]] = LogBlock(tail + 1)]
  /\ tail' = tail + 1
  /\ UNCHANGED <<logdata, head>>

InstallTrans(p) ==
  /\ Up(p, "install")
  /\ InstallBlock
  /\ UNCHANGED <<logVars, procVars, ops, mode>>

\* log.lh.n = 0 and write_head(): the transaction is erased from the log.
EraseHead ==
  /\ tail = Len(lh)
  /\ lh' = <<>>
  /\ head' = <<>>
  /\ tail' = 0
  /\ UNCHANGED <<home, logdata, cache, outstanding, committing>>

Erase(p) ==
  /\ Up(p, "install")
  /\ EraseHead
  /\ Goto(p, "done")
  /\ UNCHANGED <<op, left, wrote, bp, ops, mode>>

\* end_op() after commit().
EndCommit(p) ==
  /\ Up(p, "done")
  /\ committing' = 0
  /\ pc' = [Woken EXCEPT ![p] = "idle"]
  /\ UNCHANGED <<diskVars, cache, lh, outstanding, op, left, wrote, bp, tail, ops, mode>>

-----------------------------------------------------------------------------

\* initlog(): read_head(), then install_trans() and the erasing of the log.
ReadHead ==
  /\ mode = "recovery"
  /\ lh' = head
  /\ mode' = "install"
  /\ UNCHANGED <<diskVars, cache, outstanding, committing, procVars, tail, ops>>

RecoverBlock ==
  /\ mode = "install"
  /\ InstallBlock
  /\ UNCHANGED <<logVars, procVars, ops, mode>>

RecoverErase ==
  /\ mode = "install"
  /\ EraseHead
  /\ mode' = "up"
  /\ UNCHANGED <<procVars, ops>>

\* The machine loses power, or is restarted after a panic, at any time.
Crash ==
  /\ cache' = home
  /\ lh' = <<>>
  /\ outstanding' = 0
  /\ committing' = 0
  /\ pc' = [p \in Proc |-> "idle"]
  /\ op' = [p \in Proc |-> 0]
  /\ left' = [p \in Proc |-> 0]
  /\ wrote' = [p \in Proc |-> {}]
  /\ bp' = [p \in Proc |-> inodestart]
  /\ tail' = 0
  /\ mode' = "recovery"
  /\ UNCHANGED <<diskVars, ops>>

Next ==
  \/ \E p \in Proc :
       \/ BeginOp(p)
       \/ \E b \in Block : LogWriteCheck(p, b)
       \/ LogWrite(p) \/ EndOp(p)
       \/ WriteLog(p) \/ WriteHead(p) \/ InstallTrans(p) \/ Erase(p) \/ EndCommit(p)
  \/ ReadHead \/ RecoverBlock \/ RecoverErase
  \/ Crash

Spec == Init /\ [][Next]_vars

-----------------------------------------------------------------------------

\* What recovery makes of the disk as it is now.
Durable == [b \in Block |-> IF Logged(head, b)
                            THEN LogBlock(CHOOSE i \in 1..Len(head) : head[i] = b)
                            ELSE home[b]]

TypeOK ==
  /\ home \in [Block -> Value]
  /\ logdata \in [1..(nlog - 1) -> Value]
  /\ cache \in [Block -> Value]
  /\ head \in Seq(Block) /\ lh \in Seq(Block)
  /\ outstanding \in Nat
  /\ committing \in {0, 1}
  /\ pc \in [Proc -> {"idle", "sleep", "woken", "op", "write", "write_log", "install", "done"}]
  /\ op \in [Proc -> Value]
  /\ left \in [Proc -> 0..OpBlocks]
  /\ wrote \in [Proc -> SUBSET Block]
  /\ bp \in [Proc -> Block]
  /\ tail \in Nat
  /\ ops \in 0..MaxOps
  /\ mode \in {"recovery", "install", "up", "panic"}

\* When the last end_op() has returned, everything it and the operations before
\* it wrote survives a crash.
DurableAtRest == (mode = "up" /\ outstanding = 0 /\ committing = 0) => Durable = cache

\* Nobody sleeps in begin_op() without an end_op() to come that will wake it.
SleepersWillWake ==
  (mode = "up" /\ \E p \in Proc : pc[p] = "sleep") => (outstanding > 0 \/ committing = 1)

\* The log implements the disk of AtomicDisk: what a crash leaves changes only at
\* the commit, from one state between operations to the next, and recovery,
\* interrupted by further crashes or not, always leads to it.
Memory == IF mode \in {"up", "panic"} THEN cache ELSE Durable

Abstract == INSTANCE AtomicDisk WITH
  Zero <- 0, durable <- Durable, memory <- Memory, active <- outstanding

ImplementsAtomicDisk == Abstract!Spec

=============================================================================
