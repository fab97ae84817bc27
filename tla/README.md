# TLA+ models and proofs of the kernel

The repository is an xv6 kernel for x86 multiprocessors, extended with exit
statuses, `wait_stat()` and per-process times, a lottery scheduler with three
policies, and signals. This directory holds TLA+ models of the kernel and of the
shell, the TLC runs that check them on small instances, and TLAPS proofs that
hold for every instance. `PROJECT.json` lists components, runs, theorems,
hazards and, for every definition, the source lines it models.

    tlc -workers 2 -config Log.cfg MCLog      # a run: X.cfg with module MCX
    tlapm Log_proofs.tla                      # a proof

## 1. The system and its models

| Part | Module | Run | Proofs | What makes it hard |
|---|---|---|---|---|
| Spin locks (`spinlock.c`) | `SpinLock` | `spinlock` | `SpinLock_proofs` | unlocked reads in `holding()`, interrupts, a lock handed from thread to thread |
| Lock order (all of the kernel) | `LockOrder` | `lock_order` | `LockOrder_proofs` | deadlock of CPUs |
| Process table, scheduler, accounting (`proc.c`, `trap.c`) | `Lottery`, `Proc` | `processes`, `wait_returns` | `Proc_proofs` | lost wakeups, reuse of slots, orphans, off-by-one in the draw, two locks for the time |
| Signals (`proc.c`, `trap.c`) | `Signals` | `signals` | `Signals_proofs` | an update without the lock, one backup of the trap frame |
| Log (`log.c`) | `Log`, `AtomicDisk` | `log` | `Log_proofs` | crashes, grouping of operations, capacity |
| Buffer cache and IDE driver (`bio.c`, `ide.c`) | `Bio` | `bio` | `Bio_proofs` | sleep and look again, pinned buffers, two layers on one channel |
| Inodes, directories, files (`fs.c`, `file.c`, `sysfile.c`) | `FileSys` | `files` | | references against links, races between look-up and lock |
| Memory (`kalloc.c`, `vm.c`, `exec.c`) | `Memory` | `memory` | | failure half way, sizes that are not whole pages |
| Pipes (`pipe.c`) | `Pipe` | `pipe` | `Pipe_proofs` | wrapping counters, sleepers at both ends, kill, freeing |
| Console input (`console.c`) | `Console`, `Terminal` | `console` | `Console_proofs` | three wrapping indices, editing under readers, kill |
| Shell (`sh.c`) | `ShellParser`, `Shell` | `shell` | | descriptors kept open, children that must be waited for |

How the parts interact. The spin locks are used by everything; `LockOrder` has
the lock footprint of every path of the kernel. `sleep()` and `wakeup()` of the
process table are what log, disk, pipe, inodes and console wait with: in their
models a sleeping process is one that a wakeup on its channel lets look again.
The inode layer works inside the
transactions of the log, the log works on the buffer cache, the cache on the
driver. `FileSys` and `Proc` share `fork()` and `exit()`: the table is in `Proc`,
the descriptors are in `FileSys`, the pages in `Memory`. Signals hang on the
return from every trap.

The `MC` modules give constants their values; `MCProc` adds the scenarios that
bound its run and `MCMemory` the view of its run. Definitions commented
*Fault* are not part of the model: each is a plausible mistake in the definition
after it, and shows that some property would notice.

## 2. State and actions

**SpinLock.** One action per access to shared memory. A kernel thread is a
process or the scheduler thread of a CPU; `curr[c]` is what CPU `c` executes,
`mine[t]` the locks it has acquired. An interrupt saves the thread's position in
`saved[t]` and runs on top of it. `Sched` and `Dispatch` are `swtch` in both
directions: `ptable.lock` stays locked and goes from one thread to the other. Of the
panics of `sched()` it has those about the lock, the nesting and interrupts; "sched
running" is about the state of the process, which is in `Proc`.

**LockOrder.** A path through the kernel is the sequence of its acquires,
releases and its `sched()`. A CPU runs any path after any other. Because
interrupts are off under a lock (`MaskedWhileHeld`), handlers are paths too.

**Lottery, Proc.** A critical section of `ptable.lock` is a step. `lock` is
explicit because it stays with a CPU from `sched()` through the scheduler's loop
until the next process releases it. `Draw` is the draw, `DrawOn` the rest of the
scheduler's loop: it does not stop behind the winner, and runs RUNNABLE
neighbours until it meets a slot that is not. `fork()` is two critical sections
with the unlocked part between them. `wait()` and `wait_stat()` are one loop that
differs in what it resets. `exited` and `delivered` are history variables.

**Signals.** The update of `pending` is a read and a write, in `sigsend()` under
`ptable.lock`, in `do_signal()` under no lock and bit by bit. The user context is
the place in the program and one register.

**Log, AtomicDisk.** A step is a critical section of `log.lock` or the write of a
disk block. A block holds the number of the operation that wrote it last. `Crash`
is enabled in every state, recovery included. The refinement mapping takes the
durable disk to be what recovery would make of the disk now.

**Bio.** A step is a critical section of `bcache.lock` or `idelock`, or the end of
a disk command. The list of buffers, the flags and the request queue are as in the
code; `content` is the history of what was put into each block. `panicked` is the
message of the panic of `bget()`, `bwrite()`, `brelse()` or `iderw()` that stopped the
kernel.

**FileSys.** A step is a critical section of `icache.lock` or `ftable.lock`, or
what a call does to inodes it has locked. A system call leaves the `ilock`,
`iunlock` and `iput` that follow in `todo[p]`; the `iput()` that frees an inode is
four steps, since it drops `icache.lock` in the middle, gives the blocks back and then
the inode. `writei()` takes a block in one step and updates the inode in another;
blocks change hands one file at a time, not one block at a time. Directories map
names to inode numbers; a file is the sequence of its blocks. All panics of the
modelled functions are there except those for a failed `readi()` or `writei()` on a
directory.

**Memory.** An address space is only touched by its process, so a system call is a
step, made of operators that follow the calls of `vm.c` and `exec.c` one by one. A
program is the sequence of its segments, with address, size in memory, size in the
file and how much of it the file really has; sums of addresses wrap at `WORD`, which
stands for 2^32. What a file fills of a segment lies in user memory.
`Fails` picks which `kalloc()` of the call finds nothing: other processes may hold
the pages at that moment.

**Pipe.** A critical section of the pipe's lock is a step, except that a call which
has decided to sleep keeps the lock until it is asleep (`tosleep`, `Sleep`), because
`kill()` does not ask for that lock and can fall in between; `late` has the processes
it hit there. A byte is the writer it came from; `Wrap` stands for 2^32.

**Console, Terminal.** `Consoleintr` handles one character; `consoleread()` is
taken apart into acquire, look, take, sleep and return. `WORD` stands for 2^32.
`Terminal` is what a reader is promised: entered lines, in order, once.

**ShellParser, Shell.** The parser is a set of recursive operators on token
sequences, the grammar a separate definition of the trees a line can have. In
`Shell` a step is a system call of a process; programs read their input to its
end, or stop earlier.

## 3. What the runs show

| Run | Instance | Distinct states | Shows |
|---|---|---|---|
| `spinlock` | 2 CPUs, 2 processes, 2 locks | 466,707 | exclusion, exact `holding()`, masking, the flag restored across `sched()`, no panic |
| `lock_order` | 3 CPUs, all paths | 153,189 | circular waits are over `ptable.lock` and `cons.lock` only, none of a CPU for itself; `sched()` is entered with `ptable.lock` alone |
| `processes` | 2 CPUs, 4 scenarios | 247,955 | one CPU per process, no lost wakeup of `wait()`, an exit is reported once, every RUNNABLE process can be drawn, times add up |
| `wait_returns` | 2 CPUs, 3 slots | 27,440 | `wait()` returns when it can (liveness) |
| `log` | 2 processes, 3 blocks, 4 operations of 2 blocks | 216,277 | the log implements `AtomicDisk`; durability; sleepers have somebody to wake them |
| `pipe` | 2+1 or 1+2 readers and writers, 2 bytes of buffer, counters modulo 4 | 134,376 | a queue; no sleeping through a wakeup but that of a late `kill()`; freed once; calls return (liveness) |
| `signals` | 2 signals, 3 sends, a sender on another CPU | 20,440 | signals are lost only in the race; `sigreturn()` resumes; signals are taken up (liveness) |
| `bio` | 2 processes, 4 blocks, 3 buffers | 134,141 | one buffer and one user per block; reads see the latest; requests return (liveness) |
| `files` | 2 processes, 4 inodes, 3 of them in the cache, 3 calls | 728,065 | nothing freed in use, nothing leaked, exact counts, panics only when something is full or over the parent of a removed directory |
| `memory` | 2 processes, 18 pages, one failing `kalloc()` per call | 40,901 | every page has one owner; size and pages agree; panics only after a lost page or over a segment off a page boundary or past the last address |
| `console` | 2 readers, ring of 3, indices modulo 6 | 1,319,044 | no reader sleeps on input; the ring implements `Terminal` |
| `shell` | all lines of 3 tokens and 8 longer ones, 5 processes | 84,560 | the parser is exact; the prompt waits for the foreground and comes back (liveness) |

Some properties name an exception, because the code has one.

- `OnlyConsoleCircles`: `wait()` prints with `ptable.lock` held (`proc.c:439`) and
  `consoleintr()` wakes with `cons.lock` held (`console.c:220`). Two CPUs can spin
  for each other. No other pair of locks can.
- `LostOnlyInRace`: `do_signal()` clears a bit of `pending` without the lock
  (`trap.c:83`). `lost` has the signals added between its read and its write.
- `LinksExact`: another process can remove a directory between `nameiparent()` and
  `ilock()` (`sysfile.c:247`); an inode that gets a name there is in `strays`.
- `SleepersHaveNoWork`: a `pipewrite()` that finds its process killed returns
  without the wakeup it owes to readers (`pipe.c:85`). And a `kill()` between the test
  of `killed` (`pipe.c:85`, `pipe.c:106`) and the sleep wakes nobody: such a process,
  in `late`, sleeps on though it is killed, until the other end moves.
- `NoPanic` of `FileSys`: `iget()` panics when all `NINODE = 50` entries are in use,
  which open files (`NFILE = 100`) and current directories can bring about
  (`fs.c:241`), `ialloc()` and `balloc()` when the disk is full. And the ".." of a
  removed directory keeps the number of its parent, which may be freed: a process
  still in that directory that looks up ".." meets "ilock: no type" (`fs.c:292`).
  `local[p].up` marks such a look-up.
- `PanicsOnlyAfterLoss`: `exec()` takes the address of a segment as the file has it.
  `loaduvm()` panics if it is not on a page boundary (`vm.c:202`), and if the end of
  the segment, computed as a `uint` (`exec.c:67`), wraps, so that `allocuvm()` gave it
  no pages. `loading` has the program the kernel stopped with.
- `TimesAddUp`: a tick that a `fork()` overtakes between `ticks++` and the update of
  the times is counted once more.
- `SizeMapped`: `growproc()` to size 0 frees all memory and reports a failure
  (`proc.c:271`), so the size stays.
- `ForegroundDone`: a failed `fork()` or `pipe()` leaves the other half of a pipeline
  behind.

Likewise `Memory` has `lost`, the pages that `allocuvm()` forgets when
`mappages()` fails (`vm.c:240`): `PagesOwnedOnce` counts them, and all other panics
are tied to them.

**Bounds and why they are enough.** Two CPUs give every pairwise race, three give
longer circles of waiting. `MaxPid` lets slots be used again. The scenarios of
`MCProc` each let one thing grow: four slots (an orphan whose grandparent is not
initproc needs them), two statuses and a kill, two ticks, changes of policy;
`StaysWithin` cuts off steps that are in none. Tickets are 1 and 2 instead of 10
and 20: the draw compares sums only. `MaxOps` lets a transaction group two
operations and another follow a recovery; its log has the room `ReservationSuffices`
asks for (section 4), so that no run meets the limit of the log. `MaxBytes` takes the
counters of the pipe to their wrap; those of the console wrap any number of times. One
reader and one writer of the pipe can be killed.
Three buffers for two processes and one pinned block make `bget()`
recycle under pressure and never meet its panic. Three calls in `files` are enough
for a race of two with a third to set it up or to look at the result; what takes
longer to set up is where some of the behaviours begin: a process two directories
down, and two processes that share an open file. Four inodes and three entries of
the cache let the cache run full. In `memory`,
two bytes to a page and two pages to a table put the boundaries of pages and of
page tables within reach; the view `Shape` forgets which page is where, which no
step depends on. Symmetry is used for processes, CPUs and readers where nothing
distinguishes them and only safety is checked.

**Deadlock** is checked except where the modelled system may stop: a panicked or
halted kernel (`Proc`, `Memory`), a closed pipe, a shell at the end of its input,
and `LockOrder`, where circular waiting is the property itself.

**Fairness.** `Proc`: a CPU that holds `ptable.lock` goes on (weak); a CPU whose
timer fires again and again gets the lock some time, and a process that can win
draw after draw wins one (strong): a spin lock and `rand()` give no more. `Pipe`:
a process that is on its way to sleep gets there (weak); a process in a call that
can go on again and again, between the critical sections of others on the pipe's
lock, does so some time (strong): a spin lock is not a queue, but no attempt to get
it is bound to fail.
`Signals`: timer interrupts, and a handler that returns. `Bio`: the disk completes
commands, and awake processes get the lock. `Shell`: processes are scheduled, and
a program whose input comes to its end ends; for one that reads the terminal this
takes a user who ends what they type with ^D. Otherwise nobody is assumed to call, to
send or to type anything.

## 4. What is proved

The theorems hold for every value of the constants that the named assumptions of
the modules allow. Each is derived from an inductive invariant: `Init` implies it,
every action preserves it, it implies the property. Every safety property of the
runs `spinlock`, `lock_order`, `processes`, `log`, `pipe`, `signals`, `bio` and
`console` is stated by a theorem.

**Spin locks** (`LockAssumption`: finitely many locks; any CPUs and processes).
All five properties of the run, and type correctness. The invariant `IInv` says
where threads are (`Placed`: a thread is on one CPU at most), and then speaks of
one CPU at a time. `Locks(c)`: the locks of the code on `c` are locked, and
`lk->cpu` names `c` except in the windows between `xchg` and assignment.
`Count(c)`: `ncli` is the number of these locks plus the `pushcli()` in progress.
`Flags(c)`: interrupts are off whenever `ncli` is not 0, and `intena` is what they
were. `Apart` says that two CPUs share no lock. The rest is about threads that are
not running: a process off the CPUs takes over `ptable.lock` and nothing else
(`Waiting`), a scheduler thread stands behind its `swtch` (`Behind`), a handler
returns to code without locks (`FrameOK`). Exactness of `holding()` needs the
windows, the absence of panics needs the counting, and the counting needs what is
said of the threads off a CPU.

**Lock order** (any set of CPUs, finite or not). `OnlyConsoleCircles` and
`SchedHoldsPtableOnly`. The order is `MayAcquire`: nothing is acquired twice or under
`kmem.lock`, and under any other lock only `ptable.lock`, `cons.lock` and
`kmem.lock`. `Good` is the largest set of pairs, locks held and rest of a path, in
which every step keeps to the order and leads to a pair of the set. The invariant
is that every CPU is at such a pair. `Takes(h, s, g)`, a fragment of a path takes
a CPU from holding `h` to holding `g`, composes fragments as the code composes
calls, so that each path of the kernel is shown good without running through it. A
CPU on a circle holds a lock and waits for one, which by the order is one of
three; `kmem.lock` drops out because its holder waits for nothing.

**Process table** (`ProcAssumption`: any CPUs, pids and channels, positive tickets;
`NprocAssumption`: any `NPROC`). `RunningOnce` is split into
agreement of table and CPUs in both directions. `WaitersHaveWork` needs that an
EMBRYO has no parent yet and belongs to one `fork()`, that initproc never ends, and
that who waits sleeps on itself, which is where `exit()` looks for it.
`ExitReportedOnce` needs that slots in use have different pids and that a pid which
exited is in use by its ZOMBIE alone. `TimesAddUp` and `RunnableCanWin` rest on
`Accounts`: a live process has a ticket, its times add up to its age, up to the tick
in progress, and a ZOMBIE has no ticket. That the running sum of the draw passes
every slot with a ticket is shown by the least-number principle: of the slots at
which a fact about the sums fails there would be a first one, and it does not.

**Log** (`LogAssumption`: any processes, blocks, operations). The invariant
`Inv` relates, for each phase of a commit and of a recovery, the header on disk, the
log blocks, the home blocks and memory (`Phases`, `Recovery`), with the counting of
operations (`Counted`) and the single committer (`OneCommits`).

- `LogImplementsAtomicDisk`: `Spec /\ []Fits => ImplementsAtomicDisk`, the
  refinement: initial states map to initial states, each step to a step of the
  atomic disk or to a stutter. The header write of the commit is the step that
  changes the durable disk; a crash anywhere is the abstract crash; recovery
  stutters.
- `LogDurableAtRest`, `LogSleepersWillWake`, under the same hypothesis.
- `Fits` says that the transaction in memory fits the log. It is what
  `log_write()` should guarantee, and cannot alone, since it tests the size outside
  the lock (`log.c:215`). `ReservationSuffices` proves `Fits`, and that none of the
  panics of `log_write()` occurs, from `Roomy`: an operation writes at most `OpBlocks`
  different blocks, any number of times, with `OpBlocks < MAXOPBLOCKS` and
  `LOGSIZE + OpBlocks + 1 < nlog + MAXOPBLOCKS`. It counts the blocks that operations
  in progress may still add (`Reserved`). One block is lost to the header and one to
  the test, which refuses a write to a full log even if the block is in it.
- For the constants of the repository (`LOGSIZE = nlog = 30`, `MAXOPBLOCKS = 10`)
  `Roomy` says 8 different blocks at most, where `param.h:10` says 10. The calls on
  directories stay below: `mkdir()` and `link()` write 6 at most, `unlink()` 4.
  `filewrite()` takes its chunks from `LOGSIZE` (`file.c:132`), 13 blocks of data and
  then some, so for large writes `Roomy` does not hold and the theorem does not apply.

**Pipe** (`PipeAssumption`: any readers and writers, any `PIPESIZE`, counters that
wrap at any larger multiple of it). `Fifo`, `SleepersHaveNoWork`, `FreedUnused`.
`Ring` relates the wrapped counters to the number of bytes ever written and read
and puts every byte in between in its slot; it needs lemmas about remainders, which
come first in the module: differences of wrapped counters, slots of wrapped
counters, and that fewer than `PIPESIZE` successive slots differ. `Ends` relates
references, calls in progress and the two open flags.

**Buffer cache and IDE driver** (`BioAssumption`: any processes, blocks, `NBUF`).
`OneUserPerBlock`, `ReadsLatest`, and `PanicOnlyWithoutBuffers`: the kernel stops in
`bget()` or not at all, and there only when every buffer is dirty or in the hands of a
process; `bwrite()`, `brelse()` and `iderw()` never find a buffer that is not busy or
has nothing to do. The invariant: every buffer is on the list
(`Listed`), no block is in two (`Unique`), a BUSY buffer has one owner, who is where
the code says (`Owners`), the flags say what is under way (`Flags`), the queue has
the buffers that wait for the disk, once each (`Queued`), and a block whose buffer is
not newer than the disk is on the disk as it was last written (`Latest`).
`Unique` is what `bget()` must restore after each sleep. `ReadsLatest` assumes
`IdeOk = {TRUE}`: `ideintr()` marks a buffer valid after a failed read too
(`ide.c:118`), so the property is not true of a disk that fails. The run makes the
same choice.

**Console** (`ConsoleAssumption`: any readers, any `INPUT_BUF`, indices that wrap at
any larger multiple of it).

- `SleepersHaveNoInput`, from the fact that a reader which has decided to sleep
  holds `cons.lock` until it does.
- `ConsoleImplementsTerminal`: `Spec => ImplementsTerminal`, the refinement. The
  entered input is what lies in the ring from `r` to `w`, the line being edited what
  lies from `w` to `e`. `RingInv` says that the two distances, taken modulo the wrap,
  add up to `INPUT_BUF` at most, and that the edited line has no newline in it, which
  is why ^U takes back all of it; `CallInv` that who is in `consoleread()` asked for
  something. The lemmas on remainders say that the slot of a wrapped index is the
  slot of the index (this needs `WORD` to be a multiple of `INPUT_BUF`) and that the
  slots of one lap differ; those on segments, what moving an index or storing a
  character does to the two sequences. `consoleintr()` is then typing or erasing, a
  step of `consoleread()` is a delivery, a return or a stutter.

**Signals** (`SignalsAssumption`: up to 32 signals, any senders). `LostOnlyInRace`
and `ResumesWhereInterrupted`, and that handlers do not nest. The invariant relates
the copies of `pending` that `do_signal()` and `sigsend()` hold to `pending`, and the
backup frame to the interrupted program.

**Only model-checked.**

- All liveness: fairness and `ENABLED` are out of the prover's reach.
- `FileSys`. Its properties compare reference and link counts with sets of holders
  spread over descriptors, working directories and the steps that calls have still
  to make; the inductive invariant would have to count all of them exactly, for
  every action.
- `Memory`, whose operators follow the loops of `vm.c` and `exec.c` by recursion over
  addresses, and `ShellParser`, which is recursive descent, with `Shell`, which runs
  what it returns: recursive operators are not open to the prover.

## 5. Not modelled

- Boot, multiprocessor start and interrupt controllers (`bootasm.S`, `main.c`,
  `mp.c`, `lapic.c`, `ioapic.c`, ...): device registers and code that runs once, alone.
- Console output, keyboard and serial line (`console.c`, `kbd.c`, `uart.c`): output
  formatting and registers; `cprintf()` is in `LockOrder` for its lock.
- Segments and the switching of page tables, the contents of pages and the layout of
  stacks (`vm.c`, `exec.c`): hardware state and data that no property tells apart.
- The decoding of system call arguments (`syscall.c`) and of path strings
  (`skipelem()`): conversions of strings, which take no part in any interleaving.
- `sys_pipe()` and `fstat()`; `nulterminate()` of the shell.
- What `fork()` and `exec()` do with signal handlers.
- The user library, user programs and test drivers (`ulib.c`, `umalloc.c`,
  `printf.c`, `usertests.c`, ...): sequential code without shared state.
- `memide.c`, the memory disk that replaces `ide.c` in one build: it has no queue
  and no interrupts.
- Three conditions are in the models and reached by no run or asked about by none:
  a transaction too big for the log (`log.c:215`), `bget()` out of buffers
  (`bio.c:95`), and a kill that falls between the last test and the sleep of
  `consoleread()` (`console.c:243`). `PROJECT.json` lists them under `hazards` with
  the reason; the first two are the subject of `ReservationSuffices` and
  `PanicOnlyWithoutBuffers`.
