------------------------------- MODULE Memory -------------------------------
(***************************************************************************)
(* Physical pages and address spaces: the allocator of kalloc.c, the page  *)
(* tables of vm.c, and what fork(), exec(), growproc(), exit() and wait()  *)
(* do with them.                                                           *)
(*                                                                         *)
(* An address space is built and changed by the process it belongs to      *)
(* alone; processes only meet in the free list.  So a call is a step, in   *)
(* which any kalloc() may fail because others hold the pages at that       *)
(* moment.  The operators on m follow the calls of the code; m is the free *)
(* list with the address space they work on.                               *)
(***************************************************************************)
EXTENDS Integers, FiniteSets, FiniteSetsExt, SequencesExt

CONSTANTS
  Proc,         \* the slots of the process table
  initproc,     \* the first process, which does not exit
  NPAGES,       \* how many pages of memory there are
  PGSIZE,       \* the size of a page, in bytes of the model
  NPTENTRIES,   \* how many pages a page table maps
  KERNBASE,     \* the end of user memory
  WORD,         \* where a uint wraps around, 2^32
  NKTABS,       \* how many page tables the kernel part of a directory needs
  Image,        \* programs: sequences of segments to load, see Segment
  Grow,         \* arguments of sbrk()
  Fails,        \* sets of kalloc() calls of a system call that find no page
  MaxLost       \* bound on the pages lost before the last call

Page == 1..NPAGES
Vpn == 0..(KERNBASE \div PGSIZE - 1)
Pde == 0..((KERNBASE \div PGSIZE - 1) \div NPTENTRIES)

\* What exec() takes from a program header, and how many bytes of the segment the
\* file really has.
Segment == [vaddr : Nat, memsz : Nat, filesz : Nat, held : Nat]

ASSUME MemoryAssumption ==
  /\ {NPAGES, PGSIZE, NPTENTRIES, KERNBASE} \subseteq Nat \ {0} /\ NKTABS \in Nat
  /\ KERNBASE % (PGSIZE * NPTENTRIES) = 0
  /\ initproc \in Proc
  /\ WORD \in Nat /\ WORD >= 2 * KERNBASE
  /\ \A prog \in Image : \A i \in DOMAIN prog :
       prog[i] \in Segment /\ prog[i].vaddr + prog[i].filesz <= KERNBASE
  /\ \A n \in Grow : n \in Int /\ n < KERNBASE

VARIABLES
  free,       \* the pages on kmem.freelist
  space,      \* space[q]: the page directory of q, its tables and user pages
  kstack,     \* kstack[q]: the page of its kernel stack, or 0
  sz,         \* sz[q]: proc->sz
  state,      \* state[q]: "unused", "live" or "zombie"
  lost,       \* history: pages that nothing refers to any more
  halted,     \* why the kernel cannot go on, or ""
  loading     \* history: the program it stopped in exec() with

vars == <<free, space, kstack, sz, state, lost, halted, loading>>

NoSpace == [pgdir |-> 0, ktabs |-> {}, tabs |-> [d \in Pde |-> 0],
            page |-> [v \in Vpn |-> 0], user |-> {}]

-----------------------------------------------------------------------------

(* kalloc.c *)

\* Sizes and the page numbers they round up to.
PGROUNDUP(n) == (n + PGSIZE - 1) \div PGSIZE

\* What a call works on: n calls of kalloc() were made, those in fails find
\* nothing, ok is the result, and sz the one of allocuvm() or deallocuvm().
Memory(q, fails) ==
  [free |-> free, fails |-> fails, n |-> 0, space |-> space[q], lost |-> lost,
   got |-> 0, ok |-> TRUE, sz |-> 0, halted |-> ""]

\* kalloc(): got is the page, or 0.
Kalloc(m) ==
  IF m.n + 1 \in m.fails \/ m.free = {} THEN [m EXCEPT !.got = 0, !.n = @ + 1]
  ELSE [m EXCEPT !.got = Min(m.free), !.free = @ \ {Min(m.free)}, !.n = @ + 1]

\* kfree(); a page that is freed twice makes a loop of the free list.
Kfree(m, page) ==
  [m EXCEPT !.free = @ \cup {page},
            !.halted = IF page \in m.free THEN "freed twice" ELSE @]

KfreeAll(m, pages) == FoldLeft(Kfree, m, SetToSeq(pages))

-----------------------------------------------------------------------------

(* vm.c *)

\* The page tables of an address space.
Tables(s) == s.ktabs \cup {s.tabs[d] : d \in {x \in Pde : s.tabs[x] /= 0}}

\* mappages() of one page: walkpgdir() may need a page for the table.  When it
\* gets none, the caller has no other reference to the page.
Mappages(m, v, page, user) ==
  LET d == v \div NPTENTRIES
      n == IF m.space.tabs[d] /= 0 THEN [m EXCEPT !.got = m.space.tabs[d]] ELSE Kalloc(m)
  IN  CASE n.got = 0 -> [n EXCEPT !.ok = FALSE, !.lost = @ \cup {page}]
        [] n.got /= 0 /\ n.space.page[v] /= 0 -> [n EXCEPT !.halted = "remap"]
        [] OTHER -> [n EXCEPT !.ok = TRUE, !.space.tabs[d] = n.got, !.space.page[v] = page,
                              !.space.user = IF user THEN @ \cup {v} ELSE @]

\* setupkvm(): the directory and the kernel's tables.  When a table cannot be
\* had the directory is not given back.
Setupkvm(m) ==
  LET Table(n, i) ==
        IF ~n.ok THEN n
        ELSE LET t == Kalloc(n) IN
             IF t.got /= 0 THEN [t EXCEPT !.space.ktabs = @ \cup {t.got}]
             ELSE [t EXCEPT !.ok = FALSE, !.space = NoSpace,
                            !.lost = @ \cup {n.space.pgdir} \cup n.space.ktabs]
      dir == Kalloc([m EXCEPT !.space = NoSpace])
  IN  IF dir.got = 0 THEN [dir EXCEPT !.ok = FALSE]
      ELSE FoldLeft(Table, [dir EXCEPT !.ok = TRUE, !.space.pgdir = dir.got], [i \in 1..NKTABS |-> i])

\* deallocuvm() frees a page and clears its entry.
FreePage(m, v) ==
  [Kfree(m, m.space.page[v]) EXCEPT !.space.page[v] = 0, !.space.user = @ \ {v}]

\* deallocuvm()'s loop from page v on; a missing table is skipped.
RECURSIVE DeallocPages(_, _, _)
DeallocPages(m, v, end) ==
  CASE v >= end -> m
    [] v < end /\ m.space.tabs[v \div NPTENTRIES] = 0 -> DeallocPages(m, v + NPTENTRIES, end)
    [] OTHER -> DeallocPages(IF m.space.page[v] /= 0 THEN FreePage(m, v) ELSE m, v + 1, end)

\* Faults: to round down the size that stays.
DeallocDown(newsz) == newsz \div PGSIZE
AllocDown(oldsz) == oldsz \div PGSIZE

\* The first page deallocuvm() frees and the first one allocuvm() makes.
DeallocFrom(newsz) == PGROUNDUP(newsz)
AllocFrom(oldsz) == PGROUNDUP(oldsz)

Deallocuvm(m, oldsz, newsz) ==
  IF newsz >= oldsz THEN [m EXCEPT !.sz = oldsz]
  ELSE [DeallocPages(m, DeallocFrom(newsz), PGROUNDUP(oldsz)) EXCEPT !.sz = newsz]

\* allocuvm() gives back what it has got.
UndoAlloc(m, oldsz, newsz) == Deallocuvm(m, newsz, oldsz)

\* allocuvm()'s loop; the result of mappages() is not looked at.
RECURSIVE AllocPages(_, _, _, _)
AllocPages(m, v, oldsz, newsz) ==
  IF v >= PGROUNDUP(newsz) THEN [m EXCEPT !.sz = newsz]
  ELSE LET n == Kalloc(m) IN
       IF n.got = 0 THEN [UndoAlloc(n, oldsz, newsz) EXCEPT !.sz = 0]
       ELSE AllocPages(Mappages(n, v, n.got, TRUE), v + 1, oldsz, newsz)

TooBig(newsz) == newsz >= KERNBASE

\* The callers take a result of 0 for an error.
Allocuvm(m, oldsz, newsz) ==
  CASE TooBig(newsz) -> [m EXCEPT !.sz = 0]
    [] ~TooBig(newsz) /\ newsz < oldsz -> [m EXCEPT !.sz = oldsz]
    [] OTHER -> AllocPages(m, AllocFrom(oldsz), oldsz, newsz)

\* Fault: freevm() forgets the tables.
FreeDirectory(m) == {m.space.pgdir}

\* The pages freevm() frees besides those of the user.
Directory(m) == {m.space.pgdir} \cup Tables(m.space)

Freevm(m) ==
  LET n == Deallocuvm(m, KERNBASE, 0) IN [KfreeAll(n, Directory(n)) EXCEPT !.space = NoSpace]

\* copyuvm()'s loop over the pages of the parent's space s.
RECURSIVE CopyPages(_, _, _, _)
CopyPages(m, s, v, size) ==
  IF v >= PGROUNDUP(size) THEN m
  ELSE IF s.page[v] = 0 THEN [m EXCEPT !.halted = "copyuvm: page not present"]
  ELSE LET n == Kalloc(m)
           k == Mappages(n, v, n.got, v \in s.user)
       IN  IF n.got = 0 THEN [Freevm(n) EXCEPT !.ok = FALSE]
           ELSE IF ~k.ok THEN [Freevm(k) EXCEPT !.ok = FALSE]
           ELSE CopyPages(k, s, v + 1, size)

Copyuvm(m, s, size) ==
  LET n == Setupkvm(m) IN IF n.ok THEN CopyPages(n, s, 0, size) ELSE n

\* loaduvm() writes segment s through the page table, page by page, until the file
\* ends.  Where only the page is missing it writes to physical address 0, which holds
\* nothing of the model.
Loaduvm(m, s) ==
  LET first == s.vaddr \div PGSIZE
      pages == first..(first + PGROUNDUP(s.filesz) - 1)
      missing == {v \in pages : m.space.tabs[v \div NPTENTRIES] = 0}
      short == {v \in pages : (v - first + 1) * PGSIZE > s.held /\ s.held < s.filesz}
  IN  CASE s.vaddr % PGSIZE /= 0 -> [m EXCEPT !.halted = "loaduvm: addr must be page aligned"]
        [] s.vaddr % PGSIZE = 0 /\ \E v \in missing : \A x \in short : v <= x ->
             [m EXCEPT !.halted = "loaduvm: address should exist"]
        [] OTHER -> [m EXCEPT !.ok = short = {}]

\* clearpteu() on page v.
Clearpteu(m, v) ==
  IF m.space.tabs[v \div NPTENTRIES] = 0 THEN [m EXCEPT !.halted = "clearpteu"]
  ELSE [m EXCEPT !.space.user = @ \ {v}]

\* copyout() to page v; uva2ka() follows the entry of a missing table.
Copyout(m, v) ==
  IF m.space.tabs[v \div NPTENTRIES] = 0 THEN [m EXCEPT !.halted = "uva2ka: no table"]
  ELSE [m EXCEPT !.ok = v \in m.space.user]

-----------------------------------------------------------------------------

(* The system calls. *)

\* initcode is in the first page of the first process.
Init ==
  LET m == [free |-> Page, fails |-> {}, n |-> 0, space |-> NoSpace, lost |-> {},
            got |-> 0, ok |-> TRUE, sz |-> 0, halted |-> ""]
      stack == Kalloc(m)
      page == Kalloc(Setupkvm(stack))
      user == Mappages(page, 0, page.got, TRUE)
  IN  /\ free = user.free
      /\ space = [q \in Proc |-> IF q = initproc THEN user.space ELSE NoSpace]
      /\ kstack = [q \in Proc |-> IF q = initproc THEN stack.got ELSE 0]
      /\ sz = [q \in Proc |-> IF q = initproc THEN PGSIZE ELSE 0]
      /\ state = [q \in Proc |-> IF q = initproc THEN "live" ELSE "unused"]
      /\ lost = {} /\ halted = "" /\ loading = <<>>

\* A call ends with m.
Returns(m) == free' = m.free /\ lost' = m.lost /\ halted' = m.halted

\* Process p executes user code, which it needs its first page for.
Running(p) ==
  /\ halted = "" /\ state[p] = "live" /\ 0 \in space[p].user
  /\ Cardinality(lost) <= MaxLost

\* allocproc() takes a page for the stack of q.
Allocproc(q, fails) == Kalloc(Memory(q, fails))

\* fork(): the memory of p is copied, or the stack given back.
Fork(p, q) ==
  /\ Running(p)
  /\ state[q] = "unused"
  /\ \E fails \in Fails :
       LET a == Allocproc(q, fails)
           m == Copyuvm(a, space[p], sz[p])
       IN  IF a.got = 0 THEN Returns(a) /\ UNCHANGED <<space, kstack, sz, state>>
           ELSE IF ~m.ok THEN Returns(Kfree(m, a.got)) /\ UNCHANGED <<space, kstack, sz, state>>
           ELSE /\ Returns(m)
                /\ space' = [space EXCEPT ![q] = m.space]
                /\ kstack' = [kstack EXCEPT ![q] = a.got]
                /\ sz' = [sz EXCEPT ![q] = sz[p]]
                /\ state' = [state EXCEPT ![q] = "live"]
  /\ UNCHANGED loading

\* The label bad of exec().
Bad(m) == IF m.space.pgdir = 0 THEN m ELSE [Freevm(m) EXCEPT !.ok = FALSE]

\* m is the outcome of a call of exec() that can fail.
OrBad(m) == IF m.ok \/ m.halted /= "" THEN m ELSE Bad(m)

\* exec()'s loop over the program headers; m.sz is its sz.  The end of a segment is
\* computed as a uint.
Load(m, s) == IF m.sz = 0 THEN Bad(m) ELSE OrBad(Loaduvm(m, s))
LoadSegment(m, s) ==
  IF ~m.ok \/ m.halted /= "" THEN m
  ELSE IF s.memsz < s.filesz THEN Bad(m)
  ELSE Load(Allocuvm(m, m.sz, (s.vaddr + s.memsz) % WORD), s)

\* The two pages above the program, the upper one for the stack, and the arguments,
\* which may not fit ("args").
Push(m, bad) == OrBad([m EXCEPT !.ok = @ /\ bad /= "args"])
UseStack(m, bad) ==
  LET top == m.sz \div PGSIZE
  IN  IF m.sz = 0 THEN Bad(m) ELSE Push(Copyout(Clearpteu(m, top - 2), top - 1), bad)
AllocStack(m, bad) ==
  LET sz1 == PGROUNDUP(m.sz) * PGSIZE
  IN  IF ~m.ok \/ m.halted /= "" THEN m
      ELSE UseStack(Allocuvm(m, sz1, sz1 + 2 * PGSIZE), bad)

\* exec() up to its commit; the ELF header may be bad ("header").
NewImage(m, prog, bad) ==
  LET k == Setupkvm(m)
  IN  CASE bad = "header" -> [m EXCEPT !.space = NoSpace, !.ok = FALSE]
        [] bad /= "header" /\ ~k.ok -> k
        [] OTHER -> AllocStack(FoldLeft(LoadSegment, [k EXCEPT !.sz = 0], prog), bad)

\* exec(): commit to the new image of m and free the old one, if there is a new one.
Commit(p, m) ==
  IF ~m.ok \/ m.halted /= "" THEN Returns(m) /\ UNCHANGED <<space, sz>>
  ELSE /\ Returns(Freevm([m EXCEPT !.space = space[p]]))
       /\ space' = [space EXCEPT ![p] = m.space]
       /\ sz' = [sz EXCEPT ![p] = m.sz]

Exec(p, prog, bad) ==
  /\ Running(p)
  /\ \E fails \in Fails : Commit(p, NewImage(Memory(p, fails), prog, bad))
  /\ loading' = IF halted' /= "" THEN prog ELSE loading
  /\ UNCHANGED <<kstack, state>>

\* growproc(): to shrink to nothing frees the pages and is reported as a failure,
\* to shrink to less leaves the size as it is, since the sum wraps around.
Sbrk(p, n) ==
  LET new == (sz[p] + n) % WORD IN
  /\ Running(p)
  /\ \E fails \in Fails :
       LET m == CASE n > 0 -> Allocuvm(Memory(p, fails), sz[p], new)
                  [] n < 0 -> Deallocuvm(Memory(p, fails), sz[p], new)
                  [] OTHER -> [Memory(p, fails) EXCEPT !.sz = sz[p]]
       IN  /\ Returns(m)
           /\ space' = [space EXCEPT ![p] = m.space]
           /\ sz' = IF m.sz /= 0 THEN [sz EXCEPT ![p] = m.sz] ELSE sz
  /\ UNCHANGED <<kstack, state, loading>>

\* exit(), of its own accord or because of a fault or kill().
Exit(p) ==
  /\ halted = "" /\ state[p] = "live" /\ p /= initproc
  /\ state' = [state EXCEPT ![p] = "zombie"]
  /\ UNCHANGED <<free, space, kstack, sz, lost, halted, loading>>

\* wait() by some process frees the stack and the memory of q.
Wait(q) ==
  /\ halted = "" /\ state[q] = "zombie"
  /\ Returns(Freevm(Kfree(Memory(q, {}), kstack[q])))
  /\ space' = [space EXCEPT ![q] = NoSpace]
  /\ kstack' = [kstack EXCEPT ![q] = 0]
  /\ sz' = [sz EXCEPT ![q] = 0]
  /\ state' = [state EXCEPT ![q] = "unused"]
  /\ UNCHANGED loading

Next ==
  \/ \E p, q \in Proc : Fork(p, q)
  \/ \E p \in Proc, prog \in Image, bad \in {"", "header", "args"} : Exec(p, prog, bad)
  \/ \E p \in Proc, n \in Grow : Sbrk(p, n)
  \/ \E p \in Proc : Exit(p) \/ Wait(p)

Spec == Init /\ [][Next]_vars

-----------------------------------------------------------------------------

\* The user pages of an address space, and all pages of process q.
UserPages(s) == {s.page[v] : v \in {x \in Vpn : s.page[x] /= 0}}
Owned(q) == ({kstack[q], space[q].pgdir} \cup Tables(space[q]) \cup UserPages(space[q])) \ {0}

\* Every page is in one place, whichever kalloc() failed: on the free list, in one
\* role in one process, or lost by a caller of mappages(); none is freed twice.
PagesOwnedOnce ==
  /\ halted /= "freed twice"
  /\ halted = "" =>
       /\ free \cup lost \cup UNION {Owned(q) : q \in Proc} = Page
       /\ Cardinality(free) + Cardinality(lost)
            + MapThenSumSet(LAMBDA q : Cardinality(Owned(q)), Proc) = NPAGES
       /\ \A q \in Proc :
            LET s == space[q]
                mapped == {v \in Vpn : s.page[v] /= 0}
            IN  state[q] /= "unused" =>
                  Cardinality(Owned(q)) = 2 + Cardinality(Tables(s)) + Cardinality(mapped)

\* As long as no page table was missing, a process has a page for each address
\* below its size and for none above, unless it gave back all of its memory.
SizeMapped ==
  lost = {} /\ halted = "" =>
    \A q \in Proc :
      state[q] /= "unused" =>
        \/ {v \in Vpn : space[q].page[v] /= 0} = 0..(PGROUNDUP(sz[q]) - 1)
        \/ UserPages(space[q]) = {}

\* As long as no page table was missing, the kernel does not panic over one, except
\* in exec(), over a program with a segment that does not begin on a page or whose
\* end exec() computes wrong because the sum wraps around.
PanicsOnlyAfterLoss ==
  lost = {} /\ halted /= "" =>
    \E i \in DOMAIN loading :
      IF halted = "loaduvm: addr must be page aligned" THEN loading[i].vaddr % PGSIZE /= 0
      ELSE /\ halted = "loaduvm: address should exist"
           /\ loading[i].vaddr + loading[i].memsz >= WORD

=============================================================================
