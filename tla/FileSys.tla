------------------------------ MODULE FileSys ------------------------------
(***************************************************************************)
(* Inodes, directories and open files: the inode cache, path lookup and    *)
(* block ownership of fs.c, the file table of file.c, and the system calls *)
(* of sysfile.c that change them.                                          *)
(*                                                                         *)
(* A step is a critical section of icache.lock or ftable.lock, or what a   *)
(* call does to inodes it has locked.  A call leaves the ilock, iunlock    *)
(* and iput that come next in todo[p]: iunlockput(ip) is two entries and   *)
(* an iput that frees the inode three.  What is written lives in the       *)
(* transaction the call is in (module Log).                                *)
(***************************************************************************)
EXTENDS Integers, Sequences, FiniteSets, FiniteSetsExt, SequencesExt

CONSTANTS
  Proc,        \* the processes
  NINODES,     \* how many inodes are on the disk, the root included
  NINODE,      \* how many the cache holds
  NFILE,       \* how many open files there are
  Block,       \* the blocks for the contents of files
  MAXFILE,     \* how many blocks a file can have
  Name,        \* file names other than "." and ".."
  Start,       \* where the system begins, see Init
  Calls,       \* the system calls with a path that processes make
  Fd,          \* the descriptors of a process
  MaxCalls     \* bound on the number of system calls

ROOTINO == 1
Inum == 1..NINODES
Slot == 1..NINODE
File == 1..NFILE
Element == Name \cup {".", ".."}

ASSUME FileSysAssumption ==
  /\ NINODES \in Nat \ {0} /\ NINODE \in Nat \ {0}
  /\ NFILE \in Nat /\ MAXFILE \in Nat /\ MaxCalls \in Nat
  /\ Fd \subseteq Nat

VARIABLES
  dinode,      \* dinode[i]: type, nlink and blocks of inode i on the disk
  dir,         \* dir[i][e]: the inode number of entry e of directory i, or 0
  used,        \* the blocks the bitmap says are in use
  icache,      \* icache[k]: struct inode
  file,        \* file[f]: struct file
  ofile,       \* ofile[p][fd]: the open file, or 0
  cwd,         \* cwd[p]: the current directory
  pc, todo,    \* what process p does when todo[p] is done, and todo[p]
  local,       \* local[p]: its local variables
  panicked,    \* why the kernel panicked, or ""
  ncalls,      \* history: how many system calls were made
  strays       \* history: inodes that got a link in a directory without one

fsVars == <<dinode, dir, used, icache>>
fileVars == <<file, ofile>>
vars == <<fsVars, fileVars, cwd, pc, todo, local, panicked, ncalls, strays>>

NoDirents == [e \in Element |-> 0]
FreeInode == [type |-> "free", nlink |-> 0, blocks |-> <<>>]
NoInode == [inum |-> 0, ref |-> 0, busy |-> FALSE, valid |-> FALSE, copy |-> FreeInode]
NoFile == [ref |-> 0, type |-> "none", ip |-> 0, writable |-> FALSE, off |-> 0]

\* The call p makes with the path elements still to be looked up, and its inodes:
\* old is the one sys_link() makes a link to, and up says that the path led through
\* the ".." of a directory that is no longer in the tree.
NoLocal == [op |-> "none", path |-> <<>>, new |-> <<>>, write |-> FALSE,
            ip |-> 0, dp |-> 0, old |-> 0, file |-> 0, up |-> FALSE]

\* What a new file of the disk image holds.
Contents(type) == IF type = "file" THEN <<Min(Block)>> ELSE <<>>

\* The disk has the inodes s.node, each with a type, a name and the directory it is
\* in; s.cached is the inodes in the cache.  The processes there are yet are in
\* the directories s.cwd, and share descriptor 0 if s.open is not 0.
Init ==
  \E s \in Start :
    LET N == DOMAIN s.node
        Subdirs(i) == {j \in N \ {i} : s.node[j].type = "dir" /\ s.node[j].parent = i}
        Named(i, e) == {j \in N \ {ROOTINO} : s.node[j].parent = i /\ s.node[j].name = e}
        disk == [i \in Inum |->
          IF i \in N THEN [type |-> s.node[i].type, nlink |-> 1 + Cardinality(Subdirs(i)),
                          blocks |-> Contents(s.node[i].type)]
          ELSE FreeInode]
        born == {p \in Proc : s.cwd[p] /= 0}
        sharers == IF s.open = 0 THEN {} ELSE born
    IN
    /\ dinode = disk
    /\ dir = [i \in Inum |-> [e \in Element |->
         CASE disk[i].type /= "dir" -> 0
           [] disk[i].type = "dir" /\ e = "." -> i
           [] disk[i].type = "dir" /\ e = ".." -> s.node[i].parent
           [] OTHER -> Max({0} \cup Named(i, e))]]
    /\ used = UNION {ToSet(disk[i].blocks) : i \in N}
    /\ icache = [k \in Slot |->
         IF k \in DOMAIN s.cached
         THEN [inum |-> s.cached[k], busy |-> FALSE, valid |-> TRUE, copy |-> disk[s.cached[k]],
               ref |-> Cardinality({p \in born : s.cwd[p] = k}) + IF s.open = k THEN 1 ELSE 0]
         ELSE NoInode]
    /\ cwd = s.cwd
    /\ pc = [p \in Proc |-> IF p \in born THEN "idle" ELSE "unborn"]
    /\ ofile = [p \in Proc |-> [fd \in Fd |-> IF fd = 0 /\ p \in sharers THEN 1 ELSE 0]]
    /\ file = [f \in File |->
         IF f = 1 /\ s.open /= 0
         THEN [ref |-> Cardinality(sharers), type |-> "inode", ip |-> s.open, writable |-> TRUE, off |-> 0]
         ELSE NoFile]
    /\ todo = [p \in Proc |-> <<>>]
    /\ local = [p \in Proc |-> NoLocal]
    /\ panicked = "" /\ ncalls = 0 /\ strays = {}

-----------------------------------------------------------------------------

(* The inode cache. *)

\* A panic stops the kernel.
Panic(why) ==
  /\ panicked' = why
  /\ UNCHANGED <<fsVars, fileVars, cwd, pc, todo, local, ncalls, strays>>

\* iget(): the slot of inode i, the first empty one, or 0.
IgetSlot(i) ==
  LET cached == {k \in Slot : icache[k].ref > 0 /\ icache[k].inum = i}
      empty == {k \in Slot : icache[k].ref = 0}
  IN  IF cached /= {} THEN Min(cached) ELSE IF empty /= {} THEN Min(empty) ELSE 0

\* iget(): the cache with one more reference to inode i.
Iget(i) ==
  [icache EXCEPT ![IgetSlot(i)] = IF @.ref > 0 THEN [@ EXCEPT !.ref = @ + 1]
                                  ELSE [NoInode EXCEPT !.inum = i, !.ref = 1]]

\* The step of p that is next is op on slot k.
Doing(p, op, k) == panicked = "" /\ todo[p] /= <<>> /\ Head(todo[p]) = <<op, k>>

Done(p) ==
  /\ todo' = [todo EXCEPT ![p] = Tail(@)]
  /\ UNCHANGED <<fileVars, cwd, pc, local, panicked, ncalls>>

\* ilock(): wait until the inode is not busy and read it from the disk.
Ilock(p, k) ==
  /\ Doing(p, "lock", k)
  /\ ~icache[k].busy \/ icache[k].ref < 1
  /\ IF icache[k].ref < 1 THEN Panic("ilock")
     ELSE IF ~icache[k].valid /\ dinode[icache[k].inum].type = "free"
     THEN Panic("ilock: no type")
     ELSE /\ icache' = [icache EXCEPT ![k].busy = TRUE, ![k].valid = TRUE,
                                      ![k].copy = IF icache[k].valid THEN @ ELSE dinode[icache[k].inum]]
          /\ Done(p)
          /\ UNCHANGED <<dinode, dir, used, strays>>

\* iunlock().
Iunlock(p, k) ==
  /\ Doing(p, "unlock", k)
  /\ IF ~icache[k].busy \/ icache[k].ref < 1
     THEN Panic("iunlock")
     ELSE /\ icache' = [icache EXCEPT ![k].busy = FALSE]
          /\ Done(p)
          /\ UNCHANGED <<dinode, dir, used, strays>>

\* Faults: iput() does not look at the links, or at the other references.
LastReference(k) == icache[k].ref = 1 /\ icache[k].valid
LastLink(k) == icache[k].valid /\ icache[k].copy.nlink = 0

\* iput() has to free the inode.
MustFree(k) == icache[k].ref = 1 /\ icache[k].valid /\ icache[k].copy.nlink = 0

\* iput(), up to the first release of icache.lock.
Iput(p, k) ==
  /\ Doing(p, "put", k)
  /\ IF MustFree(k)
     THEN IF icache[k].busy THEN Panic("iput busy")
          ELSE /\ icache' = [icache EXCEPT ![k].busy = TRUE]
               /\ todo' = [todo EXCEPT ![p] = <<<<"trunc", k>>, <<"free", k>>, <<"clear", k>>>> \o Tail(@)]
               /\ UNCHANGED <<dinode, dir, used, fileVars, cwd, pc, local, panicked, ncalls, strays>>
     ELSE /\ icache' = [icache EXCEPT ![k].ref = @ - 1]
          /\ Done(p)
          /\ UNCHANGED <<dinode, dir, used, strays>>

\* The bitmap after itrunc() has called bfree() for each block.
Truncated(k) == used \ ToSet(icache[k].copy.blocks)

\* iput() without the lock: itrunc() frees the blocks, ...
IputTrunc(p, k) ==
  /\ Doing(p, "trunc", k)
  /\ IF ~(ToSet(icache[k].copy.blocks) \subseteq used) THEN Panic("freeing free block")
     ELSE /\ used' = Truncated(k)
          /\ dir' = [dir EXCEPT ![icache[k].inum] = NoDirents]
          /\ icache' = [icache EXCEPT ![k].copy.blocks = <<>>]
          /\ Done(p)
          /\ UNCHANGED <<dinode, strays>>

\* ... and with ip->type = 0 the inode is free; itrunc() ended with an iupdate() too.
IputFree(p, k) ==
  /\ Doing(p, "free", k)
  /\ icache' = [icache EXCEPT ![k].copy = FreeInode]
  /\ dinode' = [dinode EXCEPT ![icache[k].inum] = FreeInode]
  /\ strays' = strays \ {icache[k].inum}
  /\ Done(p)
  /\ UNCHANGED <<dir, used>>

\* Fault: the entry of a freed inode stays valid.
KeptValid(k) == [icache EXCEPT ![k].busy = FALSE, ![k].ref = @ - 1]

\* ip->flags = 0 and ip->ref--.
Cleared(k) == [icache EXCEPT ![k].busy = FALSE, ![k].valid = FALSE, ![k].ref = @ - 1]

\* The second critical section of iput().
IputClear(p, k) ==
  /\ Doing(p, "clear", k)
  /\ icache' = Cleared(k)
  /\ Done(p)
  /\ UNCHANGED <<dinode, dir, used, strays>>

-----------------------------------------------------------------------------

(* Path lookup. *)

\* Process p is to go on at a with nothing left to do.
At(p, a) == panicked = "" /\ pc[p] = a /\ todo[p] = <<>>

\* Process p does ops and then goes on at a with local variables l.
Goto(p, ops, a, l) ==
  /\ todo' = [todo EXCEPT ![p] = ops]
  /\ pc' = [pc EXCEPT ![p] = a]
  /\ local' = [local EXCEPT ![p] = l]

\* The call is over once ops are done.
Return(p, ops) == Goto(p, ops, "idle", NoLocal)

Lock(k) == <<<<"lock", k>>>>
Unlock(k) == <<<<"unlock", k>>>>
Put(k) == <<<<"put", k>>>>
UnlockPut(k) == Unlock(k) \o Put(k)

\* The calls that look for the directory of the last element.
Parent(l) == l.op \in {"creat", "mkdir", "mknod", "unlink"} \/ l.old /= 0

\* namei() or nameiparent() succeeded with the inode in slot k; every caller locks it.
Found(p, l, ops, k) ==
  Goto(p, ops \o Lock(k),
       CASE l.op \in {"creat", "mkdir", "mknod"} -> "create"
         [] l.op = "link" /\ l.old /= 0 -> "dirlink"
         [] OTHER -> l.op,
       IF Parent(l) THEN [l EXCEPT !.ip = 0, !.dp = k] ELSE [l EXCEPT !.ip = k])

\* namex() or dirlink() failed: sys_link() has to take back the link it counted.
Fail(p, l, ops) ==
  IF l.old /= 0 THEN Goto(p, ops \o Lock(l.old), "bad", l) ELSE Return(p, ops)

\* namex() begins at the root or at the current directory.
NamexStart(p, l, n) ==
  LET absolute == l.path /= <<>> /\ Head(l.path) = "/"
      start == IF absolute THEN IgetSlot(ROOTINO) ELSE cwd[p]
      begun == [l EXCEPT !.path = IF absolute THEN Tail(l.path) ELSE l.path, !.ip = start]
  IN  IF start = 0 THEN Panic("iget: no inodes")
      ELSE /\ icache' = IF absolute THEN Iget(ROOTINO) ELSE [icache EXCEPT ![start].ref = @ + 1]
           /\ CASE begun.path /= <<>> -> Goto(p, Lock(start), "walk", begun)
                [] begun.path = <<>> /\ Parent(l) -> Fail(p, l, Put(start))
                [] OTHER -> Found(p, begun, <<>>, start)
           /\ ncalls' = n
           /\ UNCHANGED <<dinode, dir, used, fileVars, cwd, panicked, strays>>

\* The directory in slot k is no longer in the tree, or was put into one that was not.
Removed(k) == icache[k].copy.nlink = 0 \/ icache[k].inum \in strays

\* One round of namex()'s loop, with ip locked.
Walk(p) ==
  LET l == local[p]
      i == dir[icache[l.ip].inum][Head(l.path)]
      next == IgetSlot(i)
      l2 == [l EXCEPT !.path = Tail(@), !.ip = next,
                      !.up = @ \/ (Head(l.path) = ".." /\ Removed(l.ip))]
  IN
  /\ At(p, "walk")
  /\ IF icache[l.ip].copy.type = "dir" /\ ~(Parent(l) /\ Len(l.path) = 1) /\ i /= 0
     THEN IF next = 0 THEN Panic("iget: no inodes")
          ELSE /\ icache' = Iget(i)
               /\ IF l2.path = <<>> THEN Found(p, l2, UnlockPut(l.ip), next)
                  ELSE Goto(p, UnlockPut(l.ip) \o Lock(next), "walk", l2)
               /\ UNCHANGED <<dinode, dir, used, fileVars, cwd, panicked, ncalls, strays>>
     ELSE /\ IF icache[l.ip].copy.type = "dir" /\ Parent(l) /\ Len(l.path) = 1
             THEN Found(p, l, Unlock(l.ip), l.ip)
             ELSE Fail(p, l, UnlockPut(l.ip))
          /\ UNCHANGED <<fsVars, fileVars, cwd, panicked, ncalls, strays>>

\* A system call with a path is made.
Syscall(p, c) ==
  /\ At(p, "idle")
  /\ ncalls < MaxCalls
  /\ NamexStart(p, c, ncalls + 1)

-----------------------------------------------------------------------------

(* The system calls, with the inodes they work on locked. *)

\* The last element of the path and the inode the directory has for it.
LastName(p) == Head(local[p].path)
Entry(p) == dir[icache[local[p].dp].inum][LastName(p)]

\* The panic that dirlookup() of that element ends in, or "".
LookupPanic(p) ==
  CASE icache[local[p].dp].copy.type /= "dir" -> "dirlookup not DIR"
    [] Entry(p) /= 0 /\ IgetSlot(Entry(p)) = 0 -> "iget: no inodes"
    [] OTHER -> ""

\* The strays once the directory in slot k has an entry for inode i.
Strays(k, i) == IF icache[k].copy.nlink = 0 THEN strays \cup {i, icache[k].inum} ELSE strays

\* The cache and the disk after nlink changed by n[k] for each k and iupdate().
Relinked(n) ==
  /\ icache' = [k \in Slot |-> IF k \in DOMAIN n THEN [icache[k] EXCEPT !.copy.nlink = @ + n[k]]
                               ELSE icache[k]]
  /\ dinode' = [i \in Inum |-> IF \E k \in DOMAIN n : icache[k].inum = i
                               THEN icache'[CHOOSE k \in DOMAIN n : icache[k].inum = i].copy
                               ELSE dinode[i]]

\* The struct file that filealloc() takes, and the descriptor that fdalloc() does:
\* sets of one, or empty.
Filealloc == {f \in File : file[f].ref = 0 /\ \A g \in File : g < f => file[g].ref > 0}
Fdalloc(p) == {fd \in Fd : ofile[p][fd] = 0 /\ \A x \in Fd : x < fd => ofile[p][x] /= 0}

\* sys_open() with ip locked: a struct file and a descriptor, or neither.
OpenFd(p, l) ==
  /\ IF Filealloc = {} \/ Fdalloc(p) = {}
     THEN Return(p, UnlockPut(l.ip)) /\ UNCHANGED fileVars
     ELSE \E f \in Filealloc, fd \in Fdalloc(p) :
            /\ file' = [file EXCEPT ![f].ref = 1]
            /\ ofile' = [ofile EXCEPT ![p][fd] = f]
            /\ Goto(p, Unlock(l.ip), "opened", [l EXCEPT !.file = f])
  /\ UNCHANGED <<fsVars, cwd, panicked, ncalls, strays>>

\* sys_open() without O_CREATE.
Open(p) ==
  LET l == local[p] IN
  /\ At(p, "open")
  /\ IF icache[l.ip].copy.type = "dir" /\ l.write
     THEN Return(p, UnlockPut(l.ip)) /\ UNCHANGED <<fsVars, fileVars, cwd, panicked, ncalls, strays>>
     ELSE OpenFd(p, l)

\* sys_open() after create() returned.
OpenCreated(p) == At(p, "created") /\ OpenFd(p, local[p])

\* The end of sys_open().
Opened(p) ==
  LET l == local[p] IN
  /\ At(p, "opened")
  /\ file' = [file EXCEPT ![l.file].type = "inode", ![l.file].ip = l.ip, ![l.file].writable = l.write, ![l.file].off = 0]
  /\ Return(p, <<>>)
  /\ UNCHANGED <<fsVars, ofile, cwd, panicked, ncalls, strays>>

\* What sys_open(), sys_mkdir() and sys_mknod() ask create() for.
NewType(op) == CASE op = "creat" -> "file" [] op = "mkdir" -> "dir" [] op = "mknod" -> "dev"

\* create(): take the inode that is there, or ialloc() the first free one.
Create(p) ==
  LET l == local[p]
      i == Entry(p)
      free == {j \in Inum : dinode[j].type = "free"}
  IN
  /\ At(p, "create")
  /\ CASE LookupPanic(p) /= "" -> Panic(LookupPanic(p))
       [] LookupPanic(p) = "" /\ i /= 0 ->
            /\ icache' = Iget(i)
            /\ Goto(p, UnlockPut(l.dp) \o Lock(IgetSlot(i)), "exists", [l EXCEPT !.dp = 0, !.ip = IgetSlot(i)])
            /\ UNCHANGED <<dinode, dir, used, fileVars, cwd, panicked, ncalls, strays>>
       [] OTHER ->
            IF free = {} THEN Panic("ialloc: no inodes")
            ELSE /\ dinode' = [dinode EXCEPT ![Min(free)] = [FreeInode EXCEPT !.type = NewType(l.op)]]
                 /\ Goto(p, <<>>, "ialloc", [l EXCEPT !.ip = Min(free)])
                 /\ UNCHANGED <<dir, used, icache, fileVars, cwd, panicked, ncalls, strays>>

\* create() with the inode of an existing name locked.
CreateExists(p) ==
  LET l == local[p] IN
  /\ At(p, "exists")
  /\ IF l.op = "creat" /\ icache[l.ip].copy.type = "file" THEN OpenFd(p, l)
     ELSE Return(p, UnlockPut(l.ip)) /\ UNCHANGED <<fsVars, fileVars, cwd, panicked, ncalls, strays>>

\* ialloc() returns iget(dev, inum), and create() locks the inode.
CreateIget(p) ==
  LET l == local[p] IN
  /\ At(p, "ialloc")
  /\ IF IgetSlot(l.ip) = 0 THEN Panic("iget: no inodes")
     ELSE /\ icache' = Iget(l.ip)
          /\ Goto(p, Lock(IgetSlot(l.ip)), "init", [l EXCEPT !.ip = IgetSlot(l.ip)])
          /\ UNCHANGED <<dinode, dir, used, fileVars, cwd, panicked, ncalls, strays>>

\* The rest of create(): links, dots and the entry in dp.
CreateInit(p) ==
  LET l == local[p]
      i == icache[l.ip].inum
      j == icache[l.dp].inum
  IN
  /\ At(p, "init")
  /\ IF l.op = "mkdir" /\ (dir[i]["."] /= 0 \/ dir[i][".."] /= 0) THEN Panic("create dots")
     ELSE IF Entry(p) /= 0 THEN Panic("create: dirlink")
     ELSE /\ Relinked([k \in {l.ip, l.dp} |-> IF k = l.ip THEN 1 - icache[k].copy.nlink
                                               ELSE IF l.op = "mkdir" THEN 1 ELSE 0])
          /\ dir' = IF l.op = "mkdir"
                    THEN [dir EXCEPT ![j][LastName(p)] = i, ![i]["."] = i, ![i][".."] = j]
                    ELSE [dir EXCEPT ![j][LastName(p)] = i]
          /\ strays' = Strays(l.dp, i)
          /\ IF l.op = "creat" THEN Goto(p, UnlockPut(l.dp), "created", [l EXCEPT !.dp = 0, !.path = <<>>])
             ELSE Return(p, UnlockPut(l.dp) \o UnlockPut(l.ip))
          /\ UNCHANGED <<used, fileVars, cwd, panicked, ncalls>>

\* sys_unlink() with dp locked: find the inode and lock it too.
Unlink(p) ==
  LET l == local[p] IN
  /\ At(p, "unlink")
  /\ IF LastName(p) \notin {".", ".."} /\ LookupPanic(p) /= "" THEN Panic(LookupPanic(p))
     ELSE /\ IF LastName(p) \in {".", ".."} \/ Entry(p) = 0
             THEN Return(p, UnlockPut(l.dp)) /\ UNCHANGED icache
             ELSE /\ icache' = Iget(Entry(p))
                  /\ Goto(p, Lock(IgetSlot(Entry(p))), "unlink ip", [l EXCEPT !.ip = IgetSlot(Entry(p))])
          /\ UNCHANGED <<dinode, dir, used, fileVars, cwd, panicked, ncalls, strays>>

\* Fault: isdirempty() finds every directory empty.
AnyDir(i) == TRUE

\* isdirempty(): nothing but the dots.
IsDirEmpty(i) == \A e \in Name : dir[i][e] = 0

\* sys_unlink() with both locked, up to the release of dp.
UnlinkEntry(p) ==
  LET l == local[p]
      isDir == icache[l.ip].copy.type = "dir"
  IN
  /\ At(p, "unlink ip")
  /\ IF icache[l.ip].copy.nlink < 1 THEN Panic("unlink: nlink < 1")
     ELSE /\ IF isDir /\ ~IsDirEmpty(icache[l.ip].inum)
             THEN /\ Return(p, UnlockPut(l.ip) \o UnlockPut(l.dp))
                  /\ UNCHANGED <<icache, dinode, dir>>
             ELSE /\ dir' = [dir EXCEPT ![icache[l.dp].inum][LastName(p)] = 0]
                  /\ Relinked([k \in {l.dp} |-> IF isDir THEN -1 ELSE 0])
                  /\ Goto(p, UnlockPut(l.dp), "unlink done", [l EXCEPT !.dp = 0, !.path = <<>>])
          /\ UNCHANGED <<used, fileVars, cwd, panicked, ncalls, strays>>

\* The rest of sys_unlink().
UnlinkDone(p) ==
  /\ At(p, "unlink done")
  /\ Relinked([k \in {local[p].ip} |-> -1])
  /\ Return(p, UnlockPut(local[p].ip))
  /\ UNCHANGED <<dir, used, fileVars, cwd, panicked, ncalls, strays>>

\* sys_link() with the inode of the old path locked.
Link(p) ==
  LET l == local[p] IN
  /\ At(p, "link")
  /\ IF icache[l.ip].copy.type = "dir"
     THEN Return(p, UnlockPut(l.ip)) /\ UNCHANGED <<icache, dinode>>
     ELSE /\ Relinked([k \in {l.ip} |-> 1])
          /\ Goto(p, Unlock(l.ip), "link new", [l EXCEPT !.old = l.ip])
  /\ UNCHANGED <<dir, used, fileVars, cwd, panicked, ncalls, strays>>

\* sys_link() looks up the directory of the new path.
LinkNew(p) ==
  /\ At(p, "link new")
  /\ NamexStart(p, [local[p] EXCEPT !.path = local[p].new, !.new = <<>>], ncalls)

\* dirlink() by sys_link(), with dp locked.
Dirlink(p) ==
  LET l == local[p]
      i == icache[l.old].inum
  IN
  /\ At(p, "dirlink")
  /\ IF LookupPanic(p) /= "" THEN Panic(LookupPanic(p))
     ELSE /\ IF Entry(p) /= 0
             THEN /\ icache' = Iget(Entry(p))
                  /\ Fail(p, l, Put(IgetSlot(Entry(p))) \o UnlockPut(l.dp))
                  /\ UNCHANGED <<dir, strays>>
             ELSE /\ dir' = [dir EXCEPT ![icache[l.dp].inum][LastName(p)] = i]
                  /\ strays' = Strays(l.dp, i)
                  /\ Return(p, UnlockPut(l.dp) \o Put(l.old))
                  /\ UNCHANGED icache
          /\ UNCHANGED <<dinode, used, fileVars, cwd, panicked, ncalls>>

\* The label bad of sys_link().
LinkBad(p) ==
  /\ At(p, "bad")
  /\ Relinked([k \in {local[p].old} |-> -1])
  /\ Return(p, UnlockPut(local[p].old))
  /\ UNCHANGED <<dir, used, fileVars, cwd, panicked, ncalls, strays>>

\* sys_chdir() with the inode locked, and its end.
Chdir(p) ==
  LET l == local[p] IN
  /\ At(p, "chdir")
  /\ IF icache[l.ip].copy.type /= "dir" THEN Return(p, UnlockPut(l.ip))
     ELSE Goto(p, Unlock(l.ip) \o Put(cwd[p]), "chdir done", l)
  /\ UNCHANGED <<fsVars, fileVars, cwd, panicked, ncalls, strays>>

ChdirDone(p) ==
  /\ At(p, "chdir done")
  /\ cwd' = [cwd EXCEPT ![p] = local[p].ip]
  /\ Return(p, <<>>)
  /\ UNCHANGED <<fsVars, fileVars, panicked, ncalls, strays>>

-----------------------------------------------------------------------------

(* The system calls on descriptors. *)

\* A call on an open descriptor is made.
FdCall(p, fd) ==
  /\ At(p, "idle")
  /\ ncalls < MaxCalls
  /\ ofile[p][fd] /= 0

\* A descriptor of p stands for a struct file without a reference.
Unheld(p, fd) == ofile[p][fd] /= 0 /\ file[ofile[p][fd]].ref < 1

\* sys_dup() and filedup().
Dup(p, fd) ==
  /\ FdCall(p, fd)
  /\ Fdalloc(p) /= {}
  /\ IF Unheld(p, fd) THEN Panic("filedup")
     ELSE /\ ncalls' = ncalls + 1
          /\ \E new \in Fdalloc(p) : ofile' = [ofile EXCEPT ![p][new] = ofile[p][fd]]
          /\ file' = [file EXCEPT ![ofile[p][fd]].ref = @ + 1]
          /\ UNCHANGED <<fsVars, cwd, pc, todo, local, panicked, strays>>

\* Fault: fileclose() forgets the inode.
CloseRestNone(f) == <<>>

\* What fileclose() leaves to do after it gave up ftable.lock.
CloseRest(f) == IF file[f].ref = 1 THEN Put(file[f].ip) ELSE <<>>

\* fileclose() of the file of descriptor fd.
Fileclose(p, fd) ==
  LET f == ofile[p][fd] IN
  /\ ofile' = [ofile EXCEPT ![p][fd] = 0]
  /\ file' = [file EXCEPT ![f] = IF @.ref = 1 THEN NoFile ELSE [@ EXCEPT !.ref = @ - 1]]

\* sys_close().
Close(p, fd) ==
  /\ FdCall(p, fd)
  /\ IF Unheld(p, fd) THEN Panic("fileclose")
     ELSE /\ ncalls' = ncalls + 1
          /\ Fileclose(p, fd)
          /\ Return(p, CloseRest(ofile[p][fd]))
          /\ UNCHANGED <<fsVars, cwd, panicked, strays>>

\* sys_read() and sys_write() up to ilock(), and then readi() or writei() of a block.
Access(p, fd, op) ==
  LET f == ofile[p][fd] IN
  /\ FdCall(p, fd)
  /\ ncalls' = ncalls + 1
  /\ Goto(p, Lock(file[f].ip), op, [NoLocal EXCEPT !.ip = file[f].ip, !.file = f])
  /\ UNCHANGED <<fsVars, fileVars, cwd, panicked, strays>>

Read(p, fd) == Access(p, fd, "read")
Write(p, fd) == Access(p, fd, "write") /\ file[ofile[p][fd]].writable

\* The offset moves on by what was read; a device has none.
ReadBlock(p) ==
  LET l == local[p] IN
  /\ At(p, "read")
  /\ file' = [file EXCEPT ![l.file].off =
                IF icache[l.ip].copy.type /= "dev" /\ @ < Len(icache[l.ip].copy.blocks) THEN @ + 1 ELSE @]
  /\ Return(p, Unlock(l.ip))
  /\ UNCHANGED <<fsVars, ofile, cwd, panicked, ncalls, strays>>

\* Fault: balloc() finds the block and does not mark it.
Unmarked(b) == used

\* The bitmap with the block balloc() chose.
Marked(b) == used \cup {b}

\* bmap() for block n of the inode: its blocks afterwards, allocating if necessary.
Bmap(blocks, n) == IF n < Len(blocks) THEN blocks ELSE Append(blocks, Min(Block \ used))

\* writei() of one block at the offset, up to the new size.
WriteBlock(p) ==
  LET l == local[p]
      old == icache[l.ip].copy
      off == file[l.file].off
      blocks == Bmap(old.blocks, off)
  IN
  /\ At(p, "write")
  /\ CASE old.type = "dev" \/ off > Len(old.blocks) \/ off + 1 > MAXFILE ->
            /\ Return(p, Unlock(l.ip))
            /\ UNCHANGED <<fsVars, fileVars, cwd, panicked, ncalls, strays>>
       [] old.type /= "dev" /\ off = Len(old.blocks) /\ off < MAXFILE /\ used = Block ->
            Panic("balloc: out of blocks")
       [] OTHER ->
            /\ used' = IF blocks = old.blocks THEN used ELSE Marked(blocks[off + 1])
            /\ icache' = [icache EXCEPT ![l.ip].copy.blocks = blocks]
            /\ Goto(p, <<>>, "written", l)
            /\ UNCHANGED <<dinode, dir, fileVars, cwd, panicked, ncalls, strays>>

\* The iupdate() of writei(), and filewrite() moves the offset on.
WriteDone(p) ==
  LET l == local[p] IN
  /\ At(p, "written")
  /\ dinode' = [dinode EXCEPT ![icache[l.ip].inum] = icache[l.ip].copy]
  /\ file' = [file EXCEPT ![l.file].off = @ + 1]
  /\ Return(p, Unlock(l.ip))
  /\ UNCHANGED <<dir, used, icache, ofile, cwd, panicked, ncalls, strays>>

-----------------------------------------------------------------------------

(* What fork() and exit() do with files. *)

\* fork() copies the descriptors with filedup() and the directory with idup(); p
\* holds a reference to each of them all the while.
Fork(p, q) ==
  /\ At(p, "idle") /\ At(q, "unborn")
  /\ ncalls < MaxCalls
  /\ IF \E fd \in Fd : Unheld(p, fd) THEN Panic("filedup")
     ELSE /\ ncalls' = ncalls + 1
          /\ ofile' = [ofile EXCEPT ![q] = ofile[p]]
          /\ file' = [f \in File |->
               [file[f] EXCEPT !.ref = @ + Cardinality({fd \in Fd : ofile[p][fd] = f})]]
          /\ cwd' = [cwd EXCEPT ![q] = cwd[p]]
          /\ icache' = [icache EXCEPT ![cwd[p]].ref = @ + 1]
          /\ pc' = [pc EXCEPT ![q] = "idle"]
          /\ UNCHANGED <<dinode, dir, used, todo, local, panicked, strays>>

\* exit() closes one descriptor after the other, and then gives the directory back.
Exit(p) ==
  /\ At(p, "idle")
  /\ ncalls < MaxCalls
  /\ ncalls' = ncalls + 1
  /\ Goto(p, <<>>, "exit", NoLocal)
  /\ UNCHANGED <<fsVars, fileVars, cwd, panicked, strays>>

ExitClose(p) ==
  /\ At(p, "exit")
  /\ \E fd \in Fd :
       /\ ofile[p][fd] /= 0
       /\ \A x \in Fd : x < fd => ofile[p][x] = 0
       /\ IF Unheld(p, fd) THEN Panic("fileclose")
          ELSE /\ Fileclose(p, fd)
               /\ Goto(p, CloseRest(ofile[p][fd]), "exit", NoLocal)
               /\ UNCHANGED <<fsVars, cwd, panicked, ncalls, strays>>

ExitCwd(p) ==
  /\ At(p, "exit")
  /\ \A fd \in Fd : ofile[p][fd] = 0
  /\ Goto(p, Put(cwd[p]), "unborn", NoLocal)
  /\ cwd' = [cwd EXCEPT ![p] = 0]
  /\ UNCHANGED <<fsVars, fileVars, panicked, ncalls, strays>>

Quiet == \A p \in Proc : pc[p] \in {"idle", "unborn"} /\ todo[p] = <<>>

\* The kernel has panicked, or all calls are made and done.
Stopped ==
  /\ panicked /= "" \/ (Quiet /\ (ncalls = MaxCalls \/ \A p \in Proc : pc[p] = "unborn"))
  /\ UNCHANGED vars

Next ==
  \/ \E p \in Proc, k \in Slot :
       \/ Ilock(p, k) \/ Iunlock(p, k)
       \/ Iput(p, k) \/ IputTrunc(p, k) \/ IputFree(p, k) \/ IputClear(p, k)
  \/ \E p \in Proc :
       \/ \E c \in Calls : Syscall(p, c)
       \/ \E fd \in Fd : Dup(p, fd) \/ Close(p, fd) \/ Read(p, fd) \/ Write(p, fd)
       \/ Walk(p) \/ Open(p) \/ OpenCreated(p) \/ Opened(p)
       \/ Create(p) \/ CreateExists(p) \/ CreateIget(p) \/ CreateInit(p)
       \/ Unlink(p) \/ UnlinkEntry(p) \/ UnlinkDone(p)
       \/ Link(p) \/ LinkNew(p) \/ Dirlink(p) \/ LinkBad(p)
       \/ Chdir(p) \/ ChdirDone(p) \/ ReadBlock(p) \/ WriteBlock(p) \/ WriteDone(p)
       \/ \E q \in Proc : Fork(p, q)
       \/ Exit(p) \/ ExitClose(p) \/ ExitCwd(p)
  \/ Stopped

Spec == Init /\ [][Next]_vars

-----------------------------------------------------------------------------

\* The entries other than dots that name inode i.
Entries(i) == {<<j, e>> \in Inum \X Name : dir[j][e] = i}

\* The inodes that open files and current directories stand for.  chdir() has
\* given the old directory back before it assigns the new one.
InUse ==
  {file[f].ip : f \in {g \in File : file[g].type = "inode"}}
    \cup {cwd[p] : p \in {q \in Proc : pc[q] \notin {"chdir done", "unborn"}}}

\* No inode is freed under its users: what a directory names, a process has open
\* or is in, is allocated, and the links are never fewer than the names.
NothingFreedInUse ==
  /\ \A k \in InUse : icache[k].ref > 0 /\ dinode[icache[k].inum].type /= "free"
  /\ \A i \in Inum : Entries(i) /= {} => /\ dinode[i].type /= "free"
                                         /\ dinode[i].nlink >= Cardinality(Entries(i))

\* An inode has one entry in the cache, and whoever locks a valid one sees what
\* is on the disk, also when the number was freed and given out again.
CacheCoherent ==
  /\ \A k, m \in Slot : /\ icache[k].ref > 0 /\ icache[m].ref > 0
                         /\ icache[k].inum = icache[m].inum => k = m
  /\ \A k \in Slot : icache[k].ref > 0 /\ icache[k].valid /\ ~icache[k].busy =>
                        icache[k].copy = dinode[icache[k].inum]

\* The blocks of inode i, as whoever has it locked knows them.
Blocks(i) ==
  LET locked == {k \in Slot : icache[k].inum = i /\ icache[k].busy}
  IN  IF locked = {} THEN dinode[i].blocks ELSE icache[Min(locked)].copy.blocks

\* A block belongs to one inode, and the bitmap has exactly the blocks of inodes,
\* also between the steps in which a block changes hands.
BlocksOwned ==
  /\ \A i, j \in Inum : i /= j => ToSet(Blocks(i)) \cap ToSet(Blocks(j)) = {}
  /\ used = UNION {ToSet(Blocks(i)) : i \in Inum}

\* When no call is under way every reference is an open file or a current
\* directory, nothing is locked, and an inode without links is in use.
NothingLeaked ==
  Quiet /\ panicked = "" =>
    /\ \A k \in Slot :
         /\ icache[k].ref = Cardinality({p \in Proc : cwd[p] = k})
                              + Cardinality({f \in File : file[f].type = "inode" /\ file[f].ip = k})
         /\ ~icache[k].busy
    /\ \A i \in Inum : dinode[i].type /= "free" /\ dinode[i].nlink = 0 =>
                        \E k \in InUse : icache[k].inum = i
    /\ \A f \in File : file[f].ref = Cardinality({x \in Proc \X Fd : ofile[x[1]][x[2]] = f})

\* When no call is under way nlink is the "number of links to inode in file
\* system": the names, for a directory the ".." of its directories, and one for
\* the root.  The exception are inodes put into a directory that another process
\* removed between nameiparent() and ilock().
LinksExact ==
  Quiet /\ panicked = "" =>
    \A i \in Inum \ strays :
      dinode[i].type /= "free" =>
        dinode[i].nlink =
          Cardinality(Entries(i))
          + Cardinality({j \in Inum \ (strays \cup {i}) : dir[j][".."] = i /\ dinode[j].nlink > 0})
          + IF i = ROOTINO THEN 1 ELSE 0

\* The kernel only panics when it runs out of inodes, blocks or cache entries, or over
\* the parent of a removed directory: ".." keeps its number when it is freed.  No
\* reference, lock, link or block is ever given back twice.
NoPanic ==
  CASE panicked = "" -> TRUE
    [] panicked = "ialloc: no inodes" -> \A i \in Inum : dinode[i].type /= "free"
    [] panicked = "balloc: out of blocks" -> used = Block
    [] panicked = "iget: no inodes" -> \A k \in Slot : icache[k].ref > 0
    [] panicked = "ilock: no type" ->
         \E p \in Proc, k \in Slot : local[p].up /\ todo[p] /= <<>> /\ Head(todo[p]) = <<"lock", k>>
    [] OTHER -> FALSE

=============================================================================
