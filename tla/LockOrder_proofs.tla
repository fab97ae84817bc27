-------------------------- MODULE LockOrder_proofs --------------------------
(***************************************************************************)
(* What LockOrder promises, for any set of CPUs.  The argument is about    *)
(* single paths: Good is the largest set of pairs <<h, t>> such that a CPU *)
(* that holds h with t ahead of it keeps to the lock order (MayAcquire),   *)
(* meets sched() with ptable.lock alone and ends with no lock.  Takes is   *)
(* the calculus with which every footprint is shown to keep to it, and the *)
(* invariant is that the pair of every CPU is in Good.                     *)
(***************************************************************************)
EXTENDS LockOrder, SequenceTheorems, TLAPS

Op == {"acquire", "release", "sched"} \X Lock

\* What the order asks: nothing is taken twice or under kmem.lock, and only
\* ptable.lock, cons.lock and kmem.lock under another lock.
MayAcquire(h, l) ==
  /\ l \notin h
  /\ "kmem" \notin h
  /\ l \notin {ptable, cons, "kmem"} => h = {}

Pairs == (SUBSET Lock) \X Seq(Op)

\* One step from <<h, t>> keeps to the order and leads into W.
Keeps(W, h, t) ==
  \/ t = <<>> /\ h = {}
  \/ \E l \in Lock, u \in Seq(Op) : t = A(l) \o u /\ MayAcquire(h, l) /\ <<h \cup {l}, u>> \in W
  \/ \E l \in Lock, u \in Seq(Op) : t = R(l) \o u /\ <<h \ {l}, u>> \in W
  \/ t = Sched /\ h = {ptable}

Closed(W) == \A h \in SUBSET Lock, t \in Seq(Op) : <<h, t>> \in W => Keeps(W, h, t)

Good == UNION {W \in SUBSET Pairs : Closed(W)}

\* The fragment s takes a CPU that holds h to holding g.
Takes(h, s, g) ==
  /\ s \in Seq(Op)
  /\ \A t \in Seq(Op) : <<g, t>> \in Good => <<h, s \o t>> \in Good

-----------------------------------------------------------------------------

\* One operation in front of a path: its head and its tail.
LEMMA ConsFacts ==
  ASSUME NEW op \in Op, NEW u \in Seq(Op)
  PROVE  /\ <<op>> \o u \in Seq(Op)
         /\ <<op>> \o u /= <<>>
         /\ Head(<<op>> \o u) = op
         /\ Tail(<<op>> \o u) = u
<1> DEFINE s == <<op>> \o u
<1>1. <<op>> \in Seq(Op) /\ Len(<<op>>) = 1 /\ <<op>>[1] = op
  OBVIOUS
<1>2. s \in Seq(Op) /\ Len(s) = 1 + Len(u) /\ \A i \in 1 .. 1 + Len(u) : s[i] = IF i <= 1 THEN op ELSE u[i - 1]
  BY <1>1, ConcatProperties
<1>3. Len(u) \in Nat
  BY LenProperties, Zenon
<1>4. s /= <<>>
  BY <1>2, <1>3, EmptySeq
<1>5. Head(s) = op
  BY <1>2, <1>3, <1>4
<1>6. Tail(s) \in Seq(Op) /\ Len(Tail(s)) = Len(u) /\ \A i \in 1 .. Len(u) : Tail(s)[i] = u[i]
  <2>1. Tail(s) \in Seq(Op) /\ Len(Tail(s)) = Len(s) - 1 /\ \A i \in 1 .. Len(Tail(s)) : Tail(s)[i] = s[i + 1]
    BY <1>2, <1>4, HeadTailProperties, Zenon
  <2>2. QED
    BY <2>1, <1>2, <1>3
<1>7. Tail(s) = u
  BY <1>6, SeqEqual, Zenon
<1>8. QED
  BY <1>2, <1>4, <1>5, <1>7, Zenon

\* The three kinds of one-step footprint.
LEMMA Atoms ==
  ASSUME NEW l \in Lock
  PROVE  A(l) \in Seq(Op) /\ R(l) \in Seq(Op) /\ Sched \in Seq(Op)
<1>1. <<"acquire", l>> \in Op /\ <<"release", l>> \in Op /\ <<"sched", ptable>> \in Op
  BY Zenon DEF Op, Lock
<1>2. QED
  BY <1>1 DEF A, R, Sched

\* Good keeps to the order itself.
LEMMA GoodKeeps ==
  ASSUME NEW h \in SUBSET Lock, NEW t \in Seq(Op), <<h, t>> \in Good
  PROVE  Keeps(Good, h, t)
<1>1. PICK W \in SUBSET Pairs : Closed(W) /\ <<h, t>> \in W
  BY Zenon DEF Good
<1>2. Keeps(W, h, t)
  BY <1>1, Zenon DEF Closed
<1>3. W \subseteq Good
  BY <1>1, Zenon DEF Good
<1>4. QED
  BY <1>2, <1>3, Zenon DEF Keeps

\* And it is the largest such set: a pair with a step into Good is in Good.
LEMMA GoodIntro ==
  ASSUME NEW h \in SUBSET Lock, NEW t \in Seq(Op), Keeps(Good, h, t)
  PROVE  <<h, t>> \in Good
<1> DEFINE W == Good \cup {<<h, t>>}
<1>1. W \in SUBSET Pairs
  <2>1. Good \subseteq Pairs
    BY Zenon DEF Good
  <2>2. QED
    BY <2>1 DEF Pairs
<1>2. ASSUME NEW g \in SUBSET Lock, NEW u \in Seq(Op), Keeps(Good, g, u)
      PROVE  Keeps(W, g, u)
  BY <1>2, Zenon DEF Keeps
<1>3. Closed(W)
  <2>1. SUFFICES ASSUME NEW g \in SUBSET Lock, NEW u \in Seq(Op), <<g, u>> \in W
                 PROVE  Keeps(W, g, u)
    BY Zenon DEF Closed
  <2>2. CASE <<g, u>> \in Good
    BY <2>2, <1>2, GoodKeeps, Zenon
  <2>3. CASE <<g, u>> = <<h, t>>
    BY <2>3, <1>2, Zenon
  <2>4. QED
    BY <2>1, <2>2, <2>3, Zenon
<1>4. W \in {V \in SUBSET Pairs : Closed(V)}
  BY <1>1, <1>3, Zenon
<1>5. QED
  BY <1>4, Zenon DEF Good

-----------------------------------------------------------------------------

\* acquire(): what the order allows.
LEMMA TakesAcquire ==
  ASSUME NEW h \in SUBSET Lock, NEW l \in Lock, MayAcquire(h, l)
  PROVE  Takes(h, A(l), h \cup {l})
<1>1. SUFFICES ASSUME NEW t \in Seq(Op), <<h \cup {l}, t>> \in Good
               PROVE  <<h, A(l) \o t>> \in Good
  BY Atoms, Zenon DEF Takes
<1>2. A(l) \o t \in Seq(Op)
  BY Atoms, ConcatProperties, Zenon
<1>3. Keeps(Good, h, A(l) \o t)
  BY <1>1, Zenon DEF Keeps
<1>4. QED
  BY <1>2, <1>3, GoodIntro, Zenon

\* release(): always.
LEMMA TakesRelease ==
  ASSUME NEW h \in SUBSET Lock, NEW l \in Lock
  PROVE  Takes(h, R(l), h \ {l})
<1>1. SUFFICES ASSUME NEW t \in Seq(Op), <<h \ {l}, t>> \in Good
               PROVE  <<h, R(l) \o t>> \in Good
  BY Atoms, Zenon DEF Takes
<1>2. R(l) \o t \in Seq(Op)
  BY Atoms, ConcatProperties, Zenon
<1>3. Keeps(Good, h, R(l) \o t)
  BY <1>1, Zenon DEF Keeps
<1>4. QED
  BY <1>2, <1>3, GoodIntro, Zenon

\* One fragment after another.
LEMMA TakesThen ==
  ASSUME NEW h, NEW s, NEW g, NEW r, NEW k, Takes(h, s, g), Takes(g, r, k)
  PROVE  Takes(h, s \o r, k)
<1>1. s \in Seq(Op) /\ r \in Seq(Op)
  BY Zenon DEF Takes
<1>2. s \o r \in Seq(Op)
  BY <1>1, ConcatProperties, Zenon
<1>3. ASSUME NEW t \in Seq(Op), <<k, t>> \in Good
      PROVE  <<h, (s \o r) \o t>> \in Good
  <2>1. r \o t \in Seq(Op) /\ <<g, r \o t>> \in Good
    BY <1>1, <1>3, ConcatProperties, Zenon DEF Takes
  <2>2. <<h, s \o (r \o t)>> \in Good
    BY <2>1, Zenon DEF Takes
  <2>3. (s \o r) \o t = s \o (r \o t)
    BY <1>1, ConcatAssociative
  <2>4. QED
    BY <2>2, <2>3, Zenon
<1>4. QED
  BY <1>2, <1>3, Zenon DEF Takes

\* A path that releases what it took.
LEMMA GoodEnd ==
  ASSUME NEW h, NEW s, Takes(h, s, {})
  PROVE  s \in Seq(Op) /\ <<h, s>> \in Good
<1>1. <<{}, <<>>>> \in Good
  <2>1. <<>> \in Seq(Op) /\ {} \in SUBSET Lock
    BY EmptySeq, Zenon
  <2>2. Keeps(Good, {}, <<>>)
    BY Zenon DEF Keeps
  <2>3. QED
    BY <2>1, <2>2, GoodIntro, Zenon
<1>2. s \in Seq(Op) /\ <<h, s \o <<>>>> \in Good
  BY <1>1, EmptySeq, Zenon DEF Takes
<1>3. s \o <<>> = s
  BY <1>2, ConcatEmptySeq, Zenon
<1>4. QED
  BY <1>2, <1>3, Zenon

\* A path that ends in sched(), with ptable.lock alone.
LEMMA GoodSched ==
  Sched \in Seq(Op) /\ <<{ptable}, Sched>> \in Good
<1>1. ptable \in Lock
  BY Zenon DEF Lock
<1>2. Sched \in Seq(Op) /\ {ptable} \in SUBSET Lock
  BY <1>1, Atoms, Zenon
<1>3. Keeps(Good, {ptable}, Sched)
  BY Zenon DEF Keeps
<1>4. QED
  BY <1>2, <1>3, GoodIntro, Zenon

\* A fragment in front of a path.
LEMMA GoodAfter ==
  ASSUME NEW h, NEW s, NEW g, NEW t \in Seq(Op), Takes(h, s, g), <<g, t>> \in Good
  PROVE  s \o t \in Seq(Op) /\ <<h, s \o t>> \in Good
  BY ConcatProperties, Zenon DEF Takes

\* acquire(), nothing, release().
LEMMA TakesShort ==
  ASSUME NEW h \in SUBSET Lock, NEW l \in Lock, MayAcquire(h, l)
  PROVE  Takes(h, Short(l), h)
<1>1. Takes(h, A(l), h \cup {l})
  BY TakesAcquire, Zenon
<1>2. Takes(h \cup {l}, R(l), (h \cup {l}) \ {l})
  BY TakesRelease, Zenon
<1>3. (h \cup {l}) \ {l} = h
  BY Zenon DEF MayAcquire
<1>4. Takes(h \cup {l}, R(l), h)
  BY <1>2, <1>3, Zenon
<1>5. QED
  BY <1>1, <1>4, TakesThen, Zenon DEF Short

-----------------------------------------------------------------------------
(* The footprints.  "low" is a lock other than ptable.lock, cons.lock and  *)
(* kmem.lock: it is taken by a CPU that holds none.                        *)

\* The names of the locks, which the provers compare as strings.
LEMMA Names ==
  /\ ptable \in Lock /\ cons \in Lock /\ "kmem" \in Lock
  /\ ptable /= cons /\ ptable /= "kmem" /\ cons /= "kmem"
  BY Zenon DEF ptable, cons, Lock

\* A CPU with no lock may take any one, and under any lock but kmem.lock it may
\* take those of ptable.lock, cons.lock and kmem.lock it does not have.
LEMMA Allowed ==
  ASSUME NEW l \in Lock
  PROVE  /\ MayAcquire({}, l)
         /\ l /= "kmem" => /\ MayAcquire({l}, "kmem")
                           /\ l /= ptable => MayAcquire({l}, ptable)
                           /\ l /= cons => MayAcquire({l}, cons)
  BY Zenon DEF MayAcquire

\* acquire(), wakeup(), release().
LEMMA TakesWakeup ==
  ASSUME NEW l \in Lock, l /= "kmem", l /= ptable
  PROVE  /\ Takes({}, A(l) \o Wakeup, {l})
         /\ Takes({}, A(l) \o Wakeup \o R(l), {})
<1>1. {} \in SUBSET Lock /\ {l} \in SUBSET Lock /\ ptable \in Lock /\ {} \cup {l} = {l} /\ {l} \ {l} = {}
  BY Names, Zenon
<1>2. Takes({}, A(l), {l})
  BY <1>1, Allowed, TakesAcquire, Zenon
<1>3. Takes({l}, Wakeup, {l})
  BY <1>1, Allowed, TakesShort, Zenon DEF Wakeup
<1>4. Takes({}, A(l) \o Wakeup, {l})
  BY <1>2, <1>3, TakesThen, Zenon
<1>5. Takes({l}, R(l), {})
  BY <1>1, TakesRelease, Zenon
<1>6. QED
  BY <1>4, <1>5, TakesThen, Zenon

\* sleep() with the caller's lock held: it is released before sched().
LEMMA GoodSleep ==
  ASSUME NEW l \in Lock, l /= "kmem", l /= ptable
  PROVE  Sleep(l) \in Seq(Op) /\ <<{l}, Sleep(l)>> \in Good
<1>1. {l} \in SUBSET Lock /\ {l, ptable} \in SUBSET Lock /\ ptable \in Lock
      /\ {l} \cup {ptable} = {l, ptable} /\ {l, ptable} \ {l} = {ptable}
  BY Names, Zenon
<1>2. Takes({l}, A(ptable), {l, ptable})
  BY <1>1, Allowed, TakesAcquire, Zenon
<1>3. Takes({l, ptable}, R(l), {ptable})
  BY <1>1, TakesRelease, Zenon
<1>4. Takes({l}, A(ptable) \o R(l), {ptable})
  BY <1>2, <1>3, TakesThen, Zenon
<1>5. QED
  BY <1>4, GoodSched, GoodAfter, Zenon DEF Sleep

\* The five shapes of path over one lock.
LEMMA GoodShapes ==
  ASSUME NEW l \in Lock
  PROVE  /\ Takes({}, A(l), {l})
         /\ Takes({}, Short(l), {})
         /\ <<{}, Short(l)>> \in Good /\ Short(l) \in Seq(Op)
         /\ l /= "kmem" /\ l /= ptable =>
              /\ <<{}, A(l) \o Wakeup \o R(l)>> \in Good /\ A(l) \o Wakeup \o R(l) \in Seq(Op)
              /\ <<{}, A(l) \o Sleep(l)>> \in Good /\ A(l) \o Sleep(l) \in Seq(Op)
<1>1. {} \in SUBSET Lock /\ {l} \in SUBSET Lock /\ {} \cup {l} = {l} /\ l \notin {}
  BY Zenon
<1>2. Takes({}, A(l), {l})
  BY <1>1, Allowed, TakesAcquire, Zenon
<1>3. Takes({}, Short(l), {})
  BY <1>1, Allowed, TakesShort, Zenon
<1>4. <<{}, Short(l)>> \in Good /\ Short(l) \in Seq(Op)
  BY <1>3, GoodEnd, Zenon
<1>5. ASSUME l /= "kmem", l /= ptable
      PROVE  /\ <<{}, A(l) \o Wakeup \o R(l)>> \in Good /\ A(l) \o Wakeup \o R(l) \in Seq(Op)
             /\ <<{}, A(l) \o Sleep(l)>> \in Good /\ A(l) \o Sleep(l) \in Seq(Op)
  <2>1. Takes({}, A(l) \o Wakeup \o R(l), {})
    BY <1>5, TakesWakeup, Zenon
  <2>2. Sleep(l) \in Seq(Op) /\ <<{l}, Sleep(l)>> \in Good
    BY <1>5, GoodSleep, Zenon
  <2>3. QED
    BY <2>1, <2>2, <1>2, GoodEnd, GoodAfter, Zenon
<1>6. QED
  BY <1>2, <1>3, <1>4, <1>5, Zenon

\* What is done with ptable.lock held: print, free, release.
LEMMA UnderPtable ==
  /\ Takes({}, A(ptable), {ptable})
  /\ Takes({ptable}, Cprintf, {ptable})
  /\ Takes({ptable}, Kfree, {ptable})
  /\ Takes({ptable}, R(ptable), {})
<1>1. {ptable} \in SUBSET Lock /\ cons \notin {ptable} /\ "kmem" \notin {ptable} /\ {ptable} \ {ptable} = {}
  BY Names, Zenon
<1>2. MayAcquire({ptable}, cons) /\ MayAcquire({ptable}, "kmem")
  BY Names, Allowed, Zenon
<1>3. Takes({ptable}, Cprintf, {ptable}) /\ Takes({ptable}, Kfree, {ptable})
  BY <1>1, <1>2, Names, TakesShort, Zenon DEF Cprintf, Kfree
<1>4. Takes({ptable}, R(ptable), {})
  BY <1>1, Names, TakesRelease, Zenon
<1>5. QED
  BY <1>3, <1>4, Names, GoodShapes, Zenon

\* The rest of wait() and wait_stat(), and what sched() comes back to.
LEMMA ResumedGood ==
  ASSUME NEW p \in Resumed
  PROVE  p \in Seq(Op) /\ <<{ptable}, p>> \in Good
<1>1. Takes({ptable}, Reap, {})
  <2>1. Takes({ptable}, Cprintf \o Cprintf, {ptable})
    BY UnderPtable, TakesThen, Zenon
  <2>2. Takes({ptable}, Cprintf \o Cprintf \o Kfree, {ptable})
    BY <2>1, UnderPtable, TakesThen, Zenon
  <2>3. Takes({ptable}, Cprintf \o Cprintf \o Kfree \o Kfree, {ptable})
    BY <2>2, UnderPtable, TakesThen, Zenon
  <2>4. QED
    BY <2>3, UnderPtable, TakesThen, Zenon DEF Reap
<1>2. p = Reap \/ p = R(ptable) \/ p = Sched
  BY Zenon DEF Resumed, WaitScan
<1>3. QED
  BY <1>1, <1>2, UnderPtable, GoodEnd, GoodSched, Zenon

\* Every path a CPU starts on, with no lock held.
LEMMA PathsGood ==
  ASSUME NEW p \in Paths
  PROVE  p \in Seq(Op) /\ <<{}, p>> \in Good
<1> DEFINE Fine(q) == q \in Seq(Op) /\ <<{}, q>> \in Good
           Low == {cons, "tickslock", "idelock", "bcache", "log", "icache", "ftable", "pipe"}
<1>1. ASSUME NEW l \in Lock
      PROVE  Fine(Short(l))
  BY GoodShapes, Zenon
<1>2. ASSUME NEW l \in Low
      PROVE  Fine(A(l) \o Wakeup \o R(l)) /\ Fine(A(l) \o Sleep(l))
  <2>1. l \in Lock /\ l /= "kmem" /\ l /= ptable
    BY Zenon DEF Lock, cons, ptable
  <2>2. QED
    BY <2>1, GoodShapes, Zenon
<1>3. CASE p \in ProcPaths
  <2>1. CASE p = Short(ptable)
    BY <2>1, <1>1, Names, Zenon
  <2>2. ASSUME NEW rest \in WaitScan, p = A(ptable) \o rest
        PROVE  Fine(p)
    <3>1. rest \in Resumed
      BY Zenon DEF Resumed
    <3>2. QED
      BY <2>2, <3>1, ResumedGood, UnderPtable, GoodAfter, Zenon
  <2>3. QED
    BY <1>3, <2>1, <2>2, Zenon DEF ProcPaths
<1>4. CASE p \in SwitchPaths
  BY <1>4, UnderPtable, GoodSched, GoodAfter, Zenon DEF SwitchPaths
<1>5. CASE p \in SchedulerPaths
  <2> DEFINE draw == IF started = 1 THEN Cprintf ELSE <<>>
  <2>1. p = A(ptable) \o draw \o R(ptable) \/ p = A(ptable) \o draw \o Sched
    BY <1>5, Zenon DEF SchedulerPaths
  <2>2. Takes({ptable}, <<>>, {ptable})
    BY EmptySeq, ConcatEmptySeq, Zenon DEF Takes
  <2>3. draw = Cprintf \/ draw = <<>>
    BY Zenon
  <2>4. Takes({ptable}, draw, {ptable})
    BY <2>2, <2>3, UnderPtable, Zenon
  <2> HIDE DEF draw
  <2>5. Takes({}, A(ptable) \o draw, {ptable})
    BY <2>4, UnderPtable, TakesThen, Zenon
  <2>6. Takes({}, A(ptable) \o draw \o R(ptable), {})
    BY <2>5, UnderPtable, TakesThen, Zenon
  <2>7. QED
    BY <2>1, <2>5, <2>6, GoodEnd, GoodSched, GoodAfter, Zenon
<1>6. CASE p = TrapTimer
  <2> DEFINE l == "tickslock"
  <2>1. l \in Lock /\ l /= "kmem" /\ l /= ptable /\ {l} \in SUBSET Lock /\ ptable \notin {l} /\ {l} \ {l} = {}
    BY Zenon DEF Lock, ptable
  <2>2. p = A(l) \o Wakeup \o Wakeup \o R(l)
    BY <1>6, Zenon DEF TrapTimer, UpdatePerformanceFields, Wakeup
  <2> HIDE DEF l
  <2>3. Takes({}, A(l) \o Wakeup, {l})
    BY <2>1, TakesWakeup, Zenon
  <2>4. Takes({l}, Wakeup, {l})
    BY <2>1, Names, Allowed, TakesShort, Zenon DEF Wakeup
  <2>5. Takes({l}, R(l), {})
    BY <2>1, TakesRelease, Zenon
  <2>6. Takes({}, A(l) \o Wakeup \o Wakeup, {l})
    BY <2>3, <2>4, TakesThen, Zenon
  <2>7. Takes({}, A(l) \o Wakeup \o Wakeup \o R(l), {})
    BY <2>5, <2>6, TakesThen, Zenon
  <2>8. QED
    BY <2>2, <2>7, GoodEnd, Zenon
<1>7. CASE p \in SysSleep \cup IdeRw \cup Bget \cup BeginOp \cup Ilock \cup ConsoleRead
  <2>1. \E l \in Low : p = A(l) \o Sleep(l) \/ p = Short(l)
    <3>1. CASE p \in SysSleep \cup IdeRw \cup Bget
      BY <3>1, Zenon DEF SysSleep, IdeRw, Bget
    <3>2. CASE p \in BeginOp \cup Ilock \cup ConsoleRead
      BY <3>2, Zenon DEF BeginOp, Ilock, ConsoleRead
    <3>3. QED
      BY <1>7, <3>1, <3>2, Zenon
  <2>2. Low \subseteq Lock
    BY Zenon DEF Lock
  <2>3. QED
    BY <2>1, <2>2, <1>1, <1>2, Zenon
<1>8. CASE p \in ConsoleIntr \cup IdeIntr \cup {Brelse} \cup EndOp \cup {Iunlock}
  <2>1. \E l \in Low : p = A(l) \o Wakeup \o R(l) \/ p = Short(l)
    BY <1>8, Zenon DEF ConsoleIntr, IdeIntr, Brelse, EndOp, Iunlock
  <2>2. Low \subseteq Lock
    BY Zenon DEF Lock
  <2>3. QED
    BY <2>1, <2>2, <1>1, <1>2, Zenon
<1>9. CASE p \in PipePaths
  <2> DEFINE l == "pipe"
  <2>1. l \in Low /\ l \in Lock /\ l /= "kmem" /\ l /= ptable
    BY Zenon DEF Lock, ptable
  <2>2. \/ p = Short(l) \/ p = A(l) \o Wakeup \o R(l) \/ p = A(l) \o Sleep(l)
        \/ p = A(l) \o Wakeup \o R(l) \o Kfree \/ p = A(l) \o Wakeup \o Sleep(l)
    BY <1>9, Zenon DEF PipePaths
  <2> HIDE DEF l
  <2>3. Fine(A(l) \o Wakeup \o R(l) \o Kfree)
    <3>1. Takes({}, Kfree, {})
      BY Names, GoodShapes, Zenon DEF Kfree
    <3>2. Takes({}, A(l) \o Wakeup \o R(l), {})
      BY <2>1, TakesWakeup, Zenon
    <3>3. QED
      BY <3>1, <3>2, TakesThen, GoodEnd, Zenon
  <2>4. Fine(A(l) \o Wakeup \o Sleep(l))
    BY <2>1, TakesWakeup, GoodSleep, GoodAfter, Zenon
  <2>5. QED
    BY <2>1, <2>2, <2>3, <2>4, <1>1, <1>2, Zenon
<1>10. CASE p \in Iput
  <2> DEFINE l == "icache"
  <2>1. l \in Lock /\ l /= "kmem" /\ l /= ptable
    BY Zenon DEF Lock, ptable
  <2>2. p = Short(l) \/ p = Short(l) \o A(l) \o Wakeup \o R(l)
    BY <1>10, Zenon DEF Iput
  <2> HIDE DEF l
  <2>3. Takes({}, Short(l), {}) /\ Takes({}, A(l), {l})
    BY <2>1, GoodShapes, Zenon
  <2>4. Takes({l}, Wakeup, {l}) /\ Takes({l}, R(l), {})
    <3>1. {l} \in SUBSET Lock /\ ptable \notin {l} /\ {l} \ {l} = {}
      BY <2>1, Zenon
    <3>2. QED
      BY <2>1, <3>1, Names, Allowed, TakesShort, TakesRelease, Zenon DEF Wakeup
  <2>5. Takes({}, Short(l) \o A(l), {l})
    BY <2>3, TakesThen, Zenon
  <2>6. Takes({}, Short(l) \o A(l) \o Wakeup, {l})
    BY <2>4, <2>5, TakesThen, Zenon
  <2>7. Takes({}, Short(l) \o A(l) \o Wakeup \o R(l), {})
    BY <2>4, <2>6, TakesThen, Zenon
  <2>8. QED
    BY <2>1, <2>2, <2>7, <1>1, GoodEnd, Zenon
<1>11. CASE p \in TablePaths
  <2>1. \E l \in Lock : p = Short(l)
    BY <1>11, Names, Zenon DEF TablePaths, Cprintf, Lock
  <2>2. QED
    BY <2>1, <1>1, Zenon
<1>12. QED
  <2>1. \/ p \in ProcPaths \/ p \in SwitchPaths \/ p \in SchedulerPaths \/ p = TrapTimer \/ p \in PipePaths
        \/ p \in Iput \/ p \in TablePaths
        \/ p \in SysSleep \cup IdeRw \cup Bget \cup BeginOp \cup Ilock \cup ConsoleRead
        \/ p \in ConsoleIntr \cup IdeIntr \cup {Brelse} \cup EndOp \cup {Iunlock}
    BY DEF Paths
  <2>2. QED
    BY <2>1, <1>3, <1>4, <1>5, <1>6, <1>7, <1>8, <1>9, <1>10, <1>11, Zenon

-----------------------------------------------------------------------------
(* The invariant.                                                          *)

\* Every CPU is on a path that keeps to the order.
IInv ==
  /\ held \in [Cpu -> SUBSET Lock]
  /\ todo \in [Cpu -> Seq(Op)]
  /\ \A c \in Cpu : <<held[c], todo[c]>> \in Good

\* What the next operation of a good pair is allowed to be, and what follows it.
LEMMA GoodHead ==
  ASSUME NEW h \in SUBSET Lock, NEW t \in Seq(Op), <<h, t>> \in Good, t /= <<>>
  PROVE  /\ Tail(t) \in Seq(Op)
         /\ \A l \in Lock : Head(t) = <<"acquire", l>> => MayAcquire(h, l) /\ <<h \cup {l}, Tail(t)>> \in Good
         /\ \A l \in Lock : Head(t) = <<"release", l>> => <<h \ {l}, Tail(t)>> \in Good
         /\ Head(t) = <<"sched", ptable>> => h = {ptable}
<1>1. Keeps(Good, h, t)
  BY GoodKeeps, Zenon
<1>2. ASSUME NEW l \in Lock, NEW u \in Seq(Op), t = A(l) \o u, MayAcquire(h, l), <<h \cup {l}, u>> \in Good
      PROVE  Head(t) = <<"acquire", l>> /\ Tail(t) = u
  <2>1. <<"acquire", l>> \in Op
    BY Zenon DEF Op
  <2>2. QED
    BY <2>1, <1>2, ConsFacts, Zenon DEF A
<1>3. ASSUME NEW l \in Lock, NEW u \in Seq(Op), t = R(l) \o u, <<h \ {l}, u>> \in Good
      PROVE  Head(t) = <<"release", l>> /\ Tail(t) = u
  <2>1. <<"release", l>> \in Op
    BY Zenon DEF Op
  <2>2. QED
    BY <2>1, <1>3, ConsFacts, Zenon DEF R
<1>4. CASE \E l \in Lock, u \in Seq(Op) : t = A(l) \o u /\ MayAcquire(h, l) /\ <<h \cup {l}, u>> \in Good
  <2>1. PICK l \in Lock, u \in Seq(Op) : t = A(l) \o u /\ MayAcquire(h, l) /\ <<h \cup {l}, u>> \in Good
    BY <1>4, Zenon
  <2>2. Head(t) = <<"acquire", l>> /\ Tail(t) = u
    BY <2>1, <1>2, Zenon
  <2>3. \A k \in Lock : (Head(t) = <<"acquire", k>> => k = l) /\ Head(t) /= <<"release", k>>
    BY <2>2
  <2>4. Head(t) /= <<"sched", ptable>>
    BY <2>2
  <2>5. QED
    BY <2>1, <2>2, <2>3, <2>4, Zenon
<1>5. CASE \E l \in Lock, u \in Seq(Op) : t = R(l) \o u /\ <<h \ {l}, u>> \in Good
  <2>1. PICK l \in Lock, u \in Seq(Op) : t = R(l) \o u /\ <<h \ {l}, u>> \in Good
    BY <1>5, Zenon
  <2>2. Head(t) = <<"release", l>> /\ Tail(t) = u
    BY <2>1, <1>3, Zenon
  <2>3. \A k \in Lock : (Head(t) = <<"release", k>> => k = l) /\ Head(t) /= <<"acquire", k>>
    BY <2>2
  <2>4. Head(t) /= <<"sched", ptable>>
    BY <2>2
  <2>5. QED
    BY <2>1, <2>2, <2>3, <2>4, Zenon
<1>6. CASE t = Sched /\ h = {ptable}
  <2>1. Head(t) = <<"sched", ptable>> /\ Tail(t) = <<>>
    BY <1>6 DEF Sched
  <2>2. \A k \in Lock : Head(t) /= <<"acquire", k>> /\ Head(t) /= <<"release", k>>
    BY <2>1
  <2>3. Tail(t) \in Seq(Op)
    BY <2>1, EmptySeq, Zenon
  <2>4. QED
    BY <2>2, <2>3, <1>6, Zenon
<1>7. QED
  BY <1>1, <1>4, <1>5, <1>6, Zenon DEF Keeps

\* The step of one CPU leaves the others' pairs alone.
LEMMA OneCpu ==
  ASSUME IInv, NEW c \in Cpu, NEW h \in SUBSET Lock, NEW t \in Seq(Op), <<h, t>> \in Good,
         held' = [held EXCEPT ![c] = h], todo' = [todo EXCEPT ![c] = t]
  PROVE  IInv'
<1>1. held' \in [Cpu -> SUBSET Lock] /\ todo' \in [Cpu -> Seq(Op)]
  BY Zenon DEF IInv
<1>2. ASSUME NEW d \in Cpu
      PROVE  <<held'[d], todo'[d]>> \in Good
  <2>1. CASE d = c
    <3>1. held'[d] = h /\ todo'[d] = t
      BY <2>1, Zenon DEF IInv
    <3>2. QED
      BY <3>1, Zenon
  <2>2. CASE d /= c
    <3>1. held'[d] = held[d] /\ todo'[d] = todo[d]
      BY <2>2, Zenon DEF IInv
    <3>2. QED
      BY <3>1, Zenon DEF IInv
  <2>3. QED
    BY <2>1, <2>2, Zenon
<1>3. Good' = Good
  BY Zenon DEF Good, Closed, Keeps, Pairs, Op, Lock, MayAcquire, A, R, Sched, ptable, cons
<1>4. QED
  BY <1>1, <1>2, <1>3, Zenon DEF IInv

LEMMA InitInv == Init => IInv
<1> SUFFICES ASSUME Init
             PROVE  IInv
  BY Zenon
<1>1. <<>> \in Seq(Op) /\ {} \in SUBSET Lock
  BY EmptySeq, Zenon
<1>2. <<{}, <<>>>> \in Good
  <2>1. Keeps(Good, {}, <<>>)
    BY Zenon DEF Keeps
  <2>2. QED
    BY <1>1, <2>1, GoodIntro, Zenon
<1>3. held \in [Cpu -> SUBSET Lock] /\ todo \in [Cpu -> Seq(Op)]
  BY <1>1, Zenon DEF Init
<1>4. \A c \in Cpu : held[c] = {} /\ todo[c] = <<>>
  BY Zenon DEF Init
<1>5. QED
  BY <1>2, <1>3, <1>4, Zenon DEF IInv

\* A CPU with nothing ahead of it holds no lock.
LEMMA IdleHoldsNothing ==
  ASSUME IInv, NEW c \in Cpu, todo[c] = <<>>
  PROVE  held[c] = {}
<1>1. held[c] \in SUBSET Lock /\ todo[c] \in Seq(Op) /\ <<held[c], todo[c]>> \in Good
  BY Zenon DEF IInv
<1>2. Keeps(Good, held[c], <<>>)
  BY <1>1, GoodKeeps, Zenon
<1>3. ASSUME NEW l \in Lock, NEW u \in Seq(Op)
      PROVE  <<>> /= A(l) \o u /\ <<>> /= R(l) \o u
  <2>1. <<"acquire", l>> \in Op /\ <<"release", l>> \in Op
    BY Zenon DEF Op
  <2>2. QED
    BY <2>1, ConsFacts, Zenon DEF A, R
<1>4. <<>> /= Sched
  BY Zenon DEF Sched
<1>5. QED
  BY <1>2, <1>3, <1>4, Zenon DEF Keeps

LEMMA NextInv == IInv /\ [Next]_vars => IInv'
<1> SUFFICES ASSUME IInv, [Next]_vars
             PROVE  IInv'
  BY Zenon
<1>1. CASE UNCHANGED vars
  <2>1. held' = held /\ todo' = todo
    BY <1>1, Zenon DEF vars
  <2>2. Good' = Good
    BY Zenon DEF Good, Closed, Keeps, Pairs, Op, Lock, MayAcquire, A, R, Sched, ptable, cons
  <2>3. QED
    BY <2>1, <2>2, Zenon DEF IInv, Op, Lock
<1>2. ASSUME NEW c \in Cpu, Start(c) \/ Procdump(c)
      PROVE  IInv'
  <2>1. todo[c] = <<>> /\ held' = held
    BY <1>2, Zenon DEF Start, Procdump
  <2>2. PICK p \in Paths : todo' = [todo EXCEPT ![c] = p]
    <3>1. Cprintf \in Paths
      BY Zenon DEF Paths, TablePaths
    <3>2. QED
      BY <1>2, <3>1, Zenon DEF Start, Procdump
  <2>3. held[c] = {} /\ {} \in SUBSET Lock
    BY <2>1, IdleHoldsNothing, Zenon
  <2>4. held' = [held EXCEPT ![c] = {}]
    BY <2>1, <2>3, Zenon DEF IInv
  <2>5. p \in Seq(Op) /\ <<{}, p>> \in Good
    BY PathsGood, Zenon
  <2>6. QED
    BY <2>2, <2>3, <2>4, <2>5, OneCpu, Zenon
<1>3. ASSUME NEW c \in Cpu, NEW l \in Lock, Acquire(c, l) \/ Release(c, l)
      PROVE  IInv'
  <2>1. held[c] \in SUBSET Lock /\ todo[c] \in Seq(Op) /\ <<held[c], todo[c]>> \in Good
    BY Zenon DEF IInv
  <2>2. todo[c] /= <<>> /\ todo' = [todo EXCEPT ![c] = Tail(todo[c])]
    BY <1>3, Zenon DEF Acquire, Release, At, Advance
  <2>3. Tail(todo[c]) \in Seq(Op)
    BY <2>1, <2>2, GoodHead, Zenon
  <2>4. CASE Acquire(c, l)
    <3>1. Head(todo[c]) = <<"acquire", l>> /\ held' = [held EXCEPT ![c] = held[c] \cup {l}]
      BY <2>4, Zenon DEF Acquire, At
    <3>2. <<held[c] \cup {l}, Tail(todo[c])>> \in Good /\ held[c] \cup {l} \in SUBSET Lock
      BY <2>1, <2>2, <3>1, GoodHead, Zenon
    <3>3. QED
      BY <2>2, <2>3, <3>1, <3>2, OneCpu, Zenon
  <2>5. CASE Release(c, l)
    <3>1. Head(todo[c]) = <<"release", l>> /\ held' = [held EXCEPT ![c] = held[c] \ {l}]
      BY <2>5, Zenon DEF Release, At
    <3>2. <<held[c] \ {l}, Tail(todo[c])>> \in Good /\ held[c] \ {l} \in SUBSET Lock
      BY <2>1, <2>2, <3>1, GoodHead, Zenon
    <3>3. QED
      BY <2>2, <2>3, <3>1, <3>2, OneCpu, Zenon
  <2>6. QED
    BY <1>3, <2>4, <2>5, Zenon
<1>4. ASSUME NEW c \in Cpu, Switch(c)
      PROVE  IInv'
  <2>1. held[c] \in SUBSET Lock /\ todo[c] \in Seq(Op) /\ <<held[c], todo[c]>> \in Good
    BY Zenon DEF IInv
  <2>2. todo[c] /= <<>> /\ Head(todo[c]) = <<"sched", ptable>> /\ held' = held
    BY <1>4, Zenon DEF Switch, At
  <2>3. held[c] = {ptable}
    BY <2>1, <2>2, GoodHead, Zenon
  <2>4. held' = [held EXCEPT ![c] = {ptable}] /\ {ptable} \in SUBSET Lock
    BY <2>1, <2>2, <2>3, Zenon DEF IInv
  <2>5. PICK p \in Resumed : todo' = [todo EXCEPT ![c] = p]
    BY <1>4, Zenon DEF Switch
  <2>6. p \in Seq(Op) /\ <<{ptable}, p>> \in Good
    BY ResumedGood, Zenon
  <2>7. QED
    BY <2>4, <2>5, <2>6, OneCpu, Zenon
<1>5. QED
  BY <1>1, <1>2, <1>3, <1>4, Zenon DEF Next

\* The invariant holds in every reachable state.
THEOREM Invariance == Spec => []IInv
  BY InitInv, NextInv, PTL DEF Spec

-----------------------------------------------------------------------------

\* What the invariant says of a CPU that spins: it holds no kmem.lock, and no
\* lock at all if it wants one other than ptable.lock, cons.lock and kmem.lock.
LEMMA SpinnerOrder ==
  ASSUME IInv, NEW c \in Cpu, NEW l \in Lock, At(c, "acquire", l)
  PROVE  MayAcquire(held[c], l)
<1>1. held[c] \in SUBSET Lock /\ todo[c] \in Seq(Op) /\ <<held[c], todo[c]>> \in Good
  BY Zenon DEF IInv
<1>2. QED
  BY <1>1, GoodHead, Zenon DEF At

LEMMA CirclesOrder ==
  ASSUME IInv
  PROVE  \A ring \in SUBSET Cpu :
           Circle(ring) => \A c \in ring : At(c, "acquire", ptable) \/ At(c, "acquire", cons)
<1>1. SUFFICES ASSUME NEW ring \in SUBSET Cpu, Circle(ring), NEW c \in ring
               PROVE  At(c, "acquire", ptable) \/ At(c, "acquire", cons)
  BY Zenon
<1>2. c \in Cpu /\ \A d \in ring : d \in Cpu /\ held[d] \subseteq Lock
  BY <1>1, Zenon DEF IInv
<1>3. PICK d \in ring, l \in Lock : l \in held[d] /\ At(c, "acquire", l)
  BY <1>1, <1>2, Zenon DEF Circle, WaitsFor
<1>4. MayAcquire(held[c], l)
  BY <1>1, <1>2, <1>3, SpinnerOrder, Zenon
<1>5. held[c] /= {}
  BY <1>1, Zenon DEF Circle, WaitsFor
<1>6. l \in {ptable, cons, "kmem"}
  BY <1>4, <1>5, Zenon DEF MayAcquire
<1>7. l /= "kmem"
  <2>1. PICK e \in ring, k \in Lock : k \in held[e] /\ At(d, "acquire", k)
    BY <1>1, <1>2, Zenon DEF Circle, WaitsFor
  <2>2. MayAcquire(held[d], k)
    BY <1>1, <1>2, <2>1, SpinnerOrder, Zenon
  <2>3. QED
    BY <1>3, <2>2, Zenon DEF MayAcquire
<1>8. QED
  BY <1>3, <1>6, <1>7, Zenon

\* No CPU spins for a lock it has itself.
LEMMA NoSelfWait ==
  ASSUME IInv, NEW c \in Cpu
  PROVE  ~WaitsFor(c, c)
<1>1. SUFFICES ASSUME NEW l \in held[c], At(c, "acquire", l)
               PROVE  FALSE
  BY Zenon DEF WaitsFor
<1>2. l \in Lock
  BY Zenon DEF IInv
<1>3. MayAcquire(held[c], l)
  BY <1>1, <1>2, SpinnerOrder, Zenon
<1>4. QED
  BY <1>3, Zenon DEF MayAcquire

LEMMA OrderImplies == IInv => OnlyConsoleCircles
  BY CirclesOrder, NoSelfWait, Zenon DEF OnlyConsoleCircles

\* On any number of CPUs, no CPU spins for a lock it has, and every circle of CPUs
\* that spin in front of each other's locks is one over ptable.lock and cons.lock:
\* the nesting of acquire() calls in trap(), sleep(), wait(), pipe.c, bio.c, log.c,
\* fs.c and kalloc.c adds no other.
THEOREM OnlyConsoleCirclesAlways == Spec => []OnlyConsoleCircles
  BY Invariance, OrderImplies, PTL

LEMMA SchedOrder == IInv => SchedHoldsPtableOnly
<1>1. SUFFICES ASSUME IInv, NEW c \in Cpu, At(c, "sched", ptable)
               PROVE  held[c] = {ptable}
  BY Zenon DEF SchedHoldsPtableOnly
<1>2. held[c] \in SUBSET Lock /\ todo[c] \in Seq(Op) /\ <<held[c], todo[c]>> \in Good
  BY <1>1, Zenon DEF IInv
<1>3. QED
  BY <1>1, <1>2, GoodHead, Zenon DEF At

\* On any number of CPUs, exit(), yield(), sleep(), wait() and scheduler() reach
\* the switch with ptable.lock and no other lock, as sched() demands.
THEOREM SchedHoldsPtableOnlyAlways == Spec => []SchedHoldsPtableOnly
  BY Invariance, SchedOrder, PTL

=============================================================================
