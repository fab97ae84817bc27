----------------------------- MODULE Log_proofs -----------------------------
(***************************************************************************)
(* Proofs about the log, for any number of processes, blocks and           *)
(* operations and any size of the log, as long as the transaction fits     *)
(* into it (Fits): the inductive invariant, and what it gives.  The log    *)
(* implements AtomicDisk, and begin_op()'s reservation keeps the           *)
(* transaction within the log.                                             *)
(***************************************************************************)
EXTENDS Log, Integers, FiniteSets, TLAPS

\* The transaction in memory fits into the log's data blocks.
Fits == Len(lh) < nlog

\* Processes between begin_op() and end_op(), and the one that commits.
Active == {p \in Proc : pc[p] \in {"op", "write"}}
Committer(p) == pc[p] \in {"write_log", "install", "done"}

\* log.outstanding counts the operations.
Counted == IsFiniteSet(Active) /\ outstanding = Cardinality(Active)

\* Only one process commits, and nothing is changed meanwhile.
OneCommits ==
  /\ committing = 1 => Active = {}
  /\ \A p \in Proc : Committer(p) => committing = 1
  /\ \A p, q \in Proc : Committer(p) /\ Committer(q) => p = q

Distinct(s) == \A i, j \in 1..Len(s) : s[i] = s[j] => i = j

\* A block is in a transaction once, on the disk too, where it fits.
Headers == Distinct(lh) /\ Distinct(head) /\ Len(head) < nlog

\* How the disk follows memory in the phases of a commit.
Phases ==
  mode = "up" =>
    /\ \A b \in Block : ~Logged(lh, b) => cache[b] = home[b]
    /\ (\A p \in Proc : pc[p] \notin {"write_log", "install"}) => head = <<>> /\ tail = 0
    /\ \A p \in Proc : pc[p] = "write_log" =>
         /\ head = <<>> /\ tail <= Len(lh)
         /\ \A i \in 1..tail : logdata[i] = cache[lh[i]]
    /\ \A p \in Proc : pc[p] = "install" =>
         /\ head = lh /\ tail <= Len(lh)
         /\ \A i \in 1..Len(lh) : logdata[i] = cache[lh[i]]
         /\ \A i \in 1..tail : home[lh[i]] = cache[lh[i]]
    /\ \A p \in Proc : pc[p] = "done" => lh = <<>>
    /\ Active = {} /\ committing = 0 => lh = <<>>

\* How recovery goes over the disk.
Recovery ==
  mode \in {"recovery", "install"} =>
    /\ \A p \in Proc : pc[p] = "idle"
    /\ outstanding = 0 /\ committing = 0 /\ cache = home
    /\ mode = "recovery" => lh = <<>> /\ tail = 0
    /\ mode = "install" => /\ lh = head /\ tail <= Len(lh)
                           /\ \A i \in 1..tail : home[lh[i]] = logdata[i]

\* A process in log_write() may write the block, or has done so before.
Budget == \A p \in Proc : pc[p] = "write" => left[p] > 0 \/ bp[p] \in wrote[p]

\* Who sleeps will be woken.
Sleepers == SleepersWillWake

Inv == TypeOK /\ Counted /\ OneCommits /\ Headers /\ Phases /\ Recovery /\ Sleepers /\ Budget

-----------------------------------------------------------------------------

\* Appending a new block keeps the blocks of a sequence distinct.
LEMMA AppendFacts ==
  ASSUME NEW s \in Seq(Block), NEW e \in Block, Distinct(s), ~Logged(s, e)
  PROVE  /\ Distinct(Append(s, e))
         /\ \A b \in Block : Logged(Append(s, e), b) <=> Logged(s, b) \/ b = e
<1>1. /\ Append(s, e) \in Seq(Block) /\ Len(Append(s, e)) = Len(s) + 1
      /\ Append(s, e)[Len(s) + 1] = e
      /\ \A i \in 1..Len(s) : Append(s, e)[i] = s[i]
  OBVIOUS
<1>2. Len(s) \in Nat
  OBVIOUS
<1> QED
  BY <1>1, <1>2, SMTT(20) DEF Distinct, Logged

\* The place of a block in a sequence of distinct blocks.
LEMMA PlaceFacts ==
  ASSUME NEW s \in Seq(Block), Distinct(s), NEW i \in 1..Len(s)
  PROVE  (CHOOSE j \in 1..Len(s) : s[j] = s[i]) = i
BY SMTT(20) DEF Distinct

\* The facts about finite sets that counting log.outstanding rests on.  They are
\* a hypothesis of the lemmas, and proved before the theorems (FiniteSetsCount),
\* so that the library of such facts is not part of every step.
FiniteFacts ==
  /\ IsFiniteSet({}) /\ Cardinality({}) = 0
  /\ \A S : IsFiniteSet(S) => Cardinality(S) \in Nat /\ (Cardinality(S) = 0 => S = {})
  /\ \A S, p : IsFiniteSet(S) /\ p \notin S =>
       IsFiniteSet(S \cup {p}) /\ Cardinality(S \cup {p}) = Cardinality(S) + 1
  /\ \A S, p : IsFiniteSet(S) /\ p \in S =>
       IsFiniteSet(S \ {p}) /\ Cardinality(S \ {p}) = Cardinality(S) - 1
  /\ \A S, T : IsFiniteSet(S) /\ T \subseteq S =>
       IsFiniteSet(T) /\ Cardinality(T) <= Cardinality(S)
  /\ \A n \in Nat : IsFiniteSet(1..n) /\ Cardinality(1..n) = n
  /\ \A S, T : IsFiniteSet(S) /\ IsFiniteSet(T) =>
       IsFiniteSet(S \X T) /\ Cardinality(S \X T) = Cardinality(S) * Cardinality(T)

\* The set of active processes when one joins and when one leaves.
LEMMA Joins ==
  ASSUME FiniteFacts, NEW S, NEW T, NEW p, IsFiniteSet(S), p \notin S, T = S \cup {p}
  PROVE  IsFiniteSet(T) /\ Cardinality(T) = Cardinality(S) + 1
BY Zenon DEF FiniteFacts

LEMMA Leaves ==
  ASSUME FiniteFacts, NEW S, NEW T, NEW p, IsFiniteSet(S), p \in S, T = S \ {p}
  PROVE  IsFiniteSet(T) /\ Cardinality(T) = Cardinality(S) - 1
BY Zenon DEF FiniteFacts

\* Somebody is active exactly if outstanding is not 0.
LEMMA CountFacts ==
  ASSUME FiniteFacts, Counted
  PROVE  /\ outstanding \in Nat
         /\ outstanding = 0 <=> Active = {}
         /\ outstanding = 1 => \A p, q \in Active : p = q
<1>1. outstanding \in Nat /\ (outstanding = 0 <=> Active = {})
  BY Zenon DEF FiniteFacts, Counted
<1>2. ASSUME outstanding = 1, NEW p \in Active, NEW q \in Active PROVE p = q
  <2> DEFINE T == Active \ {p}
  <2>0. IsFiniteSet(T) /\ Cardinality(T) = Cardinality(Active) - 1
    <3> HIDE DEF T
    <3> QED
      BY Leaves, Zenon DEF T, Counted
  <2>1. IsFiniteSet(T) /\ Cardinality(T) = 0
    BY <1>2, <2>0 DEF Counted
  <2>2. T = {}
    <3> HIDE DEF T
    <3> QED
      BY <2>1, Zenon DEF FiniteFacts
  <2> QED
    BY <1>2, <2>2, Zenon
<1> QED
  BY <1>1, <1>2, Zenon

-----------------------------------------------------------------------------

LEMMA Constants ==
  /\ inodestart \in Block
  /\ MAXOPBLOCKS \in Nat /\ LOGSIZE \in Nat /\ nlog \in Nat /\ OpBlocks \in Nat /\ MaxOps \in Nat
  /\ MAXOPBLOCKS <= LOGSIZE
BY LogAssumption, Zenon

\* The invariant holds when the machine starts.
LEMMA InitInv == FiniteFacts /\ Init /\ Fits => Inv
<1> SUFFICES ASSUME FiniteFacts, Init, Fits PROVE Inv
  BY Zenon
<1>1. TypeOK
  BY Constants DEF Init, TypeOK, Value
<1>2. Active = {}
  BY Zenon DEF Active, Init
<1>3. Counted
  BY <1>2, Zenon DEF FiniteFacts, Counted, Init
<1>4. OneCommits
  BY <1>2, Zenon DEF OneCommits, Committer, Init
<1>5. Headers
  BY Constants DEF Headers, Distinct, Init, Fits
<1>6. Phases /\ Sleepers
  BY Zenon DEF Phases, Sleepers, SleepersWillWake, Init
<1>7. Recovery
  BY Zenon DEF Recovery, Init
<1>8. Budget
  BY Zenon DEF Budget, Init
<1> QED
  BY <1>1, <1>3, <1>4, <1>5, <1>6, <1>7, <1>8, Zenon DEF Inv

\* What the disk and the cache hold while a committed transaction is installed.
LEMMA InstallPhase ==
  ASSUME Inv, mode = "up", NEW p \in Proc, pc[p] = "install"
  PROVE  /\ lh = head
         /\ \A i \in 1..Len(lh) : logdata[i] = cache[lh[i]]
         /\ \A i \in 1..tail : home[lh[i]] = cache[lh[i]]
         /\ \A b \in Block : ~Logged(lh, b) => cache[b] = home[b]
BY Zenon DEF Inv, Phases

\* begin_op(): a sleeper is only added while somebody is active or commits.
LEMMA BeginOpInv ==
  ASSUME FiniteFacts, Inv, NEW p \in Proc, BeginOp(p)
  PROVE  Inv'
<1>1. TypeOK'
  <2>1. CASE MustWait
    BY <2>1, Zenon DEF Inv, TypeOK, BeginOp, Goto, Up, diskVars
  <2>2. CASE ~MustWait
    <3>1. ops \in 0..MaxOps /\ outstanding \in Nat
      BY Zenon DEF Inv, TypeOK
    <3>2. ops < MaxOps
      BY Zenon DEF BeginOp
    <3>3. ops + 1 \in 0..MaxOps /\ outstanding + 1 \in Nat
      BY <3>1, <3>2, Constants
    <3>4. op' \in [Proc -> Value] /\ left' \in [Proc -> 0..OpBlocks] /\ wrote' \in [Proc -> SUBSET Block]
      <4>1. /\ op' = [op EXCEPT ![p] = ops + 1] /\ left' = [left EXCEPT ![p] = OpBlocks]
            /\ wrote' = [wrote EXCEPT ![p] = {}]
        BY <2>2, Zenon DEF BeginOp
      <4>2. op \in [Proc -> Value] /\ left \in [Proc -> 0..OpBlocks] /\ wrote \in [Proc -> SUBSET Block]
        BY Zenon DEF Inv, TypeOK
      <4>3. ops + 1 \in Value /\ OpBlocks \in 0..OpBlocks
        BY <3>3, Constants DEF Value
      <4> QED
        BY <4>1, <4>2, <4>3, Zenon
    <3>5. pc' \in [Proc -> {"idle", "sleep", "woken", "op", "write", "write_log", "install", "done"}]
      BY <2>2, Zenon DEF Inv, TypeOK, BeginOp, Goto
    <3> QED
      BY <2>2, <3>3, <3>4, <3>5, Zenon DEF Inv, TypeOK, BeginOp, diskVars
  <2> QED
    BY <2>1, <2>2, Zenon
<1>2. CASE MustWait
  <2>1. Active' = Active
    BY <1>2, Zenon DEF Inv, TypeOK, Active, BeginOp, Goto, Up
  <2>2. Counted'
    BY <1>2, <2>1, Zenon DEF Inv, Counted, BeginOp
  <2>3. OneCommits'
    BY <1>2, <2>1 DEF Inv, TypeOK, OneCommits, Committer, BeginOp, Goto, Up
  <2>4. Headers'
    BY DEF Inv, Headers, Distinct, BeginOp, diskVars
  <2>5. Phases'
    BY <1>2, <2>1 DEF Inv, TypeOK, Phases, BeginOp, Goto, Up, Logged, diskVars
  <2>6. outstanding > 0 \/ committing = 1
    <3> SUFFICES ASSUME outstanding = 0, committing /= 1 PROVE FALSE
      BY CountFacts DEF Inv
    <3>1. Active = {} /\ committing = 0
      BY CountFacts, Zenon DEF Inv, TypeOK
    <3>2. lh = <<>>
      BY <3>1, Zenon DEF Inv, Phases, BeginOp, Up
    <3>3. (outstanding + 1) * MAXOPBLOCKS = MAXOPBLOCKS
      BY Constants
    <3> QED
      BY <1>2, <3>1, <3>2, <3>3, Constants DEF MustWait
  <2>8. Budget'
    BY <1>2, Zenon DEF Inv, TypeOK, Budget, BeginOp, Goto, Up
  <2>7. Recovery' /\ Sleepers'
    BY <1>2, <2>6, Zenon DEF Recovery, Sleepers, SleepersWillWake, BeginOp, Up
  <2> QED
    BY <1>1, <2>2, <2>3, <2>4, <2>5, <2>7, <2>8, Zenon DEF Inv
<1>3. CASE ~MustWait
  <2>1. p \notin Active /\ Active' = Active \cup {p}
    BY <1>3 DEF Inv, TypeOK, Active, BeginOp, Goto, Up
  <2>2. Counted'
    BY <1>3, <2>1, Joins, Zenon DEF Inv, Counted, BeginOp
  <2>3. OneCommits'
    BY <1>3, <2>1 DEF Inv, TypeOK, OneCommits, Committer, BeginOp, Goto, Up, MustWait
  <2>4. Headers'
    BY DEF Inv, Headers, Distinct, BeginOp, diskVars
  <2>5. Phases'
    BY <1>3, <2>1 DEF Inv, TypeOK, Phases, BeginOp, Goto, Up, Logged, diskVars
  <2>6. outstanding' > 0
    BY <1>3, CountFacts DEF Inv, BeginOp
  <2>8. Budget'
    BY <1>3, Zenon DEF Inv, TypeOK, Budget, BeginOp, Goto, Up
  <2>7. Recovery' /\ Sleepers'
    BY <1>3, <2>6, Zenon DEF Recovery, Sleepers, SleepersWillWake, BeginOp, Up
  <2> QED
    BY <1>1, <2>2, <2>3, <2>4, <2>5, <2>7, <2>8, Zenon DEF Inv
<1> QED
  BY <1>2, <1>3, Zenon

\* log_write(), the checks: only pc changes, and mode when they fail.
LEMMA LogWriteCheckInv ==
  ASSUME Inv, NEW p \in Proc, NEW b \in Block, LogWriteCheck(p, b)
  PROVE  Inv'
<1>1. TypeOK'
  BY Constants DEF Inv, TypeOK, LogWriteCheck, Goto, Up, Value, diskVars, logVars, procVars
<1>2. Active' = Active
  BY Zenon DEF Inv, TypeOK, Active, LogWriteCheck, Goto, Up, procVars
<1>3. Counted'
  BY <1>2, Zenon DEF Inv, Counted, LogWriteCheck, logVars
<1>4. OneCommits'
  BY <1>2 DEF Inv, TypeOK, OneCommits, Committer, LogWriteCheck, Goto, Up, logVars, procVars
<1>5. Headers'
  BY DEF Inv, Headers, Distinct, LogWriteCheck, diskVars, logVars
<1>6. Phases'
  BY <1>2 DEF Inv, TypeOK, Phases, LogWriteCheck, Goto, Up, Logged, diskVars, logVars, procVars
<1>7. Recovery' /\ Sleepers'
  BY Zenon DEF Inv, TypeOK, Recovery, Sleepers, SleepersWillWake, LogWriteCheck, Goto, Up, logVars, procVars
<1>8. Budget'
  BY Zenon DEF Inv, TypeOK, Budget, LogWriteCheck, Goto, Up, procVars
<1> QED
  BY <1>1, <1>3, <1>4, <1>5, <1>6, <1>7, <1>8, Zenon DEF Inv

\* log_write(), its critical section: nobody commits, so only memory changes.
LEMMA LogWriteInv ==
  ASSUME Inv, NEW p \in Proc, LogWrite(p)
  PROVE  Inv'
<1> DEFINE b == bp[p]
<1>1. /\ b \in Block /\ lh \in Seq(Block) /\ op[p] \in Value
      /\ cache' = [cache EXCEPT ![b] = op[p]] /\ cache \in [Block -> Value]
      /\ lh' = IF Logged(lh, b) THEN lh ELSE Append(lh, b)
      /\ p \in Active
  BY Zenon DEF Inv, TypeOK, LogWrite, Up, Active
<1>2. committing = 0 /\ \A q \in Proc : ~Committer(q)
  BY <1>1, Zenon DEF Inv, TypeOK, OneCommits
<1>3. Active' = Active
  BY Zenon DEF Inv, TypeOK, Active, LogWrite, Goto, Up
<1>4. lh' \in Seq(Block) /\ Distinct(lh') /\ \A c \in Block : Logged(lh', c) <=> Logged(lh, c) \/ c = b
  <2>1. CASE Logged(lh, b)
    BY <1>1, <2>1, Zenon DEF Inv, Headers
  <2>2. CASE ~Logged(lh, b)
    <3>1. lh' = Append(lh, b) /\ lh' \in Seq(Block)
      BY <1>1, <2>2
    <3> QED
      BY <1>1, <2>2, <3>1, AppendFacts DEF Inv, Headers
  <2> QED
    BY <2>1, <2>2, Zenon
<1>5. TypeOK'
  <2>1. left[p] > 0 \/ b \in wrote[p]
    BY Zenon DEF Inv, Budget, LogWrite, Up
  <2>2. left' \in [Proc -> 0..OpBlocks]
    <3>1. left' = [left EXCEPT ![p] = IF b \in wrote[p] THEN left[p] ELSE left[p] - 1]
      BY Zenon DEF LogWrite
    <3>2. left \in [Proc -> 0..OpBlocks]
      BY Zenon DEF Inv, TypeOK
    <3> HIDE DEF b
    <3> QED
      BY <2>1, <3>1, <3>2, Constants
  <2>3. wrote' \in [Proc -> SUBSET Block]
    <3>1. wrote' = [wrote EXCEPT ![p] = wrote[p] \cup {b}] /\ wrote \in [Proc -> SUBSET Block]
      BY Zenon DEF LogWrite, Inv, TypeOK
    <3> HIDE DEF b
    <3> QED
      BY <1>1, <3>1
  <2>4. /\ pc' \in [Proc -> {"idle", "sleep", "woken", "op", "write", "write_log", "install", "done"}]
        /\ bp' \in [Proc -> Block] /\ cache' \in [Block -> Value]
    BY <1>1, Constants, Zenon DEF Inv, TypeOK, LogWrite, Goto
  <2> QED
    BY <1>4, <2>2, <2>3, <2>4, Zenon DEF Inv, TypeOK, LogWrite, diskVars
<1>6. Counted'
  BY <1>3, Zenon DEF Inv, Counted, LogWrite
<1>7. OneCommits'
  BY <1>2, <1>3, Zenon DEF Inv, TypeOK, OneCommits, Committer, LogWrite, Goto, Up
<1>8. Headers'
  BY <1>4 DEF Inv, Headers, Distinct, LogWrite, diskVars
<1>9. Phases'
  <2>1. head = <<>> /\ tail = 0 /\ \A c \in Block : ~Logged(lh, c) => cache[c] = home[c]
    BY <1>2, Zenon DEF Inv, Phases, LogWrite, Up, Committer
  <2>2. \A c \in Block : ~Logged(lh', c) => cache'[c] = home'[c]
    BY <1>1, <1>4, <2>1, Zenon DEF LogWrite, diskVars
  <2>3. \A q \in Proc : ~Committer(q)'
    BY <1>2, Zenon DEF Inv, TypeOK, LogWrite, Committer, Goto
  <2> QED
    BY <1>1, <1>3, <2>1, <2>2, <2>3, Zenon DEF Phases, LogWrite, diskVars, Committer
<1>10. Recovery' /\ Sleepers'
  BY Zenon DEF Inv, TypeOK, Recovery, Sleepers, SleepersWillWake, LogWrite, Goto, Up
<1>11. Budget'
  BY Zenon DEF Inv, TypeOK, Budget, LogWrite, Goto, Up
<1> QED
  BY <1>5, <1>6, <1>7, <1>8, <1>9, <1>10, <1>11, Zenon DEF Inv

\* end_op(): the last one to leave starts the commit.
LEMMA EndOpInv ==
  ASSUME FiniteFacts, Inv, NEW p \in Proc, EndOp(p)
  PROVE  Inv'
<1>1. p \in Active /\ committing = 0 /\ mode = "up" /\ pc[p] = "op"
  BY Zenon DEF Inv, TypeOK, Active, OneCommits, EndOp, Up
<1>2. /\ outstanding' = outstanding - 1 /\ outstanding \in Nat \ {0}
      /\ mode' = mode /\ lh' = lh /\ cache' = cache /\ tail' = tail /\ ops' = ops /\ bp' = bp
      /\ home' = home /\ logdata' = logdata /\ head' = head
      /\ op' = [op EXCEPT ![p] = 0] /\ left' = [left EXCEPT ![p] = 0]
      /\ wrote' = [wrote EXCEPT ![p] = {}]
  BY <1>1, CountFacts DEF Inv, EndOp, diskVars
<1>3. \A q \in Proc : ~Committer(q)
  BY <1>1, Zenon DEF Inv, OneCommits
<1>4. CASE outstanding = 1
  <2> DEFINE at == IF NothingToCommit THEN "done" ELSE "write_log"
  <2>1. committing' = 1 /\ pc' = [pc EXCEPT ![p] = at]
    BY <1>1, <1>4 DEF EndOp, Goto
  <2>2. Active = {p}
    BY <1>1, <1>4, CountFacts, Zenon DEF Inv
  <2>3. Active' = {} /\ Active' = Active \ {p}
    BY <2>1, <2>2, Zenon DEF Inv, TypeOK, Active
  <2>4. TypeOK'
    <3>1. op' \in [Proc -> Value] /\ left' \in [Proc -> 0..OpBlocks] /\ wrote' \in [Proc -> SUBSET Block]
      BY <1>2, Constants DEF Inv, TypeOK, Value
    <3>2. pc' \in [Proc -> {"idle", "sleep", "woken", "op", "write", "write_log", "install", "done"}]
      BY <2>1, Zenon DEF Inv, TypeOK
    <3> QED
      BY <1>2, <2>1, <3>1, <3>2 DEF Inv, TypeOK
  <2>5. Counted'
    BY <1>1, <1>2, <2>3, Leaves, Zenon DEF Inv, Counted
  <2>6. OneCommits'
    BY <1>3, <2>1, <2>3, Zenon DEF Inv, TypeOK, OneCommits, Committer
  <2>7. Headers'
    BY <1>2 DEF Inv, Headers, Distinct
  <2>8. Phases'
    <3>1. head = <<>> /\ tail = 0 /\ \A b \in Block : ~Logged(lh, b) => cache[b] = home[b]
      BY <1>1, <1>3, Zenon DEF Inv, Phases, Committer
    <3>2. \A q \in Proc : pc'[q] /= "install"
      BY <1>3, <2>1, Zenon DEF Inv, TypeOK, Committer
    <3>3. \A q \in Proc : pc'[q] = "done" => lh = <<>>
      BY <1>3, <2>1 DEF Inv, TypeOK, Committer, NothingToCommit
    <3> QED
      BY SMTT(60), <1>1, <1>2, <2>1, <3>1, <3>2, <3>3 DEF Inv, TypeOK, Phases, Logged
  <2>9. Recovery' /\ Sleepers'
    BY <1>1, <1>2, <2>1, Zenon DEF Recovery, Sleepers, SleepersWillWake
  <2>10. Budget'
    BY <1>2, <2>1, Zenon DEF Inv, TypeOK, Budget
  <2> QED
    BY <2>4, <2>5, <2>6, <2>7, <2>8, <2>9, <2>10, Zenon DEF Inv
<1>5. CASE outstanding /= 1
  <2>1. committing' = committing /\ pc' = [Woken EXCEPT ![p] = "idle"]
    BY <1>1, <1>5 DEF EndOp
  <2>2. \A q \in Proc : pc'[q] = IF q = p THEN "idle" ELSE IF pc[q] = "sleep" THEN "woken" ELSE pc[q]
    BY <2>1, Zenon DEF Woken
  <2>3. Active' = Active \ {p}
    BY <2>2, Zenon DEF Active
  <2>4. TypeOK'
    BY <1>2, <2>1, Constants DEF Inv, TypeOK, Value, Woken
  <2>5. Counted'
    BY <1>1, <1>2, <2>3, Leaves, Zenon DEF Inv, Counted
  <2>6. OneCommits'
    BY <1>1, <1>3, <2>1, <2>2 DEF OneCommits, Committer
  <2>7. Headers'
    BY <1>2 DEF Inv, Headers, Distinct
  <2>8. outstanding' > 0
    BY <1>2, <1>5
  <2>9. Active' /= {}
    <3>1. Cardinality(Active)' = outstanding'
      BY <2>5, Zenon DEF Counted
    <3>2. Cardinality({}) = 0
      BY Zenon DEF FiniteFacts
    <3> HIDE DEF Active
    <3> QED
      BY <2>8, <3>1, <3>2
  <2>10. Phases'
    <3>1. head = <<>> /\ tail = 0 /\ \A b \in Block : ~Logged(lh, b) => cache[b] = home[b]
      BY <1>1, <1>3, Zenon DEF Inv, Phases, Committer
    <3>2. \A q \in Proc : ~Committer(q)'
      BY <1>3, <2>2, Zenon DEF Committer
    <3> QED
      BY <1>2, <2>9, <3>1, <3>2, Zenon DEF Phases, Committer, Logged
  <2>11. Recovery' /\ Sleepers'
    BY <1>1, <1>2, <2>8, Zenon DEF Recovery, Sleepers, SleepersWillWake
  <2>12. Budget'
    BY <1>2, <2>2, Zenon DEF Inv, TypeOK, Budget
  <2> QED
    BY <2>4, <2>5, <2>6, <2>7, <2>10, <2>11, <2>12, Zenon DEF Inv
<1> QED
  BY <1>4, <1>5, Zenon

\* Only the committing process is past end_op()'s first half.
LEMMA Alone ==
  ASSUME Inv, NEW p \in Proc, Committer(p)
  PROVE  committing = 1 /\ Active = {} /\ \A q \in Proc : Committer(q) => q = p
BY Zenon DEF Inv, OneCommits

\* write_log(): the copies in the log are those of memory, which does not change.
LEMMA WriteLogInv ==
  ASSUME Inv, Fits, NEW p \in Proc, WriteLog(p)
  PROVE  Inv'
<1>1. /\ mode = "up" /\ pc[p] = "write_log" /\ tail < Len(lh) /\ tail + 1 < nlog /\ tail \in Nat
      /\ Len(lh) \in Nat
  BY Constants DEF WriteLog, Up, Fits, Inv, TypeOK
<1>2. /\ logdata' = [logdata EXCEPT ![tail + 1] = cache[lh[tail + 1]]]
      /\ tail' = tail + 1
      /\ home' = home /\ cache' = cache /\ head' = head /\ lh' = lh /\ outstanding' = outstanding
      /\ committing' = committing /\ pc' = pc /\ op' = op /\ left' = left /\ wrote' = wrote /\ bp' = bp /\ ops' = ops
      /\ mode' = mode
  BY <1>1, Zenon DEF WriteLog, logVars, procVars
<1>3. lh[tail + 1] \in Block
  BY <1>1 DEF Inv, TypeOK
<1>4. TypeOK'
  BY <1>1, <1>2, <1>3, Constants DEF Inv, TypeOK
<1>5. Active' = Active
  BY <1>2, Zenon DEF Active
<1>6. Counted' /\ OneCommits' /\ Headers' /\ Recovery' /\ Sleepers' /\ Budget'
  BY <1>1, <1>2, <1>5 DEF Inv, Counted, OneCommits, Committer, Headers, Distinct, Recovery, Sleepers, SleepersWillWake, Budget
<1>7. Phases'
  <2>1. /\ head = <<>>
        /\ \A i \in 1..tail : logdata[i] = cache[lh[i]]
        /\ \A b \in Block : ~Logged(lh, b) => cache[b] = home[b]
    BY <1>1, Zenon DEF Inv, Phases
  <2>2. \A i \in 1..(tail + 1) : logdata'[i] = cache[lh[i]]
    BY <1>1, <1>2, <2>1, Constants DEF Inv, TypeOK
  <2>3. \A q \in Proc : Committer(q) => q = p
    BY <1>1, Alone, Zenon DEF Committer
  <2>4. committing = 1
    BY <1>1, Alone, Zenon DEF Committer
  <2> QED
    BY SMTT(60), <1>1, <1>2, <1>5, <2>1, <2>2, <2>3, <2>4 DEF Phases, Committer, Logged
<1> QED
  BY <1>4, <1>6, <1>7, Zenon DEF Inv

\* write_head(): the commit.
LEMMA WriteHeadInv ==
  ASSUME Inv, Fits, NEW p \in Proc, WriteHead(p)
  PROVE  Inv'
<1>1. mode = "up" /\ pc[p] = "write_log" /\ tail = Len(lh) /\ Len(lh) \in Nat
  BY Zenon DEF WriteHead, Up, LogWritten, Inv, TypeOK
<1>2. /\ head' = lh /\ tail' = 0 /\ pc' = [pc EXCEPT ![p] = "install"]
      /\ home' = home /\ cache' = cache /\ logdata' = logdata /\ lh' = lh /\ outstanding' = outstanding
      /\ committing' = committing /\ op' = op /\ left' = left /\ wrote' = wrote /\ bp' = bp /\ ops' = ops
      /\ mode' = mode
  BY Zenon DEF WriteHead, logVars, Goto
<1>3. TypeOK'
  BY <1>2, Zenon DEF Inv, TypeOK
<1>4. Active' = Active
  BY <1>1, <1>2, Zenon DEF Active, Inv, TypeOK
<1>5. committing = 1 /\ \A q \in Proc : Committer(q) => q = p
  BY <1>1, Alone, Zenon DEF Committer
<1>6. Counted' /\ Headers' /\ Recovery'
  BY <1>1, <1>2, <1>4 DEF Inv, Counted, Headers, Distinct, Recovery, Fits
<1>7. OneCommits' /\ Sleepers' /\ Budget'
  BY <1>1, <1>2, <1>4, <1>5 DEF Inv, TypeOK, OneCommits, Committer, Sleepers, SleepersWillWake, Budget
<1>8. Phases'
  <2>1. /\ \A i \in 1..Len(lh) : logdata[i] = cache[lh[i]]
        /\ \A b \in Block : ~Logged(lh, b) => cache[b] = home[b]
    BY <1>1, Zenon DEF Inv, Phases
  <2>2. \A q \in Proc : Committer(q)' => q = p /\ pc'[q] = "install"
    BY <1>2, <1>5, Zenon DEF Committer, Inv, TypeOK
  <2>3. pc'[p] = "install"
    BY <1>2, Zenon DEF Inv, TypeOK
  <2> QED
    BY SMTT(60), <1>1, <1>2, <1>5, <2>1, <2>2, <2>3 DEF Phases, Committer, Logged
<1> QED
  BY <1>3, <1>6, <1>7, <1>8, Zenon DEF Inv

\* install_trans() on the way up: home blocks get what memory has already.
LEMMA InstallTransInv ==
  ASSUME Inv, NEW p \in Proc, InstallTrans(p)
  PROVE  Inv'
<1>1. /\ mode = "up" /\ pc[p] = "install" /\ tail < Len(lh) /\ tail \in Nat /\ Len(lh) \in Nat
      /\ head = lh /\ Len(head) < nlog /\ Distinct(lh) /\ lh \in Seq(Block)
      /\ \A i \in 1..Len(lh) : logdata[i] = cache[lh[i]]
      /\ \A i \in 1..tail : home[lh[i]] = cache[lh[i]]
      /\ \A b \in Block : ~Logged(lh, b) => cache[b] = home[b]
  BY SMTT(60) DEF InstallTrans, InstallBlock, Up, Inv, TypeOK, Headers, Phases
<1> DEFINE b == lh[tail + 1]
<1>2. b \in Block /\ Logged(lh, b) /\ LogBlock(tail + 1) = cache[b] /\ cache[b] \in Value
  <2>1. tail + 1 \in 1..Len(lh) /\ tail + 1 < nlog
    BY <1>1, Constants
  <2>2. b \in Block
    BY <1>1, <2>1
  <2>3. cache[b] \in Value
    BY <2>2, Zenon DEF Inv, TypeOK
  <2> QED
    BY <1>1, <2>1, <2>2, <2>3, Zenon DEF LogBlock, Logged
<1>3. /\ home' = [home EXCEPT ![b] = cache[b]] /\ tail' = tail + 1
      /\ cache' = [cache EXCEPT ![b] = cache[b]]
      /\ head' = head /\ logdata' = logdata /\ lh' = lh /\ outstanding' = outstanding
      /\ committing' = committing /\ pc' = pc /\ op' = op /\ left' = left /\ wrote' = wrote /\ bp' = bp /\ ops' = ops
      /\ mode' = mode
  BY <1>2, Zenon DEF InstallTrans, InstallBlock, logVars, procVars
<1>4. cache' = cache
  BY <1>2, <1>3, Zenon DEF Inv, TypeOK
<1>5. TypeOK'
  BY SMTT(60), <1>1, <1>2, <1>3, <1>4 DEF Inv, TypeOK
<1>6. Active' = Active
  BY <1>3, Zenon DEF Active
<1>7. Counted' /\ OneCommits' /\ Headers' /\ Recovery' /\ Sleepers' /\ Budget'
  BY SMTT(60), <1>1, <1>3, <1>6 DEF Inv, Counted, OneCommits, Committer, Headers, Distinct, Recovery, Sleepers, SleepersWillWake, Budget
<1>8. Phases'
  <2>1. \A i \in 1..(tail + 1) : home'[lh[i]] = cache[lh[i]]
    BY SMTT(60), <1>1, <1>2, <1>3 DEF Inv, TypeOK
  <2>2. \A c \in Block : ~Logged(lh, c) => cache[c] = home'[c]
    BY <1>1, <1>2, <1>3, Zenon DEF Inv, TypeOK
  <2>3. committing = 1 /\ \A q \in Proc : Committer(q) => q = p
    BY <1>1, Alone, Zenon DEF Committer
  <2> QED
    BY SMTT(60), <1>1, <1>3, <1>4, <2>1, <2>2, <2>3 DEF Phases, Committer, Logged
<1> QED
  BY <1>5, <1>7, <1>8, Zenon DEF Inv

\* The log is erased when everything is installed.
LEMMA EraseInv ==
  ASSUME Inv, NEW p \in Proc, Erase(p)
  PROVE  Inv'
<1>0. mode = "up" /\ pc[p] = "install" /\ tail = Len(lh)
  BY Zenon DEF Erase, EraseHead, Up
<1>1. /\ mode = "up" /\ pc[p] = "install" /\ tail = Len(lh)
      /\ \A i \in 1..Len(lh) : home[lh[i]] = cache[lh[i]]
      /\ \A b \in Block : ~Logged(lh, b) => cache[b] = home[b]
  BY <1>0, InstallPhase, Zenon
<1>2. /\ lh' = <<>> /\ head' = <<>> /\ tail' = 0 /\ pc' = [pc EXCEPT ![p] = "done"]
      /\ home' = home /\ cache' = cache /\ logdata' = logdata /\ outstanding' = outstanding
      /\ committing' = committing /\ op' = op /\ left' = left /\ wrote' = wrote /\ bp' = bp /\ ops' = ops
      /\ mode' = mode
  BY Zenon DEF Erase, EraseHead, Goto
<1>3. TypeOK'
  BY <1>2 DEF Inv, TypeOK
<1>4. Active' = Active
  BY <1>1, <1>2, Zenon DEF Active, Inv, TypeOK
<1>5. committing = 1 /\ \A q \in Proc : Committer(q) => q = p
  BY <1>1, Alone, Zenon DEF Committer
<1>6. Counted' /\ Recovery'
  BY <1>1, <1>2, <1>4, Zenon DEF Inv, Counted, Recovery
<1>7. Headers'
  BY <1>2, Constants DEF Inv, TypeOK, Headers, Distinct
<1>8. OneCommits' /\ Sleepers' /\ Budget'
  BY <1>1, <1>2, <1>4, <1>5, Zenon DEF Inv, TypeOK, OneCommits, Committer, Sleepers, SleepersWillWake, Budget
<1>9. Phases'
  <2>1. \A b \in Block : cache[b] = home[b]
    BY <1>1, Zenon DEF Logged
  <2>2. \A q \in Proc : pc'[q] \notin {"write_log", "install"}
    BY <1>2, <1>5, Zenon DEF Committer, Inv, TypeOK
  <2> QED
    BY <1>2, <2>1, <2>2, Zenon DEF Phases
<1> QED
  BY <1>3, <1>6, <1>7, <1>8, <1>9, Zenon DEF Inv

\* end_op() after the commit: all sleepers are woken.
LEMMA EndCommitInv ==
  ASSUME Inv, NEW p \in Proc, EndCommit(p)
  PROVE  Inv'
<1>1. mode = "up" /\ pc[p] = "done" /\ lh = <<>>
  BY Zenon DEF EndCommit, Up, Inv, Phases
<1>2. committing = 1 /\ Active = {} /\ \A q \in Proc : Committer(q) => q = p
  BY <1>1, Alone, Zenon DEF Committer
<1>3. \A q \in Proc : pc'[q] = IF q = p THEN "idle" ELSE IF pc[q] = "sleep" THEN "woken" ELSE pc[q]
  BY Zenon DEF EndCommit, Woken
<1>4. /\ committing' = 0 /\ lh' = lh /\ head' = head /\ tail' = tail
      /\ home' = home /\ cache' = cache /\ logdata' = logdata /\ outstanding' = outstanding
      /\ op' = op /\ left' = left /\ wrote' = wrote /\ bp' = bp /\ ops' = ops /\ mode' = mode
  BY Zenon DEF EndCommit, diskVars
<1>5. TypeOK'
  <2>1. pc' \in [Proc -> {"idle", "sleep", "woken", "op", "write", "write_log", "install", "done"}]
    BY Zenon DEF Inv, TypeOK, EndCommit, Woken
  <2> QED
    BY <1>4, <2>1, Zenon DEF Inv, TypeOK
<1>6. Active' = Active
  BY <1>1, <1>3, Zenon DEF Active
<1>7. Counted' /\ Headers' /\ Recovery'
  BY <1>1, <1>4, <1>6 DEF Inv, Counted, Headers, Distinct, Recovery
<1>8. OneCommits' /\ Sleepers' /\ Budget'
  BY <1>1, <1>2, <1>3, <1>4, <1>6, Zenon DEF Inv, OneCommits, Committer, Sleepers, SleepersWillWake, Budget
<1>9. Phases'
  <2>1. \A q \in Proc : ~Committer(q)'
    BY <1>2, <1>3, Zenon DEF Committer
  <2>2. \A q \in Proc : pc[q] \notin {"write_log", "install"}
    BY <1>1, <1>2, Zenon DEF Committer
  <2> QED
    BY <1>1, <1>4, <2>1, <2>2 DEF Inv, Phases, Committer, Logged
<1> QED
  BY <1>5, <1>7, <1>8, <1>9, Zenon DEF Inv

\* initlog(): the header is read.
LEMMA ReadHeadInv ==
  ASSUME Inv, ReadHead
  PROVE  Inv'
<1>1. /\ mode = "recovery" /\ mode' = "install" /\ lh' = head /\ tail' = tail /\ tail = 0
      /\ cache = home /\ \A p \in Proc : pc[p] = "idle"
      /\ outstanding = 0 /\ committing = 0
  BY Zenon DEF ReadHead, Inv, Recovery
<1>2. /\ head' = head /\ logdata' = logdata /\ home' = home /\ cache' = cache
      /\ outstanding' = outstanding /\ committing' = committing
      /\ pc' = pc /\ op' = op /\ left' = left /\ wrote' = wrote /\ bp' = bp /\ ops' = ops
  BY Zenon DEF ReadHead, diskVars, procVars
<1>3. TypeOK'
  BY <1>1, <1>2, Zenon DEF Inv, TypeOK
<1>4. Counted' /\ OneCommits' /\ Headers' /\ Budget'
  BY <1>1, <1>2 DEF Inv, Active, Counted, OneCommits, Committer, Headers, Distinct, Budget
<1>5. Recovery'
  BY <1>1, <1>2 DEF Recovery, Inv, TypeOK
<1>6. Phases' /\ Sleepers'
  BY <1>1, Zenon DEF Phases, Sleepers, SleepersWillWake
<1> QED
  BY <1>3, <1>4, <1>5, <1>6, Zenon DEF Inv

\* install_trans() in recovery: a block goes home from the log.
LEMMA RecoverBlockInv ==
  ASSUME Inv, RecoverBlock
  PROVE  Inv'
<1>1. /\ mode = "install" /\ lh = head /\ tail < Len(lh) /\ tail \in Nat /\ Len(lh) \in Nat
      /\ Len(head) < nlog /\ Distinct(lh) /\ lh \in Seq(Block)
      /\ cache = home /\ \A p \in Proc : pc[p] = "idle"
      /\ outstanding = 0 /\ committing = 0
      /\ \A i \in 1..tail : home[lh[i]] = logdata[i]
  BY DEF RecoverBlock, InstallBlock, Inv, TypeOK, Headers, Recovery
<1> DEFINE b == lh[tail + 1]
<1>2. b \in Block /\ LogBlock(tail + 1) = logdata[tail + 1] /\ logdata[tail + 1] \in Value
  BY <1>1, Constants DEF Inv, TypeOK, LogBlock
<1>3. /\ home' = [home EXCEPT ![b] = logdata[tail + 1]]
      /\ cache' = [cache EXCEPT ![b] = logdata[tail + 1]]
      /\ tail' = tail + 1
      /\ head' = head /\ logdata' = logdata /\ lh' = lh /\ outstanding' = outstanding
      /\ committing' = committing /\ pc' = pc /\ op' = op /\ left' = left /\ wrote' = wrote /\ bp' = bp /\ ops' = ops
      /\ mode' = mode
  BY <1>2, Zenon DEF RecoverBlock, InstallBlock, logVars, procVars
<1>4. TypeOK'
  BY SMTT(60), <1>1, <1>2, <1>3 DEF Inv, TypeOK
<1>5. Counted' /\ OneCommits' /\ Headers' /\ Budget'
  BY SMTT(60), <1>1, <1>3 DEF Inv, Active, Counted, OneCommits, Committer, Headers, Distinct, Budget
<1>6. Recovery'
  <2>1. \A i \in 1..(tail + 1) : home'[lh[i]] = logdata[i]
    BY SMTT(60), <1>1, <1>2, <1>3 DEF Inv, TypeOK, Distinct
  <2>2. cache' = home'
    BY <1>1, <1>3, Zenon
  <2> QED
    BY <1>1, <1>3, <2>1, <2>2 DEF Recovery
<1>7. Phases' /\ Sleepers'
  BY <1>1, <1>3, Zenon DEF Phases, Sleepers, SleepersWillWake
<1> QED
  BY <1>4, <1>5, <1>6, <1>7, Zenon DEF Inv

\* Recovery is over when the log has been erased.
LEMMA RecoverEraseInv ==
  ASSUME Inv, RecoverErase
  PROVE  Inv'
<1>1. /\ mode = "install" /\ cache = home /\ \A p \in Proc : pc[p] = "idle"
      /\ outstanding = 0 /\ committing = 0
  BY Zenon DEF RecoverErase, Inv, Recovery
<1>2. /\ lh' = <<>> /\ head' = <<>> /\ tail' = 0 /\ mode' = "up"
      /\ home' = home /\ cache' = cache /\ logdata' = logdata /\ outstanding' = outstanding
      /\ committing' = committing /\ pc' = pc /\ op' = op /\ left' = left /\ wrote' = wrote /\ bp' = bp /\ ops' = ops
  BY Zenon DEF RecoverErase, EraseHead, procVars
<1>3. TypeOK'
  BY <1>2 DEF Inv, TypeOK
<1>4. Counted' /\ OneCommits' /\ Budget'
  BY <1>1, <1>2, Zenon DEF Inv, Active, Counted, OneCommits, Committer, Budget
<1>5. Headers'
  BY <1>2, Constants DEF Inv, TypeOK, Headers, Distinct
<1>6. Phases'
  BY <1>1, <1>2, Zenon DEF Phases
<1>7. Recovery' /\ Sleepers'
  BY <1>1, <1>2, Zenon DEF Recovery, Sleepers, SleepersWillWake
<1> QED
  BY <1>3, <1>4, <1>5, <1>6, <1>7, Zenon DEF Inv

\* A crash leaves only the disk.
LEMMA CrashInv ==
  ASSUME FiniteFacts, Inv, Crash
  PROVE  Inv'
<1>1. TypeOK'
  <2>1. /\ op' \in [Proc -> Value] /\ left' \in [Proc -> 0..OpBlocks] /\ bp' \in [Proc -> Block]
        /\ wrote' \in [Proc -> SUBSET Block]
    BY Constants DEF Crash, Value
  <2>2. pc' \in [Proc -> {"idle", "sleep", "woken", "op", "write", "write_log", "install", "done"}]
    BY Zenon DEF Crash
  <2> QED
    BY <2>1, <2>2 DEF Inv, TypeOK, Crash, diskVars
<1>2. Active' = {}
  BY Zenon DEF Active, Crash
<1>3. Counted'
  BY <1>2, Zenon DEF FiniteFacts, Counted, Crash
<1>4. OneCommits' /\ Budget'
  BY <1>2, Zenon DEF OneCommits, Committer, Budget, Crash
<1>5. Headers'
  BY DEF Inv, Headers, Distinct, Crash, diskVars
<1>6. Phases' /\ Sleepers'
  BY Zenon DEF Phases, Sleepers, SleepersWillWake, Crash
<1>7. Recovery'
  BY Zenon DEF Recovery, Crash, diskVars
<1> QED
  BY <1>1, <1>3, <1>4, <1>5, <1>6, <1>7, Zenon DEF Inv

\* Every step keeps the invariant.
LEMMA NextInv == FiniteFacts /\ Inv /\ Fits /\ [Next]_vars => Inv'
<1> SUFFICES ASSUME FiniteFacts, Inv, Fits, [Next]_vars PROVE Inv'
  BY Zenon
<1>1. CASE Next
  <2>1. ASSUME NEW p \in Proc, BeginOp(p) PROVE Inv'
    BY <2>1, BeginOpInv, Zenon
  <2>2. ASSUME NEW p \in Proc, NEW b \in Block, LogWriteCheck(p, b) PROVE Inv'
    BY <2>2, LogWriteCheckInv, Zenon
  <2>3. ASSUME NEW p \in Proc, LogWrite(p) PROVE Inv'
    BY <2>3, LogWriteInv, Zenon
  <2>4. ASSUME NEW p \in Proc, EndOp(p) PROVE Inv'
    BY <2>4, EndOpInv, Zenon
  <2>5. ASSUME NEW p \in Proc, WriteLog(p) PROVE Inv'
    BY <2>5, WriteLogInv, Zenon
  <2>6. ASSUME NEW p \in Proc, WriteHead(p) PROVE Inv'
    BY <2>6, WriteHeadInv, Zenon
  <2>7. ASSUME NEW p \in Proc, InstallTrans(p) PROVE Inv'
    BY <2>7, InstallTransInv, Zenon
  <2>8. ASSUME NEW p \in Proc, Erase(p) PROVE Inv'
    BY <2>8, EraseInv, Zenon
  <2>9. ASSUME NEW p \in Proc, EndCommit(p) PROVE Inv'
    BY <2>9, EndCommitInv, Zenon
  <2>10. CASE ReadHead
    BY <2>10, ReadHeadInv, Zenon
  <2>11. CASE RecoverBlock
    BY <2>11, RecoverBlockInv, Zenon
  <2>12. CASE RecoverErase
    BY <2>12, RecoverEraseInv, Zenon
  <2>13. CASE Crash
    BY <2>13, CrashInv, Zenon
  <2> QED
    BY <1>1, <2>1, <2>2, <2>3, <2>4, <2>5, <2>6, <2>7, <2>8, <2>9, <2>10, <2>11, <2>12, <2>13, Zenon DEF Next
<1>2. CASE UNCHANGED vars
  <2>0. /\ home' = home /\ logdata' = logdata /\ head' = head /\ cache' = cache /\ lh' = lh
        /\ outstanding' = outstanding /\ committing' = committing /\ pc' = pc /\ op' = op
        /\ left' = left /\ wrote' = wrote /\ bp' = bp /\ tail' = tail /\ ops' = ops /\ mode' = mode
    BY <1>2, Zenon DEF vars, diskVars, logVars, procVars
  <2>1. /\ TypeOK' = TypeOK /\ Counted' = Counted /\ OneCommits' = OneCommits /\ Headers' = Headers
        /\ Recovery' = Recovery /\ Sleepers' = Sleepers /\ Budget' = Budget
    BY <2>0, Zenon DEF TypeOK, Active, Counted, OneCommits, Committer, Headers, Distinct, Recovery,
                       Sleepers, SleepersWillWake, Budget
  <2>2. Phases' = Phases
    BY <2>0 DEF Active, Phases, Logged
  <2> QED
    BY <2>1, <2>2, Zenon DEF Inv
<1> QED
  BY <1>1, <1>2, Zenon

-----------------------------------------------------------------------------
\* What Durable is, block by block.
DurableParts ==
  /\ Durable = [b \in Block |-> Durable[b]]
  /\ \A i \in 1..Len(head) : Durable[head[i]] = logdata[i]
  /\ \A b \in Block : ~Logged(head, b) => Durable[b] = home[b]

\* Those are its parts, because the header on disk fits the log.
LEMMA DurableFacts == Inv => DurableParts
<1> SUFFICES ASSUME Inv PROVE DurableParts
  BY Zenon
<1>1. head \in Seq(Block) /\ Distinct(head) /\ Len(head) < nlog /\ Len(head) \in Nat
  BY DEF Inv, TypeOK, Headers
<1>2. ASSUME NEW i \in 1..Len(head) PROVE Durable[head[i]] = logdata[i]
  <2>1. head[i] \in Block /\ Logged(head, head[i])
    BY <1>1 DEF Logged
  <2>2. (CHOOSE j \in 1..Len(head) : head[j] = head[i]) = i
    BY <1>1, PlaceFacts, Zenon
  <2>3. Durable[head[i]] = LogBlock(i)
    BY <2>1, <2>2, Zenon DEF Durable
  <2> QED
    BY <1>1, <2>3, Constants DEF LogBlock
<1>3. \A b \in Block : ~Logged(head, b) => Durable[b] = home[b]
  BY Zenon DEF Durable
<1>4. Durable = [b \in Block |-> Durable[b]]
  BY SMTT(20) DEF Durable
<1> QED
  BY <1>2, <1>3, <1>4, Zenon DEF DurableParts

\* And after a step.
LEMMA DurableFactsPrimed == Inv' => DurableParts'
BY DurableFacts, PTL

\* Two such disks are the same if they agree everywhere.
LEMMA SameDurable ==
  ASSUME Inv, Inv', head' = head, logdata' = logdata,
         \A b \in Block : ~Logged(head, b) => home'[b] = home[b]
  PROVE  Durable' = Durable
<1>1. /\ Durable' = [b \in Block |-> Durable'[b]]
      /\ \A i \in 1..Len(head') : Durable'[head'[i]] = logdata'[i]
      /\ \A b \in Block : ~Logged(head', b) => Durable'[b] = home'[b]
  BY DurableFactsPrimed, Zenon DEF DurableParts
<1>2. ASSUME NEW b \in Block PROVE Durable'[b] = Durable[b]
  <2>1. CASE Logged(head, b)
    <3>1. PICK i \in 1..Len(head) : head[i] = b
      BY <2>1, Zenon DEF Logged
    <3> QED
      BY <1>1, <3>1, DurableFacts DEF DurableParts
  <2>2. CASE ~Logged(head, b)
    <3>1. ~Logged(head', b)
      BY <2>2, Zenon
    <3> QED
      BY <1>1, <2>2, <3>1, DurableFacts, Zenon DEF DurableParts
  <2> QED
    BY <2>1, <2>2, Zenon
<1> QED
  BY <1>1, <1>2, DurableFacts, Zenon DEF DurableParts

\* With an empty header it is the disk as it is.
LEMMA EmptyHeader ==
  Inv /\ head = <<>> => Durable = home
<1> SUFFICES ASSUME Inv, head = <<>> PROVE Durable = home
  BY Zenon
<1>1. \A b \in Block : ~Logged(head, b)
  BY DEF Logged
<1> QED
  BY <1>1, DurableFacts DEF DurableParts, Inv, TypeOK

\* At rest the header is empty and memory agrees with the disk.
LEMMA InvDurableAtRest == FiniteFacts /\ Inv => DurableAtRest
<1> SUFFICES ASSUME FiniteFacts, Inv, mode = "up", outstanding = 0, committing = 0 PROVE Durable = cache
  BY Zenon DEF DurableAtRest
<1>1. Active = {} /\ \A p \in Proc : ~Committer(p)
  BY CountFacts DEF Inv, OneCommits
<1>2. lh = <<>> /\ head = <<>> /\ \A b \in Block : ~Logged(lh, b) => cache[b] = home[b]
  BY <1>1, Zenon DEF Inv, Phases, Committer
<1>3. \A b \in Block : cache[b] = home[b]
  BY <1>2 DEF Logged
<1> QED
  BY <1>2, <1>3, EmptyHeader DEF Inv, TypeOK

-----------------------------------------------------------------------------

absVars == <<Durable, Memory, outstanding>>

\* Steps that leave the disk and memory alone: begin_op(), the checks of
\* log_write(), end_op() and the return from a commit.
LEMMA OperationSteps ==
  ASSUME FiniteFacts, Inv, Inv', NEW p \in Proc,
         BeginOp(p) \/ (\E b \in Block : LogWriteCheck(p, b)) \/ EndOp(p) \/ EndCommit(p)
  PROVE  [Abstract!Next]_absVars
<1>1. /\ head' = head /\ logdata' = logdata /\ home' = home /\ cache' = cache
      /\ mode = "up" /\ mode' \in {"up", "panic"}
  BY Zenon DEF BeginOp, LogWriteCheck, EndOp, EndCommit, Up, diskVars
<1>2. Durable' = Durable
  BY <1>1, SameDurable, Zenon
<1>3. Memory' = Memory
  BY <1>1, Zenon DEF Memory
<1>4. outstanding \in Nat
  BY Zenon DEF Inv, TypeOK
<1>5. outstanding' \in {outstanding, outstanding + 1} \/ (outstanding > 0 /\ outstanding' = outstanding - 1)
  <2>1. CASE BeginOp(p)
    BY <2>1, Zenon DEF BeginOp
  <2>2. CASE \E b \in Block : LogWriteCheck(p, b)
    BY <2>2, Zenon DEF LogWriteCheck, logVars
  <2>3. CASE EndOp(p)
    <3>1. p \in Active
      BY <2>3, Zenon DEF EndOp, Up, Active
    <3>2. outstanding > 0
      BY <1>4, <3>1, CountFacts DEF Inv
    <3> QED
      BY <2>3, <3>2, Zenon DEF EndOp
  <2>4. CASE EndCommit(p)
    BY <2>4, Zenon DEF EndCommit
  <2> QED
    BY <2>1, <2>2, <2>3, <2>4, Zenon
<1> QED
  BY <1>2, <1>3, <1>5, Zenon DEF absVars, Abstract!Next, Abstract!Begin, Abstract!End

\* log_write() changes memory only.
LEMMA LogWriteStep ==
  ASSUME FiniteFacts, Inv, Inv', NEW p \in Proc, LogWrite(p)
  PROVE  [Abstract!Next]_absVars
<1>1. /\ head' = head /\ logdata' = logdata /\ home' = home /\ outstanding' = outstanding
      /\ mode = "up" /\ mode' = "up" /\ cache' = [cache EXCEPT ![bp[p]] = op[p]]
  BY Zenon DEF LogWrite, Up, diskVars
<1>2. Durable' = Durable
  BY <1>1, SameDurable, Zenon
<1>3. Memory' = [Memory EXCEPT ![bp[p]] = op[p]]
  BY <1>1, Zenon DEF Memory
<1>4. p \in Active /\ bp[p] \in Block /\ op[p] \in Value
  BY Zenon DEF LogWrite, Up, Active, Inv, TypeOK
<1>5. outstanding > 0
  BY <1>4, CountFacts DEF Inv, TypeOK
<1>6. Abstract!Write(bp[p], op[p])
  BY <1>1, <1>2, <1>3, <1>5, Zenon DEF Abstract!Write
<1> QED
  BY <1>4, <1>6, Zenon DEF Abstract!Next

\* write_log() changes blocks of the log that the header does not name.
LEMMA WriteLogStep ==
  ASSUME Inv, Inv', Fits, NEW p \in Proc, WriteLog(p)
  PROVE  [Abstract!Next]_absVars
<1>1. mode = "up" /\ pc[p] = "write_log" /\ tail < Len(lh) /\ tail \in Nat /\ Len(lh) \in Nat
  BY DEF WriteLog, Up, Inv, TypeOK
<1>2. tail + 1 < nlog
  BY <1>1, Constants DEF Fits
<1>3. head' = head /\ home' = home /\ cache' = cache /\ mode' = mode /\ outstanding' = outstanding
  BY <1>2, Zenon DEF WriteLog, logVars
<1>4. head = <<>>
  BY <1>1, Zenon DEF Inv, Phases
<1>5. Durable = home
  BY <1>4, EmptyHeader, Zenon
<1>6. (Inv /\ head = <<>> => Durable = home)'
  BY EmptyHeader, PTL
<1>7. Durable' = Durable
  BY <1>3, <1>4, <1>5, <1>6, Zenon
<1>8. Memory' = Memory
  BY <1>1, <1>3, Zenon DEF Memory
<1> QED
  BY <1>3, <1>7, <1>8, Zenon DEF absVars

\* write_head() is the commit.
LEMMA WriteHeadStep ==
  ASSUME FiniteFacts, Inv, Inv', NEW p \in Proc, WriteHead(p)
  PROVE  [Abstract!Next]_absVars
<1>1. mode = "up" /\ pc[p] = "write_log" /\ tail = Len(lh)
  BY Zenon DEF WriteHead, Up, LogWritten
<1>2. /\ head' = lh /\ home' = home /\ logdata' = logdata /\ cache' = cache /\ mode' = mode
      /\ outstanding' = outstanding
  BY Zenon DEF WriteHead, logVars
<1>3. Active = {}
  BY <1>1, Alone, Zenon DEF Committer
<1>4. outstanding = 0
  BY <1>3, CountFacts, Zenon DEF Inv
<1>5. /\ \A i \in 1..Len(lh) : logdata[i] = cache[lh[i]]
      /\ \A b \in Block : ~Logged(lh, b) => cache[b] = home[b]
  BY <1>1, Zenon DEF Inv, Phases
<1>6. /\ Durable' = [b \in Block |-> Durable'[b]]
      /\ \A i \in 1..Len(lh) : Durable'[lh[i]] = logdata[i]
      /\ \A b \in Block : ~Logged(lh, b) => Durable'[b] = home[b]
  BY <1>2, DurableFactsPrimed, Zenon DEF DurableParts
<1>7. ASSUME NEW b \in Block PROVE Durable'[b] = cache[b]
  <2>1. CASE Logged(lh, b)
    <3>1. PICK i \in 1..Len(lh) : lh[i] = b
      BY <2>1, Zenon DEF Logged
    <3> QED
      BY <1>5, <1>6, <3>1, Zenon
  <2> QED
    BY <2>1, <1>5, <1>6, Zenon
<1>8. Durable' = cache
  BY <1>6, <1>7 DEF Inv, TypeOK
<1>9. Memory' = Memory /\ Memory = cache
  BY <1>1, <1>2, Zenon DEF Memory
<1> QED
  BY <1>2, <1>4, <1>8, <1>9, Zenon DEF Abstract!Next, Abstract!Commit

\* install_trans() changes blocks that the header names, on both its ways.
LEMMA InstallStep ==
  ASSUME Inv, Inv', InstallBlock, mode \in {"up", "install"}, mode' = mode, outstanding' = outstanding, lh = head,
         mode = "up" => \A i \in 1..Len(lh) : logdata[i] = cache[lh[i]]
  PROVE  [Abstract!Next]_absVars
<1>1. /\ tail < Len(lh) /\ tail \in Nat /\ Len(lh) \in Nat /\ lh \in Seq(Block) /\ Len(lh) < nlog
  BY DEF InstallBlock, Inv, TypeOK, Headers
<1> DEFINE b == lh[tail + 1]
<1>2. b \in Block /\ Logged(head, b) /\ LogBlock(tail + 1) = logdata[tail + 1]
  BY <1>1, Constants DEF LogBlock, Logged
<1>3. /\ home' = [home EXCEPT ![b] = logdata[tail + 1]]
      /\ cache' = [cache EXCEPT ![b] = logdata[tail + 1]]
      /\ head' = head /\ logdata' = logdata
  BY <1>2, Zenon DEF InstallBlock
<1>4. \A c \in Block : ~Logged(head, c) => home'[c] = home[c]
  BY <1>2, <1>3, Zenon DEF Inv, TypeOK
<1>5. Durable' = Durable
  BY <1>3, <1>4, SameDurable, Zenon
<1>6. Memory' = Memory
  <2>1. CASE mode = "up"
    <3>1. tail + 1 \in 1..Len(lh)
      BY <1>1
    <3>2. cache[b] = logdata[tail + 1]
      BY <2>1, <3>1, Zenon
    <3>3. cache' = cache
      BY <1>2, <1>3, <3>2 DEF Inv, TypeOK
    <3> QED
      BY <2>1, <3>3, Zenon DEF Memory
  <2>2. CASE mode = "install"
    BY <1>5, <2>2, Zenon DEF Memory
  <2> QED
    BY <2>1, <2>2, Zenon
<1> QED
  BY <1>5, <1>6, Zenon DEF absVars

\* Erasing the header when everything it names is at home changes nothing.
LEMMA EraseStep ==
  ASSUME Inv, Inv', EraseHead, mode \in {"up", "install"}, mode' = "up", lh = head,
         \A i \in 1..Len(lh) : home[lh[i]] = logdata[i], cache = home
  PROVE  [Abstract!Next]_absVars
<1>1. /\ head' = <<>> /\ home' = home /\ cache' = cache /\ outstanding' = outstanding
  BY Zenon DEF EraseHead
<1>2. (Inv /\ head = <<>> => Durable = home)'
  BY EmptyHeader, PTL
<1>3. Durable' = home
  BY <1>1, <1>2, Zenon
<1>4. ASSUME NEW b \in Block PROVE Durable[b] = home[b]
  <2>1. CASE Logged(head, b)
    <3>1. PICK i \in 1..Len(head) : head[i] = b
      BY <2>1, Zenon DEF Logged
    <3> QED
      BY <3>1, DurableFacts, Zenon DEF DurableParts
  <2> QED
    BY <2>1, DurableFacts, Zenon DEF DurableParts
<1>5. Durable = home
  BY <1>4, DurableFacts DEF DurableParts, Inv, TypeOK
<1>6. Memory = home /\ Memory' = home
  BY <1>1, <1>5, Zenon DEF Memory
<1> QED
  BY <1>1, <1>3, <1>5, <1>6, Zenon DEF absVars

\* A crash takes memory back to what is durable; reading the header does nothing.
LEMMA CrashStep ==
  ASSUME Inv, Inv', Crash \/ ReadHead
  PROVE  [Abstract!Next]_absVars
<1>1. /\ head' = head /\ logdata' = logdata /\ home' = home
      /\ mode' \in {"recovery", "install"} /\ outstanding' = 0
  BY Zenon DEF Crash, ReadHead, diskVars, Inv, Recovery
<1>2. Durable' = Durable
  BY <1>1, SameDurable, Zenon
<1>3. Memory' = Durable
  BY <1>1, <1>2, Zenon DEF Memory
<1> QED
  BY <1>1, <1>2, <1>3, Zenon DEF Abstract!Next, Abstract!Crash

\* What install_trans() and the erasure of the header find, after a commit and in
\* recovery.
LEMMA InstallTransFacts ==
  ASSUME Inv, NEW p \in Proc, InstallTrans(p)
  PROVE  /\ lh = head /\ \A i \in 1..Len(lh) : logdata[i] = cache[lh[i]]
         /\ InstallBlock /\ mode = "up" /\ mode' = mode /\ outstanding' = outstanding
<1>1. pc[p] = "install" /\ InstallBlock /\ mode = "up" /\ mode' = mode /\ outstanding' = outstanding
  BY Zenon DEF InstallTrans, Up, logVars
<1> QED
  BY <1>1, InstallPhase, Zenon

LEMMA EraseFacts ==
  ASSUME Inv, NEW p \in Proc, Erase(p)
  PROVE  /\ EraseHead /\ mode = "up" /\ mode' = "up" /\ tail = Len(lh)
         /\ lh = head /\ cache = home /\ \A i \in 1..Len(lh) : home[lh[i]] = logdata[i]
         /\ \A i \in 1..Len(lh) : logdata[i] = cache[lh[i]]
<1>1. EraseHead /\ mode = "up" /\ mode' = "up" /\ pc[p] = "install" /\ tail = Len(lh)
  BY Zenon DEF Erase, Up, EraseHead
<1>2. /\ lh = head
      /\ \A i \in 1..Len(lh) : logdata[i] = cache[lh[i]]
      /\ \A i \in 1..Len(lh) : home[lh[i]] = cache[lh[i]]
      /\ \A b \in Block : ~Logged(lh, b) => cache[b] = home[b]
  BY <1>1, InstallPhase, Zenon
<1>3. \A b \in Block : cache[b] = home[b]
  BY <1>2 DEF Logged
<1>4. home \in [Block -> Value] /\ cache \in [Block -> Value]
  BY Zenon DEF Inv, TypeOK
<1>5. cache = home
  BY <1>3, <1>4
<1>6. \A i \in 1..Len(lh) : home[lh[i]] = logdata[i]
  BY <1>2
<1> QED
  BY <1>1, <1>2, <1>5, <1>6, Zenon

LEMMA RecoverBlockFacts ==
  ASSUME Inv, RecoverBlock
  PROVE  lh = head /\ mode = "install" /\ InstallBlock /\ mode' = mode /\ outstanding' = outstanding
BY Zenon DEF RecoverBlock, Inv, Recovery, logVars

LEMMA RecoverEraseFacts ==
  ASSUME Inv, RecoverErase
  PROVE  /\ EraseHead /\ mode = "install" /\ mode' = "up" /\ tail = Len(lh)
         /\ lh = head /\ cache = home /\ \A i \in 1..Len(lh) : home[lh[i]] = logdata[i]
<1>1. EraseHead /\ mode = "install" /\ mode' = "up" /\ tail = Len(lh)
  BY Zenon DEF RecoverErase, EraseHead
<1> QED
  BY <1>1, Zenon DEF Inv, Recovery

\* Every step of the log is a step of AtomicDisk or leaves it alone.
LEMMA NextRefines == FiniteFacts /\ Inv /\ Inv' /\ Fits /\ [Next]_vars => [Abstract!Next]_absVars
<1> SUFFICES ASSUME FiniteFacts, Inv, Inv', Fits, [Next]_vars PROVE [Abstract!Next]_absVars
  BY Zenon
<1>1. ASSUME NEW p \in Proc,
             BeginOp(p) \/ (\E b \in Block : LogWriteCheck(p, b)) \/ EndOp(p) \/ EndCommit(p)
      PROVE  [Abstract!Next]_absVars
  BY <1>1, OperationSteps, Zenon
<1>2. ASSUME NEW p \in Proc, LogWrite(p) PROVE [Abstract!Next]_absVars
  BY <1>2, LogWriteStep, Zenon
<1>3. ASSUME NEW p \in Proc, WriteLog(p) PROVE [Abstract!Next]_absVars
  BY <1>3, WriteLogStep, Zenon
<1>4. ASSUME NEW p \in Proc, WriteHead(p) PROVE [Abstract!Next]_absVars
  BY <1>4, WriteHeadStep, Zenon
<1>5. ASSUME NEW p \in Proc, InstallTrans(p) PROVE [Abstract!Next]_absVars
  BY <1>5, InstallTransFacts, InstallStep, Zenon
<1>6. ASSUME NEW p \in Proc, Erase(p) PROVE [Abstract!Next]_absVars
  BY <1>6, EraseFacts, EraseStep, Zenon
<1>7. CASE RecoverBlock
  BY <1>7, RecoverBlockFacts, InstallStep, Zenon
<1>8. CASE RecoverErase
  BY <1>8, RecoverEraseFacts, EraseStep, Zenon
<1>9. CASE Crash \/ ReadHead
  BY <1>9, CrashStep, Zenon
<1>10. CASE UNCHANGED vars
  BY <1>10 DEF vars, diskVars, logVars, absVars, Durable, LogBlock, Memory
<1> QED
  BY <1>1, <1>2, <1>3, <1>4, <1>5, <1>6, <1>7, <1>8, <1>9, <1>10, Zenon DEF Next

\* The disk mkfs leaves is an initial state of AtomicDisk.
LEMMA InitRefines == Init /\ Inv => Abstract!Init
<1> SUFFICES ASSUME Init, Inv PROVE Abstract!Init
  BY Zenon
<1>1. Durable = home
  BY EmptyHeader, Zenon DEF Init
<1> QED
  BY <1>1, Zenon DEF Init, Abstract!Init, Memory

-----------------------------------------------------------------------------

-----------------------------------------------------------------------------

\* What makes begin_op()'s reservation enough.  An operation writes fewer blocks
\* than are reserved for it, since log_write() wants a free slot even when the block
\* is in the transaction already; and the log has room for what may be reserved.
Roomy == OpBlocks < MAXOPBLOCKS /\ LOGSIZE + OpBlocks + 1 < nlog + MAXOPBLOCKS

\* The blocks that operations in progress may still add.
Slots == {s \in Active \X (1..OpBlocks) : s[2] <= left[s[1]]}

\* There is room for all of them and for one more, and what an operation in progress
\* wrote is in the transaction.
Reserved ==
  /\ Fits
  /\ mode = "up" => /\ Len(lh) + Cardinality(Slots) < nlog - 1
                    /\ Len(lh) + Cardinality(Slots) < LOGSIZE
                    /\ \A p \in Active : \A b \in wrote[p] : Logged(lh, b)
  /\ mode /= "panic"

\* They are at most OpBlocks for every operation that log.outstanding counts.
SlotsBounded ==
  IsFiniteSet(Slots) /\ Cardinality(Slots) \in Nat /\ Cardinality(Slots) <= outstanding * OpBlocks

LEMMA SlotsFacts == FiniteFacts /\ Inv => SlotsBounded
<1> SUFFICES ASSUME FiniteFacts, Inv PROVE SlotsBounded
  BY Zenon
<1> DEFINE N == 1..OpBlocks
<1>1. IsFiniteSet(N) /\ Cardinality(N) = OpBlocks
  BY Constants, Zenon DEF FiniteFacts
<1>2. IsFiniteSet(Active) /\ Cardinality(Active) = outstanding
  BY Zenon DEF Inv, Counted
<1> HIDE DEF N
<1>3. IsFiniteSet(Active \X N) /\ Cardinality(Active \X N) = outstanding * OpBlocks
  BY <1>1, <1>2 DEF FiniteFacts
<1>4. Slots \subseteq Active \X N
  BY Zenon DEF Slots, N
<1>5. IsFiniteSet(Slots) /\ Cardinality(Slots) <= Cardinality(Active \X N)
  BY <1>3, <1>4, Zenon DEF FiniteFacts
<1>6. Cardinality(Slots) \in Nat
  BY <1>5, Zenon DEF FiniteFacts
<1> QED
  BY <1>3, <1>5, <1>6, Zenon DEF SlotsBounded

\* And after a step.
LEMMA SlotsFactsPrimed == FiniteFacts /\ Inv' => SlotsBounded'
<1>1. (FiniteFacts /\ Inv)' => SlotsBounded'
  BY SlotsFacts, PTL
<1>2. FiniteFacts => FiniteFacts'
  BY Zenon DEF FiniteFacts
<1> QED
  BY <1>1, <1>2, Zenon

\* Reserving b blocks for each of m operations leaves room for a <= b blocks each,
\* and for the difference.
LEMMA Reservation ==
  ASSUME NEW m \in Nat, NEW a \in Nat, NEW b \in Nat, a <= b
  PROVE  (m + 1) * a + (b - a) <= (m + 1) * b
<1>1. (m + 1) * b - (m + 1) * a - (b - a) = m * (b - a)
  OBVIOUS
<1>2. m * (b - a) >= 0
  OBVIOUS
<1>3. (m + 1) * a \in Int /\ (m + 1) * b \in Int /\ m * (b - a) \in Int
  OBVIOUS
<1> QED
  BY <1>1, <1>2, <1>3

\* begin_op() keeps room for what it lets in.
LEMMA BeginOpReserved ==
  ASSUME FiniteFacts, Roomy, Inv, Inv', Reserved, NEW p \in Proc, BeginOp(p)
  PROVE  Reserved'
<1>1. lh' = lh /\ mode = "up" /\ mode' = "up" /\ Len(lh) \in Nat /\ outstanding \in Nat
  BY DEF BeginOp, Up, Inv, TypeOK
<1>2. CASE MustWait
  <2>1. Active' = Active /\ left' = left
    BY <1>2, Zenon DEF Inv, TypeOK, Active, BeginOp, Goto, Up
  <2>2. Slots' = Slots /\ wrote' = wrote
    BY <1>2, <2>1, Zenon DEF Slots, BeginOp
  <2> QED
    BY <1>1, <2>1, <2>2, Zenon DEF Reserved, Fits, Logged
<1>3. CASE ~MustWait
  <2> DEFINE taken == (outstanding + 1) * OpBlocks
             room == (outstanding + 1) * MAXOPBLOCKS
  <2>1. outstanding' = outstanding + 1
    BY <1>3, Zenon DEF BeginOp
  <2>2. Cardinality(Slots)' \in Nat /\ Cardinality(Slots)' <= taken
    BY <2>1, SlotsFactsPrimed, Zenon DEF SlotsBounded
  <2>3. taken + (MAXOPBLOCKS - OpBlocks) <= room
    <3>1. OpBlocks <= MAXOPBLOCKS
      BY Constants DEF Roomy
    <3> QED
      BY <1>1, <3>1, Reservation, Constants, Zenon
  <2>4. taken \in Int /\ room \in Int
    BY <1>1, Constants
  <2>5. Len(lh) + room <= LOGSIZE
    BY <1>1, <1>3, <2>4, Constants DEF MustWait
  <2> HIDE DEF taken, room
  <2>6. Len(lh) + Cardinality(Slots)' < nlog - 1 /\ Len(lh) + Cardinality(Slots)' < LOGSIZE
    BY <1>1, <2>2, <2>3, <2>4, <2>5, Constants DEF Roomy
  <2>7. \A q \in Active' : q \in Proc /\ (q /= p => q \in Active)
    BY <1>3, Zenon DEF Inv, TypeOK, Active, BeginOp, Goto
  <2>8. wrote' = [wrote EXCEPT ![p] = {}] /\ wrote \in [Proc -> SUBSET Block]
    BY <1>3, Zenon DEF Inv, TypeOK, BeginOp
  <2>9. \A q \in Active' : \A b \in wrote'[q] : Logged(lh', b)
    BY <1>1, <2>7, <2>8, Zenon DEF Reserved, Logged
  <2> QED
    BY <1>1, <2>6, <2>9, Zenon DEF Reserved, Fits
<1> QED
  BY <1>2, <1>3, Zenon

\* log_write() uses what was reserved for it, or finds the block in the transaction.
LEMMA LogWriteReserved ==
  ASSUME FiniteFacts, Inv, Reserved, NEW p \in Proc, LogWrite(p)
  PROVE  Reserved'
<1> DEFINE b == bp[p]
<1>1. /\ mode = "up" /\ mode' = mode /\ p \in Active
      /\ lh \in Seq(Block) /\ b \in Block
      /\ lh' = IF Logged(lh, b) THEN lh ELSE Append(lh, b)
      /\ left' = [left EXCEPT ![p] = IF b \in wrote[p] THEN left[p] ELSE left[p] - 1]
      /\ wrote' = [wrote EXCEPT ![p] = wrote[p] \cup {b}]
      /\ left \in [Proc -> 0..OpBlocks] /\ wrote \in [Proc -> SUBSET Block]
      /\ left[p] > 0 \/ b \in wrote[p]
  BY Zenon DEF LogWrite, Up, Inv, TypeOK, Budget, Active
<1>2. Active' = Active
  BY Zenon DEF Inv, TypeOK, Active, LogWrite, Goto, Up
<1> HIDE DEF b
<1>3. Len(lh') \in Nat /\ Len(lh) \in Nat /\ Len(lh') <= Len(lh) + 1
  BY <1>1
<1>4. IsFiniteSet(Slots) /\ Cardinality(Slots) \in Nat
  BY SlotsFacts, Zenon DEF SlotsBounded
<1>5. \A q \in Active' : \A c \in wrote'[q] : Logged(lh', c)
  <2>1. \A c \in Block : Logged(lh', c) <=> Logged(lh, c) \/ c = b
    <3>1. CASE Logged(lh, b)
      BY <1>1, <3>1, Zenon
    <3>2. CASE ~Logged(lh, b)
      BY <1>1, <3>2, AppendFacts, Zenon DEF Inv, Headers
    <3> QED
      BY <3>1, <3>2, Zenon
  <2>2. \A q \in Active' : q \in Proc
    BY Zenon DEF Active
  <2> QED
    BY <1>1, <1>2, <2>1, <2>2, Zenon DEF Reserved
<1>6. Len(lh') + Cardinality(Slots)' <= Len(lh) + Cardinality(Slots) /\ Cardinality(Slots)' \in Nat
  <2>1. CASE b \in wrote[p]
    <3>1. lh' = lh
      BY <1>1, <2>1, Zenon DEF Reserved
    <3>2. left' = left
      BY <1>1, <2>1
    <3>3. Slots' = Slots
      BY <1>2, <3>2, Zenon DEF Slots
    <3> QED
      BY <1>3, <1>4, <3>1, <3>3
  <2>2. CASE b \notin wrote[p]
    <3>0. left[p] \in 1..OpBlocks /\ left' = [left EXCEPT ![p] = left[p] - 1] /\ p \in Proc
      BY <1>1, <2>2, Constants
    <3> DEFINE s == <<p, left[p]>>
    <3>1. s \in Slots
      BY <1>1, <3>0 DEF Slots
    <3>2. Slots' = Slots \ {s}
      <4>1. ASSUME NEW q \in Active, NEW n \in 1..OpBlocks
            PROVE  n <= left'[q] <=> n <= left[q] /\ <<q, n>> /= s
        <5>1. q \in Proc
          BY Zenon DEF Active
        <5> QED
          BY <1>1, <3>0, <5>1, Constants
      <4> QED
        BY <1>2, <4>1 DEF Slots
    <3> DEFINE T == Slots'
    <3> HIDE DEF s, T
    <3>3. Cardinality(T) = Cardinality(Slots) - 1
      BY <1>4, <3>1, <3>2, Leaves, Zenon DEF T
    <3>4. Cardinality(T) \in Nat
      BY SlotsFactsPrimed, LogWriteInv, Zenon DEF SlotsBounded, T
    <3>5. Len(lh') + Cardinality(T) <= Len(lh) + Cardinality(Slots)
      BY <1>3, <1>4, <3>3, <3>4
    <3> QED
      BY <3>4, <3>5, Zenon DEF T
  <2> QED
    BY <2>1, <2>2, Zenon
<1>7. Cardinality(Slots)' \in Nat
  BY <1>6, Zenon
<1> DEFINE u == Cardinality(Slots)
           v == Cardinality(Slots)'
<1>8. u \in Nat /\ v \in Nat /\ Len(lh') + v <= Len(lh) + u
  BY <1>4, <1>6, <1>7, Zenon
<1>9. Len(lh) + u < nlog - 1 /\ Len(lh) + u < LOGSIZE /\ mode /= "panic"
  BY <1>1, Zenon DEF Reserved
<1> HIDE DEF u, v
<1>10. Len(lh') + v < nlog - 1 /\ Len(lh') + v < LOGSIZE /\ Len(lh') < nlog
  BY <1>3, <1>8, <1>9, Constants
<1> QED
  BY <1>1, <1>5, <1>9, <1>10, Zenon DEF Reserved, Fits, v

\* log_write()'s checks do not fail.
LEMMA LogWriteCheckReserved ==
  ASSUME FiniteFacts, Inv, Reserved, NEW p \in Proc, NEW b \in Block, LogWriteCheck(p, b)
  PROVE  Reserved'
<1>1. mode = "up" /\ p \in Active /\ lh' = lh
  BY Zenon DEF LogWriteCheck, Up, Active, logVars
<1>2. left' = left /\ wrote' = wrote
  BY Zenon DEF LogWriteCheck, procVars
<1>3. Cardinality(Slots) \in Nat /\ Len(lh) \in Nat
  <2>1. Cardinality(Slots) \in Nat
    BY SlotsFacts, Zenon DEF SlotsBounded
  <2>2. Len(lh) \in Nat
    BY DEF Inv, TypeOK
  <2> QED
    BY <2>1, <2>2, Zenon
<1>4. Len(lh) + Cardinality(Slots) < LOGSIZE /\ Len(lh) + Cardinality(Slots) < nlog - 1
  BY <1>1, Zenon DEF Reserved
<1>5. Len(lh) < LOGSIZE /\ Len(lh) < nlog - 1
  BY <1>3, <1>4, Constants
<1>6. outstanding >= 1
  BY <1>1, CountFacts DEF Inv
<1>7. mode' = mode
  BY <1>3, <1>5, <1>6, CountFacts, Constants DEF LogWriteCheck, Inv
<1>8. Active' = Active
  BY Zenon DEF Inv, TypeOK, Active, LogWriteCheck, Goto, Up, procVars
<1>9. Slots' = Slots
  BY <1>2, <1>8, Zenon DEF Slots
<1> QED
  BY <1>1, <1>2, <1>7, <1>8, <1>9, Zenon DEF Reserved, Fits, Logged

\* end_op() gives up what it did not use, and finds nobody committing.
LEMMA EndOpReserved ==
  ASSUME FiniteFacts, Inv, Inv', Reserved, NEW p \in Proc, EndOp(p)
  PROVE  Reserved'
<1>1. p \in Active /\ committing = 0 /\ mode = "up" /\ lh' = lh /\ Len(lh) \in Nat
  <2>1. pc[p] = "op" /\ mode = "up" /\ lh' = lh
    BY Zenon DEF EndOp, Up
  <2>2. p \in Active
    BY <2>1, Zenon DEF Active
  <2>3. Len(lh) \in Nat /\ committing \in {0, 1}
    BY DEF Inv, TypeOK
  <2> QED
    BY <2>1, <2>2, <2>3, Zenon DEF Inv, OneCommits
<1>2. mode' = mode /\ left' = [left EXCEPT ![p] = 0] /\ wrote' = [wrote EXCEPT ![p] = {}]
  BY <1>1 DEF EndOp
<1>3. \A q \in Proc : pc'[q] \in {"op", "write"} => pc[q] = pc'[q] /\ q /= p
  <2>1. pc \in [Proc -> {"idle", "sleep", "woken", "op", "write", "write_log", "install", "done"}]
    BY Zenon DEF Inv, TypeOK
  <2>2. CASE outstanding = 1
    <3>1. pc' = [pc EXCEPT ![p] = "done"] \/ pc' = [pc EXCEPT ![p] = "write_log"]
      BY <1>1, <2>2 DEF EndOp, Goto
    <3> QED
      BY <2>1, <3>1, Zenon
  <2>3. CASE outstanding /= 1
    <3>1. pc' = [Woken EXCEPT ![p] = "idle"]
      BY <1>1, <2>3 DEF EndOp
    <3> QED
      BY <2>1, <3>1, Zenon DEF Woken
  <2> QED
    BY <2>2, <2>3, Zenon
<1>4. Active' \subseteq Active \ {p}
  BY <1>3, Zenon DEF Active
<1>5. \A q \in Active' : left'[q] = left[q] /\ wrote'[q] = wrote[q]
  BY <1>2, <1>4, Zenon DEF Inv, TypeOK, Active
<1>6. Slots' \subseteq Slots
  BY <1>4, <1>5, Zenon DEF Slots
<1>7. IsFiniteSet(Slots) /\ Cardinality(Slots) \in Nat
  BY SlotsFacts, Zenon DEF SlotsBounded
<1>8. Cardinality(Slots)' <= Cardinality(Slots)
  BY <1>6, <1>7, Zenon DEF FiniteFacts
<1>9. Cardinality(Slots)' \in Nat
  BY SlotsFactsPrimed, Zenon DEF SlotsBounded
<1>10. \A q \in Active' : \A b \in wrote'[q] : Logged(lh', b)
  BY <1>1, <1>4, <1>5, Zenon DEF Reserved, Logged
<1> DEFINE u == Cardinality(Slots)
           v == Cardinality(Slots)'
<1>11. Len(lh) + u < nlog - 1 /\ Len(lh) + u < LOGSIZE /\ u \in Nat /\ v \in Nat /\ v <= u
  BY <1>1, <1>7, <1>8, <1>9, Zenon DEF Reserved
<1> HIDE DEF u, v
<1>12. Len(lh) + v < nlog - 1 /\ Len(lh) + v < LOGSIZE
  BY <1>1, <1>11, Constants
<1> QED
  BY <1>1, <1>2, <1>10, <1>12, Zenon DEF Reserved, Fits, v

\* A commit leaves the transaction as it is, or empties it.
LEMMA CommitReserved ==
  ASSUME FiniteFacts, Inv, Reserved, NEW p \in Proc,
         WriteLog(p) \/ WriteHead(p) \/ InstallTrans(p) \/ Erase(p) \/ EndCommit(p)
  PROVE  Reserved'
<1>1. mode = "up" /\ mode' = mode /\ left' = left /\ lh' \in {lh, <<>>}
  <2>1. CASE WriteLog(p)
    BY <2>1, Zenon DEF WriteLog, Up, procVars, logVars
  <2>2. CASE WriteHead(p)
    BY <2>2, Zenon DEF WriteHead, Up, procVars, logVars
  <2>3. CASE InstallTrans(p)
    BY <2>3, Zenon DEF InstallTrans, Up, procVars, logVars
  <2>4. CASE Erase(p)
    BY <2>4, Zenon DEF Erase, EraseHead, Up, procVars
  <2>5. CASE EndCommit(p)
    BY <2>5, Zenon DEF EndCommit, Up, procVars
  <2> QED
    BY <2>1, <2>2, <2>3, <2>4, <2>5, Zenon
<1>2. \A q \in Proc : pc'[q] \in {"op", "write"} <=> pc[q] \in {"op", "write"}
  <2>1. CASE WriteLog(p) \/ InstallTrans(p)
    BY <2>1, Zenon DEF WriteLog, InstallTrans, procVars
  <2>2. CASE WriteHead(p) \/ Erase(p)
    <3>1. /\ pc[p] \in {"write_log", "install"}
          /\ pc' = [pc EXCEPT ![p] = "install"] \/ pc' = [pc EXCEPT ![p] = "done"]
      BY <2>2, Zenon DEF WriteHead, Erase, Up, Goto
    <3> QED
      BY <3>1, Zenon DEF Inv, TypeOK
  <2>3. CASE EndCommit(p)
    BY <2>3, Zenon DEF EndCommit, Woken, Up
  <2> QED
    BY <2>1, <2>2, <2>3, Zenon
<1>3. Active' = Active
  BY <1>2, Zenon DEF Active
<1>4. Slots' = Slots
  BY <1>1, <1>3, Zenon DEF Slots
<1>5. Len(lh) \in Nat /\ Len(lh') \in Nat /\ Len(lh') <= Len(lh)
  BY <1>1 DEF Inv, TypeOK
<1>6. Cardinality(Slots) \in Nat
  BY SlotsFacts, Zenon DEF SlotsBounded
<1>7. Active' = {}
  BY <1>3, Zenon DEF Inv, OneCommits, Committer, WriteLog, WriteHead, InstallTrans, Erase, EndCommit, Up
<1> DEFINE u == Cardinality(Slots)
<1>8. Len(lh) + u < nlog - 1 /\ Len(lh) + u < LOGSIZE /\ u \in Nat /\ Cardinality(Slots)' = u
  BY <1>1, <1>4, <1>6, Zenon DEF Reserved
<1> HIDE DEF u
<1>9. Len(lh') + u < nlog - 1 /\ Len(lh') + u < LOGSIZE /\ Len(lh') < nlog
  BY <1>5, <1>8, Constants
<1> QED
  BY <1>1, <1>7, <1>8, <1>9, Zenon DEF Reserved, Fits

\* Recovery and crashes: what is read back fits, and nobody has reserved anything.
LEMMA RecoveryReserved ==
  ASSUME FiniteFacts, Roomy, Inv, Reserved, ReadHead \/ RecoverBlock \/ RecoverErase \/ Crash
  PROVE  Reserved'
<1>1. 0 < nlog - 1 /\ 0 < nlog /\ 0 < LOGSIZE /\ Len(head) < nlog
  BY Constants DEF Roomy, Inv, Headers
<1>2. CASE ReadHead \/ RecoverBlock \/ Crash
  BY <1>1, <1>2, Zenon DEF ReadHead, RecoverBlock, Crash, logVars, Reserved, Fits
<1>3. CASE RecoverErase
  <2>1. lh' = <<>> /\ mode' = "up" /\ pc' = pc /\ \A p \in Proc : pc[p] = "idle"
    BY <1>3, Zenon DEF RecoverErase, EraseHead, procVars, Inv, Recovery
  <2>2. Slots' = {}
    BY <2>1, Zenon DEF Slots, Active
  <2>3. Cardinality(Slots)' = 0
    BY <2>2, Zenon DEF FiniteFacts
  <2> QED
    <3>1. Active' = {} /\ Len(lh') = 0
      BY <2>1, Zenon DEF Active
    <3>2. Len(lh') + Cardinality(Slots)' = 0
      BY <2>3, <3>1
    <3> QED
      BY <1>1, <2>1, <3>1, <3>2, Zenon DEF Reserved, Fits
<1> QED
  BY <1>2, <1>3, Zenon

\* The reservation is kept by every step.
LEMMA NextReserved == FiniteFacts /\ Roomy /\ Inv /\ Inv' /\ Reserved /\ [Next]_vars => Reserved'
<1> SUFFICES ASSUME FiniteFacts, Roomy, Inv, Inv', Reserved, [Next]_vars PROVE Reserved'
  BY Zenon
<1>1. CASE UNCHANGED vars
  BY <1>1, Zenon DEF vars, logVars, procVars, Reserved, Fits, Slots, Active, Logged
<1>2. CASE Next
  BY <1>2, BeginOpReserved, LogWriteCheckReserved, LogWriteReserved, EndOpReserved, CommitReserved,
     RecoveryReserved, Zenon DEF Next
<1> QED
  BY <1>1, <1>2, Zenon

-----------------------------------------------------------------------------

INSTANCE FiniteSetTheorems

LEMMA FiniteSetsCount == FiniteFacts
<1>1. /\ IsFiniteSet({}) /\ Cardinality({}) = 0
      /\ \A S : IsFiniteSet(S) => Cardinality(S) \in Nat /\ (Cardinality(S) = 0 => S = {})
  BY FS_EmptySet, FS_CardinalityType, Zenon
<1>2. /\ \A S, p : IsFiniteSet(S) /\ p \notin S =>
           IsFiniteSet(S \cup {p}) /\ Cardinality(S \cup {p}) = Cardinality(S) + 1
      /\ \A S, p : IsFiniteSet(S) /\ p \in S =>
           IsFiniteSet(S \ {p}) /\ Cardinality(S \ {p}) = Cardinality(S) - 1
  BY FS_AddElement, FS_RemoveElement, Zenon
<1>3. \A S, T : IsFiniteSet(S) /\ T \subseteq S =>
        IsFiniteSet(T) /\ Cardinality(T) <= Cardinality(S)
  BY FS_Subset, Zenon
<1>4. \A n \in Nat : IsFiniteSet(1..n) /\ Cardinality(1..n) = n
  BY FS_Interval
<1>5. \A S, T : IsFiniteSet(S) /\ IsFiniteSet(T) =>
        IsFiniteSet(S \X T) /\ Cardinality(S \X T) = Cardinality(S) * Cardinality(T)
  BY FS_Product, Zenon
<1> QED
  BY <1>1, <1>2, <1>3, <1>4, <1>5, Zenon DEF FiniteFacts

\* As long as transactions fit into the log, the log implements AtomicDisk: the
\* disk that recovery leads to changes only at write_head(), from one state
\* between operations to the next, whenever and however often the machine crashes.
THEOREM LogImplementsAtomicDisk == Spec /\ []Fits => ImplementsAtomicDisk
<1>1. Spec /\ []Fits => []Inv
  BY FiniteSetsCount, InitInv, NextInv, PTL DEF Spec
<1>2. Spec /\ []Inv => Abstract!Init
  BY InitRefines, PTL DEF Spec
<1>3. [][Next]_vars /\ []Inv /\ []Fits => [][Abstract!Next]_absVars
  BY FiniteSetsCount, NextRefines, PTL
<1> QED
  BY <1>1, <1>2, <1>3, PTL DEF Spec, ImplementsAtomicDisk, Abstract!Spec, absVars

\* Likewise, what an operation wrote survives a crash once no operation is left.
THEOREM LogDurableAtRest == Spec /\ []Fits => []DurableAtRest
BY FiniteSetsCount, InitInv, NextInv, InvDurableAtRest, PTL DEF Spec

\* And nobody sleeps in begin_op() when no wakeup is to come.
THEOREM LogSleepersWillWake == Spec /\ []Fits => []SleepersWillWake
<1>1. Inv => SleepersWillWake
  BY Zenon DEF Inv, Sleepers
<1> QED
  BY <1>1, FiniteSetsCount, InitInv, NextInv, PTL DEF Spec

\* If operations write fewer blocks than begin_op() reserves for each, however often
\* they write them, and the log has room for that (Roomy), then transactions always
\* fit into the log, whoever writes in whatever order, and none of the panics of
\* log_write() ("too big a transaction", "log_write outside of trans") and of
\* end_op() ("log.committing") is ever reached.
THEOREM ReservationSuffices ==
  ASSUME Roomy
  PROVE  Spec => [](Fits /\ mode /= "panic")
<1>1. Init => Fits /\ Reserved
  BY Constants DEF Init, Roomy, Reserved, Fits
<1>2. Reserved => Fits /\ mode /= "panic"
  BY Zenon DEF Reserved
<1>3. Inv /\ Inv' /\ Reserved /\ [Next]_vars => Reserved'
  BY FiniteSetsCount, NextReserved, Zenon
<1> QED
  BY <1>1, <1>2, <1>3, FiniteSetsCount, InitInv, NextInv, PTL DEF Spec

=============================================================================
