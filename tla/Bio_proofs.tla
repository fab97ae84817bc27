----------------------------- MODULE Bio_proofs -----------------------------
(***************************************************************************)
(* The inductive invariant of Bio, for any number of processes, blocks and *)
(* buffers, its proof and the theorems about the buffer cache.             *)
(***************************************************************************)
EXTENDS Bio, TLAPS

Flag == {"BUSY", "VALID", "DIRTY"}

Types ==
  /\ blockno \in [Buf -> Block \cup {NoBlock}]
  /\ flags \in [Buf -> SUBSET Flag]
  /\ data \in [Buf -> Nat] /\ disk \in [Block -> Nat] /\ content \in [Block -> Nat]
  /\ nwrites \in Nat
  /\ lru \in [Buf -> Buf] /\ idequeue \in Seq(Buf)
  /\ pc \in [Proc -> {"idle", "bsleep", "bget", "iderw", "iosleep", "iotest", "use"}]
  /\ mine \in [Proc -> Buf \cup {0}]
  /\ want \in [Proc -> Block \cup {NoBlock}]

\* Every buffer is in the list, so a pass over it finds the buffer of a block.
Listed == \A b \in Buf : \E i \in Buf : lru[i] = b

\* A block is in one buffer at most.
Unique == \A a, b \in Buf : blockno[a] = blockno[b] /\ blockno[a] /= NoBlock => a = b

\* A process in bget() looks for a block of the disk; one that got a buffer has it
\* to itself until brelse().
Owners ==
  /\ \A p \in Proc : pc[p] \in {"bsleep", "bget"} => want[p] \in Block
  /\ \A p \in Proc : Owns(p) => /\ mine[p] \in Buf /\ want[p] \in Block
                                /\ blockno[mine[p]] = want[p]
                                /\ "BUSY" \in flags[mine[p]]
  /\ \A p, q \in Proc : Owns(p) /\ Owns(q) /\ mine[p] = mine[q] => p = q

\* There is something to do for iderw(): the buffer is not VALID, or DIRTY.
Unsynced(b) == "VALID" \in flags[b] => "DIRTY" \in flags[b]

\* What the flags say.
Flags ==
  /\ \A b \in Buf : "DIRTY" \in flags[b] => "VALID" \in flags[b]
  /\ \A b \in Buf : "VALID" \in flags[b] => blockno[b] \in Block
  /\ \A p \in Proc : pc[p] = "use" => "VALID" \in flags[mine[p]]
  /\ \A p \in Proc : pc[p] = "iderw" => Unsynced(mine[p])

\* The requests in the queue are those of processes that sleep in iderw(), and the
\* controller works on the first, as it was when idestart() looked at it.
Queued ==
  /\ \A i \in 1..Len(idequeue) :
       /\ \E p \in Proc : pc[p] \in {"iosleep", "iotest"} /\ mine[p] = idequeue[i]
       /\ Unsynced(idequeue[i])
  /\ \A i, j \in 1..Len(idequeue) : idequeue[i] = idequeue[j] => i = j
  /\ idequeue /= <<>> => ide = Command(Head(idequeue))

\* Without read errors, a VALID buffer holds what was last put into its block, and
\* so does the disk unless the buffer of the block is DIRTY.
Latest ==
  IdeOk = {TRUE} =>
    /\ \A b \in Buf : "VALID" \in flags[b] => data[b] = content[blockno[b]]
    /\ \A n \in Block :
         (\A b \in Buf : blockno[b] = n => "DIRTY" \notin flags[b]) => disk[n] = content[n]

Inv == Types /\ Listed /\ Unique /\ Owners /\ Flags /\ Queued /\ Latest

-----------------------------------------------------------------------------

LEMMA Constants == NBUF \in Nat /\ NoBlock \notin Block /\ \A p \in Proc : Reads[p] \subseteq Block
BY BioAssumption, Zenon

\* The invariant holds when binit() and ideinit() are done.
LEMMA InitInv == Init => Inv
<1> SUFFICES ASSUME Init PROVE Inv
  BY Zenon
<1>1. Types
  BY Constants DEF Init, Types, Buf
<1>2. Listed
  <2> SUFFICES ASSUME NEW b \in Buf PROVE \E i \in Buf : lru[i] = b
    BY Zenon DEF Listed
  <2>1. NBUF + 1 - b \in Buf /\ lru[NBUF + 1 - b] = b
    BY Constants DEF Init, Buf
  <2> QED
    BY <2>1, Zenon
<1>3. Unique /\ Owners /\ Flags
  BY Constants, Zenon DEF Init, Unique, Owners, Owns, Flags, Unsynced
<1>4. Queued
  BY DEF Init, Queued
<1>5. Latest
  BY Zenon DEF Init, Latest
<1> QED
  BY <1>1, <1>2, <1>3, <1>4, <1>5, Zenon DEF Inv

\* Nobody's request is for a buffer that is free, or that its owner uses.
LEMMA NotQueued ==
  ASSUME Inv, NEW b \in Buf,
         "BUSY" \notin flags[b] \/ \E p \in Proc : pc[p] \in {"use", "iderw"} /\ mine[p] = b
  PROVE  \A i \in 1..Len(idequeue) : idequeue[i] /= b
<1> SUFFICES ASSUME NEW i \in 1..Len(idequeue), idequeue[i] = b PROVE FALSE
  BY Zenon
<1>1. PICK r \in Proc : pc[r] \in {"iosleep", "iotest"} /\ mine[r] = b
  BY Zenon DEF Inv, Queued
<1>2. Owns(r) /\ "BUSY" \in flags[b]
  BY <1>1, Zenon DEF Inv, Owners, Owns
<1>3. PICK p \in Proc : pc[p] \in {"use", "iderw"} /\ mine[p] = b
  BY <1>2, Zenon
<1>4. Owns(p)
  BY <1>3, Zenon DEF Owns
<1>5. p = r
  BY <1>1, <1>2, <1>3, <1>4, Zenon DEF Inv, Owners
<1> QED
  BY <1>1, <1>3, <1>5, Zenon

\* The queue stays as it is when its buffers and their owners do.
LEMMA QueueKept ==
  ASSUME Inv, idequeue' = idequeue, ide' = ide,
         \A i \in 1..Len(idequeue) : /\ flags'[idequeue[i]] = flags[idequeue[i]]
                                     /\ blockno'[idequeue[i]] = blockno[idequeue[i]]
                                     /\ data'[idequeue[i]] = data[idequeue[i]],
         \A r \in Proc : /\ pc[r] \in {"iosleep", "iotest"}
                         /\ \E i \in 1..Len(idequeue) : idequeue[i] = mine[r]
                         => pc'[r] \in {"iosleep", "iotest"} /\ mine'[r] = mine[r]
  PROVE  Queued'
<1>1. ASSUME NEW i \in 1..Len(idequeue)
      PROVE  /\ \E r \in Proc : pc'[r] \in {"iosleep", "iotest"} /\ mine'[r] = idequeue[i]
             /\ "VALID" \in flags'[idequeue[i]] => "DIRTY" \in flags'[idequeue[i]]
  <2>1. PICK r \in Proc : pc[r] \in {"iosleep", "iotest"} /\ mine[r] = idequeue[i]
    BY Zenon DEF Inv, Queued
  <2>2. "VALID" \in flags[idequeue[i]] => "DIRTY" \in flags[idequeue[i]]
    BY Zenon DEF Inv, Queued, Unsynced
  <2> QED
    BY <2>1, <2>2, Zenon
<1>2. ASSUME idequeue /= <<>> PROVE ide = Command(Head(idequeue))'
  <2>1. 1 \in 1..Len(idequeue) /\ Head(idequeue) = idequeue[1]
    BY <1>2 DEF Inv, Types
  <2>2. /\ flags'[Head(idequeue)] = flags[Head(idequeue)]
        /\ blockno'[Head(idequeue)] = blockno[Head(idequeue)]
        /\ data'[Head(idequeue)] = data[Head(idequeue)]
    BY <2>1, Zenon
  <2>3. ide = Command(Head(idequeue))
    BY <1>2, Zenon DEF Inv, Queued
  <2> QED
    BY <2>2, <2>3, Zenon DEF Command
<1>3. \A i, j \in 1..Len(idequeue) : idequeue[i] = idequeue[j] => i = j
  BY Zenon DEF Inv, Queued
<1> QED
  BY <1>1, <1>2, <1>3, Zenon DEF Queued, Unsynced

\* bget() finds the block in a buffer that is not busy.
LEMMA TakeInv ==
  ASSUME Inv, NEW p \in Proc, ~Owns(p), NEW n \in Block, NEW b \in Buf,
         blockno[b] = n, "BUSY" \notin flags[b],
         flags' = [flags EXCEPT ![b] = @ \cup {"BUSY"}], Got(p, b),
         want' \in [Proc -> Block \cup {NoBlock}], want'[p] = n,
         \A q \in Proc : q /= p => want'[q] = want[q],
         UNCHANGED <<blockno, data, lru, idequeue, ide, disk, content, nwrites>>
  PROVE  Inv'
<1>1. /\ \A q \in Proc : q /= p => pc'[q] = pc[q] /\ mine'[q] = mine[q]
      /\ mine'[p] = b /\ pc'[p] = IF "VALID" \in flags'[b] THEN "use" ELSE "iderw"
  BY Zenon DEF Inv, Types, Got
<1>2. flags'[b] = flags[b] \cup {"BUSY"} /\ \A a \in Buf : a /= b => flags'[a] = flags[a]
  BY Zenon DEF Inv, Types
<1>3. \A q \in Proc : Owns(q) => mine[q] /= b
  BY Zenon DEF Inv, Owners
<1>4. Owns(p)' /\ \A q \in Proc : q /= p => (Owns(q)' <=> Owns(q))
  BY <1>1, Zenon DEF Owns
<1>5. \A a \in Buf : /\ "VALID" \in flags'[a] <=> "VALID" \in flags[a]
                     /\ "DIRTY" \in flags'[a] <=> "DIRTY" \in flags[a]
  BY <1>2
<1>6. Types'
  BY Zenon DEF Inv, Types, Got, Flag
<1>7. Listed' /\ Unique'
  BY Zenon DEF Inv, Listed, Unique
<1>8. Owners'
  <2>1. \A q \in Proc : pc'[q] \in {"bsleep", "bget"} => want'[q] \in Block
    BY <1>1, Zenon DEF Inv, Owners
  <2>2. ASSUME NEW q \in Proc, Owns(q)'
        PROVE  /\ mine'[q] \in Buf /\ want'[q] \in Block /\ blockno'[mine'[q]] = want'[q]
               /\ "BUSY" \in flags'[mine'[q]]
    BY <1>1, <1>2, <1>4, <2>2 DEF Inv, Owners
  <2>3. \A q, r \in Proc : Owns(q)' /\ Owns(r)' /\ mine'[q] = mine'[r] => q = r
    BY <1>1, <1>3, <1>4 DEF Inv, Owners
  <2> QED
    BY <2>1, <2>2, <2>3, Zenon DEF Owners
<1>9. Flags'
  <2>1. \A a \in Buf : /\ "DIRTY" \in flags'[a] => "VALID" \in flags'[a]
                       /\ "VALID" \in flags'[a] => blockno'[a] \in Block
    BY <1>5, Zenon DEF Inv, Flags
  <2>2. ASSUME NEW q \in Proc, q /= p, pc'[q] \in {"use", "iderw"}
        PROVE  /\ pc'[q] = "use" => "VALID" \in flags'[mine'[q]]
               /\ pc'[q] = "iderw" => Unsynced(mine[q])'
    <3>1. mine'[q] = mine[q] /\ mine[q] \in Buf /\ pc'[q] = pc[q]
      BY <1>1, <2>2, Zenon DEF Inv, Owners, Owns
    <3> QED
      BY <1>5, <2>2, <3>1, Zenon DEF Inv, Flags, Unsynced
  <2> QED
    BY <1>1, <2>1, <2>2, Zenon DEF Flags, Unsynced
<1>10. Queued'
  <2>1. \A i \in 1..Len(idequeue) : idequeue[i] /= b
    BY NotQueued, Zenon
  <2>2. \A i \in 1..Len(idequeue) : idequeue[i] \in Buf
    BY DEF Inv, Types
  <2>3. \A r \in Proc : pc[r] \in {"iosleep", "iotest"} => r /= p
    BY Zenon DEF Owns
  <2> QED
    BY <1>1, <1>2, <2>1, <2>2, <2>3, QueueKept, Zenon
<1>11. Latest'
  BY <1>5, Zenon DEF Inv, Latest
<1> QED
  BY <1>6, <1>7, <1>8, <1>9, <1>10, <1>11, Zenon DEF Inv

\* bget() recycles a buffer that is neither busy nor dirty, when no buffer holds
\* the block.
LEMMA RecycleInv ==
  ASSUME Inv, NEW p \in Proc, ~Owns(p), NEW n \in Block, NEW b \in Buf,
         \A a \in Buf : blockno[a] /= n, Recyclable(b),
         blockno' = [blockno EXCEPT ![b] = n],
         flags' = [flags EXCEPT ![b] = {"BUSY"}], Got(p, b),
         want' \in [Proc -> Block \cup {NoBlock}], want'[p] = n,
         \A q \in Proc : q /= p => want'[q] = want[q],
         UNCHANGED <<data, lru, idequeue, ide, disk, content, nwrites>>
  PROVE  Inv'
<1>0. "BUSY" \notin flags[b] /\ "DIRTY" \notin flags[b]
  BY Zenon DEF Recyclable
<1>1. /\ flags'[b] = {"BUSY"} /\ blockno'[b] = n
      /\ \A a \in Buf : a /= b => flags'[a] = flags[a] /\ blockno'[a] = blockno[a]
  BY Zenon DEF Inv, Types
<1>2. /\ \A q \in Proc : q /= p => pc'[q] = pc[q] /\ mine'[q] = mine[q]
      /\ mine'[p] = b /\ pc'[p] = "iderw"
  BY <1>1 DEF Inv, Types, Got
<1>3. \A q \in Proc : Owns(q) => mine[q] /= b
  BY <1>0, Zenon DEF Inv, Owners
<1>4. Owns(p)' /\ \A q \in Proc : q /= p => (Owns(q)' <=> Owns(q))
  BY <1>2, Zenon DEF Owns
<1>6. Types'
  BY Zenon DEF Inv, Types, Got, Flag
<1>7. Listed' /\ Unique'
  BY <1>1 DEF Inv, Listed, Unique
<1>8. Owners'
  <2>1. \A q \in Proc : pc'[q] \in {"bsleep", "bget"} => want'[q] \in Block
    BY <1>2, Zenon DEF Inv, Owners
  <2>2. ASSUME NEW q \in Proc, Owns(q)'
        PROVE  /\ mine'[q] \in Buf /\ want'[q] \in Block /\ blockno'[mine'[q]] = want'[q]
               /\ "BUSY" \in flags'[mine'[q]]
    BY <1>1, <1>2, <1>3, <1>4, <2>2 DEF Inv, Owners
  <2>3. \A q, r \in Proc : Owns(q)' /\ Owns(r)' /\ mine'[q] = mine'[r] => q = r
    BY <1>2, <1>3, <1>4 DEF Inv, Owners
  <2> QED
    BY <2>1, <2>2, <2>3, Zenon DEF Owners
<1>9. Flags'
  <2>1. \A a \in Buf : /\ "DIRTY" \in flags'[a] => "VALID" \in flags'[a]
                       /\ "VALID" \in flags'[a] => blockno'[a] \in Block
    BY <1>1, Zenon DEF Inv, Flags
  <2>2. ASSUME NEW q \in Proc, q /= p, pc'[q] \in {"use", "iderw"}
        PROVE  /\ pc'[q] = "use" => "VALID" \in flags'[mine'[q]]
               /\ pc'[q] = "iderw" => Unsynced(mine[q])'
    <3>1. mine'[q] = mine[q] /\ mine[q] \in Buf /\ mine[q] /= b /\ pc'[q] = pc[q]
      BY <1>2, <1>3, <2>2, Zenon DEF Inv, Owners, Owns
    <3> QED
      BY <1>1, <2>2, <3>1 DEF Inv, Flags, Unsynced
  <2> QED
    BY <1>1, <1>2, <2>1, <2>2 DEF Flags, Unsynced
<1>10. Queued'
  <2>1. \A i \in 1..Len(idequeue) : idequeue[i] /= b
    BY <1>0, NotQueued, Zenon
  <2>2. \A i \in 1..Len(idequeue) : idequeue[i] \in Buf
    BY DEF Inv, Types
  <2>3. \A r \in Proc : pc[r] \in {"iosleep", "iotest"} => r /= p
    BY Zenon DEF Owns
  <2> QED
    BY <1>1, <1>2, <2>1, <2>2, <2>3, QueueKept
<1>11. Latest'
  <2> SUFFICES ASSUME IdeOk = {TRUE}
               PROVE  /\ \A a \in Buf : "VALID" \in flags'[a] => data[a] = content[blockno'[a]]
                      /\ \A m \in Block :
                           (\A a \in Buf : blockno'[a] = m => "DIRTY" \notin flags'[a]) => disk[m] = content[m]
    BY Zenon DEF Latest
  <2>1. \A a \in Buf : "VALID" \in flags'[a] => data[a] = content[blockno'[a]]
    BY <1>1 DEF Inv, Latest
  <2>2. ASSUME NEW m \in Block, \A a \in Buf : blockno'[a] = m => "DIRTY" \notin flags'[a]
        PROVE  \A a \in Buf : blockno[a] = m => "DIRTY" \notin flags[a]
    BY <1>0, <1>1, <2>2, Zenon
  <2> QED
    BY <2>1, <2>2 DEF Inv, Latest
<1> QED
  BY <1>6, <1>7, <1>8, <1>9, <1>10, <1>11, Zenon DEF Inv

\* A process without a buffer goes to sleep in bget(), or stays where it is.
LEMMA OutsideInv ==
  ASSUME Inv, NEW p \in Proc, ~Owns(p), ~Owns(p)',
         pc' \in [Proc -> {"idle", "bsleep", "bget", "iderw", "iosleep", "iotest", "use"}],
         mine' \in [Proc -> Buf \cup {0}], want' \in [Proc -> Block \cup {NoBlock}],
         want'[p] \in Block,
         \A q \in Proc : q /= p => pc'[q] = pc[q] /\ mine'[q] = mine[q] /\ want'[q] = want[q],
         UNCHANGED <<blockno, flags, data, lru, idequeue, ide, disk, content, nwrites>>
  PROVE  Inv'
<1>1. \A q \in Proc : q /= p => (Owns(q)' <=> Owns(q))
  BY Zenon DEF Owns
<1>2. Types' /\ Listed' /\ Unique' /\ Latest'
  BY Zenon DEF Inv, Types, Listed, Unique, Latest
<1>3. Owners'
  <2>1. \A q \in Proc : pc'[q] \in {"bsleep", "bget"} => want'[q] \in Block
    BY Zenon DEF Inv, Owners
  <2>2. \A q \in Proc : Owns(q)' => /\ mine'[q] \in Buf /\ want'[q] \in Block
                                    /\ blockno'[mine'[q]] = want'[q]
                                    /\ "BUSY" \in flags'[mine'[q]]
    BY <1>1 DEF Inv, Owners
  <2>3. \A q, r \in Proc : Owns(q)' /\ Owns(r)' /\ mine'[q] = mine'[r] => q = r
    BY <1>1 DEF Inv, Owners
  <2> QED
    BY <2>1, <2>2, <2>3, Zenon DEF Owners
<1>4. Flags'
  BY Zenon DEF Inv, Flags, Owns, Unsynced
<1>5. Queued'
  <2>1. \A r \in Proc : pc[r] \in {"iosleep", "iotest"} => r /= p
    BY Zenon DEF Owns
  <2> QED
    BY <2>1, QueueKept, Zenon
<1> QED
  BY <1>2, <1>3, <1>4, <1>5, Zenon DEF Inv

\* A pass of bget()'s loop keeps the invariant.
LEMMA BgetLoopInv ==
  ASSUME Inv, NEW p \in Proc, ~Owns(p), NEW n \in Block, BgetLoop(p, n),
         want' \in [Proc -> Block \cup {NoBlock}], want'[p] = n,
         \A q \in Proc : q /= p => want'[q] = want[q],
         UNCHANGED <<idequeue, ide, disk, content, nwrites>>
  PROVE  Inv'
<1> DEFINE hits == {i \in Buf : blockno[lru[i]] = n}
           spare == {i \in Buf : Recyclable(lru[i])}
<1>0. \A i \in Buf : lru[i] \in Buf
  BY Zenon DEF Inv, Types
<1>1. CASE /\ \E i \in hits :
                IF "BUSY" \in flags[lru[i]]
                THEN /\ mine' = [mine EXCEPT ![p] = lru[i]]
                     /\ pc' = [pc EXCEPT ![p] = "bsleep"]
                     /\ UNCHANGED flags
                ELSE /\ flags' = [flags EXCEPT ![lru[i]] = @ \cup {"BUSY"}]
                     /\ Got(p, lru[i])
           /\ UNCHANGED <<blockno, data, lru>>
  <2>1. PICK i \in hits : IF "BUSY" \in flags[lru[i]]
                          THEN /\ mine' = [mine EXCEPT ![p] = lru[i]]
                               /\ pc' = [pc EXCEPT ![p] = "bsleep"]
                               /\ UNCHANGED flags
                          ELSE /\ flags' = [flags EXCEPT ![lru[i]] = @ \cup {"BUSY"}]
                               /\ Got(p, lru[i])
    BY <1>1, Zenon
  <2>2. lru[i] \in Buf /\ blockno[lru[i]] = n
    BY <1>0, Zenon
  <2>3. CASE "BUSY" \in flags[lru[i]]
    <3>1. /\ pc' \in [Proc -> {"idle", "bsleep", "bget", "iderw", "iosleep", "iotest", "use"}]
          /\ mine' \in [Proc -> Buf \cup {0}] /\ pc'[p] = "bsleep"
          /\ \A q \in Proc : q /= p => pc'[q] = pc[q] /\ mine'[q] = mine[q]
      BY <2>1, <2>2, <2>3, Zenon DEF Inv, Types
    <3>2. ~Owns(p)'
      BY <3>1, Zenon DEF Owns
    <3> QED
      BY <1>1, <2>1, <2>3, <3>1, <3>2, OutsideInv, Zenon
  <2>4. CASE "BUSY" \notin flags[lru[i]]
    BY <1>1, <2>1, <2>2, <2>4, TakeInv, Zenon
  <2> QED
    BY <2>3, <2>4, Zenon
<1>2. CASE /\ hits = {}
           /\ \E i \in spare : /\ blockno' = [blockno EXCEPT ![lru[i]] = n]
                               /\ flags' = [flags EXCEPT ![lru[i]] = RecycledFlags(lru[i])]
                               /\ Got(p, lru[i])
           /\ UNCHANGED <<data, lru>>
  <2>1. PICK i \in spare : /\ blockno' = [blockno EXCEPT ![lru[i]] = n]
                           /\ flags' = [flags EXCEPT ![lru[i]] = RecycledFlags(lru[i])]
                           /\ Got(p, lru[i])
    BY Zenon, <1>2
  <2>2. lru[i] \in Buf /\ Recyclable(lru[i])
    BY <1>0, Zenon
  <2>3. \A a \in Buf : blockno[a] /= n
    BY <1>2 DEF Inv, Listed
  <2>4. flags' = [flags EXCEPT ![lru[i]] = {"BUSY"}]
    BY <2>1, Zenon DEF RecycledFlags
  <2>5. UNCHANGED <<data, lru, idequeue, ide, disk, content, nwrites>>
    BY <1>2, Zenon
  <2> HIDE DEF hits, spare
  <2> QED
    BY <2>1, <2>2, <2>3, <2>4, <2>5, RecycleInv, Zenon
<1>3. CASE UNCHANGED <<bufVars, pc, mine>>
  <2>1. UNCHANGED <<blockno, flags, data, lru, pc, mine>> /\ ~Owns(p)'
    BY <1>3, Zenon DEF bufVars, Owns
  <2>2. /\ pc' \in [Proc -> {"idle", "bsleep", "bget", "iderw", "iosleep", "iotest", "use"}]
        /\ mine' \in [Proc -> Buf \cup {0}]
    BY <2>1, Zenon DEF Inv, Types
  <2>3. want'[p] \in Block
    BY Zenon
  <2>4. \A q \in Proc : q /= p => pc'[q] = pc[q] /\ mine'[q] = mine[q] /\ want'[q] = want[q]
    BY <2>1, Zenon
  <2>5. UNCHANGED <<blockno, flags, data, lru, idequeue, ide, disk, content, nwrites>>
    BY <2>1, Zenon
  <2> QED
    BY <2>1, <2>2, <2>3, <2>4, <2>5, OutsideInv, Zenon
<1> QED
  BY <1>1, <1>2, <1>3, Zenon DEF BgetLoop

\* A step that changes none of the variables but panicked.
LEMMA SameInv ==
  ASSUME Inv, UNCHANGED <<blockno, flags, data, lru, idequeue, ide, disk, pc, mine, want, content, nwrites>>
  PROVE  Inv'
<1>1. Types' /\ Listed' /\ Unique' /\ Latest'
  BY Zenon DEF Inv, Types, Listed, Unique, Latest
<1>2. Owners' /\ Flags'
  BY Zenon DEF Inv, Owners, Flags, Owns, Unsynced
<1>3. Queued'
  BY QueueKept, Zenon
<1> QED
  BY <1>1, <1>2, <1>3, Zenon DEF Inv

\* The states of a process that keeps its buffer; only pc changes.
LEMMA KeepsInv ==
  ASSUME Inv, NEW p \in Proc, Owns(p), Owns(p)',
         pc' \in [Proc -> {"idle", "bsleep", "bget", "iderw", "iosleep", "iotest", "use"}],
         \A q \in Proc : q /= p => pc'[q] = pc[q],
         pc'[p] /= "iderw", pc'[p] = "use" => "VALID" \in flags[mine[p]],
         UNCHANGED <<blockno, flags, data, lru, disk, mine, want, content, nwrites>>,
         idequeue' \in Seq(Buf), Queued'
  PROVE  Inv'
<1>1. \A q \in Proc : Owns(q)' <=> Owns(q)
  BY Zenon DEF Owns
<1>2. Types' /\ Listed' /\ Unique' /\ Latest'
  BY Zenon DEF Inv, Types, Listed, Unique, Latest
<1>3. Owners'
  BY <1>1, Zenon DEF Inv, Owners, Owns
<1>4. Flags'
  BY Zenon DEF Inv, Flags, Unsynced
<1> QED
  BY <1>2, <1>3, <1>4, Zenon DEF Inv

\* iderw() queues the buffer and sleeps.
LEMMA IderwInv == ASSUME Inv, NEW p \in Proc, Iderw(p) PROVE Inv'
<1> DEFINE b == mine[p]
<1>1. pc[p] = "iderw" /\ Owns(p) /\ b \in Buf /\ "BUSY" \in flags[b] /\ Unsynced(b)
  BY Zenon DEF Iderw, Owns, Inv, Owners, Flags
<1>2. ~("BUSY" \notin flags[b] \/ flags[b] \cap {"VALID", "DIRTY"} = {"VALID"})
  BY <1>1 DEF Unsynced
<1>3. /\ idequeue' = Append(idequeue, b)
      /\ ide' = IF idequeue = <<>> THEN Command(b) ELSE ide
      /\ pc' = [pc EXCEPT ![p] = "iosleep"]
      /\ UNCHANGED <<blockno, flags, data, lru, disk, mine, want, content, nwrites>>
  BY <1>2, Zenon DEF Iderw, bufVars
<1>4. /\ pc' \in [Proc -> {"idle", "bsleep", "bget", "iderw", "iosleep", "iotest", "use"}]
      /\ pc'[p] = "iosleep" /\ \A q \in Proc : q /= p => pc'[q] = pc[q]
  BY <1>3, Zenon DEF Inv, Types
<1>5. idequeue \in Seq(Buf) /\ idequeue' \in Seq(Buf)
  BY <1>1, <1>3 DEF Inv, Types
<1> HIDE DEF b
<1>6. /\ Len(idequeue') = Len(idequeue) + 1 /\ Len(idequeue) \in Nat
      /\ idequeue'[Len(idequeue) + 1] = b
      /\ \A i \in 1..Len(idequeue) : idequeue'[i] = idequeue[i]
  BY <1>1, <1>3, <1>5
<1>7. \A i \in 1..Len(idequeue) : idequeue[i] /= b
  BY <1>1, NotQueued, Zenon DEF b
<1>8. Queued'
  <2>1. ASSUME NEW i \in 1..Len(idequeue')
        PROVE  /\ \E r \in Proc : pc'[r] \in {"iosleep", "iotest"} /\ mine'[r] = idequeue'[i]
               /\ "VALID" \in flags'[idequeue'[i]] => "DIRTY" \in flags'[idequeue'[i]]
    <3>1. CASE i = Len(idequeue) + 1
      BY <1>1, <1>3, <1>4, <1>6, <3>1, Zenon DEF Unsynced, b
    <3>2. CASE i \in 1..Len(idequeue)
      <4>1. PICK r \in Proc : pc[r] \in {"iosleep", "iotest"} /\ mine[r] = idequeue[i]
        BY <3>2, Zenon DEF Inv, Queued
      <4>2. pc'[r] \in {"iosleep", "iotest"}
        BY <1>4, <4>1, Zenon
      <4>3. "VALID" \in flags[idequeue[i]] => "DIRTY" \in flags[idequeue[i]]
        BY <3>2, Zenon DEF Inv, Queued, Unsynced
      <4>4. idequeue'[i] = idequeue[i] /\ flags' = flags /\ mine' = mine
        BY <1>3, <1>6, <3>2, Zenon
      <4> QED
        BY <4>1, <4>2, <4>3, <4>4, Zenon
    <3> QED
      BY <1>6, <2>1, <3>1, <3>2
  <2>2. \A i, j \in 1..Len(idequeue') : idequeue'[i] = idequeue'[j] => i = j
    <3>1. \A i, j \in 1..Len(idequeue) : idequeue[i] = idequeue[j] => i = j
      BY Zenon DEF Inv, Queued
    <3> QED
      BY <1>6, <1>7, <3>1
  <2>3. ide' = Command(Head(idequeue))'
    <3>1. \A a \in Buf : Command(a)' = Command(a)
      BY <1>3, Zenon DEF Command
    <3>2. CASE idequeue = <<>>
      <4>1. Head(idequeue') = b
        BY <1>3, <3>2
      <4> QED
        BY <1>1, <1>3, <3>2, <4>1, Zenon DEF Command
    <3>3. CASE idequeue /= <<>>
      <4>1. Head(idequeue') = Head(idequeue) /\ Head(idequeue) \in Buf
        BY <1>1, <1>3, <1>5, <3>3
      <4>2. ide' = Command(Head(idequeue))
        BY <1>3, <3>3, Zenon DEF Inv, Queued
      <4> QED
        BY <1>3, <4>1, <4>2, Zenon DEF Command
    <3> QED
      BY <3>2, <3>3, Zenon
  <2> QED
    BY <2>1, <2>2, <2>3, Zenon DEF Queued, Unsynced
<1>9. Owns(p)' /\ pc'[p] /= "iderw" /\ pc'[p] /= "use"
  BY <1>4, Zenon DEF Owns
<1> QED
  BY <1>1, <1>3, <1>4, <1>5, <1>8, <1>9, KeepsInv, Zenon

\* A process that was woken up tests the flags: VALID and not DIRTY is what
\* ideintr() leaves, and what nothing in the queue is.
LEMMA IderwTestInv == ASSUME Inv, NEW p \in Proc, IderwTest(p) PROVE Inv'
<1>1. pc[p] = "iotest" /\ Owns(p)
  BY Zenon DEF IderwTest, Owns
<1>2. /\ pc' = [pc EXCEPT ![p] = IF flags[mine[p]] \cap {"VALID", "DIRTY"} = {"VALID"}
                                 THEN "use" ELSE "iosleep"]
      /\ UNCHANGED <<blockno, flags, data, lru, disk, mine, want, content, nwrites>>
      /\ UNCHANGED <<idequeue, ide>>
  BY Zenon DEF IderwTest, bufVars, ideVars
<1>3. /\ pc' \in [Proc -> {"idle", "bsleep", "bget", "iderw", "iosleep", "iotest", "use"}]
      /\ pc'[p] \in {"use", "iosleep"} /\ \A q \in Proc : q /= p => pc'[q] = pc[q]
  BY <1>2, Zenon DEF Inv, Types
<1>4. pc'[p] = "use" => "VALID" \in flags[mine[p]] /\ "DIRTY" \notin flags[mine[p]]
  <2>1. pc'[p] = "use" => flags[mine[p]] \cap {"VALID", "DIRTY"} = {"VALID"}
    BY <1>2, Zenon DEF Inv, Types
  <2> QED
    BY <2>1
<1>5. Queued'
  <2>1. ASSUME NEW r \in Proc, pc[r] \in {"iosleep", "iotest"},
               \E i \in 1..Len(idequeue) : idequeue[i] = mine[r]
        PROVE  pc'[r] \in {"iosleep", "iotest"} /\ mine'[r] = mine[r]
    <3>1. Unsynced(mine[r])
      BY <2>1, Zenon DEF Inv, Queued
    <3> QED
      BY <1>2, <1>3, <1>4, <2>1, <3>1, Zenon DEF Unsynced
  <2> QED
    BY <1>2, <2>1, QueueKept, Zenon
<1>6. idequeue' \in Seq(Buf) /\ Owns(p)' /\ pc'[p] /= "iderw"
  BY <1>2, <1>3, Zenon DEF Inv, Types, Owns
<1> QED
  BY <1>1, <1>2, <1>3, <1>4, <1>5, <1>6, KeepsInv, Zenon

\* wakeup() moves the sleepers on one buffer, and nobody gets or loses a buffer.
LEMMA Woken ==
  ASSUME Inv, NEW b \in Buf
  PROVE  /\ Wakeup(b) \in [Proc -> {"idle", "bsleep", "bget", "iderw", "iosleep", "iotest", "use"}]
         /\ \A q \in Proc : /\ \A s \in {"idle", "iderw", "use"} : Wakeup(b)[q] = s <=> pc[q] = s
                            /\ \A S \in {{"bsleep", "bget"}, {"iosleep", "iotest"}} :
                                 Wakeup(b)[q] \in S <=> pc[q] \in S
BY Zenon DEF Inv, Types, Wakeup

\* ideintr() completes the first request.
LEMMA IdeintrInv == ASSUME Inv, Ideintr PROVE Inv'
<1> DEFINE b == Head(idequeue)
<1>1. idequeue \in Seq(Buf) /\ idequeue /= <<>> /\ Len(idequeue) \in Nat \ {0}
  BY DEF Ideintr, Inv, Types
<1>2. b = idequeue[1] /\ b \in Buf /\ 1 \in 1..Len(idequeue)
  BY <1>1
<1>3. /\ Tail(idequeue) \in Seq(Buf) /\ Len(Tail(idequeue)) = Len(idequeue) - 1
      /\ \A i \in 1..Len(Tail(idequeue)) : Tail(idequeue)[i] = idequeue[i + 1] /\ i + 1 \in 1..Len(idequeue)
  BY <1>1
<1>4. ide = Command(b) /\ Unsynced(b)
  BY <1>1, <1>2 DEF Inv, Queued
<1>5. PICK r \in Proc : pc[r] \in {"iosleep", "iotest"} /\ mine[r] = b
  BY <1>2 DEF Inv, Queued
<1>6. Owns(r) /\ blockno[b] \in Block /\ blockno[b] = want[r]
  BY <1>5, Zenon DEF Owns, Inv, Owners
<1>7. /\ disk' = IF "DIRTY" \in flags[b] THEN [disk EXCEPT ![blockno[b]] = data[b]] ELSE disk
      /\ \E ok \in IdeOk :
           data' = IF "DIRTY" \notin flags[b] /\ ok
                   THEN [data EXCEPT ![b] = disk[blockno[b]]] ELSE data
      /\ flags' = [flags EXCEPT ![b] = (@ \cup {"VALID"}) \ {"DIRTY"}]
      /\ pc' = Wakeup(b) /\ idequeue' = Tail(idequeue) /\ ide' = StartNext(Tail(idequeue))
      /\ UNCHANGED <<blockno, lru, mine, want, content, nwrites>>
  BY Zenon, <1>4 DEF Ideintr, Command
<1> HIDE DEF b
<1>8. /\ flags'[b] = (flags[b] \cup {"VALID"}) \ {"DIRTY"}
      /\ \A a \in Buf : a /= b => flags'[a] = flags[a] /\ data'[a] = data[a]
  BY <1>2, <1>7 DEF Inv, Types
<1>9. \A q \in Proc : /\ pc'[q] = "iderw" <=> pc[q] = "iderw"
                      /\ pc'[q] = "use" <=> pc[q] = "use"
                      /\ pc'[q] \in {"bsleep", "bget"} <=> pc[q] \in {"bsleep", "bget"}
                      /\ pc'[q] \in {"iosleep", "iotest"} <=> pc[q] \in {"iosleep", "iotest"}
  BY <1>2, <1>7, Woken
<1>10. \A q \in Proc : Owns(q)' <=> Owns(q)
  BY <1>9, Zenon DEF Owns
<1>11. Types'
  <2>1. data \in [Buf -> Nat] /\ disk \in [Block -> Nat] /\ disk[blockno[b]] \in Nat /\ data[b] \in Nat
    BY <1>2, <1>6, Zenon DEF Inv, Types
  <2>2. data' \in [Buf -> Nat]
    BY <1>2, <1>7, <2>1, Zenon
  <2>3. disk' \in [Block -> Nat]
    BY <1>6, <1>7, <2>1, Zenon
  <2>4. flags' \in [Buf -> SUBSET Flag]
    BY <1>2, <1>7, Zenon DEF Inv, Types, Flag
  <2>5. pc' \in [Proc -> {"idle", "bsleep", "bget", "iderw", "iosleep", "iotest", "use"}]
    BY <1>2, <1>7, Woken, Zenon
  <2>6. /\ blockno' \in [Buf -> Block \cup {NoBlock}] /\ content' \in [Block -> Nat]
        /\ nwrites' \in Nat /\ lru' \in [Buf -> Buf] /\ idequeue' \in Seq(Buf)
        /\ mine' \in [Proc -> Buf \cup {0}] /\ want' \in [Proc -> Block \cup {NoBlock}]
    BY <1>3, <1>7, Zenon DEF Inv, Types
  <2> QED
    BY <2>2, <2>3, <2>4, <2>5, <2>6, Zenon DEF Types
<1>12. Listed' /\ Unique'
  <2>1. blockno' = blockno /\ lru' = lru
    BY <1>7, Zenon
  <2> QED
    BY <2>1, Zenon DEF Inv, Listed, Unique
<1>13. Owners'
  <2>1. \A a \in Buf : "BUSY" \in flags[a] => "BUSY" \in flags'[a]
    BY <1>8, Zenon
  <2>2. \A q \in Proc : Owns(q)' => /\ mine'[q] \in Buf /\ want'[q] \in Block
                                    /\ blockno'[mine'[q]] = want'[q]
                                    /\ "BUSY" \in flags'[mine'[q]]
    BY <1>7, <1>10, <2>1, Zenon DEF Inv, Owners
  <2> QED
    BY <1>7, <1>9, <1>10, <2>2, Zenon DEF Inv, Owners
<1>14. \A q \in Proc : pc[q] = "iderw" => mine[q] /= b /\ mine[q] \in Buf
  <2>1. \A q \in Proc : pc[q] = "iderw" => Owns(q) /\ q /= r
    BY <1>5, Zenon DEF Owns
  <2> QED
    BY <1>5, <1>6, <2>1, Zenon DEF Inv, Owners
<1>15. Flags'
  <2>1. \A a \in Buf : "VALID" \in flags[a] => "VALID" \in flags'[a]
    BY <1>8, Zenon
  <2>2. \A a \in Buf : /\ "DIRTY" \in flags'[a] => "VALID" \in flags'[a]
                       /\ "VALID" \in flags'[a] => blockno'[a] \in Block
    BY <1>6, <1>7, <1>8, Zenon DEF Inv, Flags
  <2>3. ASSUME NEW q \in Proc, pc'[q] = "use" PROVE "VALID" \in flags'[mine'[q]]
    <3>1. pc[q] = "use" /\ mine'[q] = mine[q]
      BY <1>7, <1>9, <2>3, Zenon
    <3>2. mine[q] \in Buf /\ "VALID" \in flags[mine[q]]
      BY <3>1, Zenon DEF Inv, Owners, Owns, Flags
    <3> QED
      BY <2>1, <3>1, <3>2, Zenon
  <2>4. ASSUME NEW q \in Proc, pc'[q] = "iderw" PROVE Unsynced(mine[q])'
    <3>1. pc[q] = "iderw" /\ mine'[q] = mine[q]
      BY <1>7, <1>9, <2>4, Zenon
    <3>2. flags'[mine[q]] = flags[mine[q]] /\ Unsynced(mine[q])
      BY <1>8, <1>14, <3>1, Zenon DEF Inv, Flags
    <3> QED
      BY <3>1, <3>2, Zenon DEF Unsynced
  <2> QED
    BY <2>2, <2>3, <2>4, Zenon DEF Flags
<1>16. \A i \in 1..Len(Tail(idequeue)) : Tail(idequeue)[i] /= b /\ Tail(idequeue)[i] \in Buf
  <2>1. \A i, j \in 1..Len(idequeue) : idequeue[i] = idequeue[j] => i = j
    BY Zenon DEF Inv, Queued
  <2> QED
    BY <1>1, <1>2, <1>3, <2>1

<1>17. Queued'
  <2>1. ASSUME NEW i \in 1..Len(Tail(idequeue))
        PROVE  /\ \E q \in Proc : pc'[q] \in {"iosleep", "iotest"} /\ mine'[q] = Tail(idequeue)[i]
               /\ "VALID" \in flags'[Tail(idequeue)[i]] => "DIRTY" \in flags'[Tail(idequeue)[i]]
    <3>1. Tail(idequeue)[i] = idequeue[i + 1] /\ i + 1 \in 1..Len(idequeue)
      BY <1>3, Zenon
    <3>2. PICK q \in Proc : pc[q] \in {"iosleep", "iotest"} /\ mine[q] = Tail(idequeue)[i]
      BY <3>1, Zenon DEF Inv, Queued
    <3>3. "VALID" \in flags[Tail(idequeue)[i]] => "DIRTY" \in flags[Tail(idequeue)[i]]
      BY <3>1, Zenon DEF Inv, Queued, Unsynced
    <3>4. flags'[Tail(idequeue)[i]] = flags[Tail(idequeue)[i]]
      BY <1>8, <1>16, Zenon
    <3>5. pc'[q] \in {"iosleep", "iotest"} /\ mine'[q] = mine[q]
      BY <1>7, <1>9, <3>2, Zenon
    <3> QED
      BY <3>2, <3>3, <3>4, <3>5, Zenon
  <2>2. \A i, j \in 1..Len(Tail(idequeue)) : Tail(idequeue)[i] = Tail(idequeue)[j] => i = j
    <3>1. \A i, j \in 1..Len(idequeue) : idequeue[i] = idequeue[j] => i = j
      BY Zenon DEF Inv, Queued
    <3> QED
      BY <1>1, <1>3, <3>1
  <2>3. ASSUME idequeue' /= <<>> PROVE ide' = Command(Head(idequeue))'
    <3> DEFINE a == Head(Tail(idequeue))
    <3>1. a = Tail(idequeue)[1] /\ 1 \in 1..Len(Tail(idequeue)) /\ Head(idequeue') = a
      BY <1>3, <1>7, <2>3
    <3>2. a \in Buf /\ a /= b
      BY Zenon, <1>16, <3>1
    <3>3. ide' = Command(a)
      BY <1>7, <2>3, Zenon DEF StartNext
    <3> HIDE DEF a
    <3>4. flags'[a] = flags[a] /\ data'[a] = data[a] /\ blockno'[a] = blockno[a]
      BY <1>7, <1>8, <3>2, Zenon
    <3> QED
      BY <3>1, <3>3, <3>4, Zenon DEF Command
  <2>4. idequeue' = Tail(idequeue)
    BY <1>7, Zenon
  <2> QED
    BY <2>1, <2>2, <2>3, <2>4, Zenon DEF Queued, Unsynced
<1>18. Latest'
  <2> SUFFICES ASSUME IdeOk = {TRUE}
               PROVE  /\ \A a \in Buf : "VALID" \in flags'[a] => data'[a] = content[blockno[a]]
                      /\ \A m \in Block :
                           (\A a \in Buf : blockno[a] = m => "DIRTY" \notin flags'[a]) => disk'[m] = content[m]
    BY <1>7, Zenon DEF Latest
  <2>1. /\ \A a \in Buf : "VALID" \in flags[a] => data[a] = content[blockno[a]]
        /\ \A m \in Block :
             (\A a \in Buf : blockno[a] = m => "DIRTY" \notin flags[a]) => disk[m] = content[m]
    BY Zenon DEF Inv, Latest
  <2>2. \A a \in Buf : blockno[a] = blockno[b] => a = b
    BY <1>2, <1>6, Constants, Zenon DEF Inv, Unique
  <2>3. CASE "DIRTY" \in flags[b]
    <3>1. data[b] = content[blockno[b]]
      BY <1>2, <2>1, <2>3, Zenon DEF Inv, Flags
    <3>2. data' = data /\ disk'[blockno[b]] = content[blockno[b]]
      BY <1>6, <1>7, <2>3, <3>1, Zenon DEF Inv, Types
    <3>3. \A m \in Block : m /= blockno[b] => disk'[m] = disk[m]
      BY <1>6, <1>7, <2>3, Zenon DEF Inv, Types
    <3>4. \A a \in Buf : "VALID" \in flags'[a] => data'[a] = content[blockno[a]]
      BY <1>8, <2>1, <3>1, <3>2, Zenon
    <3>5. ASSUME NEW m \in Block, m /= blockno[b], \A a \in Buf : blockno[a] = m => "DIRTY" \notin flags'[a]
          PROVE  disk'[m] = content[m]
      BY <1>8, <2>1, <3>3, <3>5, Zenon
    <3> QED
      BY <3>2, <3>4, <3>5, Zenon
  <2>4. CASE "DIRTY" \notin flags[b]
    <3>1. disk' = disk /\ data'[b] = disk[blockno[b]]
      BY <1>2, <1>7, <2>4, Zenon DEF Inv, Types
    <3>2. disk[blockno[b]] = content[blockno[b]]
      BY <1>6, <2>1, <2>2, <2>4, Zenon
    <3>3. \A a \in Buf : "VALID" \in flags'[a] => data'[a] = content[blockno[a]]
      BY <1>8, <2>1, <3>1, <3>2, Zenon
    <3>4. \A a \in Buf : "DIRTY" \in flags'[a] <=> "DIRTY" \in flags[a]
      BY <1>8, <2>4, Zenon
    <3> QED
      BY <2>1, <3>1, <3>3, <3>4, Zenon
  <2> QED
    BY <2>3, <2>4, Zenon
<1> QED
  BY <1>11, <1>12, <1>13, <1>15, <1>17, <1>18, Zenon DEF Inv

\* The user of a buffer changes it or not, marks it DIRTY, and goes on to iderw()
\* (bwrite) or keeps it (log_write).
LEMMA WriteInv ==
  ASSUME Inv, NEW p \in Proc, pc[p] = "use",
         Change(p) \/ UNCHANGED <<data, content, nwrites>>,
         flags' = [flags EXCEPT ![mine[p]] = @ \cup {"DIRTY"}],
         pc' \in {pc, [pc EXCEPT ![p] = "iderw"]},
         UNCHANGED <<blockno, lru, idequeue, ide, disk, mine, want>>
  PROVE  Inv'
<1> DEFINE b == mine[p]
<1>1. Owns(p) /\ b \in Buf /\ want[p] = blockno[b] /\ blockno[b] \in Block /\ "VALID" \in flags[b]
  BY Zenon DEF Owns, Inv, Owners, Flags
<1>2. b = mine[p]
  BY Zenon
<1> HIDE DEF b
<1>3. /\ flags'[b] = flags[b] \cup {"DIRTY"}
      /\ \A a \in Buf : a /= b => flags'[a] = flags[a]
  BY <1>1, <1>2, Zenon DEF Inv, Types
<1>4. \A q \in Proc : /\ q /= p => pc'[q] = pc[q]
                      /\ pc'[p] \in {"use", "iderw"}
  BY Zenon DEF Inv, Types
<1>5. \A q \in Proc : Owns(q)' <=> Owns(q)
  BY <1>4, Zenon DEF Owns
<1>6. /\ \A a \in Buf : a /= b => data'[a] = data[a]
      /\ \A m \in Block : m /= blockno[b] => content'[m] = content[m]
      /\ \/ data'[b] = content'[blockno[b]]
         \/ data'[b] = data[b] /\ content'[blockno[b]] = content[blockno[b]]
  BY <1>1, <1>2 DEF Inv, Types, Change
<1>7. Types'
  <2>1. data' \in [Buf -> Nat] /\ content' \in [Block -> Nat] /\ nwrites' \in Nat
    <3>1. data \in [Buf -> Nat] /\ content \in [Block -> Nat] /\ nwrites \in Nat
      BY Zenon DEF Inv, Types
    <3>2. CASE Change(p)
      <4>1. /\ nwrites' = nwrites + 1 /\ nwrites + 1 \in Nat
            /\ data' = [data EXCEPT ![mine[p]] = nwrites + 1]
            /\ content' = [content EXCEPT ![want[p]] = nwrites + 1]
        BY <3>1, <3>2 DEF Change
      <4> QED
        BY Zenon, <3>1, <4>1
    <3>3. CASE UNCHANGED <<data, content, nwrites>>
      BY <3>1, <3>3, Zenon
    <3> QED
      BY <3>2, <3>3, Zenon
  <2>2. flags' \in [Buf -> SUBSET Flag]
    BY <1>1, <1>2, Zenon DEF Inv, Types, Flag
  <2>3. pc' \in [Proc -> {"idle", "bsleep", "bget", "iderw", "iosleep", "iotest", "use"}]
    BY Zenon DEF Inv, Types
  <2>4. /\ blockno' \in [Buf -> Block \cup {NoBlock}] /\ disk' \in [Block -> Nat]
        /\ lru' \in [Buf -> Buf] /\ idequeue' \in Seq(Buf)
        /\ mine' \in [Proc -> Buf \cup {0}] /\ want' \in [Proc -> Block \cup {NoBlock}]
    BY Zenon DEF Inv, Types
  <2> QED
    BY <2>1, <2>2, <2>3, <2>4, Zenon DEF Types
<1>8. Listed' /\ Unique'
  BY Zenon DEF Inv, Listed, Unique
<1>9. Owners'
  <2>1. \A a \in Buf : "BUSY" \in flags[a] => "BUSY" \in flags'[a]
    BY <1>3, Zenon
  <2>2. \A q \in Proc : Owns(q)' => /\ mine'[q] \in Buf /\ want'[q] \in Block
                                    /\ blockno'[mine'[q]] = want'[q]
                                    /\ "BUSY" \in flags'[mine'[q]]
    BY <1>5, <2>1, Zenon DEF Inv, Owners
  <2>3. \A q \in Proc : pc'[q] \in {"bsleep", "bget"} => want'[q] \in Block
    BY <1>4, Zenon DEF Inv, Owners
  <2> QED
    BY <1>5, <2>2, <2>3, Zenon DEF Inv, Owners
<1>10. Flags'
  <2>1. \A a \in Buf : /\ "VALID" \in flags'[a] <=> "VALID" \in flags[a]
                       /\ "DIRTY" \in flags[a] => "DIRTY" \in flags'[a]
    BY <1>3
  <2>2. \A a \in Buf : /\ "DIRTY" \in flags'[a] => "VALID" \in flags'[a]
                       /\ "VALID" \in flags'[a] => blockno'[a] \in Block
    BY <1>1, <1>3, Zenon DEF Inv, Flags
  <2>3. ASSUME NEW q \in Proc, pc'[q] \in {"use", "iderw"}
        PROVE  /\ pc'[q] = "use" => "VALID" \in flags'[mine'[q]]
               /\ pc'[q] = "iderw" => Unsynced(mine[q])'
    <3>1. CASE q = p
      BY <1>1, <1>2, <1>3, <3>1, Zenon DEF Unsynced
    <3>2. CASE q /= p
      <4>1. pc'[q] = pc[q] /\ mine'[q] = mine[q] /\ mine[q] \in Buf
        BY <1>4, <2>3, <3>2, Zenon DEF Inv, Owners, Owns
      <4>2. /\ pc[q] = "use" => "VALID" \in flags[mine[q]]
            /\ pc[q] = "iderw" => Unsynced(mine[q])
        BY Zenon DEF Inv, Flags
      <4> QED
        BY <2>1, <4>1, <4>2, Zenon DEF Unsynced
    <3> QED
      BY <3>1, <3>2, Zenon
  <2> QED
    BY <2>2, <2>3, Zenon DEF Flags
<1>11. Queued'
  <2>1. \A i \in 1..Len(idequeue) : idequeue[i] /= b
    BY <1>1, <1>2, NotQueued, Zenon
  <2>2. \A i \in 1..Len(idequeue) : idequeue[i] \in Buf
    BY DEF Inv, Types
  <2> QED
    BY Zenon, <1>3, <1>4, <1>6, <2>1, <2>2, QueueKept
<1>12. Latest'
  <2> SUFFICES ASSUME IdeOk = {TRUE}
               PROVE  /\ \A a \in Buf : "VALID" \in flags'[a] => data'[a] = content'[blockno[a]]
                      /\ \A m \in Block :
                           (\A a \in Buf : blockno[a] = m => "DIRTY" \notin flags'[a]) => disk[m] = content'[m]
    BY Zenon DEF Latest
  <2>1. /\ \A a \in Buf : "VALID" \in flags[a] => data[a] = content[blockno[a]]
        /\ \A m \in Block :
             (\A a \in Buf : blockno[a] = m => "DIRTY" \notin flags[a]) => disk[m] = content[m]
    BY Zenon DEF Inv, Latest
  <2>2. \A a \in Buf : blockno[a] = blockno[b] => a = b
    BY <1>1, Constants, Zenon DEF Inv, Unique
  <2>3. data'[b] = content'[blockno[b]]
    BY <1>1, <1>6, <2>1, Zenon
  <2>4. ASSUME NEW a \in Buf, a /= b, "VALID" \in flags'[a] PROVE data'[a] = content'[blockno[a]]
    <3>1. "VALID" \in flags[a] /\ blockno[a] \in Block /\ blockno[a] /= blockno[b]
      BY <1>3, <2>2, <2>4, Zenon DEF Inv, Flags
    <3> QED
      BY <1>6, <2>1, <2>4, <3>1, Zenon
  <2>5. ASSUME NEW m \in Block, \A a \in Buf : blockno[a] = m => "DIRTY" \notin flags'[a]
        PROVE  disk[m] = content'[m]
    <3>1. m /= blockno[b]
      BY <1>1, <1>3, <2>5, Zenon
    <3>2. \A a \in Buf : blockno[a] = m => "DIRTY" \notin flags[a]
      BY <1>3, <2>5, <3>1, Zenon
    <3> QED
      BY <1>6, <2>1, <3>1, <3>2, Zenon
  <2> QED
    BY <2>3, <2>4, <2>5, Zenon
<1> QED
  BY <1>7, <1>8, <1>9, <1>10, <1>11, <1>12, Zenon DEF Inv

\* brelse() moves a buffer to the head of the list and loses none.
LEMMA ToHeadListed ==
  ASSUME Inv, NEW b \in Buf
  PROVE  ToHead(b) \in [Buf -> Buf] /\ \A a \in Buf : \E i \in Buf : ToHead(b)[i] = a
<1> DEFINE k == CHOOSE k \in Buf : lru[k] = b
<1>1. k \in Buf /\ lru[k] = b
  BY Zenon DEF Inv, Listed
<1>2. ToHead(b) = [j \in Buf |-> IF j = 1 THEN b ELSE IF j <= k THEN lru[j - 1] ELSE lru[j]]
  BY Zenon DEF ToHead
<1> HIDE DEF k
<1>3. NBUF \in Nat /\ lru \in [Buf -> Buf] /\ 1 \in Buf
  <2>1. lru \in [Buf -> Buf]
    BY Zenon DEF Inv, Types
  <2>2. NBUF \in Nat /\ 1 \in Buf
    BY Constants DEF Buf
  <2> QED
    BY <2>1, <2>2, Zenon
<1>4. \A j \in Buf : j /= 1 => j - 1 \in Buf
  BY <1>3 DEF Buf
<1>5. ToHead(b) \in [Buf -> Buf]
  BY <1>2, <1>3, <1>4, Zenon
<1>6. ASSUME NEW a \in Buf PROVE \E i \in Buf : ToHead(b)[i] = a
  <2>1. PICK i \in Buf : lru[i] = a
    BY Zenon DEF Inv, Listed
  <2>2. CASE i = k
    BY <1>1, <1>2, <1>3, <2>1, <2>2, Zenon
  <2>3. CASE i < k
    <3>1. i + 1 \in Buf /\ i + 1 /= 1 /\ i + 1 <= k /\ (i + 1) - 1 = i
      BY <1>1, <1>3, <2>3 DEF Buf
    <3>2. ToHead(b)[i + 1] = lru[i]
      BY <1>2, <3>1, Zenon
    <3> QED
      BY <2>1, <3>1, <3>2, Zenon
  <2>4. CASE k < i
    <3>1. i /= 1 /\ ~(i <= k)
      BY <1>1, <1>3, <2>4 DEF Buf
    <3> QED
      BY <1>2, <2>1, <3>1, Zenon
  <2> QED
    BY <1>1, <1>3, <2>2, <2>3, <2>4 DEF Buf
<1> QED
  BY <1>5, <1>6, Zenon

\* brelse() gives the buffer up and wakes who waits for it.
LEMMA BrelseInv == ASSUME Inv, NEW p \in Proc, Brelse(p) PROVE Inv'
<1> DEFINE b == mine[p]
<1>1. pc[p] = "use" /\ Owns(p) /\ b \in Buf /\ "BUSY" \in flags[b]
  BY Zenon DEF Brelse, Owns, Inv, Owners
<1>2. /\ lru' = ToHead(b) /\ flags' = [flags EXCEPT ![b] = @ \ {"BUSY"}]
      /\ pc' = [Wakeup(b) EXCEPT ![p] = "idle"] /\ mine' = [mine EXCEPT ![p] = 0]
      /\ want' = [want EXCEPT ![p] = NoBlock]
      /\ UNCHANGED <<blockno, data, idequeue, ide, disk, content, nwrites>>
  BY <1>1, Zenon DEF Brelse, ideVars
<1>3. \A q \in Proc : q /= p /\ Owns(q) => mine[q] /= b
  BY <1>1, Zenon DEF Inv, Owners
<1>4. \A i \in 1..Len(idequeue) : idequeue[i] /= b
  BY <1>1, NotQueued, Zenon
<1> HIDE DEF b
<1>5. /\ flags'[b] = flags[b] \ {"BUSY"}
      /\ \A a \in Buf : a /= b => flags'[a] = flags[a]
      /\ \A q \in Proc : q /= p => mine'[q] = mine[q] /\ want'[q] = want[q]
  BY <1>1, <1>2, Zenon DEF Inv, Types
<1>6. \A a \in Buf : /\ "VALID" \in flags'[a] <=> "VALID" \in flags[a]
                     /\ "DIRTY" \in flags'[a] <=> "DIRTY" \in flags[a]
  BY <1>5, Zenon
<1>7. pc'[p] = "idle" /\ \A q \in Proc : q /= p => pc'[q] = Wakeup(b)[q]
  BY <1>1, <1>2, Woken, Zenon
<1>8. \A q \in Proc : q /= p =>
        /\ pc'[q] = "iderw" <=> pc[q] = "iderw"
        /\ pc'[q] = "use" <=> pc[q] = "use"
        /\ pc'[q] \in {"bsleep", "bget"} <=> pc[q] \in {"bsleep", "bget"}
        /\ pc'[q] \in {"iosleep", "iotest"} <=> pc[q] \in {"iosleep", "iotest"}
  BY <1>1, <1>7, Woken
<1>9. ~Owns(p)' /\ \A q \in Proc : q /= p => (Owns(q)' <=> Owns(q))
  BY <1>7, <1>8, Zenon DEF Owns
<1>10. Types'
  <2>1. lru' \in [Buf -> Buf]
    BY <1>1, <1>2, ToHeadListed, Zenon
  <2>2. pc' \in [Proc -> {"idle", "bsleep", "bget", "iderw", "iosleep", "iotest", "use"}]
    BY <1>1, <1>2, Woken, Zenon
  <2>3. flags' \in [Buf -> SUBSET Flag]
    BY <1>1, <1>2, Zenon DEF Inv, Types
  <2>4. mine' \in [Proc -> Buf \cup {0}] /\ want' \in [Proc -> Block \cup {NoBlock}]
    BY <1>2, Zenon DEF Inv, Types
  <2>5. /\ blockno' \in [Buf -> Block \cup {NoBlock}] /\ data' \in [Buf -> Nat]
        /\ disk' \in [Block -> Nat] /\ content' \in [Block -> Nat]
        /\ nwrites' \in Nat /\ idequeue' \in Seq(Buf)
    BY <1>2, Zenon DEF Inv, Types
  <2> QED
    BY <2>1, <2>2, <2>3, <2>4, <2>5, Zenon DEF Types
<1>11. Listed'
  BY <1>1, <1>2, ToHeadListed, Zenon DEF Listed
<1>12. Unique'
  BY <1>2, Zenon DEF Inv, Unique
<1>13. Owners'
  <2>1. \A q \in Proc : pc'[q] \in {"bsleep", "bget"} => want'[q] \in Block
    BY <1>5, <1>7, <1>8, Zenon DEF Inv, Owners
  <2>2. ASSUME NEW q \in Proc, Owns(q)'
        PROVE  /\ mine'[q] \in Buf /\ want'[q] \in Block /\ blockno'[mine'[q]] = want'[q]
               /\ "BUSY" \in flags'[mine'[q]]
    <3>1. q /= p /\ Owns(q) /\ mine'[q] = mine[q] /\ want'[q] = want[q] /\ mine[q] /= b
      BY <1>3, <1>5, <1>9, <2>2, Zenon
    <3>2. mine[q] \in Buf /\ want[q] \in Block /\ blockno[mine[q]] = want[q] /\ "BUSY" \in flags[mine[q]]
      BY <3>1, Zenon DEF Inv, Owners
    <3> QED
      BY <1>2, <1>5, <3>1, <3>2
  <2>3. \A q, r \in Proc : Owns(q)' /\ Owns(r)' /\ mine'[q] = mine'[r] => q = r
    BY <1>5, <1>9 DEF Inv, Owners
  <2> QED
    BY <2>1, <2>2, <2>3, Zenon DEF Owners
<1>14. Flags'
  <2>1. \A a \in Buf : /\ "DIRTY" \in flags'[a] => "VALID" \in flags'[a]
                       /\ "VALID" \in flags'[a] => blockno'[a] \in Block
    BY <1>2, <1>6, Zenon DEF Inv, Flags
  <2>2. ASSUME NEW q \in Proc, pc'[q] \in {"use", "iderw"}
        PROVE  /\ pc'[q] = "use" => "VALID" \in flags'[mine'[q]]
               /\ pc'[q] = "iderw" => Unsynced(mine[q])'
    <3>1. q /= p /\ mine'[q] = mine[q] /\ pc'[q] = pc[q]
      BY <1>5, <1>7, <1>8, <2>2, Zenon
    <3>2. mine[q] \in Buf
      BY <2>2, <3>1, Zenon DEF Inv, Owners, Owns
    <3>3. /\ pc[q] = "use" => "VALID" \in flags[mine[q]]
          /\ pc[q] = "iderw" => Unsynced(mine[q])
      BY Zenon DEF Inv, Flags
    <3> QED
      BY <1>6, <3>1, <3>2, <3>3, Zenon DEF Unsynced
  <2> QED
    BY <2>1, <2>2, Zenon DEF Flags
<1>15. Queued'
  <2>1. \A i \in 1..Len(idequeue) : idequeue[i] \in Buf
    BY DEF Inv, Types
  <2>2. \A r \in Proc : pc[r] \in {"iosleep", "iotest"} => pc'[r] \in {"iosleep", "iotest"} /\ mine'[r] = mine[r]
    BY Zenon, <1>1, <1>5, <1>8
  <2> QED
    BY <1>2, <1>4, <1>5, <2>1, <2>2, QueueKept, Zenon
<1>16. Latest'
  BY Zenon, <1>2, <1>6 DEF Inv, Latest
<1> QED
  BY <1>10, <1>11, <1>12, <1>13, <1>14, <1>15, <1>16, Zenon DEF Inv

-----------------------------------------------------------------------------

\* Every step keeps the invariant.
LEMMA NextInv == ASSUME Inv, [Next]_vars PROVE Inv'
<1>1. ASSUME NEW p \in Proc, NEW n \in Reads[p], Bread(p, n) PROVE Inv'
  <2>1. n \in Block /\ ~Owns(p) /\ want \in [Proc -> Block \cup {NoBlock}]
    BY <1>1, Constants, Zenon DEF Bread, Owns, Inv, Types
  <2>2. /\ want' \in [Proc -> Block \cup {NoBlock}] /\ want'[p] = n
        /\ \A q \in Proc : q /= p => want'[q] = want[q]
    BY <1>1, <2>1, Zenon DEF Bread
  <2>3. BgetLoop(p, n) /\ UNCHANGED <<idequeue, ide, disk, content, nwrites>>
    BY <1>1, Zenon DEF Bread, ideVars
  <2> QED
    BY <2>1, <2>2, <2>3, BgetLoopInv, Zenon
<1>2. ASSUME NEW p \in Proc, BgetAgain(p) PROVE Inv'
  <2>1. want[p] \in Block /\ ~Owns(p) /\ want \in [Proc -> Block \cup {NoBlock}]
    BY <1>2, Zenon DEF BgetAgain, Owns, Inv, Types, Owners
  <2>2. BgetLoop(p, want[p]) /\ UNCHANGED <<idequeue, ide, disk, content, nwrites>> /\ want' = want
    BY <1>2, Zenon DEF BgetAgain, ideVars
  <2> QED
    BY <2>1, <2>2, BgetLoopInv, Zenon
<1>3. ASSUME NEW p \in Proc, Bwrite(p) \/ LogWrite(p) PROVE Inv'
  <2>0. "BUSY" \in flags[mine[p]]
    BY <1>3, Zenon DEF Bwrite, LogWrite, Owns, Inv, Owners
  <2>1. /\ pc[p] = "use"
        /\ Change(p) \/ UNCHANGED <<data, content, nwrites>>
        /\ flags' = [flags EXCEPT ![mine[p]] = @ \cup {"DIRTY"}]
        /\ pc' \in {pc, [pc EXCEPT ![p] = "iderw"]}
        /\ UNCHANGED <<blockno, lru, idequeue, ide, disk, mine, want>>
    BY <1>3, <2>0, Zenon DEF Bwrite, LogWrite, ideVars
  <2> QED
    BY Zenon, <2>1, WriteInv
<1>4. ASSUME UNCHANGED vars PROVE Inv'
  BY <1>4, SameInv, Zenon DEF vars, bufVars, ideVars
<1> QED
  BY Zenon, <1>1, <1>2, <1>3, <1>4, IderwInv, IderwTestInv, IdeintrInv, BrelseInv DEF Next, SpuriousIdeintr

\* The invariant holds in every reachable state.
LEMMA Invariance == Spec => []Inv
<1>1. Inv /\ [Next]_vars => Inv'
  BY NextInv, Zenon
<1> QED
  BY <1>1, InitInv, PTL DEF Spec

\* The comment of bio.c: the cache is "a synchronization point for disk blocks".
\* With any number of processes, blocks and buffers, and with read errors or
\* without: no block is in two buffers, no buffer is with two processes between
\* bget() and brelse(), and it holds the block the process asked for.
THEOREM OneUserPerBlockAlways == Spec => []OneUserPerBlock
<1>1. Inv => OneUserPerBlock
  BY Zenon DEF Inv, Unique, Owners, OneUserPerBlock
<1> QED
  BY <1>1, Invariance, PTL

\* Without read errors, what bread() returns is what was last put into the block,
\* by bwrite() or under log_write(), whatever was recycled, pinned, queued or
\* written in between.
THEOREM ReadsLatestAlways == ASSUME IdeOk = {TRUE} PROVE Spec => []ReadsLatest
<1>1. Inv => ReadsLatest
  <2> SUFFICES ASSUME Inv, NEW p \in Proc, pc[p] = "use" PROVE data[mine[p]] = content[want[p]]
    BY Zenon DEF ReadsLatest
  <2>1. Owns(p)
    BY Zenon DEF Owns
  <2>2. mine[p] \in Buf /\ blockno[mine[p]] = want[p] /\ "VALID" \in flags[mine[p]]
    BY <2>1, Zenon DEF Inv, Owners, Flags
  <2> QED
    BY <2>2, Zenon DEF Inv, Latest
<1> QED
  BY <1>1, Invariance, PTL

-----------------------------------------------------------------------------
(* Panics.                                                                 *)

\* A buffer that is busy is with a process: none is lost.
Held == \A b \in Buf : "BUSY" \in flags[b] => \E p \in Proc : Owns(p) /\ mine[p] = b

\* A step that takes no buffer from its owner and makes none busy keeps Held.
LEMMA HeldKept ==
  ASSUME Held, NEW p \in Proc,
         \A b \in Buf : "BUSY" \in flags'[b] =>
           "BUSY" \in flags[b] \/ (Owns(p)' /\ mine'[p] = b),
         \A q \in Proc : Owns(q) => Owns(q)' /\ mine'[q] = mine[q]
  PROVE  Held'
<1> SUFFICES ASSUME NEW b \in Buf, "BUSY" \in flags'[b]
             PROVE  \E q \in Proc : Owns(q)' /\ mine'[q] = b
  BY Zenon DEF Held
<1> QED
  BY Zenon DEF Held

\* bget() makes busy what it returns.
LEMMA BgetHeld ==
  ASSUME Inv, Held, NEW p \in Proc, ~Owns(p), NEW n \in Block, BgetLoop(p, n)
  PROVE  Held'
<1>0. \A i \in Buf : lru[i] \in Buf
  BY Zenon DEF Inv, Types
<1>1. \A q \in Proc : Owns(q) => q /= p
  BY Zenon
<1>2. CASE \E i \in Buf : /\ mine' = [mine EXCEPT ![p] = lru[i]]
                          /\ pc' = [pc EXCEPT ![p] = "bsleep"]
                          /\ UNCHANGED flags
  <2>1. \A q \in Proc : Owns(q) => Owns(q)' /\ mine'[q] = mine[q]
    BY <1>1, <1>2, Zenon DEF Inv, Types, Owns
  <2> QED
    BY <1>2, <2>1, HeldKept, Zenon
<1>3. ASSUME NEW i \in Buf, NEW f,
             flags' = [flags EXCEPT ![lru[i]] = f], Got(p, lru[i])
      PROVE  Held'
  <2>1. \A q \in Proc : Owns(q) => Owns(q)' /\ mine'[q] = mine[q]
    BY <1>1, <1>3, Zenon DEF Inv, Types, Owns, Got
  <2>2. Owns(p)' /\ mine'[p] = lru[i]
    BY <1>3, Zenon DEF Inv, Types, Owns, Got
  <2>3. \A b \in Buf : b /= lru[i] => flags'[b] = flags[b]
    BY <1>3, Zenon DEF Inv, Types
  <2> QED
    BY <2>1, <2>2, <2>3, HeldKept, Zenon
<1>4. CASE UNCHANGED <<bufVars, pc, mine>>
  BY <1>4, Zenon DEF Held, Owns, bufVars
<1> QED
  BY <1>2, <1>3, <1>4, Zenon DEF BgetLoop

\* brelse() gives up the buffer of its process and no other.
LEMMA BrelseHeld == ASSUME Inv, Held, NEW p \in Proc, Brelse(p) PROVE Held'
<1>1. Owns(p) /\ mine[p] \in Buf /\ "BUSY" \in flags[mine[p]]
  BY Zenon DEF Brelse, Owns, Inv, Owners
<1>2. /\ flags' = [flags EXCEPT ![mine[p]] = @ \ {"BUSY"}]
      /\ pc' = [Wakeup(mine[p]) EXCEPT ![p] = "idle"] /\ mine' = [mine EXCEPT ![p] = 0]
  BY <1>1, Zenon DEF Brelse
<1>3. \A q \in Proc : q /= p => pc'[q] = Wakeup(mine[p])[q] /\ mine'[q] = mine[q]
  BY <1>1, <1>2, Woken, Zenon DEF Inv, Types
<1>4. \A q \in Proc : q /= p /\ Owns(q) => Owns(q)'
  BY <1>1, <1>3, Woken, Zenon DEF Owns
<1>5. \A b \in Buf : "BUSY" \in flags'[b] => b /= mine[p] /\ "BUSY" \in flags[b]
  BY <1>1, <1>2, Zenon DEF Inv, Types
<1> QED
  BY <1>3, <1>4, <1>5, Zenon DEF Held

\* ideintr() wakes the owner of a buffer, and leaves the buffer to it.
LEMMA IdeintrHeld == ASSUME Inv, Held, Ideintr PROVE Held'
<1> DEFINE b == Head(idequeue)
<1>1. b \in Buf
  BY DEF Ideintr, Inv, Types
<1>2. /\ flags' = [flags EXCEPT ![b] = (@ \cup {"VALID"}) \ {"DIRTY"}]
      /\ pc' = Wakeup(b) /\ mine' = mine
  BY Zenon DEF Ideintr
<1> HIDE DEF b
<1>3. \A q \in Proc : Owns(q) => Owns(q)'
  BY <1>1, <1>2, Woken, Zenon DEF Owns
<1>4. \A a \in Buf : "BUSY" \in flags'[a] => "BUSY" \in flags[a]
  BY <1>1, <1>2, Zenon DEF Inv, Types
<1> QED
  BY <1>2, <1>3, <1>4, Zenon DEF Held

\* Every step leaves each busy buffer with a process.
LEMMA HeldNext == ASSUME Inv, Held, [Next]_vars PROVE Held'
<1>1. ASSUME NEW p \in Proc, NEW n \in Reads[p], Bread(p, n) PROVE Held'
  <2>1. n \in Block /\ ~Owns(p) /\ BgetLoop(p, n)
    BY <1>1, Constants, Zenon DEF Bread, Owns
  <2> QED
    BY <2>1, BgetHeld, Zenon
<1>2. ASSUME NEW p \in Proc, BgetAgain(p) PROVE Held'
  <2>1. want[p] \in Block /\ ~Owns(p) /\ BgetLoop(p, want[p])
    BY <1>2, Zenon DEF BgetAgain, Owns, Inv, Owners
  <2> QED
    BY <2>1, BgetHeld, Zenon
<1>3. ASSUME NEW p \in Proc, Iderw(p) \/ IderwTest(p) PROVE Held'
  <2>1. flags' = flags /\ mine' = mine
    BY <1>3, Zenon DEF Iderw, IderwTest, bufVars
  <2>2. \A q \in Proc : Owns(q) => Owns(q)'
    BY <1>3, Zenon DEF Iderw, IderwTest, Owns, Inv, Types
  <2> QED
    BY <2>1, <2>2, Zenon DEF Held
<1>4. ASSUME NEW p \in Proc, Bwrite(p) \/ LogWrite(p) PROVE Held'
  <2>1. /\ flags' \in {flags, [flags EXCEPT ![mine[p]] = @ \cup {"DIRTY"}]}
        /\ pc' \in {pc, [pc EXCEPT ![p] = "iderw"]} /\ mine' = mine
    BY <1>4, Zenon DEF Bwrite, LogWrite
  <2>2. \A q \in Proc : Owns(q) => Owns(q)'
    BY <2>1, Zenon DEF Owns, Inv, Types
  <2>3. ASSUME NEW b \in Buf PROVE flags'[b] = flags[b] \/ flags'[b] = flags[b] \cup {"DIRTY"}
    <3>1. flags \in [Buf -> SUBSET Flag]
      BY Zenon DEF Inv, Types
    <3>2. flags' = flags \/ flags' = [flags EXCEPT ![mine[p]] = flags[mine[p]] \cup {"DIRTY"}]
      BY <2>1, Zenon
    <3> QED
      BY <3>1, <3>2
  <2>4. \A b \in Buf : "BUSY" \in flags'[b] => "BUSY" \in flags[b]
    BY <2>3
  <2> QED
    BY <2>1, <2>2, <2>4, Zenon DEF Held
<1>5. ASSUME UNCHANGED vars PROVE Held'
  BY <1>5, Zenon DEF vars, bufVars, Held, Owns
<1> QED
  BY Zenon, <1>1, <1>2, <1>3, <1>4, <1>5, IdeintrHeld, BrelseHeld DEF Next, SpuriousIdeintr

\* There is no buffer to recycle: each is pinned by the log, or with a process.
NoBuffers ==
  \A b \in Buf : "DIRTY" \in flags[b] \/ \E p \in Proc : Owns(p) /\ mine[p] = b

\* The kernel runs, or bget() has stopped it for want of a buffer.
OnlyBgetPanics == panicked = "no" \/ (panicked = "bget: no buffers" /\ NoBuffers)

\* bget() panics with every buffer busy or dirty.
LEMMA BgetPanic ==
  ASSUME Inv, Held, NEW p \in Proc, NEW n, BgetLoop(p, n), panicked' /= panicked
  PROVE  panicked' = "bget: no buffers" /\ NoBuffers'
<1>1. /\ {i \in Buf : Recyclable(lru[i])} = {} /\ panicked' = "bget: no buffers"
      /\ UNCHANGED <<flags, pc, mine>>
  BY Zenon DEF BgetLoop, bufVars
<1>2. \A b \in Buf : ~Recyclable(b)
  BY <1>1, Zenon DEF Inv, Listed
<1>3. NoBuffers
  BY <1>2, Zenon DEF Recyclable, NoBuffers, Held
<1> QED
  BY <1>1, <1>3, Zenon DEF NoBuffers, Owns

\* The buffer a process passes to iderw(), bwrite() or brelse() is busy, and iderw()
\* has something to do: none of their panics is reached.
LEMMA NoOtherPanic ==
  ASSUME Inv, NEW p \in Proc, Iderw(p) \/ Bwrite(p) \/ Brelse(p)
  PROVE  panicked' = panicked
<1>1. Owns(p) /\ pc[p] \in {"iderw", "use"}
  BY Zenon DEF Iderw, Bwrite, Brelse, Owns
<1>2. "BUSY" \in flags[mine[p]] /\ (pc[p] = "iderw" => Unsynced(mine[p]))
  BY <1>1, Zenon DEF Inv, Owners, Flags
<1>3. pc[p] = "iderw" => ~("BUSY" \notin flags[mine[p]] \/ flags[mine[p]] \cap {"VALID", "DIRTY"} = {"VALID"})
  BY <1>2 DEF Unsynced
<1> QED
  BY <1>2, <1>3, Zenon DEF Iderw, Bwrite, Brelse

\* The kernel panics in this part only with "bget: no buffers", and then every
\* buffer is pinned by the log or with a process that has not released it.  The
\* other panics of the two files, "bwrite", "brelse", "iderw: buf not busy" and
\* "iderw: nothing to do", are never reached, whoever shares the cache and in
\* whatever order the disk answers.
THEOREM PanicOnlyWithoutBuffers == Spec => []OnlyBgetPanics
<1>1. Init => Held /\ OnlyBgetPanics
  BY Zenon DEF Init, Held, OnlyBgetPanics
<1>2. ASSUME Inv, Held, OnlyBgetPanics, [Next]_vars PROVE Held' /\ OnlyBgetPanics'
  <2>1. Held'
    BY <1>2, HeldNext, Zenon
  <2>2. CASE UNCHANGED vars
    BY <1>2, <2>1, <2>2, Zenon DEF vars, bufVars, OnlyBgetPanics, NoBuffers, Owns
  <2>3. CASE Next /\ ~UNCHANGED vars
    <3>1. panicked = "no"
      BY <2>3, Zenon DEF Next, Bread, BgetAgain, Iderw, IderwTest, Bwrite, LogWrite, Brelse, Ideintr, SpuriousIdeintr
    <3>2. CASE panicked' = panicked
      BY <2>1, <3>1, <3>2, Zenon DEF OnlyBgetPanics
    <3>3. CASE panicked' /= panicked
      <4>1. PICK p \in Proc : \/ \E n \in Reads[p] : Bread(p, n)
                              \/ BgetAgain(p) \/ Iderw(p) \/ Bwrite(p) \/ Brelse(p)
        BY <2>3, <3>3, Zenon DEF Next, IderwTest, LogWrite, Ideintr, SpuriousIdeintr
      <4>2. ~(Iderw(p) \/ Bwrite(p) \/ Brelse(p))
        BY <1>2, <3>3, NoOtherPanic, Zenon
      <4>3. \E n : BgetLoop(p, n)
        BY <4>1, <4>2, Zenon DEF Bread, BgetAgain
      <4> QED
        BY <1>2, <2>1, <3>3, <4>3, BgetPanic, Zenon DEF OnlyBgetPanics
    <3> QED
      BY <3>2, <3>3, Zenon
  <2> QED
    BY <1>2, <2>1, <2>2, <2>3, Zenon
<1>3. Inv /\ (Held /\ OnlyBgetPanics) /\ [Next]_vars => (Held /\ OnlyBgetPanics)'
  BY <1>2, Zenon
<1> QED
  BY <1>1, <1>3, Invariance, PTL DEF Spec

=============================================================================
