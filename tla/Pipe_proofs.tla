---------------------------- MODULE Pipe_proofs ----------------------------
(***************************************************************************)
(* Proofs about the pipe, for any number of readers and writers, any       *)
(* PIPESIZE, and counters that wrap at any multiple of it.                 *)
(***************************************************************************)
EXTENDS Pipe, SequenceTheorems, TLAPS

-----------------------------------------------------------------------------
(* Remainders.                                                             *)

\* The only multiple of m between -m and m is 0.
LEMMA SmallMultiple ==
  ASSUME NEW m \in Nat \ {0}, NEW d \in Int, -m < d * m, d * m < m
  PROVE  d = 0
<1>1. d >= 1 => d * m >= m
  OBVIOUS
<1>2. d <= -1 => d * m <= -m
  OBVIOUS
<1> QED
  BY <1>1, <1>2

\* A number is a multiple of m and its remainder.
LEMMA Division ==
  ASSUME NEW m \in Nat \ {0}, NEW x \in Int
  PROVE  /\ x % m \in 0..(m - 1) /\ x \div m \in Int /\ (x \div m) * m \in Int
         /\ x = (x \div m) * m + (x % m)
<1>1. x % m \in 0..(m - 1)
  OBVIOUS
<1>2. x \div m \in Int
  OBVIOUS
<1>3. x = m * (x \div m) + (x % m)
  OBVIOUS
<1>4. m * (x \div m) = (x \div m) * m /\ (x \div m) * m \in Int
  BY <1>2
<1> QED
  BY <1>1, <1>2, <1>3, <1>4, Zenon

\* The remainder is the only one.
LEMMA Remainder ==
  ASSUME NEW m \in Nat \ {0}, NEW x \in Int, NEW q \in Int, NEW y \in 0..(m - 1), x = q * m + y
  PROVE  x % m = y
<1> DEFINE a == x \div m
           z == x % m
<1>1. a \in Int /\ z \in 0..(m - 1) /\ a * m \in Int /\ x = a * m + z
  BY Division, Zenon
<1> HIDE DEF a, z
<1>2. (q - a) * m = q * m - a * m /\ q * m \in Int
  BY <1>1
<1>3. (q - a) * m = z - y
  BY <1>1, <1>2
<1>4. z - y < m /\ -m < z - y
  BY <1>1
<1>5. q - a = 0
  BY <1>1, <1>3, <1>4, SmallMultiple
<1>6. (q - a) * m = 0
  BY <1>5
<1>7. z = y
  BY <1>1, <1>3, <1>6
<1> QED
  BY <1>7, Zenon DEF z

\* Multiples do not matter.
LEMMA Shift ==
  ASSUME NEW m \in Nat \ {0}, NEW x \in Int, NEW z \in Int, NEW k \in Int, z = x + k * m
  PROVE  z % m = x % m
<1> DEFINE q == x \div m
           y == x % m
<1>1. q \in Int /\ y \in 0..(m - 1) /\ q * m \in Int /\ x = q * m + y
  BY Division, Zenon
<1> HIDE DEF q, y
<1>2. (q + k) * m = q * m + k * m /\ k * m \in Int
  BY <1>1
<1>3. z = (q + k) * m + y
  BY <1>1, <1>2
<1>4. z % m = y
  BY <1>1, <1>3, Remainder
<1> QED
  BY <1>4, Zenon DEF y

\* Adding to a counter that wraps.
LEMMA WrapPlus ==
  ASSUME NEW m \in Nat \ {0}, NEW x \in Int, NEW k \in Int
  PROVE  ((x % m) + k) % m = (x + k) % m
<1> DEFINE q == x \div m
           y == x % m
<1>1. q \in Int /\ y \in 0..(m - 1) /\ q * m \in Int /\ x = q * m + y
  BY Division, Zenon
<1> HIDE DEF q, y
<1> DEFINE a == x + k
           b == y + k
<1>2. a \in Int /\ b \in Int /\ a = b + q * m
  BY <1>1
<1> HIDE DEF a, b
<1>3. a % m = b % m
  BY Zenon, <1>1, <1>2, Shift
<1> QED
  BY <1>3, Zenon DEF a, b, y

\* The difference of two counters that wrap.
LEMMA WrapMinus ==
  ASSUME NEW m \in Nat \ {0}, NEW x \in Int, NEW y \in Int, x - y \in 0..(m - 1)
  PROVE  ((x % m) - (y % m)) % m = x - y
<1> DEFINE q == x \div m
           p == y \div m
           s == x % m
           t == y % m
<1>1. q \in Int /\ s \in 0..(m - 1) /\ q * m \in Int /\ x = q * m + s
  BY Division, Zenon
<1>2. p \in Int /\ t \in 0..(m - 1) /\ p * m \in Int /\ y = p * m + t
  BY Division, Zenon
<1> HIDE DEF q, p, s, t
<1>3. (p - q) * m = p * m - q * m
  BY <1>1, <1>2
<1> DEFINE a == s - t
           b == x - y
           k == p - q
<1>4. a \in Int /\ b \in Int /\ b \in 0..(m - 1) /\ k \in Int /\ a = b + k * m
  BY <1>1, <1>2, <1>3
<1> HIDE DEF a, b, k
<1>5. a % m = b % m
  BY Zenon, <1>4, Shift
<1>6. b % m = b
  BY <1>4
<1> QED
  BY <1>5, <1>6, Zenon DEF a, b, s, t

\* Wrapping at a multiple of m does not show in the remainder.
LEMMA WrapSlot ==
  ASSUME NEW m \in Nat \ {0}, NEW w \in Nat \ {0}, w % m = 0, NEW x \in Int, NEW k \in Int
  PROVE  ((x % w) + k) % m = (x + k) % m
<1> DEFINE q == x \div w
           y == x % w
           c == w \div m
<1>1. q \in Int /\ y \in 0..(w - 1) /\ q * w \in Int /\ x = q * w + y
  BY Division, Zenon
<1>2. c \in Int /\ w = c * m
  BY Division
<1> HIDE DEF q, y, c
<1>3. q * w = (q * c) * m /\ q * c \in Int
  BY <1>1, <1>2
<1> DEFINE a == x + k
           b == y + k
<1>4. a \in Int /\ b \in Int /\ a = b + (q * c) * m
  BY <1>1, <1>3
<1> HIDE DEF a, b
<1>5. a % m = b % m
  BY Zenon, <1>3, <1>4, Shift
<1> QED
  BY <1>5, Zenon DEF a, b, y

\* Fewer than m numbers in a row have different remainders.
LEMMA SlotsDiffer ==
  ASSUME NEW m \in Nat \ {0}, NEW x \in Int, NEW y \in Int, 0 < y - x, y - x < m
  PROVE  x % m /= y % m
<1> SUFFICES ASSUME x % m = y % m PROVE FALSE
  BY Zenon
<1>0. y - x \in 0..(m - 1)
  OBVIOUS
<1>1. ((y % m) - (x % m)) % m = y - x
  BY Zenon, <1>0, WrapMinus
<1>2. (y % m) - (x % m) = 0
  BY Division
<1>3. 0 % m = 0
  OBVIOUS
<1> QED
  BY <1>1, <1>2, <1>3

-----------------------------------------------------------------------------

End(p) == IF p \in Reader THEN Reader ELSE Writer

\* A process in a call has a reference to its end; the one that closes an end is
\* the only one, with no reference left; and a closed end has neither.
Ends ==
  /\ \A p \in Proc : pc[p] = "call" \/ Waits(p) => p \in refs
  /\ \A p \in Proc : pc[p] = "close" =>
       refs \cap End(p) = {} /\ \A q \in End(p) : pc[q] = "close" => q = p
  /\ readopen = 0 => \A p \in Reader : p \notin refs /\ pc[p] /= "close"
  /\ writeopen = 0 => \A p \in Writer : p \notin refs /\ pc[p] /= "close"
  /\ freed = 1 <=> readopen = 0 /\ writeopen = 0

\* The counters count the bytes written and read, what was read is what was
\* written first, and the bytes in between are in their slots.
Ring ==
  /\ Len(got) <= Len(sent) /\ Len(sent) - Len(got) <= PIPESIZE
  /\ nread = Len(got) % Wrap /\ nwrite = Len(sent) % Wrap
  /\ \A j \in 1..Len(got) : got[j] = sent[j]
  /\ \A j \in (Len(got) + 1)..Len(sent) : data[(j - 1) % PIPESIZE] = sent[j]

Inv == TypeOK /\ Ends /\ Ring /\ SleepersHaveNoWork

\* In the initial state the pipe is empty and both ends are open.
LEMMA InitInv == Init => Inv
<1> SUFFICES ASSUME Init PROVE Inv
  BY Zenon
<1> USE PipeAssumption
<1>1. TypeOK
  BY DEF Init, TypeOK, Proc
<1>2. Ends
  BY DEF Init, Ends, Waits
<1>3. Len(sent) = 0 /\ Len(got) = 0
  BY Zenon DEF Init
<1>4. 0 % Wrap = 0
  OBVIOUS
<1>5. Ring
  BY <1>3, <1>4 DEF Init, Ring
<1>6. SleepersHaveNoWork
  BY Zenon DEF Init, SleepersHaveNoWork, Waits, Proc
<1> QED
  BY <1>1, <1>2, <1>5, <1>6, Zenon DEF Inv

\* PIPESIZE divides Wrap.
LEMMA Sizes ==
  /\ PIPESIZE \in Nat \ {0} /\ Wrap \in Nat \ {0}
  /\ Wrap % PIPESIZE = 0 /\ PIPESIZE < Wrap
BY PipeAssumption, Zenon

\* Used is the number of bytes written and not read.
LEMMA UsedIs ==
  ASSUME TypeOK, Ring
  PROVE  /\ Len(sent) \in Nat /\ Len(got) \in Nat
         /\ Used = Len(sent) - Len(got) /\ Used \in 0..PIPESIZE
<1> DEFINE S == Len(sent)
           G == Len(got)
<1>1. S \in Nat /\ G \in Nat
  BY DEF TypeOK
<1>2. G <= S /\ S - G <= PIPESIZE /\ nread = G % Wrap /\ nwrite = S % Wrap
  BY Zenon DEF Ring
<1> HIDE DEF S, G
<1>3. S - G \in 0..PIPESIZE /\ S - G \in 0..(Wrap - 1)
  BY <1>1, <1>2, PipeAssumption
<1>4. ((S % Wrap) - (G % Wrap)) % Wrap = S - G
  <2>1. Wrap \in Nat \ {0} /\ S \in Int /\ G \in Int
    BY <1>1, Sizes
  <2> QED
    BY Zenon, <2>1, <1>3, WrapMinus
<1>5. Used = S - G
  BY <1>2, <1>4, Zenon DEF Used
<1> QED
  BY <1>1, <1>3, <1>5, Zenon DEF S, G

UsedCounts == Used = Len(sent) - Len(got)

\* The same fact, in the form that also holds of the next state.
LEMMA UsedCount == TypeOK /\ Ring => UsedCounts
BY UsedIs, Zenon DEF UsedCounts

\* The buffer holds those bytes, oldest first.
LEMMA BufferedIs ==
  ASSUME TypeOK, Ring
  PROVE  /\ Buffered \in Seq(Writer) /\ Len(Buffered) = Used
         /\ \A i \in 1..Used : Buffered[i] = sent[Len(got) + i]
<1> DEFINE S == Len(sent)
           G == Len(got)
           D(i) == data[(nread + i - 1) % PIPESIZE]
<1>1. S \in Nat /\ G \in Nat /\ Used = S - G /\ Used \in 0..PIPESIZE /\ Used \in Nat
  BY UsedIs, PipeAssumption
<1>2. ASSUME NEW i \in 1..Used
      PROVE  D(i) = sent[G + i] /\ D(i) \in Writer
  <2>1. i \in Int /\ i - 1 \in Int /\ G + i \in (G + 1)..S
    BY <1>1
  <2>2. nread + i - 1 = (G % Wrap) + (i - 1)
    BY <2>1, Zenon DEF Ring, TypeOK
  <2>3. ((G % Wrap) + (i - 1)) % PIPESIZE = (G + (i - 1)) % PIPESIZE
    <3> DEFINE k == i - 1
    <3>1. k \in Int /\ G \in Int
      BY <1>1, <2>1
    <3> HIDE DEF k, G
    <3>2. ((G % Wrap) + k) % PIPESIZE = (G + k) % PIPESIZE
      BY ZenonT(60), <3>1, Sizes, WrapSlot
    <3> QED
      BY <3>2, Zenon DEF k
  <2>4. G + (i - 1) = (G + i) - 1
    BY <1>1, <2>1
  <2>5. D(i) = data[((G + i) - 1) % PIPESIZE]
    BY <2>2, <2>3, <2>4, Zenon
  <2>6. data[((G + i) - 1) % PIPESIZE] = sent[G + i]
    BY <2>1, Zenon DEF Ring
  <2>7. sent[G + i] \in Writer
    BY <1>1, <2>1 DEF TypeOK
  <2> QED
    BY <2>5, <2>6, <2>7, Zenon
<1> HIDE DEF D
<1>3. Buffered = [i \in 1..Used |-> D(i)]
  BY Zenon DEF Buffered, D
<1>4. Buffered \in [1..Used -> Writer]
  BY <1>2, <1>3, Zenon
<1>5. Buffered \in Seq(Writer) /\ Len(Buffered) = Used
  BY <1>1, <1>4
<1> QED
  BY Zenon, <1>2, <1>3, <1>5

\* The inductive invariant implies that the pipe is a queue.
LEMMA InvFifo == Inv => Fifo
<1> SUFFICES ASSUME TypeOK, Ring PROVE Fifo
  BY Zenon DEF Inv
<1>1. /\ Len(sent) \in Nat /\ Len(got) \in Nat
      /\ Used = Len(sent) - Len(got) /\ Used \in 0..PIPESIZE
  BY UsedIs, Zenon
<1>2. /\ Buffered \in Seq(Writer) /\ Len(Buffered) = Used
      /\ \A i \in 1..Used : Buffered[i] = sent[Len(got) + i]
  BY BufferedIs, Zenon
<1> DEFINE b == Buffered
           u == Used
           s == got \o b
<1> HIDE DEF b, u
<1>3. b \in Seq(Writer) /\ Len(b) = u /\ got \in Seq(Writer) /\ sent \in Seq(Writer)
  BY <1>2, Zenon DEF b, u, TypeOK
<1>4. s \in Seq(Writer) /\ Len(s) = Len(got) + u
  BY <1>3
<1>5. Len(s) = Len(sent)
  BY <1>1, <1>4 DEF u
<1>6. ASSUME NEW j \in 1..Len(sent) PROVE s[j] = sent[j]
  <2>1. CASE j <= Len(got)
    <3>1. s[j] = got[j]
      BY <1>1, <1>3, <2>1
    <3> QED
      BY <1>1, <2>1, <3>1 DEF Ring
  <2>2. CASE ~(j <= Len(got))
    <3>1. j - Len(got) \in 1..u /\ Len(got) + (j - Len(got)) = j
      BY <1>1, <2>2 DEF u
    <3>2. s[j] = b[j - Len(got)]
      BY <1>1, <1>3, <1>4, <1>5, <2>2, <3>1
    <3> QED
      BY <1>2, <3>1, <3>2, Zenon DEF b, u
  <2> QED
    BY Zenon, <2>1, <2>2
<1>7. s = sent
  BY Zenon, <1>3, <1>4, <1>5, <1>6, SeqEqual
<1> QED
  BY <1>1, <1>7, PipeAssumption DEF Fifo, s, b

-----------------------------------------------------------------------------
(* Every step preserves the invariant.                                     *)

\* A step that leaves the buffer alone keeps the ring.
LEMMA QuietRing == Ring /\ UNCHANGED <<data, nread, nwrite, sent, got>> => Ring'
BY Zenon DEF Ring

\* Entering piperead() or pipewrite() takes a reference that is held.
LEMMA CallInv ==
  ASSUME Inv, NEW p \in Proc, NEW k \in Nat, Call(p, k)
  PROVE  Inv'
<1> USE DEF Call, pipeVars
<1>1. TypeOK'
  BY Zenon DEF Inv, TypeOK
<1>2. Ends'
  BY DEF Inv, TypeOK, Ends, Waits, End, Proc
<1>3. Ring'
  BY QuietRing, Zenon DEF Inv
<1>4. SleepersHaveNoWork'
  BY Zenon DEF Inv, TypeOK, SleepersHaveNoWork, Waits, Used, Proc
<1> QED
  BY <1>1, <1>2, <1>3, <1>4, Zenon DEF Inv

\* A reader that goes to sleep has found the pipe empty and is not killed.
LEMMA PipeReadEmptyInv ==
  ASSUME Inv, NEW p \in Proc, PipeReadEmpty(p)
  PROVE  Inv'
<1> USE DEF PipeReadEmpty, pipeVars
<1>1. TypeOK'
  <2>1. pc' \in [Proc -> {"idle", "call", "tosleep", "sleep", "close"}]
    BY Zenon DEF Inv, TypeOK
  <2>2. n' \in [Proc -> Nat]
    <3>1. n' = n \/ n' = [n EXCEPT ![p] = 0]
      BY Zenon
    <3>2. n \in [Proc -> Nat]
      BY Zenon DEF Inv, TypeOK
    <3> HIDE DEF PipeReadEmpty
    <3> QED
      BY <3>1, <3>2
  <2> QED
    BY <2>1, <2>2, Zenon DEF Inv, TypeOK
<1>2. Ends'
  BY DEF Inv, TypeOK, Ends, Waits, End, Proc
<1>3. Ring'
  BY QuietRing, Zenon DEF Inv
<1>4. SleepersHaveNoWork'
  <2> USE PipeAssumption DEF Inv, TypeOK, SleepersHaveNoWork, Waits, Proc
  <2>1. Used' = Used
    BY Zenon DEF Used
  <2>2. ASSUME NEW q \in Proc, q /= p PROVE pc'[q] = pc[q]
    BY <2>2
  <2>3. pc'[p] /= "sleep" /\ (pc'[p] = "tosleep" => killed[p] = 0)
    OBVIOUS
  <2> QED
    BY <2>1, <2>2, <2>3
<1> QED
  BY <1>1, <1>2, <1>3, <1>4, Zenon DEF Inv

\* sleep() changes nothing that the pipe or its users depend on.
LEMMA SleepInv ==
  ASSUME Inv, NEW p \in Proc, Sleep(p)
  PROVE  Inv'
<1> USE DEF Sleep, pipeVars
<1>1. TypeOK'
  BY Zenon DEF Inv, TypeOK
<1>2. Ends'
  BY DEF Inv, TypeOK, Ends, Waits, End, Proc
<1>3. Ring'
  BY QuietRing, Zenon DEF Inv
<1>4. SleepersHaveNoWork'
  BY Zenon DEF Inv, TypeOK, SleepersHaveNoWork, Waits, Used, Proc
<1> QED
  BY <1>1, <1>2, <1>3, <1>4, Zenon DEF Inv

\* kill() wakes the process that it marks, or is late for it.
LEMMA KillInv ==
  ASSUME Inv, NEW p \in Proc, Kill(p)
  PROVE  Inv'
<1> USE DEF Kill, pipeVars
<1>1. TypeOK'
  BY Zenon DEF Inv, TypeOK
<1>2. Ends'
  BY DEF Inv, TypeOK, Ends, Waits, End, Proc
<1>3. Ring'
  BY QuietRing, Zenon DEF Inv
<1>4. SleepersHaveNoWork'
  BY Zenon DEF Inv, TypeOK, SleepersHaveNoWork, Waits, Used, Proc
<1> QED
  BY <1>1, <1>2, <1>3, <1>4, Zenon DEF Inv

\* The process that drops the last reference to an end is the only one to close it.
LEMMA FileCloseInv ==
  ASSUME Inv, NEW p \in Proc, FileClose(p)
  PROVE  Inv'
<1> USE DEF FileClose, pipeVars
<1>1. TypeOK'
  BY Zenon DEF Inv, TypeOK
<1>2. Ends'
  <2> USE PipeAssumption DEF Inv, TypeOK, Ends, Waits
  <2>1. \A q \in Proc : pc'[q] \in {"call", "tosleep", "sleep"} => q \in refs'
    OBVIOUS
  <2>2. ASSUME NEW q \in Proc, pc'[q] = "close"
        PROVE  refs' \cap End(q) = {} /\ \A r \in End(q) : pc'[r] = "close" => r = q
    BY <2>2 DEF End, LastRef, Proc
  <2>3. (readopen = 0 => \A q \in Reader : q \notin refs /\ pc[q] /= "close")'
    BY DEF Proc
  <2>4. (writeopen = 0 => \A q \in Writer : q \notin refs /\ pc[q] /= "close")'
    BY DEF Proc
  <2> QED
    BY <2>1, <2>2, <2>3, <2>4, Zenon DEF End
<1>3. Ring'
  BY QuietRing, Zenon DEF Inv
<1>4. SleepersHaveNoWork'
  BY Zenon DEF Inv, TypeOK, SleepersHaveNoWork, Waits, Used, Proc
<1> QED
  BY <1>1, <1>2, <1>3, <1>4, Zenon DEF Inv

\* pipeclose() frees the pipe only after the other end was closed.
LEMMA PipeCloseInv ==
  ASSUME Inv, NEW p \in Proc, PipeClose(p)
  PROVE  Inv'
<1> USE DEF PipeClose
<1>1. /\ readopen' = IF p \in Writer THEN readopen ELSE 0
      /\ writeopen' = IF p \in Writer THEN 0 ELSE writeopen
  BY Zenon
<1>2. freed = 0
  BY PipeAssumption, Zenon DEF Inv, TypeOK, Ends, Proc
<1>3. /\ pc' \in [Proc -> {"idle", "call", "tosleep", "sleep", "close"}]
      /\ pc'[p] = "idle"
      /\ \A q \in Proc : pc'[q] /= "tosleep"
      /\ \A q \in Proc : pc'[q] = "sleep" =>
           pc[q] = "sleep" /\ q \notin (IF p \in Writer THEN Reader ELSE Writer)
      /\ \A q \in Proc : pc'[q] = "call" => pc[q] \in {"call", "sleep"}
      /\ \A q \in Proc : pc'[q] = "close" => pc[q] = "close" /\ q /= p
  BY Zenon DEF Inv, TypeOK, CloseWakes, Woken, Unlocked
<1>4. TypeOK'
  BY <1>1, <1>2, <1>3 DEF Inv, TypeOK
<1>5. Ends'
  <2> USE <1>1, <1>3, PipeAssumption DEF Inv, TypeOK, Ends, Waits
  <2>1. \A q \in Proc : pc'[q] \in {"call", "tosleep", "sleep"} => q \in refs'
    BY Zenon
  <2>2. ASSUME NEW q \in Proc, pc'[q] = "close"
        PROVE  refs' \cap End(q) = {} /\ \A r \in End(q) : pc'[r] = "close" => r = q
    BY <2>2 DEF End, Proc
  <2>3. (readopen = 0 => \A q \in Reader : q \notin refs /\ pc[q] /= "close")'
    BY Zenon DEF Proc, End
  <2>4. (writeopen = 0 => \A q \in Writer : q \notin refs /\ pc[q] /= "close")'
    BY Zenon DEF Proc, End
  <2>5. (freed = 1 <=> readopen = 0 /\ writeopen = 0)'
    BY <1>2
  <2> QED
    BY <2>1, <2>2, <2>3, <2>4, <2>5, Zenon DEF End
<1>6. Ring'
  BY QuietRing, Zenon DEF Inv
<1>7. SleepersHaveNoWork'
  BY <1>1, <1>3, Zenon DEF Inv, TypeOK, SleepersHaveNoWork, Waits, Used, Proc
<1> QED
  BY <1>4, <1>5, <1>6, <1>7, Zenon DEF Inv

\* What pipewrite() adds: k bytes, no more than there is room for.
LEMMA PipeWriteSize ==
  ASSUME Inv, NEW p \in Proc, PipeWrite(p)
  PROVE  LET k == Smaller(n[p], Room)
         IN  /\ k \in Nat /\ k <= PIPESIZE - Used /\ k <= n[p]
             /\ k < n[p] => k = PIPESIZE - Used
<1>1. Used \in 0..PIPESIZE
  BY UsedIs, Zenon DEF Inv
<1>2. n[p] \in Nat
  BY Zenon DEF Inv, TypeOK
<1> QED
  BY <1>1, <1>2, Sizes DEF Smaller, Room

\* pipewrite() appends to what was written.
LEMMA PipeWriteSent ==
  ASSUME Inv, NEW p \in Proc, PipeWrite(p)
  PROVE  LET k == Smaller(n[p], Room)
         IN  /\ sent' \in Seq(Writer) /\ Len(sent') = Len(sent) + k
             /\ \A j \in 1..Len(sent) : sent'[j] = sent[j]
             /\ \A j \in (Len(sent) + 1)..(Len(sent) + k) : sent'[j] = p
<1> DEFINE k == Smaller(n[p], Room)
           e == [i \in 1..k |-> p]
<1>1. k \in Nat
  BY PipeWriteSize, Zenon
<1>2. sent' = sent \o e /\ p \in Writer /\ sent \in Seq(Writer)
  BY Zenon DEF PipeWrite, Inv, TypeOK
<1> HIDE DEF k
<1>3. e \in Seq(Writer) /\ Len(e) = k /\ \A i \in 1..k : e[i] = p
  BY <1>1, <1>2
<1> HIDE DEF e
<1>4. Len(sent) \in Nat
  BY <1>2
<1>5. /\ sent' \in Seq(Writer) /\ Len(sent') = Len(sent) + k
      /\ \A j \in 1..(Len(sent) + k) :
           sent'[j] = IF j <= Len(sent) THEN sent[j] ELSE e[j - Len(sent)]
  BY <1>2, <1>3, ConcatProperties, Zenon
<1>6. ASSUME NEW j \in 1..Len(sent) PROVE sent'[j] = sent[j]
  BY <1>1, <1>4, <1>5
<1>7. ASSUME NEW j \in (Len(sent) + 1)..(Len(sent) + k) PROVE sent'[j] = p
  <2>1. j \in 1..(Len(sent) + k) /\ ~(j <= Len(sent)) /\ j - Len(sent) \in 1..k
    BY <1>1, <1>4
  <2> QED
    BY <1>3, <1>5, <2>1, Zenon
<1> QED
  BY <1>5, <1>6, <1>7, Zenon DEF k

\* pipewrite() fills free slots only.
LEMMA PipeWriteRing ==
  ASSUME Inv, NEW p \in Proc, PipeWrite(p)
  PROVE  Ring'
<1> DEFINE k == Smaller(n[p], Room)
           S == Len(sent)
           G == Len(got)
<1>1. k \in Nat /\ k <= PIPESIZE - Used
  BY PipeWriteSize, Zenon
<1>2. S \in Nat /\ G \in Nat /\ Used = S - G /\ Used \in 0..PIPESIZE
  BY UsedIs, Zenon DEF Inv
<1>3. /\ Len(sent') = S + k
      /\ \A j \in 1..S : sent'[j] = sent[j]
      /\ \A j \in (S + 1)..(S + k) : sent'[j] = p
  BY PipeWriteSent, Zenon
<1>4. /\ data' = [i \in 0..(PIPESIZE - 1) |->
                    IF \E j \in 0..(k - 1) : i = (nwrite + j) % PIPESIZE THEN p ELSE data[i]]
      /\ nwrite' = Advance(nwrite, k) /\ nread' = nread /\ got' = got
  BY Zenon DEF PipeWrite
<1>5. /\ G <= S /\ nread = G % Wrap /\ nwrite = S % Wrap
      /\ \A j \in 1..G : got[j] = sent[j]
      /\ \A j \in (G + 1)..S : data[(j - 1) % PIPESIZE] = sent[j]
  BY Zenon DEF Inv, Ring
<1> HIDE DEF k, S, G
<1>6. S + k - G <= PIPESIZE /\ G <= S + k /\ S + k \in Nat
  BY <1>1, <1>2, <1>5, Sizes
<1>7. nwrite' = (S + k) % Wrap
  <2>1. S \in Int /\ k \in Int
    BY <1>1, <1>2
  <2>2. ((S % Wrap) + k) % Wrap = (S + k) % Wrap
    BY Zenon, <2>1, WrapPlus, Sizes
  <2> QED
    BY <1>4, <1>5, <2>2, Zenon DEF Advance
<1>8. ASSUME NEW j \in 1..G PROVE got[j] = sent'[j]
  BY <1>2, <1>3, <1>5
<1>9. ASSUME NEW i \in 0..(k - 1)
      PROVE  i \in Int /\ (nwrite + i) % PIPESIZE = (S + i) % PIPESIZE
  <2>1. i \in Int /\ S \in Int
    BY <1>1, <1>2
  <2>2. ((S % Wrap) + i) % PIPESIZE = (S + i) % PIPESIZE
    BY Zenon, <2>1, WrapSlot, Sizes
  <2>3. nwrite = S % Wrap
    BY <1>5, Zenon
  <2> QED
    BY <2>1, <2>2, <2>3, Zenon
<1>10. ASSUME NEW j \in (G + 1)..(S + k)
       PROVE  data'[(j - 1) % PIPESIZE] = sent'[j]
  <2>1. j \in Int /\ j - 1 \in Int
    BY <1>2, <1>6
  <2> DEFINE l == j - 1
             t == l % PIPESIZE
  <2>2. t \in 0..(PIPESIZE - 1)
    BY <2>1, Division, Sizes, Zenon
  <2> HIDE DEF t
  <2>3. CASE j <= S
    <3>1. ASSUME NEW i \in 0..(k - 1) PROVE t /= (nwrite + i) % PIPESIZE
      <4>1. i \in Int /\ (nwrite + i) % PIPESIZE = (S + i) % PIPESIZE
        BY <1>9, Zenon
      <4> DEFINE y == S + i
      <4>2. l \in Int /\ y \in Int /\ 0 < y - l /\ y - l < PIPESIZE
        BY <1>1, <1>2, <1>6, <2>1, <2>3, <4>1, Sizes
      <4> HIDE DEF l, y
      <4>3. l % PIPESIZE /= y % PIPESIZE
        BY Zenon, <4>2, SlotsDiffer, Sizes
      <4> QED
        BY <4>1, <4>3, Zenon DEF t, y
    <3>2. data'[t] = data[t]
      BY <1>4, <2>2, <3>1, Zenon
    <3>3. j \in (G + 1)..S /\ j \in 1..S
      BY <1>2, <2>1, <2>3
    <3> QED
      BY <1>3, <1>5, <3>2, <3>3, Zenon DEF t, l
  <2>4. CASE ~(j <= S)
    <3> DEFINE i == l - S
    <3>1. i \in 0..(k - 1) /\ S + i = l /\ j \in (S + 1)..(S + k)
      BY <1>1, <1>2, <2>1, <2>4
    <3> HIDE DEF i
    <3>2. t = (nwrite + i) % PIPESIZE
      BY <1>9, <3>1, Zenon DEF t
    <3>3. data'[t] = p
      BY <1>4, <2>2, <3>1, <3>2, Zenon
    <3> QED
      BY <1>3, <3>1, <3>3, Zenon DEF t, l
  <2> QED
    BY <2>3, <2>4, Zenon
<1>11. Len(got') = G /\ nread' = G % Wrap
  BY <1>4, <1>5, Zenon DEF G
<1>12. \A j \in 1..G : got'[j] = sent'[j]
  BY <1>4, <1>8, Zenon
<1>13. S + k - G = (S + k) - G
  BY <1>1, <1>2
<1> QED
  BY <1>3, <1>6, <1>7, <1>10, <1>11, <1>12, <1>13, Zenon DEF Ring

\* pipewrite() leaves no reader asleep next to bytes, unless its process is killed,
\* and sleeps itself only on a full pipe.
LEMMA PipeWriteInv ==
  ASSUME Inv, NEW p \in Proc, PipeWrite(p)
  PROVE  Inv'
<1> DEFINE k == Smaller(n[p], Room)
<1>1. k \in Nat /\ k <= PIPESIZE - Used /\ k <= n[p] /\ (k < n[p] => k = PIPESIZE - Used)
  BY PipeWriteSize, Zenon
<1>2. /\ p \in Writer /\ pc[p] = "call" /\ p \notin Reader
      /\ \A q \in Proc : pc[q] /= "tosleep"
      /\ UNCHANGED <<nread, readopen, writeopen, freed, refs, killed, late, got>>
  BY PipeAssumption, Zenon DEF PipeWrite, Unlocked
<1>3. \/ /\ pc' = [Woken(Reader) EXCEPT ![p] = "idle"]
         /\ n' = [n EXCEPT ![p] = 0]
      \/ /\ readopen = 0 \/ killed[p] = 1
         /\ pc' = [pc EXCEPT ![p] = "idle"]
         /\ n' = [n EXCEPT ![p] = 0]
      \/ /\ k < n[p]
         /\ readopen = 1 /\ killed[p] = 0
         /\ pc' = [Woken(Reader) EXCEPT ![p] = "tosleep"]
         /\ n' = [n EXCEPT ![p] = @ - k]
  BY Zenon DEF PipeWrite, WriteWakes
<1>4. pc \in [Proc -> {"idle", "call", "tosleep", "sleep", "close"}] /\ n \in [Proc -> Nat]
  BY Zenon DEF Inv, TypeOK
<1> HIDE DEF k
<1>5. pc' \in [Proc -> {"idle", "call", "tosleep", "sleep", "close"}]
  BY Zenon, <1>3, <1>4 DEF Woken
<1>6. /\ \A q \in Proc : q /= p => pc'[q] /= "tosleep" /\ (pc'[q] = "sleep" => pc[q] = "sleep")
      /\ \A q \in Proc : q /= p /\ pc'[q] = "call" => pc[q] \in {"call", "sleep"}
      /\ \A q \in Proc : pc'[q] = "close" => pc[q] = "close"
      /\ pc'[p] \in {"idle", "tosleep"}
  BY Zenon, <1>2, <1>3, <1>4 DEF Woken
<1>7. n' \in [Proc -> Nat]
  <2>1. n[p] - k \in Nat
    BY <1>1, <1>4
  <2> QED
    BY <1>3, <1>4, <2>1
<1>8. Ring'
  BY PipeWriteRing, Zenon
<1>9. sent' \in Seq(Writer)
  BY PipeWriteSent, Zenon
<1>10. nwrite' \in 0..(Wrap - 1)
  <2>1. nwrite' = (nwrite + k) % Wrap /\ nwrite + k \in Int
    BY <1>1 DEF PipeWrite, Advance, Inv, TypeOK, k
  <2> QED
    BY Zenon, <2>1, Division, Sizes
<1>11. data' \in [0..(PIPESIZE - 1) -> Writer]
  BY <1>2, Zenon DEF PipeWrite, Inv, TypeOK
<1>12. TypeOK'
  BY <1>2, <1>5, <1>7, <1>9, <1>10, <1>11, Zenon DEF Inv, TypeOK
<1>13. Ends'
  <2> USE <1>2, <1>4, <1>5, <1>6 DEF Inv, Ends, Waits, Proc
  <2>1. \A q \in Proc : pc'[q] \in {"call", "tosleep", "sleep"} => q \in refs'
    BY Zenon
  <2>2. ASSUME NEW q \in Proc, pc'[q] = "close"
        PROVE  refs' \cap End(q) = {} /\ \A r \in End(q) : pc'[r] = "close" => r = q
    BY <2>2 DEF End
  <2> QED
    BY <2>1, <2>2 DEF End
<1>14. Used' = Used + k
  <2>1. Used = Len(sent) - Len(got) /\ Len(sent) \in Nat /\ Len(got) \in Nat
    BY UsedIs, Zenon DEF Inv
  <2>2. Used' = Len(sent') - Len(got')
    <3>1. (TypeOK /\ Ring => UsedCounts)'
      BY UsedCount, PTL
    <3> QED
      BY <1>8, <1>12, <3>1, Zenon DEF UsedCounts
  <2>3. Len(sent') = Len(sent) + k
    BY PipeWriteSent, Zenon DEF k
  <2> QED
    BY <1>1, <1>2, <2>1, <2>2, <2>3
<1>15. Used \in 0..PIPESIZE /\ PIPESIZE \in Nat
  BY UsedIs, Sizes, Zenon DEF Inv
<1>16. ASSUME NEW r \in Reader, Waits(r)'
       PROVE  writeopen' = 1 /\ \E w \in Writer : killed'[w] = 1
  <2>1. r \in Proc /\ r /= p /\ pc'[r] = "sleep" /\ pc[r] = "sleep"
    BY <1>2, <1>6, <1>16, Zenon DEF Proc, Waits
  <2>2. readopen /= 0
    BY <2>1, Zenon DEF Inv, Ends, Waits
  <2>3. killed[p] = 1
    BY Zenon, <1>3, <1>4, <2>1, <2>2 DEF Woken
  <2> QED
    BY <1>2, <2>1, <2>3, Zenon DEF Inv, SleepersHaveNoWork, Waits
<1>17. ASSUME NEW w \in Writer, Waits(w)'
       PROVE  readopen' = 1 /\ Used' = PIPESIZE
  <2>0. w \in Proc
    BY Zenon DEF Proc
  <2>1. CASE w = p
    <3>1. k < n[p] /\ readopen = 1
      BY <1>3, <1>4, <1>17, <2>0, <2>1, Zenon DEF Waits, Woken
    <3> QED
      BY <1>1, <1>2, <1>14, <1>15, <2>1, <3>1
  <2>2. CASE w /= p
    <3>1. Used = PIPESIZE /\ readopen = 1
      BY <1>6, <1>17, <2>0, <2>2, Zenon DEF Inv, SleepersHaveNoWork, Waits
    <3> QED
      BY <1>1, <1>2, <1>14, <1>15, <3>1
  <2> QED
    BY <2>1, <2>2, Zenon
<1>18. ASSUME NEW q \in Proc, Waits(q)', killed'[q] = 1 PROVE q \in late'
  <2>1. CASE q = p
    <3>1. killed[p] = 0
      BY <1>3, <1>4, <1>18, <2>1, Zenon DEF Waits, Woken
    <3> QED
      BY <1>2, <1>18, <2>1, <3>1
  <2>2. CASE q /= p
    BY <1>2, <1>6, <1>18, <2>2, Zenon DEF Inv, SleepersHaveNoWork, Waits
  <2> QED
    BY <2>1, <2>2, Zenon
<1>19. SleepersHaveNoWork'
  BY <1>16, <1>17, <1>18, Zenon DEF SleepersHaveNoWork
<1> QED
  BY <1>8, <1>12, <1>13, <1>19, Zenon DEF Inv

\* What piperead() takes: k bytes, the oldest ones.
LEMMA PipeReadGot ==
  ASSUME Inv, NEW p \in Proc, PipeRead(p)
  PROVE  LET k == Smaller(n[p], Used)
         IN  /\ k \in Nat /\ k <= Used
             /\ got' \in Seq(Writer) /\ Len(got') = Len(got) + k
             /\ \A j \in 1..Len(got) : got'[j] = got[j]
             /\ \A j \in (Len(got) + 1)..(Len(got) + k) : got'[j] = sent[j]
<1> DEFINE k == Smaller(n[p], Used)
           b == Buffered
           e == SubSeq(b, 1, k)
<1>1. /\ Len(sent) \in Nat /\ Len(got) \in Nat
      /\ Used = Len(sent) - Len(got) /\ Used \in 0..PIPESIZE
  BY UsedIs, Zenon DEF Inv
<1>2. n[p] \in Nat
  BY Zenon DEF Inv, TypeOK
<1>3. k \in Nat /\ k <= Used
  BY <1>1, <1>2, Sizes DEF Smaller
<1>4. got' = got \o e /\ got \in Seq(Writer)
  BY Zenon DEF PipeRead, Inv, TypeOK
<1>5. b \in Seq(Writer) /\ Len(b) = Used /\ \A i \in 1..Used : b[i] = sent[Len(got) + i]
  BY BufferedIs, Zenon DEF Inv
<1> HIDE DEF k, b
<1>6. \A i \in 1..k : b[i] \in Writer /\ b[i] = sent[Len(got) + i]
  BY <1>1, <1>3, <1>5, Sizes
<1>7. e \in Seq(Writer) /\ Len(e) = k /\ \A i \in 1..k : e[i] = b[i]
  BY <1>1, <1>3, <1>5, <1>6, Sizes
<1> HIDE DEF e
<1>8. /\ got' \in Seq(Writer) /\ Len(got') = Len(got) + k
      /\ \A j \in 1..(Len(got) + k) :
           got'[j] = IF j <= Len(got) THEN got[j] ELSE e[j - Len(got)]
  <2>1. e \in Seq(Writer) /\ Len(e) = k
    BY <1>7, Zenon
  <2>2. /\ got \o e \in Seq(Writer) /\ Len(got \o e) = Len(got) + Len(e)
        /\ \A j \in 1..(Len(got) + Len(e)) :
             (got \o e)[j] = IF j <= Len(got) THEN got[j] ELSE e[j - Len(got)]
    BY Zenon, <1>4, <2>1, ConcatProperties
  <2> QED
    BY <1>4, <2>1, <2>2, Zenon
<1>9. ASSUME NEW j \in 1..Len(got) PROVE got'[j] = got[j]
  BY <1>1, <1>3, <1>8
<1>10. ASSUME NEW j \in (Len(got) + 1)..(Len(got) + k) PROVE got'[j] = sent[j]
  <2>1. /\ j \in 1..(Len(got) + k) /\ ~(j <= Len(got))
        /\ j - Len(got) \in 1..k /\ Len(got) + (j - Len(got)) = j
    BY <1>1, <1>3
  <2> QED
    BY <1>6, <1>7, <1>8, <2>1
<1> QED
  BY <1>3, <1>8, <1>9, <1>10, Zenon DEF k

\* piperead() leaves the rest in the buffer and wakes the writers; a reader that
\* sleeps on an empty pipe stays on an empty pipe.
LEMMA PipeReadInv ==
  ASSUME Inv, NEW p \in Proc, PipeRead(p)
  PROVE  Inv'
<1> DEFINE k == Smaller(n[p], Used)
           S == Len(sent)
           G == Len(got)
<1>1. S \in Nat /\ G \in Nat /\ Used = S - G /\ Used \in 0..PIPESIZE
  BY UsedIs, Zenon DEF Inv
<1>2. /\ k \in Nat /\ k <= Used
      /\ got' \in Seq(Writer) /\ Len(got') = G + k
      /\ \A j \in 1..G : got'[j] = got[j]
      /\ \A j \in (G + 1)..(G + k) : got'[j] = sent[j]
  BY PipeReadGot, Zenon
<1>3. /\ p \in Reader /\ p \notin Writer
      /\ nread' = Advance(nread, k)
      /\ pc' = [Woken(Writer) EXCEPT ![p] = "idle"]
      /\ n' = [n EXCEPT ![p] = 0]
      /\ \A q \in Proc : pc[q] /= "tosleep"
      /\ UNCHANGED <<data, nwrite, readopen, writeopen, freed, refs, killed, late, sent>>
  BY PipeAssumption, Zenon DEF PipeRead, ReadWakes, Unlocked
<1>4. /\ G <= S /\ S - G <= PIPESIZE /\ nread = G % Wrap /\ nwrite = S % Wrap
      /\ \A j \in 1..G : got[j] = sent[j]
      /\ \A j \in (G + 1)..S : data[(j - 1) % PIPESIZE] = sent[j]
  BY Zenon DEF Inv, Ring
<1>5. pc \in [Proc -> {"idle", "call", "tosleep", "sleep", "close"}] /\ n \in [Proc -> Nat]
  BY Zenon DEF Inv, TypeOK
<1>6. nread = nwrite => k = 0
  <2>1. nread \in Int /\ n[p] \in Nat
    BY <1>5 DEF Inv, TypeOK
  <2>2. 0 % Wrap = 0
    BY Sizes
  <2>3. nread = nwrite => Used = 0
    BY <2>1, <2>2 DEF Used
  <2> QED
    BY <1>2, <2>3
<1>7. Len(sent') = S
  BY <1>3, Zenon
<1> HIDE DEF k, S, G
<1>8. nread' = (G + k) % Wrap
  <2>1. G \in Int /\ k \in Int
    BY <1>1, <1>2
  <2>2. ((G % Wrap) + k) % Wrap = (G + k) % Wrap
    BY Zenon, <2>1, WrapPlus, Sizes
  <2> QED
    BY <1>3, <1>4, <2>2, Zenon DEF Advance
<1>9. Ring'
  <2>1. G + k <= S /\ S - (G + k) <= PIPESIZE /\ G + k \in Nat
    BY <1>1, <1>2, <1>4, Sizes
  <2>2. ASSUME NEW j \in 1..(G + k) PROVE got'[j] = sent'[j]
    <3>1. CASE j <= G
      BY <1>1, <1>2, <1>3, <1>4, <3>1
    <3>2. CASE ~(j <= G)
      BY <1>1, <1>2, <1>3, <3>2
    <3> QED
      BY <3>1, <3>2, Zenon
  <2>3. ASSUME NEW j \in (G + k + 1)..S PROVE data'[(j - 1) % PIPESIZE] = sent'[j]
    <3>1. j \in (G + 1)..S
      BY <1>1, <1>2
    <3> QED
      BY <1>3, <1>4, <3>1, Zenon
  <2>4. nwrite' = S % Wrap
    BY <1>3, <1>4, Zenon
  <2> QED
    BY <1>2, <1>7, <1>8, <2>1, <2>2, <2>3, <2>4, Zenon DEF Ring
<1>10. TypeOK'
  <2>1. pc' \in [Proc -> {"idle", "call", "tosleep", "sleep", "close"}] /\ n' \in [Proc -> Nat]
    BY <1>3, <1>5, Zenon DEF Woken
  <2>2. nread' \in 0..(Wrap - 1)
    BY <1>1, <1>2, <1>8, Division, Sizes
  <2> QED
    BY <1>2, <1>3, <2>1, <2>2, Zenon DEF Inv, TypeOK
<1>11. /\ \A q \in Proc : pc'[q] /= "tosleep"
       /\ \A q \in Proc : pc'[q] = "sleep" => pc[q] = "sleep" /\ q \notin Writer
       /\ \A q \in Proc : pc'[q] = "call" => pc[q] \in {"call", "sleep"}
       /\ \A q \in Proc : pc'[q] = "close" => pc[q] = "close"
  BY <1>3, <1>5, Zenon DEF Woken
<1>12. Ends'
  <2> USE <1>3, <1>11 DEF Inv, Ends, Waits, Proc
  <2>1. \A q \in Proc : pc'[q] \in {"call", "tosleep", "sleep"} => q \in refs'
    BY Zenon
  <2>2. ASSUME NEW q \in Proc, pc'[q] = "close"
        PROVE  refs' \cap End(q) = {} /\ \A r \in End(q) : pc'[r] = "close" => r = q
    BY <2>2, Zenon DEF End
  <2> QED
    BY <2>1, <2>2, Zenon DEF End
<1>13. nread = nwrite => nread' = nwrite'
  <2>1. G + 0 = G
    BY <1>1
  <2> QED
    BY <1>3, <1>4, <1>6, <1>8, <2>1, Zenon
<1>14. SleepersHaveNoWork'
  BY <1>3, <1>11, <1>13, Zenon DEF Inv, SleepersHaveNoWork, Waits, Proc
<1> QED
  BY <1>9, <1>10, <1>12, <1>14, Zenon DEF Inv

\* Every step of a process, and a step that changes nothing, preserves the invariant.
LEMMA NextInv == Inv /\ [Next]_vars => Inv'
<1> SUFFICES ASSUME Inv, [Next]_vars PROVE Inv'
  BY Zenon
<1>1. ASSUME NEW p \in Proc, NEW k \in 0..(IF p \in Reader THEN MaxRead ELSE MaxWrite),
             Call(p, k)
      PROVE  Inv'
  <2>1. k \in Nat
    BY PipeAssumption
  <2> QED
    BY <1>1, <2>1, CallInv, Zenon
<1>2. CASE UNCHANGED vars
  BY <1>2, Zenon DEF vars, pipeVars, Inv, TypeOK, Ends, Ring, SleepersHaveNoWork, Waits, Used
<1> QED
  BY <1>1, <1>2, PipeWriteInv, PipeReadEmptyInv, SleepInv, PipeReadInv, KillInv, FileCloseInv,
     PipeCloseInv, Zenon DEF Next

\* The inductive invariant holds in every reachable state.
LEMMA AlwaysInv == Spec => []Inv
BY InitInv, NextInv, PTL DEF Spec

\* The inductive invariant implies that nobody is in a freed pipe.
LEMMA InvFreed == Inv => FreedUnused
BY Zenon DEF Inv, TypeOK, Ends, Waits, FreedUnused, Proc

-----------------------------------------------------------------------------

\* The bytes leave the pipe once each, in the order pipewrite() put them in, and
\* no more than PIPESIZE are ever in it: for any number of readers and writers, of
\* bytes, and of times that the buffer and the counters wrap around.
THEOREM FifoAlways == Spec => []Fifo
BY AlwaysInv, InvFifo, PTL

\* No reader sleeps next to bytes or at the end of the pipe, and no writer next to
\* free slots or without a reader, except after a pipewrite() that returned early
\* for a killed process; and only a process that kill() found on its way into
\* sleep() sleeps although it is killed.
THEOREM SleepersHaveNoWorkAlways == Spec => []SleepersHaveNoWork
<1>1. Inv => SleepersHaveNoWork
  BY Zenon DEF Inv
<1> QED
  BY <1>1, AlwaysInv, PTL

\* pipeclose() frees the pipe once, when no process is in it or can come back.
THEOREM FreedUnusedAlways == Spec => []FreedUnused
BY AlwaysInv, InvFreed, PTL
=============================================================================
