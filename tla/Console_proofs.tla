--------------------------- MODULE Console_proofs ---------------------------
(***************************************************************************)
(* No wakeup of a reader of the console is lost, and the ring with its     *)
(* three wrapping indices implements Terminal, for any number of readers,  *)
(* any size of the ring and any multiple of it at which the indices wrap.  *)
(***************************************************************************)
EXTENDS Console, SequenceTheorems, TLAPS

PcOK == pc \in [Reader -> {"user", "acquire", "loop", "sleep", "sleeping"}]

\* A reader that looks at the ring, or has decided to sleep, holds cons.lock.
Locked == \A p \in Reader : pc[p] \in {"loop", "sleep"} => lock = p

\* From that decision on there is no input, until it is woken.
Starved == \A p \in Reader : pc[p] \in {"sleep", "sleeping"} => r = w

Inv == PcOK /\ Locked /\ Starved

LEMMA NobodyReads == Nobody \notin Reader
BY ConsoleAssumption, Zenon DEF Nobody

\* The invariant holds before the first call.
LEMMA InitInv == Init => Inv
BY Zenon DEF Init, Inv, PcOK, Locked, Starved

\* consoleintr() runs with cons.lock free, and wakes everybody when w moves.
LEMMA IntrInv ==
  ASSUME Inv, Consoleintr
  PROVE  Inv'
<1>1. lock = Nobody /\ lock' = lock /\ r' = r
  BY Zenon DEF Consoleintr, CtrlU, Backspace, Put
<1>2. \A p \in Reader : pc[p] \notin {"loop", "sleep"}
  BY <1>1, NobodyReads, Zenon DEF Inv, Locked
<1>3. pc' = Woken \/ (pc' = pc /\ w' = w)
  BY Zenon DEF Consoleintr, CtrlU, Backspace, Put
<1>4. CASE pc' = Woken
  BY <1>2, <1>4, Zenon DEF Inv, PcOK, Locked, Starved, Woken
<1>5. CASE pc' = pc /\ w' = w
  BY <1>1, <1>5, Zenon DEF Inv, PcOK, Locked, Starved
<1> QED
  BY <1>3, <1>4, <1>5, Zenon

\* The reader that holds cons.lock is the only one that looks at the ring.
LEMMA Holder ==
  ASSUME Inv, NEW p \in Reader, pc[p] \in {"loop", "sleep"}
  PROVE  lock = p /\ \A q \in Reader : pc[q] \in {"loop", "sleep"} => q = p
BY Zenon DEF Inv, Locked

\* Steps of consoleread() that return.
LEMMA ReturnInv ==
  ASSUME Inv, NEW p \in Reader, ReturnDone(p) \/ TakeMark(p) \/ ReturnKilled(p)
  PROVE  Inv'
<1>1. pc[p] = "loop" /\ pc' = [pc EXCEPT ![p] = "user"] /\ w' = w /\ (r' = r \/ r /= w)
  BY Zenon DEF ReturnDone, TakeMark, ReturnKilled, Return, Goto, input
<1>2. \A q \in Reader : pc'[q] \notin {"loop", "sleep"}
  BY <1>1, Holder, Zenon DEF Inv, PcOK
<1>3. \A q \in Reader : pc'[q] = "sleeping" => pc[q] = "sleeping"
  BY <1>1, Zenon DEF Inv, PcOK
<1>4. PcOK' /\ Locked'
  BY <1>1, <1>2, Zenon DEF Inv, PcOK, Locked
<1>5. Starved'
  BY <1>1, <1>2, <1>3, Zenon DEF Inv, Starved
<1> QED
  BY <1>4, <1>5, Zenon DEF Inv

\* Its other steps.
LEMMA ReadInv ==
  ASSUME Inv, NEW p \in Reader, Acquire(p) \/ Take(p) \/ Check(p) \/ Sleep(p)
  PROVE  Inv'
<1>1. CASE Acquire(p)
  <2>1. /\ lock = Nobody /\ lock' = p /\ pc[p] = "acquire" /\ pc' = [pc EXCEPT ![p] = "loop"]
        /\ r' = r /\ w' = w
    BY <1>1, Zenon DEF Acquire, Goto, input
  <2>2. \A q \in Reader : pc[q] \notin {"loop", "sleep"}
    BY <2>1, NobodyReads, Zenon DEF Inv, Locked
  <2> QED
    BY <2>1, <2>2, Zenon DEF Inv, PcOK, Locked, Starved
<1>2. CASE Take(p)
  <2>1. pc[p] = "loop" /\ pc' = pc /\ lock' = lock /\ r /= w
    BY <1>2, Zenon DEF Take
  <2>2. \A q \in Reader : pc[q] \notin {"sleep", "sleeping"}
    BY <2>1, Zenon DEF Inv, Starved
  <2> QED
    BY <2>1, <2>2, Zenon DEF Inv, PcOK, Locked, Starved
<1>3. CASE Check(p)
  <2>1. /\ pc[p] = "loop" /\ pc' = [pc EXCEPT ![p] = "sleep"] /\ lock' = lock
        /\ r = w /\ r' = r /\ w' = w
    BY <1>3, Zenon DEF Check, Goto, input
  <2> QED
    BY <2>1, Zenon DEF Inv, PcOK, Locked, Starved
<1>4. CASE Sleep(p)
  <2>1. /\ pc[p] = "sleep" /\ pc' = [pc EXCEPT ![p] = "sleeping"] /\ r' = r /\ w' = w
    BY <1>4, Zenon DEF Sleep, Goto, input
  <2>2. \A q \in Reader : pc'[q] \notin {"loop", "sleep"}
    BY <2>1, Holder, Zenon DEF Inv, PcOK
  <2>3. r = w
    BY <2>1, Zenon DEF Inv, Starved
  <2> QED
    BY <2>1, <2>2, <2>3, Zenon DEF Inv, PcOK, Locked, Starved
<1> QED
  BY <1>1, <1>2, <1>3, <1>4, Zenon

\* Calls and kill().
LEMMA OtherInv ==
  ASSUME Inv, NEW p \in Reader, Call(p) \/ Kill(p)
  PROVE  Inv'
<1>1. /\ lock' = lock /\ r' = r /\ w' = w
      /\ \/ pc' = pc
         \/ pc[p] \in {"user", "sleeping"} /\ pc' = [pc EXCEPT ![p] = "acquire"]
  BY Zenon DEF Call, Kill, Goto, input
<1> QED
  BY <1>1, Zenon DEF Inv, PcOK, Locked, Starved

\* No step breaks the invariant.
LEMMA NextInv == Inv /\ [Next]_vars => Inv'
<1> SUFFICES ASSUME Inv, [Next]_vars PROVE Inv'
  BY Zenon
<1>1. CASE UNCHANGED vars
  BY <1>1, Zenon DEF vars, input, Inv, PcOK, Locked, Starved
<1>2. CASE Next
  BY <1>2, IntrInv, ReturnInv, ReadInv, OtherInv, Zenon DEF Next, Consoleread
<1> QED
  BY <1>1, <1>2, Zenon

\* A process that sleeps in consoleread() has nothing to read: what the interrupt
\* handler enters on another CPU, at any point between the look at the ring and
\* sleep(), or what another reader leaves, wakes it or keeps it awake.
THEOREM SleepersAlwaysStarved == Spec => []SleepersHaveNoInput
<1>1. Inv => SleepersHaveNoInput
  BY Zenon DEF Inv, Starved, SleepersHaveNoInput
<1> QED
  BY <1>1, InitInv, NextInv, PTL DEF Spec

-----------------------------------------------------------------------------
(* Remainders and wrapping indices.                                        *)

\* The only multiple of m between -m and m is 0.
LEMMA SmallMultiple ==
  ASSUME NEW m \in Nat \ {0}, NEW d \in Int, -m < d * m, d * m < m
  PROVE  d = 0
<1>1. d >= 1 => d * m >= m
  OBVIOUS
<1>2. d <= -1 => d * m <= -m
  OBVIOUS
<1> QED
  BY <1>1, <1>2

\* A number is a multiple of m and its remainder.
LEMMA Division ==
  ASSUME NEW m \in Nat \ {0}, NEW x \in Int
  PROVE  /\ x % m \in 0..(m - 1) /\ x \div m \in Int /\ (x \div m) * m \in Int
         /\ x = (x \div m) * m + (x % m)
<1>1. x % m \in 0..(m - 1)
  OBVIOUS
<1>2. x \div m \in Int
  OBVIOUS
<1>3. x = m * (x \div m) + (x % m)
  OBVIOUS
<1>4. m * (x \div m) = (x \div m) * m /\ (x \div m) * m \in Int
  BY <1>2
<1> QED
  BY <1>1, <1>2, <1>3, <1>4, Zenon

\* The remainder is the only one.
LEMMA Remainder ==
  ASSUME NEW m \in Nat \ {0}, NEW x \in Int, NEW q \in Int, NEW y \in 0..(m - 1), x = q * m + y
  PROVE  x % m = y
<1> DEFINE a == x \div m
           z == x % m
<1>1. a \in Int /\ z \in 0..(m - 1) /\ a * m \in Int /\ x = a * m + z
  BY Division, Zenon
<1> HIDE DEF a, z
<1>2. (q - a) * m = q * m - a * m /\ q * m \in Int
  BY <1>1
<1>3. (q - a) * m = z - y
  BY <1>1, <1>2
<1>4. z - y < m /\ -m < z - y
  BY <1>1
<1>5. q - a = 0
  BY <1>1, <1>3, <1>4, SmallMultiple
<1>6. (q - a) * m = 0
  BY <1>5
<1>7. z = y
  BY <1>1, <1>3, <1>6
<1> QED
  BY <1>7, Zenon DEF z

\* Multiples do not matter.
LEMMA Shift ==
  ASSUME NEW m \in Nat \ {0}, NEW x \in Int, NEW z \in Int, NEW k \in Int, z = x + k * m
  PROVE  z % m = x % m
<1> DEFINE q == x \div m
           y == x % m
<1>1. q \in Int /\ y \in 0..(m - 1) /\ q * m \in Int /\ x = q * m + y
  BY Division, Zenon
<1> HIDE DEF q, y
<1>2. (q + k) * m = q * m + k * m /\ k * m \in Int
  BY <1>1
<1>3. z = (q + k) * m + y
  BY <1>1, <1>2
<1>4. z % m = y
  BY <1>1, <1>3, Remainder
<1> QED
  BY <1>4, Zenon DEF y


\* Fewer than m numbers in a row have different remainders.
LEMMA SlotsDiffer ==
  ASSUME NEW m \in Nat \ {0}, NEW x \in Int, NEW y \in Int, 0 < y - x, y - x < m
  PROVE  x % m /= y % m
<1> DEFINE q == x \div m
           p == y \div m
           s == x % m
           t == y % m
<1>1. /\ q \in Int /\ s \in 0..(m - 1) /\ q * m \in Int /\ x = q * m + s
      /\ p \in Int /\ t \in 0..(m - 1) /\ p * m \in Int /\ y = p * m + t
  BY Division, Zenon
<1> HIDE DEF q, p, s, t
<1>2. SUFFICES ASSUME s = t
               PROVE  FALSE
  BY Zenon DEF s, t
<1>3. (p - q) * m = p * m - q * m /\ p - q \in Int
  BY <1>1
<1>4. (p - q) * m = y - x
  BY <1>1, <1>2, <1>3
<1>5. p - q = 0
  BY <1>3, <1>4, SmallMultiple
<1>6. (p - q) * m = 0
  BY <1>5
<1>7. QED
  BY <1>4, <1>6

LEMMA Sizes ==
  INPUT_BUF \in Nat \ {0} /\ WORD \in Nat \ {0} /\ INPUT_BUF < WORD /\ WORD % INPUT_BUF = 0
  BY ConsoleAssumption

\* The indices wrap once at most.
LEMMA PlusIs ==
  ASSUME NEW x \in 0..(WORD - 1), NEW k \in 0..(WORD - 1)
  PROVE  /\ x + k < WORD => Plus(x, k) = x + k
         /\ x + k >= WORD => Plus(x, k) = (x + k) - WORD
<1>1. x + k < WORD => x + k \in 0..(WORD - 1) /\ x + k = 0 * WORD + (x + k)
  BY Sizes
<1>2. x + k >= WORD => (x + k) - WORD \in 0..(WORD - 1) /\ x + k = 1 * WORD + ((x + k) - WORD)
  BY Sizes
<1>3. x + k \in Int
  BY Sizes
<1>4. ASSUME x + k < WORD
      PROVE  Plus(x, k) = x + k
  BY <1>1, <1>3, <1>4, Sizes, Remainder DEF Plus
<1>5. ASSUME x + k >= WORD
      PROVE  Plus(x, k) = (x + k) - WORD
  BY <1>2, <1>3, <1>5, Sizes, Remainder DEF Plus
<1>6. QED
  BY <1>4, <1>5, Zenon

LEMMA MinusIs ==
  ASSUME NEW x \in 0..(WORD - 1), NEW k \in 0..(WORD - 1)
  PROVE  /\ x >= k => Minus(x, k) = x - k
         /\ x < k => Minus(x, k) = x - k + WORD
<1>1. x >= k => x - k \in 0..(WORD - 1) /\ x - k = 0 * WORD + (x - k)
  BY Sizes
<1>2. x < k => x - k + WORD \in 0..(WORD - 1) /\ x - k = (-1) * WORD + (x - k + WORD)
  BY Sizes
<1>3. x - k \in Int
  BY Sizes
<1>4. ASSUME x >= k
      PROVE  Minus(x, k) = x - k
  BY <1>1, <1>3, <1>4, Sizes, Remainder DEF Minus
<1>5. ASSUME x < k
      PROVE  Minus(x, k) = x - k + WORD
  BY <1>2, <1>3, <1>5, Sizes, Remainder DEF Minus
<1>6. QED
  BY <1>4, <1>5, Zenon

\* The ring does not notice when an index wraps.
LEMMA SlotWrap ==
  ASSUME NEW x \in Int
  PROVE  Slot(x - WORD) = Slot(x) /\ Slot(x + WORD) = Slot(x) /\ Slot(x) \in 0..(INPUT_BUF - 1)
<1> DEFINE c == WORD \div INPUT_BUF
<1>1. c \in Int /\ c * INPUT_BUF \in Int /\ WORD = c * INPUT_BUF
  BY Sizes, Division
<1> HIDE DEF c
<1>2. (-c) * INPUT_BUF = -(c * INPUT_BUF)
  BY <1>1, Sizes
<1>3. x - WORD = x + (-c) * INPUT_BUF /\ x + WORD = x + c * INPUT_BUF
  BY <1>1, <1>2, Zenon
<1>4. x - WORD \in Int /\ x + WORD \in Int /\ -c \in Int
  BY <1>1, Sizes
<1>5. (x - WORD) % INPUT_BUF = x % INPUT_BUF /\ (x + WORD) % INPUT_BUF = x % INPUT_BUF
  <2>1. INPUT_BUF \in Nat \ {0}
    BY Sizes, Zenon
  <2>2. (x - WORD) % INPUT_BUF = x % INPUT_BUF
    BY <1>3, <1>4, <2>1, Shift, Zenon
  <2>3. (x + WORD) % INPUT_BUF = x % INPUT_BUF
    BY <1>1, <1>3, <1>4, <2>1, Shift, Zenon
  <2>4. QED
    BY <2>2, <2>3, Zenon
<1>6. x % INPUT_BUF \in 0..(INPUT_BUF - 1)
  BY Sizes, Division, Zenon
<1>7. QED
  BY <1>5, <1>6, Zenon DEF Slot

LEMMA SlotPlus ==
  ASSUME NEW x \in 0..(WORD - 1), NEW k \in 0..(WORD - 1)
  PROVE  /\ Slot(Plus(x, k)) = Slot(x + k) /\ Slot(Minus(x, k)) = Slot(x - k)
         /\ Plus(x, k) \in 0..(WORD - 1) /\ Minus(x, k) \in 0..(WORD - 1)
<1>1. x + k \in Int /\ x - k \in Int
  BY Sizes
<1>2. Plus(x, k) = x + k \/ Plus(x, k) = (x + k) - WORD
  BY PlusIs, Sizes
<1>3. Minus(x, k) = x - k \/ Minus(x, k) = x - k + WORD
  BY MinusIs, Sizes
<1>4. Slot(Plus(x, k)) = Slot(x + k) /\ Slot(Minus(x, k)) = Slot(x - k)
  <2>1. Slot((x + k) - WORD) = Slot(x + k) /\ Slot((x - k) + WORD) = Slot(x - k)
    BY <1>1, SlotWrap, Zenon
  <2>2. QED
    BY <1>2, <1>3, <2>1, Zenon
<1>5. Plus(x, k) \in 0..(WORD - 1) /\ Minus(x, k) \in 0..(WORD - 1)
  <2>1. x + k \in Int /\ x - k \in Int
    BY Sizes
  <2>2. QED
    BY <2>1, Sizes, Division, Zenon DEF Plus, Minus
<1>6. QED
  BY <1>4, <1>5, Zenon

-----------------------------------------------------------------------------
(* What lies in the ring.                                                  *)

\* What the ring can hold: at first it holds some character.
Sym == Stored \cup {CHOOSE c \in Char : TRUE}
Ring == [0..(INPUT_BUF - 1) -> Sym]

\* The n characters of ring b from index x on, where x need not have wrapped.
Seg(b, x, n) == [i \in 1..n |-> b[Slot(x + (i - 1))]]

LEMMA SegType ==
  ASSUME NEW b \in Ring, NEW x \in Int, NEW n \in Nat
  PROVE  Seg(b, x, n) \in Seq(Sym) /\ Len(Seg(b, x, n)) = n
         /\ \A i \in 1..n : Seg(b, x, n)[i] = b[Slot(x + (i - 1))] /\ Seg(b, x, n)[i] \in Sym
<1>1. ASSUME NEW i \in 1..n
      PROVE  b[Slot(x + (i - 1))] \in Sym
  <2>1. x + (i - 1) \in Int
    OBVIOUS
  <2>2. Slot(x + (i - 1)) \in 0..(INPUT_BUF - 1)
    BY <2>1, SlotWrap, Zenon
  <2>3. QED
    BY <2>2, Zenon DEF Ring
<1>2. Seg(b, x, n) \in [1..n -> Sym]
  BY <1>1, Zenon DEF Seg
<1>3. Seg(b, x, n) \in Seq(Sym) /\ Len(Seg(b, x, n)) = n
  BY <1>2
<1>4. \A i \in 1..n : Seg(b, x, n)[i] = b[Slot(x + (i - 1))]
  BY Zenon DEF Seg
<1>5. QED
  BY <1>1, <1>3, <1>4, Zenon

\* Two segments are equal if they are as long as each other and have the same
\* characters.
LEMMA SegEqual ==
  ASSUME NEW b \in Ring, NEW x \in Int, NEW n \in Nat, NEW s \in Seq(Sym), Len(s) = n,
         \A i \in 1..n : s[i] = b[Slot(x + (i - 1))]
  PROVE  s = Seg(b, x, n)
<1>1. Seg(b, x, n) \in Seq(Sym) /\ Len(Seg(b, x, n)) = n /\ \A i \in 1..n : Seg(b, x, n)[i] = s[i]
  BY SegType, Zenon
<1>2. QED
  BY <1>1, SeqEqual, Zenon

LEMMA SegShift ==
  ASSUME NEW b \in Ring, NEW x \in Int, NEW y \in Int, NEW n \in Nat,
         y = x \/ y = x - WORD \/ y = x + WORD
  PROVE  Seg(b, y, n) = Seg(b, x, n)
<1>1. ASSUME NEW i \in 1..n
      PROVE  Slot(y + (i - 1)) = Slot(x + (i - 1))
  <2>1. x + (i - 1) \in Int
    OBVIOUS
  <2>2. \/ y + (i - 1) = x + (i - 1)
        \/ y + (i - 1) = (x + (i - 1)) - WORD
        \/ y + (i - 1) = (x + (i - 1)) + WORD
    BY Sizes
  <2>3. QED
    BY <2>1, <2>2, SlotWrap, Zenon
<1>2. QED
  BY <1>1, Zenon DEF Seg

\* The model's segments are these.
LEMMA SegmentIs ==
  ASSUME NEW b \in Ring, NEW x \in 0..(WORD - 1), NEW n \in 0..(WORD - 1)
  PROVE  [i \in 1..n |-> b[Slot(Plus(x, i - 1))]] = Seg(b, x, n)
<1>1. ASSUME NEW i \in 1..n
      PROVE  Slot(Plus(x, i - 1)) = Slot(x + (i - 1))
  <2>1. i - 1 \in 0..(WORD - 1)
    BY Sizes
  <2>2. QED
    BY <2>1, SlotPlus, Zenon
<1>2. QED
  BY <1>1, Zenon DEF Seg

\* consoleread() takes the first character.
LEMMA SegTake ==
  ASSUME NEW b \in Ring, NEW x \in Int, NEW n \in Nat \ {0}
  PROVE  /\ Seg(b, x, n) /= <<>> /\ Head(Seg(b, x, n)) = b[Slot(x)]
         /\ Tail(Seg(b, x, n)) = Seg(b, x + 1, n - 1)
<1> DEFINE s == Seg(b, x, n)
<1>1. s \in Seq(Sym) /\ Len(s) = n /\ \A i \in 1..n : s[i] = b[Slot(x + (i - 1))]
  BY SegType, Zenon
<1> HIDE DEF s
<1>2. s /= <<>>
  BY <1>1, Zenon
<1>3. x + (1 - 1) = x /\ 1 \in 1..n
  OBVIOUS
<1>4. Head(s) = s[1]
  BY <1>1, <1>2
<1>5. s[1] = b[Slot(x)]
  BY <1>1, <1>3, Zenon
<1>6. Tail(s) \in Seq(Sym) /\ Len(Tail(s)) = n - 1 /\ \A i \in 1..(n - 1) : Tail(s)[i] = s[i + 1]
  BY <1>1, <1>2, HeadTailProperties, Zenon
<1>7. ASSUME NEW i \in 1..(n - 1)
      PROVE  Tail(s)[i] = b[Slot((x + 1) + (i - 1))]
  <2>1. i + 1 \in 1..n /\ x + ((i + 1) - 1) = (x + 1) + (i - 1)
    OBVIOUS
  <2>2. QED
    BY <2>1, <1>1, <1>6, Zenon
<1>8. x + 1 \in Int /\ n - 1 \in Nat
  OBVIOUS
<1>9. Tail(s) = Seg(b, x + 1, n - 1)
  BY <1>6, <1>7, <1>8, SegEqual, Zenon
<1>10. QED
  BY <1>2, <1>4, <1>5, <1>9, Zenon DEF s

\* Backspace takes back the last one.
LEMMA SegFront ==
  ASSUME NEW b \in Ring, NEW x \in Int, NEW n \in Nat \ {0}
  PROVE  SubSeq(Seg(b, x, n), 1, n - 1) = Seg(b, x, n - 1)
<1> DEFINE s == Seg(b, x, n)
           f == SubSeq(s, 1, n - 1)
<1>1. s \in Seq(Sym) /\ Len(s) = n /\ \A i \in 1..n : s[i] = b[Slot(x + (i - 1))] /\ s[i] \in Sym
  BY SegType, Zenon
<1> HIDE DEF s
<1>2. f \in Seq(Sym) /\ Len(f) = n - 1 /\ \A i \in 1..(n - 1) : f[i] = s[i]
  BY <1>1
<1>3. n - 1 \in Nat /\ \A i \in 1..(n - 1) : f[i] = b[Slot(x + (i - 1))]
  BY <1>1, <1>2
<1>4. f = Seg(b, x, n - 1)
  BY <1>2, <1>3, SegEqual, Zenon
<1>5. QED
  BY <1>4, Zenon DEF s

\* What is ready and the line that follows it.
LEMMA SegConcat ==
  ASSUME NEW b \in Ring, NEW x \in Int, NEW n \in Nat, NEW m \in Nat
  PROVE  Seg(b, x, n) \o Seg(b, x + n, m) = Seg(b, x, n + m)
<1> DEFINE s == Seg(b, x, n)
           t == Seg(b, x + n, m)
<1>1. s \in Seq(Sym) /\ Len(s) = n /\ \A i \in 1..n : s[i] = b[Slot(x + (i - 1))]
  BY SegType, Zenon
<1>2. x + n \in Int
  OBVIOUS
<1>3. t \in Seq(Sym) /\ Len(t) = m /\ \A i \in 1..m : t[i] = b[Slot((x + n) + (i - 1))]
  BY <1>2, SegType, Zenon
<1> HIDE DEF s, t
<1>4. s \o t \in Seq(Sym) /\ Len(s \o t) = n + m
      /\ \A i \in 1..(n + m) : (s \o t)[i] = IF i <= n THEN s[i] ELSE t[i - n]
  <2>1. s \o t \in Seq(Sym) /\ Len(s \o t) = Len(s) + Len(t)
        /\ \A i \in 1..(Len(s) + Len(t)) : (s \o t)[i] = IF i <= Len(s) THEN s[i] ELSE t[i - Len(s)]
    BY <1>1, <1>3, ConcatProperties, Zenon
  <2>2. Len(s) = n /\ Len(t) = m
    BY <1>1, <1>3, Zenon
  <2>3. QED
    BY <2>1, <2>2, Zenon
<1>5. ASSUME NEW i \in 1..(n + m)
      PROVE  (s \o t)[i] = b[Slot(x + (i - 1))]
  <2>1. CASE i <= n
    BY <1>1, <1>4, <2>1
  <2>2. CASE i > n
    <3>1. i - n \in 1..m /\ (x + n) + ((i - n) - 1) = x + (i - 1) /\ ~(i <= n)
      BY <2>2
    <3>2. QED
      BY <3>1, <1>3, <1>4, Zenon
  <2>3. i <= n \/ i > n
    OBVIOUS
  <2>4. QED
    BY <2>1, <2>2, <2>3, Zenon
<1>6. n + m \in Nat
  OBVIOUS
<1>7. s \o t = Seg(b, x, n + m)
  BY <1>4, <1>5, <1>6, SegEqual, Zenon
<1>8. QED
  BY <1>7, Zenon DEF s, t

\* Ring b with c at index k.
With(b, k, c) == [b EXCEPT ![Slot(k)] = c]

\* A character goes into the ring behind fewer than INPUT_BUF others, and leaves
\* those alone.
LEMMA SegPut ==
  ASSUME NEW b \in Ring, NEW x \in Int, NEW m \in Nat, m < INPUT_BUF, NEW c \in Sym
  PROVE  /\ With(b, x + m, c) \in Ring
         /\ \A n \in Nat : n <= m => Seg(With(b, x + m, c), x, n) = Seg(b, x, n)
         /\ Seg(With(b, x + m, c), x, m + 1) = Append(Seg(b, x, m), c)
<1> DEFINE k == x + m
           d == With(b, k, c)
<1>0. k \in Int
  OBVIOUS
<1>1. Slot(k) \in 0..(INPUT_BUF - 1)
  BY <1>0, SlotWrap, Zenon
<1>2. d \in Ring
  BY Zenon DEF Ring, With
<1>3. d[Slot(k)] = c
  BY <1>1, Zenon DEF Ring, With
<1>4. ASSUME NEW i \in 1..m
      PROVE  d[Slot(x + (i - 1))] = b[Slot(x + (i - 1))]
  <2> DEFINE y == x + (i - 1)
  <2>1. y \in Int /\ 0 < k - y /\ k - y < INPUT_BUF
    BY Sizes
  <2> HIDE DEF y
  <2>2. Slot(y) /= Slot(k)
    <3>1. INPUT_BUF \in Nat \ {0}
      BY Sizes, Zenon
    <3> HIDE DEF k
    <3>2. QED
      BY <1>0, <2>1, <3>1, SlotsDiffer, Zenon DEF Slot
  <2>3. Slot(y) \in 0..(INPUT_BUF - 1)
    BY <2>1, SlotWrap, Zenon
  <2>4. d[Slot(y)] = b[Slot(y)]
    BY <2>2, <2>3, Zenon DEF Ring, With
  <2>5. QED
    BY <2>4, Zenon DEF y
<1> HIDE DEF d
<1>5. ASSUME NEW n \in Nat, n <= m
      PROVE  Seg(d, x, n) = Seg(b, x, n)
  <2>1. \A i \in 1..n : i \in 1..m
    BY <1>5
  <2>2. QED
    BY <2>1, <1>4, Zenon DEF Seg
<1>6. Seg(d, x, m + 1) = Append(Seg(b, x, m), c)
  <2> DEFINE s == Seg(b, x, m)
             t == Append(s, c)
  <2>1. s \in Seq(Sym) /\ Len(s) = m /\ \A i \in 1..m : s[i] = b[Slot(x + (i - 1))]
    BY SegType, Zenon
  <2> HIDE DEF s
  <2>2. t \in Seq(Sym) /\ Len(t) = m + 1 /\ t[m + 1] = c /\ \A i \in 1..m : t[i] = s[i]
    BY <2>1
  <2> HIDE DEF t
  <2>3. ASSUME NEW i \in 1..(m + 1)
        PROVE  t[i] = d[Slot(x + (i - 1))]
    <3>1. CASE i \in 1..m
      BY <3>1, <1>4, <2>1, <2>2, Zenon
    <3>2. CASE i = m + 1
      <4>1. x + (i - 1) = k
        BY <3>2
      <4>2. QED
        BY <4>1, <3>2, <1>3, <2>2, Zenon
    <3>3. QED
      BY <3>1, <3>2
  <2>4. m + 1 \in Nat
    OBVIOUS
  <2>5. t = Seg(d, x, m + 1)
    BY <1>2, <2>2, <2>3, <2>4, SegEqual, Zenon
  <2>6. QED
    BY <2>5, Zenon DEF t, s
<1>7. QED
  BY <1>2, <1>5, <1>6, Zenon DEF d

-----------------------------------------------------------------------------
(* The invariant of the ring and of the calls.                             *)

Index == 0..(WORD - 1)

\* The indices follow each other within the size of the ring, and there is no
\* newline in the line that is edited.
RingInv ==
  /\ buf \in Ring /\ r \in Index /\ w \in Index /\ e \in Index
  /\ Minus(e, r) = Minus(w, r) + Minus(e, w) /\ Minus(e, r) <= INPUT_BUF
  /\ \A i \in 1..Minus(e, w) : buf[Slot(w + (i - 1))] /= Newline

\* A process in consoleread() has asked for something.
CallInv ==
  /\ target \in [Reader -> Nat] /\ dst \in [Reader -> Seq(Sym)]
  /\ \A p \in Reader : pc[p] = "user" <=> target[p] = 0

\* Distances between indices, as far as they matter.
LEMMA Distance ==
  ASSUME NEW x \in Index, NEW y \in Index
  PROVE  /\ Minus(y, x) \in Index /\ Minus(y, x) \in Nat
         /\ Minus(y, x) = 0 <=> x = y
         /\ y = x + Minus(y, x) \/ y = (x + Minus(y, x)) - WORD
<1>1. Minus(y, x) = y - x \/ Minus(y, x) = (y - x) + WORD
  BY MinusIs DEF Index
<1>2. Minus(y, x) \in Index
  BY SlotPlus, Zenon DEF Index
<1>3. QED
  BY <1>1, <1>2, Sizes DEF Index

\* A distance is the only number that leads from one index to the other.
LEMMA DistanceIs ==
  ASSUME NEW x \in Index, NEW y \in Index, NEW n \in Index,
         y = x + n \/ y = (x + n) - WORD
  PROVE  Minus(y, x) = n
<1>1. Minus(y, x) \in Index /\ (y = x + Minus(y, x) \/ y = (x + Minus(y, x)) - WORD)
  BY Distance, Zenon
<1>2. QED
  BY <1>1, Sizes DEF Index

LEMMA Forward ==
  ASSUME NEW x \in Index, NEW n \in Index
  PROVE  /\ Plus(x, n) \in Index
         /\ Plus(x, n) = x + n \/ Plus(x, n) = (x + n) - WORD
<1>1. Plus(x, n) = x + n \/ Plus(x, n) = (x + n) - WORD
  BY PlusIs, Sizes DEF Index
<1>2. Plus(x, n) \in Index
  BY SlotPlus, Zenon DEF Index
<1>3. QED
  BY <1>1, <1>2, Zenon

LEMMA Backward ==
  ASSUME NEW x \in Index, NEW n \in Index
  PROVE  /\ Minus(x, n) \in Index
         /\ Minus(x, n) = x - n \/ Minus(x, n) = (x - n) + WORD
<1>1. Minus(x, n) = x - n \/ Minus(x, n) = (x - n) + WORD
  BY MinusIs, Sizes DEF Index
<1>2. Minus(x, n) \in Index
  BY SlotPlus, Zenon DEF Index
<1>3. QED
  BY <1>1, <1>2, Zenon

\* The edit index moves on by one.
LEMMA IndexPut ==
  ASSUME NEW x \in Index, NEW y \in Index, NEW z \in Index,
         Minus(z, x) = Minus(y, x) + Minus(z, y), Minus(z, x) < INPUT_BUF
  PROVE  /\ Plus(z, 1) \in Index
         /\ Minus(Plus(z, 1), x) = Minus(z, x) + 1
         /\ Minus(Plus(z, 1), y) = Minus(z, y) + 1
         /\ Plus(z, 1) = Plus(x, INPUT_BUF) <=> Minus(z, x) + 1 = INPUT_BUF
<1> DEFINE a == Minus(y, x)
           b == Minus(z, y)
           c == Minus(z, x)
           f == Plus(z, 1)
           g == Plus(x, INPUT_BUF)
<1>1. a \in Nat /\ b \in Nat /\ c \in Nat
  BY Distance, Zenon
<1>2. (z = x + c \/ z = (x + c) - WORD) /\ (z = y + b \/ z = (y + b) - WORD)
  BY Distance, Zenon
<1>3. 1 \in Index /\ INPUT_BUF \in Index
  BY Sizes DEF Index
<1>4. f \in Index /\ (f = z + 1 \/ f = (z + 1) - WORD)
  BY <1>3, Forward, Zenon
<1>5. g \in Index /\ (g = x + INPUT_BUF \/ g = (x + INPUT_BUF) - WORD)
  BY <1>3, Forward, Zenon
<1>6. c = a + b /\ c < INPUT_BUF
  BY Zenon
<1> HIDE DEF a, b, c, f, g
<1>7. c + 1 \in Index /\ (f = x + (c + 1) \/ f = (x + (c + 1)) - WORD)
  BY <1>1, <1>2, <1>4, <1>6, Sizes DEF Index
<1>8. b + 1 \in Index /\ (f = y + (b + 1) \/ f = (y + (b + 1)) - WORD)
  BY <1>1, <1>2, <1>4, <1>6, Sizes DEF Index
<1>9. Minus(f, x) = c + 1 /\ Minus(f, y) = b + 1
  BY <1>4, <1>7, <1>8, DistanceIs
<1>10. Minus(g, x) = INPUT_BUF
  BY <1>3, <1>5, DistanceIs, Zenon
<1>11. c + 1 = INPUT_BUF => f = g
  BY <1>1, <1>4, <1>5, <1>7, Sizes DEF Index
<1>12. QED
  BY <1>4, <1>9, <1>10, <1>11, Zenon DEF b, c, f, g

\* The read index moves on by one.
LEMMA IndexTake ==
  ASSUME NEW x \in Index, NEW y \in Index, NEW z \in Index,
         Minus(z, x) = Minus(y, x) + Minus(z, y), x /= y
  PROVE  /\ Plus(x, 1) \in Index /\ Minus(y, x) \in Nat \ {0}
         /\ Minus(y, Plus(x, 1)) = Minus(y, x) - 1
         /\ Minus(z, Plus(x, 1)) = Minus(z, x) - 1
<1> DEFINE a == Minus(y, x)
           c == Minus(z, x)
           f == Plus(x, 1)
<1>1. a \in Index /\ c \in Index /\ Minus(z, y) \in Nat
  BY Distance, Zenon
<1>2. (y = x + a \/ y = (x + a) - WORD) /\ (z = x + c \/ z = (x + c) - WORD)
  BY Distance, Zenon
<1>3. a /= 0
  BY Distance, Zenon
<1>4. 1 \in Index
  BY Sizes DEF Index
<1>5. f \in Index /\ (f = x + 1 \/ f = (x + 1) - WORD)
  BY <1>4, Forward, Zenon
<1>6. c >= a
  BY <1>1 DEF Index
<1> HIDE DEF a, c, f
<1>7. a - 1 \in Index /\ (y = f + (a - 1) \/ y = (f + (a - 1)) - WORD)
  BY <1>1, <1>2, <1>3, <1>5, Sizes DEF Index
<1>8. c - 1 \in Index /\ (z = f + (c - 1) \/ z = (f + (c - 1)) - WORD)
  BY <1>1, <1>2, <1>3, <1>5, <1>6, Sizes DEF Index
<1>9. Minus(y, f) = a - 1 /\ Minus(z, f) = c - 1
  BY <1>5, <1>7, <1>8, DistanceIs
<1>10. a \in Nat \ {0}
  BY <1>1, <1>3 DEF Index
<1>11. QED
  BY <1>5, <1>9, <1>10, Zenon DEF a, c, f

\* The edit index moves back by k, at most to the write index.
LEMMA IndexBack ==
  ASSUME NEW x \in Index, NEW y \in Index, NEW z \in Index, NEW k \in 0..Minus(z, y),
         Minus(z, x) = Minus(y, x) + Minus(z, y)
  PROVE  /\ Minus(z, k) \in Index /\ k \in Index
         /\ Minus(Minus(z, k), y) = Minus(z, y) - k
         /\ Minus(Minus(z, k), x) = Minus(z, x) - k
<1> DEFINE a == Minus(y, x)
           b == Minus(z, y)
           c == Minus(z, x)
           f == Minus(z, k)
<1>1. a \in Index /\ b \in Index /\ c \in Index
  BY Distance, Zenon
<1>2. (z = y + b \/ z = (y + b) - WORD) /\ (z = x + c \/ z = (x + c) - WORD)
  BY Distance, Zenon
<1>3. k \in Index /\ k <= b /\ c = a + b
  <2>1. k \in 0..b /\ c = a + b
    BY Zenon
  <2> HIDE DEF a, b, c
  <2>2. QED
    BY <1>1, <2>1, Sizes DEF Index
<1>4. f \in Index /\ (f = z - k \/ f = (z - k) + WORD)
  BY <1>3, Backward, Zenon
<1> HIDE DEF a, b, c, f
<1>5. b - k \in Index /\ (f = y + (b - k) \/ f = (y + (b - k)) - WORD)
  BY <1>1, <1>2, <1>3, <1>4, Sizes DEF Index
<1>6. c - k \in Index /\ (f = x + (c - k) \/ f = (x + (c - k)) - WORD)
  BY <1>1, <1>2, <1>3, <1>4, Sizes DEF Index
<1>7. Minus(f, y) = b - k /\ Minus(f, x) = c - k
  BY <1>4, <1>5, <1>6, DistanceIs
<1>8. QED
  BY <1>3, <1>4, <1>7, Zenon DEF b, c, f

\* An empty segment.
LEMMA NoSeg ==
  ASSUME NEW b, NEW x
  PROVE  Seg(b, x, 0) = <<>>
  BY DEF Seg

LEMMA AppendConcat ==
  ASSUME NEW s \in Seq(Sym), NEW t \in Seq(Sym), NEW c \in Sym
  PROVE  Append(s \o t, c) = s \o Append(t, c)
<1>1. <<c>> \in Seq(Sym) /\ s \o t \in Seq(Sym)
  OBVIOUS
<1>2. Append(s \o t, c) = (s \o t) \o <<c>> /\ Append(t, c) = t \o <<c>>
  BY <1>1, AppendIsConcat, Zenon
<1>3. (s \o t) \o <<c>> = s \o (t \o <<c>>)
  BY <1>1, ConcatAssociative
<1>4. QED
  BY <1>2, <1>3, Zenon

-----------------------------------------------------------------------------
(* Each step is one of the terminal's, or none.                            *)

\* What is ready and what is edited, as segments.
LEMMA Bars ==
  ASSUME NEW b \in Ring, NEW x \in Index, NEW y \in Index
  PROVE  [i \in 1..Minus(y, x) |-> b[Slot(Plus(x, i - 1))]] = Seg(b, x, Minus(y, x))
  BY Distance, SegmentIs, Zenon DEF Index

LEMMA Lengths ==
  ASSUME RingInv
  PROVE  /\ Segment(r, w) = Seg(buf, r, Minus(w, r)) /\ Segment(w, e) = Seg(buf, w, Minus(e, w))
         /\ Segment(r, w) \in Seq(Sym) /\ Segment(w, e) \in Seq(Sym)
         /\ Len(Segment(r, w)) = Minus(w, r) /\ Len(Segment(w, e)) = Minus(e, w)
         /\ Minus(w, r) \in Nat /\ Minus(e, w) \in Nat /\ Minus(e, r) \in Nat
         /\ buf \in Ring /\ r \in Index /\ w \in Index /\ e \in Index
         /\ r \in Int /\ w \in Int /\ e \in Int
<1>1. buf \in Ring /\ r \in Index /\ w \in Index /\ e \in Index
  BY Zenon DEF RingInv
<1>2. r \in Int /\ w \in Int /\ e \in Int
  BY <1>1 DEF Index
<1>3. Minus(w, r) \in Nat /\ Minus(e, w) \in Nat /\ Minus(e, r) \in Nat
  BY <1>1, Distance, Zenon
<1>4. Segment(r, w) = Seg(buf, r, Minus(w, r)) /\ Segment(w, e) = Seg(buf, w, Minus(e, w))
  BY <1>1, Bars, Zenon DEF Segment
<1>5. QED
  BY <1>1, <1>2, <1>3, <1>4, SegType

\* A character that is stored.
LEMMA PutRefines ==
  ASSUME RingInv, NEW key \in Stored \cup {"\r"}, Put(key)
  PROVE  RingInv' /\ \E c \in Stored : Promise!Type(c)
<1> DEFINE c == IF key = "\r" THEN Newline ELSE key
           A == Minus(w, r)
           B == Minus(e, w)
           C == Minus(e, r)
<1>1. c \in Stored /\ c \in Sym
  BY Zenon DEF Stored, Sym
<1>2. /\ C < INPUT_BUF /\ buf' = [buf EXCEPT ![Slot(e)] = c] /\ e' = Plus(e, 1) /\ r' = r
      /\ target' = target /\ dst' = dst /\ killed' = killed
      /\ \/ (c \in {Newline, CtrlD} \/ e' = Plus(r, INPUT_BUF)) /\ w' = e'
         \/ ~(c \in {Newline, CtrlD} \/ e' = Plus(r, INPUT_BUF)) /\ w' = w
  BY Zenon DEF Put, Entered, call
<1> HIDE DEF c
<1>3. /\ buf \in Ring /\ r \in Index /\ w \in Index /\ e \in Index
      /\ r \in Int /\ w \in Int /\ e \in Int
      /\ A \in Nat /\ B \in Nat /\ C \in Nat
  BY Lengths, Zenon
<1>4. C = A + B
  BY Zenon DEF RingInv
<1>5. /\ e' \in Index /\ Minus(e', r) = C + 1 /\ Minus(e', w) = B + 1
      /\ e' = Plus(r, INPUT_BUF) <=> C + 1 = INPUT_BUF
  BY <1>2, <1>3, <1>4, IndexPut
<1>6. r + C \in Int /\ w + B \in Int /\ r + A \in Int
  BY <1>3
<1>7. /\ Slot(e) = Slot(r + C) /\ Slot(e) = Slot(w + B)
      /\ w = r + A \/ w = (r + A) - WORD
  <2>1. e = r + C \/ e = (r + C) - WORD
    BY <1>3, Distance, Zenon
  <2>2. e = w + B \/ e = (w + B) - WORD
    BY <1>3, Distance, Zenon
  <2>3. w = r + A \/ w = (r + A) - WORD
    BY <1>3, Distance, Zenon
  <2>4. QED
    BY <1>6, <2>1, <2>2, <2>3, SlotWrap, Zenon
<1> HIDE DEF A, B, C
<1>8. /\ buf' \in Ring /\ Seg(buf', r, A) = Seg(buf, r, A)
      /\ Seg(buf', r, C + 1) = Append(Seg(buf, r, C), c)
  <2> DEFINE d == With(buf, r + C, c)
  <2>1. A <= C
    BY <1>3, <1>4
  <2>2. d \in Ring /\ (\A n \in Nat : n <= C => Seg(d, r, n) = Seg(buf, r, n))
        /\ Seg(d, r, C + 1) = Append(Seg(buf, r, C), c)
    <3>1. buf \in Ring /\ r \in Int /\ C \in Nat /\ c \in Sym /\ C < INPUT_BUF
      BY <1>1, <1>2, <1>3, Zenon
    <3>2. QED
      BY <3>1, SegPut, Zenon
  <2>3. buf' = d
    BY <1>2, <1>7, Zenon DEF With
  <2> HIDE DEF d
  <2>4. QED
    BY <1>3, <2>1, <2>2, <2>3, Zenon
<1>9. Seg(buf', w, B + 1) = Append(Seg(buf, w, B), c)
  <2> DEFINE d == With(buf, w + B, c)
  <2>1. B < INPUT_BUF
    BY <1>2, <1>3, <1>4, Sizes
  <2>2. Seg(d, w, B + 1) = Append(Seg(buf, w, B), c)
    <3>1. buf \in Ring /\ w \in Int /\ B \in Nat /\ c \in Sym
      BY <1>1, <1>3, Zenon
    <3>2. QED
      BY <2>1, <3>1, SegPut, Zenon
  <2>3. buf' = d
    BY <1>2, <1>7, Zenon DEF With
  <2> HIDE DEF d
  <2>4. QED
    BY <2>2, <2>3, Zenon
<1>10. Seg(buf, r, C) = Seg(buf, r, A) \o Seg(buf, w, B)
  <2>1. Seg(buf, r, A) \o Seg(buf, r + A, B) = Seg(buf, r, C)
    BY <1>3, <1>4, SegConcat
  <2>2. Seg(buf, w, B) = Seg(buf, r + A, B)
    <3>1. buf \in Ring /\ w \in Int /\ r + A \in Int /\ B \in Nat
      BY <1>3, <1>6, Zenon
    <3>2. QED
      BY <3>1, <1>7, SegShift, Zenon
  <2>3. QED
    BY <2>1, <2>2, Zenon
<1>11. /\ Segment(r, w) = Seg(buf, r, A) /\ Segment(w, e) = Seg(buf, w, B)
       /\ Segment(r, w) \in Seq(Sym) /\ Segment(w, e) \in Seq(Sym)
       /\ Len(Segment(r, w)) = A /\ Len(Segment(w, e)) = B
  BY Lengths, Zenon DEF A, B
<1>12. w' \in Index /\ r' \in Index
  BY <1>2, <1>3, <1>5, Zenon
<1>13. /\ Segment(r, w)' = Seg(buf', r', Minus(w', r'))
       /\ Segment(w, e)' = Seg(buf', w', Minus(e', w'))
  BY <1>5, <1>8, <1>12, Bars, Zenon DEF Segment
<1>14. CASE (c \in {Newline, CtrlD} \/ e' = Plus(r, INPUT_BUF)) /\ w' = e'
  <2>1. Minus(e', w') = 0 /\ Minus(w', r') = C + 1 /\ Minus(e', r') = C + 1
    BY <1>2, <1>5, <1>14, Distance, Zenon
  <2>2. RingInv'
    <3>1. Minus(e', r') = Minus(w', r') + Minus(e', w') /\ Minus(e', r') <= INPUT_BUF
      BY <2>1, <1>2, <1>3, Sizes
    <3>2. \A i \in 1..Minus(e', w') : buf'[Slot(w' + (i - 1))] /= Newline
      BY <2>1
    <3>3. QED
      BY <3>1, <3>2, <1>5, <1>8, <1>12, Zenon
        DEF RingInv, Ring, Index, Minus, Slot, Sym, Stored, Newline, CtrlD
  <2>3. Segment(r, w)' = Segment(r, w) \o Append(Segment(w, e), c)
    <3>1. Segment(r, w)' = Append(Segment(r, w) \o Segment(w, e), c)
      BY <1>2, <1>8, <1>10, <1>11, <1>13, <2>1, Zenon
    <3>2. Append(Segment(r, w) \o Segment(w, e), c) = Segment(r, w) \o Append(Segment(w, e), c)
      BY <1>1, <1>11, AppendConcat
    <3>3. QED
      BY <3>1, <3>2, Zenon
  <2>4. Segment(w, e)' = <<>>
    BY <1>13, <2>1, NoSeg, Zenon
  <2>5. Promise!Type(c)
    BY <1>2, <1>4, <1>5, <1>11, <1>14, <2>3, <2>4
      DEF Promise!Type, Promise!Newline, Promise!EndOfFile, Newline, CtrlD
  <2>6. QED
    BY <1>1, <2>2, <2>5, Zenon
<1>15. CASE ~(c \in {Newline, CtrlD} \/ e' = Plus(r, INPUT_BUF)) /\ w' = w
  <2>1. Minus(e', w') = B + 1 /\ Minus(w', r') = A /\ Minus(e', r') = C + 1
    BY <1>2, <1>5, <1>15, Zenon DEF A
  <2>2. Segment(w, e)' = Append(Segment(w, e), c) /\ Segment(r, w)' = Segment(r, w)
    BY <1>2, <1>8, <1>9, <1>11, <1>13, <1>15, <2>1
  <2>3. ASSUME NEW i \in 1..(B + 1)
        PROVE  buf'[Slot(w + (i - 1))] /= Newline
    <3>1. i \in 1..B => buf[Slot(w + (i - 1))] /= Newline
      BY Zenon DEF RingInv, B
    <3>2. buf'[Slot(w + (i - 1))] = Append(Seg(buf, w, B), c)[i]
      BY <1>9, Zenon DEF Seg
    <3>3. CASE i \in 1..B
      <4>1. Append(Seg(buf, w, B), c)[i] = Seg(buf, w, B)[i]
        BY <3>3, <1>1, <1>3, <1>11
      <4>2. Seg(buf, w, B)[i] = buf[Slot(w + (i - 1))]
        BY <3>3, Zenon DEF Seg
      <4>3. QED
        BY <3>1, <3>2, <3>3, <4>1, <4>2
    <3>4. CASE i = B + 1
      <4>1. Append(Seg(buf, w, B), c)[i] = c
        BY <3>4, <1>1, <1>3, <1>11
      <4>2. QED
        BY <3>2, <4>1, <1>15
    <3>5. QED
      BY <3>3, <3>4, <1>3
  <2>4. RingInv'
    <3>1. Minus(e', r') = Minus(w', r') + Minus(e', w') /\ Minus(e', r') <= INPUT_BUF
      BY <2>1, <1>2, <1>3, <1>4, Sizes
    <3>2. \A i \in 1..Minus(e', w') : buf'[Slot(w' + (i - 1))] /= Newline
      BY <1>15, <2>1, <2>3, Zenon
    <3>3. QED
      BY <3>1, <3>2, <1>5, <1>8, <1>12
        DEF RingInv, Ring, Index, Minus, Slot, Sym, Stored, Newline, CtrlD
  <2>5. Promise!Type(c)
    BY <1>2, <1>4, <1>5, <1>11, <1>15, <2>2
      DEF Promise!Type, Promise!Newline, Promise!EndOfFile, Newline, CtrlD
  <2>6. QED
    BY <1>1, <2>4, <2>5, Zenon
<1>16. QED
  BY <1>2, <1>14, <1>15, Zenon

\* The edit index moves back.
LEMMA BackRing ==
  ASSUME RingInv, NEW k \in 0..Minus(e, w), e' = Minus(e, k), buf' = buf, r' = r, w' = w
  PROVE  /\ RingInv' /\ Segment(r, w)' = Segment(r, w)
         /\ Segment(w, e)' = Seg(buf, w, Minus(e, w) - k)
<1>1. /\ buf \in Ring /\ r \in Index /\ w \in Index /\ e \in Index
      /\ Minus(e, w) \in Nat /\ Minus(e, r) \in Nat
  BY Lengths, Zenon
<1>2. Minus(e, r) = Minus(w, r) + Minus(e, w) /\ Minus(e, r) <= INPUT_BUF
  BY Zenon DEF RingInv
<1>3. e' \in Index /\ Minus(e', w) = Minus(e, w) - k /\ Minus(e', r) = Minus(e, r) - k
  BY <1>1, <1>2, IndexBack
<1>4. Segment(w, e)' = Seg(buf, w, Minus(e, w) - k)
  <2>1. Segment(w, e)' = [i \in 1..Minus(e', w) |-> buf[Slot(Plus(w, i - 1))]]
    BY Zenon DEF Segment, Minus, Slot, Plus
  <2>2. [i \in 1..Minus(e', w) |-> buf[Slot(Plus(w, i - 1))]] = Seg(buf, w, Minus(e', w))
    BY <1>1, <1>3, Bars, Zenon
  <2>3. QED
    BY <1>3, <2>1, <2>2, Zenon
<1>5. Segment(r, w)' = Segment(r, w)
  BY Zenon DEF Segment
<1>6. RingInv'
  <2>1. Minus(w, r) \in Nat
    BY <1>1, Distance, Zenon
  <2>2. Minus(e', r') = Minus(w', r') + Minus(e', w') /\ Minus(e', r') <= INPUT_BUF
    BY <1>1, <1>2, <1>3, <2>1, Sizes
  <2>3. ASSUME NEW i \in 1..Minus(e', w')
        PROVE  buf'[Slot(w' + (i - 1))] /= Newline
    <3>1. i \in 1..Minus(e, w)
      BY <1>1, <1>3
    <3>2. QED
      BY <3>1, Zenon DEF RingInv
  <2>4. QED
    BY <1>1, <1>3, <2>2, <2>3, Zenon
      DEF RingInv, Ring, Index, Minus, Slot, Sym, Stored, Newline, CtrlD
<1>7. QED
  BY <1>4, <1>5, <1>6, Zenon

\* ^U takes back the line.
LEMMA CtrlURefines ==
  ASSUME RingInv, CtrlU
  PROVE  RingInv' /\ Promise!EraseLine
<1> DEFINE B == Minus(e, w)
<1>1. PICK k \in 0..B : /\ k = B \/ buf[Slot(Minus(e, k + 1))] = Newline
                        /\ e' = Minus(e, k)
  BY Zenon DEF CtrlU
<1>2. buf' = buf /\ r' = r /\ w' = w /\ target' = target /\ dst' = dst /\ killed' = killed
  BY Zenon DEF CtrlU, call
<1>3. w \in Index /\ e \in Index /\ B \in Nat /\ B \in Index /\ w \in Int /\ e \in Int
  BY Lengths, Distance, Zenon
<1>4. k = B
  <2>1. SUFFICES ASSUME k /= B
                 PROVE  FALSE
    BY Zenon
  <2> DEFINE j == k + 1
             i == B - k
  <2>2. e = w + B \/ e = (w + B) - WORD
    BY <1>3, Distance, Zenon
  <2> HIDE DEF B
  <2>3. j \in Index /\ i \in 1..B /\ e - j \in Int /\ w + (i - 1) \in Int
        /\ (e - j = w + (i - 1) \/ e - j = (w + (i - 1)) - WORD)
    BY <1>3, <2>1, <2>2, Sizes DEF Index
  <2> HIDE DEF i, j
  <2>4. Slot(Minus(e, j)) = Slot(e - j)
    BY <1>3, <2>3, SlotPlus, Zenon DEF Index
  <2>5. Slot(e - j) = Slot(w + (i - 1))
    BY <2>3, SlotWrap, Zenon
  <2>6. buf[Slot(w + (i - 1))] /= Newline
    BY <2>3, Zenon DEF RingInv, B
  <2>7. buf[Slot(Minus(e, j))] = Newline
    BY <1>1, <2>1, Zenon DEF j
  <2>8. QED
    BY <2>4, <2>5, <2>6, <2>7, Zenon
<1>5. RingInv' /\ Segment(r, w)' = Segment(r, w) /\ Segment(w, e)' = Seg(buf, w, B - k)
  BY <1>1, <1>2, BackRing, Zenon
<1>6. B - k = 0
  BY <1>3, <1>4
<1>7. Segment(w, e)' = <<>>
  BY <1>5, <1>6, NoSeg, Zenon
<1>8. QED
  BY <1>2, <1>5, <1>7, Zenon DEF Promise!EraseLine

\* Backspace takes back a character of the line.
LEMMA BackspaceRefines ==
  ASSUME RingInv, Backspace
  PROVE  RingInv' /\ Promise!Erase
<1> DEFINE B == Minus(e, w)
<1>1. /\ e /= w /\ e' = Minus(e, 1) /\ buf' = buf /\ r' = r /\ w' = w
      /\ target' = target /\ dst' = dst /\ killed' = killed
  BY Zenon DEF Backspace, call
<1>2. /\ buf \in Ring /\ w \in Index /\ e \in Index /\ w \in Int /\ B \in Nat
      /\ Segment(w, e) = Seg(buf, w, B) /\ Len(Segment(w, e)) = B
  BY Lengths, Zenon
<1>3. B /= 0
  BY <1>1, <1>2, Distance, Zenon
<1>4. 1 \in 0..B /\ B \in Nat \ {0}
  BY <1>2, <1>3
<1>5. RingInv' /\ Segment(r, w)' = Segment(r, w) /\ Segment(w, e)' = Seg(buf, w, B - 1)
  BY <1>1, <1>4, BackRing, Zenon
<1>6. Segment(w, e)' = SubSeq(Segment(w, e), 1, Len(Segment(w, e)) - 1) /\ Segment(w, e) /= <<>>
  BY <1>2, <1>4, <1>5, SegFront, SegTake
<1>7. QED
  BY <1>1, <1>5, <1>6, Zenon DEF Promise!Erase

\* The read index moves on.
LEMMA TakeRing ==
  ASSUME RingInv, r /= w, r' = Plus(r, 1), buf' = buf, w' = w, e' = e
  PROVE  /\ RingInv' /\ Segment(w, e)' = Segment(w, e)
         /\ Segment(r, w)' = Tail(Segment(r, w))
<1> DEFINE A == Minus(w, r)
<1>1. /\ buf \in Ring /\ r \in Index /\ w \in Index /\ e \in Index /\ r \in Int
      /\ Segment(r, w) = Seg(buf, r, A) /\ Minus(e, w) \in Nat /\ Minus(e, r) \in Nat
  BY Lengths, Zenon
<1>2. Minus(e, r) = A + Minus(e, w) /\ Minus(e, r) <= INPUT_BUF
  BY Zenon DEF RingInv
<1>3. r' \in Index /\ A \in Nat \ {0} /\ Minus(w, r') = A - 1 /\ Minus(e, r') = Minus(e, r) - 1
  BY <1>1, <1>2, IndexTake, Zenon
<1>4. Segment(r, w)' = Seg(buf, r', A - 1)
  <2>1. Segment(r, w)' = [i \in 1..Minus(w, r') |-> buf[Slot(Plus(r', i - 1))]]
    BY Zenon DEF Segment, Minus, Slot, Plus
  <2>2. [i \in 1..Minus(w, r') |-> buf[Slot(Plus(r', i - 1))]] = Seg(buf, r', Minus(w, r'))
    BY <1>1, <1>3, Bars, Zenon
  <2>3. QED
    BY <1>3, <2>1, <2>2, Zenon
<1>5. Seg(buf, r', A - 1) = Seg(buf, r + 1, A - 1)
  <2>1. r' = r + 1 \/ r' = (r + 1) - WORD
    <3>1. 1 \in Index
      BY Sizes DEF Index
    <3>2. QED
      BY <1>1, <3>1, Forward, Zenon
  <2>2. r' \in Int /\ r + 1 \in Int /\ A - 1 \in Nat
    BY <1>1, <1>3 DEF Index
  <2>3. QED
    BY <1>1, <2>1, <2>2, SegShift
<1>6. Tail(Segment(r, w)) = Seg(buf, r + 1, A - 1)
  BY <1>1, <1>3, SegTake
<1>7. Segment(w, e)' = Segment(w, e)
  BY Zenon DEF Segment
<1>8. RingInv'
  <2>1. Minus(e', r') = Minus(w', r') + Minus(e', w') /\ Minus(e', r') <= INPUT_BUF
    BY <1>1, <1>2, <1>3, Sizes
  <2>2. \A i \in 1..Minus(e', w') : buf'[Slot(w' + (i - 1))] /= Newline
    BY Zenon DEF RingInv
  <2>3. QED
    BY <1>1, <1>3, <2>1, <2>2, Zenon
      DEF RingInv, Ring, Index, Minus, Slot, Sym, Stored, Newline, CtrlD
<1>9. QED
  BY <1>4, <1>5, <1>6, <1>7, <1>8, Zenon

\* What a reader finds.
LEMMA ReadyHead ==
  ASSUME RingInv
  PROVE  /\ r = w => Segment(r, w) = <<>>
         /\ r /= w => Segment(r, w) /= <<>> /\ Head(Segment(r, w)) = buf[Slot(r)]
<1>1. /\ buf \in Ring /\ r \in Index /\ w \in Index /\ r \in Int
      /\ Segment(r, w) = Seg(buf, r, Minus(w, r)) /\ Minus(w, r) \in Nat
  BY Lengths, Zenon
<1>2. Minus(w, r) = 0 <=> r = w
  BY <1>1, Distance, Zenon
<1>3. r = w => Segment(r, w) = <<>>
  BY <1>1, <1>2, NoSeg, Zenon
<1>4. ASSUME r /= w
      PROVE  Segment(r, w) /= <<>> /\ Head(Segment(r, w)) = buf[Slot(r)]
  <2>1. Minus(w, r) \in Nat \ {0}
    BY <1>1, <1>2, <1>4, Zenon
  <2>2. QED
    BY <1>1, <2>1, SegTake
<1>5. QED
  BY <1>3, <1>4, Zenon

\* The ring as it is.
LEMMA QuietRing ==
  ASSUME RingInv, UNCHANGED input
  PROVE  RingInv' /\ Segment(r, w)' = Segment(r, w) /\ Segment(w, e)' = Segment(w, e)
<1>1. buf' = buf /\ r' = r /\ w' = w /\ e' = e
  BY Zenon DEF input
<1>2. RingInv'
  BY <1>1, Zenon DEF RingInv, Ring, Index, Minus, Slot, Sym, Stored, Newline, CtrlD
<1>3. QED
  BY <1>1, <1>2, Zenon DEF Segment

-----------------------------------------------------------------------------
(* The refinement.                                                         *)

TerminalInv == Inv /\ RingInv /\ CallInv
barVars == <<Segment(r, w), Segment(w, e), target, dst, killed>>

LEMMA InitRefines ==
  ASSUME Init
  PROVE  TerminalInv /\ Promise!Init
<1>1. buf \in Ring
  BY Zenon DEF Init, Ring, Sym
<1>2. 0 \in Index
  BY Sizes DEF Index
<1>3. Minus(0, 0) = 0
  BY <1>2, Distance, Zenon
<1>4. RingInv
  <2>1. r = 0 /\ w = 0 /\ e = 0
    BY Zenon DEF Init
  <2>2. QED
    BY <1>1, <1>2, <1>3, <2>1, Sizes DEF RingInv
<1>5. CallInv
  <2>1. <<>> \in Seq(Sym)
    OBVIOUS
  <2>2. target = [p \in Reader |-> 0] /\ dst = [p \in Reader |-> <<>>] /\ pc = [p \in Reader |-> "user"]
    BY Zenon DEF Init
  <2>3. QED
    BY <2>1, <2>2, Zenon DEF CallInv
<1>6. Segment(r, w) = <<>> /\ Segment(w, e) = <<>>
  BY <1>3 DEF Init, Segment
<1>7. Promise!Init
  BY <1>6, Zenon DEF Init, Promise!Init
<1>8. QED
  BY <1>4, <1>5, <1>7, InitInv, Zenon DEF TerminalInv

\* Steps that leave the calls as they are, except that sleepers are woken.
LEMMA QuietCalls ==
  ASSUME Inv, CallInv, target' = target, dst' = dst,
         \A p \in Reader : pc'[p] = pc[p] \/ (pc[p] /= "user" /\ pc'[p] /= "user")
  PROVE  CallInv'
  BY Zenon DEF CallInv, Sym, Stored, Newline, CtrlD

\* consoleintr() is typing.
LEMMA IntrRefines ==
  ASSUME TerminalInv, Consoleintr
  PROVE  RingInv' /\ CallInv' /\ Promise!Next
<1>1. RingInv' /\ Promise!Next
  <2>1. CASE CtrlU
    BY <2>1, CtrlURefines, Zenon DEF TerminalInv, Promise!Next
  <2>2. CASE Backspace
    BY <2>2, BackspaceRefines, Zenon DEF TerminalInv, Promise!Next
  <2>3. ASSUME NEW key \in Stored \cup {"\r"}, Put(key)
        PROVE  RingInv' /\ Promise!Next
    <3>1. RingInv' /\ \E c \in Stored : Promise!Type(c)
      BY <2>3, PutRefines, Zenon DEF TerminalInv
    <3>2. Stored = Char \cup {Promise!Newline, Promise!EndOfFile}
      BY Zenon DEF Stored, Newline, CtrlD, Promise!Newline, Promise!EndOfFile
    <3>3. QED
      BY <3>1, <3>2, Zenon DEF Promise!Next
  <2>4. QED
    BY <2>1, <2>2, <2>3, Zenon DEF Consoleintr
<1>2. CallInv'
  <2>1. target' = target /\ dst' = dst /\ (pc' = pc \/ pc' = Woken)
    BY Zenon DEF Consoleintr, CtrlU, Backspace, Put, call
  <2>2. \A p \in Reader : pc'[p] = pc[p] \/ (pc[p] /= "user" /\ pc'[p] /= "user")
    BY <2>1, Zenon DEF Woken
  <2>3. QED
    BY <2>1, <2>2, QuietCalls, Zenon DEF TerminalInv
<1>3. QED
  BY <1>1, <1>2, Zenon

\* A reader's call has asked for something.
LEMMA Asked ==
  ASSUME TerminalInv, NEW p \in Reader, pc[p] /= "user"
  PROVE  target[p] \in Nat /\ target[p] > 0
<1>1. target[p] \in Nat /\ target[p] /= 0
  BY Zenon DEF TerminalInv, CallInv
<1>2. QED
  BY <1>1

\* A call ends.
LEMMA ReturnCalls ==
  ASSUME TerminalInv, NEW p \in Reader, Return(p)
  PROVE  CallInv'
<1>1. pc' = [pc EXCEPT ![p] = "user"] /\ target' = [target EXCEPT ![p] = 0] /\ dst' = dst
  BY Zenon DEF Return, Goto
<1>2. pc \in [Reader -> {"user", "acquire", "loop", "sleep", "sleeping"}] /\ target \in [Reader -> Nat]
  BY Zenon DEF TerminalInv, Inv, PcOK, CallInv
<1>3. target' \in [Reader -> Nat]
  BY <1>1, <1>2, Zenon
<1>4. \A q \in Reader : pc'[q] = "user" <=> target'[q] = 0
  BY <1>1, <1>2, Zenon DEF TerminalInv, CallInv
<1>5. QED
  BY <1>1, <1>3, <1>4, Zenon DEF TerminalInv, CallInv, Sym, Stored, Newline, CtrlD

\* The steps of consoleread() that end the call.
LEMMA ReturnRefines ==
  ASSUME TerminalInv, NEW p \in Reader, ReturnDone(p) \/ TakeMark(p) \/ ReturnKilled(p)
  PROVE  RingInv' /\ CallInv' /\ Promise!Return(p)
<1>1. pc[p] = "loop" /\ Return(p)
  BY Zenon DEF ReturnDone, TakeMark, ReturnKilled
<1>2. target' = [target EXCEPT ![p] = 0] /\ dst' = dst /\ killed' = killed
  BY <1>1, Zenon DEF Return
<1>3. CallInv'
  BY <1>1, ReturnCalls, Zenon
<1>4. target[p] > 0
  BY <1>1, Asked, Zenon
<1>5. Done(p) <=> Promise!Complete(p)
  BY Zenon DEF Done, Promise!Complete, Newline, Promise!Newline
<1>6. CASE ReturnDone(p)
  <2>1. RingInv' /\ Segment(r, w)' = Segment(r, w) /\ Segment(w, e)' = Segment(w, e)
    BY <1>6, QuietRing, Zenon DEF ReturnDone, TerminalInv
  <2>2. Promise!Complete(p)
    BY <1>5, <1>6, Zenon DEF ReturnDone
  <2>3. QED
    BY <1>2, <1>3, <1>4, <2>1, <2>2, Zenon DEF Promise!Return
<1>7. CASE ReturnKilled(p)
  <2>1. RingInv' /\ Segment(r, w)' = Segment(r, w) /\ Segment(w, e)' = Segment(w, e)
    BY <1>7, QuietRing, Zenon DEF ReturnKilled, TerminalInv
  <2>2. killed[p] /\ Segment(r, w) = <<>>
    BY <1>7, ReadyHead, Zenon DEF ReturnKilled, TerminalInv
  <2>3. QED
    BY <1>2, <1>3, <1>4, <2>1, <2>2, Zenon DEF Promise!Return
<1>8. CASE TakeMark(p)
  <2>1. /\ ~Promise!Complete(p) /\ r /= w /\ buf[Slot(r)] = CtrlD
        /\ buf' = buf /\ w' = w /\ e' = e
        /\ r' = IF dst[p] /= <<>> THEN r ELSE Plus(r, 1)
    BY <1>5, <1>8, Zenon DEF TakeMark
  <2>2. Segment(r, w) /= <<>> /\ Head(Segment(r, w)) = Promise!EndOfFile
    BY <2>1, ReadyHead, Zenon DEF TerminalInv, CtrlD, Promise!EndOfFile
  <2>3. CASE dst[p] /= <<>>
    <3>1. UNCHANGED input
      BY <2>1, <2>3, Zenon DEF input
    <3>2. RingInv' /\ Segment(r, w)' = Segment(r, w) /\ Segment(w, e)' = Segment(w, e)
      BY <3>1, QuietRing, Zenon DEF TerminalInv
    <3>3. QED
      BY <1>2, <1>3, <1>4, <2>1, <2>2, <2>3, <3>2, Zenon DEF Promise!Return
  <2>4. CASE dst[p] = <<>>
    <3>1. RingInv' /\ Segment(w, e)' = Segment(w, e) /\ Segment(r, w)' = Tail(Segment(r, w))
      BY <2>1, <2>4, TakeRing, Zenon DEF TerminalInv
    <3>2. QED
      BY <1>2, <1>3, <1>4, <2>1, <2>2, <2>4, <3>1 DEF Promise!Return
  <2>5. QED
    BY <2>3, <2>4, Zenon
<1>9. QED
  BY <1>6, <1>7, <1>8, Zenon

\* A character is delivered.
LEMMA TakeRefines ==
  ASSUME TerminalInv, NEW p \in Reader, Take(p)
  PROVE  RingInv' /\ CallInv' /\ Promise!Deliver(p)
<1>1. /\ pc[p] = "loop" /\ ~Done(p) /\ r /= w /\ buf[Slot(r)] /= CtrlD
      /\ r' = Plus(r, 1) /\ buf' = buf /\ w' = w /\ e' = e
      /\ dst' = [dst EXCEPT ![p] = Append(@, buf[Slot(r)])]
      /\ pc' = pc /\ target' = target /\ killed' = killed
  BY Zenon DEF Take
<1>2. RingInv' /\ Segment(w, e)' = Segment(w, e) /\ Segment(r, w)' = Tail(Segment(r, w))
  BY <1>1, TakeRing, Zenon DEF TerminalInv
<1>3. Segment(r, w) /= <<>> /\ Head(Segment(r, w)) = buf[Slot(r)]
  BY <1>1, ReadyHead, Zenon DEF TerminalInv
<1>4. target[p] > 0
  BY <1>1, Asked, Zenon
<1>5. ~Promise!Complete(p)
  BY <1>1, Zenon DEF Done, Promise!Complete, Newline, Promise!Newline
<1>6. Promise!Deliver(p)
  BY <1>1, <1>2, <1>3, <1>4, <1>5, Zenon DEF Promise!Deliver, CtrlD, Promise!EndOfFile
<1>7. CallInv'
  <2>1. r \in Int /\ buf \in Ring
    BY Lengths, Zenon DEF TerminalInv
  <2>2. buf[Slot(r)] \in Sym
    BY <2>1, SlotWrap, Zenon DEF Ring
  <2>3. dst' \in [Reader -> Seq(Sym)]
    BY <1>1, <2>2 DEF TerminalInv, CallInv
  <2>4. QED
    BY <1>1, <2>3, Zenon DEF TerminalInv, CallInv, Sym, Stored, Newline, CtrlD
<1>8. QED
  BY <1>2, <1>6, <1>7, Zenon

\* The other steps of a reader do not show, except for the call and for kill().
LEMMA OtherRefines ==
  ASSUME TerminalInv, NEW p \in Reader, Acquire(p) \/ Check(p) \/ Sleep(p) \/ Call(p) \/ Kill(p)
  PROVE  RingInv' /\ CallInv' /\ [Promise!Next]_barVars
<1>1. UNCHANGED input
  BY Zenon DEF Acquire, Check, Sleep, Call, Kill
<1>2. RingInv' /\ Segment(r, w)' = Segment(r, w) /\ Segment(w, e)' = Segment(w, e)
  BY <1>1, QuietRing, Zenon DEF TerminalInv
<1>3. pc \in [Reader -> {"user", "acquire", "loop", "sleep", "sleeping"}]
  BY Zenon DEF TerminalInv, Inv, PcOK
<1>4. CASE Acquire(p) \/ Check(p) \/ Sleep(p)
  <2>1. target' = target /\ dst' = dst /\ killed' = killed
    BY <1>4, Zenon DEF Acquire, Check, Sleep, call
  <2>2. pc[p] /= "user" /\ \E l \in {"loop", "sleep", "sleeping"} : pc' = [pc EXCEPT ![p] = l]
    BY <1>4, Zenon DEF Acquire, Check, Sleep, Goto
  <2>3. \A q \in Reader : pc'[q] = pc[q] \/ (pc[q] /= "user" /\ pc'[q] /= "user")
    BY <1>3, <2>2, Zenon
  <2>4. CallInv'
    BY <2>1, <2>3, QuietCalls, Zenon DEF TerminalInv
  <2>5. QED
    BY <1>2, <2>1, <2>4, Zenon DEF barVars
<1>5. CASE Call(p)
  <2>1. PICK n \in 1..MaxRead : target' = [target EXCEPT ![p] = n]
    BY <1>5, Zenon DEF Call
  <2>2. /\ pc[p] = "user" /\ pc' = [pc EXCEPT ![p] = "acquire"]
        /\ dst' = [dst EXCEPT ![p] = <<>>] /\ killed' = killed
    BY <1>5, Zenon DEF Call, Goto
  <2>3. target[p] = 0 /\ n \in Nat \ {0}
    BY <2>2, ConsoleAssumption DEF TerminalInv, CallInv
  <2>4. target' \in [Reader -> Nat] /\ dst' \in [Reader -> Seq(Sym)]
    BY <2>1, <2>2, <2>3 DEF TerminalInv, CallInv
  <2>5. \A q \in Reader : pc'[q] = "user" <=> target'[q] = 0
    BY <1>3, <2>1, <2>2, <2>3, Zenon DEF TerminalInv, CallInv
  <2>6. CallInv'
    BY <2>4, <2>5, Zenon DEF CallInv, Sym, Stored, Newline, CtrlD
  <2>7. Promise!Call(p, n)
    BY <1>2, <2>1, <2>2, <2>3, Zenon DEF Promise!Call
  <2>8. QED
    BY <1>2, <2>1, <2>6, <2>7, Zenon DEF Promise!Next
<1>6. CASE Kill(p)
  <2>1. killed' = [killed EXCEPT ![p] = TRUE] /\ target' = target /\ dst' = dst
    BY <1>6, Zenon DEF Kill, call
  <2>2. pc' = pc \/ (pc[p] = "sleeping" /\ pc' = [pc EXCEPT ![p] = "acquire"])
    BY <1>6, Zenon DEF Kill, Goto
  <2>3. \A q \in Reader : pc'[q] = pc[q] \/ (pc[q] /= "user" /\ pc'[q] /= "user")
    BY <1>3, <2>2, Zenon
  <2>4. CallInv'
    BY <2>1, <2>3, QuietCalls, Zenon DEF TerminalInv
  <2>5. Promise!KillReader(p)
    BY <1>2, <2>1, Zenon DEF Promise!KillReader
  <2>6. QED
    BY <1>2, <2>4, <2>5, Zenon DEF Promise!Next
<1>7. QED
  BY <1>4, <1>5, <1>6, Zenon

\* Every step of the console is a step of the terminal or none.
LEMMA NextRefines ==
  ASSUME TerminalInv, [Next]_vars
  PROVE  TerminalInv' /\ [Promise!Next]_barVars
<1>1. Inv'
  BY NextInv, Zenon DEF TerminalInv
<1>2. CASE UNCHANGED vars
  <2>1. UNCHANGED input /\ pc' = pc /\ target' = target /\ dst' = dst /\ killed' = killed
    BY <1>2, Zenon DEF vars, call
  <2>2. RingInv' /\ Segment(r, w)' = Segment(r, w) /\ Segment(w, e)' = Segment(w, e)
    BY <2>1, QuietRing, Zenon DEF TerminalInv
  <2>3. CallInv'
    BY <2>1, QuietCalls, Zenon DEF TerminalInv
  <2>4. QED
    BY <1>1, <2>1, <2>2, <2>3, Zenon DEF TerminalInv, barVars
<1>3. CASE Consoleintr
  BY <1>1, <1>3, IntrRefines, Zenon DEF TerminalInv
<1>4. ASSUME NEW p \in Reader, Call(p) \/ Consoleread(p) \/ Kill(p)
      PROVE  RingInv' /\ CallInv' /\ [Promise!Next]_barVars
  <2>1. CASE ReturnDone(p) \/ TakeMark(p) \/ ReturnKilled(p)
    BY <2>1, ReturnRefines, Zenon DEF Promise!Next
  <2>2. CASE Take(p)
    BY <2>2, TakeRefines, Zenon DEF Promise!Next
  <2>3. CASE Acquire(p) \/ Check(p) \/ Sleep(p) \/ Call(p) \/ Kill(p)
    BY <2>3, OtherRefines, Zenon
  <2>4. QED
    BY <1>4, <2>1, <2>2, <2>3, Zenon DEF Consoleread
<1>5. QED
  BY <1>1, <1>2, <1>3, <1>4, Zenon DEF Next, TerminalInv

\* For every size of the ring, every width of the indices that is a multiple of
\* it and any readers, consoleintr() and consoleread() are a terminal: what is
\* typed is edited until it is entered, then read in order and once, and a call
\* returns short only at the end of a line or of the input, or when killed.
THEOREM ConsoleImplementsTerminal == Spec => ImplementsTerminal
<1>1. Init => TerminalInv /\ Promise!Init
  BY InitRefines, Zenon
<1>2. TerminalInv /\ [Next]_vars => TerminalInv' /\ [Promise!Next]_barVars
  BY NextRefines, Zenon
<1>3. QED
  BY <1>1, <1>2, PTL DEF Spec, ImplementsTerminal, Promise!Spec, Promise!vars, barVars

=============================================================================
