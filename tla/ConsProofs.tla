----------------------------- MODULE ConsProofs -----------------------------
(***************************************************************************)
(* What console.c keeps between any two steps, and that its ring is a line *)
(* editor: Console implements LineInput.  Both hold for every size of the  *)
(* ring and of the screen, and for any number of readers.                  *)
(*                                                                         *)
(* ConsInv adds to the property what makes it inductive: Held counts the   *)
(* characters of the ring through the wrap of its counters, every slot in  *)
(* use holds a character, and a call that runs still asks for one.  Views  *)
(* then reads the ring as two sequences, the finished lines and the line   *)
(* being typed, and each step of the code is seen to be one of LineInput.  *)
(***************************************************************************)
EXTENDS Console, TLAPS

-----------------------------------------------------------------------------
(* Counters modulo N, and the slots of a ring of M, where M divides N.     *)

\* A difference of two counters.
LEMMA ModDifference ==
  ASSUME NEW N \in Nat \ {0}, NEW r \in 0 .. N - 1, NEW w \in 0 .. N - 1
  PROVE  (w - r) % N = IF w >= r THEN w - r ELSE w - r + N
  OBVIOUS

\* A counter moved on, by at most one turn.
LEMMA ModSum ==
  ASSUME NEW N \in Nat \ {0}, NEW x \in 0 .. N - 1, NEW d \in 0 .. N
  PROVE  (x + d) % N = IF x + d >= N THEN x + d - N ELSE x + d
  OBVIOUS

\* A counter that wraps stays on its slot of the ring.
LEMMA WrapSlot ==
  ASSUME NEW N \in Nat \ {0}, NEW M \in Nat \ {0}, N % M = 0, NEW x \in Nat
  PROVE  (x + N) % M = x % M
  <1> DEFINE k == N \div M
             q == x \div M
             r == x % M
  <1>1. k \in Int /\ q \in Int /\ r \in 0 .. M - 1
    OBVIOUS
  <1>2. N = M * k
    OBVIOUS
  <1>3. x = M * q + r
    OBVIOUS
  <1> HIDE DEF k, q, r
  <1>4. x + N = M * (q + k) + r
    BY <1>1, <1>2, <1>3
  <1>5. (M * (q + k) + r) % M = r
    <2>1. q + k \in Int
      BY <1>1
    <2> QED
      BY <1>1, <2>1
  <1>6. (x + N) % M = r
    BY <1>4, <1>5, Zenon
  <1> QED
    BY <1>6, Zenon DEF r

\* Two positions less than M apart are two slots.
LEMMA SlotsDiffer ==
  ASSUME NEW M \in Nat \ {0}, NEW x \in Nat, NEW d \in 1 .. M - 1
  PROVE  (x + d) % M # x % M
  <1> DEFINE q == x \div M
             r == x % M
             t == (x + d) \div M
  <1>1. q \in Int /\ r \in 0 .. M - 1 /\ t \in Int
    OBVIOUS
  <1>2. x = M * q + r
    OBVIOUS
  <1>3. x + d = M * t + ((x + d) % M)
    OBVIOUS
  <1> HIDE DEF q, t
  <1> SUFFICES ASSUME (x + d) % M = r
               PROVE  FALSE
    BY Zenon
  <1>4. d = M * (t - q)
    <2>1. x + d = M * t + r
      BY <1>3, Zenon
    <2> HIDE DEF r
    <2> QED
      BY <1>1, <1>2, <2>1
  <1>5. t - q \in Int
    BY <1>1
  <1> QED
    BY <1>4, <1>5

-----------------------------------------------------------------------------
(* The counters of the console.                                            *)

Counter == 0 .. INPUTWRAP - 1

\* The sizes are numbers.
LEMMA ConsNumbers ==
  /\ INPUT_BUF \in Nat \ {0} /\ INPUTWRAP \in Nat \ {0} /\ INPUTWRAP > INPUT_BUF
  /\ INPUTWRAP % INPUT_BUF = 0
  /\ COLS \in Nat \ {0} /\ ROWS \in Nat \ {0}
  BY ConsoleAssumption

\* Plus on counters, without a remainder.
LEMMA PlusIs ==
  ASSUME NEW x \in Counter, NEW d \in 0 .. INPUTWRAP
  PROVE  /\ Plus(x, d) = IF x + d >= INPUTWRAP THEN x + d - INPUTWRAP ELSE x + d
         /\ Plus(x, d) \in Counter
<1>1. x \in 0 .. INPUTWRAP - 1 /\ INPUTWRAP \in Nat \ {0}
  BY ConsNumbers DEF Counter
<1>2. (x + d) % INPUTWRAP = IF x + d >= INPUTWRAP THEN x + d - INPUTWRAP ELSE x + d
  BY <1>1, ModSum, Zenon
<1>3. Plus(x, d) = IF x + d >= INPUTWRAP THEN x + d - INPUTWRAP ELSE x + d
  BY <1>2, Zenon DEF Plus
<1> QED BY <1>3, ConsNumbers DEF Counter

\* Minus on counters, without a remainder.
LEMMA MinusIs ==
  ASSUME NEW x \in Counter, NEW y \in Counter
  PROVE  /\ Minus(y, x) = IF y >= x THEN y - x ELSE y - x + INPUTWRAP
         /\ Minus(y, x) \in Counter
<1>1. Minus(y, x) = IF y >= x THEN y - x ELSE y - x + INPUTWRAP
  BY ConsNumbers, ModDifference DEF Minus, Counter
<1> QED BY <1>1, ConsNumbers DEF Counter

\* One after the other.
LEMMA PlusPlus ==
  ASSUME NEW x \in Counter, NEW i \in Nat, NEW j \in Nat, i + j <= INPUTWRAP
  PROVE  Plus(Plus(x, i), j) = Plus(x, i + j)
<1>1. i \in 0 .. INPUTWRAP /\ j \in 0 .. INPUTWRAP /\ i + j \in 0 .. INPUTWRAP
  BY ConsNumbers
<1> DEFINE y == Plus(x, i)
<1>2. y \in Counter /\ y = IF x + i >= INPUTWRAP THEN x + i - INPUTWRAP ELSE x + i
  BY <1>1, PlusIs
<1> HIDE DEF y
<1>3. Plus(y, j) = IF y + j >= INPUTWRAP THEN y + j - INPUTWRAP ELSE y + j
  BY <1>1, <1>2, PlusIs
<1>4. Plus(x, i + j) = IF x + (i + j) >= INPUTWRAP THEN x + (i + j) - INPUTWRAP ELSE x + (i + j)
  BY <1>1, PlusIs
<1>5. Plus(y, j) = Plus(x, i + j)
  BY <1>1, <1>2, <1>3, <1>4, ConsNumbers DEF Counter
<1> QED BY <1>5 DEF y

\* A counter is at no distance from itself.
LEMMA MinusZero ==
  ASSUME NEW x \in Counter, NEW y \in Counter
  PROVE  y = x <=> Minus(y, x) = 0
<1>1. Minus(y, x) = IF y >= x THEN y - x ELSE y - x + INPUTWRAP
  BY MinusIs, Zenon
<1> QED BY <1>1, ConsNumbers DEF Counter

\* Moving on by the distance arrives.
LEMMA PlusMinus ==
  ASSUME NEW x \in Counter, NEW y \in Counter
  PROVE  Plus(x, Minus(y, x)) = y
<1>1. /\ Minus(y, x) = IF y >= x THEN y - x ELSE y - x + INPUTWRAP
      /\ Minus(y, x) \in Counter
  BY MinusIs
<1>2. Minus(y, x) \in 0 .. INPUTWRAP
  BY <1>1, ConsNumbers DEF Counter
<1> DEFINE d == Minus(y, x)
<1> HIDE DEF d
<1>3. Plus(x, d) = IF x + d >= INPUTWRAP THEN x + d - INPUTWRAP ELSE x + d
  BY <1>2, PlusIs DEF d
<1>4. Plus(x, d) = y
  BY <1>1, <1>3, ConsNumbers DEF Counter, d
<1> QED BY <1>4 DEF d

\* A counter d ahead of another.
LEMMA MinusPlus ==
  ASSUME NEW x \in Counter, NEW d \in Counter
  PROVE  Minus(Plus(x, d), x) = d
<1>1. d \in 0 .. INPUTWRAP
  BY ConsNumbers DEF Counter
<1> DEFINE y == Plus(x, d)
<1>2. y \in Counter /\ y = IF x + d >= INPUTWRAP THEN x + d - INPUTWRAP ELSE x + d
  BY <1>1, PlusIs
<1> HIDE DEF y
<1>3. Minus(y, x) = IF y >= x THEN y - x ELSE y - x + INPUTWRAP
  BY <1>2, MinusIs
<1>4. Minus(y, x) = d
  BY <1>2, <1>3, ConsNumbers DEF Counter
<1> QED BY <1>4 DEF y

\* Positions less than INPUT_BUF apart have slots of their own.
LEMMA ConsSlots ==
  ASSUME NEW x \in Counter, NEW i \in 0 .. INPUT_BUF - 1, NEW j \in 0 .. INPUT_BUF - 1, i # j
  PROVE  Plus(x, i) % INPUT_BUF # Plus(x, j) % INPUT_BUF
<1>1. \A d \in 0 .. INPUT_BUF - 1 : Plus(x, d) % INPUT_BUF = (x + d) % INPUT_BUF
  <2>1. TAKE d \in 0 .. INPUT_BUF - 1
  <2>2. d \in 0 .. INPUTWRAP /\ x \in Nat /\ x + d \in Nat
    BY ConsNumbers DEF Counter
  <2>3. Plus(x, d) = IF x + d >= INPUTWRAP THEN x + d - INPUTWRAP ELSE x + d
    BY <2>2, PlusIs
  <2>4. CASE x + d >= INPUTWRAP
    <3> DEFINE y == x + d - INPUTWRAP
    <3>1. y \in Nat /\ y + INPUTWRAP = x + d
      BY <2>2, <2>4, ConsNumbers
    <3>2. (y + INPUTWRAP) % INPUT_BUF = y % INPUT_BUF
      BY <3>1, ConsNumbers, WrapSlot
    <3> QED BY <2>3, <2>4, <3>1, <3>2
  <2>5. CASE ~(x + d >= INPUTWRAP)
    BY <2>3, <2>5
  <2> QED BY <2>4, <2>5
<1>2. ASSUME NEW a \in 0 .. INPUT_BUF - 1, NEW b \in 0 .. INPUT_BUF - 1, a < b
      PROVE  (x + a) % INPUT_BUF # (x + b) % INPUT_BUF
  <2>1. x + a \in Nat /\ b - a \in 1 .. INPUT_BUF - 1 /\ (x + a) + (b - a) = x + b
    BY <1>2, ConsNumbers DEF Counter
  <2>2. ((x + a) + (b - a)) % INPUT_BUF # (x + a) % INPUT_BUF
    BY <2>1, ConsNumbers, SlotsDiffer, Zenon
  <2> QED BY <2>1, <2>2
<1>3. i < j \/ j < i
  OBVIOUS
<1>4. (x + i) % INPUT_BUF # (x + j) % INPUT_BUF
  BY <1>2, <1>3
<1> QED BY <1>1, <1>4
-----------------------------------------------------------------------------
(* The inductive invariant.                                                *)

\* Characters in the ring: finished and being typed.
Held == Minus(wr, rd) + Minus(ed, wr)

\* The counters keep their order within one ring, every character between
\* them was typed, and a full ring has a finished line.
ConsRing ==
  /\ buf \in [0 .. INPUT_BUF - 1 -> Chars \cup {Nul}]
  /\ rd \in Counter /\ wr \in Counter /\ ed \in Counter
  /\ Held <= INPUT_BUF
  /\ Held = INPUT_BUF => rd # wr
  /\ \A i \in 0 .. Held - 1 : At(Plus(rd, i)) \in Chars

\* Who holds the lock, that a call in progress still asks for something, and
\* that a process about to sleep, or asleep, has nothing to read.
ConsReaders ==
  /\ clock \in People \cup {Unlocked, Keyboard, Output}
  /\ cat \in [People -> {"out", "call", "run", "doze", "asleep"}]
  /\ \A p \in People : cat[p] \in {"run", "doze"} <=> clock = p
  /\ need \in [People -> Nat]
  /\ got \in [People -> Seq(Chars)]
  /\ ckilled \subseteq People
  /\ \A p \in People : cat[p] # "out" => need[p] >= 1
  /\ \A p \in People : cat[p] \in {"doze", "asleep"} => rd = wr

ConsScreen == crt \subseteq Nat /\ pos \in Nat /\ NothingPastCursor

ConsInv == ConsRing /\ ConsReaders /\ ConsScreen


\* A position of the ring has a slot.
LEMMA SlotIn ==
  ASSUME NEW x \in Counter
  PROVE  x % INPUT_BUF \in 0 .. INPUT_BUF - 1
BY ConsNumbers DEF Counter

\* How many characters the ring holds, and what the tests of the code tell.
LEMMA HeldFacts ==
  ASSUME ConsRing
  PROVE  /\ Minus(wr, rd) \in Counter /\ Minus(ed, wr) \in Counter
         /\ Held \in 0 .. INPUT_BUF
         /\ ed = Plus(rd, Held) /\ Minus(ed, rd) = Held
         /\ rd = wr <=> Minus(wr, rd) = 0
         /\ ed = wr <=> Minus(ed, wr) = 0
<1> DEFINE s == Minus(wr, rd)
           t == Minus(ed, wr)
<1>1. rd \in Counter /\ wr \in Counter /\ ed \in Counter /\ Held <= INPUT_BUF
  BY Zenon DEF ConsRing
<1>2. s \in Counter /\ t \in Counter
  BY <1>1, MinusIs, Zenon
<1>3. Held = s + t /\ s \in Nat /\ t \in Nat /\ Held \in 0 .. INPUT_BUF /\ Held \in Counter
  BY <1>1, <1>2, ConsNumbers DEF Held, Counter
<1>4. Plus(rd, s) = wr /\ Plus(wr, t) = ed
  BY <1>1, PlusMinus, Zenon
<1>5. ed = Plus(rd, Held)
  <2>1. s + t <= INPUTWRAP
    BY <1>3, ConsNumbers
  <2>2. Plus(Plus(rd, s), t) = Plus(rd, s + t)
    BY <1>1, <1>3, <2>1, PlusPlus
  <2> QED BY <1>3, <1>4, <2>2, Zenon
<1>6. Minus(ed, rd) = Held
  BY <1>1, <1>3, <1>5, MinusPlus, Zenon
<1>7. rd = wr <=> s = 0
  BY <1>1, MinusZero, Zenon
<1>8. ed = wr <=> t = 0
  BY <1>1, MinusZero, Zenon
<1> QED BY <1>2, <1>3, <1>5, <1>6, <1>7, <1>8, Zenon

\* consoleintr() stores a character: which counters move, what the slots
\* hold, and that the line is finished when the ring is full.
LEMMA Stored ==
  ASSUME ConsRing, HasRoom, NEW c \in Chars,
         buf' = [buf EXCEPT ![ed % INPUT_BUF] = c], ed' = Plus(ed, 1), UNCHANGED rd
  PROVE  /\ Held < INPUT_BUF
         /\ ed' \in Counter /\ ed' = Plus(rd, Held + 1)
         /\ Plus(ed, 1) = Plus(rd, INPUT_BUF) <=> Held + 1 = INPUT_BUF
         /\ buf' \in [0 .. INPUT_BUF - 1 -> Chars \cup {Nul}]
         /\ \A i \in 0 .. Held - 1 :
              buf'[Plus(rd, i) % INPUT_BUF] = buf[Plus(rd, i) % INPUT_BUF]
         /\ buf'[Plus(rd, Held) % INPUT_BUF] = c
<1>1. rd \in Counter /\ wr \in Counter /\ ed \in Counter
  BY Zenon DEF ConsRing
<1>2. Held \in 0 .. INPUT_BUF /\ ed = Plus(rd, Held) /\ Minus(ed, rd) = Held
  BY HeldFacts, Zenon
<1>3. Held < INPUT_BUF
  BY <1>2, Zenon DEF HasRoom
<1> DEFINE h == Held
<1> HIDE DEF h
<1>4. h \in 0 .. INPUT_BUF - 1 /\ h + 1 \in Counter /\ INPUT_BUF \in Counter
      /\ 1 \in 0 .. INPUTWRAP /\ h + 1 <= INPUTWRAP /\ h \in Nat /\ 1 \in Nat
  BY <1>2, <1>3, ConsNumbers DEF h, Counter
<1>5. ed' \in Counter /\ ed' = Plus(rd, h + 1)
  <2>1. Plus(Plus(rd, h), 1) = Plus(rd, h + 1)
    BY <1>1, <1>4, PlusPlus
  <2>2. Plus(ed, 1) \in Counter
    BY <1>1, <1>4, PlusIs, Zenon
  <2> QED BY <1>2, <2>1, <2>2, Zenon DEF h
<1>6. Plus(ed, 1) = Plus(rd, INPUT_BUF) <=> h + 1 = INPUT_BUF
  <2>1. Minus(Plus(rd, h + 1), rd) = h + 1 /\ Minus(Plus(rd, INPUT_BUF), rd) = INPUT_BUF
    BY <1>1, <1>4, MinusPlus, Zenon
  <2> QED BY <1>5, <2>1, Zenon
<1>7. ed % INPUT_BUF \in 0 .. INPUT_BUF - 1
  BY <1>1, SlotIn, Zenon
<1>8. buf \in [0 .. INPUT_BUF - 1 -> Chars \cup {Nul}]
  BY Zenon DEF ConsRing
<1>9. buf' \in [0 .. INPUT_BUF - 1 -> Chars \cup {Nul}]
  BY <1>7, <1>8, Zenon
<1>10. \A i \in 0 .. h - 1 : buf'[Plus(rd, i) % INPUT_BUF] = buf[Plus(rd, i) % INPUT_BUF]
  <2>1. TAKE i \in 0 .. h - 1
  <2>2. i \in 0 .. INPUT_BUF - 1 /\ i # h /\ i \in 0 .. INPUTWRAP
    BY <1>4, ConsNumbers
  <2>3. Plus(rd, i) % INPUT_BUF # Plus(rd, h) % INPUT_BUF
    BY <1>1, <1>4, <2>2, ConsSlots
  <2>4. Plus(rd, i) % INPUT_BUF \in 0 .. INPUT_BUF - 1
    BY <1>1, <2>2, PlusIs, SlotIn, Zenon
  <2> QED BY <1>2, <1>8, <2>3, <2>4, Zenon DEF h
<1>11. buf'[Plus(rd, h) % INPUT_BUF] = c
  BY <1>2, <1>7, <1>8, Zenon DEF h
<1> QED BY <1>3, <1>5, <1>6, <1>9, <1>10, <1>11, Zenon DEF h

\* The line ends there, or goes on.
LEMMA StoredRing ==
  ASSUME ConsRing, HasRoom, NEW c \in Chars,
         buf' = [buf EXCEPT ![ed % INPUT_BUF] = c], ed' = Plus(ed, 1), UNCHANGED rd,
         IF Finished(c) THEN wr' = ed' ELSE UNCHANGED wr
  PROVE  /\ ConsRing' /\ Held' = Held + 1
         /\ Finished(c) => Minus(wr, rd)' = Held + 1 /\ Minus(ed, wr)' = 0
         /\ ~Finished(c) => Minus(wr, rd)' = Minus(wr, rd)
                              /\ Minus(ed, wr)' = Minus(ed, wr) + 1
<1> DEFINE s == Minus(wr, rd)
           t == Minus(ed, wr)
           h == Held
<1>1. rd \in Counter /\ wr \in Counter /\ ed \in Counter
  BY Zenon DEF ConsRing
<1>2. h < INPUT_BUF /\ ed' \in Counter /\ ed' = Plus(rd, h + 1)
      /\ (Plus(ed, 1) = Plus(rd, INPUT_BUF) <=> h + 1 = INPUT_BUF)
      /\ buf' \in [0 .. INPUT_BUF - 1 -> Chars \cup {Nul}]
  BY Stored, Zenon
<1>3. s \in Counter /\ t \in Counter /\ h \in 0 .. INPUT_BUF
  BY HeldFacts, Zenon
<1>4. h = s + t
  BY Zenon DEF Held
<1>5. h + 1 \in Counter /\ t + 1 \in Counter /\ t \in Nat /\ t + 1 <= INPUTWRAP /\ 1 \in Nat
  <2> HIDE DEF h, s, t
  <2>1. s \in Nat /\ t \in Nat
    BY <1>3 DEF Counter
  <2> QED BY <1>2, <1>3, <1>4, <2>1, ConsNumbers DEF Counter
<1>6. Finished(c) => s' = h + 1 /\ t' = 0 /\ rd' # wr'
  <2>1. Minus(Plus(rd, h + 1), rd) = h + 1
    BY <1>1, <1>5, MinusPlus, Zenon
  <2>2. Minus(ed', ed') = 0
    BY <1>2, MinusIs DEF Counter
  <2>3. Minus(rd, rd) = 0
    BY <1>1, MinusIs DEF Counter
  <2>4. h + 1 # 0
    BY <1>3
  <2> HIDE DEF h
  <2>5. Finished(c) => s' = Minus(ed', rd) /\ t' = Minus(ed', ed') /\ wr' = ed'
    BY Zenon DEF Minus
  <2> QED BY <1>2, <2>1, <2>2, <2>3, <2>4, <2>5, Zenon
<1>7. ~Finished(c) => s' = s /\ t' = t + 1
  <2>1. ~Finished(c) => s' = s /\ t' = Minus(ed', wr)
    BY Zenon DEF Minus
  <2>2. Plus(wr, t) = ed
    BY <1>1, PlusMinus, Zenon
  <2>3. Plus(Plus(wr, t), 1) = Plus(wr, t + 1)
    BY <1>1, <1>5, PlusPlus
  <2>4. Minus(Plus(wr, t + 1), wr) = t + 1
    BY <1>1, <1>5, MinusPlus, Zenon
  <2> QED BY <2>1, <2>2, <2>3, <2>4, Zenon
<1>8. Held' = s' + t'
  BY Zenon DEF Held
<1>9. Held' = h + 1
  <2> HIDE DEF h, s, t
  <2>1. CASE Finished(c)
    BY <1>3, <1>6, <1>8, <2>1
  <2>2. CASE ~Finished(c)
    <3>1. s \in Int /\ t \in Int
      BY <1>3 DEF Counter
    <3> QED BY <1>4, <1>7, <1>8, <2>2, <3>1
  <2> QED BY <2>1, <2>2, Zenon
<1>10. Held' <= INPUT_BUF /\ (Held' = INPUT_BUF => Finished(c))
  <2>1. Held' <= INPUT_BUF
    BY <1>2, <1>3, <1>9, ConsNumbers
  <2> QED BY <1>2, <1>9, <2>1, Zenon DEF Finished
<1>11. \A i \in 0 .. Held' - 1 : buf'[Plus(rd, i) % INPUT_BUF] \in Chars
  <2>1. TAKE i \in 0 .. Held' - 1
  <2>2. i \in 0 .. h - 1 \/ i = h
    BY <1>3, <1>9
  <2>3. CASE i \in 0 .. h - 1
    <3>1. buf'[Plus(rd, i) % INPUT_BUF] = buf[Plus(rd, i) % INPUT_BUF]
      BY <2>3, Stored, Zenon
    <3> QED BY <2>3, <3>1, Zenon DEF ConsRing, At
  <2>4. CASE i = h
    BY <2>4, Stored, Zenon
  <2> QED BY <2>2, <2>3, <2>4, Zenon
<1>12. wr' \in Counter /\ (Finished(c) => rd' # wr')
  BY <1>1, <1>2, <1>6, Zenon
<1>13. \A i \in 0 .. Held' - 1 : At(Plus(rd, i))' \in Chars
  BY <1>11, Zenon DEF At, Plus
<1>14. ConsRing'
  BY <1>1, <1>2, <1>10, <1>12, <1>13, Zenon DEF ConsRing
<1> QED BY <1>6, <1>7, <1>9, <1>14, Zenon

\* One back from one ahead.
LEMMA MinusOne ==
  ASSUME NEW y \in Counter
  PROVE  Minus(Plus(y, 1), 1) = y
<1>1. 1 \in Counter /\ 1 \in 0 .. INPUTWRAP
  BY ConsNumbers DEF Counter
<1> DEFINE z == Plus(y, 1)
<1>2. z \in Counter /\ z = IF y + 1 >= INPUTWRAP THEN y + 1 - INPUTWRAP ELSE y + 1
  BY <1>1, PlusIs
<1> HIDE DEF z
<1>3. Minus(z, 1) = IF z >= 1 THEN z - 1 ELSE z - 1 + INPUTWRAP
  BY <1>1, <1>2, MinusIs
<1>4. Minus(z, 1) = y
  BY <1>2, <1>3, ConsNumbers DEF Counter
<1> QED BY <1>4 DEF z

\* consoleintr() takes back the last character of the line being typed.
LEMMA ErasedRing ==
  ASSUME ConsRing, ed # wr, ed' = Minus(ed, 1), UNCHANGED <<buf, rd, wr>>
  PROVE  /\ ConsRing'
         /\ Minus(wr, rd)' = Minus(wr, rd)
         /\ Minus(ed, wr) >= 1 /\ Minus(ed, wr)' = Minus(ed, wr) - 1
<1> DEFINE s == Minus(wr, rd)
           t == Minus(ed, wr)
           h == Held
<1>1. rd \in Counter /\ wr \in Counter /\ ed \in Counter
  BY Zenon DEF ConsRing
<1>2. s \in Counter /\ t \in Counter /\ h \in 0 .. INPUT_BUF /\ t # 0
  BY HeldFacts, Zenon
<1>3. h = s + t
  BY Zenon DEF Held
<1>4. s' = s
  BY Zenon DEF Minus
<1>5. Plus(wr, t) = ed
  BY <1>1, PlusMinus, Zenon
<1>6. t' = Minus(ed', wr)
  BY Zenon DEF Minus
<1>7. Held' = s' + t'
  BY Zenon DEF Held
<1> HIDE DEF s, t, h
<1>8. t \in Nat /\ s \in Nat /\ t >= 1 /\ t - 1 \in Nat /\ t - 1 \in Counter
      /\ (t - 1) + 1 = t /\ t <= INPUTWRAP /\ 1 \in Nat /\ t - 1 \in 0 .. INPUTWRAP
  BY <1>2, ConsNumbers DEF Counter
<1> DEFINE y == Plus(wr, t - 1)
<1>9. y \in Counter
  BY <1>1, <1>8, PlusIs, Zenon
<1>10. Plus(y, 1) = ed
  <2>1. (t - 1) + 1 <= INPUTWRAP
    BY <1>8
  <2>2. Plus(Plus(wr, t - 1), 1) = Plus(wr, (t - 1) + 1)
    BY <1>1, <1>8, <2>1, PlusPlus, Zenon
  <2> QED BY <1>5, <1>8, <2>2, Zenon
<1>11. Minus(y, wr) = t - 1
  BY <1>1, <1>8, MinusPlus, Zenon
<1> HIDE DEF y
<1>12. ed' = y
  BY <1>9, <1>10, MinusOne, Zenon
<1>13. t' = t - 1
  BY <1>6, <1>11, <1>12, Zenon
<1>14. Held' = h - 1 /\ Held' < INPUT_BUF /\ Held' <= INPUT_BUF /\ Held' # INPUT_BUF
  <2>1. Held' = s + (t - 1)
    BY <1>4, <1>7, <1>13, Zenon
  <2> QED BY <1>2, <1>3, <1>8, <2>1, ConsNumbers
<1>15. \A i \in 0 .. Held' - 1 : i \in 0 .. h - 1
  BY <1>2, <1>14
<1>16. \A i \in 0 .. Held' - 1 : At(Plus(rd, i)) \in Chars
  BY <1>15, Zenon DEF ConsRing, h
<1>17. \A i \in 0 .. Held' - 1 : At(Plus(rd, i))' \in Chars
  BY <1>16, Zenon DEF At, Plus
<1>18. ed' \in Counter
  BY <1>9, <1>12, Zenon
<1>19. ConsRing'
  BY <1>1, <1>14, <1>17, <1>18, Zenon DEF ConsRing
<1> QED BY <1>4, <1>8, <1>13, <1>19, Zenon DEF s, t

\* consoleread() takes the first character of a finished line.
LEMMA TakenRing ==
  ASSUME ConsRing, rd # wr, rd' = Plus(rd, 1), UNCHANGED <<buf, wr, ed>>
  PROVE  /\ ConsRing'
         /\ At(rd) \in Chars
         /\ Minus(wr, rd) >= 1 /\ Minus(wr, rd)' = Minus(wr, rd) - 1
         /\ Minus(ed, wr)' = Minus(ed, wr)
         /\ \A i \in 0 .. Held - 2 : Plus(rd', i) = Plus(rd, i + 1)
<1> DEFINE s == Minus(wr, rd)
           t == Minus(ed, wr)
           h == Held
<1>1. rd \in Counter /\ wr \in Counter /\ ed \in Counter
  BY Zenon DEF ConsRing
<1>2. s \in Counter /\ t \in Counter /\ h \in 0 .. INPUT_BUF /\ s # 0
  BY HeldFacts, Zenon
<1>3. h = s + t
  BY Zenon DEF Held
<1>4. t' = t
  BY Zenon DEF Minus
<1>5. Plus(rd, s) = wr
  BY <1>1, PlusMinus, Zenon
<1>6. s' = Minus(wr, rd')
  BY Zenon DEF Minus
<1>7. Held' = s' + t'
  BY Zenon DEF Held
<1>8. \A i \in 0 .. h - 1 : At(Plus(rd, i)) \in Chars
  BY Zenon DEF ConsRing
<1> HIDE DEF s, t, h
<1>9. t \in Nat /\ s \in Nat /\ s >= 1 /\ s - 1 \in Nat /\ s - 1 \in Counter
      /\ 1 + (s - 1) = s /\ s <= INPUTWRAP /\ 1 \in Nat /\ 1 \in 0 .. INPUTWRAP
      /\ 0 \in 0 .. h - 1 /\ 0 \in 0 .. INPUTWRAP
  BY <1>2, <1>3, ConsNumbers DEF Counter
<1>10. rd' \in Counter
  BY <1>1, <1>9, PlusIs, Zenon
<1>11. \A i \in 0 .. h - 2 : i + 1 \in 0 .. h - 1 /\ Plus(rd', i) = Plus(rd, i + 1)
  <2>1. TAKE i \in 0 .. h - 2
  <2>2. i \in Nat /\ 1 + i <= INPUTWRAP /\ 1 + i = i + 1 /\ i + 1 \in 0 .. h - 1
    BY <1>2, ConsNumbers
  <2>3. Plus(Plus(rd, 1), i) = Plus(rd, 1 + i)
    BY <1>1, <1>9, <2>2, PlusPlus, ZenonT(40)
  <2> QED BY <2>2, <2>3, Zenon
<1>12. s' = s - 1
  <2>1. 1 + (s - 1) <= INPUTWRAP
    BY <1>9
  <2>2. Plus(Plus(rd, 1), s - 1) = Plus(rd, 1 + (s - 1))
    BY <1>1, <1>9, <2>1, PlusPlus, Zenon
  <2>3. Plus(rd', s - 1) = wr
    BY <1>5, <1>9, <2>2, Zenon
  <2>4. Minus(Plus(rd', s - 1), rd') = s - 1
    BY <1>9, <1>10, MinusPlus, Zenon
  <2> QED BY <1>6, <2>3, <2>4, Zenon
<1>13. Held' = h - 1 /\ Held' <= INPUT_BUF /\ Held' # INPUT_BUF
  <2>1. Held' = (s - 1) + t
    BY <1>4, <1>7, <1>12, Zenon
  <2> QED BY <1>2, <1>3, <1>9, <2>1, ConsNumbers
<1>14. \A i \in 0 .. Held' - 1 : i \in 0 .. h - 2
  BY <1>2, <1>13
<1>15. \A i \in 0 .. Held' - 1 : At(Plus(rd', i)) \in Chars
  BY <1>8, <1>11, <1>14, Zenon
<1>16. \A i \in 0 .. Held' - 1 : At(Plus(rd, i))' \in Chars
  BY <1>15, Zenon DEF At, Plus
<1>17. ConsRing'
  BY <1>1, <1>10, <1>13, <1>16, Zenon DEF ConsRing
<1>18. At(rd) \in Chars
  <2>1. Plus(rd, 0) = rd
    BY <1>1, <1>9, PlusIs, ConsNumbers DEF Counter
  <2> QED BY <1>8, <1>9, <2>1, Zenon
<1> QED BY <1>4, <1>9, <1>11, <1>12, <1>17, <1>18, Zenon DEF s, t, h

\* What consoleread() finds at input.r was typed.
LEMMA FirstHeld ==
  ASSUME ConsRing, rd # wr
  PROVE  At(rd) \in Chars
<1>1. rd \in Counter
  BY Zenon DEF ConsRing
<1>2. 0 \in 0 .. INPUTWRAP
  BY ConsNumbers
<1>3. Plus(rd, 0) = rd
  BY <1>1, <1>2, PlusIs, ConsNumbers DEF Counter
<1>4. Minus(wr, rd) \in Counter /\ Minus(ed, wr) \in Counter /\ Minus(wr, rd) # 0
  BY HeldFacts, Zenon
<1>5. 0 \in 0 .. Held - 1
  BY <1>4 DEF Held, Counter
<1> QED BY <1>3, <1>5, Zenon DEF ConsRing

\* A step that leaves the ring alone.
LEMMA RingUnchanged ==
  ASSUME ConsRing, UNCHANGED inputVars
  PROVE  ConsRing'
BY Zenon DEF ConsRing, inputVars, Held, Minus, Plus, At

-----------------------------------------------------------------------------
(* cgaputc().                                                              *)

\* A row of the screen.
LEMMA RowOf ==
  ASSUME NEW x \in Nat
  PROVE  /\ x \div COLS \in Nat /\ x % COLS \in 0 .. COLS - 1
         /\ x = COLS * (x \div COLS) + (x % COLS)
BY ConsNumbers

\* A position is on the screen exactly when its row is.
LEMMA RowOnScreen ==
  ASSUME NEW x \in Nat
  PROVE  x \div COLS >= ROWS <=> x >= ROWS * COLS
<1> DEFINE q == x \div COLS
           r == x % COLS
<1>1. q \in Nat /\ r \in 0 .. COLS - 1 /\ x = COLS * q + r
  BY RowOf
<1> HIDE DEF q, r
<1>2. ASSUME q >= ROWS PROVE x >= ROWS * COLS
  <2> DEFINE d == q - ROWS
  <2>1. d \in Nat /\ q = ROWS + d
    BY <1>1, <1>2, ConsNumbers
  <2> HIDE DEF d
  <2>2. COLS * q = ROWS * COLS + COLS * d /\ COLS * d \in Nat
    BY <2>1, ConsNumbers
  <2>3. ROWS * COLS \in Nat
    BY ConsNumbers
  <2> QED BY <1>1, <2>2, <2>3
<1>3. ASSUME q < ROWS PROVE x < ROWS * COLS
  <2> DEFINE d == ROWS - q - 1
  <2>1. d \in Nat /\ ROWS = q + 1 + d
    BY <1>1, <1>3, ConsNumbers
  <2> HIDE DEF d
  <2>2. ROWS * COLS = COLS * q + COLS + COLS * d /\ COLS * d \in Nat /\ COLS * q \in Nat
    BY <1>1, <2>1, ConsNumbers
  <2> QED BY <1>1, <2>2, ConsNumbers
<1>4. q >= ROWS \/ q < ROWS
  BY <1>1, ConsNumbers
<1>5. ROWS * COLS \in Nat
  BY ConsNumbers
<1>6. x < ROWS * COLS => ~(x >= ROWS * COLS)
  BY <1>5
<1>7. q < ROWS => ~(q >= ROWS)
  BY <1>1, ConsNumbers
<1>8. q >= ROWS <=> x >= ROWS * COLS
  BY <1>2, <1>3, <1>4, <1>6, <1>7
<1> QED BY <1>8 DEF q

\* Where a newline moves the cursor: to the start of the next row.
LEMMA NextRow ==
  ASSUME NEW x \in Nat, x < ROWS * COLS
  PROVE  /\ x + (COLS - (x % COLS)) \in Nat
         /\ x + (COLS - (x % COLS)) > x
         /\ x + (COLS - (x % COLS)) <= ROWS * COLS
<1> DEFINE q == x \div COLS
           r == x % COLS
<1>1. q \in Nat /\ r \in 0 .. COLS - 1 /\ x = COLS * q + r
  BY RowOf
<1>2. ~(q >= ROWS)
  <2>1. ROWS * COLS \in Nat
    BY ConsNumbers
  <2> QED BY <2>1, RowOnScreen
<1> HIDE DEF q, r
<1> DEFINE d == ROWS - q - 1
<1>3. d \in Nat /\ ROWS = q + 1 + d
  BY <1>1, <1>2, ConsNumbers
<1> HIDE DEF d
<1>4. ROWS * COLS = COLS * q + COLS + COLS * d /\ COLS * d \in Nat /\ COLS * q \in Nat
  BY <1>1, <1>3, ConsNumbers
<1>5. /\ x + (COLS - r) \in Nat
      /\ x + (COLS - r) > x
      /\ x + (COLS - r) <= ROWS * COLS
  BY <1>1, <1>4, ConsNumbers
<1> QED BY <1>5 DEF r

\* A character leaves the cursor behind everything printed, on the screen or
\* one row below it; then the screen scrolls.
LEMMA CgaputcKeeps ==
  ASSUME ConsScreen, NEW c, Cgaputc(c)
  PROVE  ConsScreen'
<1> DEFINE p == Moved(c)
           ink == IF c \in {"nl", BACKSPACE} THEN crt ELSE crt \cup {pos}
<1>1. pos \in Nat /\ crt \subseteq Nat /\ pos < ROWS * COLS /\ \A k \in crt : k < pos
  BY Zenon DEF ConsScreen, NothingPastCursor
<1>2. ROWS * COLS \in Nat /\ COLS \in Nat \ {0}
  BY ConsNumbers
<1>3. p \in Nat /\ p <= ROWS * COLS /\ ink \subseteq Nat /\ \A k \in ink \ {p} : k < p
  <2>1. CASE c = "nl"
    <3>1. p = pos + (COLS - (pos % COLS)) /\ ink = crt
      BY <2>1 DEF Moved, BACKSPACE
    <3> HIDE DEF p, ink
    <3>2. p \in Nat /\ p > pos /\ p <= ROWS * COLS
      BY <1>1, <3>1, NextRow
    <3> QED BY <1>1, <3>1, <3>2
  <2>2. CASE c = BACKSPACE
    <3>1. p = (IF pos > 0 THEN pos - 1 ELSE pos) /\ ink = crt
      BY <2>2 DEF Moved, BACKSPACE
    <3> HIDE DEF p, ink
    <3>2. p \in Nat /\ p <= ROWS * COLS
      BY <1>1, <1>2, <3>1
    <3>3. \A k \in crt : k \in Nat
      BY <1>1
    <3>4. \A k \in crt : k # p => k < p
      BY <1>1, <3>1, <3>3
    <3> QED BY <1>1, <3>1, <3>2, <3>4
  <2>3. CASE c \notin {"nl", BACKSPACE}
    <3>1. p = pos + 1 /\ ink = crt \cup {pos}
      BY <2>3 DEF Moved, BACKSPACE
    <3> HIDE DEF p, ink
    <3>2. p \in Nat /\ p <= ROWS * COLS /\ pos < p
      BY <1>1, <1>2, <3>1
    <3>3. \A k \in crt : k \in Nat /\ k < pos
      BY <1>1
    <3>4. \A k \in crt : k < p
      BY <1>1, <3>1, <3>3
    <3> QED BY <1>1, <3>1, <3>2, <3>4
  <2> QED BY <2>1, <2>2, <2>3
<1> HIDE DEF p, ink
<1>4. p \div COLS >= ROWS <=> p >= ROWS * COLS
  BY <1>3, RowOnScreen
<1>5. IF p \div COLS >= ROWS
      THEN /\ pos' = p - COLS
           /\ crt' = {k - COLS : k \in {i \in ink : i \in COLS .. ROWS * COLS - 1}}
                       \ (p - COLS .. ROWS * COLS)
      ELSE pos' = p /\ crt' = ink \ {p}
  BY DEF Cgaputc, ScrollRow, p, ink
<1>6. CASE p \div COLS >= ROWS
  <2>1. p = ROWS * COLS
    BY <1>2, <1>3, <1>4, <1>6
  <2>2. ROWS * COLS >= COLS
    <3> DEFINE d == ROWS - 1
    <3>1. d \in Nat /\ ROWS = 1 + d
      BY ConsNumbers
    <3> HIDE DEF d
    <3>2. ROWS * COLS = COLS + COLS * d /\ COLS * d \in Nat
      BY <3>1, ConsNumbers
    <3> QED BY <3>2, <1>2
  <2>3. pos' = p - COLS
    BY <1>5, <1>6
  <2>4. pos' \in Nat /\ pos' < ROWS * COLS
    BY <1>2, <2>1, <2>2, <2>3
  <2>5. ASSUME NEW k \in crt' PROVE k \in Nat /\ k < pos'
    <3>1. PICK i \in ink : i \in COLS .. ROWS * COLS - 1 /\ k = i - COLS
      BY <1>5, <1>6
    <3> QED BY <1>2, <2>1, <2>3, <3>1
  <2> QED BY <2>4, <2>5 DEF ConsScreen, NothingPastCursor
<1>7. CASE ~(p \div COLS >= ROWS)
  <2>1. pos' = p /\ crt' = ink \ {p}
    BY <1>5, <1>7
  <2>2. p < ROWS * COLS
    BY <1>2, <1>3, <1>4, <1>7
  <2> QED BY <1>3, <2>1, <2>2 DEF ConsScreen, NothingPastCursor
<1> QED BY <1>6, <1>7

-----------------------------------------------------------------------------
(* Steps preserve the invariant.                                           *)

\* The lock of the keyboard and of output is no reader's.
LEMMA NotPeople ==
  Unlocked \notin People /\ Keyboard \notin People /\ Output \notin People
BY ConsoleAssumption DEF Unlocked, Keyboard, Output

\* Nobody among the readers holds the lock, before and after.
LEMMA ReadersLeftAlone ==
  ASSUME ConsReaders, clock \in {Unlocked, Keyboard, Output},
         clock' \in {Unlocked, Keyboard, Output},
         UNCHANGED <<rd, wr, cat, need, got, ckilled>>
  PROVE  ConsReaders'
BY NotPeople, Zenon DEF ConsReaders

\* wakeup(&input.r), with the lock held by none of the readers.
LEMMA ReadersAnnounced ==
  ASSUME ConsReaders, clock = Unlocked, cat' = Announced,
         UNCHANGED <<clock, need, got, ckilled>>
  PROVE  ConsReaders'
<1>1. cat \in [People -> {"out", "call", "run", "doze", "asleep"}]
  BY Zenon DEF ConsReaders
<1>2. \A p \in People : cat'[p] = IF cat[p] = "asleep" THEN "call" ELSE cat[p]
  BY Zenon DEF Announced
<1>3. cat' \in [People -> {"out", "call", "run", "doze", "asleep"}]
  BY <1>1, Zenon DEF Announced
<1>4. \A p \in People : cat[p] \notin {"run", "doze"}
  BY NotPeople, Zenon DEF ConsReaders
<1>5. \A p \in People : cat'[p] \notin {"run", "doze", "asleep"}
  BY <1>2, <1>4
<1>6. \A p \in People : cat'[p] \in {"run", "doze"} <=> clock' = p
  BY <1>5, NotPeople, Zenon
<1>7. \A p \in People : cat'[p] # "out" => need'[p] >= 1
  BY <1>2, Zenon DEF ConsReaders
<1>8. \A p \in People : cat'[p] \in {"doze", "asleep"} => rd' = wr'
  BY <1>5, Zenon
<1> QED BY <1>3, <1>6, <1>7, <1>8, Zenon DEF ConsReaders

\* Backspace, or one character of a killed line.
LEMMA EraseKeeps ==
  ASSUME ConsInv, ed # wr, ed' = Minus(ed, 1), Cgaputc(BACKSPACE),
         clock \in {Unlocked, Keyboard, Output},
         UNCHANGED <<buf, rd, wr, clock, cat, need, got, ckilled>>
  PROVE  ConsInv'
<1>1. ConsRing'
  BY ErasedRing, Zenon DEF ConsInv
<1>2. ConsReaders'
  BY ReadersLeftAlone, Zenon DEF ConsInv
<1>3. ConsScreen'
  BY CgaputcKeeps, Zenon DEF ConsInv
<1> QED BY <1>1, <1>2, <1>3, Zenon DEF ConsInv

\* What an ordinary key stores.
LEMMA KeyStored ==
  ASSUME NEW k \in Keys, k \notin {"kill", "bs", Nul}
  PROVE  (IF k = "cr" THEN "nl" ELSE k) \in Chars
BY Zenon DEF Keys, Chars

\* consoleintr() with a character that is stored.
LEMMA OrdinaryKeeps ==
  ASSUME ConsInv, clock = Unlocked, NEW k \in Keys, k \notin {"kill", "bs"}, Ordinary(k),
         UNCHANGED <<clock, need, got, ckilled>>
  PROVE  ConsInv'
<1> DEFINE c == IF k = "cr" THEN "nl" ELSE k
<1>1. k # Nul /\ HasRoom /\ buf' = [buf EXCEPT ![ed % INPUT_BUF] = c]
      /\ ed' = Plus(ed, 1) /\ Cgaputc(c) /\ UNCHANGED rd
      /\ IF Finished(c) THEN wr' = ed' /\ cat' = Announced ELSE UNCHANGED <<wr, cat>>
  BY Zenon DEF Ordinary
<1>2. c \in Chars
  BY <1>1, KeyStored, Zenon
<1> HIDE DEF c
<1>3. IF Finished(c) THEN wr' = ed' ELSE UNCHANGED wr
  BY <1>1, Zenon
<1>4. ConsRing'
  BY <1>1, <1>2, <1>3, StoredRing, Zenon DEF ConsInv
<1>5. ConsReaders'
  BY <1>1, ReadersAnnounced, ReadersLeftAlone, Zenon DEF ConsInv
<1>6. ConsScreen'
  BY <1>1, CgaputcKeeps, Zenon DEF ConsInv
<1> QED BY <1>4, <1>5, <1>6, Zenon DEF ConsInv

\* A step that prints nothing.
LEMMA ScreenUnchanged ==
  ASSUME ConsScreen, UNCHANGED screenVars
  PROVE  ConsScreen'
BY Zenon DEF ConsScreen, screenVars, NothingPastCursor

\* One key.
LEMMA ConsoleintrKeeps ==
  ASSUME ConsInv, NEW k \in Keys, Consoleintr(k)
  PROVE  ConsInv'
<1>1. clock = Unlocked /\ UNCHANGED <<need, got, ckilled>>
  BY Zenon DEF Consoleintr
<1>2. CASE k = "kill"
  <2>1. clock' = Keyboard /\ UNCHANGED <<inputVars, cat, screenVars>>
    BY <1>2, Zenon DEF Consoleintr
  <2>2. UNCHANGED <<rd, wr, cat, need, got, ckilled>>
    BY <1>1, <2>1, Zenon DEF inputVars
  <2>3. ConsReaders'
    BY <1>1, <2>1, <2>2, ReadersLeftAlone, Zenon DEF ConsInv
  <2> QED BY <2>1, <2>3, RingUnchanged, ScreenUnchanged, Zenon DEF ConsInv
<1>3. CASE k = "bs"
  <2>1. Backspace /\ UNCHANGED clock
    BY <1>3 DEF Consoleintr
  <2> QED BY <1>1, <2>1, EraseKeeps, Zenon DEF Backspace
<1>4. CASE k \notin {"kill", "bs"}
  <2>1. Ordinary(k) /\ UNCHANGED clock
    BY <1>4 DEF Consoleintr
  <2> QED BY <1>1, <1>4, <2>1, OrdinaryKeeps, Zenon
<1> QED BY <1>2, <1>3, <1>4, Zenon

\* One character of a killed line.
LEMMA KillCharKeeps ==
  ASSUME ConsInv, KillChar
  PROVE  ConsInv'
BY EraseKeeps, Zenon DEF KillChar, KillMore

\* consolewrite(), and the release of the lock.
LEMMA WriteKeeps ==
  ASSUME ConsInv, Consolewrite \/ ConsRelease \/ \E c \in {"x", "nl"} : WriteChar(c)
  PROVE  ConsInv'
<1>1. UNCHANGED inputVars /\ UNCHANGED <<cat, need, got, ckilled>>
  BY Zenon DEF Consolewrite, ConsRelease, WriteChar
<1>2. clock \in {Unlocked, Keyboard, Output} /\ clock' \in {Unlocked, Keyboard, Output}
  BY Zenon DEF Consolewrite, ConsRelease, WriteChar
<1>3. UNCHANGED <<rd, wr, cat, need, got, ckilled>>
  BY <1>1, Zenon DEF inputVars
<1>4. ConsScreen'
  BY CgaputcKeeps, ScreenUnchanged, Zenon DEF ConsInv, Consolewrite,
     ConsRelease, WriteChar
<1> QED
  BY <1>1, <1>2, <1>3, <1>4, RingUnchanged, ReadersLeftAlone, Zenon DEF
     ConsInv

\* A reader begins a call, locks, sleeps or is killed.
LEMMA ConsCallKeeps ==
  ASSUME ConsInv, NEW p \in People, NEW n \in Asked, ConsCall(p, n)
  PROVE  ConsInv'
<1> USE DEF ConsCall
<1>1. ConsRing' /\ ConsScreen'
  BY RingUnchanged, ScreenUnchanged, Zenon DEF ConsInv
<1>2. n \in Nat /\ n >= 1
  BY ConsoleAssumption
<1>3. ConsReaders
  BY Zenon DEF ConsInv
<1>4. UNCHANGED <<rd, wr>>
  BY Zenon DEF inputVars
<1>5. got' \in [People -> Seq(Chars)]
  BY <1>3 DEF ConsReaders
<1>6. ConsReaders'
  BY <1>2, <1>3, <1>4, <1>5, Zenon DEF ConsReaders
<1> QED BY <1>1, <1>6, Zenon DEF ConsInv

\* It takes the lock.
LEMMA ConsLockKeeps ==
  ASSUME ConsInv, NEW p \in People, ConsLock(p)
  PROVE  ConsInv'
<1> USE DEF ConsLock
<1>1. ConsRing' /\ ConsScreen'
  BY RingUnchanged, ScreenUnchanged, Zenon DEF ConsInv
<1>2. ConsReaders
  BY Zenon DEF ConsInv
<1>3. UNCHANGED <<rd, wr>>
  BY Zenon DEF inputVars
<1>4. ConsReaders'
  BY <1>2, <1>3, NotPeople, Zenon DEF ConsReaders
<1> QED BY <1>1, <1>4, Zenon DEF ConsInv

\* sleep(&input.r, &cons.lock).
LEMMA ConsSleepKeeps ==
  ASSUME ConsInv, NEW p \in People, ConsSleep(p)
  PROVE  ConsInv'
<1> USE DEF ConsSleep
<1>1. ConsRing' /\ ConsScreen'
  BY RingUnchanged, ScreenUnchanged, Zenon DEF ConsInv
<1>2. ConsReaders
  BY Zenon DEF ConsInv
<1>3. UNCHANGED <<rd, wr>>
  BY Zenon DEF inputVars
<1>4. ConsReaders'
  BY <1>2, <1>3, NotPeople, Zenon DEF ConsReaders
<1> QED BY <1>1, <1>4, Zenon DEF ConsInv

\* kill() takes no lock of the console.
LEMMA ConsKillKeeps ==
  ASSUME ConsInv, NEW p \in People, ConsKill(p)
  PROVE  ConsInv'
<1> USE DEF ConsKill
<1>1. ConsRing' /\ ConsScreen'
  BY RingUnchanged, ScreenUnchanged, Zenon DEF ConsInv
<1>2. ConsReaders
  BY Zenon DEF ConsInv
<1>3. UNCHANGED <<rd, wr>>
  BY Zenon DEF inputVars
<1>4. ConsReaders'
  BY <1>2, <1>3, Zenon DEF ConsReaders
<1> QED BY <1>1, <1>4, Zenon DEF ConsInv

\* A reader returns: it leaves the lock and its call.
LEMMA ReturnKeeps ==
  ASSUME ConsReaders, NEW p \in People, cat[p] = "run",
         cat' = [cat EXCEPT ![p] = "out"], clock' = Unlocked,
         need' = [need EXCEPT ![p] = 0], got' \in [People -> Seq(Chars)],
         UNCHANGED <<wr, ckilled>>,
         \A q \in People \ {p} : cat[q] \in {"doze", "asleep"} => rd' = wr
  PROVE  ConsReaders'
<1>1. 0 \in Nat
  OBVIOUS
<1> QED BY <1>1, NotPeople, Zenon DEF ConsReaders

\* Nothing is finished: it returns if it was killed, or goes to sleep.
LEMMA ConsWaitKeeps ==
  ASSUME ConsInv, NEW p \in People, ConsWait(p)
  PROVE  ConsInv'
<1>1. ConsRing' /\ ConsScreen'
  BY RingUnchanged, ScreenUnchanged, Zenon DEF ConsInv, ConsWait
<1>2. ConsReaders /\ got \in [People -> Seq(Chars)]
  BY Zenon DEF ConsInv, ConsReaders
<1>3. UNCHANGED <<rd, wr, got, ckilled>> /\ cat[p] = "run" /\ rd = wr
  BY Zenon DEF inputVars, ConsWait
<1>4. CASE p \in ckilled
  BY <1>1, <1>2, <1>3, <1>4, ReturnKeeps, Zenon DEF ConsWait, ConsInv
<1>5. CASE p \notin ckilled
  <2>1. cat' = [cat EXCEPT ![p] = "doze"] /\ UNCHANGED <<clock, need>>
    BY <1>5, Zenon DEF ConsWait
  <2>2. ConsReaders'
    BY <1>2, <1>3, <2>1, Zenon DEF ConsReaders
  <2> QED BY <1>1, <2>2, Zenon DEF ConsInv
<1> QED BY <1>4, <1>5, Zenon

\* It takes a character.
LEMMA ConsTakeKeeps ==
  ASSUME ConsInv, NEW p \in People, ConsTake(p)
  PROVE  ConsInv'
<1> DEFINE c == At(rd)
<1>1. cat[p] = "run" /\ rd # wr /\ UNCHANGED <<buf, wr, ed, ckilled, screenVars>>
      /\ rd' = (IF c = "eof" /\ EofKept(p) THEN rd ELSE Plus(rd, 1))
      /\ got' = (IF c = "eof" THEN got ELSE [got EXCEPT ![p] = Append(@, c)])
      /\ IF c \in {"eof", "nl"} \/ need[p] = 1
         THEN /\ cat' = [cat EXCEPT ![p] = "out"]
              /\ clock' = Unlocked
              /\ need' = [need EXCEPT ![p] = 0]
         ELSE need' = [need EXCEPT ![p] = @ - 1] /\ UNCHANGED <<cat, clock>>
  BY Zenon DEF ConsTake
<1>2. ConsReaders /\ ConsRing
  BY Zenon DEF ConsInv
<1>3. c \in Chars
  BY <1>1, <1>2, FirstHeld, Zenon
<1> HIDE DEF c
<1>4. ConsRing'
  <2>1. CASE rd' = Plus(rd, 1)
    BY <1>1, <1>2, <2>1, TakenRing, Zenon
  <2>2. CASE rd' = rd
    BY <1>1, <1>2, <2>2, RingUnchanged, Zenon DEF inputVars
  <2> QED BY <1>1, <2>1, <2>2, Zenon
<1>5. ConsScreen'
  BY <1>1, ScreenUnchanged, Zenon DEF ConsInv
<1>6. got' \in [People -> Seq(Chars)]
  <2>1. got \in [People -> Seq(Chars)]
    BY <1>2, Zenon DEF ConsReaders
  <2>2. Append(got[p], c) \in Seq(Chars)
    BY <1>3, <2>1
  <2> QED BY <1>1, <2>1, <2>2, Zenon
<1>7. \A q \in People : cat[q] \notin {"doze", "asleep"}
  BY <1>1, <1>2, Zenon DEF ConsReaders
<1>8. CASE c \in {"eof", "nl"} \/ need[p] = 1
  <2>1. ConsReaders'
    BY <1>1, <1>2, <1>6, <1>7, <1>8, ReturnKeeps, Zenon
  <2> QED BY <1>4, <1>5, <2>1, Zenon DEF ConsInv
<1>9. CASE ~(c \in {"eof", "nl"} \/ need[p] = 1)
  <2>1. need' = [need EXCEPT ![p] = need[p] - 1] /\ UNCHANGED <<cat, clock>>
    BY <1>1, <1>9, Zenon
  <2>2. need \in [People -> Nat] /\ need[p] >= 1 /\ need[p] # 1
    BY <1>1, <1>2, <1>9, Zenon DEF ConsReaders
  <2>3. need[p] - 1 \in Nat /\ need[p] - 1 >= 1
    BY <2>2
  <2>4. need' \in [People -> Nat] /\ \A q \in People : cat'[q] # "out" => need'[q] >= 1
    BY <1>2, <2>1, <2>2, <2>3, Zenon DEF ConsReaders
  <2>5. ConsReaders'
    BY <1>1, <1>2, <1>6, <1>7, <2>1, <2>4, Zenon DEF ConsReaders
  <2> QED BY <1>4, <1>5, <2>5, Zenon DEF ConsInv
<1> QED BY <1>8, <1>9, Zenon

\* The invariant holds at boot and every step keeps it.
LEMMA ConsInitHolds ==
  ASSUME ConsInit
  PROVE  ConsInv
<1> USE DEF ConsInit
<1>1. 0 \in Counter
  BY ConsNumbers DEF Counter
<1>2. Minus(0, 0) = 0
  BY <1>1, MinusZero, Zenon
<1>3. Held = 0
  BY <1>2 DEF Held
<1>4. ConsRing
  BY <1>1, <1>3, ConsNumbers DEF ConsRing
<1>5. ConsReaders
  <2>1. <<>> \in Seq(Chars) /\ 0 \in Nat
    OBVIOUS
  <2> QED BY <2>1, NotPeople, Zenon DEF ConsReaders
<1>6. ConsScreen
  <2>1. ROWS * COLS \in Nat \ {0}
    BY ConsNumbers
  <2> QED BY <2>1 DEF ConsScreen, NothingPastCursor
<1> QED BY <1>4, <1>5, <1>6, Zenon DEF ConsInv

\* Every step.
LEMMA ConsStepKeeps ==
  ASSUME ConsInv, [ConsNext]_consVars
  PROVE  ConsInv'
<1>1. CASE UNCHANGED consVars
  BY <1>1, RingUnchanged, ScreenUnchanged, Zenon DEF consVars, ConsInv,
     ConsReaders, inputVars
<1>2. CASE ConsNext
  BY <1>2, ConsoleintrKeeps, ConsLockKeeps, ConsSleepKeeps, ConsWaitKeeps,
     ConsTakeKeeps, ConsKillKeeps, ConsCallKeeps, KillCharKeeps, WriteKeeps,
     Zenon DEF ConsNext, ConsStep
<1> QED BY <1>1, <1>2, Zenon

\* What the invariant says of the code.
LEMMA ConsInvImplies ==
  ASSUME ConsInv
  PROVE  ConsoleConsistent
<1> USE DEF ConsInv
<1>1. /\ Minus(wr, rd) \in Counter /\ Minus(ed, wr) \in Counter
      /\ Held \in 0 .. INPUT_BUF /\ Minus(ed, rd) = Held
  BY HeldFacts, Zenon
<1>2. Minus(wr, rd) <= Minus(ed, rd) /\ Minus(ed, rd) <= INPUT_BUF
  <2>1. Minus(ed, rd) = Minus(wr, rd) + Minus(ed, wr)
    BY <1>1, Zenon DEF Held
  <2> QED BY <1>1, <2>1 DEF Counter
<1>3. ConsTypeOK
  BY <1>2, Zenon DEF ConsTypeOK, ConsRing, ConsReaders, ConsScreen, Counter
<1>4. NoDeadKeyboard
  <2>1. ~HasRoom => Held = INPUT_BUF
    BY <1>1, ConsNumbers DEF HasRoom
  <2> QED BY <2>1, Zenon DEF NoDeadKeyboard, ConsRing
<1> QED
  BY <1>3, <1>4, Zenon DEF ConsoleConsistent, ConsSleepJustified, ConsReaders,
     ConsScreen

\* Whatever is typed, read, written and killed, the counters of the ring keep
\* their order when they wrap, no reader of consoleread() sleeps on a finished
\* line, a full ring always has something to read, and cgaputc() keeps the
\* cursor on the screen, so that it never panics.
THEOREM ConsoleStaysConsistent == ConsSpec => []ConsoleConsistent
<1>1. ConsInit => ConsInv
  BY ConsInitHolds
<1>2. ConsInv /\ [ConsNext]_consVars => ConsInv'
  BY ConsStepKeeps
<1>3. ConsInv => ConsoleConsistent
  BY ConsInvImplies
<1> QED BY <1>1, <1>2, <1>3, PTL DEF ConsSpec

-----------------------------------------------------------------------------
(* Console implements LineInput: finished lines, and the line being typed. *)

Ready == [i \in 1 .. Minus(wr, rd) |-> At(Plus(rd, i - 1))]
Typed == [i \in 1 .. Minus(ed, wr) |-> At(Plus(wr, i - 1))]

\* Both lines in the slots that follow input.r.
Views ==
  /\ Ready \in Seq(Chars) /\ Len(Ready) = Minus(wr, rd)
  /\ \A i \in 1 .. Minus(wr, rd) : Ready[i] = buf[Plus(rd, i - 1) % INPUT_BUF]
  /\ Typed \in Seq(Chars) /\ Len(Typed) = Minus(ed, wr)
  /\ \A i \in 1 .. Minus(ed, wr) :
       Typed[i] = buf[Plus(rd, Minus(wr, rd) + i - 1) % INPUT_BUF]

\* Every slot in use is a character of one of the two.
LEMMA RingViews == ConsRing => Views
<1> SUFFICES ASSUME ConsRing PROVE Views
  OBVIOUS
<1> DEFINE s == Minus(wr, rd)
           t == Minus(ed, wr)
<1>1. rd \in Counter /\ wr \in Counter
  BY Zenon DEF ConsRing
<1>2. s \in Counter /\ t \in Counter /\ Held \in 0 .. INPUT_BUF /\ Held = s + t
  BY HeldFacts, Zenon DEF Held
<1>3. \A i \in 0 .. Held - 1 : buf[Plus(rd, i) % INPUT_BUF] \in Chars
  BY Zenon DEF ConsRing, At
<1>4. Plus(rd, s) = wr
  BY <1>1, PlusMinus, Zenon
<1>5. Ready = [i \in 1 .. s |-> buf[Plus(rd, i - 1) % INPUT_BUF]]
  BY Zenon DEF Ready, At
<1>6. Typed = [i \in 1 .. t |-> buf[Plus(wr, i - 1) % INPUT_BUF]]
  BY Zenon DEF Typed, At
<1> HIDE DEF s, t
<1>7. s \in Nat /\ t \in Nat
  BY <1>2 DEF Counter
<1>8. \A i \in 1 .. s : i - 1 \in 0 .. Held - 1
  BY <1>2, <1>7
<1>9. \A i \in 1 .. s : buf[Plus(rd, i - 1) % INPUT_BUF] \in Chars
  BY <1>3, <1>8, Zenon
<1>10. \A i \in 1 .. t : Plus(wr, i - 1) = Plus(rd, s + i - 1) /\ s + i - 1 \in 0 .. Held - 1
  <2>1. TAKE i \in 1 .. t
  <2>2. i - 1 \in Nat /\ s + (i - 1) <= INPUTWRAP /\ s + (i - 1) = s + i - 1
        /\ s + i - 1 \in 0 .. Held - 1
    BY <1>2, <1>7, ConsNumbers
  <2>3. Plus(Plus(rd, s), i - 1) = Plus(rd, s + (i - 1))
    BY <1>1, <1>7, <2>2, PlusPlus, Zenon
  <2> QED BY <1>4, <2>2, <2>3, Zenon
<1>11. \A i \in 1 .. t : buf[Plus(wr, i - 1) % INPUT_BUF] \in Chars
  BY <1>3, <1>10, Zenon
<1>12. Ready \in Seq(Chars) /\ Len(Ready) = s
  <2>1. Ready \in [1 .. s -> Chars]
    BY <1>5, <1>9, Zenon
  <2> QED BY <1>7, <2>1
<1>13. Typed \in Seq(Chars) /\ Len(Typed) = t
  <2>1. Typed \in [1 .. t -> Chars]
    BY <1>6, <1>11, Zenon
  <2> QED BY <1>7, <2>1
<1>14. \A i \in 1 .. t : Typed[i] = buf[Plus(rd, s + i - 1) % INPUT_BUF]
  BY <1>6, <1>10, Zenon
<1>15. \A i \in 1 .. s : Ready[i] = buf[Plus(rd, i - 1) % INPUT_BUF]
  BY <1>5, Zenon
<1> QED BY <1>12, <1>13, <1>14, <1>15, Zenon DEF Views, s, t

\* The same, after a step.
LEMMA RingViewsNext ==
  ConsRing' =>
    /\ Ready' \in Seq(Chars) /\ Len(Ready') = Minus(wr, rd)'
    /\ \A i \in 1 .. Minus(wr, rd)' : Ready'[i] = buf'[Plus(rd', i - 1) % INPUT_BUF]
    /\ Typed' \in Seq(Chars) /\ Len(Typed') = Minus(ed, wr)'
    /\ \A i \in 1 .. Minus(ed, wr)' :
         Typed'[i] = buf'[Plus(rd', Minus(wr, rd)' + i - 1) % INPUT_BUF]
<1>1. ConsRing' => Views'
  BY RingViews, PTL
<1> QED BY <1>1, Zenon DEF Views, Plus

\* Sequences with the same elements.
LEMMA SeqEqual ==
  ASSUME NEW S, NEW s \in Seq(S), NEW t \in Seq(S), Len(s) = Len(t),
         \A i \in 1 .. Len(s) : s[i] = t[i]
  PROVE  s = t
  OBVIOUS

\* Two sequences one after the other.
LEMMA Concatenated ==
  ASSUME NEW S, NEW a \in Seq(S), NEW b \in Seq(S)
  PROVE  /\ a \o b \in Seq(S) /\ Len(a \o b) = Len(a) + Len(b)
         /\ \A i \in 1 .. Len(a) : (a \o b)[i] = a[i]
         /\ \A i \in Len(a) + 1 .. Len(a) + Len(b) : (a \o b)[i] = b[i - Len(a)]
<1>1. Len(a) \in Nat /\ Len(b) \in Nat
  OBVIOUS
<1>2. a \o b \in Seq(S)
  OBVIOUS
<1>3. Len(a \o b) = Len(a) + Len(b)
  OBVIOUS
<1>4. \A i \in 1 .. Len(a) : (a \o b)[i] = a[i]
  OBVIOUS
<1>5. \A i \in Len(a) + 1 .. Len(a) + Len(b) : (a \o b)[i] = b[i - Len(a)]
  <2>1. TAKE i \in Len(a) + 1 .. Len(a) + Len(b)
  <2>2. i \in 1 .. Len(a) + Len(b) /\ ~(i <= Len(a)) /\ i - Len(a) \in 1 .. Len(b)
    BY <1>1
  <2> QED BY <1>1, <2>2
<1> QED BY <1>2, <1>3, <1>4, <1>5

\* A typed character joins the line, and may finish it.
LEMMA StoredViews ==
  ASSUME ConsRing, HasRoom, NEW c \in Chars,
         buf' = [buf EXCEPT ![ed % INPUT_BUF] = c], ed' = Plus(ed, 1), UNCHANGED rd,
         IF Finished(c) THEN wr' = ed' ELSE UNCHANGED wr
  PROVE  /\ Len(Ready) + Len(Typed) < INPUT_BUF
         /\ Finished(c) <=> c \in {"nl", "eof"} \/ Len(Ready) + Len(Typed) + 1 = INPUT_BUF
         /\ Finished(c) => Ready' = Ready \o Append(Typed, c) /\ Typed' = <<>>
         /\ ~Finished(c) => Ready' = Ready /\ Typed' = Append(Typed, c)
<1> DEFINE s == Minus(wr, rd)
           t == Minus(ed, wr)
           h == Held
<1>1. Views
  BY RingViews, Zenon
<1>2. /\ ConsRing'
      /\ Finished(c) => s' = h + 1 /\ t' = 0
      /\ ~Finished(c) => s' = s /\ t' = t + 1
  BY StoredRing, Zenon
<1>3. /\ Ready' \in Seq(Chars) /\ Len(Ready') = s'
      /\ \A i \in 1 .. s' : Ready'[i] = buf'[Plus(rd, i - 1) % INPUT_BUF]
      /\ Typed' \in Seq(Chars) /\ Len(Typed') = t'
      /\ \A i \in 1 .. t' : Typed'[i] = buf'[Plus(rd, s' + i - 1) % INPUT_BUF]
  BY <1>2, RingViewsNext, Zenon
<1>4. /\ h < INPUT_BUF
      /\ Plus(ed, 1) = Plus(rd, INPUT_BUF) <=> h + 1 = INPUT_BUF
      /\ \A i \in 0 .. h - 1 : buf'[Plus(rd, i) % INPUT_BUF] = buf[Plus(rd, i) % INPUT_BUF]
      /\ buf'[Plus(rd, h) % INPUT_BUF] = c
  BY Stored, Zenon
<1>5. s \in Counter /\ t \in Counter /\ h = s + t
  BY HeldFacts, Zenon DEF Held
<1>6. /\ Ready \in Seq(Chars) /\ Len(Ready) = s
      /\ \A i \in 1 .. s : Ready[i] = buf[Plus(rd, i - 1) % INPUT_BUF]
      /\ Typed \in Seq(Chars) /\ Len(Typed) = t
      /\ \A i \in 1 .. t : Typed[i] = buf[Plus(rd, s + i - 1) % INPUT_BUF]
  BY <1>1, Zenon DEF Views
<1>7. s' \in Nat /\ t' \in Nat
  BY <1>3
<1> DEFINE ss == s'
           tt == t'
<1> HIDE DEF s, t, h, ss, tt
<1>8. s \in Nat /\ t \in Nat /\ h \in Nat
  BY <1>5 DEF Counter
<1>9. \A i \in 1 .. s : i - 1 \in 0 .. h - 1
  BY <1>5, <1>8
<1>10. \A i \in 1 .. t : s + i - 1 \in 0 .. h - 1
  BY <1>5, <1>8
<1>11. \A i \in 1 .. s : Ready[i] = buf'[Plus(rd, i - 1) % INPUT_BUF]
  BY <1>4, <1>6, <1>9, Zenon
<1>12. \A i \in 1 .. t : Typed[i] = buf'[Plus(rd, s + i - 1) % INPUT_BUF]
  BY <1>4, <1>6, <1>10, Zenon
<1>13. /\ Append(Typed, c) \in Seq(Chars) /\ Len(Append(Typed, c)) = t + 1
       /\ \A i \in 1 .. t : Append(Typed, c)[i] = Typed[i]
       /\ Append(Typed, c)[t + 1] = c
  BY <1>6, <1>8
<1>14. s + (t + 1) - 1 = h
  BY <1>5, <1>8
<1>15. \A i \in 1 .. t + 1 : Append(Typed, c)[i] = buf'[Plus(rd, s + i - 1) % INPUT_BUF]
  <2> SUFFICES ASSUME NEW i \in 1 .. t + 1
               PROVE  Append(Typed, c)[i] = buf'[Plus(rd, s + i - 1) % INPUT_BUF]
    BY Zenon
  <2>2. i \in 1 .. t \/ i = t + 1
    BY <1>8
  <2> QED BY <1>4, <1>12, <1>13, <1>14, <2>2, Zenon
<1>16. ASSUME Finished(c)
       PROVE  Ready' = Ready \o Append(Typed, c) /\ Typed' = <<>>
  <2>1. s' = h + 1 /\ t' = 0
    BY <1>2, <1>16, Zenon
  <2>2. Typed' = <<>>
    BY <1>3, <2>1
  <2> DEFINE a == Append(Typed, c)
             r == Ready \o a
  <2>3. /\ r \in Seq(Chars) /\ Len(r) = Len(Ready) + Len(a)
        /\ \A i \in 1 .. Len(Ready) : r[i] = Ready[i]
        /\ \A i \in Len(Ready) + 1 .. Len(Ready) + Len(a) : r[i] = a[i - Len(Ready)]
    <3>1. Ready \in Seq(Chars)
      BY <1>6, Zenon
    <3>2. a \in Seq(Chars)
      BY <1>13, Zenon
    <3> HIDE DEF a
    <3> QED BY <3>1, <3>2, Concatenated
  <2>4. Len(r) = s + (t + 1) /\ \A i \in 1 .. s : r[i] = Ready[i]
    BY <1>6, <1>13, <2>3, Zenon
  <2>5. \A i \in s + 1 .. s + (t + 1) : r[i] = Append(Typed, c)[i - s]
    BY <1>6, <1>13, <2>3, Zenon
  <2>6. s + (t + 1) = h + 1
    BY <1>5, <1>8
  <2> HIDE DEF r
  <2>7. \A i \in 1 .. h + 1 : r[i] = buf'[Plus(rd, i - 1) % INPUT_BUF]
    <3>1. TAKE i \in 1 .. h + 1
    <3>2. CASE i \in 1 .. s
      BY <1>11, <2>4, <3>2, Zenon
    <3>3. CASE i \in s + 1 .. s + (t + 1)
      <4>1. i - s \in 1 .. t + 1 /\ s + (i - s) - 1 = i - 1
        BY <1>8, <3>3
      <4> QED BY <1>15, <2>5, <3>3, <4>1, Zenon
    <3>4. i \in 1 .. s \/ i \in s + 1 .. s + (t + 1)
      BY <1>8, <2>6
    <3> QED BY <3>2, <3>3, <3>4, Zenon
  <2>8. Len(Ready') = Len(r) /\ \A i \in 1 .. Len(Ready') : Ready'[i] = r[i]
    BY <1>3, <2>1, <2>4, <2>6, <2>7, Zenon
  <2>9. Ready' = r
    BY <1>3, <2>3, <2>8, SeqEqual, Zenon
  <2> QED BY <2>2, <2>9, Zenon DEF r
<1>17. ASSUME ~Finished(c)
       PROVE  Ready' = Ready /\ Typed' = Append(Typed, c)
  <2>1. s' = s /\ t' = t + 1
    BY <1>2, <1>17, Zenon
  <2>2. Len(Ready') = Len(Ready) /\ \A i \in 1 .. Len(Ready') : Ready'[i] = Ready[i]
    BY <1>3, <1>6, <1>11, <2>1, Zenon
  <2>3. Ready' = Ready
    BY <1>3, <1>6, <2>2, SeqEqual, Zenon
  <2>4. Len(Typed') = Len(Append(Typed, c))
        /\ \A i \in 1 .. Len(Typed') : Typed'[i] = Append(Typed, c)[i]
    BY <1>3, <1>13, <1>15, <2>1, ZenonT(40)
  <2>5. Typed' = Append(Typed, c)
    BY <1>3, <1>13, <2>4, SeqEqual, Zenon
  <2> QED BY <2>3, <2>5, Zenon
<1>18. Len(Ready) + Len(Typed) = h
  BY <1>5, <1>6, Zenon
<1>19. Finished(c) <=> c \in {"nl", "eof"} \/ Len(Ready) + Len(Typed) + 1 = INPUT_BUF
  BY <1>4, <1>18, Zenon DEF Finished
<1> QED BY <1>4, <1>16, <1>17, <1>18, <1>19, Zenon

\* A character taken back leaves the line being typed.
LEMMA ErasedViews ==
  ASSUME ConsRing, ed # wr, ed' = Minus(ed, 1), UNCHANGED <<buf, rd, wr>>
  PROVE  Typed # <<>> /\ Ready' = Ready /\ Typed' = SubSeq(Typed, 1, Len(Typed) - 1)
<1> DEFINE s == Minus(wr, rd)
           t == Minus(ed, wr)
<1>1. ConsRing' /\ s' = s /\ t >= 1 /\ t' = t - 1
  BY ErasedRing, Zenon
<1>2. /\ Ready' \in Seq(Chars) /\ Len(Ready') = s
      /\ \A i \in 1 .. s : Ready'[i] = buf[Plus(rd, i - 1) % INPUT_BUF]
      /\ Typed' \in Seq(Chars) /\ Len(Typed') = t - 1
      /\ \A i \in 1 .. t - 1 : Typed'[i] = buf[Plus(rd, s + i - 1) % INPUT_BUF]
  BY <1>1, RingViewsNext, Zenon
<1>3. /\ Ready \in Seq(Chars) /\ Len(Ready) = s
      /\ \A i \in 1 .. s : Ready[i] = buf[Plus(rd, i - 1) % INPUT_BUF]
      /\ Typed \in Seq(Chars) /\ Len(Typed) = t
      /\ \A i \in 1 .. t : Typed[i] = buf[Plus(rd, s + i - 1) % INPUT_BUF]
  BY RingViews, Zenon DEF Views
<1> HIDE DEF s, t
<1>4. t \in Nat /\ t >= 1 /\ t - 1 \in Nat
  BY <1>1, <1>3
<1>5. Typed # <<>>
  BY <1>3, <1>4
<1>6. Ready' = Ready
  <2>1. Len(Ready') = Len(Ready) /\ \A i \in 1 .. Len(Ready') : Ready'[i] = Ready[i]
    BY <1>2, <1>3, Zenon
  <2> QED BY <1>2, <1>3, <2>1, SeqEqual, Zenon
<1> DEFINE r == SubSeq(Typed, 1, t - 1)
<1>7. r \in Seq(Chars) /\ Len(r) = t - 1 /\ \A i \in 1 .. t - 1 : r[i] = Typed[i]
  BY <1>3, <1>4
<1> HIDE DEF r
<1>8. \A i \in 1 .. t - 1 : i \in 1 .. t
  BY <1>4
<1>9. Len(Typed') = Len(r) /\ \A i \in 1 .. Len(Typed') : Typed'[i] = r[i]
  BY <1>2, <1>3, <1>7, <1>8, Zenon
<1>10. Typed' = r
  BY <1>2, <1>7, <1>9, SeqEqual, Zenon
<1> QED BY <1>3, <1>5, <1>6, <1>10, Zenon DEF r

\* A reader takes the first finished character.
LEMMA TakenViews ==
  ASSUME ConsRing, rd # wr, rd' = Plus(rd, 1), UNCHANGED <<buf, wr, ed>>
  PROVE  /\ Ready # <<>> /\ Head(Ready) = At(rd)
         /\ Ready' = Tail(Ready) /\ Typed' = Typed
<1> DEFINE s == Minus(wr, rd)
           t == Minus(ed, wr)
           h == Held
<1>1. /\ ConsRing' /\ s >= 1 /\ s' = s - 1 /\ t' = t
      /\ \A i \in 0 .. h - 2 : Plus(rd', i) = Plus(rd, i + 1)
  BY TakenRing, Zenon
<1>2. /\ Ready' \in Seq(Chars) /\ Len(Ready') = s - 1
      /\ \A i \in 1 .. s - 1 : Ready'[i] = buf[Plus(rd', i - 1) % INPUT_BUF]
      /\ Typed' \in Seq(Chars) /\ Len(Typed') = t
      /\ \A i \in 1 .. t : Typed'[i] = buf[Plus(rd', (s - 1) + i - 1) % INPUT_BUF]
  BY <1>1, RingViewsNext, Zenon
<1>3. /\ Ready \in Seq(Chars) /\ Len(Ready) = s
      /\ \A i \in 1 .. s : Ready[i] = buf[Plus(rd, i - 1) % INPUT_BUF]
      /\ Typed \in Seq(Chars) /\ Len(Typed) = t
      /\ \A i \in 1 .. t : Typed[i] = buf[Plus(rd, s + i - 1) % INPUT_BUF]
  BY RingViews, Zenon DEF Views
<1>4. h = s + t /\ rd \in Counter
  BY Zenon DEF Held, ConsRing
<1> HIDE DEF s, t, h
<1>5. t \in Nat /\ s \in Nat /\ s >= 1
  BY <1>1, <1>3
<1>6. Ready # <<>> /\ Head(Ready) = At(rd)
  <2>1. 1 \in 1 .. s /\ 1 - 1 = 0 /\ 0 \in 0 .. INPUTWRAP
    BY <1>5, ConsNumbers
  <2>2. Plus(rd, 0) = rd
    BY <1>4, <2>1, PlusIs, ConsNumbers DEF Counter
  <2>3. Ready[1] = At(rd)
    BY <1>3, <2>1, <2>2, Zenon DEF At
  <2>4. Ready # <<>> /\ Head(Ready) = Ready[1]
    BY <1>3, <1>5
  <2> QED BY <2>3, <2>4, Zenon
<1>7. Typed' = Typed
  <2>1. \A i \in 1 .. t : /\ (s - 1) + i - 1 \in 0 .. h - 2
                          /\ ((s - 1) + i - 1) + 1 = s + i - 1
    BY <1>4, <1>5
  <2>2. \A i \in 1 .. t : Typed'[i] = Typed[i]
    <3>1. TAKE i \in 1 .. t
    <3>2. Plus(rd', (s - 1) + i - 1) = Plus(rd, s + i - 1)
      BY <1>1, <2>1
    <3> QED BY <1>2, <1>3, <3>2, ZenonT(40)
  <2>3. Len(Typed') = Len(Typed) /\ \A i \in 1 .. Len(Typed') : Typed'[i] = Typed[i]
    BY <1>2, <1>3, <2>2, Zenon
  <2> QED BY <1>2, <1>3, <2>3, SeqEqual, Zenon
<1> DEFINE r == Tail(Ready)
<1>8. r \in Seq(Chars) /\ Len(r) = s - 1 /\ \A i \in 1 .. s - 1 : r[i] = Ready[i + 1]
  BY <1>3, <1>5
<1> HIDE DEF r
<1>9. \A i \in 1 .. s - 1 : /\ i - 1 \in 0 .. h - 2 /\ i + 1 \in 1 .. s
                            /\ (i + 1) - 1 = (i - 1) + 1
  BY <1>4, <1>5
<1>10. \A i \in 1 .. s - 1 : Ready'[i] = r[i]
  <2>1. TAKE i \in 1 .. s - 1
  <2>2. Plus(rd', i - 1) = Plus(rd, (i + 1) - 1)
    BY <1>1, <1>9
  <2>3. Ready[i + 1] = buf[Plus(rd, (i + 1) - 1) % INPUT_BUF]
    BY <1>3, <1>9, Zenon
  <2> QED BY <1>2, <1>8, <2>2, <2>3, Zenon
<1>11. Ready' = r
  <2>1. Len(Ready') = Len(r) /\ \A i \in 1 .. Len(Ready') : Ready'[i] = r[i]
    BY <1>2, <1>8, <1>10, Zenon
  <2> QED BY <1>2, <1>8, <2>1, SeqEqual, Zenon
<1> QED BY <1>6, <1>7, <1>11, Zenon DEF r

\* A step that leaves the ring alone shows nothing new.
LEMMA ViewsUnchanged ==
  ASSUME UNCHANGED inputVars
  PROVE  UNCHANGED <<Ready, Typed>>
BY Zenon DEF Ready, Typed, inputVars, At, Plus, Minus

\* Each step as a step of the line editor, or none.
LineStep == Lines!LNext \/ UNCHANGED <<Typed, Ready, got>>

\* A character taken back is an Edit.
LEMMA EraseRefines ==
  ASSUME ConsInv, ed # wr, ed' = Minus(ed, 1), UNCHANGED <<buf, rd, wr, got>>
  PROVE  LineStep
<1>1. Typed # <<>> /\ Ready' = Ready /\ Typed' = SubSeq(Typed, 1, Len(Typed) - 1)
  BY ErasedViews, Zenon DEF ConsInv
<1> QED BY <1>1, Zenon DEF LineStep, Lines!LNext, Lines!Edit, Ready, Typed

\* A stored character is a Type.
LEMMA OrdinaryRefines ==
  ASSUME ConsInv, NEW k \in Keys, k \notin {"kill", "bs"}, Ordinary(k), UNCHANGED got
  PROVE  LineStep
<1> DEFINE c == IF k = "cr" THEN "nl" ELSE k
<1>1. k # Nul /\ HasRoom /\ buf' = [buf EXCEPT ![ed % INPUT_BUF] = c]
      /\ ed' = Plus(ed, 1) /\ UNCHANGED rd
      /\ IF Finished(c) THEN wr' = ed' ELSE UNCHANGED wr
  BY Zenon DEF Ordinary
<1>2. c \in Chars
  BY <1>1, KeyStored, Zenon
<1> HIDE DEF c
<1>3. /\ Len(Ready) + Len(Typed) < INPUT_BUF
      /\ Finished(c) <=> c \in {"nl", "eof"} \/ Len(Ready) + Len(Typed) + 1 = INPUT_BUF
      /\ Finished(c) => Ready' = Ready \o Append(Typed, c) /\ Typed' = <<>>
      /\ ~Finished(c) => Ready' = Ready /\ Typed' = Append(Typed, c)
  BY <1>1, <1>2, StoredViews, Zenon DEF ConsInv
<1>4. Lines!Type(c)
  BY <1>3, Zenon DEF Lines!Type, Ready, Typed
<1> QED BY <1>2, <1>4, Zenon DEF LineStep, Lines!LNext

\* A character read is a Fetch; a ^D kept for the next call is nothing.
LEMMA TakeRefines ==
  ASSUME ConsInv, NEW p \in People, ConsTake(p)
  PROVE  LineStep
<1> DEFINE c == At(rd)
<1>1. rd # wr /\ UNCHANGED <<buf, wr, ed>>
      /\ rd' = (IF c = "eof" /\ EofKept(p) THEN rd ELSE Plus(rd, 1))
      /\ got' = (IF c = "eof" THEN got ELSE [got EXCEPT ![p] = Append(@, c)])
  BY Zenon DEF ConsTake
<1>2. CASE c = "eof" /\ EofKept(p)
  <2>1. UNCHANGED inputVars /\ UNCHANGED got
    BY <1>1, <1>2, Zenon DEF inputVars
  <2> QED BY <2>1, ViewsUnchanged, Zenon DEF LineStep
<1>3. CASE ~(c = "eof" /\ EofKept(p))
  <2>1. rd' = Plus(rd, 1)
    BY <1>1, <1>3, Zenon
  <2>2. Ready # <<>> /\ Head(Ready) = c /\ Ready' = Tail(Ready) /\ Typed' = Typed
    BY <1>1, <2>1, TakenViews, Zenon DEF ConsInv
  <2>3. CASE c = "eof"
    <3>1. got' = got /\ got[p] = <<>>
      BY <1>1, <1>3, <2>3, Zenon DEF EofKept
    <3>2. Lines!Fetch(p, FALSE)
      BY <2>2, <2>3, <3>1, Zenon DEF Lines!Fetch, Ready, Typed
    <3> QED BY <3>2, Zenon DEF LineStep, Lines!LNext
  <2>4. CASE c # "eof"
    <3>1. got' = [got EXCEPT ![p] = Append(@, Head(Ready))]
      BY <1>1, <2>2, <2>4, Zenon
    <3>2. Lines!Fetch(p, TRUE)
      BY <2>2, <3>1, Zenon DEF Lines!Fetch, Ready, Typed
    <3> QED BY <3>2, Zenon DEF LineStep, Lines!LNext
  <2> QED BY <2>3, <2>4, Zenon
<1> QED BY <1>2, <1>3, Zenon

\* A new call is an Ask.
LEMMA CallRefines ==
  ASSUME NEW p \in People, NEW n \in Asked, ConsCall(p, n)
  PROVE  LineStep
<1>1. UNCHANGED <<Ready, Typed>> /\ got' = [got EXCEPT ![p] = <<>>]
  BY ViewsUnchanged, Zenon DEF ConsCall
<1>2. Lines!Ask(p)
  BY <1>1, Zenon DEF Lines!Ask, Ready, Typed
<1> QED BY <1>2, Zenon DEF LineStep, Lines!LNext

\* One key.
LEMMA ConsoleintrRefines ==
  ASSUME ConsInv, NEW k \in Keys, Consoleintr(k)
  PROVE  LineStep
<1>1. UNCHANGED got
  BY Zenon DEF Consoleintr
<1>2. CASE k = "kill"
  BY <1>1, <1>2, ViewsUnchanged, Zenon DEF Consoleintr, LineStep
<1>3. CASE k = "bs"
  <2>1. Backspace
    BY <1>3 DEF Consoleintr
  <2> QED BY <1>1, <2>1, EraseRefines, Zenon DEF Backspace
<1>4. CASE k \notin {"kill", "bs"}
  <2>1. Ordinary(k)
    BY <1>4 DEF Consoleintr
  <2> QED BY <1>1, <1>4, <2>1, OrdinaryRefines, Zenon
<1> QED BY <1>2, <1>3, <1>4, Zenon

\* Every step.
LEMMA ConsNextRefines ==
  ASSUME ConsInv, ConsNext
  PROVE  LineStep
<1>1. ASSUME UNCHANGED inputVars, UNCHANGED got PROVE LineStep
  BY <1>1, ViewsUnchanged, Zenon DEF LineStep
<1>2. ASSUME NEW k \in Keys, Consoleintr(k) PROVE LineStep
  BY <1>2, ConsoleintrRefines, Zenon
<1>3. ASSUME NEW p \in People, ConsStep(p) PROVE LineStep
  BY <1>1, <1>3, TakeRefines, Zenon DEF ConsStep, ConsLock, ConsSleep,
     ConsWait
<1>4. ASSUME NEW p \in People, ConsKill(p) PROVE LineStep
  BY <1>1, <1>4, Zenon DEF ConsKill
<1>5. ASSUME NEW p \in People, NEW n \in Asked, ConsCall(p, n) PROVE LineStep
  BY <1>5, CallRefines, Zenon
<1>6. ASSUME KillChar PROVE LineStep
  BY <1>6, EraseRefines, Zenon DEF KillChar, KillMore
<1>7. ASSUME Consolewrite \/ ConsRelease \/ \E c \in {"x", "nl"} : WriteChar(c)
      PROVE  LineStep
  BY <1>1, <1>7, Zenon DEF Consolewrite, ConsRelease, WriteChar
<1> QED BY <1>2, <1>3, <1>4, <1>5, <1>6, <1>7, Zenon DEF ConsNext

\* The ring that consoleintr() fills and consoleread() empties is a line
\* editor: every step of console.c is a step of LineInput or changes nothing
\* that it shows.
THEOREM ConsoleIsLineInput == ConsSpec => IsLineInput
<1>1. ConsInit => Lines!LInit
  <2> SUFFICES ASSUME ConsInit PROVE Lines!LInit
    BY Zenon
  <2>1. 0 \in Counter
    BY ConsNumbers DEF Counter
  <2>2. Minus(wr, rd) = 0 /\ Minus(ed, wr) = 0
    BY <2>1, MinusZero, Zenon DEF ConsInit
  <2>3. Ready = <<>> /\ Typed = <<>>
    BY <2>2 DEF Ready, Typed
  <2> QED BY <2>3, Zenon DEF ConsInit, Lines!LInit, Ready, Typed
<1>2. ASSUME ConsInv, [ConsNext]_consVars
      PROVE  [Lines!LNext]_(Lines!lvars)
  <2>1. ASSUME UNCHANGED consVars PROVE UNCHANGED <<Typed, Ready, got>>
    BY <2>1, ViewsUnchanged, Zenon DEF consVars
  <2>2. LineStep
    BY <1>2, <2>1, ConsNextRefines, Zenon DEF LineStep
  <2> QED BY <2>2, Zenon DEF LineStep, Lines!lvars, Ready, Typed
<1>3. ConsSpec => []ConsInv
  <2>1. ConsInit => ConsInv
    BY ConsInitHolds
  <2>2. ConsInv /\ [ConsNext]_consVars => ConsInv'
    BY ConsStepKeeps
  <2> QED BY <2>1, <2>2, PTL DEF ConsSpec
<1> QED BY <1>1, <1>2, <1>3, PTL DEF ConsSpec, IsLineInput, Lines!LSpec
=============================================================================
