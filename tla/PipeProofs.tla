----------------------------- MODULE PipeProofs -----------------------------
(***************************************************************************)
(* Proofs about Pipe for any number of writers and readers, any PIPESIZE   *)
(* that divides the range of the counters, and any bytes and counts: no    *)
(* process sleeps without a reason, piperead() reports the end of the      *)
(* stream only there, and the ring is a FIFO.                              *)
(***************************************************************************)
EXTENDS Pipe, TLAPS

-----------------------------------------------------------------------------
(* The inductive invariant.                                                *)

\* The part of the type invariant about the ring and its counters, and the
\* part about the processes.
RingOK ==
  /\ ring \in [0 .. PIPESIZE - 1 -> Bytes]
  /\ nread \in 0 .. WRAP - 1 /\ nwrite \in 0 .. WRAP - 1 /\ Count <= PIPESIZE

Locked == {"run", "copy", "doze"}

LockOK == \A p \in Users : at[p] \in Locked <=> plock = p

CtlOK ==
  /\ readopen \in BOOLEAN /\ writeopen \in BOOLEAN
  /\ plock \in Users \cup {Nobody}
  /\ at \in [Users -> Points]
  /\ LockOK
  /\ left \in [Users -> Nat]
  /\ given \in [Readers -> Seq(Bytes)]
  /\ pkilled \subseteq Users

\* Only piperead() copies, and it begins with something to copy or at the end
\* of the stream.
CopyInv ==
  \A p \in Users : at[p] = "copy" =>
    p \in Readers /\ (given[p] = <<>> => ~Empty \/ ~writeopen)

\* What a process has seen before it sleeps is still so: it has p->lock.
DozeInv ==
  \A p \in Users : at[p] = "doze" =>
    IF p \in Readers THEN writeopen /\ Empty ELSE readopen /\ Full

\* A reader sleeps on, with bytes in the pipe, only while a writer that will
\* wake it up still runs, or after a killed one has left.
ReadersInv ==
  \A p \in Readers : at[p] = "asleep" =>
    writeopen /\ (Empty \/ stale \/ \E q \in Writers : at[q] = "run")

\* A writer sleeps on, with room in the pipe, only while a reader still copies.
WritersInv ==
  \A p \in Writers : at[p] = "asleep" =>
    readopen /\ (Full \/ \E q \in Readers : at[q] = "copy")

PipeIInv ==
  /\ PipeTypeOK
  /\ CopyInv
  /\ DozeInv
  /\ ReadersInv
  /\ WritersInv
  /\ stale \in BOOLEAN

LEMMA TypeSplit ==
  /\ PipeTypeOK <=> RingOK /\ CtlOK
  /\ PipeTypeOK' <=> RingOK' /\ CtlOK'
  BY Zenon DEF PipeTypeOK, RingOK, CtlOK, LockOK, Locked

-----------------------------------------------------------------------------
(* The counters: modulo WRAP, which is a multiple of PIPESIZE.             *)

\* The distance between two counters, and the next value of one.
LEMMA Distance ==
  ASSUME NEW r \in 0 .. WRAP - 1, NEW w \in 0 .. WRAP - 1
  PROVE  (w - r) % WRAP = IF w >= r THEN w - r ELSE w - r + WRAP
  BY PipeAssumption

LEMMA Successor ==
  ASSUME NEW x \in 0 .. WRAP - 1
  PROVE  (x + 1) % WRAP = IF x + 1 = WRAP THEN 0 ELSE x + 1
  BY PipeAssumption

LEMMA Ahead ==
  ASSUME NEW x \in 0 .. WRAP - 1
  PROVE  (x + PIPESIZE) % WRAP =
           IF x + PIPESIZE >= WRAP THEN x + PIPESIZE - WRAP ELSE x + PIPESIZE
  BY PipeAssumption

\* The tests of the code for an empty and for a full ring are exact.
LEMMA CountIs ==
  ASSUME RingOK
  PROVE  /\ Count \in 0 .. PIPESIZE
         /\ Empty <=> Count = 0
         /\ Full <=> Count = PIPESIZE
  <1>1. nread \in 0 .. WRAP - 1 /\ nwrite \in 0 .. WRAP - 1
    BY Zenon DEF RingOK
  <1>2. Count = IF nwrite >= nread THEN nwrite - nread ELSE nwrite - nread + WRAP
    BY <1>1, Distance, Zenon DEF Count
  <1>3. Count \in 0 .. PIPESIZE
    BY <1>1, <1>2, PipeAssumption DEF RingOK
  <1>4. Empty <=> Count = 0
    BY <1>1, <1>2, PipeAssumption DEF Empty
  <1>5. Full <=> Count = PIPESIZE
    BY <1>1, <1>2, Ahead, PipeAssumption DEF Full
  <1> QED
    BY <1>3, <1>4, <1>5, Zenon

\* pipewrite() stores a byte: one more.
LEMMA PutCount ==
  ASSUME RingOK, ~Full, nwrite' = (nwrite + 1) % WRAP, UNCHANGED nread
  PROVE  nwrite' \in 0 .. WRAP - 1 /\ Count' = Count + 1
  <1>1. nread \in 0 .. WRAP - 1 /\ nwrite \in 0 .. WRAP - 1
    BY Zenon DEF RingOK
  <1>2. nwrite' = IF nwrite + 1 = WRAP THEN 0 ELSE nwrite + 1
    BY <1>1, Successor, Zenon
  <1>3. nwrite' \in 0 .. WRAP - 1
    BY <1>1, <1>2, PipeAssumption
  <1>4. Count = IF nwrite >= nread THEN nwrite - nread ELSE nwrite - nread + WRAP
    BY <1>1, Distance, Zenon DEF Count
  <1>5. Count' = IF nwrite' >= nread THEN nwrite' - nread
                                     ELSE nwrite' - nread + WRAP
    BY <1>1, <1>3, Distance, Zenon DEF Count
  <1>6. Count < PIPESIZE
    BY CountIs, PipeAssumption
  <1> QED
    BY <1>1, <1>2, <1>3, <1>4, <1>5, <1>6, PipeAssumption

\* piperead() takes a byte: one less.
LEMMA TakeCount ==
  ASSUME RingOK, ~Empty, nread' = (nread + 1) % WRAP, UNCHANGED nwrite
  PROVE  nread' \in 0 .. WRAP - 1 /\ Count' = Count - 1
  <1>1. nread \in 0 .. WRAP - 1 /\ nwrite \in 0 .. WRAP - 1
    BY Zenon DEF RingOK
  <1>2. nread' = IF nread + 1 = WRAP THEN 0 ELSE nread + 1
    BY <1>1, Successor, Zenon
  <1>3. nread' \in 0 .. WRAP - 1
    BY <1>1, <1>2, PipeAssumption
  <1>4. Count = IF nwrite >= nread THEN nwrite - nread ELSE nwrite - nread + WRAP
    BY <1>1, Distance, Zenon DEF Count
  <1>5. Count' = IF nwrite >= nread' THEN nwrite - nread'
                                     ELSE nwrite - nread' + WRAP
    BY <1>1, <1>3, Distance, Zenon DEF Count
  <1>6. nread # nwrite
    BY Zenon DEF Empty
  <1> QED
    BY <1>1, <1>2, <1>3, <1>4, <1>5, <1>6, PipeAssumption

\* A counter that wraps stays on its slot of the ring.
LEMMA WrapSlot ==
  ASSUME NEW x \in Nat
  PROVE  (x + WRAP) % PIPESIZE = x % PIPESIZE
  <1> DEFINE k == WRAP \div PIPESIZE
             q == x \div PIPESIZE
             r == x % PIPESIZE
  <1>1. k \in Int /\ q \in Int /\ r \in 0 .. PIPESIZE - 1
    BY PipeAssumption
  <1>2. WRAP = PIPESIZE * k
    BY PipeAssumption
  <1>3. x = PIPESIZE * q + r
    BY PipeAssumption
  <1> HIDE DEF k, q, r
  <1>4. x + WRAP = PIPESIZE * (q + k) + r
    BY <1>1, <1>2, <1>3, PipeAssumption
  <1>5. (PIPESIZE * (q + k) + r) % PIPESIZE = r
    <2>1. q + k \in Int
      BY <1>1
    <2> QED
      BY <1>1, <2>1, PipeAssumption
  <1>6. (x + WRAP) % PIPESIZE = r
    BY <1>4, <1>5, Zenon
  <1> QED
    BY <1>6, Zenon DEF r

\* Two positions less than PIPESIZE apart are two slots.
LEMMA SlotsDiffer ==
  ASSUME NEW x \in Nat, NEW d \in 1 .. PIPESIZE - 1
  PROVE  (x + d) % PIPESIZE # x % PIPESIZE
  <1> DEFINE q == x \div PIPESIZE
             r == x % PIPESIZE
             t == (x + d) \div PIPESIZE
  <1>1. q \in Int /\ r \in 0 .. PIPESIZE - 1 /\ t \in Int
    BY PipeAssumption
  <1>2. x = PIPESIZE * q + r
    BY PipeAssumption
  <1>3. x + d = PIPESIZE * t + ((x + d) % PIPESIZE)
    BY PipeAssumption
  <1> HIDE DEF q, t
  <1> SUFFICES ASSUME (x + d) % PIPESIZE = r
               PROVE  FALSE
    BY Zenon
  <1>4. d = PIPESIZE * (t - q)
    <2>1. x + d = PIPESIZE * t + r
      BY <1>3, Zenon
    <2> HIDE DEF r
    <2> QED
      BY <1>1, <1>2, <2>1, PipeAssumption
  <1>5. t - q \in Int
    BY <1>1
  <1> QED
    BY <1>4, <1>5, PipeAssumption

-----------------------------------------------------------------------------
(* Steps preserve the invariant.                                           *)

\* Process p goes to w, and the sleepers among ps are woken up.
Moves(p, w, ps) ==
  /\ at' \in [Users -> Points]
  /\ at'[p] = w
  /\ \A q \in Users \ {p} :
       at'[q] = IF q \in ps /\ at[q] = "asleep" THEN "call" ELSE at[q]

LEMMA MoveOne ==
  ASSUME at \in [Users -> Points], NEW p \in Users, NEW w \in Points,
         at' = [at EXCEPT ![p] = w]
  PROVE  Moves(p, w, {})
  BY Zenon DEF Moves

LEMMA MoveAndWake ==
  ASSUME at \in [Users -> Points], NEW p \in Users, NEW w \in Points, NEW ps,
         at' = [Woken(ps) EXCEPT ![p] = w]
  PROVE  Moves(p, w, ps)
  BY Zenon DEF Moves, Woken, Points

\* p->lock is with the process that runs: it stays, is taken or is released.
LEMMA LockKept ==
  ASSUME LockOK, NEW p \in Users, NEW w, NEW ps, Moves(p, w, ps),
         \/ plock' = plock /\ (w \in Locked <=> at[p] \in Locked)
         \/ plock = Nobody /\ plock' = p /\ w \in Locked
         \/ plock = p /\ plock' = Nobody /\ w \notin Locked
  PROVE  LockOK'
  <1>1. \A q \in Users \ {p} : at'[q] \in Locked <=> at[q] \in Locked
    BY Zenon DEF Moves, Locked
  <1>2. Nobody \notin Users
    BY PipeAssumption, Zenon DEF Nobody, Users
  <1> QED
    BY <1>1, <1>2, Zenon DEF LockOK, Moves

LEMMA RingSame ==
  ASSUME RingOK, UNCHANGED ringVars
  PROVE  RingOK' /\ (Empty' <=> Empty) /\ (Full' <=> Full)
  BY Zenon DEF RingOK, ringVars, Empty, Full, Count

LEMMA CallKeeps ==
  ASSUME PipeIInv, NEW p \in Users, NEW n \in Counts, PipeCall(p, n)
  PROVE  PipeIInv'
  <1> USE DEF PipeIInv
  <1>1. RingOK /\ CtlOK
    BY TypeSplit, Zenon
  <1>2. RingOK' /\ (Empty' <=> Empty) /\ (Full' <=> Full)
    BY <1>1, RingSame, Zenon DEF PipeCall
  <1>3. Moves(p, "call", {}) /\ at[p] = "out"
    BY <1>1, MoveOne, Zenon DEF PipeCall, CtlOK, Points
  <1>4. UNCHANGED <<openVars, plock, pkilled, stale>>
    BY Zenon DEF PipeCall
  <1>5. CtlOK'
    <2>1. LockOK'
      BY <1>1, <1>3, <1>4, LockKept, Zenon DEF CtlOK, Locked
    <2>2. left' \in [Users -> Nat]
      BY <1>1, PipeAssumption, Zenon DEF CtlOK, PipeCall
    <2>3. given' \in [Readers -> Seq(Bytes)]
      BY <1>1 DEF CtlOK, PipeCall
    <2> QED
      BY <1>1, <1>3, <1>4, <2>1, <2>2, <2>3, Zenon DEF CtlOK, Moves, openVars
  <1>6. CopyInv'
    <2>1. \A q \in Readers \ {p} : given'[q] = given[q]
      BY Zenon DEF PipeCall
    <2> QED
      BY <1>2, <1>3, <1>4, <2>1, Zenon DEF CopyInv, Moves, openVars
  <1>7. DozeInv' /\ ReadersInv' /\ WritersInv'
    BY <1>2, <1>3, <1>4, Zenon DEF DozeInv, ReadersInv, WritersInv, Moves,
       openVars, Users
  <1> QED
    BY <1>2, <1>4, <1>5, <1>6, <1>7, TypeSplit, Zenon

LEMMA LockKeeps ==
  ASSUME PipeIInv, NEW p \in Users, PipeLock(p)
  PROVE  PipeIInv'
  <1> USE DEF PipeIInv
  <1>1. RingOK /\ CtlOK
    BY TypeSplit, Zenon
  <1>2. RingOK' /\ (Empty' <=> Empty) /\ (Full' <=> Full)
    BY <1>1, RingSame, Zenon DEF PipeLock
  <1>3. Moves(p, "run", {}) /\ at[p] = "call"
    BY <1>1, MoveOne, Zenon DEF PipeLock, CtlOK, Points
  <1>4. UNCHANGED <<openVars, left, given, pkilled, stale>>
    BY Zenon DEF PipeLock
  <1>5. CtlOK'
    <2>1. LockOK'
      BY <1>1, <1>3, LockKept, Zenon DEF CtlOK, Locked, PipeLock
    <2> QED
      BY <1>1, <1>3, <1>4, <2>1, Zenon DEF CtlOK, Moves, openVars, PipeLock
  <1>6. CopyInv' /\ DozeInv'
    BY <1>2, <1>3, <1>4, Zenon DEF CopyInv, DozeInv, Moves, openVars
  <1>7. ReadersInv' /\ WritersInv'
    BY <1>2, <1>3, <1>4, Zenon DEF ReadersInv, WritersInv, Moves, openVars,
       Users
  <1> QED
    BY <1>2, <1>4, <1>5, <1>6, <1>7, TypeSplit, Zenon

LEMMA SleepKeeps ==
  ASSUME PipeIInv, NEW p \in Users, PipeSleep(p)
  PROVE  PipeIInv'
  <1> USE DEF PipeIInv
  <1>1. RingOK /\ CtlOK
    BY TypeSplit, Zenon
  <1>2. RingOK' /\ (Empty' <=> Empty) /\ (Full' <=> Full)
    BY <1>1, RingSame, Zenon DEF PipeSleep
  <1>3. Moves(p, "asleep", {}) /\ at[p] = "doze"
    BY <1>1, MoveOne, Zenon DEF PipeSleep, CtlOK, Points
  <1>4. UNCHANGED <<openVars, left, given, pkilled, stale>>
    BY Zenon DEF PipeSleep
  <1>5. CtlOK'
    <2>1. LockOK'
      BY <1>1, <1>3, LockKept, Zenon DEF CtlOK, LockOK, Locked, PipeSleep
    <2> QED
      BY <1>1, <1>3, <1>4, <2>1, Zenon DEF CtlOK, Moves, openVars, PipeSleep
  <1>6. CopyInv' /\ DozeInv'
    BY <1>2, <1>3, <1>4, Zenon DEF CopyInv, DozeInv, Moves, openVars
  <1>7. IF p \in Readers THEN writeopen /\ Empty ELSE readopen /\ Full
    BY <1>3, Zenon DEF DozeInv
  <1>8. ReadersInv' /\ WritersInv'
    BY <1>2, <1>3, <1>4, <1>7, PipeAssumption, Zenon DEF ReadersInv,
       WritersInv, Moves, openVars, Users
  <1> QED
    BY <1>2, <1>4, <1>5, <1>6, <1>8, TypeSplit, Zenon

\* pipewrite() stores a byte.
LEMMA PutKeeps ==
  ASSUME PipeIInv, NEW p \in Users, NEW b \in Bytes, PutByte(p, b)
  PROVE  PipeIInv'
  <1> USE DEF PipeIInv
  <1>1. RingOK /\ CtlOK
    BY TypeSplit, Zenon
  <1>2. p \in Writers /\ at[p] = "run" /\ plock = p
    BY <1>1, Zenon DEF PutByte, CtlOK, LockOK, Locked
  <1>3. UNCHANGED <<nread, openVars, plock, at, given, pkilled, stale>>
    BY Zenon DEF PutByte
  <1>4. RingOK' /\ Count \in Nat /\ Count' = Count + 1
    <2>1. nwrite' \in 0 .. WRAP - 1 /\ Count' = Count + 1
      BY <1>1, <1>3, PutCount, Zenon DEF PutByte
    <2>2. Count \in 0 .. PIPESIZE /\ Count # PIPESIZE
      BY <1>1, CountIs, Zenon DEF PutByte
    <2>3. ring' \in [0 .. PIPESIZE - 1 -> Bytes]
      BY <1>1, Zenon DEF PutByte, RingOK
    <2> QED
      BY <1>1, <1>3, <2>1, <2>2, <2>3, PipeAssumption DEF RingOK
  <1>5. CtlOK'
    <2>1. left' \in [Users -> Nat]
      BY <1>1 DEF CtlOK, PutByte
    <2> QED
      BY <1>1, <1>3, <2>1, Zenon DEF CtlOK, LockOK, openVars
  <1>6. \A q \in Users : at[q] \in Locked => q = p
    BY <1>1, <1>2, Zenon DEF CtlOK, LockOK
  <1>7. CopyInv' /\ DozeInv'
    BY <1>2, <1>3, <1>6, Zenon DEF CopyInv, DozeInv, Locked
  <1>8. ReadersInv'
    BY <1>2, <1>3, Zenon DEF ReadersInv, openVars
  <1>9. WritersInv'
    <2>1. \A q \in Readers : at[q] # "copy"
      BY <1>2, <1>6, PipeAssumption, Zenon DEF Locked, Users
    <2>2. ~Full
      BY Zenon DEF PutByte
    <2> QED
      BY <1>3, <2>1, <2>2, Zenon DEF WritersInv, Users
  <1> QED
    BY <1>3, <1>4, <1>5, <1>7, <1>8, <1>9, TypeSplit, Zenon

\* pipewrite() finds the ring full.
LEMMA FullKeeps ==
  ASSUME PipeIInv, NEW p \in Users, PipewriteFull(p)
  PROVE  PipeIInv'
  <1> USE DEF PipeIInv
  <1>1. RingOK /\ CtlOK
    BY TypeSplit, Zenon
  <1>2. RingOK' /\ (Empty' <=> Empty) /\ (Full' <=> Full)
    BY <1>1, RingSame, Zenon DEF PipewriteFull
  <1>3. UNCHANGED <<openVars, given, pkilled>> /\ Full
    BY Zenon DEF PipewriteFull
  <1>4. p \in Writers /\ at[p] = "run" /\ plock = p
    BY <1>1, Zenon DEF PipewriteFull, CtlOK, LockOK, Locked
  <1>5. \A q \in Users : at[q] \in Locked => q = p
    BY <1>1, <1>4, Zenon DEF CtlOK, LockOK
  <1>6. CASE ~readopen \/ p \in pkilled
    <2>1. Moves(p, "out", {})
      BY <1>1, <1>6, MoveOne, Zenon DEF PipewriteFull, CtlOK, Points
    <2>2. plock' = Nobody /\ stale' = TRUE
      BY <1>6, Zenon DEF PipewriteFull
    <2>3. CtlOK'
      <3>1. LockOK'
        BY <1>1, <1>4, <2>1, <2>2, LockKept, Zenon DEF CtlOK, Locked
      <3>2. left' \in [Users -> Nat]
        BY <1>1, <1>6 DEF CtlOK, PipewriteFull
      <3> QED
        BY <1>1, <1>3, <2>1, <2>2, <3>1, <3>2, Zenon DEF CtlOK, Moves,
           openVars
    <2>4. CopyInv' /\ DozeInv'
      BY <1>2, <1>5, <2>1, Zenon DEF CopyInv, DozeInv, Moves, Locked
    <2>5. ReadersInv' /\ WritersInv'
      BY <1>2, <1>3, <1>4, <2>1, <2>2, Zenon DEF ReadersInv, WritersInv,
         Moves, openVars, Users
    <2> QED
      BY <1>2, <2>2, <2>3, <2>4, <2>5, TypeSplit, Zenon
  <1>7. CASE readopen /\ p \notin pkilled
    <2>1. Moves(p, "doze", Readers)
      BY <1>1, <1>7, MoveAndWake, Zenon DEF PipewriteFull, CtlOK, Points
    <2>2. stale' = FALSE /\ UNCHANGED <<left, plock>>
      BY <1>7, Zenon DEF PipewriteFull
    <2>3. CtlOK'
      <3>1. LockOK'
        BY <1>1, <1>4, <2>1, <2>2, LockKept, Zenon DEF CtlOK, Locked
      <3> QED
        BY <1>1, <1>3, <2>1, <2>2, <3>1, Zenon DEF CtlOK, Moves, openVars
    <2>4. CopyInv'
      BY <1>5, <2>1, Zenon DEF CopyInv, Moves, Locked
    <2>5. DozeInv'
      BY <1>2, <1>3, <1>4, <1>5, <1>7, <2>1, PipeAssumption, Zenon DEF
         DozeInv, Moves, Locked, openVars
    <2>6. ReadersInv' /\ WritersInv'
      BY <1>2, <1>3, <1>4, <2>1, PipeAssumption, Zenon DEF ReadersInv,
         WritersInv, Moves, openVars, Users
    <2> QED
      BY <1>2, <2>2, <2>3, <2>4, <2>5, <2>6, TypeSplit, Zenon
  <1> QED
    BY <1>6, <1>7, Zenon

\* pipewrite() has stored all its bytes.
LEMMA WroteKeeps ==
  ASSUME PipeIInv, NEW p \in Users, PipewriteDone(p)
  PROVE  PipeIInv'
  <1> USE DEF PipeIInv
  <1>1. RingOK /\ CtlOK
    BY TypeSplit, Zenon
  <1>2. RingOK' /\ (Empty' <=> Empty) /\ (Full' <=> Full)
    BY <1>1, RingSame, Zenon DEF PipewriteDone
  <1>3. UNCHANGED <<openVars, left, given, pkilled>> /\ stale' = FALSE
    BY Zenon DEF PipewriteDone
  <1>4. p \in Writers /\ at[p] = "run" /\ plock = p /\ plock' = Nobody
    BY <1>1, Zenon DEF PipewriteDone, CtlOK, LockOK, Locked
  <1>5. \A q \in Users : at[q] \in Locked => q = p
    BY <1>1, <1>4, Zenon DEF CtlOK, LockOK
  <1>6. Moves(p, "out", Readers)
    BY <1>1, MoveAndWake, Zenon DEF PipewriteDone, CtlOK, Points
  <1>7. CtlOK'
    <2>1. LockOK'
      BY <1>1, <1>4, <1>6, LockKept, Zenon DEF CtlOK, Locked
    <2> QED
      BY <1>1, <1>3, <1>4, <1>6, <2>1, Zenon DEF CtlOK, Moves, openVars
  <1>8. CopyInv' /\ DozeInv'
    BY <1>5, <1>6, Zenon DEF CopyInv, DozeInv, Moves, Locked
  <1>9. ReadersInv' /\ WritersInv'
    BY <1>2, <1>3, <1>4, <1>6, PipeAssumption, Zenon DEF ReadersInv,
       WritersInv, Moves, openVars, Users
  <1> QED
    BY <1>2, <1>3, <1>7, <1>8, <1>9, TypeSplit, Zenon

\* piperead() finds the ring empty with the write end open.
LEMMA WaitKeeps ==
  ASSUME PipeIInv, NEW p \in Users, PipereadWait(p)
  PROVE  PipeIInv'
  <1> USE DEF PipeIInv
  <1>1. RingOK /\ CtlOK
    BY TypeSplit, Zenon
  <1>2. RingOK' /\ (Empty' <=> Empty) /\ (Full' <=> Full)
    BY <1>1, RingSame, Zenon DEF PipereadWait
  <1>3. UNCHANGED <<openVars, given, pkilled, stale>> /\ Empty /\ writeopen
    BY Zenon DEF PipereadWait, MustWait
  <1>4. p \in Readers /\ at[p] = "run" /\ plock = p
    BY <1>1, Zenon DEF PipereadWait, CtlOK, LockOK, Locked
  <1>5. \A q \in Users : at[q] \in Locked => q = p
    BY <1>1, <1>4, Zenon DEF CtlOK, LockOK
  <1>6. CASE p \in pkilled
    <2>1. Moves(p, "out", {}) /\ plock' = Nobody
      BY <1>1, <1>6, MoveOne, Zenon DEF PipereadWait, CtlOK, Points
    <2>2. CtlOK'
      <3>1. LockOK'
        BY <1>1, <1>4, <2>1, LockKept, Zenon DEF CtlOK, Locked
      <3>2. left' \in [Users -> Nat]
        BY <1>1, <1>6 DEF CtlOK, PipereadWait
      <3> QED
        BY <1>1, <1>3, <2>1, <3>1, <3>2, Zenon DEF CtlOK, Moves, openVars
    <2>3. CopyInv' /\ DozeInv'
      BY <1>5, <2>1, Zenon DEF CopyInv, DozeInv, Moves, Locked
    <2>4. ReadersInv' /\ WritersInv'
      BY <1>2, <1>3, <1>4, <2>1, Zenon DEF ReadersInv, WritersInv, Moves,
         openVars, Users
    <2> QED
      BY <1>2, <1>3, <2>2, <2>3, <2>4, TypeSplit, Zenon
  <1>7. CASE p \notin pkilled
    <2>1. Moves(p, "doze", {}) /\ UNCHANGED <<left, plock>>
      BY <1>1, <1>7, MoveOne, Zenon DEF PipereadWait, CtlOK, Points
    <2>2. CtlOK'
      <3>1. LockOK'
        BY <1>1, <1>4, <2>1, LockKept, Zenon DEF CtlOK, Locked
      <3> QED
        BY <1>1, <1>3, <2>1, <3>1, Zenon DEF CtlOK, Moves, openVars
    <2>3. CopyInv'
      BY <1>5, <2>1, Zenon DEF CopyInv, Moves, Locked
    <2>4. DozeInv'
      BY <1>2, <1>3, <1>4, <1>5, <2>1, Zenon DEF DozeInv, Moves, Locked,
         openVars
    <2>5. ReadersInv' /\ WritersInv'
      BY <1>2, <1>3, <1>4, <2>1, Zenon DEF ReadersInv, WritersInv, Moves,
         openVars, Users
    <2> QED
      BY <1>2, <1>3, <2>2, <2>3, <2>4, <2>5, TypeSplit, Zenon
  <1> QED
    BY <1>6, <1>7, Zenon

\* piperead() leaves its loop.
LEMMA StartKeeps ==
  ASSUME PipeIInv, NEW p \in Users, PipereadStart(p)
  PROVE  PipeIInv'
  <1> USE DEF PipeIInv
  <1>1. RingOK /\ CtlOK
    BY TypeSplit, Zenon
  <1>2. RingOK' /\ (Empty' <=> Empty) /\ (Full' <=> Full)
    BY <1>1, RingSame, Zenon DEF PipereadStart
  <1>3. UNCHANGED <<openVars, plock, left, given, pkilled, stale>>
    BY Zenon DEF PipereadStart
  <1>4. p \in Readers /\ at[p] = "run" /\ plock = p /\ (~Empty \/ ~writeopen)
    BY <1>1, Zenon DEF PipereadStart, MustWait, CtlOK, LockOK, Locked
  <1>5. \A q \in Users : at[q] \in Locked => q = p
    BY <1>1, <1>4, Zenon DEF CtlOK, LockOK
  <1>6. Moves(p, "copy", {})
    BY <1>1, MoveOne, Zenon DEF PipereadStart, CtlOK, Points
  <1>7. CtlOK'
    <2>1. LockOK'
      BY <1>1, <1>3, <1>4, <1>6, LockKept, Zenon DEF CtlOK, Locked
    <2> QED
      BY <1>1, <1>3, <1>6, <2>1, Zenon DEF CtlOK, Moves, openVars
  <1>8. CopyInv' /\ DozeInv'
    BY <1>2, <1>3, <1>4, <1>5, <1>6, Zenon DEF CopyInv, DozeInv, Moves,
       Locked, openVars
  <1>9. ReadersInv' /\ WritersInv'
    BY <1>2, <1>3, <1>4, <1>6, PipeAssumption, Zenon DEF ReadersInv,
       WritersInv, Moves, openVars, Users
  <1> QED
    BY <1>2, <1>3, <1>7, <1>8, <1>9, TypeSplit, Zenon

\* piperead() takes a byte.
LEMMA TakeKeeps ==
  ASSUME PipeIInv, NEW p \in Users, TakeByte(p)
  PROVE  PipeIInv'
  <1> USE DEF PipeIInv
  <1>1. RingOK /\ CtlOK
    BY TypeSplit, Zenon
  <1>2. p \in Readers /\ at[p] = "copy" /\ plock = p /\ ~Empty
    BY <1>1, Zenon DEF TakeByte, CtlOK, LockOK, Locked, CopyInv
  <1>3. UNCHANGED <<ring, nwrite, openVars, plock, at, pkilled, stale>>
    BY Zenon DEF TakeByte
  <1>4. RingOK'
    <2>1. nread' \in 0 .. WRAP - 1 /\ Count' = Count - 1
      BY <1>1, <1>2, <1>3, TakeCount, Zenon DEF TakeByte
    <2>2. Count \in 0 .. PIPESIZE
      BY <1>1, CountIs, Zenon
    <2> QED
      BY <1>1, <1>3, <2>1, <2>2, PipeAssumption DEF RingOK
  <1>5. given' \in [Readers -> Seq(Bytes)] /\ given'[p] # <<>>
    <2>1. Slot(nread) \in 0 .. PIPESIZE - 1
      BY <1>1, PipeAssumption DEF RingOK, Slot
    <2>2. ring[Slot(nread)] \in Bytes
      BY <1>1, <2>1, Zenon DEF RingOK
    <2>3. given[p] \in Seq(Bytes)
      BY <1>1, <1>2, Zenon DEF CtlOK
    <2>4. /\ Append(given[p], ring[Slot(nread)]) \in Seq(Bytes)
          /\ Append(given[p], ring[Slot(nread)]) # <<>>
      BY <2>2, <2>3
    <2>5. given' = [given EXCEPT ![p] = Append(given[p], ring[Slot(nread)])]
      BY Zenon DEF TakeByte
    <2> QED
      BY <1>1, <1>2, <2>4, <2>5, Zenon DEF CtlOK
  <1>6. CtlOK'
    <2>1. left' \in [Users -> Nat]
      BY <1>1 DEF CtlOK, TakeByte
    <2> QED
      BY <1>1, <1>3, <1>5, <2>1, Zenon DEF CtlOK, LockOK, openVars
  <1>7. \A q \in Users : at[q] \in Locked => q = p
    BY <1>1, <1>2, Zenon DEF CtlOK, LockOK
  <1>8. CopyInv' /\ DozeInv'
    BY <1>2, <1>3, <1>5, <1>7, Zenon DEF CopyInv, DozeInv, Locked
  <1>9. ReadersInv' /\ WritersInv'
    BY <1>2, <1>3, <1>7, PipeAssumption, Zenon DEF ReadersInv, WritersInv,
       openVars, Locked, Users
  <1> QED
    BY <1>3, <1>4, <1>6, <1>8, <1>9, TypeSplit, Zenon

\* piperead() returns what it has copied.
LEMMA ReadKeeps ==
  ASSUME PipeIInv, NEW p \in Users, PipereadDone(p)
  PROVE  PipeIInv'
  <1> USE DEF PipeIInv
  <1>1. RingOK /\ CtlOK
    BY TypeSplit, Zenon
  <1>2. RingOK' /\ (Empty' <=> Empty) /\ (Full' <=> Full)
    BY <1>1, RingSame, Zenon DEF PipereadDone
  <1>3. UNCHANGED <<openVars, given, pkilled, stale>>
    BY Zenon DEF PipereadDone
  <1>4. p \in Readers /\ at[p] = "copy" /\ plock = p /\ plock' = Nobody
    BY <1>1, Zenon DEF PipereadDone, CtlOK, LockOK, Locked, CopyInv
  <1>5. \A q \in Users : at[q] \in Locked => q = p
    BY <1>1, <1>4, Zenon DEF CtlOK, LockOK
  <1>6. Moves(p, "out", Writers)
    BY <1>1, MoveAndWake, Zenon DEF PipereadDone, CtlOK, Points
  <1>7. CtlOK'
    <2>1. LockOK'
      BY <1>1, <1>4, <1>6, LockKept, Zenon DEF CtlOK, Locked
    <2>2. left' \in [Users -> Nat]
      BY <1>1, Zenon DEF CtlOK, PipereadDone
    <2> QED
      BY <1>1, <1>3, <1>4, <1>6, <2>1, <2>2, Zenon DEF CtlOK, Moves, openVars
  <1>8. CopyInv' /\ DozeInv'
    BY <1>5, <1>6, Zenon DEF CopyInv, DozeInv, Moves, Locked
  <1>9. ReadersInv' /\ WritersInv'
    BY <1>2, <1>3, <1>4, <1>6, PipeAssumption, Zenon DEF ReadersInv,
       WritersInv, Moves, openVars, Users
  <1> QED
    BY <1>2, <1>3, <1>7, <1>8, <1>9, TypeSplit, Zenon

\* pipeclose(), or a close that is not the last of its end.
LEMMA CloseKeeps ==
  ASSUME PipeIInv, NEW p \in Users, Pipeclose(p)
  PROVE  PipeIInv'
  <1> USE DEF PipeIInv
  <1> DEFINE last(ps) == p \in ps /\ \A q \in ps \ {p} : at[q] = "gone"
  <1>1. RingOK /\ CtlOK
    BY TypeSplit, Zenon
  <1>2. RingOK' /\ (Empty' <=> Empty) /\ (Full' <=> Full)
    BY <1>1, RingSame, Zenon DEF Pipeclose
  <1>3. UNCHANGED <<plock, left, given, pkilled>> /\ plock = Nobody
    BY Zenon DEF Pipeclose
  <1>4. at[p] = "out"
    BY Zenon DEF Pipeclose
  <1>5. \A q \in Users : at[q] \notin Locked
    <2>1. Nobody \notin Users
      BY PipeAssumption, Zenon DEF Nobody, Users
    <2> QED
      BY <1>1, <1>3, <2>1, Zenon DEF CtlOK, LockOK
  <1>6. /\ writeopen' = (writeopen /\ ~last(Writers))
        /\ readopen' = (readopen /\ ~last(Readers))
        /\ stale' = (stale /\ ~last(Writers))
    BY Zenon DEF Pipeclose
  <1>7. /\ writeopen' \in BOOLEAN /\ readopen' \in BOOLEAN /\ stale' \in BOOLEAN
        /\ ~last(Writers) => (writeopen' <=> writeopen) /\ (stale' <=> stale)
        /\ ~last(Readers) => (readopen' <=> readopen)
    BY <1>1, <1>6, Zenon DEF CtlOK
  <1>8. PICK ps \in {{}, Readers, Writers} :
          /\ Moves(p, "gone", ps)
          /\ last(Writers) => ps = Readers
          /\ last(Readers) => ps = Writers
    <2>1. CASE ~last(Writers) /\ ~last(Readers)
      <3>1. at' = [at EXCEPT ![p] = "gone"]
        BY <2>1, Zenon DEF Pipeclose
      <3>2. Moves(p, "gone", {})
        BY <1>1, <3>1, MoveOne, Zenon DEF CtlOK, Points
      <3> QED
        BY <2>1, <3>2, Zenon
    <2>2. CASE last(Writers)
      <3>1. at' = [Woken(Readers) EXCEPT ![p] = "gone"]
        BY <2>2, Zenon DEF Pipeclose, Told
      <3>2. Moves(p, "gone", Readers)
        BY <1>1, <3>1, MoveAndWake, Zenon DEF CtlOK, Points
      <3>3. ~last(Readers)
        BY <2>2, PipeAssumption, Zenon
      <3> QED
        BY <3>2, <3>3, Zenon
    <2>3. CASE last(Readers)
      <3>1. p \notin Writers
        BY <2>3, PipeAssumption, Zenon
      <3>2. at' = [Woken(Writers) EXCEPT ![p] = "gone"]
        BY <2>3, <3>1, Zenon DEF Pipeclose, Told
      <3>3. Moves(p, "gone", Writers)
        BY <1>1, <3>2, MoveAndWake, Zenon DEF CtlOK, Points
      <3> QED
        BY <3>1, <3>3, Zenon
    <2> QED
      BY <2>1, <2>2, <2>3, Zenon
  <1> HIDE DEF last
  <1>9. CtlOK'
    <2>1. LockOK'
      BY <1>1, <1>3, <1>4, <1>8, LockKept, Zenon DEF CtlOK, Locked
    <2> QED
      BY <1>1, <1>3, <1>7, <1>8, <2>1, Zenon DEF CtlOK, Moves
  <1>10. CopyInv' /\ DozeInv'
    BY <1>5, <1>8, Zenon DEF CopyInv, DozeInv, Moves, Locked
  <1>11. ReadersInv'
    BY <1>2, <1>5, <1>7, <1>8, Zenon DEF ReadersInv, Moves, Users, Locked
  <1>12. WritersInv'
    BY <1>2, <1>5, <1>7, <1>8, Zenon DEF WritersInv, Moves, Users, Locked
  <1> QED
    BY <1>2, <1>7, <1>9, <1>10, <1>11, <1>12, TypeSplit, Zenon

\* kill() takes no lock: it comes between any two steps.
LEMMA KillKeeps ==
  ASSUME PipeIInv, NEW p \in Users, PipeKill(p)
  PROVE  PipeIInv'
  <1> USE DEF PipeIInv
  <1> DEFINE w == IF at[p] = "asleep" THEN "call" ELSE at[p]
  <1>1. RingOK /\ CtlOK
    BY TypeSplit, Zenon
  <1>2. RingOK' /\ (Empty' <=> Empty) /\ (Full' <=> Full)
    BY <1>1, RingSame, Zenon DEF PipeKill
  <1>3. UNCHANGED <<openVars, plock, left, given, stale>>
    BY Zenon DEF PipeKill
  <1>4. Moves(p, w, {})
    BY <1>1, Zenon DEF PipeKill, Woken, Moves, CtlOK, Points
  <1>5. CtlOK'
    <2>1. LockOK'
      BY <1>1, <1>3, <1>4, LockKept, Zenon DEF CtlOK, Locked
    <2>2. pkilled' \subseteq Users
      BY <1>1, Zenon DEF CtlOK, PipeKill
    <2> QED
      BY <1>1, <1>3, <1>4, <2>1, <2>2, Zenon DEF CtlOK, Moves, openVars
  <1>6. CopyInv' /\ DozeInv'
    BY <1>2, <1>3, <1>4, Zenon DEF CopyInv, DozeInv, Moves, openVars
  <1>7. ReadersInv' /\ WritersInv'
    BY <1>2, <1>3, <1>4, Zenon DEF ReadersInv, WritersInv, Moves, openVars,
       Users
  <1> QED
    BY <1>2, <1>3, <1>5, <1>6, <1>7, TypeSplit, Zenon

-----------------------------------------------------------------------------
(* The theorems.                                                           *)

LEMMA InitHolds == PipeInit => PipeIInv
  <1> SUFFICES ASSUME PipeInit
               PROVE  PipeIInv
    BY Zenon
  <1>1. RingOK
    <2>1. (CHOOSE b \in Bytes : TRUE) \in Bytes
      BY PipeAssumption, Zenon
    <2>2. ring \in [0 .. PIPESIZE - 1 -> Bytes]
      BY <2>1, Zenon DEF PipeInit
    <2>3. Count = 0
      BY PipeAssumption DEF Count, PipeInit
    <2> QED
      BY <2>2, <2>3, PipeAssumption DEF RingOK, PipeInit
  <1>2. CtlOK
    <2>1. Nobody \notin Users
      BY PipeAssumption, Zenon DEF Nobody, Users
    <2>2. LockOK
      BY <2>1, Zenon DEF LockOK, Locked, PipeInit
    <2>3. given \in [Readers -> Seq(Bytes)]
      BY DEF PipeInit
    <2> QED
      BY <2>2, <2>3, Zenon DEF CtlOK, PipeInit, Points
  <1>3. CopyInv /\ DozeInv /\ ReadersInv /\ WritersInv
    BY Zenon DEF CopyInv, DozeInv, ReadersInv, WritersInv, PipeInit, Users
  <1> QED
    BY <1>1, <1>2, <1>3, TypeSplit, Zenon DEF PipeIInv, PipeInit

\* The steps of the pipe, by name.
LEMMA StepCases ==
  ASSUME PipeNext
  PROVE  \E p \in Users :
           \/ PipeLock(p) \/ PipeSleep(p)
           \/ \E b \in Bytes : PutByte(p, b)
           \/ PipewriteFull(p) \/ PipewriteDone(p)
           \/ PipereadWait(p) \/ PipereadStart(p)
           \/ TakeByte(p) \/ PipereadDone(p)
           \/ Pipeclose(p) \/ PipeKill(p)
           \/ \E n \in Counts : PipeCall(p, n)
  BY Zenon DEF PipeNext, PipeStep

LEMMA NextKeeps == PipeIInv /\ [PipeNext]_pipeVars => PipeIInv'
  <1>1. ASSUME PipeIInv, PipeNext
        PROVE  PipeIInv'
    BY <1>1, StepCases, CallKeeps, LockKeeps, SleepKeeps, PutKeeps, FullKeeps,
       WroteKeeps, WaitKeeps, StartKeeps, TakeKeeps, ReadKeeps, CloseKeeps,
       KillKeeps, Zenon
  <1>2. ASSUME PipeIInv, UNCHANGED pipeVars
        PROVE  PipeIInv'
    <2>1. RingOK' /\ (Empty' <=> Empty) /\ (Full' <=> Full)
      BY <1>2, RingSame, TypeSplit, Zenon DEF PipeIInv, pipeVars
    <2>2. CtlOK'
      BY <1>2, TypeSplit, Zenon DEF PipeIInv, CtlOK, LockOK, pipeVars,
         openVars
    <2>3. CopyInv' /\ DozeInv' /\ ReadersInv' /\ WritersInv' /\ stale' \in BOOLEAN
      BY <1>2, <2>1, Zenon DEF PipeIInv, CopyInv, DozeInv, ReadersInv,
         WritersInv, pipeVars, openVars
    <2> QED
      BY <2>1, <2>2, <2>3, TypeSplit, Zenon DEF PipeIInv
  <1> QED
    BY <1>1, <1>2, Zenon

LEMMA PipeInvariant == PipeSpec => []PipeIInv
  BY InitHolds, NextKeeps, PTL DEF PipeSpec

\* For any writers and readers, whoever is killed and whenever an end is
\* closed: nwrite is never more than PIPESIZE ahead of nread, and while nobody
\* has p->lock a reader sleeps only on an empty pipe that may still be written,
\* or one that a killed writer left full, and a writer only on a full pipe that
\* may still be read.
THEOREM PipeStaysConsistent == PipeSpec => []PipeConsistent
  <1>1. PipeIInv => PipeConsistent
    <2> SUFFICES ASSUME PipeIInv, NEW p \in Users,
                        at[p] = "asleep", plock = Nobody
                 PROVE  IF p \in Readers THEN writeopen /\ (Empty \/ stale)
                                         ELSE readopen /\ Full
      BY Zenon DEF PipeIInv, PipeConsistent, SleepJustified
    <2>1. \A q \in Users : at[q] # "run" /\ at[q] # "copy"
      <3>1. Nobody \notin Users
        BY PipeAssumption, Zenon DEF Nobody, Users
      <3> QED
        BY <3>1, TypeSplit, Zenon DEF PipeIInv, CtlOK, LockOK, Locked
    <2> QED
      BY <2>1, Zenon DEF PipeIInv, ReadersInv, WritersInv, Users
  <1> QED
    BY <1>1, PipeInvariant, PTL

\* Only the return of piperead() takes a process from copying out of the call.
LEMMA CopyEnds ==
  ASSUME PipeIInv, PipeNext, NEW p \in Readers,
         at[p] = "copy", at'[p] = "out"
  PROVE  PipereadDone(p)
  <1>1. at \in [Users -> Points] /\ p \in Users
    BY TypeSplit, Zenon DEF PipeIInv, CtlOK, Users
  <1>2. PICK q \in Users :
          \/ PipeLock(q) \/ PipeSleep(q)
          \/ \E b \in Bytes : PutByte(q, b)
          \/ PipewriteFull(q) \/ PipewriteDone(q)
          \/ PipereadWait(q) \/ PipereadStart(q)
          \/ TakeByte(q) \/ PipereadDone(q)
          \/ Pipeclose(q) \/ PipeKill(q)
          \/ \E n \in Counts : PipeCall(q, n)
    BY StepCases, Zenon
  <1>3. ~PipeLock(q) /\ ~PipeSleep(q)
    BY <1>1, Zenon DEF PipeLock, PipeSleep
  <1>4. \A n \in Counts : ~PipeCall(q, n)
    BY <1>1, Zenon DEF PipeCall
  <1>5. (\A b \in Bytes : ~PutByte(q, b)) /\ ~TakeByte(q)
    BY Zenon DEF PutByte, TakeByte
  <1>6. ~PipewriteFull(q)
    BY <1>1, Zenon DEF PipewriteFull, Woken
  <1>7. ~PipewriteDone(q)
    BY <1>1, Zenon DEF PipewriteDone, Woken
  <1>8. ~PipereadWait(q) /\ ~PipereadStart(q)
    BY <1>1, Zenon DEF PipereadWait, PipereadStart
  <1>9. ~Pipeclose(q) /\ ~PipeKill(q)
    BY <1>1, Zenon DEF Pipeclose, PipeKill, Told, Woken
  <1>10. PipereadDone(q) => q = p
    BY <1>1, Zenon DEF PipereadDone, Woken
  <1> QED
    BY <1>2, <1>3, <1>4, <1>5, <1>6, <1>7, <1>8, <1>9, <1>10, Zenon

\* piperead() returns 0 to a caller that asked for more only after the last
\* writer has closed its end and all that was written has been read.
THEOREM EofIsTheEnd == PipeSpec => ZeroMeansEof
  <1>1. ASSUME PipeIInv, [PipeNext]_pipeVars
        PROVE  [\A p \in Readers :
                  at[p] = "copy" /\ at'[p] = "out" /\ given[p] = <<>>
                    /\ left[p] > 0 => ~writeopen /\ Empty]_pipeVars
    <2> SUFFICES ASSUME PipeNext, NEW p \in Readers, at[p] = "copy",
                        at'[p] = "out", given[p] = <<>>, left[p] > 0
                 PROVE  ~writeopen /\ Empty
      BY <1>1, Zenon
    <2>1. left[p] = 0 \/ Empty
      BY <1>1, CopyEnds, Zenon DEF PipereadDone
    <2>2. p \in Users /\ CopyInv
      BY <1>1, Zenon DEF PipeIInv, Users
    <2> QED
      BY <2>1, <2>2 DEF CopyInv
  <1> QED
    BY <1>1, PipeInvariant, PTL DEF PipeSpec, ZeroMeansEof

-----------------------------------------------------------------------------
(* The ring implements Fifo.                                               *)

LEMMA PendingFacts ==
  ASSUME RingOK
  PROVE  /\ Pending \in Seq(Bytes) /\ Len(Pending) = Count
         /\ \A i \in 1 .. Count : Pending[i] = ring[(nread + i - 1) % PIPESIZE]
  <1>1. Count \in Nat
    BY CountIs, PipeAssumption
  <1>2. \A i \in 1 .. Count : ring[(nread + i - 1) % PIPESIZE] \in Bytes
    <2> SUFFICES ASSUME NEW i \in 1 .. Count
                 PROVE  ring[(nread + i - 1) % PIPESIZE] \in Bytes
      BY Zenon
    <2>1. nread + i - 1 \in Nat
      BY <1>1 DEF RingOK
    <2>2. (nread + i - 1) % PIPESIZE \in 0 .. PIPESIZE - 1
      BY <2>1, PipeAssumption
    <2> QED
      BY <2>2, Zenon DEF RingOK
  <1>3. Pending \in [1 .. Count -> Bytes]
    BY <1>2, Zenon DEF Pending
  <1>4. Pending \in Seq(Bytes) /\ Len(Pending) = Count
    BY <1>1, <1>3
  <1> QED
    BY <1>4, Zenon DEF Pending

LEMMA SeqEqual ==
  ASSUME NEW S, NEW s \in Seq(S), NEW t \in Seq(S), Len(s) = Len(t),
         \A i \in 1 .. Len(s) : s[i] = t[i]
  PROVE  s = t
  OBVIOUS

LEMMA PendingFactsNext ==
  RingOK' =>
         /\ Pending' \in Seq(Bytes) /\ Len(Pending') = Count'
         /\ \A i \in 1 .. Count' :
              Pending'[i] = ring'[(nread' + i - 1) % PIPESIZE]
  <1> DEFINE P == /\ Pending \in Seq(Bytes) /\ Len(Pending) = Count
                  /\ \A i \in 1 .. Count :
                       Pending[i] = ring[(nread + i - 1) % PIPESIZE]
  <1>1. RingOK => P
    BY PendingFacts, Zenon
  <1> HIDE DEF P
  <1>2. RingOK' => P'
    BY <1>1, PTL
  <1> QED
    BY <1>2, Zenon DEF P

\* pipewrite() appends: the slot it fills is none of those in use.
LEMMA PutPending ==
  ASSUME RingOK, RingOK', NEW b \in Bytes, ~Full, UNCHANGED nread,
         ring' = [ring EXCEPT ![Slot(nwrite)] = b],
         nwrite' = (nwrite + 1) % WRAP
  PROVE  Len(Pending) < PIPESIZE /\ Pending' = Append(Pending, b)
  <1>1. Count' = Count + 1
    BY PutCount, Zenon
  <1>2. Count \in Nat /\ Count < PIPESIZE
    BY CountIs, PipeAssumption
  <1>3. nread \in Nat /\ nread < WRAP /\ nwrite \in Nat /\ nwrite < WRAP
    BY PipeAssumption DEF RingOK
  <1>4. Slot(nwrite) = (nread + Count) % PIPESIZE
    <2>1. Count = IF nwrite >= nread THEN nwrite - nread
                                     ELSE nwrite - nread + WRAP
      BY <1>3, Distance, PipeAssumption, Zenon DEF Count, RingOK
    <2>2. nread + Count = nwrite \/ nread + Count = nwrite + WRAP
      BY <1>2, <1>3, <2>1, PipeAssumption
    <2> QED
      BY <1>3, <2>2, WrapSlot, Zenon DEF Slot
  <1>5. \A i \in 1 .. Count : (nread + i - 1) % PIPESIZE # Slot(nwrite)
    <2> SUFFICES ASSUME NEW i \in 1 .. Count
                 PROVE  (nread + i - 1) % PIPESIZE # Slot(nwrite)
      BY Zenon
    <2>1. /\ nread + i - 1 \in Nat /\ Count - i + 1 \in 1 .. PIPESIZE - 1
          /\ (nread + i - 1) + (Count - i + 1) = nread + Count
      BY <1>2, <1>3, PipeAssumption
    <2>2. ((nread + i - 1) + (Count - i + 1)) % PIPESIZE
            # (nread + i - 1) % PIPESIZE
      BY <2>1, SlotsDiffer, Zenon
    <2> QED
      BY <1>4, <2>1, <2>2, Zenon
  <1>6. /\ Pending \in Seq(Bytes) /\ Len(Pending) = Count
        /\ \A i \in 1 .. Count : Pending[i] = ring[(nread + i - 1) % PIPESIZE]
    BY PendingFacts, Zenon
  <1>7. /\ Pending' \in Seq(Bytes) /\ Len(Pending') = Count + 1
        /\ \A i \in 1 .. Count + 1 :
             Pending'[i] = ring'[(nread + i - 1) % PIPESIZE]
    BY <1>1, PendingFactsNext, Zenon
  <1>8. \A i \in 1 .. Count : Pending'[i] = Pending[i]
    <2> SUFFICES ASSUME NEW i \in 1 .. Count
                 PROVE  Pending'[i] = Pending[i]
      BY Zenon
    <2>1. i \in 1 .. Count + 1
      BY <1>2
    <2>2. (nread + i - 1) % PIPESIZE \in 0 .. PIPESIZE - 1
      BY <1>2, <1>3, PipeAssumption
    <2>3. ring'[(nread + i - 1) % PIPESIZE] = ring[(nread + i - 1) % PIPESIZE]
      BY <1>5, <2>2, Zenon DEF RingOK
    <2> QED
      BY <1>6, <1>7, <2>1, <2>3, Zenon
  <1>9. Pending'[Count + 1] = b
    <2>1. Count + 1 \in 1 .. Count + 1 /\ nread + (Count + 1) - 1 = nread + Count
      BY <1>2, <1>3
    <2>2. Slot(nwrite) \in 0 .. PIPESIZE - 1
      BY <1>3, PipeAssumption DEF Slot
    <2>3. ring'[Slot(nwrite)] = b
      BY <2>2, Zenon DEF RingOK
    <2> QED
      BY <1>4, <1>7, <2>1, <2>3, Zenon
  <1>10. /\ Append(Pending, b) \in Seq(Bytes)
         /\ Len(Append(Pending, b)) = Count + 1
         /\ \A i \in 1 .. Count : Append(Pending, b)[i] = Pending[i]
         /\ Append(Pending, b)[Count + 1] = b
    BY <1>2, <1>6
  <1>11. \A i \in 1 .. Count + 1 : Pending'[i] = Append(Pending, b)[i]
    BY <1>2, <1>8, <1>9, <1>10
  <1>12. Pending' = Append(Pending, b)
    BY <1>7, <1>10, <1>11, SeqEqual, Zenon
  <1> QED
    BY <1>2, <1>6, <1>12, Zenon

\* piperead() takes from the front, also when nread wraps.
LEMMA TakePending ==
  ASSUME RingOK, RingOK', ~Empty, UNCHANGED <<ring, nwrite>>,
         nread' = (nread + 1) % WRAP
  PROVE  /\ Pending # <<>> /\ Head(Pending) = ring[Slot(nread)]
         /\ Pending' = Tail(Pending)
  <1>1. Count' = Count - 1
    BY TakeCount, Zenon
  <1>2. Count \in Nat /\ Count > 0
    BY CountIs, PipeAssumption
  <1>3. nread \in Nat /\ nread < WRAP
    BY PipeAssumption DEF RingOK
  <1>4. \A i \in 1 .. Count - 1 :
          (nread' + i - 1) % PIPESIZE = (nread + i) % PIPESIZE
    <2> SUFFICES ASSUME NEW i \in 1 .. Count - 1
                 PROVE  (nread' + i - 1) % PIPESIZE = (nread + i) % PIPESIZE
      BY Zenon
    <2>1. nread' = IF nread + 1 = WRAP THEN 0 ELSE nread + 1
      BY <1>3, Successor, PipeAssumption, Zenon DEF RingOK
    <2>2. CASE nread + 1 = WRAP
      <3>1. nread + i = (i - 1) + WRAP /\ nread' + i - 1 = i - 1 /\ i - 1 \in Nat
        BY <1>2, <1>3, <2>1, <2>2, PipeAssumption
      <3>2. ((i - 1) + WRAP) % PIPESIZE = (i - 1) % PIPESIZE
        BY <3>1, WrapSlot, Zenon
      <3> QED
        BY <3>1, <3>2, Zenon
    <2>3. CASE nread + 1 # WRAP
      <3>1. nread' + i - 1 = nread + i
        BY <1>2, <1>3, <2>1, <2>3
      <3> QED
        BY <3>1, Zenon
    <2> QED
      BY <2>2, <2>3, Zenon
  <1>5. /\ Pending \in Seq(Bytes) /\ Len(Pending) = Count
        /\ \A i \in 1 .. Count : Pending[i] = ring[(nread + i - 1) % PIPESIZE]
    BY PendingFacts, Zenon
  <1>6. /\ Pending' \in Seq(Bytes) /\ Len(Pending') = Count - 1
        /\ \A i \in 1 .. Count - 1 :
             Pending'[i] = ring[(nread' + i - 1) % PIPESIZE]
    BY <1>1, PendingFactsNext, Zenon
  <1>7. Pending # <<>> /\ Head(Pending) = Pending[1]
    BY <1>2, <1>5
  <1>8. Pending[1] = ring[Slot(nread)]
    <2>1. 1 \in 1 .. Count /\ nread + 1 - 1 = nread
      BY <1>2, <1>3
    <2> QED
      BY <1>5, <2>1, Zenon DEF Slot
  <1>9. /\ Tail(Pending) \in Seq(Bytes) /\ Len(Tail(Pending)) = Count - 1
        /\ \A i \in 1 .. Count - 1 : Tail(Pending)[i] = Pending[i + 1]
    BY <1>2, <1>5, <1>7
  <1>10. \A i \in 1 .. Count - 1 : Pending'[i] = Tail(Pending)[i]
    <2> SUFFICES ASSUME NEW i \in 1 .. Count - 1
                 PROVE  Pending'[i] = Tail(Pending)[i]
      BY Zenon
    <2>1. i + 1 \in 1 .. Count /\ nread + (i + 1) - 1 = nread + i
      BY <1>2, <1>3
    <2>2. Pending[i + 1] = ring[(nread + i) % PIPESIZE]
      BY <1>5, <2>1, Zenon
    <2> QED
      BY <1>4, <1>6, <1>9, <2>2, Zenon
  <1>11. Pending' = Tail(Pending)
    BY <1>6, <1>9, <1>10, SeqEqual, Zenon
  <1> QED
    BY <1>7, <1>8, <1>11, Zenon

\* Steps that leave the ring alone leave its contents alone.
LEMMA PendingSame ==
  ASSUME UNCHANGED ringVars
  PROVE  Pending' = Pending
  BY Zenon DEF ringVars, Pending, Count

LEMMA PutRefines ==
  ASSUME RingOK, RingOK', NEW p \in Users, NEW b \in Bytes, PutByte(p, b)
  PROVE  Queue!FNext
  <1>1. Len(Pending) < PIPESIZE /\ Pending' = Append(Pending, b)
    BY PutPending, Zenon DEF PutByte
  <1>2. UNCHANGED given
    BY Zenon DEF PutByte
  <1> QED
    BY <1>1, <1>2, Zenon DEF Queue!FNext, Queue!Put

LEMMA TakeRefines ==
  ASSUME RingOK, RingOK', CopyInv, NEW p \in Users, TakeByte(p)
  PROVE  Queue!FNext
  <1>1. p \in Readers
    BY Zenon DEF CopyInv, TakeByte
  <1>2. /\ Pending # <<>> /\ Head(Pending) = ring[Slot(nread)]
        /\ Pending' = Tail(Pending)
    BY TakePending, Zenon DEF TakeByte
  <1>3. given' = [given EXCEPT ![p] = Append(@, Head(Pending))]
    BY <1>2, Zenon DEF TakeByte
  <1> QED
    BY <1>1, <1>2, <1>3, Zenon DEF Queue!FNext, Queue!Take

\* Only a reader's call is a step of Fifo.
LEMMA CallRefines ==
  ASSUME CtlOK, NEW p \in Users, NEW n \in Counts, PipeCall(p, n)
  PROVE  Queue!FNext \/ UNCHANGED <<Pending, given>>
  <1>1. Pending' = Pending
    BY PendingSame, Zenon DEF PipeCall
  <1>2. given' = [q \in Readers |-> IF q = p THEN <<>> ELSE given[q]]
    BY Zenon DEF PipeCall
  <1>3. given = [q \in Readers |-> given[q]]
    BY Zenon DEF CtlOK
  <1>4. CASE p \in Readers
    <2>1. given' = [given EXCEPT ![p] = <<>>]
      BY <1>2, <1>3, <1>4, Zenon
    <2> QED
      BY <1>1, <1>4, <2>1, Zenon DEF Queue!FNext, Queue!Call
  <1>5. CASE p \notin Readers
    <2>1. given' = given
      BY <1>2, <1>3, <1>5, Zenon
    <2> QED
      BY <1>1, <2>1, Zenon
  <1> QED
    BY <1>4, <1>5, Zenon

LEMMA OthersStutter ==
  ASSUME NEW p \in Users,
         \/ PipeLock(p) \/ PipeSleep(p)
         \/ PipewriteFull(p) \/ PipewriteDone(p)
         \/ PipereadWait(p) \/ PipereadStart(p) \/ PipereadDone(p)
         \/ Pipeclose(p) \/ PipeKill(p)
  PROVE  UNCHANGED <<Pending, given>>
  <1>1. UNCHANGED ringVars /\ UNCHANGED given
    BY Zenon DEF PipeLock, PipeSleep, PipewriteFull, PipewriteDone,
       PipereadWait, PipereadStart, PipereadDone, Pipeclose, PipeKill
  <1> QED
    BY <1>1, PendingSame, Zenon

\* piperead() returns the bytes of pipewrite() in the order they were written,
\* each once, and at most PIPESIZE wait: the ring of p->data with its two
\* counters, which wrap, is a bounded queue, whoever sleeps, is killed or closes
\* its end between the steps.
THEOREM PipeIsFifo == PipeSpec => IsFifo
  <1>1. PipeInit => Queue!FInit
    <2> SUFFICES ASSUME PipeInit
                 PROVE  Queue!FInit
      BY Zenon
    <2>1. RingOK
      BY InitHolds, TypeSplit, Zenon DEF PipeIInv
    <2>2. Count = 0
      BY <2>1, CountIs, Zenon DEF PipeInit, Empty
    <2>3. Pending = <<>>
      BY <2>1, <2>2, PendingFacts
    <2> QED
      BY <2>3, Zenon DEF PipeInit, Queue!FInit
  <1>2. ASSUME PipeIInv, PipeIInv', [PipeNext]_pipeVars
        PROVE  [Queue!FNext]_(Queue!fvars)
    <2>1. RingOK /\ RingOK' /\ CtlOK /\ CopyInv
      BY <1>2, TypeSplit, Zenon DEF PipeIInv
    <2>2. ASSUME PipeNext
          PROVE  Queue!FNext \/ UNCHANGED <<Pending, given>>
      BY <2>1, <2>2, StepCases, PutRefines, TakeRefines, CallRefines,
         OthersStutter, Zenon
    <2>3. ASSUME UNCHANGED pipeVars
          PROVE  UNCHANGED <<Pending, given>>
      BY <2>3, PendingSame, Zenon DEF pipeVars
    <2> QED
      BY <1>2, <2>2, <2>3, Zenon DEF Queue!fvars
  <1> QED
    BY <1>1, <1>2, PipeInvariant, PTL DEF PipeSpec, IsFifo, Queue!FSpec

=============================================================================
