----------------------------- MODULE BioProofs ------------------------------
(***************************************************************************)
(* The inductive invariant of the buffer cache and of the disk driver's    *)
(* queue, for any number of processes, buffers and blocks, and what        *)
(* follows from it: the cache stays consistent, and a read returns what    *)
(* was last written.                                                       *)
(***************************************************************************)
EXTENDS Bio, FiniteSetTheorems, WellFoundedInduction, TLAPS

\* Where a process has a buffer's lock.
Owning == {"got", "ide", "woke", "held"}

InDriver == {p \in Procs : pc[p] = "ide"}

\* A process works on a buffer of a block, and what bread() returned to it,
\* or the driver answered to it, is there.
UserInv ==
  \A p \in Procs :
    /\ pc[p] # "out" => block[cur[p]] # NoBlock
    /\ pc[p] = "woke" => cur[p] \in valid \ dirty
    /\ pc[p] = "held" => cur[p] \in valid

\* No buffer is in the driver's queue twice.
QueueDistinct ==
  \A i, j \in 1 .. Len(idequeue) : idequeue[i] = idequeue[j] => i = j

\* Pinned or clean, a buffer has the last contents of its block; if no buffer
\* of a block is to be written, the disk has them.
DataInv ==
  /\ dirty \subseteq valid \ failed
  /\ failed \subseteq valid
  /\ \A b \in valid : block[b] # NoBlock
  /\ \A b \in valid \ failed : data[b] = last[block[b]]
  /\ \A k \in Blocks : (\A b \in dirty : block[b] # k) => disk[k] = last[k]

BioIInv ==
  /\ BioTypeOK
  /\ OneBufferPerBlock
  /\ RefcntCounts
  /\ OneOwner
  /\ NoLostRelease
  /\ UserInv
  /\ QueueServed
  /\ QueueDistinct
  /\ DataInv
  /\ PanicMeansFull

-----------------------------------------------------------------------------
(* The type invariant in parts.                                            *)

CacheTypes ==
  /\ block \in [Bufs -> Blocks \cup {NoBlock}]
  /\ lru \in [Bufs -> Bufs] /\ Range(lru) = Bufs

CountTypes == refcnt \in [Bufs -> 0 .. Cardinality(Procs)]

FlagTypes ==
  /\ valid \subseteq Bufs /\ dirty \subseteq Bufs /\ failed \subseteq Bufs
  /\ data \in [Bufs -> Vals]
  /\ holder \in [Bufs -> Procs \cup {NoProc}]

IdeTypes ==
  /\ idequeue \in Seq(Bufs)
  /\ hw \in [block : Blocks \cup {NoBlock}, write : BOOLEAN, val : Vals]
  /\ disk \in [Blocks -> Vals] /\ last \in [Blocks -> Vals]

ProcTypes ==
  /\ pc \in [Procs -> BufPoints]
  /\ cur \in [Procs -> Bufs \cup {NoBuf}]
  /\ \A p \in Procs : cur[p] \in IF pc[p] = "out" THEN {NoBuf} ELSE Bufs

LEMMA TypeParts ==
  BioTypeOK <=> /\ CacheTypes /\ CountTypes /\ FlagTypes /\ IdeTypes /\ ProcTypes
                /\ fault \in {"none", "no buffers"}
BY Zenon DEF BioTypeOK, CacheTypes, CountTypes, FlagTypes, IdeTypes, ProcTypes

LEMMA TypePartsNext ==
  BioTypeOK' <=> /\ CacheTypes' /\ CountTypes' /\ FlagTypes' /\ IdeTypes' /\ ProcTypes'
                 /\ fault' \in {"none", "no buffers"}
BY Zenon DEF BioTypeOK, CacheTypes, CountTypes, FlagTypes, IdeTypes, ProcTypes

-----------------------------------------------------------------------------
(* What the operations rely on.                                            *)

\* A nonempty set of buffer numbers has a greatest element.
LEMMA GreatestExists ==
  ASSUME NEW n \in Nat, NEW S, S \subseteq 1 .. n, S # {}
  PROVE  \E m \in S : \A k \in S : m >= k
<1> DEFINE T == {n - i : i \in S}
<1>1. T \subseteq Nat /\ T # {}
  <2>1. \A i \in S : n - i \in Nat
    OBVIOUS
  <2> QED
    BY <2>1, Zenon
<1>2. PICK m \in T : \A k \in T : ~(<<k, m>> \in OpToRel(<, Nat))
  BY <1>1, WFMin, NatLessThanWellFounded, Zenon
<1>3. \A k \in T : ~(k < m)
  BY <1>1, <1>2, Zenon DEF OpToRel
<1>4. PICK i \in S : m = n - i
  BY Zenon
<1>5. \A k \in S : i >= k
  <2> SUFFICES ASSUME NEW k \in S PROVE i >= k
    BY Zenon
  <2>1. ~(n - k < n - i)
    BY <1>3, <1>4, Zenon
  <2> QED
    BY <2>1
<1> QED
  BY <1>5, Zenon

\* The scan from head.prev ends at a buffer that may be recycled, if any may.
LEMMA VictimFacts ==
  ASSUME CacheTypes, \E c \in Bufs : Recyclable(c)
  PROVE  Victim \in Bufs /\ Recyclable(Victim)
<1> DEFINE I == {i \in Bufs : Recyclable(lru[i])}
<1>1. I # {}
  BY Zenon DEF CacheTypes, Range
<1>2. PICK m \in I : \A j \in I : m >= j
  <2>1. I \subseteq 1 .. NBUF /\ NBUF \in Nat
    BY BioAssumption, Zenon DEF Bufs
  <2> QED
    BY <1>1, <2>1, GreatestExists, Zenon
<1>3. /\ m \in Bufs /\ Recyclable(lru[m])
      /\ \A j \in Bufs : Recyclable(lru[j]) => j <= m
  BY <1>2, Zenon DEF Bufs
<1>4. PICK i \in Bufs : Recyclable(lru[i]) /\ Victim = lru[i]
  BY <1>3, Zenon DEF Victim
<1> QED
  BY <1>4, Zenon DEF CacheTypes

\* Moving a buffer to the front loses none.
LEMMA FrontedFacts ==
  ASSUME CacheTypes, NEW b \in Bufs
  PROVE  Fronted(b) \in [Bufs -> Bufs] /\ Range(Fronted(b)) = Bufs
<1> DEFINE n == CHOOSE i \in Bufs : lru[i] = b
<1>1. n \in Bufs /\ lru[n] = b
  BY Zenon DEF CacheTypes, Range
<1> HIDE DEF n
<1>2. Fronted(b) = [i \in Bufs |-> IF i = 1 THEN b
                                   ELSE IF i <= n THEN lru[i - 1] ELSE lru[i]]
  BY Zenon DEF Fronted, n
<1>3. Fronted(b) \in [Bufs -> Bufs]
  <2>1. ASSUME NEW i \in Bufs, i # 1 PROVE i - 1 \in Bufs
    BY <2>1, BioAssumption DEF Bufs
  <2> QED
    BY <1>2, <2>1 DEF CacheTypes
<1>4. ASSUME NEW c \in Bufs PROVE \E i \in Bufs : Fronted(b)[i] = c
  <2>1. PICK i \in Bufs : lru[i] = c
    BY Zenon DEF CacheTypes, Range
  <2>2. CASE i < n
    <3>1. i + 1 \in Bufs /\ i + 1 # 1 /\ i + 1 <= n /\ (i + 1) - 1 = i
      BY <1>1, <2>2, BioAssumption DEF Bufs
    <3> QED
      BY <1>2, <2>1, <3>1, Zenon
  <2>3. CASE i > n
    <3>1. i # 1 /\ ~(i <= n)
      BY <1>1, <2>3, BioAssumption DEF Bufs
    <3> QED
      BY <1>2, <2>1, <3>1, Zenon
  <2>4. CASE i = n
    <3>1. 1 \in Bufs
      BY BioAssumption DEF Bufs
    <3> QED
      BY <1>1, <1>2, <2>1, <2>4, <3>1, Zenon
  <2> QED
    BY <1>1, <2>2, <2>3, <2>4, BioAssumption DEF Bufs
<1> QED
  BY <1>3, <1>4, Zenon DEF Range

LEMMA UsersFinite ==
  ASSUME NEW b
  PROVE  /\ IsFiniteSet(UsersOf(b)) /\ Cardinality(UsersOf(b)) \in Nat
         /\ Cardinality(UsersOf(b)) <= Cardinality(Procs)
         /\ Cardinality(UsersOf(b)) = 0 <=> UsersOf(b) = {}
<1>1. UsersOf(b) \in SUBSET Procs
  BY Zenon DEF UsersOf
<1>2. IsFiniteSet(UsersOf(b)) /\ Cardinality(UsersOf(b)) <= Cardinality(Procs)
  BY <1>1, FS_Subset, BioAssumption, Zenon
<1> QED
  BY <1>2, FS_CardinalityType, FS_EmptySet, Zenon

\* Whoever is past bget() has a buffer, and is counted in its refcnt.
LEMMA UserFacts ==
  ASSUME ProcTypes, RefcntCounts, NEW p \in Procs, pc[p] # "out"
  PROVE  cur[p] \in Bufs /\ refcnt[cur[p]] # 0
<1>1. cur[p] \in Bufs
  BY Zenon DEF ProcTypes
<1>2. p \in UsersOf(cur[p])
  BY Zenon DEF UsersOf
<1> QED
  BY <1>1, <1>2, UsersFinite, Zenon DEF RefcntCounts

\* A buffer that may be recycled is nobody's.
LEMMA VictimUnused ==
  ASSUME BioTypeOK, RefcntCounts, \E c \in Bufs : Recyclable(c)
  PROVE  /\ Victim \in Bufs /\ Victim \notin dirty /\ refcnt[Victim] = 0
         /\ UsersOf(Victim) = {}
         /\ \A p \in Procs : cur[p] # Victim
<1>1. Victim \in Bufs /\ Victim \notin dirty /\ refcnt[Victim] = 0
  BY VictimFacts, TypeParts, Zenon DEF Recyclable
<1>2. UsersOf(Victim) = {}
  BY <1>1, UsersFinite, Zenon DEF RefcntCounts
<1> QED
  BY <1>1, <1>2, Zenon DEF UsersOf

\* Two owners have different buffers.
LEMMA OwnersDiffer ==
  ASSUME OneOwner, NEW p \in Procs, NEW q \in Procs,
         pc[p] \in Owning, pc[q] \in Owning, cur[p] = cur[q]
  PROVE  p = q
BY Zenon DEF OneOwner, Owning

\* The controller works on the buffer at the head of the queue for a process
\* that sleeps in iderw().
LEMMA HeadFacts ==
  ASSUME BioTypeOK, QueueServed, UserInv, idequeue # <<>>
  PROVE  /\ Head(idequeue) \in Bufs
         /\ \E p \in Procs : pc[p] = "ide" /\ cur[p] = Head(idequeue)
         /\ block[Head(idequeue)] \in Blocks
         /\ hw.block = block[Head(idequeue)]
         /\ hw.write <=> Head(idequeue) \in dirty
         /\ hw.write => hw.val = data[Head(idequeue)]
<1> DEFINE b == Head(idequeue)
<1>1. b \in Bufs /\ b \in Range(idequeue)
  <2>1. idequeue \in Seq(Bufs)
    BY Zenon DEF BioTypeOK
  <2>2. 1 \in DOMAIN idequeue /\ idequeue[1] = b /\ b \in Bufs
    BY <2>1
  <2> QED
    BY <2>2, Zenon DEF Range
<1>2. PICK p \in Procs : pc[p] = "ide" /\ cur[p] = b
  BY <1>1, Zenon DEF QueueServed
<1>3. block[b] \in Blocks
  BY <1>1, <1>2, Zenon DEF UserInv, BioTypeOK
<1>4. hw = IdeStart(idequeue, dirty, data)
  BY Zenon DEF QueueServed
<1> QED
  BY <1>1, <1>2, <1>3, <1>4, Zenon DEF IdeStart

-----------------------------------------------------------------------------
(* The steps, and what each leaves alone.                                  *)

LEMMA StepCases ==
  ASSUME [BioNext]_bioVars
  PROVE  \/ UNCHANGED <<block, refcnt, lru, valid, dirty, data, holder, idequeue, hw,
                        disk, pc, cur, last, failed, fault>>
         \/ fault = "none" /\ idequeue # <<>> /\ (Ideintr \/ IdeintrError)
         \/ /\ fault = "none"
            /\ \E p \in Procs :
                 \/ Acquire(p) \/ Release(p) \/ Brelse(p)
                 \/ BreadValid(p) \/ BreadDisk(p) \/ IderwWoken(p)
                 \/ \E k \in Blocks : BgetHit(p, k) \/ BgetRecycle(p, k) \/ BgetPanic(p, k)
                 \/ \E v \in Vals : LogWrite(p, v) \/ Bwrite(p, v)
<1>1. CASE UNCHANGED bioVars
  BY <1>1, Zenon DEF bioVars, cacheVars, flagVars, histVars, ideVars
<1>2. Ideintr \/ IdeintrError => idequeue # <<>>
  BY Zenon DEF Ideintr, IdeintrError
<1> QED
  BY <1>1, <1>2, Zenon DEF BioNext, Step

LEMMA Frames ==
  /\ \A p \in Procs : Acquire(p) =>
       UNCHANGED <<block, refcnt, lru, valid, dirty, data, idequeue, hw,
                   disk, cur, last, failed, fault>>
  /\ \A p \in Procs : Release(p) =>
       UNCHANGED <<block, refcnt, lru, valid, dirty, data, idequeue, hw,
                   disk, cur, last, failed, fault>>
  /\ \A p \in Procs : Brelse(p) =>
       UNCHANGED <<block, valid, dirty, data, holder, idequeue, hw, disk,
                   last, failed, fault>>
  /\ \A p \in Procs : BreadValid(p) =>
       UNCHANGED <<block, refcnt, lru, valid, dirty, data, holder,
                   idequeue, hw, disk, cur, last, failed, fault>>
  /\ \A p \in Procs : BreadDisk(p) =>
       UNCHANGED <<block, refcnt, lru, valid, dirty, data, holder, disk,
                   cur, last, failed, fault>>
  /\ \A p \in Procs : IderwWoken(p) =>
       UNCHANGED <<block, refcnt, lru, valid, dirty, data, holder,
                   idequeue, hw, disk, cur, last, failed, fault>>
  /\ \A p \in Procs, k \in Blocks : BgetHit(p, k) =>
       UNCHANGED <<block, lru, valid, dirty, data, holder, idequeue, hw,
                   disk, last, failed, fault>>
  /\ \A p \in Procs, k \in Blocks : BgetRecycle(p, k) =>
       UNCHANGED <<lru, dirty, data, holder, idequeue, hw, disk, last,
                   fault>>
  /\ \A p \in Procs, k \in Blocks : BgetPanic(p, k) =>
       UNCHANGED <<block, refcnt, lru, valid, dirty, data, holder,
                   idequeue, hw, disk, pc, cur, last, failed>>
  /\ \A p \in Procs, v \in Vals : LogWrite(p, v) =>
       UNCHANGED <<block, refcnt, lru, valid, holder, idequeue, hw, disk,
                   pc, cur, fault>>
  /\ \A p \in Procs, v \in Vals : Bwrite(p, v) =>
       UNCHANGED <<block, refcnt, lru, valid, holder, disk, cur, fault>>
  /\ Ideintr \/ IdeintrError =>
       IdeintrDone(Head(idequeue)) /\ UNCHANGED <<block, refcnt, lru, holder, cur, last, fault>>
<1>1. \A p \in Procs : Acquire(p) =>
        UNCHANGED <<block, refcnt, lru, valid, dirty, data, idequeue, hw, disk,
                    cur, last, failed, fault>>
  BY Zenon DEF Acquire, cacheVars, flagVars, histVars, ideVars
<1>2. \A p \in Procs : Release(p) =>
        UNCHANGED <<block, refcnt, lru, valid, dirty, data, idequeue, hw, disk,
                    cur, last, failed, fault>>
  BY Zenon DEF Release, cacheVars, flagVars, histVars, ideVars
<1>3. \A p \in Procs : Brelse(p) =>
        UNCHANGED <<block, valid, dirty, data, holder, idequeue, hw, disk, last,
                    failed, fault>>
  BY Zenon DEF Brelse, cacheVars, flagVars, histVars, ideVars
<1>4. \A p \in Procs : BreadValid(p) =>
        UNCHANGED <<block, refcnt, lru, valid, dirty, data, holder, idequeue, hw,
                    disk, cur, last, failed, fault>>
  BY Zenon DEF BreadValid, cacheVars, flagVars, histVars, ideVars
<1>5. \A p \in Procs : BreadDisk(p) =>
        UNCHANGED <<block, refcnt, lru, valid, dirty, data, holder, disk, cur,
                    last, failed, fault>>
  BY Zenon DEF BreadDisk, Iderw, cacheVars, flagVars, histVars, ideVars
<1>6. \A p \in Procs : IderwWoken(p) =>
        UNCHANGED <<block, refcnt, lru, valid, dirty, data, holder, idequeue, hw,
                    disk, cur, last, failed, fault>>
  BY Zenon DEF IderwWoken, cacheVars, flagVars, histVars, ideVars
<1>7. \A p \in Procs, k \in Blocks : BgetHit(p, k) =>
        UNCHANGED <<block, lru, valid, dirty, data, holder, idequeue, hw, disk,
                    last, failed, fault>>
  BY Zenon DEF BgetHit, cacheVars, flagVars, histVars, ideVars
<1>8. \A p \in Procs, k \in Blocks : BgetRecycle(p, k) =>
        UNCHANGED <<lru, dirty, data, holder, idequeue, hw, disk, last, fault>>
  BY Zenon DEF BgetRecycle, cacheVars, flagVars, histVars, ideVars
<1>9. \A p \in Procs, k \in Blocks : BgetPanic(p, k) =>
        UNCHANGED <<block, refcnt, lru, valid, dirty, data, holder, idequeue, hw,
                    disk, pc, cur, last, failed>>
  BY Zenon DEF BgetPanic, cacheVars, flagVars, histVars, ideVars
<1>10. \A p \in Procs, v \in Vals : LogWrite(p, v) =>
        UNCHANGED <<block, refcnt, lru, valid, holder, idequeue, hw, disk, pc,
                    cur, fault>>
  BY Zenon DEF LogWrite, cacheVars, flagVars, histVars, ideVars
<1>11. \A p \in Procs, v \in Vals : Bwrite(p, v) =>
        UNCHANGED <<block, refcnt, lru, valid, holder, disk, cur, fault>>
  BY Zenon DEF Bwrite, Iderw, cacheVars, flagVars, histVars, ideVars
<1>12. Ideintr \/ IdeintrError =>
        IdeintrDone(Head(idequeue)) /\ UNCHANGED <<block, refcnt, lru, holder, cur, last, fault>>
  BY Zenon DEF Ideintr, IdeintrError, IdeintrDone, cacheVars
<1> QED
  BY <1>1, <1>2, <1>3, <1>4, <1>5, <1>6, <1>7, <1>8, <1>9, <1>10, <1>11,
     <1>12, Zenon

-----------------------------------------------------------------------------
(* A block has one buffer, and refcnt counts its users.                    *)

LEMMA OneBufferStep ==
  ASSUME BioTypeOK, RefcntCounts, OneBufferPerBlock, [BioNext]_bioVars
  PROVE  OneBufferPerBlock'
<1>1. ASSUME UNCHANGED block PROVE OneBufferPerBlock'
  BY <1>1, Zenon DEF OneBufferPerBlock
<1>2. ASSUME NEW p \in Procs, NEW k \in Blocks, BgetRecycle(p, k)
      PROVE  OneBufferPerBlock'
  <2>1. Victim \in Bufs
    BY <1>2, VictimUnused, Zenon DEF BgetRecycle
  <2>2. block' = [block EXCEPT ![Victim] = k] /\ \A b \in Bufs : block[b] # k
    BY <1>2, Zenon DEF BgetRecycle, Missing, Cached
  <2> QED
    BY <2>1, <2>2, Zenon DEF OneBufferPerBlock, BioTypeOK
<1>3. UNCHANGED block \/ \E p \in Procs, k \in Blocks : BgetRecycle(p, k)
  BY StepCases, Frames, Zenon
<1> QED
  BY <1>1, <1>2, <1>3, Zenon

\* The users of the buffers after process p takes buffer b, or none.
LEMMA UsersMove ==
  ASSUME ProcTypes, NEW p \in Procs, NEW b, cur' = [cur EXCEPT ![p] = b], NEW c
  PROVE  UsersOf(c)' = IF c = b THEN UsersOf(c) \cup {p} ELSE UsersOf(c) \ {p}
BY Zenon DEF UsersOf, ProcTypes

LEMMA RefcntStep ==
  ASSUME BioTypeOK, RefcntCounts, [BioNext]_bioVars
  PROVE  RefcntCounts'
<1>a. CacheTypes /\ CountTypes /\ ProcTypes
  BY TypeParts, Zenon
<1>b. \A c \in Bufs : c # NoBuf
  BY DEF Bufs, NoBuf
<1>1. ASSUME UNCHANGED <<refcnt, cur>> PROVE RefcntCounts'
  BY <1>1, Zenon DEF RefcntCounts, UsersOf
<1>2. ASSUME NEW p \in Procs, NEW k \in Blocks, BgetHit(p, k)
      PROVE  RefcntCounts'
  <2>1. PICK b \in Bufs : /\ refcnt' = [refcnt EXCEPT ![b] = @ + 1]
                          /\ cur' = [cur EXCEPT ![p] = b]
    BY <1>2, Zenon DEF BgetHit, Cached
  <2>2. cur[p] = NoBuf
    BY <1>a, <1>2, Zenon DEF BgetHit, ProcTypes
  <2>3. ASSUME NEW c \in Bufs PROVE refcnt'[c] = Cardinality(UsersOf(c)')
    <3>1. p \notin UsersOf(c)
      BY <1>b, <2>2, Zenon DEF UsersOf
    <3>2. UsersOf(c)' = IF c = b THEN UsersOf(c) \cup {p} ELSE UsersOf(c)
      <4>1. UsersOf(c)' = IF c = b THEN UsersOf(c) \cup {p} ELSE UsersOf(c) \ {p}
        BY <1>a, <2>1, UsersMove, Zenon
      <4> QED
        BY <3>1, <4>1, Zenon
    <3>3. Cardinality(UsersOf(c) \cup {p}) = Cardinality(UsersOf(c)) + 1
      BY <3>1, UsersFinite, FS_AddElement, Zenon
    <3> QED
      BY <1>a, <2>1, <3>2, <3>3, Zenon DEF RefcntCounts, CountTypes
  <2> QED
    BY <2>3, Zenon DEF RefcntCounts
<1>3. ASSUME NEW p \in Procs, NEW k \in Blocks, BgetRecycle(p, k)
      PROVE  RefcntCounts'
  <2> DEFINE b == Victim
  <2>1. b \in Bufs /\ UsersOf(b) = {}
    BY <1>3, VictimUnused, Zenon DEF BgetRecycle
  <2>2. refcnt' = [refcnt EXCEPT ![b] = 1] /\ cur' = [cur EXCEPT ![p] = b]
    BY <1>3, Zenon DEF BgetRecycle
  <2>3. cur[p] = NoBuf
    BY <1>a, <1>3, Zenon DEF BgetRecycle, ProcTypes
  <2>4. ASSUME NEW c \in Bufs PROVE refcnt'[c] = Cardinality(UsersOf(c)')
    <3>1. p \notin UsersOf(c)
      BY <1>b, <2>3, Zenon DEF UsersOf
    <3>2. UsersOf(c)' = IF c = b THEN {p} ELSE UsersOf(c)
      <4>1. UsersOf(c)' = IF c = b THEN UsersOf(c) \cup {p} ELSE UsersOf(c) \ {p}
        BY <1>a, <2>2, UsersMove, Zenon
      <4> QED
        BY <2>1, <3>1, <4>1, Zenon
    <3>3. Cardinality({p}) = 1
      BY FS_Singleton, Zenon
    <3> QED
      BY <1>a, <2>1, <2>2, <3>2, <3>3, Zenon DEF RefcntCounts, CountTypes
  <2> QED
    BY <2>4, Zenon DEF RefcntCounts
<1>4. ASSUME NEW p \in Procs, Brelse(p) PROVE RefcntCounts'
  <2> DEFINE b == cur[p]
  <2>1. b \in Bufs
    BY <1>a, <1>4, UserFacts, Zenon DEF Brelse
  <2>2. refcnt' = [refcnt EXCEPT ![b] = refcnt[b] - 1] /\ cur' = [cur EXCEPT ![p] = NoBuf]
    BY <1>4, Zenon DEF Brelse, Dropped
  <2>3. ASSUME NEW c \in Bufs PROVE refcnt'[c] = Cardinality(UsersOf(c)')
    <3>1. p \in UsersOf(c) <=> c = b
      BY Zenon DEF UsersOf
    <3>2. UsersOf(c)' = UsersOf(c) \ {p}
      BY <1>a, <1>b, <2>2, UsersMove, Zenon
    <3>3. Cardinality(UsersOf(c) \ {p}) = IF c = b THEN Cardinality(UsersOf(c)) - 1
                                                    ELSE Cardinality(UsersOf(c))
      BY <3>1, UsersFinite, FS_RemoveElement, Zenon
    <3> QED
      BY <1>a, <2>1, <2>2, <3>2, <3>3, Zenon DEF RefcntCounts, CountTypes
  <2> QED
    BY <2>3, Zenon DEF RefcntCounts
<1>5. \/ UNCHANGED <<refcnt, cur>> \/ \E p \in Procs : Brelse(p)
      \/ \E p \in Procs, k \in Blocks : BgetHit(p, k) \/ BgetRecycle(p, k)
  BY StepCases, Frames, Zenon
<1> QED
  BY <1>1, <1>2, <1>3, <1>4, <1>5, Zenon

\* A count of processes does not exceed their number.
LEMMA CountBound ==
  ASSUME RefcntCounts', refcnt' \in [Bufs -> Int]
  PROVE  CountTypes'
<1>1. ASSUME NEW b \in Bufs PROVE refcnt'[b] \in 0 .. Cardinality(Procs)
  <2> DEFINE U == {p \in Procs : cur'[p] = b}
  <2>1. refcnt'[b] = Cardinality(U)
    BY Zenon DEF RefcntCounts, UsersOf
  <2>2. U \in SUBSET Procs
    BY Zenon
  <2> HIDE DEF U
  <2>3. IsFiniteSet(U) /\ Cardinality(U) <= Cardinality(Procs)
    BY <2>2, FS_Subset, BioAssumption, Zenon
  <2>4. Cardinality(U) \in Nat /\ Cardinality(Procs) \in Nat
    BY <2>3, FS_CardinalityType, BioAssumption, Zenon
  <2> QED
    BY <2>1, <2>3, <2>4
<1> QED
  BY <1>1, Zenon DEF CountTypes

-----------------------------------------------------------------------------
(* Sleep locks.                                                            *)

LEMMA LockStep ==
  ASSUME BioTypeOK, OneOwner, NoLostRelease, [BioNext]_bioVars
  PROVE  OneOwner' /\ NoLostRelease'
<1>a. FlagTypes /\ ProcTypes /\ NoProc \notin Procs
  BY TypeParts, BioAssumption, Zenon DEF NoProc
<1>b. OneOwner <=> \A q \in Procs : pc[q] \in Owning => holder[cur[q]] = q
  BY Zenon DEF OneOwner, Owning
<1>c. OneOwner' <=> \A q \in Procs : pc'[q] \in Owning => holder'[cur'[q]] = q
  BY Zenon DEF OneOwner, Owning
<1>0. ASSUME UNCHANGED holder,
             \A q \in Procs :
               \/ cur'[q] = cur[q] /\ pc'[q] = pc[q]
               \/ cur'[q] = cur[q] /\ pc[q] \in Owning /\ pc'[q] \in Owning
               \/ pc'[q] \in {"out", "acq", "rel"}
      PROVE  OneOwner' /\ NoLostRelease'
  <2>1. ASSUME NEW q \in Procs, pc'[q] \in Owning PROVE holder'[cur'[q]] = q
    BY <1>0, <1>b, <2>1, Zenon DEF Owning
  <2>2. ASSUME NEW q \in Procs, pc'[q] = "asleep" PROVE holder'[cur'[q]] # NoProc
    BY <1>0, <2>2, Zenon DEF Owning, NoLostRelease
  <2> QED
    BY <1>c, <2>1, <2>2, Zenon DEF NoLostRelease
<1>1. ASSUME NEW p \in Procs, Acquire(p) PROVE OneOwner' /\ NoLostRelease'
  <2>1. pc[p] = "acq" /\ cur[p] \in Bufs /\ UNCHANGED cur
    BY <1>1, <1>a, Zenon DEF Acquire, ProcTypes
  <2>2. CASE LockFree(cur[p])
    <3>1. /\ holder' = [holder EXCEPT ![cur[p]] = p] /\ holder[cur[p]] = NoProc
          /\ pc' = [pc EXCEPT ![p] = "got"]
      BY <1>1, <2>2, Zenon DEF Acquire, LockFree
    <3>2. ASSUME NEW q \in Procs, pc'[q] \in Owning PROVE holder'[cur'[q]] = q
      BY <1>a, <1>b, <2>1, <3>1, <3>2 DEF ProcTypes, FlagTypes
    <3>3. ASSUME NEW q \in Procs, pc'[q] = "asleep" PROVE holder'[cur'[q]] # NoProc
      BY <1>a, <2>1, <3>1, <3>3, Zenon DEF ProcTypes, FlagTypes, NoLostRelease
    <3> QED
      BY <1>c, <3>2, <3>3, Zenon DEF NoLostRelease
  <2>3. CASE ~LockFree(cur[p])
    <3>1. UNCHANGED holder /\ holder[cur[p]] # NoProc /\ pc' = [pc EXCEPT ![p] = "asleep"]
      BY <1>1, <2>3, Zenon DEF Acquire, LockFree
    <3>2. ASSUME NEW q \in Procs, pc'[q] \in Owning PROVE holder'[cur'[q]] = q
      BY <1>a, <1>b, <2>1, <3>1, <3>2, Zenon DEF ProcTypes, Owning
    <3>3. ASSUME NEW q \in Procs, pc'[q] = "asleep" PROVE holder'[cur'[q]] # NoProc
      BY <1>a, <2>1, <3>1, <3>3, Zenon DEF ProcTypes, NoLostRelease
    <3> QED
      BY <1>c, <3>2, <3>3, Zenon DEF NoLostRelease
  <2> QED
    BY <2>2, <2>3, Zenon
<1>2. ASSUME NEW p \in Procs, Release(p) PROVE OneOwner' /\ NoLostRelease'
  <2>1. /\ pc[p] = "held" /\ cur[p] \in Bufs /\ UNCHANGED cur
        /\ holder' = [holder EXCEPT ![cur[p]] = NoProc]
    BY <1>2, <1>a, Zenon DEF Release, ProcTypes
  <2>2. \A q \in Procs : pc'[q] = IF q = p THEN "rel"
                                  ELSE IF pc[q] = "asleep" /\ cur[q] = cur[p] THEN "acq"
                                  ELSE pc[q]
    BY <1>2, Zenon DEF Release, BufWoken
  <2>3. ASSUME NEW q \in Procs, pc'[q] \in Owning PROVE holder'[cur'[q]] = q
    <3>1. q # p /\ pc[q] \in Owning
      BY <2>2, <2>3, Zenon DEF Owning
    <3>2. cur[q] # cur[p]
      BY <2>1, <3>1, OwnersDiffer, Zenon DEF Owning
    <3> QED
      BY <1>a, <1>b, <2>1, <3>1, <3>2 DEF FlagTypes
  <2>4. ASSUME NEW q \in Procs, pc'[q] = "asleep" PROVE holder'[cur'[q]] # NoProc
    <3>1. pc[q] = "asleep" /\ cur[q] # cur[p]
      BY <2>2, <2>4, Zenon
    <3> QED
      BY <1>a, <2>1, <3>1 DEF FlagTypes, NoLostRelease
  <2> QED
    BY <1>c, <2>3, <2>4, Zenon DEF NoLostRelease
<1>3. ASSUME NEW p \in Procs, Brelse(p) PROVE OneOwner' /\ NoLostRelease'
  BY <1>0, <1>3, <1>a, Zenon DEF Brelse, ProcTypes
<1>4. ASSUME NEW p \in Procs, NEW k \in Blocks, BgetHit(p, k)
      PROVE  OneOwner' /\ NoLostRelease'
  BY <1>0, <1>4, <1>a, Zenon DEF BgetHit, ProcTypes
<1>5. ASSUME NEW p \in Procs, NEW k \in Blocks, BgetRecycle(p, k)
      PROVE  OneOwner' /\ NoLostRelease'
  BY <1>0, <1>5, <1>a, Zenon DEF BgetRecycle, ProcTypes
<1>6. ASSUME NEW p \in Procs, pc[p] \in Owning, UNCHANGED <<holder, cur>>,
             NEW s \in Owning, pc' = [pc EXCEPT ![p] = s]
      PROVE  OneOwner' /\ NoLostRelease'
  BY <1>0, <1>6, <1>a, Zenon DEF ProcTypes
<1>7. ASSUME NEW p \in Procs, BreadValid(p) \/ BreadDisk(p) \/ IderwWoken(p)
      PROVE  OneOwner' /\ NoLostRelease'
  BY <1>6, <1>7, Zenon DEF BreadValid, BreadDisk, IderwWoken, Iderw, Owning
<1>8. ASSUME NEW p \in Procs, NEW v \in Vals, Bwrite(p, v)
      PROVE  OneOwner' /\ NoLostRelease'
  BY <1>6, <1>8, Zenon DEF Bwrite, Iderw, Owning
<1>9. ASSUME NEW b, IdeintrDone(b) PROVE OneOwner' /\ NoLostRelease'
  <2>1. UNCHANGED <<holder, cur>>
    BY <1>9, Zenon DEF IdeintrDone
  <2>2. \A q \in Procs : pc'[q] = IF pc[q] = "ide" /\ cur[q] = b THEN "woke" ELSE pc[q]
    BY <1>9, Zenon DEF IdeintrDone, Answered
  <2> QED
    BY <1>0, <2>1, <2>2, Zenon DEF Owning
<1>10. ASSUME UNCHANGED <<holder, cur, pc>> PROVE OneOwner' /\ NoLostRelease'
  BY <1>0, <1>10, Zenon
<1>11. \/ UNCHANGED <<holder, cur, pc>>
       \/ IdeintrDone(Head(idequeue))
       \/ \E p \in Procs :
            \/ Acquire(p) \/ Release(p) \/ Brelse(p)
            \/ BreadValid(p) \/ BreadDisk(p) \/ IderwWoken(p)
            \/ \E k \in Blocks : BgetHit(p, k) \/ BgetRecycle(p, k)
            \/ \E v \in Vals : Bwrite(p, v)
  BY StepCases, Frames, Zenon
<1> QED
  BY <1>1, <1>2, <1>3, <1>4, <1>5, <1>7, <1>8, <1>9, <1>10, <1>11, Zenon

-----------------------------------------------------------------------------
(* What a process has read stays in its buffer.                            *)

LEMMA UserStep ==
  ASSUME BioTypeOK, RefcntCounts, OneOwner, UserInv, [BioNext]_bioVars
  PROVE  UserInv'
<1>a. CacheTypes /\ FlagTypes /\ ProcTypes /\ NoBlock \notin Blocks
  BY TypeParts, BioAssumption, Zenon DEF NoBlock
<1>0. ASSUME UNCHANGED <<block, cur, valid, dirty>>, NEW p \in Procs, pc[p] # "out",
             NEW s, pc' = [pc EXCEPT ![p] = s], s # "woke",
             s = "held" => cur[p] \in valid
      PROVE  UserInv'
  BY <1>0, <1>a, Zenon DEF UserInv, ProcTypes
<1>1. ASSUME NEW p \in Procs, Acquire(p) PROVE UserInv'
  BY <1>0, <1>1, Zenon DEF Acquire, cacheVars, flagVars
<1>2. ASSUME NEW p \in Procs, Release(p) PROVE UserInv'
  <2>1. UNCHANGED <<block, cur, valid, dirty>> /\ pc[p] = "held"
    BY <1>2, Zenon DEF Release, cacheVars, flagVars
  <2>2. \A q \in Procs : pc'[q] = IF q = p THEN "rel"
                                  ELSE IF pc[q] = "asleep" /\ cur[q] = cur[p] THEN "acq"
                                  ELSE pc[q]
    BY <1>2, Zenon DEF Release, BufWoken
  <2> QED
    BY <2>1, <2>2, Zenon DEF UserInv
<1>3. ASSUME NEW p \in Procs, Brelse(p) PROVE UserInv'
  BY <1>3, <1>a, Zenon DEF Brelse, UserInv, ProcTypes, flagVars
<1>4. ASSUME NEW p \in Procs, NEW k \in Blocks, BgetHit(p, k) PROVE UserInv'
  <2>1. PICK b \in Bufs : block[b] = k /\ cur' = [cur EXCEPT ![p] = b]
    BY <1>4, Zenon DEF BgetHit, Cached
  <2>2. pc' = [pc EXCEPT ![p] = "acq"] /\ UNCHANGED <<block, valid, dirty>>
    BY <1>4, Zenon DEF BgetHit, flagVars
  <2> QED
    BY <1>a, <2>1, <2>2, Zenon DEF UserInv, ProcTypes
<1>5. ASSUME NEW p \in Procs, NEW k \in Blocks, BgetRecycle(p, k) PROVE UserInv'
  <2>1. Victim \in Bufs /\ \A q \in Procs : cur[q] # Victim
    BY <1>5, VictimUnused, Zenon DEF BgetRecycle
  <2>2. /\ pc' = [pc EXCEPT ![p] = "acq"] /\ cur' = [cur EXCEPT ![p] = Victim]
        /\ block' = [block EXCEPT ![Victim] = k]
        /\ valid' = valid \ {Victim} /\ UNCHANGED dirty
    BY <1>5, Zenon DEF BgetRecycle, ClearsFlags
  <2> QED
    BY <1>a, <2>1, <2>2, Zenon DEF UserInv, ProcTypes, CacheTypes
<1>6. ASSUME NEW p \in Procs, BreadValid(p) PROVE UserInv'
  BY <1>0, <1>6, Zenon DEF BreadValid, cacheVars, flagVars
<1>7. ASSUME NEW p \in Procs, BreadDisk(p) PROVE UserInv'
  BY <1>0, <1>7, Zenon DEF BreadDisk, Iderw, cacheVars, flagVars
<1>8. ASSUME NEW p \in Procs, IderwWoken(p) PROVE UserInv'
  <2>1. UNCHANGED <<block, cur, valid, dirty>> /\ pc[p] = "woke" /\ cur[p] \in valid \ dirty
    BY <1>8, Zenon DEF IderwWoken, cacheVars, flagVars, UserInv
  <2>2. pc' = [pc EXCEPT ![p] = "held"]
    BY <1>8, <2>1, Zenon DEF IderwWoken
  <2> QED
    BY <1>0, <2>1, <2>2, Zenon
<1>9. ASSUME NEW p \in Procs, pc[p] = "held", UNCHANGED <<block, cur, valid>>,
             dirty' = dirty \cup {cur[p]},
             NEW s \in {"held", "ide"}, pc' = [pc EXCEPT ![p] = s]
      PROVE  UserInv'
  <2>1. \A q \in Procs : pc[q] = "woke" => cur[q] # cur[p]
    BY <1>9, OwnersDiffer, Zenon DEF Owning
  <2> QED
    BY <1>a, <1>9, <2>1, Zenon DEF UserInv, ProcTypes
<1>10. ASSUME NEW p \in Procs, NEW v \in Vals, LogWrite(p, v) PROVE UserInv'
  <2>1. pc' = [pc EXCEPT ![p] = "held"]
    BY <1>10, <1>a, Zenon DEF LogWrite, ProcTypes
  <2> QED
    BY <1>9, <1>10, <2>1, Zenon DEF LogWrite, cacheVars
<1>11. ASSUME NEW p \in Procs, NEW v \in Vals, Bwrite(p, v) PROVE UserInv'
  BY <1>9, <1>11, Zenon DEF Bwrite, Iderw, cacheVars
<1>12. ASSUME NEW b, IdeintrDone(b) PROVE UserInv'
  <2>1. UNCHANGED <<block, cur>> /\ valid' = valid \cup {b} /\ dirty' = dirty \ {b}
    BY <1>12, Zenon DEF IdeintrDone, cacheVars
  <2>2. \A q \in Procs : pc'[q] = IF pc[q] = "ide" /\ cur[q] = b THEN "woke" ELSE pc[q]
    BY <1>12, Zenon DEF IdeintrDone, Answered
  <2> QED
    BY <2>1, <2>2, Zenon DEF UserInv
<1>13. ASSUME UNCHANGED <<block, cur, pc, valid, dirty>> PROVE UserInv'
  BY <1>13, Zenon DEF UserInv
<1>14. \/ UNCHANGED <<block, cur, pc, valid, dirty>>
       \/ IdeintrDone(Head(idequeue))
       \/ \E p \in Procs :
            \/ Acquire(p) \/ Release(p) \/ Brelse(p)
            \/ BreadValid(p) \/ BreadDisk(p) \/ IderwWoken(p)
            \/ \E k \in Blocks : BgetHit(p, k) \/ BgetRecycle(p, k)
            \/ \E v \in Vals : LogWrite(p, v) \/ Bwrite(p, v)
  BY StepCases, Frames, Zenon
<1> QED
  BY <1>1, <1>2, <1>3, <1>4, <1>5, <1>6, <1>7, <1>8, <1>10, <1>11, <1>12,
     <1>13, <1>14, Zenon

-----------------------------------------------------------------------------
(* Buffers, the disk and what was last written.                            *)

LEMMA DataStep ==
  ASSUME BioTypeOK, RefcntCounts, OneBufferPerBlock, UserInv, QueueServed, DataInv,
         [BioNext]_bioVars
  PROVE  DataInv'
<1>a. CacheTypes /\ FlagTypes /\ IdeTypes /\ ProcTypes
  BY TypeParts, Zenon
<1>b. NoBlock \notin Blocks
  BY BioAssumption, Zenon DEF NoBlock
<1>1. ASSUME UNCHANGED <<block, valid, dirty, failed, data, last, disk>> PROVE DataInv'
  BY <1>1, Zenon DEF DataInv
<1>2. ASSUME NEW p \in Procs, NEW k \in Blocks, BgetRecycle(p, k) PROVE DataInv'
  <2>1. Victim \in Bufs /\ Victim \notin dirty
    BY <1>2, VictimUnused, Zenon DEF BgetRecycle
  <2>2. /\ block' = [block EXCEPT ![Victim] = k]
        /\ valid' = valid \ {Victim} /\ failed' = failed \ {Victim}
        /\ UNCHANGED <<dirty, data, last, disk>>
    BY <1>2, Zenon DEF BgetRecycle, ClearsFlags, ideVars
  <2>3. \A b \in Bufs \ {Victim} : block'[b] = block[b]
    BY <1>a, <2>2, Zenon DEF CacheTypes
  <2> QED
    BY <1>a, <2>1, <2>2, <2>3 DEF DataInv, FlagTypes
<1>3. ASSUME NEW p \in Procs, NEW v \in Vals, pc[p] = "held",
             data' = [data EXCEPT ![cur[p]] = v],
             dirty' = dirty \cup {cur[p]},
             last' = [last EXCEPT ![block[cur[p]]] = v],
             failed' = failed \ {cur[p]},
             UNCHANGED <<block, valid, disk>>
      PROVE  DataInv'
  <2> DEFINE b == cur[p]
  <2>1. b \in Bufs /\ b \in valid /\ block[b] \in Blocks
    BY <1>a, <1>3, Zenon DEF UserInv, FlagTypes, CacheTypes
  <2>2. \A c \in Bufs : c # b => block[c] # block[b]
    BY <1>b, <2>1, Zenon DEF OneBufferPerBlock
  <2>a. /\ data \in [Bufs -> Vals] /\ last \in [Blocks -> Vals]
        /\ valid \subseteq Bufs /\ block \in [Bufs -> Blocks \cup {NoBlock}]
    BY <1>a, Zenon DEF FlagTypes, IdeTypes, CacheTypes
  <2>3. ASSUME NEW c \in valid' \ failed' PROVE data'[c] = last'[block'[c]]
    <3>1. CASE c = b
      BY <1>3, <2>1, <2>a, <3>1, Zenon
    <3>2. CASE c # b
      <4>1. c \in valid \ failed /\ c \in Bufs
        BY <1>3, <2>3, <2>a, <3>2, Zenon
      <4>2. data[c] = last[block[c]] /\ block[c] \in Blocks /\ block[c] # block[b]
        BY <2>2, <2>a, <3>2, <4>1, Zenon DEF DataInv
      <4> QED
        BY <1>3, <2>1, <2>a, <3>2, <4>1, <4>2, Zenon
    <3> QED
      BY <3>1, <3>2, Zenon
  <2>4. ASSUME NEW k \in Blocks, \A c \in dirty' : block'[c] # k PROVE disk'[k] = last'[k]
    <3>1. b \in dirty' /\ block[b] # k /\ \A c \in dirty : block[c] # k
      BY <1>3, <2>4, Zenon
    <3> QED
      BY <1>3, <2>a, <3>1, Zenon DEF DataInv
  <2>5. dirty' \subseteq valid' \ failed' /\ failed' \subseteq valid'
    BY <1>3, <2>1, Zenon DEF DataInv
  <2> QED
    BY <1>3, <2>3, <2>4, <2>5, Zenon DEF DataInv
<1>4. CASE Ideintr
  <2> DEFINE b == Head(idequeue)
  <2>1. /\ b \in Bufs /\ block[b] \in Blocks /\ hw.block = block[b]
        /\ hw.write <=> b \in dirty
        /\ hw.write => hw.val = data[b]
    BY <1>4, HeadFacts, Zenon DEF Ideintr
  <2>2. /\ valid' = valid \cup {b} /\ dirty' = dirty \ {b} /\ failed' = failed \ {b}
        /\ UNCHANGED <<block, last>>
    BY <1>4, Zenon DEF Ideintr, IdeintrDone, cacheVars
  <2>3. \A c \in Bufs : c # b => block[c] # block[b]
    BY <1>b, <2>1, Zenon DEF OneBufferPerBlock
  <2> HIDE DEF b
  <2>4. CASE b \in dirty
    <3>1. UNCHANGED data /\ disk' = [disk EXCEPT ![block[b]] = data[b]]
      BY <1>4, <1>a, <2>1, <2>4, Zenon DEF Ideintr, FlagTypes, b
    <3>2. data[b] = last[block[b]]
      BY <2>4, Zenon DEF DataInv
    <3>3. \A c \in valid' \ failed' : data'[c] = last'[block'[c]]
      BY <2>2, <3>1, <3>2, Zenon DEF DataInv
    <3>4. ASSUME NEW k \in Blocks, \A c \in dirty' : block'[c] # k
          PROVE  disk'[k] = last'[k]
      BY <1>a, <2>1, <2>2, <3>1, <3>2, <3>4, Zenon DEF DataInv, IdeTypes
    <3> QED
      BY <2>1, <2>2, <3>3, <3>4, <1>b DEF DataInv
  <2>5. CASE b \notin dirty
    <3>1. UNCHANGED disk /\ data' = [data EXCEPT ![b] = disk[block[b]]]
      BY <1>4, <2>1, <2>5, Zenon DEF Ideintr, b
    <3>2. disk[block[b]] = last[block[b]]
      BY <1>a, <2>1, <2>3, <2>5, Zenon DEF DataInv, FlagTypes
    <3>3. \A c \in valid' \ failed' : data'[c] = last'[block'[c]]
      BY <1>a, <2>1, <2>2, <3>1, <3>2 DEF DataInv, FlagTypes
    <3>4. ASSUME NEW k \in Blocks, \A c \in dirty' : block'[c] # k
          PROVE  disk'[k] = last'[k]
      BY <2>2, <2>5, <3>1, <3>4, Zenon DEF DataInv
    <3> QED
      BY <2>1, <2>2, <3>3, <3>4, <1>b, ZenonT(40) DEF DataInv
  <2> QED
    BY <2>4, <2>5, Zenon
<1>5. CASE IdeintrError
  <2> DEFINE b == Head(idequeue)
  <2>1. b \in Bufs /\ block[b] \in Blocks /\ b \notin dirty
    BY <1>5, HeadFacts, Zenon DEF IdeintrError
  <2>2. /\ valid' = valid \cup {b} /\ dirty' = dirty \ {b} /\ failed' = failed \cup {b}
        /\ UNCHANGED <<block, last, data, disk>>
    BY <1>5, Zenon DEF IdeintrError, IdeintrDone, cacheVars
  <2> HIDE DEF b
  <2> QED
    BY <1>b, <2>1, <2>2, Zenon DEF DataInv
<1>6. ASSUME NEW p \in Procs, NEW v \in Vals, LogWrite(p, v) \/ Bwrite(p, v)
      PROVE  DataInv'
  BY <1>3, <1>6, Zenon DEF LogWrite, Bwrite, Iderw, cacheVars, ideVars
<1>7. \/ UNCHANGED <<block, valid, dirty, failed, data, last, disk>>
      \/ Ideintr \/ IdeintrError
      \/ \E p \in Procs :
           \/ \E k \in Blocks : BgetRecycle(p, k)
           \/ \E v \in Vals : LogWrite(p, v) \/ Bwrite(p, v)
  BY StepCases, Frames, Zenon
<1> QED
  BY <1>1, <1>2, <1>4, <1>5, <1>6, <1>7, Zenon


-----------------------------------------------------------------------------
(* The driver's queue.                                                     *)

LEMMA InDriverFinite ==
  IsFiniteSet(InDriver) /\ Cardinality(InDriver) \in Nat
<1>1. InDriver \in SUBSET Procs
  BY Zenon DEF InDriver
<1> QED
  BY <1>1, FS_Subset, FS_CardinalityType, BioAssumption, Zenon

\* What QueueServed says of the queue and the sleepers.
Sleepers ==
  /\ Range(idequeue) = {cur[p] : p \in InDriver}
  /\ Len(idequeue) = Cardinality(InDriver)

LEMMA QueueParts ==
  /\ QueueServed <=> hw = IdeStart(idequeue, dirty, data) /\ Sleepers
  /\ QueueServed' <=> hw' = IdeStart(idequeue, dirty, data)' /\ Sleepers'
BY Zenon DEF QueueServed, Sleepers, InDriver

\* The controller works on the head of the queue.
LEMMA HwStep ==
  ASSUME BioTypeOK, RefcntCounts, OneOwner, UserInv, QueueServed, [BioNext]_bioVars
  PROVE  hw' = IdeStart(idequeue, dirty, data)'
<1>a. hw = IdeStart(idequeue, dirty, data) /\ idequeue \in Seq(Bufs)
  BY Zenon DEF QueueServed, BioTypeOK
<1>b. FlagTypes /\ CacheTypes /\ ProcTypes
  BY TypeParts, Zenon
<1>c. ASSUME idequeue # <<>>
      PROVE  \E q \in Procs : pc[q] = "ide" /\ cur[q] = Head(idequeue)
  BY <1>c, HeadFacts, Zenon
<1>1. ASSUME UNCHANGED <<idequeue, hw>>,
             idequeue # <<>> => /\ block'[Head(idequeue)] = block[Head(idequeue)]
                                /\ Head(idequeue) \in dirty' <=> Head(idequeue) \in dirty
                                /\ data'[Head(idequeue)] = data[Head(idequeue)]
      PROVE  hw' = IdeStart(idequeue, dirty, data)'
  BY <1>a, <1>1 DEF IdeStart
<1>2. ASSUME NEW p \in Procs, NEW k \in Blocks, BgetRecycle(p, k)
      PROVE  hw' = IdeStart(idequeue, dirty, data)'
  <2>1. Victim \in Bufs /\ \A q \in Procs : cur[q] # Victim
    BY <1>2, VictimUnused, Zenon DEF BgetRecycle
  <2>2. block' = [block EXCEPT ![Victim] = k] /\ UNCHANGED <<dirty, data, idequeue, hw>>
    BY <1>2, Zenon DEF BgetRecycle, ideVars
  <2> QED
    BY <1>1, <1>b, <1>c, <2>1, <2>2 DEF CacheTypes
<1>3. ASSUME NEW p \in Procs, NEW v \in Vals, LogWrite(p, v)
      PROVE  hw' = IdeStart(idequeue, dirty, data)'
  <2>1. \A q \in Procs : pc[q] = "ide" => cur[q] # cur[p]
    BY <1>3, OwnersDiffer, Zenon DEF LogWrite, Owning
  <2>2. /\ data' = [data EXCEPT ![cur[p]] = v] /\ dirty' = dirty \cup {cur[p]}
        /\ UNCHANGED <<block, idequeue, hw>>
    BY <1>3, Zenon DEF LogWrite, cacheVars, ideVars
  <2> QED
    BY <1>1, <1>b, <1>c, <2>1, <2>2 DEF FlagTypes
<1>4. ASSUME NEW p \in Procs, pc[p] \in Owning, pc[p] # "ide", Iderw(p, dirty', data'),
             UNCHANGED block, \A c \in Bufs \ {cur[p]} :
                                /\ c \in dirty' <=> c \in dirty
                                /\ data'[c] = data[c]
      PROVE  hw' = IdeStart(idequeue, dirty, data)'
  <2>1. cur[p] \in Bufs /\ idequeue' = Append(idequeue, cur[p])
    BY <1>4, <1>b, Zenon DEF Iderw, ProcTypes, Owning
  <2>2. CASE Starts(idequeue')
    BY <1>4, <2>2, Zenon DEF Iderw, IdeStart
  <2>3. CASE ~Starts(idequeue')
    <3>1. idequeue # <<>> /\ Head(idequeue') = Head(idequeue) /\ idequeue' # <<>>
      BY <1>a, <2>1, <2>3 DEF Starts
    <3>2. Head(idequeue) # cur[p] /\ Head(idequeue) \in Bufs
      BY <1>c, <1>a, <1>4, <3>1, OwnersDiffer DEF Owning
    <3>3. UNCHANGED hw
      BY <1>4, <2>3, Zenon DEF Iderw
    <3> QED
      BY <1>a, <1>4, <3>1, <3>2, <3>3 DEF IdeStart
  <2> QED
    BY <2>2, <2>3, Zenon
<1>5. ASSUME NEW p \in Procs, BreadDisk(p)
      PROVE  hw' = IdeStart(idequeue, dirty, data)'
  BY <1>4, <1>5, Zenon DEF BreadDisk, cacheVars, flagVars, Owning
<1>6. ASSUME NEW p \in Procs, NEW v \in Vals, Bwrite(p, v)
      PROVE  hw' = IdeStart(idequeue, dirty, data)'
  BY <1>4, <1>6, <1>b, Zenon DEF Bwrite, cacheVars, FlagTypes, Owning
<1>7. ASSUME NEW b, IdeintrDone(b) PROVE hw' = IdeStart(idequeue, dirty, data)'
  BY <1>7, Zenon DEF IdeintrDone, cacheVars, IdeStart
<1>8. ASSUME UNCHANGED <<idequeue, hw, block, dirty, data>>
      PROVE  hw' = IdeStart(idequeue, dirty, data)'
  BY <1>1, <1>8, Zenon
<1>9. \/ UNCHANGED <<idequeue, hw, block, dirty, data>>
      \/ IdeintrDone(Head(idequeue))
      \/ \E p \in Procs :
           \/ BreadDisk(p)
           \/ \E k \in Blocks : BgetRecycle(p, k)
           \/ \E v \in Vals : LogWrite(p, v) \/ Bwrite(p, v)
  BY StepCases, Frames, Zenon
<1> QED
  BY <1>2, <1>3, <1>5, <1>6, <1>7, <1>8, <1>9, Zenon

\* A request joins the queue with its process, and leaves it with it.
LEMMA SleepersStep ==
  ASSUME BioTypeOK, OneOwner, UserInv, QueueServed, QueueDistinct, [BioNext]_bioVars
  PROVE  Sleepers' /\ QueueDistinct'
<1>a. ProcTypes /\ Sleepers /\ idequeue \in Seq(Bufs)
  BY TypeParts, QueueParts, Zenon DEF IdeTypes
<1>1. ASSUME UNCHANGED idequeue, InDriver' = InDriver,
             \A q \in InDriver : cur'[q] = cur[q]
      PROVE  Sleepers' /\ QueueDistinct'
  <2>1. {cur'[q] : q \in InDriver'} = {cur[q] : q \in InDriver}
    BY <1>1, Zenon
  <2> QED
    BY <1>a, <1>1, <2>1, Zenon DEF Sleepers, QueueDistinct
<1>2. ASSUME NEW p \in Procs, pc[p] \in Owning, pc[p] # "ide", UNCHANGED cur,
             idequeue' = Append(idequeue, cur[p]), pc' = [pc EXCEPT ![p] = "ide"]
      PROVE  Sleepers' /\ QueueDistinct'
  <2>1. cur[p] \in Bufs /\ p \notin InDriver /\ InDriver' = InDriver \cup {p}
    BY <1>a, <1>2, Zenon DEF ProcTypes, InDriver, Owning
  <2>2. \A q \in InDriver : cur[q] # cur[p]
    BY <1>2, OwnersDiffer, Zenon DEF InDriver, Owning
  <2>3. \A i \in 1 .. Len(idequeue) : idequeue[i] # cur[p]
    <3>1. \A i \in 1 .. Len(idequeue) : idequeue[i] \in Range(idequeue)
      BY <1>a DEF Range
    <3> QED
      BY <1>a, <2>2, <3>1, Zenon DEF Sleepers
  <2>4. /\ idequeue' \in Seq(Bufs) /\ Len(idequeue') = Len(idequeue) + 1
        /\ \A i \in 1 .. Len(idequeue) : idequeue'[i] = idequeue[i]
        /\ idequeue'[Len(idequeue) + 1] = cur[p]
        /\ Len(idequeue) \in Nat
    BY <1>a, <1>2, <2>1
  <2>5. QueueDistinct'
    BY <2>3, <2>4 DEF QueueDistinct
  <2>6. Range(idequeue') = Range(idequeue) \cup {cur[p]}
    BY <1>a, <2>4 DEF Range
  <2>7. {cur'[q] : q \in InDriver'} = {cur[q] : q \in InDriver} \cup {cur[p]}
    BY <1>2, <2>1, Zenon
  <2>8. Len(idequeue') = Cardinality(InDriver')
    <3>1. Cardinality(InDriver') = Cardinality(InDriver) + 1
      BY <2>1, InDriverFinite, FS_AddElement, Zenon
    <3> QED
      BY <1>a, <2>4, <3>1, Zenon DEF Sleepers
  <2> QED
    BY <1>a, <2>5, <2>6, <2>7, <2>8, Zenon DEF Sleepers
<1>3. ASSUME idequeue # <<>>, IdeintrDone(Head(idequeue))
      PROVE  Sleepers' /\ QueueDistinct'
  <2> DEFINE b == Head(idequeue)
  <2>1. PICK p \in Procs : pc[p] = "ide" /\ cur[p] = b
    BY <1>3, HeadFacts, Zenon
  <2>2. UNCHANGED cur /\ idequeue' = Tail(idequeue)
    BY <1>3, Zenon DEF IdeintrDone
  <2>3. \A q \in Procs : pc'[q] = IF pc[q] = "ide" /\ cur[q] = b THEN "woke" ELSE pc[q]
    BY <1>3, Zenon DEF IdeintrDone, Answered
  <2>4. \A q \in InDriver : cur[q] = b <=> q = p
    BY <2>1, OwnersDiffer, Zenon DEF InDriver, Owning
  <2>5. InDriver' = InDriver \ {p}
    BY <2>1, <2>3, <2>4, Zenon DEF InDriver
  <2>6. /\ Len(idequeue) \in Nat \ {0} /\ Len(idequeue') = Len(idequeue) - 1
        /\ idequeue' \in Seq(Bufs) /\ b = idequeue[1]
        /\ \A i \in 1 .. Len(idequeue') : idequeue'[i] = idequeue[i + 1]
    BY <1>a, <1>3, <2>2
  <2>7. QueueDistinct'
    <3> SUFFICES ASSUME NEW i \in 1 .. Len(idequeue'), NEW j \in 1 .. Len(idequeue'),
                        idequeue'[i] = idequeue'[j]
                 PROVE  i = j
      BY Zenon DEF QueueDistinct
    <3>1. i + 1 \in 1 .. Len(idequeue) /\ j + 1 \in 1 .. Len(idequeue)
      BY <2>6
    <3>2. idequeue[i + 1] = idequeue[j + 1]
      BY <2>6, Zenon
    <3>3. i + 1 = j + 1
      BY <3>1, <3>2, Zenon DEF QueueDistinct
    <3> QED
      BY <2>6, <3>3
  <2>a. DOMAIN idequeue = 1 .. Len(idequeue) /\ DOMAIN idequeue' = 1 .. Len(idequeue')
    BY <1>a, <2>6
  <2>8. Range(idequeue') = Range(idequeue) \ {b}
    <3>1. ASSUME NEW i \in 1 .. Len(idequeue')
          PROVE  idequeue'[i] \in Range(idequeue) \ {b}
      <4>1. i + 1 \in 1 .. Len(idequeue) /\ i + 1 # 1 /\ 1 \in 1 .. Len(idequeue)
        BY <2>6
      <4> QED
        BY <1>a, <2>6, <4>1 DEF Range, QueueDistinct
    <3>2. ASSUME NEW i \in 1 .. Len(idequeue), idequeue[i] # b
          PROVE  idequeue[i] \in Range(idequeue')
      <4>1. i - 1 \in 1 .. Len(idequeue') /\ (i - 1) + 1 = i
        BY <2>6, <3>2
      <4> QED
        BY <2>6, <2>a, <4>1, Zenon DEF Range
    <3> QED
      BY <2>a, <3>1, <3>2, Zenon DEF Range
  <2>9. {cur'[q] : q \in InDriver'} = {cur[q] : q \in InDriver} \ {b}
    BY <2>2, <2>4, <2>5, Zenon
  <2>10. Len(idequeue') = Cardinality(InDriver')
    <3>1. Cardinality(InDriver') = Cardinality(InDriver) - 1
      <4>1. p \in InDriver
        BY <2>1, Zenon DEF InDriver
      <4> QED
        BY <2>5, <4>1, InDriverFinite, FS_RemoveElement, Zenon
    <3> QED
      BY <1>a, <2>6, <3>1, Zenon DEF Sleepers
  <2> QED
    BY <1>a, <2>7, <2>8, <2>9, <2>10, Zenon DEF Sleepers
<1>4. ASSUME UNCHANGED <<idequeue, cur>>, NEW p \in Procs, pc[p] # "ide",
             NEW s, s # "ide", pc' = [pc EXCEPT ![p] = s]
      PROVE  Sleepers' /\ QueueDistinct'
  BY <1>1, <1>4, <1>a, Zenon DEF InDriver, ProcTypes
<1>5. ASSUME NEW p \in Procs, Acquire(p) PROVE Sleepers' /\ QueueDistinct'
  BY <1>4, <1>5, Zenon DEF Acquire, ideVars
<1>6. ASSUME NEW p \in Procs, Release(p) PROVE Sleepers' /\ QueueDistinct'
  <2>1. \A q \in Procs : pc'[q] = "ide" <=> pc[q] = "ide"
    BY <1>6, Zenon DEF Release, BufWoken
  <2> QED
    BY <1>1, <1>6, <2>1, Zenon DEF Release, InDriver, ideVars
<1>7. ASSUME NEW p \in Procs, pc[p] # "ide", pc'[p] # "ide", UNCHANGED idequeue,
             \A q \in Procs \ {p} : pc'[q] = pc[q] /\ cur'[q] = cur[q]
      PROVE  Sleepers' /\ QueueDistinct'
  BY <1>1, <1>7, Zenon DEF InDriver
<1>8. ASSUME NEW p \in Procs, Brelse(p) PROVE Sleepers' /\ QueueDistinct'
  BY <1>7, <1>8, <1>a, Zenon DEF Brelse, ProcTypes, ideVars
<1>9. ASSUME NEW p \in Procs, NEW k \in Blocks, BgetHit(p, k) \/ BgetRecycle(p, k)
      PROVE  Sleepers' /\ QueueDistinct'
  BY <1>7, <1>9, <1>a, Zenon DEF BgetHit, BgetRecycle, ProcTypes, ideVars
<1>10. ASSUME NEW p \in Procs, BreadValid(p) PROVE Sleepers' /\ QueueDistinct'
  BY <1>4, <1>10, Zenon DEF BreadValid, ideVars
<1>11. ASSUME NEW p \in Procs, IderwWoken(p) PROVE Sleepers' /\ QueueDistinct'
  <2>1. UNCHANGED <<idequeue, cur>> /\ pc[p] = "woke" /\ cur[p] \in valid \ dirty
    BY <1>11, Zenon DEF IderwWoken, ideVars, UserInv
  <2>2. pc' = [pc EXCEPT ![p] = "held"]
    BY <1>11, <2>1, Zenon DEF IderwWoken
  <2> QED
    BY <1>4, <2>1, <2>2, Zenon
<1>12. ASSUME NEW p \in Procs, BreadDisk(p) PROVE Sleepers' /\ QueueDistinct'
  BY <1>2, <1>12, Zenon DEF BreadDisk, Iderw, Owning
<1>13. ASSUME NEW p \in Procs, NEW v \in Vals, Bwrite(p, v)
       PROVE  Sleepers' /\ QueueDistinct'
  BY <1>2, <1>13, Zenon DEF Bwrite, Iderw, Owning
<1>14. ASSUME UNCHANGED <<idequeue, pc, cur>> PROVE Sleepers' /\ QueueDistinct'
  BY <1>1, <1>14, Zenon DEF InDriver
<1>15. \/ UNCHANGED <<idequeue, pc, cur>>
       \/ idequeue # <<>> /\ IdeintrDone(Head(idequeue))
       \/ \E p \in Procs :
            \/ Acquire(p) \/ Release(p) \/ Brelse(p)
            \/ BreadValid(p) \/ BreadDisk(p) \/ IderwWoken(p)
            \/ \E k \in Blocks : BgetHit(p, k) \/ BgetRecycle(p, k)
            \/ \E v \in Vals : Bwrite(p, v)
  BY StepCases, Frames, Zenon
<1> QED
  BY <1>3, <1>5, <1>6, <1>8, <1>9, <1>10, <1>11, <1>12, <1>13, <1>14, <1>15,
     Zenon

-----------------------------------------------------------------------------
(* bget() gives up only when every buffer is pinned or used.               *)

LEMMA PanicStep ==
  ASSUME BioTypeOK, RefcntCounts, PanicMeansFull, [BioNext]_bioVars
  PROVE  PanicMeansFull'
<1>1. ASSUME NEW p \in Procs, NEW k \in Blocks, BgetPanic(p, k) PROVE PanicMeansFull'
  <2>1. \A b \in Bufs : refcnt[b] # 0 \/ b \in dirty
    BY <1>1, Zenon DEF BgetPanic, Recyclable
  <2>2. \A b \in Bufs : refcnt[b] # 0 => UsersOf(b) # {}
    BY UsersFinite, Zenon DEF RefcntCounts
  <2>3. dirty \cup {b \in Bufs : UsersOf(b) # {}} = Bufs
    BY <2>1, <2>2, Zenon DEF BioTypeOK
  <2>4. Cardinality(Bufs) = NBUF
    BY FS_Interval, BioAssumption DEF Bufs
  <2>5. UNCHANGED <<dirty, cur>>
    BY <1>1, Zenon DEF BgetPanic, flagVars
  <2> QED
    BY <2>3, <2>4, <2>5, Zenon DEF PanicMeansFull, UsersOf
<1>2. CASE UNCHANGED <<fault, dirty, cur>>
  BY <1>2, Zenon DEF PanicMeansFull, UsersOf
<1>3. CASE fault = "none" /\ UNCHANGED fault
  BY <1>3, Zenon DEF PanicMeansFull
<1>4. \/ UNCHANGED <<fault, dirty, cur>>
      \/ fault = "none" /\ UNCHANGED fault
      \/ \E p \in Procs, k \in Blocks : BgetPanic(p, k)
  BY StepCases, Frames, Zenon
<1> QED
  BY <1>1, <1>2, <1>3, <1>4, Zenon

-----------------------------------------------------------------------------
(* Types.                                                                  *)

LEMMA CacheTypesStep ==
  ASSUME BioTypeOK, RefcntCounts, [BioNext]_bioVars
  PROVE  CacheTypes' /\ refcnt' \in [Bufs -> Int]
<1>a. CacheTypes /\ ProcTypes /\ refcnt \in [Bufs -> Int]
  <2>1. CacheTypes /\ ProcTypes /\ CountTypes
    BY TypeParts, Zenon
  <2>2. Cardinality(Procs) \in Nat
    BY FS_CardinalityType, BioAssumption, Zenon
  <2> QED
    BY <2>1, <2>2 DEF CountTypes
<1>1. ASSUME UNCHANGED <<block, lru>> PROVE CacheTypes'
  BY <1>a, <1>1, Zenon DEF CacheTypes
<1>2. ASSUME NEW p \in Procs, NEW k \in Blocks, BgetHit(p, k)
      PROVE  CacheTypes' /\ refcnt' \in [Bufs -> Int]
  BY <1>a, <1>1, <1>2 DEF BgetHit, Cached
<1>3. ASSUME NEW p \in Procs, NEW k \in Blocks, BgetRecycle(p, k)
      PROVE  CacheTypes' /\ refcnt' \in [Bufs -> Int]
  <2>1. /\ block' = [block EXCEPT ![Victim] = k] /\ UNCHANGED lru
        /\ refcnt' = [refcnt EXCEPT ![Victim] = 1]
    BY <1>3, Zenon DEF BgetRecycle
  <2>2. CacheTypes'
    BY <1>a, <2>1, Zenon DEF CacheTypes
  <2>3. refcnt \in [Bufs -> Int] /\ 1 \in Int
    BY <1>a
  <2>4. refcnt' \in [Bufs -> Int]
    BY <2>1, <2>3, Zenon
  <2> QED
    BY <2>2, <2>4, Zenon
<1>4. ASSUME NEW p \in Procs, Brelse(p) PROVE CacheTypes' /\ refcnt' \in [Bufs -> Int]
  <2>1. cur[p] \in Bufs
    BY <1>a, <1>4, UserFacts, Zenon DEF Brelse
  <2>2. Fronted(cur[p]) \in [Bufs -> Bufs] /\ Range(Fronted(cur[p])) = Bufs
    BY <1>a, <2>1, FrontedFacts, Zenon
  <2>3. UNCHANGED block /\ (lru' = Fronted(cur[p]) \/ lru' = lru)
    BY <1>4, Zenon DEF Brelse
  <2>4. CacheTypes'
    BY <1>a, <2>2, <2>3, Zenon DEF CacheTypes
  <2> QED
    BY <1>a, <1>4, <2>1, <2>4 DEF Brelse, Dropped
<1>5. \/ UNCHANGED <<block, lru, refcnt>> \/ \E p \in Procs : Brelse(p)
      \/ \E p \in Procs, k \in Blocks : BgetHit(p, k) \/ BgetRecycle(p, k)
  BY StepCases, Frames, Zenon
<1> QED
  BY <1>a, <1>1, <1>2, <1>3, <1>4, <1>5, Zenon

LEMMA FlagTypesStep ==
  ASSUME BioTypeOK, UserInv, QueueServed, [BioNext]_bioVars
  PROVE  FlagTypes' /\ disk' \in [Blocks -> Vals] /\ last' \in [Blocks -> Vals]
<1>a. /\ CacheTypes /\ FlagTypes /\ ProcTypes
      /\ disk \in [Blocks -> Vals] /\ last \in [Blocks -> Vals]
  BY TypeParts, Zenon DEF IdeTypes
<1> DEFINE Goal == FlagTypes' /\ disk' \in [Blocks -> Vals] /\ last' \in [Blocks -> Vals]
<1>1. ASSUME UNCHANGED <<valid, dirty, failed, data, disk, last, holder>> PROVE Goal
  BY <1>a, <1>1, Zenon DEF FlagTypes
<1>2. ASSUME NEW p \in Procs, Acquire(p) PROVE Goal
  BY <1>a, <1>2, Zenon DEF Acquire, FlagTypes, ideVars, flagVars, histVars
<1>3. ASSUME NEW p \in Procs, Release(p) PROVE Goal
  BY <1>a, <1>3, Zenon DEF Release, FlagTypes, ideVars, flagVars, histVars
<1>4. ASSUME NEW p \in Procs, NEW k \in Blocks, BgetRecycle(p, k) PROVE Goal
  BY <1>a, <1>4, Zenon DEF BgetRecycle, ClearsFlags, FlagTypes, ideVars
<1>5. ASSUME NEW p \in Procs, NEW v \in Vals, LogWrite(p, v) \/ Bwrite(p, v) PROVE Goal
  <2>1. cur[p] \in Bufs
    BY <1>5, <1>a, Zenon DEF LogWrite, Bwrite, ProcTypes
  <2>2. /\ data' = [data EXCEPT ![cur[p]] = v] /\ dirty' = dirty \cup {cur[p]}
        /\ last' = [last EXCEPT ![block[cur[p]]] = v] /\ failed' = failed \ {cur[p]}
        /\ UNCHANGED <<valid, holder, disk>>
    BY <1>5, Zenon DEF LogWrite, Bwrite, Iderw, ideVars
  <2> QED
    BY <1>a, <2>1, <2>2, Zenon DEF FlagTypes
<1>6. CASE idequeue # <<>> /\ (Ideintr \/ IdeintrError)
  <2> DEFINE b == Head(idequeue)
  <2>1. /\ b \in Bufs /\ block[b] \in Blocks /\ hw.block = block[b]
        /\ hw.write => hw.val = data[b]
    BY <1>6, HeadFacts, Zenon
  <2>2. /\ valid' = valid \cup {b} /\ dirty' = dirty \ {b} /\ UNCHANGED <<last, holder>>
        /\ failed' \in {failed \ {b}, failed \cup {b}}
    BY <1>6, Zenon DEF Ideintr, IdeintrError, IdeintrDone
  <2>3. /\ disk' = (IF hw.write THEN [disk EXCEPT ![hw.block] = hw.val] ELSE disk)
           \/ UNCHANGED disk
        /\ data' = [data EXCEPT ![b] = IF hw.write THEN data[b] ELSE disk[hw.block]]
           \/ UNCHANGED data
    BY <1>6, Zenon DEF Ideintr, IdeintrError
  <2> HIDE DEF b
  <2>4. disk' \in [Blocks -> Vals]
    BY <1>a, <2>1, <2>3, Zenon DEF FlagTypes
  <2>5. data' \in [Bufs -> Vals]
    BY <1>a, <2>1, <2>3, Zenon DEF FlagTypes
  <2> QED
    BY <1>a, <2>1, <2>2, <2>4, <2>5, Zenon DEF FlagTypes
<1>7. \/ UNCHANGED <<valid, dirty, failed, data, disk, last, holder>>
      \/ idequeue # <<>> /\ (Ideintr \/ IdeintrError)
      \/ \E p \in Procs :
           \/ Acquire(p) \/ Release(p)
           \/ \E k \in Blocks : BgetRecycle(p, k)
           \/ \E v \in Vals : LogWrite(p, v) \/ Bwrite(p, v)
  <2>1. Ideintr \/ IdeintrError => idequeue # <<>>
    BY Zenon DEF Ideintr, IdeintrError
  <2> QED
    BY StepCases, Frames, Zenon
<1> QED
  BY <1>1, <1>2, <1>3, <1>4, <1>5, <1>6, <1>7, Zenon

\* The command is well formed when the queue, the buffers and their data are.
LEMMA IdeTypesStep ==
  ASSUME BioTypeOK, [BioNext]_bioVars, CacheTypes', FlagTypes',
         hw' = IdeStart(idequeue, dirty, data)',
         disk' \in [Blocks -> Vals], last' \in [Blocks -> Vals]
  PROVE  IdeTypes'
<1>a. ProcTypes /\ idequeue \in Seq(Bufs)
  BY TypeParts, Zenon DEF IdeTypes
<1>b. idequeue \in Seq(Bufs)
  BY <1>a, Zenon
<1>1. idequeue' \in Seq(Bufs)
  <2>1. ASSUME NEW p \in Procs, pc[p] # "out", idequeue' = Append(idequeue, cur[p])
        PROVE  idequeue' \in Seq(Bufs)
    <3>1. cur[p] \in Bufs
      BY <1>a, <2>1, Zenon DEF ProcTypes
    <3>2. Append(idequeue, cur[p]) \in Seq(Bufs)
      BY <1>b, <3>1
    <3> QED
      BY <2>1, <3>2, Zenon
  <2>2. CASE idequeue # <<>> /\ idequeue' = Tail(idequeue)
    BY <1>a, <2>2
  <2>3. ASSUME NEW p \in Procs, BreadDisk(p)
        PROVE  pc[p] # "out" /\ idequeue' = Append(idequeue, cur[p])
    BY <2>3, Zenon DEF BreadDisk, Iderw
  <2>4. ASSUME NEW p \in Procs, NEW v \in Vals, Bwrite(p, v)
        PROVE  pc[p] # "out" /\ idequeue' = Append(idequeue, cur[p])
    BY <2>4, Zenon DEF Bwrite, Iderw
  <2>5. \/ UNCHANGED idequeue
        \/ idequeue # <<>> /\ (Ideintr \/ IdeintrError)
        \/ \E p \in Procs : BreadDisk(p) \/ \E v \in Vals : Bwrite(p, v)
    BY StepCases, Frames, Zenon
  <2>6. Ideintr \/ IdeintrError => idequeue' = Tail(idequeue)
    BY Zenon DEF Ideintr, IdeintrError, IdeintrDone
  <2> QED
    BY <1>a, <2>1, <2>2, <2>3, <2>4, <2>5, <2>6, Zenon
<1>2. hw' \in [block : Blocks \cup {NoBlock}, write : BOOLEAN, val : Vals]
  <2>1. CASE idequeue' = <<>>
    BY <2>1, BioAssumption, Zenon DEF IdeStart, Idle
  <2>2. CASE idequeue' # <<>>
    <3> DEFINE h == Head(idequeue')
    <3>1. h \in Bufs
      BY <1>1, <2>2
    <3>2. block'[h] \in Blocks \cup {NoBlock} /\ data'[h] \in Vals
      BY <3>1, Zenon DEF CacheTypes, FlagTypes
    <3>3. hw' = [block |-> block'[h], write |-> h \in dirty',
                 val |-> IF h \in dirty' THEN data'[h] ELSE Zero]
      BY <2>2, Zenon DEF IdeStart
    <3> HIDE DEF h
    <3>4. (IF h \in dirty' THEN data'[h] ELSE Zero) \in Vals /\ (h \in dirty') \in BOOLEAN
      BY <3>2, BioAssumption
    <3> QED
      BY <3>2, <3>3, <3>4
  <2> QED
    BY <2>1, <2>2, Zenon
<1> QED
  BY <1>1, <1>2, Zenon DEF IdeTypes

LEMMA ProcTypesStep ==
  ASSUME BioTypeOK, RefcntCounts, [BioNext]_bioVars
  PROVE  ProcTypes' /\ fault' \in {"none", "no buffers"}
<1>a. CacheTypes /\ ProcTypes /\ fault \in {"none", "no buffers"}
  BY TypeParts, Zenon
<1>b. fault' \in {"none", "no buffers"}
  <2>1. \A p \in Procs, k \in Blocks : BgetPanic(p, k) => fault' = "no buffers"
    BY Zenon DEF BgetPanic
  <2>2. UNCHANGED fault \/ \E p \in Procs, k \in Blocks : BgetPanic(p, k)
    BY StepCases, Frames, Zenon
  <2> QED
    BY <1>a, <2>1, <2>2, Zenon
<1>1. ASSUME UNCHANGED cur, NEW p \in Procs, pc[p] # "out",
             NEW s \in BufPoints \ {"out"}, pc' = [pc EXCEPT ![p] = s]
      PROVE  ProcTypes'
  BY <1>a, <1>1, Zenon DEF ProcTypes
<1>2. ASSUME NEW p \in Procs, NEW b \in Bufs, pc' = [pc EXCEPT ![p] = "acq"],
             cur' = [cur EXCEPT ![p] = b]
      PROVE  ProcTypes'
  BY <1>a, <1>2, Zenon DEF ProcTypes, BufPoints
<1>3. ASSUME NEW p \in Procs, NEW k \in Blocks, BgetHit(p, k) PROVE ProcTypes'
  BY <1>2, <1>3, Zenon DEF BgetHit, Cached
<1>4. ASSUME NEW p \in Procs, NEW k \in Blocks, BgetRecycle(p, k) PROVE ProcTypes'
  <2>1. Victim \in Bufs
    BY <1>4, VictimUnused, Zenon DEF BgetRecycle
  <2> QED
    BY <1>2, <1>4, <2>1, Zenon DEF BgetRecycle
<1>5. ASSUME NEW p \in Procs,
             Acquire(p) \/ BreadValid(p) \/ BreadDisk(p) \/ IderwWoken(p)
      PROVE  ProcTypes'
  BY <1>1, <1>5, Zenon DEF Acquire, BreadValid, BreadDisk, Iderw, IderwWoken,
     BufPoints
<1>6. ASSUME NEW p \in Procs, NEW v \in Vals, Bwrite(p, v) PROVE ProcTypes'
  BY <1>1, <1>6, Zenon DEF Bwrite, Iderw, BufPoints
<1>7. ASSUME NEW p \in Procs, Release(p) PROVE ProcTypes'
  BY <1>a, <1>7, Zenon DEF Release, BufWoken, ProcTypes, BufPoints
<1>8. ASSUME NEW p \in Procs, Brelse(p) PROVE ProcTypes'
  BY <1>a, <1>8, Zenon DEF Brelse, ProcTypes, BufPoints
<1>9. ASSUME NEW b, IdeintrDone(b) PROVE ProcTypes'
  BY <1>a, <1>9, Zenon DEF IdeintrDone, Answered, ProcTypes, BufPoints
<1>10. ASSUME UNCHANGED <<pc, cur>> PROVE ProcTypes'
  BY <1>a, <1>10, Zenon DEF ProcTypes
<1>11. \/ UNCHANGED <<pc, cur>>
       \/ IdeintrDone(Head(idequeue))
       \/ \E p \in Procs :
            \/ Acquire(p) \/ Release(p) \/ Brelse(p)
            \/ BreadValid(p) \/ BreadDisk(p) \/ IderwWoken(p)
            \/ \E k \in Blocks : BgetHit(p, k) \/ BgetRecycle(p, k)
            \/ \E v \in Vals : Bwrite(p, v)
  BY StepCases, Frames, Zenon
<1> QED
  BY <1>b, <1>3, <1>4, <1>5, <1>6, <1>7, <1>8, <1>9, <1>10, <1>11, Zenon

-----------------------------------------------------------------------------
(* The invariant and the theorems.                                         *)

LEMMA BioInitIInv == BioInit => BioIInv
<1> SUFFICES ASSUME BioInit PROVE BioIInv
  BY Zenon
<1> USE BioAssumption
<1>1. \A b \in Bufs : UsersOf(b) = {}
  BY DEF BioInit, UsersOf, Bufs, NoBuf
<1>2. InDriver = {}
  BY Zenon DEF BioInit, InDriver
<1>3. RefcntCounts
  BY <1>1, FS_EmptySet, Zenon DEF BioInit, RefcntCounts
<1>4. BioTypeOK
  <2>1. CacheTypes
    <3>1. lru \in [Bufs -> Bufs]
      BY DEF BioInit, Bufs
    <3>2. \A b \in Bufs : NBUF + 1 - b \in Bufs /\ lru[NBUF + 1 - b] = b
      BY DEF BioInit, Bufs
    <3>3. Range(lru) = Bufs
      BY <3>1, <3>2, Zenon DEF Range
    <3> QED
      BY <3>1, <3>3, Zenon DEF BioInit, CacheTypes
  <2>2. FlagTypes
    BY Zenon DEF BioInit, FlagTypes
  <2>3. IdeTypes
    BY DEF BioInit, IdeTypes, Idle
  <2>4. ProcTypes /\ fault \in {"none", "no buffers"}
    BY Zenon DEF BioInit, ProcTypes, BufPoints
  <2>5. CountTypes
    BY FS_CardinalityType DEF BioInit, CountTypes
  <2> QED
    BY <2>1, <2>2, <2>3, <2>4, <2>5, TypeParts, Zenon
<1>5. OneBufferPerBlock
  BY Zenon DEF BioInit, OneBufferPerBlock
<1>6. OneOwner /\ NoLostRelease /\ UserInv
  BY Zenon DEF BioInit, OneOwner, NoLostRelease, UserInv
<1>7. QueueServed
  <2>1. Sleepers
    BY <1>2, FS_EmptySet DEF BioInit, Sleepers, Range
  <2>2. hw = IdeStart(idequeue, dirty, data)
    BY Zenon DEF BioInit, IdeStart
  <2> QED
    BY <2>1, <2>2, QueueParts, Zenon
<1>8. QueueDistinct
  BY DEF BioInit, QueueDistinct
<1>9. DataInv
  BY Zenon DEF BioInit, DataInv
<1>10. PanicMeansFull
  BY Zenon DEF BioInit, PanicMeansFull
<1> QED
  BY <1>3, <1>4, <1>5, <1>6, <1>7, <1>8, <1>9, <1>10, Zenon DEF BioIInv

LEMMA BioIInvStep == BioIInv /\ [BioNext]_bioVars => BioIInv'
<1> SUFFICES ASSUME BioIInv, [BioNext]_bioVars PROVE BioIInv'
  BY Zenon
<1>1. /\ BioTypeOK /\ OneBufferPerBlock /\ RefcntCounts /\ OneOwner /\ NoLostRelease
      /\ UserInv /\ QueueServed /\ QueueDistinct /\ DataInv /\ PanicMeansFull
  BY Zenon DEF BioIInv
<1>2. OneBufferPerBlock' /\ RefcntCounts' /\ PanicMeansFull'
  BY <1>1, OneBufferStep, RefcntStep, PanicStep, Zenon
<1>3. OneOwner' /\ NoLostRelease' /\ UserInv' /\ DataInv'
  BY <1>1, LockStep, UserStep, DataStep, Zenon
<1>4. hw' = IdeStart(idequeue, dirty, data)' /\ Sleepers' /\ QueueDistinct'
  BY <1>1, HwStep, SleepersStep, Zenon
<1>5. QueueServed'
  BY <1>4, QueueParts, Zenon
<1>6. CacheTypes' /\ CountTypes'
  BY <1>1, <1>2, CacheTypesStep, CountBound, Zenon
<1>7. FlagTypes' /\ IdeTypes'
  BY <1>1, <1>4, <1>6, FlagTypesStep, IdeTypesStep, Zenon
<1>8. BioTypeOK'
  BY <1>1, <1>6, <1>7, ProcTypesStep, TypePartsNext, Zenon
<1> QED
  BY <1>2, <1>3, <1>4, <1>5, <1>8, Zenon DEF BioIInv

LEMMA BioInvariance == BioSpec => []BioIInv
BY BioInitIInv, BioIInvStep, PTL DEF BioSpec

\* For any number of processes, buffers and blocks, bio.c, sleeplock.c and
\* ide.c keep one buffer per block, count its users, give its data one owner,
\* and lose no request and no wakeup.
THEOREM CacheStaysConsistent == BioSpec => []CacheConsistent
<1>1. BioIInv => CleanOnDisk
  <2> SUFFICES ASSUME BioIInv, NEW b \in valid \ (dirty \cup failed)
               PROVE  disk[block[b]] = data[b]
    BY Zenon DEF CleanOnDisk
  <2>1. BioTypeOK /\ OneBufferPerBlock /\ DataInv
    BY Zenon DEF BioIInv
  <2>2. b \in Bufs /\ block[b] \in Blocks /\ block[b] # NoBlock /\ dirty \subseteq Bufs
    <3>1. CacheTypes /\ FlagTypes
      BY <2>1, TypeParts, Zenon
    <3> QED
      BY <2>1, <3>1 DEF CacheTypes, FlagTypes, DataInv
  <2>3. \A c \in dirty : block[c] # block[b]
    BY <2>1, <2>2, Zenon DEF OneBufferPerBlock
  <2> QED
    BY <2>1, <2>2, <2>3, Zenon DEF DataInv
<1>2. BioIInv => CacheConsistent
  BY <1>1, Zenon DEF BioIInv, CacheConsistent
<1> QED
  BY <1>2, BioInvariance, PTL

\* Whatever is recycled, pinned, written late or read again, a read of a block
\* returns what was last written to it, unless the drive failed to read it.
THEOREM ReadsReturnLastWrite == BioSpec => []ReadsLastWrite
<1>1. BioIInv => ReadsLastWrite
  <2> SUFFICES ASSUME BioIInv PROVE ReadsLastWrite
    BY Zenon
  <2>1. BioTypeOK /\ OneBufferPerBlock /\ DataInv /\ NoBlock \notin Blocks
    BY BioAssumption, Zenon DEF BioIInv, NoBlock
  <2>2. ASSUME NEW k \in Blocks, NEW b \in Cached(k), b \in valid, NEW c \in Cached(k) \ failed
        PROVE  data[c] = last[k]
    <3>1. b = c
      BY <2>1, <2>2, Zenon DEF OneBufferPerBlock, Cached
    <3> QED
      BY <2>1, <2>2, <3>1, Zenon DEF DataInv, Cached
  <2>3. ASSUME NEW k \in Blocks, ~ \E b \in Cached(k) : b \in valid
        PROVE  disk[k] = last[k]
    <3>1. \A b \in dirty : block[b] # k
      BY <2>1, <2>3, Zenon DEF BioTypeOK, DataInv, Cached
    <3> QED
      BY <2>1, <3>1, Zenon DEF DataInv
  <2> QED
    BY <2>2, <2>3, Zenon DEF ReadsLastWrite
<1> QED
  BY <1>1, BioInvariance, PTL

=============================================================================
