----------------------------- MODULE SpinProofs -----------------------------
(***************************************************************************)
(* Spin locks exclude each other, interrupts stay off while one is held    *)
(* and come back after the last, and neither acquire(), release() nor      *)
(* popcli() panics: for any number of CPUs and locks.                      *)
(***************************************************************************)
EXTENDS Spinlock, FiniteSetTheorems, TLAPS

\* Where a frame is about to take lk, has it, and has changed ncli but not yet
\* or no longer the lock.
Taking == {"cli", "holding", "acquire?", "xchg"}
Having == {"owner", "release", "release?", "clear", "unlock"}
Counting == {"holding", "acquire?", "xchg", "popcli"}
SpinPoints == {"idle", "popcli"} \cup Taking \cup Having

Frames ==
  [pc : SpinPoints, lk : Locks \cup {0}, held : SUBSET Locks, saw : BOOLEAN]

SpinTypeOK ==
  /\ locked \in [Locks -> BOOLEAN] /\ lkcpu \in [Locks -> Cores \cup {0}]
  /\ IF_ \in [Cores -> BOOLEAN]
  /\ ncli \in [Cores -> Nat] /\ intena \in [Cores -> BOOLEAN]
  /\ frames \in [Cores -> [1 .. 2 -> Frames]]
  /\ depth \in [Cores -> {1, 2}]

\* What the running frame of a CPU means to do with lk, and what holding() has
\* told it so far.
TopInv ==
  \A c \in Cores :
    /\ Top(c).pc \in Taking => Top(c).lk \in Locks \ Top(c).held
    /\ Top(c).pc \in Having => Top(c).lk \in Top(c).held
    /\ Top(c).pc = "release?" => Top(c).saw

\* An interrupt comes only where the thread holds nothing: outside acquire(), or
\* in pushcli() between readeflags() and cli.
UnderInv ==
  \A c \in Cores : depth[c] = 2 =>
    /\ frames[c][1].held = {} /\ frames[c][1].pc \in {"idle", "cli"}
    /\ frames[c][1].pc = "cli" => frames[c][1].saw /\ frames[c][1].lk \in Locks

\* ncli counts the locks held and the one in work; interrupts are on exactly in
\* a thread with none, and intena remembers whether it is one.
CliInv ==
  \A c \in Cores :
    /\ ncli[c] = Cardinality(Top(c).held)
                   + (IF Top(c).pc \in Counting THEN 1 ELSE 0)
    /\ IF_[c] <=> depth[c] = 1 /\ ncli[c] = 0
    /\ ncli[c] > 0 => (intena[c] <=> depth[c] = 1)
    /\ Top(c).pc = "cli" => (Top(c).saw <=> IF_[c])

OneHolder ==
  \A c, d \in Cores : c # d => Top(c).held \cap Top(d).held = {}

\* lk->cpu names the holder from the end of acquire() to the middle of release(),
\* and nobody else.
HolderNamed ==
  \A c \in Cores : \A l \in Top(c).held :
    /\ locked[l]
    /\ \/ lkcpu[l] = c
       \/ Top(c).pc \in {"owner", "unlock"} /\ Top(c).lk = l

NamedHolds ==
  \A c \in Cores : \A l \in Locks : lkcpu[l] = c =>
    l \in Top(c).held /\ ~(Top(c).pc = "unlock" /\ Top(c).lk = l)

LockInv == OneHolder /\ HolderNamed /\ NamedHolds

SpinIInv ==
  SpinTypeOK /\ NoSpinPanic /\ TopInv /\ UnderInv /\ CliInv /\ LockInv

-----------------------------------------------------------------------------
(* Sets of locks.                                                          *)

LEMMA HeldFinite ==
  ASSUME NEW H \in SUBSET Locks
  PROVE  IsFiniteSet(H) /\ Cardinality(H) \in Nat /\ (Cardinality(H) = 0 <=> H = {})
  <1>1. IsFiniteSet(Locks)
    BY FS_Interval, SpinAssumption DEF Locks
  <1> QED
    BY <1>1, FS_Subset, FS_CardinalityType, FS_EmptySet, Zenon

LEMMA HeldAdd ==
  ASSUME NEW H \in SUBSET Locks, NEW l \in Locks, l \notin H
  PROVE  Cardinality(H \cup {l}) = Cardinality(H) + 1
  BY HeldFinite, FS_AddElement, Zenon

LEMMA HeldRemove ==
  ASSUME NEW H \in SUBSET Locks, NEW l \in H
  PROVE  Cardinality(H \ {l}) = Cardinality(H) - 1
  BY HeldFinite, FS_RemoveElement, Zenon

-----------------------------------------------------------------------------
(* A step of the frame that runs on a CPU.                                 *)

LEMMA TopType ==
  ASSUME SpinTypeOK, NEW c \in Cores
  PROVE  /\ Top(c) \in Frames /\ depth[c] \in {1, 2}
         /\ frames[c][1] \in Frames /\ frames[c][2] \in Frames
  BY DEF SpinTypeOK, Top

LEMMA TopMove ==
  ASSUME SpinTypeOK, NEW c \in Cores, NEW f \in Frames, SetTop(c, f)
  PROVE  /\ Top(c)' = f
         /\ \A d \in Cores \ {c} : Top(d)' = Top(d)
         /\ \A d \in Cores : depth[d] = 2 => frames'[d][1] = frames[d][1]
         /\ frames' \in [Cores -> [1 .. 2 -> Frames]]
         /\ depth' = depth
  BY DEF SpinTypeOK, SetTop, Top

\* What the frame f must satisfy where the CPU's registers are n (ncli), i (IF)
\* and a (intena).
LocalOK(c, f, n, i, a) ==
  /\ f.pc \in Taking => f.lk \in Locks \ f.held
  /\ f.pc \in Having => f.lk \in f.held
  /\ f.pc = "release?" => f.saw
  /\ n = Cardinality(f.held) + (IF f.pc \in Counting THEN 1 ELSE 0)
  /\ i <=> depth[c] = 1 /\ n = 0
  /\ n > 0 => (a <=> depth[c] = 1)
  /\ f.pc = "cli" => (f.saw <=> i)

LEMMA LocalSplit ==
  /\ TopInv /\ CliInv <=>
       \A c \in Cores : LocalOK(c, Top(c), ncli[c], IF_[c], intena[c])
  /\ TopInv' /\ CliInv' <=>
       \A c \in Cores : LocalOK(c, Top(c), ncli[c], IF_[c], intena[c])'
  BY Zenon DEF TopInv, CliInv, LocalOK

LEMMA LocalKeeps ==
  ASSUME SpinIInv, NEW c \in Cores, NEW f \in Frames, SetTop(c, f),
         \A d \in Cores \ {c} :
           ncli'[d] = ncli[d] /\ IF_'[d] = IF_[d] /\ intena'[d] = intena[d],
         LocalOK(c, f, ncli'[c], IF_'[c], intena'[c])
  PROVE  TopInv' /\ CliInv' /\ UnderInv'
  <1>1. /\ Top(c)' = f
        /\ \A d \in Cores \ {c} : Top(d)' = Top(d)
        /\ \A d \in Cores : depth[d] = 2 => frames'[d][1] = frames[d][1]
        /\ depth' = depth
    BY TopMove, Zenon DEF SpinIInv
  <1>2. UnderInv'
    BY <1>1, Zenon DEF SpinIInv, UnderInv
  <1>3. ASSUME NEW d \in Cores
        PROVE  LocalOK(d, Top(d), ncli[d], IF_[d], intena[d])'
    <2>1. CASE d = c
      BY <1>1, <2>1, Zenon DEF LocalOK
    <2>2. CASE d # c
      <3>1. LocalOK(d, Top(d), ncli[d], IF_[d], intena[d])
        BY LocalSplit, Zenon DEF SpinIInv
      <3> QED
        BY <1>1, <2>2, <3>1, Zenon DEF LocalOK
    <2> QED
      BY <2>1, <2>2, Zenon
  <1> QED
    BY <1>2, <1>3, LocalSplit, Zenon

\* Nobody's locks change hands.
LEMMA QuietLocks ==
  ASSUME SpinIInv, NEW c \in Cores, NEW f \in Frames, SetTop(c, f),
         f.held = Top(c).held, Top(c).pc \notin {"owner", "unlock"},
         f.pc # "unlock", UNCHANGED <<locked, lkcpu>>
  PROVE  LockInv'
  <1>1. /\ Top(c)' = f
        /\ \A d \in Cores \ {c} : Top(d)' = Top(d)
    BY TopMove, Zenon DEF SpinIInv
  <1>2. \A d \in Cores : Top(d)'.held = Top(d).held
    BY <1>1, Zenon
  <1>3. OneHolder'
    BY <1>2, Zenon DEF SpinIInv, LockInv, OneHolder
  <1>4. HolderNamed'
    <2> SUFFICES ASSUME NEW d \in Cores, NEW l \in Top(d)'.held
                 PROVE  /\ locked'[l]
                        /\ \/ lkcpu'[l] = d
                           \/ Top(d)'.pc \in {"owner", "unlock"} /\ Top(d)'.lk = l
      BY Zenon DEF HolderNamed
    <2>1. l \in Top(d).held
      BY <1>2, Zenon
    <2>2. /\ locked[l]
          /\ \/ lkcpu[l] = d
             \/ Top(d).pc \in {"owner", "unlock"} /\ Top(d).lk = l
      BY <2>1, Zenon DEF SpinIInv, LockInv, HolderNamed
    <2>3. d # c => Top(d)' = Top(d)
      BY <1>1, Zenon
    <2> QED
      BY <2>2, <2>3, Zenon
  <1>5. NamedHolds'
    <2> SUFFICES ASSUME NEW d \in Cores, NEW l \in Locks, lkcpu'[l] = d
                 PROVE  /\ l \in Top(d)'.held
                        /\ ~(Top(d)'.pc = "unlock" /\ Top(d)'.lk = l)
      BY Zenon DEF NamedHolds
    <2>1. lkcpu[l] = d
      BY Zenon
    <2> QED
      BY <1>1, <1>2, <2>1, Zenon DEF SpinIInv, LockInv, NamedHolds
  <1> QED
    BY <1>3, <1>4, <1>5, Zenon DEF LockInv

-----------------------------------------------------------------------------
(* acquire().                                                              *)

LEMMA CallAcquireKeeps ==
  ASSUME SpinIInv, NEW c \in Cores, CallAcquire(c)
  PROVE  SpinIInv'
  <1> DEFINE f(l) == [Top(c) EXCEPT !.pc = "cli", !.lk = l, !.saw = IF_[c]]
  <1>1. PICK l \in Locks : l \notin Top(c).held /\ SetTop(c, f(l))
    <2>1. PICK l \in Locks :
             /\ IF depth[c] = 1 THEN \A h \in Top(c).held : h < l
                                ELSE l = 1 /\ Top(c).held = {}
             /\ SetTop(c, f(l))
      BY Zenon DEF CallAcquire
    <2>2. l \in Int
      BY SpinAssumption DEF Locks
    <2>3. l \notin Top(c).held
      BY <2>1, <2>2
    <2> QED
      BY <2>1, <2>3, Zenon
  <1>2. SpinTypeOK /\ Top(c) \in Frames /\ Top(c).pc = "idle"
    BY TopType, Zenon DEF SpinIInv, CallAcquire, PcIs
  <1>3. /\ f(l) \in Frames /\ f(l).pc = "cli" /\ f(l).lk = l
        /\ f(l).held = Top(c).held /\ f(l).saw = IF_[c]
    BY <1>2, Zenon DEF Frames, SpinPoints, Taking, SpinTypeOK
  <1> HIDE DEF f
  <1>4. UNCHANGED <<locked, lkcpu, IF_, ncli, intena, spinFault>>
    BY Zenon DEF CallAcquire
  <1>5. LocalOK(c, Top(c), ncli[c], IF_[c], intena[c])
    BY LocalSplit, Zenon DEF SpinIInv
  <1>6. LocalOK(c, f(l), ncli'[c], IF_'[c], intena'[c])
    BY <1>1, <1>2, <1>3, <1>4, <1>5, Zenon DEF LocalOK, Taking, Having,
       Counting
  <1>7. TopInv' /\ CliInv' /\ UnderInv'
    BY <1>1, <1>3, <1>4, <1>6, LocalKeeps, Zenon
  <1>8. LockInv'
    BY <1>1, <1>2, <1>3, <1>4, QuietLocks, Zenon
  <1>9. SpinTypeOK' /\ NoSpinPanic'
    BY <1>1, <1>2, <1>3, <1>4, TopMove, Zenon DEF SpinTypeOK, SpinIInv,
       NoSpinPanic
  <1> QED
    BY <1>7, <1>8, <1>9, Zenon DEF SpinIInv

LEMMA PushcliKeeps ==
  ASSUME SpinIInv, NEW c \in Cores, Pushcli(c)
  PROVE  SpinIInv'
  <1> DEFINE f == [Top(c) EXCEPT !.pc = "holding"]
  <1>1. SetTop(c, f)
    BY Zenon DEF Pushcli, Goto
  <1>2. SpinTypeOK /\ Top(c) \in Frames /\ Top(c).pc = "cli"
    BY TopType, Zenon DEF SpinIInv, Pushcli, PcIs
  <1>3. /\ f \in Frames /\ f.pc = "holding" /\ f.lk = Top(c).lk
        /\ f.held = Top(c).held
    BY <1>2, Zenon DEF Frames, SpinPoints, Taking
  <1> HIDE DEF f
  <1>4. /\ UNCHANGED <<locked, lkcpu, spinFault>>
        /\ IF_' = [IF_ EXCEPT ![c] = FALSE]
        /\ intena' = [intena EXCEPT ![c] = Saved(c)]
        /\ ncli' = [ncli EXCEPT ![c] = @ + 1]
    BY Zenon DEF Pushcli, Cli
  <1>5. LocalOK(c, Top(c), ncli[c], IF_[c], intena[c])
    BY LocalSplit, Zenon DEF SpinIInv
  <1>6. /\ ncli'[c] = ncli[c] + 1 /\ IF_'[c] = FALSE /\ intena'[c] = Saved(c)
        /\ \A d \in Cores \ {c} :
             ncli'[d] = ncli[d] /\ IF_'[d] = IF_[d] /\ intena'[d] = intena[d]
    BY <1>2, <1>4, Zenon DEF SpinTypeOK
  <1>7. Saved(c) \in BOOLEAN /\ ncli[c] \in Nat
    BY <1>2, Zenon DEF Saved, SpinTypeOK, Frames
  <1>8. LocalOK(c, f, ncli'[c], IF_'[c], intena'[c])
    <2>1. Saved(c) <=> depth[c] = 1
      BY <1>2, <1>5, <1>7 DEF Saved, LocalOK
    <2>2. Cardinality(f.held) \in Nat
      BY <1>3, HeldFinite, Zenon DEF Frames
    <2> QED
      BY <1>2, <1>3, <1>5, <1>6, <1>7, <2>1, <2>2 DEF LocalOK, Taking, Having,
         Counting
  <1>9. TopInv' /\ CliInv' /\ UnderInv'
    BY <1>1, <1>3, <1>6, <1>8, LocalKeeps, Zenon
  <1>10. LockInv'
    BY <1>1, <1>2, <1>3, <1>4, QuietLocks, Zenon
  <1>11. SpinTypeOK' /\ NoSpinPanic'
    BY <1>1, <1>2, <1>3, <1>4, <1>7, TopMove DEF SpinTypeOK, SpinIInv,
       NoSpinPanic
  <1> QED
    BY <1>9, <1>10, <1>11, Zenon DEF SpinIInv

LEMMA HoldingLockedKeeps ==
  ASSUME SpinIInv, NEW c \in Cores, HoldingLocked(c)
  PROVE  SpinIInv'
  <1> DEFINE f == [Top(c) EXCEPT !.saw = locked[Top(c).lk],
                                 !.pc = IF @ = "holding" THEN "acquire?"
                                                         ELSE "release?"]
  <1>1. SetTop(c, f)
    BY Zenon DEF HoldingLocked
  <1>2. SpinTypeOK /\ Top(c) \in Frames /\ Top(c).pc \in {"holding", "release"}
    BY TopType, Zenon DEF SpinIInv, HoldingLocked
  <1>3. LocalOK(c, Top(c), ncli[c], IF_[c], intena[c])
    BY LocalSplit, Zenon DEF SpinIInv
  <1>4. Top(c).lk \in Locks /\ locked[Top(c).lk] \in BOOLEAN
    BY <1>2, <1>3, Zenon DEF LocalOK, Taking, Having, Frames, SpinTypeOK
  <1>5. /\ f \in Frames /\ f.lk = Top(c).lk /\ f.held = Top(c).held
        /\ f.saw = locked[Top(c).lk]
        /\ f.pc = IF Top(c).pc = "holding" THEN "acquire?" ELSE "release?"
    BY <1>2, <1>4, Zenon DEF Frames, SpinPoints, Taking, Having
  <1> HIDE DEF f
  <1>6. UNCHANGED <<locked, lkcpu, IF_, ncli, intena, spinFault>>
    BY Zenon DEF HoldingLocked
  <1>7. Top(c).pc = "release" => locked[Top(c).lk]
    BY <1>3, Zenon DEF LocalOK, Having, SpinIInv, LockInv, HolderNamed
  <1>8. LocalOK(c, f, ncli'[c], IF_'[c], intena'[c])
    BY <1>2, <1>3, <1>5, <1>6, <1>7, Zenon DEF LocalOK, Taking, Having,
       Counting
  <1>9. TopInv' /\ CliInv' /\ UnderInv'
    BY <1>1, <1>5, <1>6, <1>8, LocalKeeps, Zenon
  <1>10. LockInv'
    BY <1>1, <1>2, <1>5, <1>6, QuietLocks, Zenon
  <1>11. SpinTypeOK' /\ NoSpinPanic'
    BY <1>1, <1>2, <1>5, <1>6, TopMove, Zenon DEF SpinTypeOK, SpinIInv,
       NoSpinPanic
  <1> QED
    BY <1>9, <1>10, <1>11, Zenon DEF SpinIInv

\* lk->cpu is this CPU exactly if the CPU has the lock, although another one may
\* have given lk->locked a new value since it was read.
LEMMA HoldingCpuKeeps ==
  ASSUME SpinIInv, NEW c \in Cores, HoldingCpu(c)
  PROVE  SpinIInv'
  <1> DEFINE f == [Top(c) EXCEPT !.pc = IF PcIs(c, "acquire?") THEN "xchg"
                                                              ELSE "clear"]
  <1>1. SetTop(c, f)
    BY Zenon DEF HoldingCpu, Goto
  <1>2. SpinTypeOK /\ Top(c) \in Frames /\ Top(c).pc \in {"acquire?", "release?"}
    BY TopType, Zenon DEF SpinIInv, HoldingCpu
  <1>3. LocalOK(c, Top(c), ncli[c], IF_[c], intena[c])
    BY LocalSplit, Zenon DEF SpinIInv
  <1>4. /\ f \in Frames /\ f.lk = Top(c).lk /\ f.held = Top(c).held
        /\ f.pc = IF Top(c).pc = "acquire?" THEN "xchg" ELSE "clear"
    BY <1>2, Zenon DEF Frames, SpinPoints, Taking, Having, PcIs
  <1> HIDE DEF f
  <1>5. UNCHANGED <<locked, lkcpu, IF_, ncli, intena>>
    BY Zenon DEF HoldingCpu
  <1>6. LocalOK(c, f, ncli'[c], IF_'[c], intena'[c])
    BY <1>2, <1>3, <1>4, <1>5, Zenon DEF LocalOK, Taking, Having, Counting
  <1>7. TopInv' /\ CliInv' /\ UnderInv'
    BY <1>1, <1>4, <1>5, <1>6, LocalKeeps, Zenon
  <1>8. LockInv'
    BY <1>1, <1>2, <1>4, <1>5, QuietLocks, Zenon
  <1>9. NoSpinPanic'
    <2>1. CASE Top(c).pc = "acquire?"
      <3>1. Top(c).lk \in Locks \ Top(c).held
        BY <1>3, <2>1, Zenon DEF LocalOK, Taking
      <3>2. lkcpu[Top(c).lk] # c
        BY <3>1, Zenon DEF SpinIInv, LockInv, NamedHolds
      <3> QED
        BY <2>1, <3>2, Zenon DEF HoldingCpu, PcIs, SpinIInv, NoSpinPanic
    <2>2. CASE Top(c).pc = "release?"
      <3>1. Top(c).lk \in Top(c).held /\ Top(c).saw
        BY <1>3, <2>2, Zenon DEF LocalOK, Having
      <3>2. lkcpu[Top(c).lk] = c
        BY <2>2, <3>1, Zenon DEF SpinIInv, LockInv, HolderNamed
      <3> QED
        BY <2>2, <3>1, <3>2, Zenon DEF HoldingCpu, PcIs, SpinIInv, NoSpinPanic
    <2> QED
      BY <1>2, <2>1, <2>2, Zenon
  <1>10. SpinTypeOK'
    BY <1>1, <1>2, <1>4, <1>5, TopMove, Zenon DEF SpinTypeOK
  <1> QED
    BY <1>7, <1>8, <1>9, <1>10, Zenon DEF SpinIInv

\* A lock that is not locked is nobody's.
LEMMA XchgKeeps ==
  ASSUME SpinIInv, NEW c \in Cores, Xchg(c)
  PROVE  SpinIInv'
  <1> DEFINE l == Top(c).lk
             f == [Top(c) EXCEPT !.pc = "owner", !.held = @ \cup {l}]
  <1>1. SetTop(c, f) /\ ~locked[l] /\ locked' = [locked EXCEPT ![l] = TRUE]
    BY Zenon DEF Xchg
  <1>2. SpinTypeOK /\ Top(c) \in Frames /\ Top(c).pc = "xchg"
    BY TopType, Zenon DEF SpinIInv, Xchg, PcIs
  <1>3. LocalOK(c, Top(c), ncli[c], IF_[c], intena[c])
    BY LocalSplit, Zenon DEF SpinIInv
  <1>4. l \in Locks \ Top(c).held /\ Top(c).held \in SUBSET Locks
    BY <1>2, <1>3, Zenon DEF LocalOK, Taking, Frames
  <1>5. /\ f \in Frames /\ f.lk = l /\ f.held = Top(c).held \cup {l}
        /\ f.pc = "owner"
    BY <1>2, <1>4, Zenon DEF Frames, SpinPoints, Taking, Having
  <1>l. l = Top(c).lk
    BY Zenon
  <1> HIDE DEF f, l
  <1>6. UNCHANGED <<lkcpu, IF_, ncli, intena, spinFault>>
    BY Zenon DEF Xchg
  <1>7. Cardinality(f.held) = Cardinality(Top(c).held) + 1
    BY <1>4, <1>5, HeldAdd, ZenonT(40)
  <1>8. LocalOK(c, f, ncli'[c], IF_'[c], intena'[c])
    <2>1. Cardinality(Top(c).held) \in Nat
      BY <1>4, HeldFinite, Zenon
    <2> QED
      BY <1>2, <1>3, <1>5, <1>6, <1>7, <2>1 DEF LocalOK, Taking, Having,
         Counting
  <1>9. TopInv' /\ CliInv' /\ UnderInv'
    BY <1>1, <1>5, <1>6, <1>8, LocalKeeps, Zenon
  <1>m. /\ Top(c)' = f
        /\ \A d \in Cores \ {c} : Top(d)' = Top(d)
    BY <1>1, <1>2, <1>5, TopMove, Zenon
  <1>10. OneHolder'
    <2>1. \A d \in Cores : l \notin Top(d).held
      BY <1>1, Zenon DEF SpinIInv, LockInv, HolderNamed
    <2> QED
      BY <1>5, <1>m, <2>1 DEF SpinIInv, LockInv, OneHolder
  <1>11. HolderNamed'
    <2> SUFFICES ASSUME NEW d \in Cores, NEW k \in Top(d)'.held
                 PROVE  /\ locked'[k]
                        /\ \/ lkcpu'[k] = d
                           \/ Top(d)'.pc \in {"owner", "unlock"} /\ Top(d)'.lk = k
      BY Zenon DEF HolderNamed
    <2>1. CASE d = c /\ k = l
      BY <1>1, <1>2, <1>4, <1>5, <1>m, <2>1, Zenon DEF SpinTypeOK
    <2>2. CASE ~(d = c /\ k = l)
      <3>1. k \in Top(d).held
        BY <1>5, <1>m, <2>2, Zenon
      <3>2. /\ locked[k]
            /\ \/ lkcpu[k] = d
               \/ Top(d).pc \in {"owner", "unlock"} /\ Top(d).lk = k
        BY <3>1, Zenon DEF SpinIInv, LockInv, HolderNamed
      <3>3. locked'[k]
        BY <1>1, <1>2, <1>4, <3>2 DEF SpinTypeOK
      <3>4. d # c => Top(d)' = Top(d)
        BY <1>m, Zenon
      <3> QED
        BY <1>2, <1>6, <3>2, <3>3, <3>4, Zenon
    <2> QED
      BY <2>1, <2>2, Zenon
  <1>12. NamedHolds'
    BY <1>2, <1>5, <1>6, <1>m DEF SpinIInv, LockInv, NamedHolds
  <1>13. SpinTypeOK' /\ NoSpinPanic'
    BY <1>1, <1>2, <1>4, <1>5, <1>6, TopMove, Zenon DEF SpinTypeOK, SpinIInv,
       NoSpinPanic
  <1> QED
    BY <1>9, <1>10, <1>11, <1>12, <1>13, Zenon DEF SpinIInv, LockInv

LEMMA SetCpuKeeps ==
  ASSUME SpinIInv, NEW c \in Cores, SetCpu(c)
  PROVE  SpinIInv'
  <1> DEFINE l == Top(c).lk
             f == [Top(c) EXCEPT !.pc = "idle", !.lk = 0]
  <1>1. SetTop(c, f) /\ lkcpu' = [lkcpu EXCEPT ![l] = c]
    BY Zenon DEF SetCpu
  <1>2. SpinTypeOK /\ Top(c) \in Frames /\ Top(c).pc = "owner"
    BY TopType, Zenon DEF SpinIInv, SetCpu, PcIs
  <1>3. LocalOK(c, Top(c), ncli[c], IF_[c], intena[c])
    BY LocalSplit, Zenon DEF SpinIInv
  <1>4. l \in Top(c).held /\ Top(c).held \in SUBSET Locks
    BY <1>2, <1>3, Zenon DEF LocalOK, Having, Frames
  <1>5. f \in Frames /\ f.lk = 0 /\ f.held = Top(c).held /\ f.pc = "idle"
    BY <1>2, Zenon DEF Frames, SpinPoints
  <1>l. l = Top(c).lk
    BY Zenon
  <1> HIDE DEF f, l
  <1>6. UNCHANGED <<locked, IF_, ncli, intena, spinFault>>
    BY Zenon DEF SetCpu
  <1>8. LocalOK(c, f, ncli'[c], IF_'[c], intena'[c])
    BY <1>2, <1>3, <1>5, <1>6, Zenon DEF LocalOK, Taking, Having, Counting
  <1>9. TopInv' /\ CliInv' /\ UnderInv'
    BY <1>1, <1>5, <1>6, <1>8, LocalKeeps, Zenon
  <1>m. /\ Top(c)' = f
        /\ \A d \in Cores \ {c} : Top(d)' = Top(d)
        /\ \A d \in Cores : Top(d)'.held = Top(d).held
    BY <1>1, <1>2, <1>5, TopMove, Zenon
  <1>n. \A k \in Locks : lkcpu'[k] = IF k = l THEN c ELSE lkcpu[k]
    BY <1>1, <1>2, Zenon DEF SpinTypeOK
  <1>10. OneHolder'
    BY <1>m, Zenon DEF SpinIInv, LockInv, OneHolder
  <1>11. HolderNamed'
    <2> SUFFICES ASSUME NEW d \in Cores, NEW k \in Top(d)'.held
                 PROVE  /\ locked'[k]
                        /\ \/ lkcpu'[k] = d
                           \/ Top(d)'.pc \in {"owner", "unlock"} /\ Top(d)'.lk = k
      BY Zenon DEF HolderNamed
    <2>1. k \in Top(d).held /\ k \in Locks
      BY <1>2, <1>m, TopType, Zenon DEF Frames
    <2>2. /\ locked[k]
          /\ \/ lkcpu[k] = d
             \/ Top(d).pc \in {"owner", "unlock"} /\ Top(d).lk = k
      BY <2>1, Zenon DEF SpinIInv, LockInv, HolderNamed
    <2>3. CASE d = c
      BY <1>6, <1>l, <1>n, <2>1, <2>2, <2>3, Zenon
    <2>4. CASE d # c
      <3>1. k # l
        BY <1>4, <2>1, <2>4, Zenon DEF SpinIInv, LockInv, OneHolder
      <3> QED
        BY <1>6, <1>m, <1>n, <2>1, <2>2, <2>4, <3>1, Zenon
    <2> QED
      BY <2>3, <2>4, Zenon
  <1>12. NamedHolds'
    BY <1>4, <1>5, <1>m, <1>n, Zenon DEF SpinIInv, LockInv, NamedHolds
  <1>13. SpinTypeOK' /\ NoSpinPanic'
    BY <1>1, <1>2, <1>5, <1>6, TopMove, Zenon DEF SpinTypeOK, SpinIInv,
       NoSpinPanic
  <1> QED
    BY <1>9, <1>10, <1>11, <1>12, <1>13, Zenon DEF SpinIInv, LockInv

-----------------------------------------------------------------------------
(* release().                                                              *)

LEMMA CallReleaseKeeps ==
  ASSUME SpinIInv, NEW c \in Cores, CallRelease(c)
  PROVE  SpinIInv'
  <1> DEFINE f(l) == [Top(c) EXCEPT !.pc = "release", !.lk = l]
  <1>1. PICK l \in Top(c).held : SetTop(c, f(l))
    BY Zenon DEF CallRelease
  <1>2. SpinTypeOK /\ Top(c) \in Frames /\ Top(c).pc = "idle"
    BY TopType, Zenon DEF SpinIInv, CallRelease, PcIs
  <1>3. /\ f(l) \in Frames /\ f(l).pc = "release" /\ f(l).lk = l
        /\ f(l).held = Top(c).held
    BY <1>2, Zenon DEF Frames, SpinPoints, Having
  <1> HIDE DEF f
  <1>4. UNCHANGED <<locked, lkcpu, IF_, ncli, intena, spinFault>>
    BY Zenon DEF CallRelease
  <1>5. LocalOK(c, Top(c), ncli[c], IF_[c], intena[c])
    BY LocalSplit, Zenon DEF SpinIInv
  <1>6. LocalOK(c, f(l), ncli'[c], IF_'[c], intena'[c])
    BY <1>1, <1>2, <1>3, <1>4, <1>5, Zenon DEF LocalOK, Taking, Having,
       Counting
  <1>7. TopInv' /\ CliInv' /\ UnderInv'
    BY <1>1, <1>3, <1>4, <1>6, LocalKeeps, Zenon
  <1>8. LockInv'
    BY <1>1, <1>2, <1>3, <1>4, QuietLocks, Zenon
  <1>9. SpinTypeOK' /\ NoSpinPanic'
    BY <1>1, <1>2, <1>3, <1>4, TopMove, Zenon DEF SpinTypeOK, SpinIInv,
       NoSpinPanic
  <1> QED
    BY <1>7, <1>8, <1>9, Zenon DEF SpinIInv

LEMMA ClearCpuKeeps ==
  ASSUME SpinIInv, NEW c \in Cores, ClearCpu(c)
  PROVE  SpinIInv'
  <1> DEFINE l == Top(c).lk
             f == [Top(c) EXCEPT !.pc = "unlock"]
  <1>1. SetTop(c, f) /\ lkcpu' = [lkcpu EXCEPT ![l] = 0]
    BY Zenon DEF ClearCpu, Goto, Cleared
  <1>2. SpinTypeOK /\ Top(c) \in Frames /\ Top(c).pc = "clear"
    BY TopType, Zenon DEF SpinIInv, ClearCpu, PcIs
  <1>3. LocalOK(c, Top(c), ncli[c], IF_[c], intena[c])
    BY LocalSplit, Zenon DEF SpinIInv
  <1>4. l \in Top(c).held /\ Top(c).held \in SUBSET Locks
    BY <1>2, <1>3, Zenon DEF LocalOK, Having, Frames
  <1>5. f \in Frames /\ f.lk = l /\ f.held = Top(c).held /\ f.pc = "unlock"
    BY <1>2, Zenon DEF Frames, SpinPoints, Having
  <1> HIDE DEF f, l
  <1>6. UNCHANGED <<locked, IF_, ncli, intena, spinFault>>
    BY Zenon DEF ClearCpu
  <1>7. LocalOK(c, f, ncli'[c], IF_'[c], intena'[c])
    BY <1>2, <1>3, <1>4, <1>5, <1>6, Zenon DEF LocalOK, Taking, Having,
       Counting
  <1>8. TopInv' /\ CliInv' /\ UnderInv'
    BY <1>1, <1>5, <1>6, <1>7, LocalKeeps, Zenon
  <1>m. /\ Top(c)' = f
        /\ \A d \in Cores \ {c} : Top(d)' = Top(d)
        /\ \A d \in Cores : Top(d)'.held = Top(d).held
    BY <1>1, <1>2, <1>5, TopMove, Zenon
  <1>n. \A k \in Locks : lkcpu'[k] = IF k = l THEN 0 ELSE lkcpu[k]
    BY <1>1, <1>2, Zenon DEF SpinTypeOK
  <1>9. OneHolder'
    BY <1>m, Zenon DEF SpinIInv, LockInv, OneHolder
  <1>10. HolderNamed'
    <2> SUFFICES ASSUME NEW d \in Cores, NEW k \in Top(d)'.held
                 PROVE  /\ locked'[k]
                        /\ \/ lkcpu'[k] = d
                           \/ Top(d)'.pc \in {"owner", "unlock"} /\ Top(d)'.lk = k
      BY Zenon DEF HolderNamed
    <2>1. k \in Top(d).held /\ k \in Locks
      BY <1>2, <1>m, TopType, Zenon DEF Frames
    <2>2. /\ locked[k]
          /\ \/ lkcpu[k] = d
             \/ Top(d).pc \in {"owner", "unlock"} /\ Top(d).lk = k
      BY <2>1, Zenon DEF SpinIInv, LockInv, HolderNamed
    <2>3. CASE d = c
      BY <1>2, <1>5, <1>6, <1>m, <1>n, <2>1, <2>2, <2>3, Zenon
    <2>4. CASE d # c
      <3>1. k # l
        BY <1>4, <2>1, <2>4, Zenon DEF SpinIInv, LockInv, OneHolder
      <3> QED
        BY <1>6, <1>m, <1>n, <2>1, <2>2, <2>4, <3>1, Zenon
    <2> QED
      BY <2>3, <2>4, Zenon
  <1>11. NamedHolds'
    BY <1>5, <1>m, <1>n, SpinAssumption DEF SpinIInv, LockInv, NamedHolds
  <1>12. SpinTypeOK' /\ NoSpinPanic'
    BY <1>1, <1>2, <1>5, <1>6, TopMove, Zenon DEF SpinTypeOK, SpinIInv,
       NoSpinPanic
  <1> QED
    BY <1>8, <1>9, <1>10, <1>11, <1>12, Zenon DEF SpinIInv, LockInv

LEMMA UnlockKeeps ==
  ASSUME SpinIInv, NEW c \in Cores, Unlock(c)
  PROVE  SpinIInv'
  <1> DEFINE l == Top(c).lk
             f == [Top(c) EXCEPT !.pc = "popcli", !.held = @ \ {l}]
  <1>1. SetTop(c, f) /\ locked' = [locked EXCEPT ![l] = FALSE]
    BY Zenon DEF Unlock
  <1>2. SpinTypeOK /\ Top(c) \in Frames /\ Top(c).pc = "unlock"
    BY TopType, Zenon DEF SpinIInv, Unlock, PcIs
  <1>3. LocalOK(c, Top(c), ncli[c], IF_[c], intena[c])
    BY LocalSplit, Zenon DEF SpinIInv
  <1>4. l \in Top(c).held /\ Top(c).held \in SUBSET Locks
    BY <1>2, <1>3, Zenon DEF LocalOK, Having, Frames
  <1>5. f \in Frames /\ f.held = Top(c).held \ {l} /\ f.pc = "popcli"
    BY <1>2, Zenon DEF Frames, SpinPoints
  <1>l. l = Top(c).lk
    BY Zenon
  <1> HIDE DEF f, l
  <1>6. UNCHANGED <<lkcpu, IF_, ncli, intena, spinFault>>
    BY Zenon DEF Unlock
  <1>7. LocalOK(c, f, ncli'[c], IF_'[c], intena'[c])
    <2>1. /\ Cardinality(f.held) = Cardinality(Top(c).held) - 1
          /\ Cardinality(Top(c).held) \in Nat
      BY <1>4, <1>5, HeldRemove, HeldFinite, Zenon
    <2> QED
      BY <1>2, <1>3, <1>5, <1>6, <2>1 DEF LocalOK, Taking, Having, Counting
  <1>8. TopInv' /\ CliInv' /\ UnderInv'
    BY <1>1, <1>5, <1>6, <1>7, LocalKeeps, Zenon
  <1>m. /\ Top(c)' = f
        /\ \A d \in Cores \ {c} : Top(d)' = Top(d)
        /\ \A d \in Cores : Top(d)'.held \subseteq Top(d).held
    BY <1>1, <1>2, <1>5, TopMove, Zenon
  <1>9. OneHolder'
    BY <1>m, Zenon DEF SpinIInv, LockInv, OneHolder
  <1>10. HolderNamed'
    <2> SUFFICES ASSUME NEW d \in Cores, NEW k \in Top(d)'.held
                 PROVE  /\ locked'[k]
                        /\ \/ lkcpu'[k] = d
                           \/ Top(d)'.pc \in {"owner", "unlock"} /\ Top(d)'.lk = k
      BY Zenon DEF HolderNamed
    <2>1. k \in Top(d).held /\ k \in Locks
      BY <1>2, <1>m, TopType, Zenon DEF Frames
    <2>2. /\ locked[k]
          /\ \/ lkcpu[k] = d
             \/ Top(d).pc \in {"owner", "unlock"} /\ Top(d).lk = k
      BY <2>1, Zenon DEF SpinIInv, LockInv, HolderNamed
    <2>3. k # l
      BY <1>4, <1>5, <1>m, <2>1 DEF SpinIInv, LockInv, OneHolder
    <2>4. locked'[k]
      BY <1>1, <1>2, <2>1, <2>2, <2>3, Zenon DEF SpinTypeOK
    <2> QED
      BY <1>2, <1>6, <1>l, <1>m, <2>2, <2>3, <2>4, Zenon
  <1>11. NamedHolds'
    BY <1>2, <1>5, <1>6, <1>l, <1>m DEF SpinIInv, LockInv, NamedHolds
  <1>12. SpinTypeOK' /\ NoSpinPanic'
    BY <1>1, <1>2, <1>5, <1>6, TopMove, Zenon DEF SpinTypeOK, SpinIInv,
       NoSpinPanic
  <1> QED
    BY <1>8, <1>9, <1>10, <1>11, <1>12, Zenon DEF SpinIInv, LockInv

\* The last popcli() turns interrupts on in a thread, and in a handler not.
LEMMA PopcliKeeps ==
  ASSUME SpinIInv, NEW c \in Cores, Popcli(c)
  PROVE  SpinIInv'
  <1> DEFINE f == [Top(c) EXCEPT !.pc = "idle", !.lk = 0, !.saw = FALSE]
  <1>1. SetTop(c, f)
    BY Zenon DEF Popcli
  <1>2. SpinTypeOK /\ Top(c) \in Frames /\ Top(c).pc = "popcli"
    BY TopType, Zenon DEF SpinIInv, Popcli, PcIs
  <1>3. f \in Frames /\ f.pc = "idle" /\ f.held = Top(c).held
    BY <1>2, Zenon DEF Frames, SpinPoints
  <1> HIDE DEF f
  <1>4. LocalOK(c, Top(c), ncli[c], IF_[c], intena[c])
    BY LocalSplit, Zenon DEF SpinIInv
  <1>5. /\ Cardinality(f.held) \in Nat /\ Cardinality(Top(c).held) = Cardinality(f.held)
        /\ ncli[c] = Cardinality(f.held) + 1
    BY <1>2, <1>3, <1>4, HeldFinite, Zenon DEF Frames, LocalOK, Counting
  <1>6. ~IF_[c] /\ (intena[c] <=> depth[c] = 1)
    BY <1>4, <1>5 DEF LocalOK
  <1>7. /\ UNCHANGED <<locked, lkcpu, intena>>
        /\ ncli' = [ncli EXCEPT ![c] = @ - 1]
        /\ IF_' = [IF_ EXCEPT ![c] = @ \/ (ncli[c] = 1 /\ intena[c])]
        /\ spinFault' = IF IF_[c] \/ ncli[c] = 0 THEN "popcli" ELSE spinFault
    BY Zenon DEF Popcli
  <1>8. /\ ncli'[c] = Cardinality(f.held)
        /\ IF_'[c] <=> depth[c] = 1 /\ ncli'[c] = 0
        /\ \A d \in Cores \ {c} :
             ncli'[d] = ncli[d] /\ IF_'[d] = IF_[d] /\ intena'[d] = intena[d]
        /\ intena'[c] = intena[c]
    BY <1>2, <1>5, <1>6, <1>7 DEF SpinTypeOK
  <1>9. LocalOK(c, f, ncli'[c], IF_'[c], intena'[c])
    BY <1>3, <1>5, <1>6, <1>8 DEF LocalOK, Taking, Having, Counting
  <1>10. TopInv' /\ CliInv' /\ UnderInv'
    BY <1>1, <1>3, <1>8, <1>9, LocalKeeps, Zenon
  <1>11. LockInv'
    BY <1>1, <1>2, <1>3, <1>7, QuietLocks, Zenon
  <1>12. NoSpinPanic'
    BY <1>5, <1>6, <1>7 DEF SpinIInv, NoSpinPanic
  <1>13. SpinTypeOK'
    BY <1>1, <1>2, <1>3, <1>5, <1>7, TopMove DEF SpinTypeOK
  <1> QED
    BY <1>10, <1>11, <1>12, <1>13, Zenon DEF SpinIInv

-----------------------------------------------------------------------------
(* Interrupts.                                                             *)

\* The frames that come and go hold nothing.
LEMMA SwapLocks ==
  ASSUME SpinIInv, NEW c \in Cores, Top(c).held = {}, Top(c)'.held = {},
         \A d \in Cores \ {c} : Top(d)' = Top(d), UNCHANGED <<locked, lkcpu>>
  PROVE  LockInv'
  <1>1. \A d \in Cores : Top(d)'.held = Top(d).held
    BY Zenon
  <1>2. OneHolder'
    BY <1>1, Zenon DEF SpinIInv, LockInv, OneHolder
  <1>3. HolderNamed'
    BY <1>1 DEF SpinIInv, LockInv, HolderNamed
  <1>4. NamedHolds'
    BY <1>1, Zenon DEF SpinIInv, LockInv, NamedHolds
  <1> QED
    BY <1>2, <1>3, <1>4, Zenon DEF LockInv

LEMMA InterruptKeeps ==
  ASSUME SpinIInv, NEW c \in Cores, Interrupt(c)
  PROVE  SpinIInv'
  <1>1. /\ IF_[c] /\ depth[c] = 1
        /\ IF_' = [IF_ EXCEPT ![c] = FALSE]
        /\ frames' = [frames EXCEPT ![c][2] = Frame]
        /\ depth' = [depth EXCEPT ![c] = 2]
        /\ UNCHANGED <<locked, lkcpu, ncli, intena, spinFault>>
    BY Zenon DEF Interrupt
  <1>2. SpinTypeOK /\ Top(c) \in Frames
    BY TopType, Zenon DEF SpinIInv
  <1>3. LocalOK(c, Top(c), ncli[c], IF_[c], intena[c])
    BY LocalSplit, Zenon DEF SpinIInv
  <1>4. /\ Cardinality(Top(c).held) \in Nat
        /\ Cardinality(Top(c).held) = 0 => Top(c).held = {}
    BY <1>2, HeldFinite, Zenon DEF Frames
  <1>5. ncli[c] = 0 /\ Top(c).held = {} /\ Top(c).pc \notin Counting
    BY <1>1, <1>3, <1>4 DEF LocalOK
  <1>6. Top(c).pc \in {"idle", "cli"}
    BY <1>2, <1>3, <1>5, Zenon DEF LocalOK, Frames, SpinPoints, Taking,
       Having, Counting
  <1>7. Top(c) = frames[c][1] /\ (Top(c).pc = "cli" => Top(c).saw /\ Top(c).lk \in Locks)
    BY <1>1, <1>3, Zenon DEF LocalOK, Top, Taking
  <1>8. Frame \in Frames /\ Frame.pc = "idle" /\ Frame.held = {}
    BY Zenon DEF Frame, Frames, SpinPoints
  <1> HIDE DEF Frame
  <1>9. /\ Top(c)' = Frame /\ depth'[c] = 2 /\ frames'[c][1] = frames[c][1]
        /\ \A d \in Cores \ {c} :
             Top(d)' = Top(d) /\ depth'[d] = depth[d] /\ frames'[d] = frames[d]
    BY <1>1, <1>2 DEF SpinTypeOK, Top
  <1>10. SpinTypeOK' /\ NoSpinPanic'
    BY <1>1, <1>2, <1>8, Zenon DEF SpinTypeOK, SpinIInv, NoSpinPanic
  <1>11. UnderInv'
    BY <1>5, <1>6, <1>7, <1>9 DEF SpinIInv, UnderInv
  <1>12. LockInv'
    BY <1>1, <1>5, <1>8, <1>9, SwapLocks, Zenon
  <1>13. ASSUME NEW d \in Cores
         PROVE  LocalOK(d, Top(d), ncli[d], IF_[d], intena[d])'
    <2>1. CASE d = c
      <3>1. IF_'[c] = FALSE /\ ncli'[c] = 0 /\ Cardinality({}) = 0
        BY <1>1, <1>2, <1>5, FS_EmptySet, Zenon DEF SpinTypeOK
      <3> QED
        BY <1>8, <1>9, <2>1, <3>1 DEF LocalOK, Taking, Having, Counting
    <2>2. CASE d # c
      <3>1. LocalOK(d, Top(d), ncli[d], IF_[d], intena[d])
        BY LocalSplit, Zenon DEF SpinIInv
      <3>2. IF_'[d] = IF_[d]
        BY <1>1, <1>2, <2>2, Zenon DEF SpinTypeOK
      <3> QED
        BY <1>1, <1>9, <2>2, <3>1, <3>2, Zenon DEF LocalOK
    <2> QED
      BY <2>1, <2>2, Zenon
  <1> QED
    BY <1>10, <1>11, <1>12, <1>13, LocalSplit, Zenon DEF SpinIInv

LEMMA IretKeeps ==
  ASSUME SpinIInv, NEW c \in Cores, Iret(c)
  PROVE  SpinIInv'
  <1>1. /\ depth[c] = 2 /\ Top(c).pc = "idle" /\ Top(c).held = {}
        /\ IF_' = [IF_ EXCEPT ![c] = TRUE]
        /\ depth' = [depth EXCEPT ![c] = 1]
        /\ UNCHANGED <<locked, lkcpu, ncli, intena, frames, spinFault>>
    BY Zenon DEF Iret, PcIs
  <1>2. SpinTypeOK
    BY Zenon DEF SpinIInv
  <1>3. LocalOK(c, Top(c), ncli[c], IF_[c], intena[c])
    BY LocalSplit, Zenon DEF SpinIInv
  <1>4. Cardinality({}) = 0
    BY FS_EmptySet, Zenon
  <1>5. ncli[c] = 0
    BY <1>1, <1>3, <1>4 DEF LocalOK, Counting
  <1>6. /\ frames[c][1].held = {} /\ frames[c][1].pc \in {"idle", "cli"}
        /\ frames[c][1].pc = "cli" => frames[c][1].saw /\ frames[c][1].lk \in Locks
    BY <1>1, Zenon DEF SpinIInv, UnderInv
  <1>7. /\ Top(c)' = frames[c][1] /\ depth'[c] = 1
        /\ \A d \in Cores \ {c} : Top(d)' = Top(d) /\ depth'[d] = depth[d]
    BY <1>1, <1>2, Zenon DEF SpinTypeOK, Top
  <1>8. SpinTypeOK' /\ NoSpinPanic'
    BY <1>1, <1>2, Zenon DEF SpinTypeOK, SpinIInv, NoSpinPanic
  <1>9. UnderInv'
    BY <1>1, <1>7 DEF SpinIInv, UnderInv
  <1>10. LockInv'
    BY <1>1, <1>6, <1>7, SwapLocks, Zenon
  <1>11. ASSUME NEW d \in Cores
         PROVE  LocalOK(d, Top(d), ncli[d], IF_[d], intena[d])'
    <2>1. CASE d = c
      <3>1. IF_'[c] = TRUE /\ ncli'[c] = 0
        BY <1>1, <1>2, <1>5, Zenon DEF SpinTypeOK
      <3>2. Cardinality(Top(c)'.held) = 0 /\ Top(c)'.pc \in {"idle", "cli"}
        BY <1>4, <1>6, <1>7, Zenon
      <3>3. Top(c)'.pc = "cli" => Top(c)'.saw /\ Top(c)'.lk \in Locks \ Top(c)'.held
        BY <1>6, <1>7, Zenon
      <3> QED
        BY <1>7, <2>1, <3>1, <3>2, <3>3 DEF LocalOK, Taking, Having, Counting
    <2>2. CASE d # c
      <3>1. LocalOK(d, Top(d), ncli[d], IF_[d], intena[d])
        BY LocalSplit, Zenon DEF SpinIInv
      <3>2. IF_'[d] = IF_[d]
        BY <1>1, <1>2, <2>2, Zenon DEF SpinTypeOK
      <3> QED
        BY <1>1, <1>7, <2>2, <3>1, <3>2, Zenon DEF LocalOK
    <2> QED
      BY <2>1, <2>2, Zenon
  <1> QED
    BY <1>8, <1>9, <1>10, <1>11, LocalSplit, Zenon DEF SpinIInv

-----------------------------------------------------------------------------
LEMMA SpinInitHolds == SpinInit => SpinIInv
  <1> SUFFICES ASSUME SpinInit
               PROVE  SpinIInv
    BY Zenon
  <1>1. /\ Frame \in Frames /\ Frame.pc = "idle" /\ Frame.held = {}
    BY Zenon DEF Frame, Frames, SpinPoints
  <1> HIDE DEF Frame
  <1>2. SpinTypeOK /\ NoSpinPanic
    BY <1>1, Zenon DEF SpinInit, SpinTypeOK, NoSpinPanic
  <1>3. \A c \in Cores : Top(c) = Frame /\ depth[c] = 1
    BY DEF SpinInit, Top
  <1>4. ASSUME NEW c \in Cores
        PROVE  LocalOK(c, Top(c), ncli[c], IF_[c], intena[c])
    <2>1. Cardinality({}) = 0
      BY FS_EmptySet, Zenon
    <2>2. /\ Top(c).pc = "idle" /\ Cardinality(Top(c).held) = 0 /\ depth[c] = 1
          /\ ncli[c] = 0 /\ IF_[c] = TRUE
      BY <1>1, <1>3, <2>1, Zenon DEF SpinInit
    <2> QED
      BY <2>2 DEF LocalOK, Taking, Having, Counting
  <1>5. UnderInv
    BY <1>3 DEF UnderInv
  <1>6. OneHolder /\ HolderNamed
    BY <1>1, <1>3, Zenon DEF OneHolder, HolderNamed
  <1>7. NamedHolds
    BY SpinAssumption, Zenon DEF SpinInit, NamedHolds
  <1> QED
    BY <1>2, <1>4, <1>5, <1>6, <1>7, LocalSplit, Zenon DEF SpinIInv, LockInv

LEMMA SpinStepHolds == SpinIInv /\ [SpinNext]_spinVars => SpinIInv'
  <1>1. ASSUME SpinIInv, SpinNext
        PROVE  SpinIInv'
    <2>1. PICK c \in Cores : CoreStep(c)
      BY <1>1, ZenonT(40) DEF SpinNext
    <2> QED
      BY <1>1, <2>1, CallAcquireKeeps, PushcliKeeps, HoldingLockedKeeps,
         HoldingCpuKeeps, XchgKeeps, SetCpuKeeps, CallReleaseKeeps,
         ClearCpuKeeps, UnlockKeeps, PopcliKeeps, InterruptKeeps, IretKeeps,
         Zenon DEF CoreStep
  <1>2. ASSUME SpinIInv, UNCHANGED spinVars
        PROVE  SpinIInv'
    BY <1>2 DEF spinVars, SpinIInv, SpinTypeOK, NoSpinPanic, TopInv, UnderInv,
       CliInv, LockInv, OneHolder, HolderNamed, NamedHolds, Top
  <1> QED
    BY <1>1, <1>2, Zenon

LEMMA SpinInvariant == SpinSpec => []SpinIInv
  BY SpinInitHolds, SpinStepHolds, PTL DEF SpinSpec

LEMMA HeldByTop ==
  ASSUME SpinIInv, NEW c \in Cores
  PROVE  HeldOn(c) = Top(c).held
  <1>1. depth[c] \in {1, 2}
    BY TopType, Zenon DEF SpinIInv
  <1>2. CASE depth[c] = 1
    BY <1>2 DEF HeldOn, Top
  <1>3. CASE depth[c] = 2
    BY <1>3 DEF HeldOn, Top, SpinIInv, UnderInv
  <1> QED
    BY <1>1, <1>2, <1>3, Zenon

\* Whatever the number of CPUs and locks, acquire() and release() exclude each
\* other; no interrupt comes on a CPU that holds a lock; ncli counts the locks and
\* interrupts come back with the last popcli(); none of the three panics, though
\* holding() reads lk->locked and lk->cpu one after the other.
THEOREM SpinlocksStaySound == SpinSpec => []SpinlocksSound
  <1>1. ASSUME SpinIInv
        PROVE  SpinlocksSound
    <2>1. \A c \in Cores : HeldOn(c) = Top(c).held
      BY <1>1, HeldByTop, Zenon
    <2>2. ASSUME NEW c \in Cores
          PROVE  /\ LocalOK(c, Top(c), ncli[c], IF_[c], intena[c])
                 /\ Cardinality(Top(c).held) \in Nat
                 /\ Cardinality(Top(c).held) = 0 <=> Top(c).held = {}
                 /\ depth[c] \in {1, 2}
                 /\ IF_[c] \in BOOLEAN
      BY <1>1, TopType, HeldFinite, LocalSplit, Zenon DEF SpinIInv, Frames,
         SpinTypeOK
    <2>3. \A c \in Cores : HeldOn(c) # {} \/ Top(c).pc = "xchg" => ~IF_[c]
      BY <2>1, <2>2 DEF LocalOK, Counting
    <2>4. HeldMeansOff
      BY <1>1, <2>1, <2>3, Zenon DEF HeldMeansOff, SpinIInv, LockInv,
         OneHolder
    <2>5. CliMatched
      BY <2>1, <2>2 DEF CliMatched, PcIs, LocalOK, Counting
    <2> QED
      BY <1>1, <2>4, <2>5, Zenon DEF SpinlocksSound, SpinIInv
  <1> QED
    BY <1>1, SpinInvariant, PTL

=============================================================================
