----------------------------- MODULE LogProofs ------------------------------
(***************************************************************************)
(* What log.c keeps invariant, and that it makes the calls between two     *)
(* commits atomic: Log implements LogAbs.  First comes the part of the     *)
(* invariant that counts, calls under way and log space; then the copies   *)
(* of a block on disk and in memory.  For any number of processes, blocks  *)
(* and crashes.                                                            *)
(***************************************************************************)
EXTENDS Log, FiniteSetTheorems, TLAPS

Distinct(s) == \A i, j \in 1 .. Len(s) : s[i] = s[j] => i = j

\* What commit() and recovery have done when they stand at phase.
PhaseInv ==
  /\ committing <=> phase \in {"wlog", "inst", "done"}
  /\ ~Booted => InOp = {}
  /\ phase \in {"boot", "up", "done"} => tail = 0
  /\ phase \in {"boot", "done"} => lh = <<>>
  /\ phase = "up" /\ outstanding = 0 => lh = <<>>

\* Header and log blocks on disk, against log.lh and the cache.
DiskInv ==
  /\ Distinct(lh) /\ Distinct(dhead)
  /\ phase \in {"inst", "rinst"} => dhead = lh
  /\ phase \in {"up", "wlog", "done"} => dhead = <<>>
  /\ phase = "wlog" => \A i \in 1 .. tail : dlog[i] = cache[lh[i]]
  /\ phase = "inst" => \A i \in 1 .. Len(lh) : dlog[i] = cache[lh[i]]
  /\ phase \in {"inst", "rinst"} =>
       \A i \in 1 .. tail : home[lh[i]] = dlog[i]

\* The buffers that B_DIRTY pins are those still to be installed.
DirtyInv ==
  /\ ~Booted => dirty = {}
  /\ dirty \subseteq Range(lh)
  /\ phase = "inst" => \A i \in 1 .. tail : lh[i] \notin dirty
  /\ \A b \in Blocks \ dirty : cache[b] = home[b]

\* WrittenBy(P), when W is what each process has written.
Pairs(P, W) == {w \in P \X Blocks : w[2] \in W[w[1]]}

\* No calls wrote more than MAXOPBLOCKS blocks each, taken together.
Within(W) == \A P \in SUBSET Procs :
               Cardinality(Pairs(P, W)) <= Cardinality(P) * MAXOPBLOCKS

\* No call writes more than MAXOPBLOCKS blocks, nor do several calls together.
WroteInv ==
  /\ \A p \in Procs : p \notin InOp => wrote[p] = {}
  /\ \A p \in Procs : wrote[p] \subseteq Range(lh)
  /\ \A p \in Procs : Cardinality(wrote[p]) <= MAXOPBLOCKS
  /\ \A p \in Procs : pc[p] = "write" =>
       Cardinality(wrote[p] \cup {target[p].block}) <= MAXOPBLOCKS
  /\ Within(wrote)

IInv ==
  /\ TypeOK /\ CommitAlone /\ PhaseInv /\ DiskInv /\ DirtyInv /\ WroteInv
  /\ SpaceReserved /\ SleeperHasWaker

-----------------------------------------------------------------------------
(* Counting the blocks that calls have written.                            *)

\* There are finitely many pairs of a process and a block.
LEMMA PairsFinite ==
  ASSUME NEW P \in SUBSET Procs, NEW W
  PROVE  IsFiniteSet(Pairs(P, W)) /\ Cardinality(Pairs(P, W)) \in Nat
<1>1. IsFiniteSet(P)
  BY FS_Subset, LogAssumption, Zenon
<1>2. IsFiniteSet(P \X Blocks)
  BY <1>1, FS_Product, LogAssumption, Zenon
<1>3. Pairs(P, W) \in SUBSET (P \X Blocks)
  BY Zenon DEF Pairs
<1>4. IsFiniteSet(Pairs(P, W))
  BY <1>2, <1>3, FS_Subset, Zenon
<1> QED
  BY <1>4, FS_CardinalityType, Zenon

\* One process adds to the pairs as many as it has written.
LEMMA PairsSplit ==
  ASSUME NEW P \in SUBSET Procs, NEW p \in P,
         NEW W \in [Procs -> SUBSET Blocks]
  PROVE  /\ Cardinality(Pairs(P, W)) =
              Cardinality(Pairs(P \ {p}, W)) + Cardinality(W[p])
         /\ Cardinality(W[p]) \in Nat
         /\ IsFiniteSet(W[p])
<1> DEFINE rest == Pairs(P \ {p}, W)
           mine == {p} \X W[p]
<1>1. Pairs(P, W) = rest \cup mine
  <2>1. ASSUME NEW w \in Pairs(P, W) PROVE w \in rest \cup mine
    BY <2>1, Zenon DEF Pairs
  <2>2. ASSUME NEW w \in rest \cup mine PROVE w \in Pairs(P, W)
    BY <2>2, Zenon DEF Pairs
  <2> QED
    BY <2>1, <2>2, Zenon
<1>2. rest \cap mine = {}
  BY Zenon DEF Pairs
<1>3. W[p] \in SUBSET Blocks
  BY Zenon
<1>4. IsFiniteSet(W[p]) /\ Cardinality(W[p]) \in Nat
  BY <1>3, FS_Subset, FS_CardinalityType, LogAssumption, Zenon
<1>5. IsFiniteSet({p}) /\ Cardinality({p}) = 1
  BY FS_Singleton, Zenon
<1>6. IsFiniteSet(mine) /\ Cardinality(mine) = 1 * Cardinality(W[p])
  BY <1>4, <1>5, FS_Product, Zenon
<1>7. IsFiniteSet(rest) /\ Cardinality(rest) \in Nat
  BY PairsFinite, Zenon
<1>8. Cardinality(rest \cup mine) =
        Cardinality(rest) + Cardinality(mine) - Cardinality(rest \cap mine)
  BY <1>6, <1>7, FS_Union, Zenon
<1>9. Cardinality({}) = 0
  BY FS_EmptySet, Zenon
<1> HIDE DEF rest, mine
<1>10. Cardinality(rest \cap mine) = 0
  BY <1>2, <1>9, Zenon
<1>11. Cardinality(rest \cup mine) = Cardinality(rest) + Cardinality(W[p])
  BY <1>4, <1>6, <1>7, <1>8, <1>10
<1>12. Cardinality(Pairs(P, W)) = Cardinality(rest) + Cardinality(W[p])
  BY <1>1, <1>11, Zenon
<1> QED
  BY <1>4, <1>12, Zenon DEF rest

\* The pairs of P depend on what the processes of P have written.
LEMMA PairsSame ==
  ASSUME NEW P \in SUBSET Procs, NEW V, NEW W, \A p \in P : V[p] = W[p]
  PROVE  Pairs(P, V) = Pairs(P, W)
BY Zenon DEF Pairs

\* A call within its limit keeps all of them within theirs.
LEMMA WithinStays ==
  ASSUME NEW W \in [Procs -> SUBSET Blocks], NEW p \in Procs,
         NEW S \in SUBSET Blocks, Within(W), Cardinality(S) <= MAXOPBLOCKS
  PROVE  Within([W EXCEPT ![p] = S])
<1> DEFINE V == [W EXCEPT ![p] = S]
<1>1. V \in [Procs -> SUBSET Blocks] /\ V[p] = S
  BY Zenon
<1> SUFFICES ASSUME NEW P \in SUBSET Procs
             PROVE  Cardinality(Pairs(P, V)) <= Cardinality(P) * MAXOPBLOCKS
  BY Zenon DEF Within
<1>2. CASE p \notin P
  <2>1. \A q \in P : V[q] = W[q]
    BY <1>2, Zenon
  <2>2. Pairs(P, V) = Pairs(P, W)
    BY <2>1, PairsSame, Zenon
  <2> QED
    BY <2>2, Zenon DEF Within
<1>3. CASE p \in P
  <2> DEFINE R == P \ {p}
  <2>1. IsFiniteSet(P)
    BY FS_Subset, LogAssumption, Zenon
  <2>2. Cardinality(R) = Cardinality(P) - 1 /\ Cardinality(P) \in Nat
    BY <1>3, <2>1, FS_RemoveElement, FS_CardinalityType, Zenon
  <2>3. Cardinality(Pairs(R, W)) <= Cardinality(R) * MAXOPBLOCKS
    BY Zenon DEF Within
  <2>4. \A q \in R : V[q] = W[q]
    BY Zenon
  <2>5. Pairs(R, V) = Pairs(R, W)
    BY <2>4, PairsSame, Zenon
  <2>6. Cardinality(Pairs(P, V)) = Cardinality(Pairs(R, V)) + Cardinality(V[p])
    BY <1>1, <1>3, PairsSplit, Zenon
  <2>7. Cardinality(Pairs(R, V)) \in Nat /\ Cardinality(S) \in Nat
    BY PairsFinite, FS_Subset, FS_CardinalityType, LogAssumption, Zenon
  <2>8. MAXOPBLOCKS \in Nat
    BY LogAssumption, Zenon
  <2> HIDE DEF V, R
  <2>9. (Cardinality(P) - 1) * MAXOPBLOCKS + MAXOPBLOCKS
          = Cardinality(P) * MAXOPBLOCKS
    BY <2>2, <2>8
  <2> QED
    BY <1>1, <2>2, <2>3, <2>5, <2>6, <2>7, <2>8, <2>9
<1> QED
  BY <1>2, <1>3, Zenon

\* Nothing written is within every limit.
LEMMA WithinEmpty ==
  ASSUME NEW W, \A p \in Procs : W[p] = {}
  PROVE  Within(W)
<1> SUFFICES ASSUME NEW P \in SUBSET Procs
             PROVE  Cardinality(Pairs(P, W)) <= Cardinality(P) * MAXOPBLOCKS
  BY Zenon DEF Within
<1>1. Pairs(P, W) = {}
  BY Zenon DEF Pairs
<1>2. Cardinality(Pairs(P, W)) = 0
  BY <1>1, FS_EmptySet, Zenon
<1>3. Cardinality(P) \in Nat
  BY FS_Subset, FS_CardinalityType, LogAssumption, Zenon
<1>4. MAXOPBLOCKS \in Nat
  BY LogAssumption, Zenon
<1>5. Cardinality(P) * MAXOPBLOCKS \in Nat
  BY <1>3, <1>4
<1> QED
  BY <1>2, <1>5

-----------------------------------------------------------------------------
(* What the actions do to the calls under way and to log.lh.               *)

\* begin_op() adds the caller, end_op() takes it away, a crash takes all.
LEMMA InOpSteps ==
  ASSUME TypeOK
  PROVE  /\ \A p \in Procs : BeginOp(p) => InOp' = InOp \cup {p} /\ p \notin InOp
         /\ \A p \in Procs : EndOp(p) \/ EndOpCommit(p)
                               => InOp' = InOp \ {p} /\ p \in InOp
         /\ \A p \in Procs : LogWrite(p) => InOp' = InOp /\ p \in InOp
         /\ \A p \in Procs, b \in Blocks, v \in Vals :
              LogWriteCall(p, b, v) => InOp' = InOp /\ p \in InOp
         /\ \A p \in Procs : BeginSleep(p) \/ Committed(p) => InOp' = InOp
         /\ UNCHANGED pc => InOp' = InOp
         /\ Crash => InOp' = {}
<1> USE DEF InOp, TypeOK, Points
<1>1. ASSUME NEW p \in Procs, BeginOp(p)
      PROVE  InOp' = InOp \cup {p} /\ p \notin InOp
  BY <1>1, Zenon DEF BeginOp
<1>2. ASSUME NEW p \in Procs, EndOp(p)
      PROVE  InOp' = InOp \ {p} /\ p \in InOp
  BY <1>2, Zenon DEF EndOp, Woken
<1>3. ASSUME NEW p \in Procs, EndOpCommit(p)
      PROVE  InOp' = InOp \ {p} /\ p \in InOp
  BY <1>3, Zenon DEF EndOpCommit
<1>4. ASSUME NEW p \in Procs, LogWrite(p)
      PROVE  InOp' = InOp /\ p \in InOp
  BY <1>4, Zenon DEF LogWrite
<1>5. ASSUME NEW p \in Procs, NEW b \in Blocks, NEW v \in Vals,
             LogWriteCall(p, b, v)
      PROVE  InOp' = InOp /\ p \in InOp
  BY <1>5, Zenon DEF LogWriteCall, MayWrite
<1>6. ASSUME NEW p \in Procs, BeginSleep(p)
      PROVE  InOp' = InOp
  BY <1>6, Zenon DEF BeginSleep
<1>7. ASSUME NEW p \in Procs, Committed(p)
      PROVE  InOp' = InOp
  BY <1>7, Zenon DEF Committed, Woken
<1>8. ASSUME Crash PROVE InOp' = {}
  BY <1>8, Zenon DEF Crash
<1>9. UNCHANGED pc => InOp' = InOp
  BY Zenon
<1> QED
  BY <1>1, <1>2, <1>3, <1>4, <1>5, <1>6, <1>7, <1>8, <1>9, Zenon

\* Finitely many calls are under way.
LEMMA InOpFinite ==
  IsFiniteSet(InOp) /\ Cardinality(InOp) \in Nat /\ InOp \in SUBSET Procs
<1>1. InOp \in SUBSET Procs
  BY Zenon DEF InOp
<1> QED
  BY <1>1, FS_Subset, FS_CardinalityType, LogAssumption, Zenon

\* log_write() logs a block once.
LEMMA AbsorbFacts ==
  ASSUME TypeOK, Distinct(lh), NEW b \in Blocks
  PROVE  /\ Absorb(b) \in Seq(Blocks)
         /\ Distinct(Absorb(b))
         /\ Range(Absorb(b)) = Range(lh) \cup {b}
         /\ Len(Absorb(b)) = IF b \in Range(lh) THEN Len(lh) ELSE Len(lh) + 1
<1>1. lh \in Seq(Blocks)
  BY Zenon DEF TypeOK
<1>2. CASE b \in Range(lh)
  BY <1>1, <1>2, Zenon DEF Absorb
<1>3. CASE b \notin Range(lh)
  <2>1. Absorb(b) = Append(lh, b)
    BY <1>3, Zenon DEF Absorb
  <2>2. \A i \in 1 .. Len(lh) : lh[i] # b
    BY <1>1, <1>3 DEF Range
  <2>3. /\ Append(lh, b) \in Seq(Blocks)
        /\ Len(Append(lh, b)) = Len(lh) + 1
        /\ \A i \in 1 .. Len(lh) : Append(lh, b)[i] = lh[i]
        /\ Append(lh, b)[Len(lh) + 1] = b
    BY <1>1
  <2>4. Distinct(Append(lh, b))
    BY <1>1, <2>2, <2>3 DEF Distinct
  <2>5. Range(Append(lh, b)) = Range(lh) \cup {b}
    BY <1>1, <2>3 DEF Range
  <2> QED
    BY <1>3, <2>1, <2>3, <2>4, <2>5, Zenon
<1> QED
  BY <1>2, <1>3, Zenon

-----------------------------------------------------------------------------
(* The counts.                                                             *)

\* outstanding counts the calls under way, and a commit runs without any.
LEMMA CommitAloneStep ==
  ASSUME TypeOK, CommitAlone, PhaseInv, [Next]_vars
  PROVE  CommitAlone'
<1>1. ASSUME InOp' = InOp, UNCHANGED outstanding, committing' => committing
      PROVE  CommitAlone'
  BY <1>1, Zenon DEF CommitAlone
<1>2. ASSUME NEW p \in Procs, BeginOp(p) PROVE CommitAlone'
  <2>1. InOp' = InOp \cup {p} /\ p \notin InOp
    BY <1>2, InOpSteps, Zenon
  <2>2. Cardinality(InOp') = Cardinality(InOp) + 1
    BY <2>1, InOpFinite, FS_AddElement, Zenon
  <2> QED
    BY <1>2, <2>2, Zenon DEF CommitAlone, BeginOp
<1>3. ASSUME NEW p \in Procs, EndOp(p) \/ EndOpCommit(p) PROVE CommitAlone'
  <2>1. InOp' = InOp \ {p} /\ p \in InOp
    BY <1>3, InOpSteps, Zenon
  <2>2. Cardinality(InOp') = Cardinality(InOp) - 1 /\ IsFiniteSet(InOp')
    BY <2>1, InOpFinite, FS_RemoveElement, Zenon
  <2>3. CASE EndOp(p)
    BY <2>1, <2>2, <2>3, Zenon DEF CommitAlone, EndOp
  <2>4. CASE EndOpCommit(p)
    <3>1. Cardinality(InOp') = 0 /\ outstanding' = 0
      BY <2>2, <2>4 DEF CommitAlone, EndOpCommit
    <3>2. InOp' = {}
      BY <2>2, <3>1, FS_EmptySet, Zenon
    <3> QED
      BY <3>1, <3>2, Zenon DEF CommitAlone
  <2> QED
    BY <1>3, <2>3, <2>4, Zenon
<1>4. ASSUME NEW p \in Procs, BeginSleep(p) PROVE CommitAlone'
  BY <1>1, <1>4, InOpSteps, Zenon DEF BeginSleep
<1>5. ASSUME NEW p \in Procs, LogWrite(p) PROVE CommitAlone'
  BY <1>1, <1>5, InOpSteps, Zenon DEF LogWrite
<1>6. ASSUME NEW p \in Procs, NEW b \in Blocks, NEW v \in Vals,
             LogWriteCall(p, b, v)
      PROVE  CommitAlone'
  BY <1>1, <1>6, InOpSteps, Zenon DEF LogWriteCall
<1>7. ASSUME NEW p \in Procs, Committed(p) PROVE CommitAlone'
  BY <1>1, <1>7, InOpSteps, Zenon DEF Committed
<1>8. ASSUME UNCHANGED <<pc, outstanding, committing>> PROVE CommitAlone'
  BY <1>1, <1>8, InOpSteps, Zenon
<1>9. CASE Crash
  BY <1>9, InOpSteps, FS_EmptySet, Zenon DEF Crash, CommitAlone
<1> QED
  BY <1>2, <1>3, <1>4, <1>5, <1>6, <1>7, <1>8, <1>9, Zenon DEF Next, Step,
     LogWritePanic, WriteLog, WriteHead, InstallTrans, ClearLog, ReadHead,
     procVars, vars

\* What each call has written is in the log, and within its limit.
LEMMA WroteStep ==
  ASSUME TypeOK, CommitAlone, PhaseInv, DiskInv, WroteInv, [Next]_vars
  PROVE  WroteInv'
<1>1. ASSUME UNCHANGED <<lh, wrote>>, InOp \subseteq InOp',
             \A p \in Procs : pc'[p] = "write" =>
                pc[p] = "write" /\ target'[p] = target[p]
      PROVE  WroteInv'
  BY <1>1, Zenon DEF WroteInv
<1>2. ASSUME NEW p \in Procs, BeginOp(p) PROVE WroteInv'
  <2>1. InOp' = InOp \cup {p}
    BY <1>2, InOpSteps, Zenon
  <2> QED
    BY <1>1, <1>2, <2>1, Zenon DEF BeginOp, TypeOK
<1>3. ASSUME NEW p \in Procs, BeginSleep(p) PROVE WroteInv'
  <2>1. InOp' = InOp
    BY <1>3, InOpSteps, Zenon
  <2> QED
    BY <1>1, <1>3, <2>1, Zenon DEF BeginSleep, TypeOK
<1>4. ASSUME NEW p \in Procs, Committed(p) PROVE WroteInv'
  <2>1. InOp' = InOp
    BY <1>4, InOpSteps, Zenon
  <2> QED
    BY <1>1, <1>4, <2>1, Zenon DEF Committed, Woken, TypeOK
<1>5. ASSUME UNCHANGED <<procVars, lh>> PROVE WroteInv'
  <2>1. InOp' = InOp
    BY <1>5, InOpSteps, Zenon DEF procVars
  <2> QED
    BY <1>1, <1>5, <2>1, Zenon DEF procVars
<1>6. ASSUME NEW p \in Procs, NEW b \in Blocks, NEW v \in Vals,
             LogWriteCall(p, b, v)
      PROVE  WroteInv'
  <2>1. InOp' = InOp
    BY <1>6, InOpSteps, Zenon
  <2>2. pc'[p] = "write" /\ target'[p].block = b /\ UNCHANGED <<wrote, lh>>
    BY <1>6, Zenon DEF LogWriteCall, TypeOK
  <2>3. \A q \in Procs \ {p} : pc'[q] = pc[q] /\ target'[q] = target[q]
    BY <1>6, Zenon DEF LogWriteCall, TypeOK
  <2>4. IsFiniteSet(wrote[p] \cup {b})
    BY FS_Subset, LogAssumption DEF TypeOK
  <2>5. Cardinality(wrote[p] \cup {b}) <= MAXOPBLOCKS
    BY <1>6, <2>4, FS_CardinalityType, LogAssumption DEF LogWriteCall,
       MayWrite
  <2> QED
    BY <2>1, <2>2, <2>3, <2>5, Zenon DEF WroteInv
<1>7. ASSUME NEW p \in Procs, LogWrite(p) PROVE WroteInv'
  <2> DEFINE b == target[p].block
             S == wrote[p] \cup {b}
  <2>1. pc[p] = "write" /\ b \in Blocks
    BY <1>7, Zenon DEF LogWrite, TypeOK
  <2>2. InOp' = InOp /\ p \in InOp
    BY <1>7, InOpSteps, Zenon
  <2>3. wrote' = [wrote EXCEPT ![p] = S] /\ lh' = Absorb(b) /\ pc'[p] = "op"
    BY <1>7, Zenon DEF LogWrite, TypeOK
  <2>4. \A q \in Procs \ {p} : /\ pc'[q] = pc[q] /\ target'[q] = target[q]
                               /\ wrote'[q] = wrote[q]
    BY <1>7, Zenon DEF LogWrite, TypeOK
  <2>5. Cardinality(S) <= MAXOPBLOCKS
    BY <2>1, Zenon DEF WroteInv
  <2>6. S \in SUBSET Blocks /\ wrote \in [Procs -> SUBSET Blocks] /\ wrote'[p] = S
    BY <2>1, <2>3, Zenon DEF TypeOK
  <2>7. Within(wrote')
    BY <2>3, <2>5, <2>6, WithinStays, Zenon DEF WroteInv
  <2>8. Range(lh') = Range(lh) \cup {b}
    BY <2>1, <2>3, AbsorbFacts, Zenon DEF DiskInv
  <2> HIDE DEF b, S
  <2>9. ASSUME NEW q \in Procs
        PROVE  /\ q \notin InOp' => wrote'[q] = {}
               /\ wrote'[q] \subseteq Range(lh')
               /\ Cardinality(wrote'[q]) <= MAXOPBLOCKS
               /\ pc'[q] = "write" =>
                    Cardinality(wrote'[q] \cup {target'[q].block}) <= MAXOPBLOCKS
    BY <2>2, <2>3, <2>4, <2>5, <2>6, <2>8, Zenon DEF WroteInv, S
  <2> QED
    BY <2>7, <2>9, Zenon DEF WroteInv
<1>8. ASSUME NEW p \in Procs, EndOp(p) \/ EndOpCommit(p) PROVE WroteInv'
  <2>1. InOp' = InOp \ {p}
    BY <1>8, InOpSteps, Zenon
  <2>2. wrote' = [wrote EXCEPT ![p] = {}] /\ UNCHANGED <<lh, target>>
    BY <1>8, Zenon DEF EndOp, EndOpCommit
  <2>3. wrote \in [Procs -> SUBSET Blocks]
    BY Zenon DEF TypeOK
  <2>4. \A q \in Procs : pc'[q] = "write" => pc[q] = "write" /\ q # p
    BY <1>8, Zenon DEF EndOp, EndOpCommit, Woken, TypeOK
  <2>5. Cardinality({}) <= MAXOPBLOCKS /\ {} \in SUBSET Blocks
    BY FS_EmptySet, LogAssumption
  <2>6. Within(wrote')
    BY <2>2, <2>3, <2>5, WithinStays, Zenon DEF WroteInv
  <2> QED
    BY <2>1, <2>2, <2>3, <2>4, <2>5, <2>6, Zenon DEF WroteInv
<1>9. ASSUME UNCHANGED procVars, InOp = {} PROVE WroteInv'
  <2>1. InOp' = InOp
    BY <1>9, InOpSteps, Zenon DEF procVars
  <2>2. \A q \in Procs : wrote'[q] = {}
    BY <1>9, Zenon DEF WroteInv, procVars
  <2> QED
    BY <1>9, <2>1, <2>2, Zenon DEF WroteInv, procVars
<1>10. CASE Crash
  <2>1. \A q \in Procs : wrote'[q] = {} /\ pc'[q] = "idle"
    BY <1>10, Zenon DEF Crash
  <2>2. Within(wrote')
    BY <2>1, WithinEmpty, Zenon
  <2>3. Cardinality({}) <= MAXOPBLOCKS
    BY FS_EmptySet, LogAssumption
  <2>4. \A q \in Procs : Cardinality(wrote'[q]) <= MAXOPBLOCKS
    BY <2>1, <2>3, Zenon
  <2> QED
    BY <2>1, <2>2, <2>4, Zenon DEF WroteInv
<1>11. CASE ClearLog \/ ReadHead
  <2>1. InOp = {}
    BY <1>11, Zenon DEF ClearLog, ReadHead, PhaseInv, CommitAlone, Booted
  <2> QED
    BY <1>9, <1>11, <2>1, Zenon DEF ClearLog, ReadHead
<1> QED
  BY <1>2, <1>3, <1>4, <1>5, <1>6, <1>7, <1>8, <1>10, <1>11, Zenon DEF Next,
     Step, LogWritePanic, WriteLog, WriteHead, InstallTrans, procVars, vars

-----------------------------------------------------------------------------
(* Log space.                                                              *)

\* StillAllowed, when the calls of P have written W.
Room(P, W) == Cardinality(P) * MAXOPBLOCKS - Cardinality(Pairs(P, W))

LEMMA RoomNat ==
  ASSUME NEW P \in SUBSET Procs, NEW W, Within(W)
  PROVE  Room(P, W) \in Nat
<1>1. Cardinality(P) \in Nat /\ Cardinality(Pairs(P, W)) \in Nat
  BY PairsFinite, FS_Subset, FS_CardinalityType, LogAssumption, Zenon
<1>2. MAXOPBLOCKS \in Nat
  BY LogAssumption, Zenon
<1>3. Cardinality(P) * MAXOPBLOCKS \in Nat
  BY <1>1, <1>2
<1>4. Cardinality(Pairs(P, W)) <= Cardinality(P) * MAXOPBLOCKS
  BY Zenon DEF Within
<1> QED
  BY <1>1, <1>3, <1>4 DEF Room

\* The room of P is that of the others and what p may still write.
LEMMA RoomSplit ==
  ASSUME NEW P \in SUBSET Procs, NEW p \in P,
         NEW W \in [Procs -> SUBSET Blocks]
  PROVE  Room(P, W) = Room(P \ {p}, W) + (MAXOPBLOCKS - Cardinality(W[p]))
<1> DEFINE R == P \ {p}
<1>1. /\ Cardinality(Pairs(P, W)) = Cardinality(Pairs(R, W)) + Cardinality(W[p])
      /\ Cardinality(W[p]) \in Nat
  BY PairsSplit, Zenon
<1>2. IsFiniteSet(P)
  BY FS_Subset, LogAssumption, Zenon
<1>3. Cardinality(R) = Cardinality(P) - 1 /\ Cardinality(P) \in Nat
  BY <1>2, FS_RemoveElement, FS_CardinalityType, Zenon
<1>4. Cardinality(Pairs(R, W)) \in Nat /\ MAXOPBLOCKS \in Nat
  BY PairsFinite, LogAssumption, Zenon
<1> HIDE DEF R
<1>5. /\ (Cardinality(P) - 1) * MAXOPBLOCKS
           = Cardinality(P) * MAXOPBLOCKS - MAXOPBLOCKS
      /\ Cardinality(P) * MAXOPBLOCKS \in Nat
  BY <1>3, <1>4
<1>6. Room(P, W) = Room(R, W) + (MAXOPBLOCKS - Cardinality(W[p]))
  BY <1>1, <1>3, <1>4, <1>5 DEF Room
<1> QED
  BY <1>6, Zenon DEF R

LEMMA RoomSame ==
  ASSUME NEW P \in SUBSET Procs, NEW V, NEW W, \A p \in P : V[p] = W[p]
  PROVE  Room(P, V) = Room(P, W)
BY PairsSame, Zenon DEF Room

LEMMA RoomNone == \A W : Room({}, W) = 0
<1> SUFFICES ASSUME NEW W PROVE Room({}, W) = 0
  BY Zenon
<1>1. Pairs({}, W) = {}
  BY Zenon DEF Pairs
<1>2. Cardinality({}) = 0 /\ MAXOPBLOCKS \in Nat
  BY FS_EmptySet, LogAssumption, Zenon
<1> QED
  BY <1>1, <1>2 DEF Room

LEMMA RoomIsStillAllowed ==
  StillAllowed = Room(InOp, wrote) /\ StillAllowed' = Room(InOp', wrote')
BY Zenon DEF StillAllowed, Room, WrittenBy, Pairs

\* begin_op() sets aside what its caller may write, log_write() uses it up and
\* end_op() gives the rest back.
LEMMA SpaceStep ==
  ASSUME TypeOK, CommitAlone, PhaseInv, DiskInv, WroteInv, WroteInv',
         SpaceReserved, [Next]_vars
  PROVE  SpaceReserved'
<1> DEFINE A == Room(InOp, wrote)
           B == Room(InOp', wrote')
<1>1. A \in Nat /\ B \in Nat
  <2>1. InOp \in SUBSET Procs /\ InOp' \in SUBSET Procs
    BY Zenon DEF InOp
  <2> QED
    BY <2>1, RoomNat, Zenon DEF WroteInv
<1>0. fault = "too big a transaction" => A <= 1
  BY RoomIsStillAllowed, Zenon DEF SpaceReserved
<1>2. Len(lh) + A <= LOGSIZE
  BY RoomIsStillAllowed, Zenon DEF SpaceReserved
<1>3. SUFFICES /\ Len(lh') + B <= LOGSIZE
               /\ fault' = "too big a transaction" => B <= 1
  BY RoomIsStillAllowed, Zenon DEF SpaceReserved
<1>4. Len(lh) \in Nat /\ LOGSIZE \in Nat /\ MAXOPBLOCKS \in Nat
  BY LogAssumption DEF TypeOK
<1>5. ASSUME UNCHANGED <<lh, wrote, fault>>, InOp' = InOp PROVE <1>3!1
  BY <1>0, <1>2, <1>5, Zenon
<1>6. ASSUME NEW p \in Procs, BeginOp(p), fault = "none" PROVE <1>3!1
  <2>1. InOp' = InOp \cup {p} /\ p \notin InOp /\ wrote' = wrote
    BY <1>6, InOpSteps, Zenon DEF BeginOp
  <2>2. Cardinality(InOp') = Cardinality(InOp) + 1 /\ Cardinality(InOp) \in Nat
    BY <2>1, InOpFinite, FS_AddElement, Zenon
  <2>3. Cardinality(InOp') = outstanding + 1 /\ outstanding \in Nat
    BY <2>2, Zenon DEF CommitAlone
  <2>4. InOp' \in SUBSET Procs
    BY Zenon DEF InOp
  <2>5. Cardinality(Pairs(InOp', wrote')) \in Nat
    BY <2>4, PairsFinite, Zenon
  <2>6. B <= (outstanding + 1) * MAXOPBLOCKS
    BY <1>1, <1>4, <2>3, <2>5 DEF Room
  <2>7. /\ Len(lh) + (outstanding + 1) * MAXOPBLOCKS <= LOGSIZE
        /\ (outstanding + 1) * MAXOPBLOCKS \in Nat
    BY <1>4, <1>6, <2>3 DEF BeginOp, HasRoom
  <2>8. lh' = lh /\ fault' = "none"
    BY <1>6, Zenon DEF BeginOp
  <2> QED
    BY <1>1, <1>4, <2>6, <2>7, <2>8
<1>7. ASSUME NEW p \in Procs, NEW b \in Blocks, LogWritePanic(p, b) PROVE <1>3!1
  <2>1. InOp' = InOp /\ wrote' = wrote /\ lh' = lh
    BY <1>7, InOpSteps, Zenon DEF LogWritePanic, procVars
  <2>2. TooBig
    BY <1>7, Zenon DEF LogWritePanic
  <2>3. LogBlocks \in Nat /\ LogBlocks >= LOGSIZE
    BY LogAssumption, Zenon
  <2>4. Len(lh) >= LOGSIZE - 1
    BY <1>4, <2>2, <2>3 DEF TooBig
  <2>5. A <= 1
    BY <1>1, <1>2, <1>4, <2>4
  <2> QED
    BY <1>2, <2>1, <2>5, Zenon
<1>8. ASSUME NEW p \in Procs, LogWrite(p), fault = "none" PROVE <1>3!1
  <2> DEFINE b == target[p].block
             R == InOp \ {p}
  <2>1. pc[p] = "write" /\ b \in Blocks
    BY <1>8, Zenon DEF LogWrite, TypeOK
  <2>2. InOp' = InOp /\ p \in InOp /\ InOp \in SUBSET Procs /\ R \in SUBSET Procs
    BY <1>8, InOpSteps, InOpFinite, Zenon
  <2>3. /\ wrote \in [Procs -> SUBSET Blocks]
        /\ wrote' \in [Procs -> SUBSET Blocks]
        /\ wrote'[p] = wrote[p] \cup {b}
        /\ \A q \in R : wrote'[q] = wrote[q]
    BY <1>8, <2>1 DEF LogWrite, TypeOK
  <2>4. Room(R, wrote') = Room(R, wrote)
    BY <2>2, <2>3, RoomSame, Zenon
  <2>5. A = Room(R, wrote) + (MAXOPBLOCKS - Cardinality(wrote[p]))
    BY <2>2, <2>3, RoomSplit, Zenon
  <2>6. B = Room(R, wrote) + (MAXOPBLOCKS - Cardinality(wrote[p] \cup {b}))
    <3>1. Room(InOp, wrote') = Room(R, wrote') + (MAXOPBLOCKS - Cardinality(wrote'[p]))
      BY <2>2, <2>3, RoomSplit, Zenon
    <3> QED
      BY <2>2, <2>3, <2>4, <3>1, Zenon
  <2>7. IsFiniteSet(wrote[p]) /\ Cardinality(wrote[p]) \in Nat
    BY <2>2, <2>3, PairsSplit, Zenon
  <2>8. Cardinality(wrote[p] \cup {b}) =
          IF b \in wrote[p] THEN Cardinality(wrote[p])
                            ELSE Cardinality(wrote[p]) + 1
    BY <2>7, FS_AddElement, Zenon
  <2>9. Room(R, wrote) \in Nat
    BY <2>2, RoomNat, Zenon DEF WroteInv
  <2>10. /\ wrote[p] \subseteq Range(lh)
         /\ Len(lh') = IF b \in Range(lh) THEN Len(lh) ELSE Len(lh) + 1
    BY <1>8, <2>1, AbsorbFacts, Zenon DEF LogWrite, WroteInv, DiskInv
  <2>11. b \notin wrote[p] \/ b \in Range(lh)
    BY <2>10, Zenon
  <2>12. fault' = "none"
    BY <1>8, Zenon DEF LogWrite
  <2>13. CASE b \in Range(lh)
    <3>1. Len(lh') = Len(lh)
      BY <2>10, <2>13, Zenon
    <3>2. B <= A
      BY <1>4, <2>5, <2>6, <2>7, <2>8, <2>9
    <3> QED
      BY <1>1, <1>2, <1>4, <2>12, <3>1, <3>2
  <2>14. CASE b \notin Range(lh)
    <3>1. Len(lh') = Len(lh) + 1
      BY <2>10, <2>14, Zenon
    <3>2. Cardinality(wrote[p] \cup {b}) = Cardinality(wrote[p]) + 1
      BY <2>8, <2>11, <2>14, Zenon
    <3>3. B = A - 1
      BY <1>4, <2>5, <2>6, <2>7, <2>9, <3>2
    <3> QED
      BY <1>1, <1>2, <1>4, <2>12, <3>1, <3>3
  <2> QED
    BY <2>13, <2>14, Zenon
<1>9. ASSUME NEW p \in Procs, EndOp(p) \/ EndOpCommit(p), fault = "none"
      PROVE  <1>3!1
  <2> DEFINE R == InOp \ {p}
  <2>1. InOp' = R /\ p \in InOp /\ InOp \in SUBSET Procs
    BY <1>9, InOpSteps, InOpFinite, Zenon
  <2>2. /\ wrote \in [Procs -> SUBSET Blocks]
        /\ \A q \in R : wrote'[q] = wrote[q]
        /\ lh' = lh /\ fault' = "none"
    BY <1>9, <2>1, Zenon DEF EndOp, EndOpCommit, TypeOK
  <2>3. B = Room(R, wrote)
    BY <2>1, <2>2, RoomSame, Zenon
  <2>4. A = Room(R, wrote) + (MAXOPBLOCKS - Cardinality(wrote[p]))
    BY <2>1, <2>2, RoomSplit, Zenon
  <2>5. Cardinality(wrote[p]) \in Nat /\ Cardinality(wrote[p]) <= MAXOPBLOCKS
    BY <2>1, <2>2, PairsSplit, Zenon DEF WroteInv
  <2>6. B <= A
    BY <1>1, <1>4, <2>3, <2>4, <2>5
  <2>7. lh' = lh /\ fault' = "none"
    BY <2>2, Zenon
  <2> QED
    BY <1>1, <1>2, <1>4, <2>6, <2>7
<1>10. ASSUME InOp' = {}, Len(lh') \in Nat, Len(lh') <= LOGSIZE,
              fault' = "none"
       PROVE  <1>3!1
  BY <1>4, <1>10, RoomNone
<1>11. CASE Crash
  <2>1. lh' = <<>> /\ fault' = "none"
    BY <1>11, Zenon DEF Crash
  <2>2. Len(lh') = 0
    BY <2>1, Zenon
  <2> QED
    BY <1>4, <1>10, <1>11, <2>1, <2>2, InOpSteps
<1>12. CASE ClearLog /\ fault = "none"
  <2>1. InOp' = {}
    BY <1>12, InOpSteps, Zenon DEF ClearLog, PhaseInv, CommitAlone, Booted,
       procVars
  <2> QED
    BY <1>4, <1>10, <1>12, <2>1 DEF ClearLog
<1>13. CASE ReadHead /\ fault = "none"
  <2>1. InOp' = {}
    BY <1>13, InOpSteps, Zenon DEF ReadHead, PhaseInv, Booted, procVars
  <2> QED
    BY <1>10, <1>13, <2>1 DEF ReadHead, TypeOK
<1>14. ASSUME NEW p \in Procs, BeginSleep(p) \/ Committed(p) PROVE <1>3!1
  BY <1>5, <1>14, InOpSteps, Zenon DEF BeginSleep, Committed
<1>15. ASSUME NEW p \in Procs, NEW b \in Blocks, NEW v \in Vals,
              LogWriteCall(p, b, v)
       PROVE  <1>3!1
  BY <1>5, <1>15, InOpSteps, Zenon DEF LogWriteCall
<1>16. ASSUME UNCHANGED <<lh, fault, procVars>> PROVE <1>3!1
  BY <1>5, <1>16, InOpSteps, Zenon DEF procVars
<1> QED
  BY <1>6, <1>7, <1>8, <1>9, <1>11, <1>12, <1>13, <1>14, <1>15, <1>16, Zenon
     DEF Next, Step, WriteLog, WriteHead, InstallTrans, procVars, vars


-----------------------------------------------------------------------------
(* Types.                                                                  *)

\* The log never outgrows the header: what is left for the calls under way
\* is not negative.
LEMMA LogFits ==
  ASSUME TypeOK, WroteInv', SpaceReserved', Len(lh') \in Nat
  PROVE  Len(lh') <= LOGSIZE
<1> DEFINE B == Room(InOp', wrote')
<1>1. InOp' \in SUBSET Procs
  BY Zenon DEF InOp
<1>2. B \in Nat
  BY <1>1, RoomNat, Zenon DEF WroteInv
<1>3. Len(lh') + B <= LOGSIZE
  BY RoomIsStillAllowed, Zenon DEF SpaceReserved
<1>4. LOGSIZE \in Nat
  BY LogAssumption, Zenon
<1> QED
  BY <1>2, <1>3, <1>4

\* TypeOK in parts: the disk, each part of memory, and the processes.
DiskTypes ==
  /\ home \in [Blocks -> Vals]
  /\ dlog \in [1 .. LOGSIZE -> Vals]
  /\ dhead \in Seq(Blocks) /\ Len(dhead) <= LOGSIZE

CacheTypes == cache \in [Blocks -> Vals] /\ dirty \subseteq Blocks

HeaderTypes ==
  lh \in Seq(Blocks) /\ Len(lh) <= LOGSIZE /\ tail \in 0 .. Len(lh)

StateTypes ==
  /\ outstanding \in Nat
  /\ committing \in BOOLEAN
  /\ phase \in Phases
  /\ crashes \in Nat
  /\ fault \in Faults

ProcTypes ==
  /\ pc \in [Procs -> Points]
  /\ target \in [Procs -> [block : Blocks, val : Vals] \cup {None}]
  /\ \A p \in Procs :
        IF pc[p] = "write" THEN target[p] \in [block : Blocks, val : Vals]
                           ELSE target[p] = None
  /\ wrote \in [Procs -> SUBSET Blocks]

LEMMA TypeParts ==
  /\ TypeOK <=> DiskTypes /\ CacheTypes /\ HeaderTypes /\ StateTypes /\ ProcTypes
  /\ TypeOK' <=>
       DiskTypes' /\ CacheTypes' /\ HeaderTypes' /\ StateTypes' /\ ProcTypes'
BY Zenon DEF TypeOK, DiskTypes, CacheTypes, HeaderTypes, StateTypes, ProcTypes

\* What a step leaves alone keeps its type.
LEMMA TypeFrames ==
  ASSUME TypeOK
  PROVE  /\ UNCHANGED diskVars => DiskTypes'
         /\ UNCHANGED <<cache, dirty>> => CacheTypes'
         /\ UNCHANGED <<lh, tail>> => HeaderTypes'
         /\ UNCHANGED procVars => ProcTypes'
<1>1. DiskTypes /\ CacheTypes /\ HeaderTypes /\ ProcTypes
  BY TypeParts, Zenon
<1>2. UNCHANGED diskVars => DiskTypes'
  BY <1>1, Zenon DEF DiskTypes, diskVars
<1>3. UNCHANGED <<cache, dirty>> => CacheTypes'
  BY <1>1, Zenon DEF CacheTypes
<1>4. UNCHANGED <<lh, tail>> => HeaderTypes'
  BY <1>1, Zenon DEF HeaderTypes
<1>5. UNCHANGED procVars => ProcTypes'
  BY <1>1, Zenon DEF ProcTypes, procVars
<1> QED
  BY <1>2, <1>3, <1>4, <1>5, Zenon

\* Steps keep every variable in its type.
LEMMA TypeStep ==
  ASSUME TypeOK, PhaseInv, DiskInv, WroteInv', SpaceReserved', [Next]_vars
  PROVE  TypeOK'
<1> DEFINE Typed ==
             DiskTypes' /\ CacheTypes' /\ HeaderTypes' /\ StateTypes' /\ ProcTypes'
<1> SUFFICES Typed
  BY TypeParts, Zenon
<1>0. DiskTypes /\ CacheTypes /\ HeaderTypes /\ StateTypes /\ ProcTypes
  BY TypeParts, Zenon
<1>a. LOGSIZE \in Nat /\ MaxCrash \in Nat
  BY LogAssumption, Zenon
<1>1. ASSUME NEW p \in Procs, BeginOp(p) PROVE Typed
  <2>1. ProcTypes'
    BY <1>0, <1>1, Zenon DEF ProcTypes, BeginOp, Points
  <2>2. StateTypes'
    BY <1>0, <1>1 DEF StateTypes, BeginOp
  <2> QED
    BY <1>1, <2>1, <2>2, TypeFrames, Zenon DEF BeginOp
<1>2. ASSUME NEW p \in Procs, BeginSleep(p) PROVE Typed
  <2>1. ProcTypes'
    BY <1>0, <1>2, Zenon DEF ProcTypes, BeginSleep, Points
  <2>2. StateTypes'
    BY <1>0, <1>2, Zenon DEF StateTypes, BeginSleep
  <2> QED
    BY <1>2, <2>1, <2>2, TypeFrames, Zenon DEF BeginSleep
<1>3. ASSUME NEW p \in Procs, NEW b \in Blocks, LogWritePanic(p, b) PROVE Typed
  <2>1. StateTypes'
    BY <1>0, <1>3, Zenon DEF StateTypes, LogWritePanic, Faults
  <2> QED
    BY <1>3, <2>1, TypeFrames, Zenon DEF LogWritePanic
<1>4. ASSUME NEW p \in Procs, NEW b \in Blocks, NEW v \in Vals,
             LogWriteCall(p, b, v)
      PROVE  Typed
  <2>1. ProcTypes'
    BY <1>0, <1>4, Zenon DEF ProcTypes, LogWriteCall, Points
  <2>2. StateTypes'
    BY <1>0, <1>4, Zenon DEF StateTypes, LogWriteCall
  <2> QED
    BY <1>4, <2>1, <2>2, TypeFrames, Zenon DEF LogWriteCall
<1>5. ASSUME NEW p \in Procs, LogWrite(p) PROVE Typed
  <2> DEFINE b == target[p].block
  <2>1. b \in Blocks /\ target[p].val \in Vals
    BY <1>0, <1>5, Zenon DEF LogWrite, ProcTypes
  <2>2. lh' = Absorb(b) /\ tail' = tail
    BY <1>5, Zenon DEF LogWrite
  <2>3. /\ lh' \in Seq(Blocks)
        /\ Len(lh') = IF b \in Range(lh) THEN Len(lh) ELSE Len(lh) + 1
    BY <2>1, <2>2, AbsorbFacts, Zenon DEF DiskInv
  <2>4. Len(lh') \in Nat /\ Len(lh) \in Nat /\ Len(lh') >= Len(lh)
    BY <1>0, <2>3 DEF HeaderTypes
  <2>5. Len(lh') <= LOGSIZE
    BY <2>4, LogFits, Zenon
  <2>6. HeaderTypes'
    BY <1>0, <2>2, <2>3, <2>4, <2>5 DEF HeaderTypes
  <2>7. CacheTypes'
    BY <1>0, <1>5, <2>1, Zenon DEF LogWrite, CacheTypes
  <2>8. ProcTypes'
    BY <1>0, <1>5, <2>1, Zenon DEF LogWrite, ProcTypes, Points
  <2>9. StateTypes'
    BY <1>0, <1>5, Zenon DEF LogWrite, StateTypes
  <2> QED
    BY <1>5, <2>6, <2>7, <2>8, <2>9, TypeFrames, Zenon DEF LogWrite
<1>6. ASSUME NEW p \in Procs, EndOp(p) PROVE Typed
  <2>1. ProcTypes'
    BY <1>0, <1>6, Zenon DEF ProcTypes, EndOp, Woken, Points
  <2>2. StateTypes'
    BY <1>0, <1>6 DEF StateTypes, EndOp
  <2> QED
    BY <1>6, <2>1, <2>2, TypeFrames, Zenon DEF EndOp
<1>7. ASSUME NEW p \in Procs, EndOpCommit(p) PROVE Typed
  <2>1. ProcTypes'
    BY <1>0, <1>7, Zenon DEF ProcTypes, EndOpCommit, Points
  <2>2. StateTypes'
    BY <1>0, <1>7, Zenon DEF StateTypes, EndOpCommit, Phases
  <2> QED
    BY <1>7, <2>1, <2>2, TypeFrames, Zenon DEF EndOpCommit
<1>8. ASSUME NEW p \in Procs, Committed(p) PROVE Typed
  <2>1. ProcTypes'
    BY <1>0, <1>8, Zenon DEF ProcTypes, Committed, Woken, Points
  <2>2. StateTypes'
    BY <1>0, <1>8, Zenon DEF StateTypes, Committed, Phases
  <2> QED
    BY <1>8, <2>1, <2>2, TypeFrames, Zenon DEF Committed
<1>9. CASE WriteLog
  <2>1. tail + 1 \in 1 .. Len(lh) /\ lh \in Seq(Blocks) /\ Len(lh) \in Nat
    <3>1. tail < Len(lh)
      BY <1>9, Zenon DEF WriteLog
    <3> QED
      BY <1>0, <3>1 DEF HeaderTypes
  <2>2. lh[tail + 1] \in Blocks /\ tail + 1 \in 1 .. LOGSIZE
    BY <1>0, <1>a, <2>1 DEF HeaderTypes
  <2>3. cache[lh[tail + 1]] \in Vals
    BY <1>0, <2>2, Zenon DEF CacheTypes
  <2>4. DiskTypes'
    BY <1>0, <1>9, <2>2, <2>3, Zenon DEF WriteLog, DiskTypes
  <2>5. HeaderTypes'
    BY <1>0, <1>9, <2>1 DEF WriteLog, HeaderTypes
  <2>6. StateTypes'
    BY <1>0, <1>9, Zenon DEF WriteLog, StateTypes
  <2> QED
    BY <1>9, <2>4, <2>5, <2>6, TypeFrames, Zenon DEF WriteLog
<1>10. CASE WriteHead
  <2>1. DiskTypes'
    BY <1>0, <1>10, Zenon DEF WriteHead, DiskTypes, HeaderTypes
  <2>2. HeaderTypes'
    BY <1>0, <1>10 DEF WriteHead, HeaderTypes
  <2>3. StateTypes'
    BY <1>0, <1>10, Zenon DEF WriteHead, StateTypes, Phases
  <2> QED
    BY <1>10, <2>1, <2>2, <2>3, TypeFrames, Zenon DEF WriteHead
<1>11. CASE InstallTrans
  <2>1. tail + 1 \in 1 .. Len(lh) /\ lh \in Seq(Blocks) /\ Len(lh) \in Nat
    BY <1>0, <1>11 DEF InstallTrans, HeaderTypes
  <2>2. tail + 1 \in 1 .. LOGSIZE
    BY <1>0, <1>a, <2>1 DEF HeaderTypes
  <2>3. dlog[tail + 1] \in Vals
    BY <1>0, <2>2, Zenon DEF DiskTypes
  <2>4. DiskTypes'
    BY <1>0, <1>11, <2>3, Zenon DEF InstallTrans, DiskTypes
  <2>5. CacheTypes'
    BY <1>0, <1>11, <2>3, Zenon DEF InstallTrans, CacheTypes
  <2>6. HeaderTypes'
    BY <1>0, <1>11, <2>1 DEF InstallTrans, HeaderTypes
  <2>7. StateTypes'
    BY <1>0, <1>11, Zenon DEF InstallTrans, StateTypes
  <2> QED
    BY <1>11, <2>4, <2>5, <2>6, <2>7, TypeFrames, Zenon DEF InstallTrans
<1>12. CASE ClearLog
  <2>1. DiskTypes'
    BY <1>0, <1>a, <1>12 DEF ClearLog, DiskTypes
  <2>2. HeaderTypes'
    BY <1>a, <1>12 DEF ClearLog, HeaderTypes
  <2>3. StateTypes'
    BY <1>0, <1>12, Zenon DEF ClearLog, StateTypes, Phases
  <2> QED
    BY <1>12, <2>1, <2>2, <2>3, TypeFrames, Zenon DEF ClearLog
<1>13. CASE Crash
  <2>1. CacheTypes'
    BY <1>0, <1>13, Zenon DEF Crash, CacheTypes, DiskTypes
  <2>2. HeaderTypes'
    BY <1>a, <1>13 DEF Crash, HeaderTypes
  <2>0. /\ outstanding' = 0 /\ committing' = FALSE /\ phase' = "boot"
        /\ crashes' = crashes + 1 /\ fault' = "none"
    BY <1>13, Zenon DEF Crash
  <2>3. StateTypes'
    <3>1. crashes' \in Nat
      BY <1>0, <2>0 DEF StateTypes
    <3>2. outstanding' \in Nat /\ phase' \in Phases /\ fault' \in Faults
      BY <2>0, Zenon DEF Phases, Faults
    <3> QED
      BY <2>0, <3>1, <3>2, Zenon DEF StateTypes
  <2>4. ProcTypes'
    BY <1>13, Zenon DEF Crash, ProcTypes, Points
  <2> QED
    BY <1>13, <2>1, <2>2, <2>3, <2>4, TypeFrames, Zenon DEF Crash
<1>14. CASE ReadHead
  <2>1. lh' = dhead /\ tail' = 0
    BY <1>14, Zenon DEF ReadHead, PhaseInv
  <2>2. HeaderTypes'
    BY <1>0, <2>1 DEF HeaderTypes, DiskTypes
  <2>3. StateTypes'
    BY <1>0, <1>14, Zenon DEF ReadHead, StateTypes, Phases
  <2> QED
    BY <1>14, <2>2, <2>3, TypeFrames, Zenon DEF ReadHead
<1>15. CASE UNCHANGED vars
  <2>0. UNCHANGED <<outstanding, committing, phase, crashes, fault>>
    BY <1>15, Zenon DEF vars
  <2>1. StateTypes'
    BY <1>0, <2>0, Zenon DEF StateTypes
  <2> QED
    BY <1>15, <2>1, TypeFrames, Zenon DEF vars
<1> QED
  BY <1>1, <1>2, <1>3, <1>4, <1>5, <1>6, <1>7, <1>8, <1>9, <1>10, <1>11,
     <1>12, <1>13, <1>14, <1>15, Zenon DEF Next, Step

-----------------------------------------------------------------------------
(* Control: phases, and the sleepers of begin_op().                        *)

\* Calls are under way only while no commit and no recovery is.
LEMMA CallsOnlyWhenUp ==
  ASSUME TypeOK, CommitAlone, PhaseInv, InOp # {}
  PROVE  phase = "up" /\ ~committing /\ outstanding > 0
<1>1. ~committing /\ Booted
  BY Zenon DEF CommitAlone, PhaseInv
<1>2. phase = "up"
  BY <1>1, Zenon DEF PhaseInv, Booted, TypeOK, Phases
<1>3. Cardinality(InOp) # 0 /\ Cardinality(InOp) \in Nat
  BY InOpFinite, FS_EmptySet, Zenon
<1> QED
  BY <1>1, <1>2, <1>3 DEF CommitAlone

\* commit() and recovery keep to their phases.
LEMMA PhaseStep ==
  ASSUME TypeOK, CommitAlone, PhaseInv, [Next]_vars
  PROVE  PhaseInv'
<1>1. ASSUME InOp' = InOp, UNCHANGED <<committing, phase, tail, lh, outstanding>>
      PROVE  PhaseInv'
  BY <1>1, Zenon DEF PhaseInv, Booted
<1>2. ASSUME NEW p \in Procs, BeginOp(p) PROVE PhaseInv'
  <2>1. Booted /\ UNCHANGED <<committing, phase, tail, lh>> /\ outstanding' # 0
    BY <1>2 DEF BeginOp, TypeOK
  <2> QED
    BY <2>1, Zenon DEF PhaseInv, Booted
<1>3. ASSUME NEW p \in Procs, BeginSleep(p) PROVE PhaseInv'
  BY <1>1, <1>3, InOpSteps, Zenon DEF BeginSleep
<1>4. ASSUME NEW p \in Procs, NEW b \in Blocks, LogWritePanic(p, b) PROVE PhaseInv'
  BY <1>1, <1>4, InOpSteps, Zenon DEF LogWritePanic, procVars
<1>5. ASSUME NEW p \in Procs, NEW b \in Blocks, NEW v \in Vals,
             LogWriteCall(p, b, v)
      PROVE  PhaseInv'
  BY <1>1, <1>5, InOpSteps, Zenon DEF LogWriteCall
<1>6. ASSUME NEW p \in Procs, LogWrite(p) PROVE PhaseInv'
  <2>1. InOp # {}
    BY <1>6, InOpSteps, Zenon
  <2>2. phase = "up" /\ ~committing /\ outstanding > 0
    BY <2>1, CallsOnlyWhenUp, Zenon
  <2>3. UNCHANGED <<committing, phase, tail, outstanding>>
    BY <1>6, Zenon DEF LogWrite
  <2> QED
    BY <2>2, <2>3 DEF PhaseInv, Booted
<1>7. ASSUME NEW p \in Procs, EndOp(p) PROVE PhaseInv'
  <2>1. InOp # {}
    BY <1>7, InOpSteps, Zenon
  <2>2. phase = "up" /\ ~committing
    BY <2>1, CallsOnlyWhenUp, Zenon
  <2>3. outstanding' # 0 /\ UNCHANGED <<committing, phase, tail, lh>>
    BY <1>7 DEF EndOp, TypeOK
  <2> QED
    BY <2>2, <2>3, Zenon DEF PhaseInv, Booted
<1>8. ASSUME NEW p \in Procs, EndOpCommit(p) PROVE PhaseInv'
  <2>1. InOp # {}
    BY <1>8, InOpSteps, Zenon
  <2>2. phase = "up"
    BY <2>1, CallsOnlyWhenUp, Zenon
  <2>3. /\ phase' = IF lh = <<>> THEN "done" ELSE "wlog"
        /\ committing' = TRUE /\ UNCHANGED <<tail, lh>>
    BY <1>8, Zenon DEF EndOpCommit
  <2> QED
    BY <2>2, <2>3, Zenon DEF PhaseInv, Booted
<1>9. ASSUME NEW p \in Procs, Committed(p) PROVE PhaseInv'
  <2>1. phase = "done" /\ phase' = "up" /\ committing' = FALSE /\ UNCHANGED <<tail, lh>>
    BY <1>9, Zenon DEF Committed
  <2> QED
    BY <2>1, Zenon DEF PhaseInv, Booted
<1>10. CASE WriteLog
  <2>1. InOp' = InOp
    BY <1>10, InOpSteps, Zenon DEF WriteLog, procVars
  <2> QED
    BY <1>10, <2>1, Zenon DEF WriteLog, PhaseInv, Booted
<1>11. CASE WriteHead
  <2>1. InOp' = InOp
    BY <1>11, InOpSteps, Zenon DEF WriteHead, procVars
  <2> QED
    BY <1>11, <2>1, Zenon DEF WriteHead, PhaseInv, Booted
<1>12. CASE InstallTrans
  <2>1. InOp' = InOp
    BY <1>12, InOpSteps, Zenon DEF InstallTrans, procVars
  <2> QED
    BY <1>12, <2>1, Zenon DEF InstallTrans, PhaseInv, Booted
<1>13. CASE ClearLog
  <2>1. InOp' = InOp
    BY <1>13, InOpSteps, Zenon DEF ClearLog, procVars
  <2> QED
    BY <1>13, <2>1, Zenon DEF ClearLog, PhaseInv, Booted
<1>14. CASE Crash
  <2>1. InOp' = {}
    BY <1>14, InOpSteps, Zenon
  <2> QED
    BY <1>14, <2>1, Zenon DEF Crash, PhaseInv, Booted
<1>15. CASE ReadHead
  <2>1. InOp' = InOp
    BY <1>15, InOpSteps, Zenon DEF ReadHead, procVars
  <2> QED
    BY <1>15, <2>1, Zenon DEF ReadHead, PhaseInv, Booted
<1>16. CASE UNCHANGED vars
  BY <1>1, <1>16, InOpSteps, Zenon DEF vars, procVars
<1> QED
  BY <1>2, <1>3, <1>4, <1>5, <1>6, <1>7, <1>8, <1>9, <1>10, <1>11, <1>12,
     <1>13, <1>14, <1>15, <1>16, ZenonT(40) DEF Next, Step

\* Nobody goes to sleep in begin_op() on an idle log: it is empty then, and an
\* empty log has room for a call.  Whoever ends what they wait for wakes them.
LEMMA SleeperStep ==
  ASSUME TypeOK, CommitAlone, PhaseInv, SleeperHasWaker, [Next]_vars
  PROVE  SleeperHasWaker'
<1>1. ASSUME UNCHANGED <<outstanding, committing>>,
             \A q \in Procs : pc'[q] = "asleep" => pc[q] = "asleep"
      PROVE  SleeperHasWaker'
  BY <1>1, Zenon DEF SleeperHasWaker
<1>2. ASSUME \A q \in Procs : pc'[q] # "asleep" PROVE SleeperHasWaker'
  BY <1>2, Zenon DEF SleeperHasWaker
<1>3. ASSUME NEW p \in Procs, BeginOp(p) PROVE SleeperHasWaker'
  <2>1. outstanding' > 0
    BY <1>3 DEF BeginOp, TypeOK
  <2> QED
    BY <2>1, Zenon DEF SleeperHasWaker
<1>4. ASSUME NEW p \in Procs, BeginSleep(p) PROVE SleeperHasWaker'
  <2>1. CASE committing
    BY <1>4, <2>1, Zenon DEF BeginSleep, SleeperHasWaker
  <2>2. CASE ~committing /\ outstanding = 0
    <3>1. phase = "up"
      BY <1>4, <2>2, Zenon DEF BeginSleep, Booted, PhaseInv, TypeOK, Phases
    <3>2. lh = <<>>
      BY <2>2, <3>1, Zenon DEF PhaseInv
    <3>3. Len(lh) = 0
      BY <3>2, Zenon
    <3>4. MAXOPBLOCKS \in Nat /\ LOGSIZE \in Nat /\ LOGSIZE >= MAXOPBLOCKS
      BY LogAssumption, Zenon
    <3>5. HasRoom
      BY <2>2, <3>3, <3>4 DEF HasRoom
    <3> QED
      BY <1>4, <2>2, <3>5, Zenon DEF BeginSleep
  <2>3. CASE outstanding # 0
    <3>1. outstanding' > 0
      BY <1>4, <2>3 DEF BeginSleep, TypeOK
    <3> QED
      BY <3>1, Zenon DEF SleeperHasWaker
  <2> QED
    BY <2>1, <2>2, <2>3, Zenon
<1>5. ASSUME NEW p \in Procs, EndOp(p) \/ Committed(p) PROVE SleeperHasWaker'
  <2>1. \A q \in Procs : pc'[q] # "asleep"
    BY <1>5, Zenon DEF EndOp, Committed, Woken
  <2> QED
    BY <1>2, <2>1, Zenon
<1>6. ASSUME NEW p \in Procs, EndOpCommit(p) PROVE SleeperHasWaker'
  BY <1>6, Zenon DEF EndOpCommit, SleeperHasWaker
<1>7. ASSUME NEW p \in Procs, LogWrite(p) PROVE SleeperHasWaker'
  BY <1>1, <1>7, Zenon DEF LogWrite, TypeOK
<1>8. ASSUME NEW p \in Procs, NEW b \in Blocks, NEW v \in Vals,
             LogWriteCall(p, b, v)
      PROVE  SleeperHasWaker'
  BY <1>1, <1>8, Zenon DEF LogWriteCall, TypeOK
<1>9. CASE Crash
  BY <1>2, <1>9, Zenon DEF Crash
<1>10. CASE UNCHANGED <<pc, outstanding, committing>>
  BY <1>1, <1>10, Zenon
<1> QED
  BY <1>3, <1>4, <1>5, <1>6, <1>7, <1>8, <1>9, <1>10, Zenon DEF Next, Step,
     LogWritePanic, WriteLog, WriteHead, InstallTrans, ClearLog, ReadHead,
     procVars, vars

-----------------------------------------------------------------------------
(* The disk and the cache.                                                 *)

\* Header and log blocks on disk are what the phase says: commit() writes the
\* header after the log blocks and erases it after the home locations.
LEMMA DiskStep ==
  ASSUME TypeOK, CommitAlone, PhaseInv, DiskInv, [Next]_vars
  PROVE  DiskInv'
<1>0. HeaderTypes /\ DiskTypes /\ CacheTypes
  BY TypeParts, Zenon
<1>1. ASSUME UNCHANGED <<diskVars, cache, lh, phase, tail>> PROVE DiskInv'
  <2>1. /\ home' = home /\ dlog' = dlog /\ dhead' = dhead /\ cache' = cache
        /\ lh' = lh /\ phase' = phase /\ tail' = tail
    BY <1>1, Zenon DEF diskVars
  <2> QED
    BY <2>1, Zenon DEF DiskInv
<1>2. ASSUME NEW p \in Procs, LogWrite(p) PROVE DiskInv'
  <2>1. target[p].block \in Blocks
    BY <1>2, Zenon DEF LogWrite, TypeOK
  <2>2. Distinct(lh')
    BY <1>2, <2>1, AbsorbFacts, Zenon DEF LogWrite, DiskInv
  <2>3. InOp # {}
    BY <1>2, InOpSteps, Zenon
  <2>4. phase' = "up" /\ phase = "up" /\ dhead' = dhead
    BY <1>2, <2>3, CallsOnlyWhenUp, Zenon DEF LogWrite, diskVars
  <2>5. dhead = <<>> /\ Distinct(dhead')
    BY <2>4 DEF DiskInv, Distinct
  <2> QED
    BY <2>2, <2>4, <2>5, Zenon DEF DiskInv
<1>3. ASSUME NEW p \in Procs, EndOpCommit(p) PROVE DiskInv'
  <2>1. InOp # {}
    BY <1>3, InOpSteps, Zenon
  <2>2. phase = "up" /\ tail = 0
    BY <2>1, CallsOnlyWhenUp, Zenon DEF PhaseInv
  <2>3. /\ phase' \in {"done", "wlog"}
        /\ UNCHANGED <<diskVars, lh, tail>>
    BY <1>3, Zenon DEF EndOpCommit
  <2>4. dhead = <<>> /\ dhead' = dhead /\ Distinct(lh') /\ Distinct(dhead')
    BY <2>2, <2>3 DEF DiskInv, Distinct, diskVars
  <2> QED
    BY <2>2, <2>3, <2>4 DEF DiskInv
<1>4. ASSUME NEW p \in Procs, Committed(p) PROVE DiskInv'
  <2>1. phase = "done" /\ phase' = "up" /\ dhead' = dhead /\ lh' = lh
    BY <1>4, Zenon DEF Committed, diskVars
  <2> QED
    BY <2>1 DEF DiskInv, Distinct
<1>5. CASE WriteLog
  <2>1. phase' = "wlog" /\ phase = "wlog" /\ UNCHANGED <<dhead, lh, cache>>
    BY <1>5, Zenon DEF WriteLog
  <2>2. \A i \in 1 .. tail : dlog[i] = cache[lh[i]]
    BY <2>1, Zenon DEF DiskInv
  <2>3. tail \in Nat /\ tail + 1 \in 1 .. LOGSIZE /\ LOGSIZE \in Nat
    BY <1>0, <1>5, LogAssumption DEF WriteLog, HeaderTypes
  <2>4. \A i \in 1 .. tail' : dlog'[i] = cache'[lh'[i]]
    BY <1>0, <1>5, <2>2, <2>3 DEF WriteLog, DiskTypes
  <2>5. dhead' = <<>> /\ Distinct(lh') /\ Distinct(dhead')
    BY <2>1 DEF DiskInv, Distinct
  <2> QED
    BY <2>1, <2>4, <2>5, Zenon DEF DiskInv
<1>6. CASE WriteHead
  <2>1. /\ phase = "wlog" /\ tail = Len(lh) /\ phase' = "inst" /\ tail' = 0
        /\ dhead' = lh /\ UNCHANGED <<lh, dlog, cache>>
    BY <1>6, Zenon DEF WriteHead
  <2>2. \A i \in 1 .. Len(lh') : dlog'[i] = cache'[lh'[i]]
    BY <2>1, Zenon DEF DiskInv
  <2>3. Distinct(lh') /\ Distinct(dhead')
    BY <2>1 DEF DiskInv, Distinct
  <2> QED
    BY <2>1, <2>2, <2>3 DEF DiskInv
<1>7. CASE InstallTrans
  <2> DEFINE b == lh[tail + 1]
  <2>1. /\ phase \in {"inst", "rinst"} /\ phase' = phase
        /\ UNCHANGED <<dhead, dlog, lh>>
        /\ home' = [home EXCEPT ![b] = dlog[tail + 1]]
        /\ cache' = [cache EXCEPT ![b] = dlog[tail + 1]]
        /\ tail' = tail + 1 /\ tail < Len(lh)
    BY <1>7, Zenon DEF InstallTrans
  <2>2. tail \in Nat /\ Len(lh) \in Nat /\ tail + 1 \in 1 .. Len(lh)
    BY <1>0, <2>1 DEF HeaderTypes
  <2>3. \A i \in 1 .. Len(lh) : lh[i] \in Blocks
    BY <1>0 DEF HeaderTypes
  <2>4. Distinct(lh) /\ dhead = lh
    BY <2>1, Zenon DEF DiskInv
  <2>5. \A i \in 1 .. Len(lh) : i # tail + 1 => lh[i] # b
    BY <2>2, <2>4, Zenon DEF Distinct
  <2>6. \A i \in 1 .. tail' : home'[lh'[i]] = dlog'[i]
    <3>1. \A i \in 1 .. tail : home[lh[i]] = dlog[i]
      BY <2>1, Zenon DEF DiskInv
    <3>2. \A i \in 1 .. tail : home'[lh[i]] = dlog[i]
      BY <1>0, <2>1, <2>2, <2>3, <2>5, <3>1 DEF DiskTypes
    <3>3. home'[lh[tail + 1]] = dlog[tail + 1]
      BY <1>0, <2>1, <2>2, <2>3, Zenon DEF DiskTypes
    <3> QED
      BY <2>1, <2>2, <3>2, <3>3
  <2>7. ASSUME phase = "inst"
        PROVE  \A i \in 1 .. Len(lh') : dlog'[i] = cache'[lh'[i]]
    <3>1. \A i \in 1 .. Len(lh) : dlog[i] = cache[lh[i]]
      BY <2>7, Zenon DEF DiskInv
    <3>2. \A i \in 1 .. Len(lh) : dlog[i] = cache'[lh[i]]
      BY <1>0, <2>1, <2>3, <2>5, <3>1, Zenon DEF CacheTypes
    <3> QED
      BY <2>1, <3>2, Zenon
  <2>8. Distinct(lh') /\ Distinct(dhead') /\ dhead' = lh'
    BY <2>1, <2>4, Zenon
  <2> QED
    BY <2>1, <2>6, <2>7, <2>8, Zenon DEF DiskInv
<1>8. CASE ClearLog
  <2>1. phase' \in {"done", "up"} /\ lh' = <<>> /\ dhead' = <<>>
    BY <1>8, Zenon DEF ClearLog
  <2> QED
    BY <2>1 DEF DiskInv, Distinct
<1>9. CASE Crash
  <2>1. phase' = "boot" /\ lh' = <<>> /\ dhead' = dhead
    BY <1>9, Zenon DEF Crash, diskVars
  <2>2. Distinct(lh') /\ Distinct(dhead')
    BY <2>1 DEF DiskInv, Distinct
  <2> QED
    BY <2>1, <2>2, Zenon DEF DiskInv
<1>10. CASE ReadHead
  <2>1. phase' = "rinst" /\ lh' = dhead /\ dhead' = dhead /\ tail' = 0
    BY <1>10, Zenon DEF ReadHead, diskVars, PhaseInv
  <2>2. Distinct(lh') /\ Distinct(dhead')
    BY <2>1, Zenon DEF DiskInv
  <2> QED
    BY <2>1, <2>2 DEF DiskInv
<1> QED
  BY <1>1, <1>2, <1>3, <1>4, <1>5, <1>6, <1>7, <1>8, <1>9, <1>10, Zenon DEF
     Next, Step, BeginOp, BeginSleep, LogWritePanic, LogWriteCall, EndOp, vars

\* B_DIRTY covers every buffer that is ahead of its home location.
LEMMA DirtyStep ==
  ASSUME TypeOK, CommitAlone, PhaseInv, DiskInv, DirtyInv, [Next]_vars
  PROVE  DirtyInv'
<1>0. HeaderTypes /\ DiskTypes /\ CacheTypes
  BY TypeParts, Zenon
<1>1. ASSUME UNCHANGED <<home, cache, dirty, lh, phase, tail>> PROVE DirtyInv'
  <2>1. /\ home' = home /\ cache' = cache /\ dirty' = dirty
        /\ lh' = lh /\ phase' = phase /\ tail' = tail
    BY <1>1, Zenon
  <2> QED
    BY <2>1, Zenon DEF DirtyInv, Booted
<1>2. ASSUME NEW p \in Procs, LogWrite(p) PROVE DirtyInv'
  <2> DEFINE b == target[p].block
  <2>1. b \in Blocks
    BY <1>2, Zenon DEF LogWrite, TypeOK
  <2>2. Range(lh') = Range(lh) \cup {b}
    BY <1>2, <2>1, AbsorbFacts, Zenon DEF LogWrite, DiskInv
  <2>3. InOp # {}
    BY <1>2, InOpSteps, Zenon
  <2>4. phase' = "up" /\ dirty' = dirty \cup {b} /\ home' = home
    BY <1>2, <2>3, CallsOnlyWhenUp, Zenon DEF LogWrite, diskVars
  <2>5. \A c \in Blocks \ dirty' : cache'[c] = home'[c]
    BY <1>0, <1>2, <2>4, Zenon DEF LogWrite, DirtyInv, CacheTypes
  <2>6. dirty' \subseteq Range(lh')
    BY <2>2, <2>4, Zenon DEF DirtyInv
  <2> QED
    BY <2>4, <2>5, <2>6, Zenon DEF DirtyInv, Booted
<1>3. ASSUME UNCHANGED <<home, cache, dirty, lh>>,
             Booted, phase' \in {"up", "wlog", "done"}
      PROVE  DirtyInv'
  BY <1>3, Zenon DEF DirtyInv, Booted
<1>4. ASSUME NEW p \in Procs, EndOpCommit(p) PROVE DirtyInv'
  <2>1. InOp # {}
    BY <1>4, InOpSteps, Zenon
  <2>2. Booted
    BY <2>1, CallsOnlyWhenUp, Zenon DEF Booted
  <2> QED
    BY <1>3, <1>4, <2>2, Zenon DEF EndOpCommit, diskVars
<1>5. ASSUME NEW p \in Procs, Committed(p) PROVE DirtyInv'
  BY <1>3, <1>5, Zenon DEF Committed, Booted, diskVars
<1>6. CASE WriteLog
  BY <1>3, <1>6, Zenon DEF WriteLog, Booted
<1>7. CASE WriteHead
  <2>1. phase = "wlog" /\ phase' = "inst" /\ tail' = 0
    BY <1>7, Zenon DEF WriteHead
  <2>2. UNCHANGED <<home, cache, dirty, lh>>
    BY <1>7, Zenon DEF WriteHead
  <2> QED
    BY <2>1, <2>2 DEF DirtyInv, Booted
<1>8. CASE InstallTrans
  <2> DEFINE b == lh[tail + 1]
  <2>1. /\ phase \in {"inst", "rinst"} /\ phase' = phase /\ lh' = lh
        /\ home' = [home EXCEPT ![b] = dlog[tail + 1]]
        /\ cache' = [cache EXCEPT ![b] = dlog[tail + 1]]
        /\ dirty' = dirty \ {b}
        /\ tail' = tail + 1 /\ tail < Len(lh)
    BY <1>8, Zenon DEF InstallTrans
  <2>2. tail \in Nat /\ Len(lh) \in Nat /\ b \in Blocks
    BY <1>0, <2>1 DEF HeaderTypes
  <2>3. \A c \in Blocks \ dirty' : cache'[c] = home'[c]
    BY <1>0, <2>1, <2>2, Zenon DEF DirtyInv, CacheTypes, DiskTypes
  <2>4. dirty' \subseteq Range(lh')
    BY <2>1, Zenon DEF DirtyInv
  <2>5. phase' = "inst" => \A i \in 1 .. tail' : lh'[i] \notin dirty'
    BY <2>1, <2>2 DEF DirtyInv
  <2>6. ~Booted' => dirty' = {}
    BY <2>1, Zenon DEF DirtyInv, Booted
  <2> QED
    BY <2>3, <2>4, <2>5, <2>6, Zenon DEF DirtyInv
<1>9. CASE ClearLog
  <2>1. /\ phase \in {"inst", "rinst"} /\ tail = Len(lh)
        /\ phase' \in {"done", "up"} /\ lh' = <<>>
        /\ UNCHANGED <<home, cache, dirty>>
    BY <1>9, Zenon DEF ClearLog
  <2>2. dirty = {}
    <3>1. CASE phase = "rinst"
      BY <3>1, Zenon DEF DirtyInv, Booted
    <3>2. CASE phase = "inst"
      <4>1. \A i \in 1 .. Len(lh) : lh[i] \notin dirty
        BY <2>1, <3>2, Zenon DEF DirtyInv
      <4>2. dirty \subseteq {lh[i] : i \in 1 .. Len(lh)}
        BY <1>0 DEF DirtyInv, Range, HeaderTypes
      <4> QED
        BY <4>1, <4>2, Zenon
    <3> QED
      BY <2>1, <3>1, <3>2, Zenon
  <2> QED
    BY <2>1, <2>2, Zenon DEF DirtyInv, Booted
<1>10. CASE Crash
  <2>1. cache' = home /\ home' = home /\ dirty' = {} /\ phase' = "boot"
    BY <1>10, Zenon DEF Crash, diskVars
  <2> QED
    BY <2>1, Zenon DEF DirtyInv
<1>11. CASE ReadHead
  <2>1. phase = "boot" /\ phase' = "rinst" /\ UNCHANGED <<home, cache, dirty>>
    BY <1>11, Zenon DEF ReadHead, diskVars
  <2> QED
    BY <2>1, Zenon DEF DirtyInv, Booted
<1> QED
  BY <1>1, <1>2, <1>4, <1>5, <1>6, <1>7, <1>8, <1>9, <1>10, <1>11, Zenon DEF
     Next, Step, BeginOp, BeginSleep, LogWritePanic, LogWriteCall, EndOp,
     vars, diskVars

-----------------------------------------------------------------------------
(* Invariance.                                                             *)

\* A disk that mkfs.c has written satisfies the invariant.
LEMMA InitIInv == Init => IInv
<1> SUFFICES ASSUME Init PROVE IInv
  BY Zenon
<1> USE LogAssumption
<1>1. InOp = {} /\ Cardinality({}) = 0
  BY FS_EmptySet, Zenon DEF Init, InOp
<1>2. TypeOK
  <2>1. DiskTypes /\ CacheTypes
    BY DEF Init, DiskTypes, CacheTypes
  <2>2. HeaderTypes
    BY DEF Init, HeaderTypes
  <2>3. StateTypes
    BY Zenon DEF Init, StateTypes, Phases, Faults
  <2>4. ProcTypes
    BY Zenon DEF Init, ProcTypes, Points
  <2> QED
    BY <2>1, <2>2, <2>3, <2>4, TypeParts, Zenon
<1>3. CommitAlone
  BY <1>1, Zenon DEF Init, CommitAlone
<1>4. PhaseInv
  BY <1>1, Zenon DEF Init, PhaseInv, Booted
<1>5. DiskInv
  BY DEF Init, DiskInv, Distinct
<1>6. DirtyInv
  BY Zenon DEF Init, DirtyInv, Booted, Range
<1>7. WroteInv
  <2>1. \A p \in Procs : wrote[p] = {} /\ pc[p] = "idle"
    BY Zenon DEF Init
  <2>2. Within(wrote)
    BY <2>1, WithinEmpty, Zenon
  <2>3. Cardinality({}) <= MAXOPBLOCKS
    BY <1>1
  <2>4. \A p \in Procs : Cardinality(wrote[p]) <= MAXOPBLOCKS
    BY <2>1, <2>3, Zenon
  <2> QED
    BY <2>1, <2>2, <2>4, Zenon DEF WroteInv
<1>8. SpaceReserved
  <2>1. StillAllowed = 0
    BY <1>1, RoomNone, RoomIsStillAllowed, Zenon
  <2>2. Len(lh) = 0 /\ fault = "none"
    BY Zenon DEF Init
  <2> QED
    BY <2>1, <2>2 DEF SpaceReserved
<1>9. SleeperHasWaker
  BY Zenon DEF Init, SleeperHasWaker
<1> QED
  BY <1>2, <1>3, <1>4, <1>5, <1>6, <1>7, <1>8, <1>9, Zenon DEF IInv

LEMMA IInvStep == IInv /\ [Next]_vars => IInv'
<1> SUFFICES ASSUME IInv, [Next]_vars PROVE IInv'
  BY Zenon
<1>1. /\ TypeOK /\ CommitAlone /\ PhaseInv /\ DiskInv /\ DirtyInv /\ WroteInv
      /\ SpaceReserved /\ SleeperHasWaker
  BY Zenon DEF IInv
<1>2. CommitAlone' /\ PhaseInv' /\ DiskInv' /\ DirtyInv' /\ SleeperHasWaker'
  BY <1>1, CommitAloneStep, PhaseStep, DiskStep, DirtyStep, SleeperStep, Zenon
<1>3. WroteInv'
  BY <1>1, WroteStep, Zenon
<1>4. SpaceReserved'
  BY <1>1, <1>3, SpaceStep, Zenon
<1>5. TypeOK'
  BY <1>1, <1>3, <1>4, TypeStep, Zenon
<1> QED
  BY <1>2, <1>3, <1>4, <1>5, Zenon DEF IInv

LEMMA Invariance == Spec => []IInv
BY InitIInv, IInvStep, PTL DEF Spec

\* log.c keeps its counts, its buffers and its sleepers right around commits
\* and crashes, whatever the number of processes, blocks and crashes.
THEOREM LogStaysConsistent == Spec => []LogConsistent
<1>1. IInv => LogConsistent
  BY Zenon DEF IInv, LogConsistent, DirtyInv, CleanIsHome
<1> QED
  BY <1>1, Invariance, PTL

\* begin_op() sets enough aside: log_write() never overruns the log header.
THEOREM SpaceIsReserved == Spec => []SpaceReserved
BY Invariance, PTL DEF IInv

-----------------------------------------------------------------------------
(* What recovery makes of a disk.                                          *)

\* Recovered, for home locations h, log blocks l and header d.
Replay(h, l, d) ==
  [b \in Blocks |-> IF b \in Range(d)
                    THEN l[CHOOSE i \in DOMAIN d : d[i] = b]
                    ELSE h[b]]

\* f is what recovery makes of a disk if it has the log blocks where the header
\* says, and what is at home elsewhere.
LEMMA ReplayIs ==
  ASSUME NEW h, NEW l, NEW d \in Seq(Blocks), Distinct(d),
         NEW f \in [Blocks -> Vals],
         \A i \in 1 .. Len(d) : f[d[i]] = l[i],
         \A b \in Blocks : b \notin Range(d) => f[b] = h[b]
  PROVE  Replay(h, l, d) = f
<1> SUFFICES ASSUME NEW b \in Blocks PROVE Replay(h, l, d)[b] = f[b]
  BY Zenon DEF Replay
<1>1. CASE b \in Range(d)
  <2> DEFINE i == CHOOSE i \in DOMAIN d : d[i] = b
  <2>1. DOMAIN d = 1 .. Len(d)
    OBVIOUS
  <2>2. i \in DOMAIN d /\ d[i] = b
    BY <1>1, Zenon DEF Range
  <2>3. Replay(h, l, d)[b] = l[i]
    BY <1>1, Zenon DEF Replay
  <2>4. f[d[i]] = l[i]
    BY <2>1, <2>2, Zenon
  <2> QED
    BY <2>2, <2>3, <2>4, Zenon
<1>2. CASE b \notin Range(d)
  BY <1>2, Zenon DEF Replay
<1> QED
  BY <1>1, <1>2, Zenon

\* It has the log blocks where the header says, home blocks elsewhere.
LEMMA ReplayAt ==
  ASSUME NEW h, NEW l, NEW d \in Seq(Blocks), Distinct(d)
  PROVE  /\ \A i \in 1 .. Len(d) : Replay(h, l, d)[d[i]] = l[i]
         /\ \A b \in Blocks : b \notin Range(d) => Replay(h, l, d)[b] = h[b]
<1>1. DOMAIN d = 1 .. Len(d)
  OBVIOUS
<1>2. ASSUME NEW i \in 1 .. Len(d) PROVE Replay(h, l, d)[d[i]] = l[i]
  <2>1. d[i] \in Blocks /\ d[i] \in Range(d)
    BY <1>1 DEF Range
  <2>2. \A j \in DOMAIN d : d[j] = d[i] => j = i
    BY <1>1, Zenon DEF Distinct
  <2>3. (CHOOSE j \in DOMAIN d : d[j] = d[i]) = i
    BY <1>1, <2>2, Zenon
  <2> QED
    BY <2>1, <2>3, Zenon DEF Replay
<1>3. ASSUME NEW b \in Blocks, b \notin Range(d) PROVE Replay(h, l, d)[b] = h[b]
  BY <1>3, Zenon DEF Replay
<1> QED
  BY <1>2, <1>3, Zenon

LEMMA RecoveredIsReplay ==
  /\ Recovered = Replay(home, dlog, dhead)
  /\ Recovered' = Replay(home', dlog', dhead')
BY Zenon DEF Recovered, Replay

\* After a log that is empty on disk, recovery finds what is at home.
LEMMA ReplayNothing ==
  ASSUME NEW h \in [Blocks -> Vals], NEW l
  PROVE  Replay(h, l, <<>>) = h
<1>1. Range(<<>>) = {}
  BY DEF Range
<1> QED
  BY <1>1, Zenon DEF Replay

-----------------------------------------------------------------------------
\* An idle log has nothing that is not at home.
LEMMA IdleIsHome ==
  ASSUME IInv, phase = "up", outstanding = 0
  PROVE  Recovered = cache
<1>1. lh = <<>> /\ dhead = <<>>
  BY Zenon DEF IInv, PhaseInv, DiskInv
<1>2. dirty = {}
  BY <1>1 DEF IInv, DirtyInv, Range
<1>3. home \in [Blocks -> Vals] /\ cache \in [Blocks -> Vals]
  BY Zenon DEF IInv, TypeOK
<1>4. cache = home
  BY <1>2, <1>3 DEF IInv, DirtyInv
<1> QED
  BY <1>1, <1>3, <1>4, RecoveredIsReplay, ReplayNothing, Zenon

\* The end_op() that leaves the log idle returns after its commit: what calls
\* read is then what a crash would leave.
THEOREM IdleIsDurable == Spec => []DurableWhenIdle
<1>1. IInv => DurableWhenIdle
  BY IdleIsHome, Zenon DEF DurableWhenIdle
<1> QED
  BY <1>1, Invariance, PTL

-----------------------------------------------------------------------------
(* The refinement.                                                         *)

\* What LogAbs calls current; durable is Recovered and active is InOp.
Current == IF Booted THEN cache ELSE Recovered

\* Nothing that LogAbs sees has changed.
Stutter == UNCHANGED <<Current, Recovered, InOp>>

\* commit() writes log blocks while the header on disk is empty.
LEMMA WriteLogStutters ==
  ASSUME IInv, WriteLog
  PROVE  Stutter
<1>1. dhead = <<>> /\ dhead' = <<>> /\ home' = home /\ cache' = cache /\ phase' = phase
  BY Zenon DEF WriteLog, IInv, DiskInv
<1>2. home \in [Blocks -> Vals]
  BY Zenon DEF IInv, TypeOK
<1>3. Recovered' = Recovered
  BY <1>1, <1>2, RecoveredIsReplay, ReplayNothing, Zenon
<1>4. InOp' = InOp
  BY InOpSteps, Zenon DEF WriteLog, procVars, IInv
<1> QED
  BY <1>1, <1>3, <1>4, Zenon DEF Stutter, Current, Booted

\* "the true point at which the current transaction commits": with the header
\* all of what the calls wrote becomes durable.
LEMMA WriteHeadCommits ==
  ASSUME IInv, WriteHead
  PROVE  /\ InOp = {} /\ InOp' = {}
         /\ Recovered' = Current
         /\ Current' = Current
<1>1. /\ phase = "wlog" /\ phase' = "inst" /\ tail = Len(lh) /\ dhead' = lh
      /\ UNCHANGED <<home, dlog, cache>>
  BY Zenon DEF WriteHead
<1>2. InOp = {}
  BY <1>1, Zenon DEF IInv, PhaseInv, CommitAlone
<1>3. InOp' = {}
  BY <1>2, InOpSteps, Zenon DEF WriteHead, procVars, IInv
<1>4. lh \in Seq(Blocks) /\ Distinct(lh) /\ cache \in [Blocks -> Vals]
  BY Zenon DEF IInv, DiskInv, TypeOK
<1>5. \A i \in 1 .. Len(lh) : cache[lh[i]] = dlog[i]
  BY <1>1, Zenon DEF IInv, DiskInv
<1>6. \A b \in Blocks : b \notin Range(lh) => cache[b] = home[b]
  BY Zenon DEF IInv, DirtyInv
<1>7. Replay(home, dlog, lh) = cache
  BY <1>4, <1>5, <1>6, ReplayIs
<1>8. Recovered' = cache
  BY <1>1, <1>7, RecoveredIsReplay, Zenon
<1> QED
  BY <1>1, <1>2, <1>3, <1>8, Zenon DEF Current, Booted

\* Installing a block writes at home what recovery would write there.
LEMMA InstallTransStutters ==
  ASSUME IInv, InstallTrans
  PROVE  Stutter
<1> DEFINE b == lh[tail + 1]
           n == tail + 1
<1>1. /\ phase \in {"inst", "rinst"} /\ phase' = phase /\ tail < Len(lh)
      /\ UNCHANGED <<dlog, dhead, lh>>
      /\ home' = [home EXCEPT ![b] = dlog[n]]
      /\ cache' = [cache EXCEPT ![b] = dlog[n]]
  BY Zenon DEF InstallTrans
<1>2. /\ dhead = lh /\ lh \in Seq(Blocks) /\ Distinct(lh)
      /\ home \in [Blocks -> Vals] /\ cache \in [Blocks -> Vals]
      /\ dlog \in [1 .. LOGSIZE -> Vals] /\ Len(lh) <= LOGSIZE
      /\ tail \in Nat /\ LOGSIZE \in Nat
  BY <1>1, LogAssumption DEF IInv, DiskInv, TypeOK
<1>3. n \in 1 .. Len(lh) /\ b \in Blocks /\ b \in Range(lh)
  BY <1>1, <1>2 DEF Range
<1> DEFINE f == Replay(home, dlog, lh)
<1>4. \A i \in 1 .. Len(lh) : f[lh[i]] = dlog[i]
  BY <1>2, ReplayAt
<1>5. \A c \in Blocks : c \notin Range(lh) => f[c] = home'[c]
  BY <1>1, <1>2, <1>3, ReplayAt
<1>6. f = [c \in Blocks |-> f[c]]
  BY DEF Replay
<1>7. f \in [Blocks -> Vals]
  <2>1. ASSUME NEW c \in Blocks PROVE f[c] \in Vals
    <3>1. CASE c \in Range(lh)
      <4>1. PICK i \in 1 .. Len(lh) : lh[i] = c
        BY <1>2, <3>1 DEF Range
      <4>2. i \in 1 .. LOGSIZE
        BY <1>2
      <4> QED
        BY <1>2, <1>4, <4>1, <4>2, Zenon
    <3>2. CASE c \notin Range(lh)
      BY <1>2, <3>2, ReplayAt, SMTT(30)
    <3> QED
      BY <3>1, <3>2, Zenon
  <2> QED
    BY <1>6, <2>1, Zenon
<1> HIDE DEF f
<1>8. Replay(home', dlog, lh) = f
  BY <1>2, <1>4, <1>5, <1>7, ReplayIs, SMTT(30)
<1>9. Recovered' = Recovered
  BY <1>1, <1>2, <1>8, RecoveredIsReplay, Zenon DEF f
<1>10. InOp' = InOp
  BY InOpSteps, Zenon DEF InstallTrans, procVars, IInv
<1>11. CASE phase = "rinst"
  BY <1>1, <1>9, <1>10, <1>11, Zenon DEF Stutter, Current, Booted
<1>12. CASE phase = "inst"
  <2>1. cache[b] = dlog[n]
    BY <1>3, <1>12, Zenon DEF IInv, DiskInv
  <2>2. cache' = cache
    BY <1>1, <1>2, <2>1, Zenon
  <2> QED
    BY <1>1, <1>9, <1>10, <1>12, <2>2, Zenon DEF Stutter, Current, Booted
<1> QED
  BY <1>1, <1>11, <1>12, Zenon

\* The header is erased when everything in the log is at home.
LEMMA ClearLogStutters ==
  ASSUME IInv, ClearLog
  PROVE  Stutter
<1>1. /\ phase \in {"inst", "rinst"} /\ tail = Len(lh) /\ phase' \in {"done", "up"}
      /\ dhead' = <<>> /\ UNCHANGED <<home, dlog, cache>>
  BY Zenon DEF ClearLog
<1>2. /\ dhead = lh /\ lh \in Seq(Blocks) /\ Distinct(lh)
      /\ home \in [Blocks -> Vals] /\ cache \in [Blocks -> Vals]
  BY <1>1, Zenon DEF IInv, DiskInv, TypeOK
<1>3. \A i \in 1 .. Len(lh) : home[lh[i]] = dlog[i]
  BY <1>1, Zenon DEF IInv, DiskInv
<1>4. Replay(home, dlog, lh) = home
  BY <1>2, <1>3, ReplayIs, Zenon
<1>5. Recovered = home /\ Recovered' = home
  BY <1>1, <1>2, <1>4, RecoveredIsReplay, ReplayNothing, Zenon
<1>6. InOp' = InOp
  BY InOpSteps, Zenon DEF ClearLog, procVars, IInv
<1>7. CASE phase = "inst"
  BY <1>1, <1>5, <1>6, <1>7, Zenon DEF Stutter, Current, Booted
<1>8. CASE phase = "rinst"
  <2>1. dirty = {}
    BY <1>8, Zenon DEF IInv, DirtyInv, Booted
  <2>2. cache = home
    BY <1>2, <2>1 DEF IInv, DirtyInv
  <2> QED
    BY <1>1, <1>5, <1>6, <1>8, <2>2, Zenon DEF Stutter, Current, Booted
<1> QED
  BY <1>1, <1>7, <1>8, Zenon

\* A disk from mkfs.c is one that LogAbs may start with.
LEMMA InitRefines == Init => Atomic!AInit
<1> SUFFICES ASSUME Init PROVE Atomic!AInit
  BY Zenon
<1>1. home \in [Blocks -> Vals] /\ dhead = <<>> /\ ~Booted /\ InOp = {}
  BY LogAssumption, Zenon DEF Init, Booted, InOp
<1>2. Recovered = home
  BY <1>1, RecoveredIsReplay, ReplayNothing, Zenon
<1> QED
  BY <1>1, <1>2, Zenon DEF Atomic!AInit

\* Each step of log.c is a step of LogAbs, or changes nothing it sees.
LEMMA StepRefines ==
  IInv /\ [Next]_vars => [Atomic!ANext]_(Atomic!avars)
<1> SUFFICES ASSUME IInv, [Next]_vars PROVE [Atomic!ANext]_(Atomic!avars)
  BY Zenon
<1>0. TypeOK /\ CommitAlone /\ PhaseInv
  BY Zenon DEF IInv
<1>1. ASSUME Stutter PROVE UNCHANGED Atomic!avars
  BY <1>1, Zenon DEF Stutter, Current, Atomic!avars
<1>2. ASSUME UNCHANGED <<diskVars, cache>>, Booted' = Booted
      PROVE  Current' = Current /\ Recovered' = Recovered
  <2>1. Recovered' = Recovered
    BY <1>2, RecoveredIsReplay, Zenon DEF diskVars
  <2> QED
    BY <1>2, <2>1, Zenon DEF Current
<1>3. ASSUME NEW p \in Procs, BeginOp(p) PROVE Atomic!ABegin(p)
  <2>1. InOp' = InOp \cup {p}
    BY <1>0, <1>3, InOpSteps, Zenon
  <2>2. Current' = Current /\ Recovered' = Recovered
    BY <1>2, <1>3, Zenon DEF BeginOp, Booted
  <2> QED
    BY <2>1, <2>2, Zenon DEF Atomic!ABegin, Current
<1>4. ASSUME NEW p \in Procs, BeginSleep(p) PROVE Stutter
  <2>1. InOp' = InOp
    BY <1>0, <1>4, InOpSteps, Zenon
  <2>2. Current' = Current /\ Recovered' = Recovered
    BY <1>2, <1>4, Zenon DEF BeginSleep, Booted
  <2> QED
    BY <2>1, <2>2, Zenon DEF Stutter
<1>5. ASSUME NEW p \in Procs, NEW b \in Blocks, LogWritePanic(p, b) PROVE Stutter
  <2>1. InOp' = InOp
    BY <1>0, <1>5, InOpSteps, Zenon DEF LogWritePanic, procVars
  <2>2. Current' = Current /\ Recovered' = Recovered
    BY <1>2, <1>5, Zenon DEF LogWritePanic, Booted
  <2> QED
    BY <2>1, <2>2, Zenon DEF Stutter
<1>6. ASSUME NEW p \in Procs, NEW b \in Blocks, NEW v \in Vals,
             LogWriteCall(p, b, v)
      PROVE  Stutter
  <2>1. InOp' = InOp
    BY <1>0, <1>6, InOpSteps, Zenon
  <2>2. Current' = Current /\ Recovered' = Recovered
    BY <1>2, <1>6, Zenon DEF LogWriteCall, Booted
  <2> QED
    BY <2>1, <2>2, Zenon DEF Stutter
<1>7. ASSUME NEW p \in Procs, LogWrite(p)
      PROVE  \E b \in Blocks, v \in Vals : Atomic!AWrite(p, b, v)
  <2> DEFINE b == target[p].block
             v == target[p].val
  <2>1. b \in Blocks /\ v \in Vals
    BY <1>0, <1>7, Zenon DEF LogWrite, TypeOK
  <2>2. InOp' = InOp /\ p \in InOp
    BY <1>0, <1>7, InOpSteps, Zenon
  <2>3. phase = "up" /\ phase' = "up"
    BY <1>0, <1>7, <2>2, CallsOnlyWhenUp, Zenon DEF LogWrite
  <2>4. cache' = [cache EXCEPT ![b] = v] /\ UNCHANGED diskVars
    BY <1>7, Zenon DEF LogWrite
  <2>5. Recovered' = Recovered
    BY <2>4, RecoveredIsReplay, Zenon DEF diskVars
  <2>6. Current = cache /\ Current' = cache'
    BY <2>3, Zenon DEF Current, Booted
  <2>7. Current' = [Current EXCEPT ![b] = v]
    BY <2>4, <2>6, Zenon
  <2>8. Atomic!AWrite(p, b, v)
    BY <2>2, <2>5, <2>7, Zenon DEF Atomic!AWrite, Current
  <2> QED
    BY <2>1, <2>8, Zenon
<1>8. ASSUME NEW p \in Procs, EndOp(p) \/ EndOpCommit(p) PROVE Atomic!AEnd(p)
  <2>1. InOp' = InOp \ {p} /\ p \in InOp
    BY <1>0, <1>8, InOpSteps, Zenon
  <2>2. phase = "up"
    BY <1>0, <2>1, CallsOnlyWhenUp, Zenon
  <2>3. phase' \in {"up", "wlog", "done"} /\ UNCHANGED <<diskVars, cache>>
    BY <1>8, <2>2, Zenon DEF EndOp, EndOpCommit
  <2>4. Current' = Current /\ Recovered' = Recovered
    BY <1>2, <2>2, <2>3, Zenon DEF Booted
  <2> QED
    BY <2>1, <2>4, Zenon DEF Atomic!AEnd, Current
<1>9. ASSUME NEW p \in Procs, Committed(p) PROVE Stutter
  <2>1. InOp' = InOp
    BY <1>0, <1>9, InOpSteps, Zenon
  <2>2. Current' = Current /\ Recovered' = Recovered
    BY <1>2, <1>9, Zenon DEF Committed, Booted
  <2> QED
    BY <2>1, <2>2, Zenon DEF Stutter
<1>10. CASE WriteLog \/ InstallTrans \/ ClearLog
  BY <1>1, <1>10, WriteLogStutters, InstallTransStutters, ClearLogStutters,
     Zenon
<1>11. ASSUME WriteHead PROVE Atomic!ACommit
  BY <1>11, WriteHeadCommits, Zenon DEF Atomic!ACommit, Current
<1>12. ASSUME ReadHead PROVE Stutter
  <2>1. InOp' = InOp
    BY <1>0, <1>12, InOpSteps, Zenon DEF ReadHead, procVars
  <2>2. Current' = Current /\ Recovered' = Recovered
    BY <1>2, <1>12, Zenon DEF ReadHead, Booted
  <2> QED
    BY <2>1, <2>2, Zenon DEF Stutter
<1>13. ASSUME Crash PROVE Atomic!ACrash
  <2>1. UNCHANGED diskVars /\ ~Booted'
    BY <1>13, Zenon DEF Crash, Booted
  <2>2. Recovered' = Recovered
    BY <2>1, RecoveredIsReplay, Zenon DEF diskVars
  <2>3. InOp' = {}
    BY <1>0, <1>13, InOpSteps, Zenon
  <2> QED
    BY <2>1, <2>2, <2>3, Zenon DEF Atomic!ACrash
<1>14. ASSUME UNCHANGED vars PROVE Stutter
  <2>1. InOp' = InOp
    BY <1>0, <1>14, InOpSteps, Zenon DEF vars, procVars
  <2>2. Current' = Current /\ Recovered' = Recovered
    BY <1>2, <1>14, Zenon DEF vars, Booted
  <2> QED
    BY <2>1, <2>2, Zenon DEF Stutter
<1>15. ASSUME NEW p \in Procs,
              BeginOp(p) \/ EndOp(p) \/ EndOpCommit(p) \/ LogWrite(p)
       PROVE  Atomic!ANext
  BY <1>3, <1>7, <1>8, <1>15, Zenon DEF Atomic!ANext
<1>16. CASE WriteHead \/ Crash
  BY <1>11, <1>13, <1>16, Zenon DEF Atomic!ANext
<1> QED
  BY <1>1, <1>4, <1>5, <1>6, <1>9, <1>10, <1>12, <1>14, <1>15, <1>16, Zenon
     DEF Next, Step

\* Commit and recovery are atomic, wherever crashes come, for any number of
\* processes, blocks and crashes: the disk goes from one state between system
\* calls to a later one.
THEOREM LogIsAtomic == Spec => RefinesAtomic
BY InitRefines, StepRefines, Invariance, PTL DEF Spec, RefinesAtomic,
   Atomic!ASpec

=============================================================================
