---------------------------- MODULE ProcProofs -----------------------------
(***************************************************************************)
(* The invariant of ProcInv holds in every state, for any number of slots  *)
(* and CPUs, and what follows from it: the consistency of the process      *)
(* table, that no wakeup is lost, how CPU 0 judges the turn it gave, and   *)
(* what can stop scheduler().                                              *)
(***************************************************************************)
EXTENDS ProcInv, FiniteSetTheorems, WellFoundedInduction

-----------------------------------------------------------------------------
(* The invariant holds in every state.                                     *)

\* The state userinit() leaves satisfies the invariant.
LEMMA InitEstablishes == Init => IInv
  <1> SUFFICES ASSUME Init PROVE IInv
    BY Zenon
  <1> USE Distinct, ProcAssumption DEF Init
  <1>1. TypeOK
    BY DEF TypeOK, ProcStates, Points, Modes, Faults
  <1>2. CpuOwnership /\ LockDiscipline
    BY Zenon DEF CpuOwnership, LockDiscipline, OnCpu
  <1>3. StateMatchesCode /\ EmbryoOwned
    BY Zenon DEF StateMatchesCode, OnCpu, EmbryoOwned, Live
  <1>4. ParentLive /\ PidUnique
    BY DEF ParentLive, Live, PidUnique
  <1>5. NoLostExit /\ NoLostTick
    BY Zenon DEF NoLostExit, NoLostTick
  <1> QED
    BY <1>1, <1>2, <1>3, <1>4, <1>5, Zenon DEF IInv

\* No step of any CPU breaks the invariant.
LEMMA NextPreserves == IInv /\ [Next]_vars => IInv'
  <1> SUFFICES ASSUME IInv, [Next]_vars PROVE IInv'
    BY Zenon
  <1>1. CASE UNCHANGED vars
    <2> USE <1>1 DEF IInv, vars, procVars, localVars, cpuVars
    <2>1. TypeOK' /\ LockDiscipline'
      BY Zenon DEF TypeOK, LockDiscipline
    <2>2. CpuOwnership'
      BY DEF CpuOwnership, OnCpu
    <2>3. StateMatchesCode'
      BY Zenon DEF StateMatchesCode, OnCpu
    <2>4. EmbryoOwned' /\ ParentLive' /\ PidUnique'
      BY DEF EmbryoOwned, Live, ParentLive, PidUnique
    <2>5. NoLostExit' /\ NoLostTick'
      BY Zenon DEF NoLostExit, Children, ZombieChildren, NoLostTick,
         StillWaiting
    <2> QED
      BY <2>1, <2>2, <2>3, <2>4, <2>5, Zenon
  <1>2. ASSUME fault = "none", NEW c \in CPUs, KernelStep(c)
        PROVE  IInv'
    BY <1>2, DispatchPreserves, DispatchDividePreserves,
       DispatchOverrunPreserves, BackPreserves, TimerYieldPreserves,
       ForkFailPreserves, ForkRunPreserves, ExitPreserves, ExitInitPreserves,
       WaitReapPreserves, WaitNonePreserves, WaitSleepPreserves,
       SleepDonePreserves, SleepAgainPreserves, SleepEnterPreserves,
       SleepReacquirePreserves, SpYieldPreserves, ZenonT(40) DEF KernelStep
  <1>3. ASSUME fault = "none", NEW c \in CPUs, UserCall(c)
        PROVE  IInv'
    BY <1>3, ForkAllocPreserves, ExitPreserves, WaitCallPreserves,
       SleepCallPreserves, KillPreserves, SetPriorityPreserves, Zenon DEF
       UserCall
  <1>4. ASSUME fault = "none", NEW c \in CPUs,
               TimerInterrupt(c) \/ TickWakeup(c)
        PROVE  IInv'
    BY <1>4, TickPreserves, TimerOtherPreserves, TickWakeupPreserves, Zenon
       DEF TimerInterrupt
  <1> QED
    BY <1>1, <1>2, <1>3, <1>4, Zenon DEF Next

\* The invariant that ties struct proc, the CPUs and the two locks together
\* holds in every reachable state, for any number of slots and CPUs.
THEOREM Invariance == Spec => []IInv
  BY InitEstablishes, NextPreserves, PTL DEF Spec

\* The process table agrees with itself, with the locks and with where each
\* process stands in proc.c.
THEOREM TableStaysConsistent == Spec => []TableConsistent
  BY Invariance, PTL DEF IInv, TableConsistent

\* Type correctness.
THEOREM TypeCorrect == Spec => []TypeOK
  BY Invariance, PTL DEF IInv

\* No process is ever on two CPUs, nor dispatched while another CPU is still
\* leaving its kernel stack in sched().
THEOREM OneCpuPerProcess == Spec => []CpuOwnership
  BY Invariance, PTL DEF IInv

\* ptable.lock and tickslock are held where the code says, and nowhere else.
THEOREM LocksBalanced == Spec => []LockDiscipline
  BY Invariance, PTL DEF IInv

\* fork()'s unlocked work on an EMBRYO slot is never shared.
THEOREM EmbryoExclusive == Spec => []EmbryoOwned
  BY Invariance, PTL DEF IInv

\* exit() leaves every process with a parent that can wait() for it.
THEOREM NoOrphans == Spec => []ParentLive
  BY Invariance, PTL DEF IInv

\* Pids identify processes.
THEOREM PidsIdentify == Spec => []PidUnique
  BY Invariance, PTL DEF IInv

\* wait() misses no exit() and no kill().
THEOREM ExitNotLost == Spec => []NoLostExit
  BY Invariance, PTL DEF IInv

\* sys_sleep() misses no tick that would end it.
THEOREM TickNotLost == Spec => []NoLostTick
  BY Invariance, PTL DEF IInv

-----------------------------------------------------------------------------
(* Turns on CPU 0.                                                         *)

\* How a turn on CPU 0 goes is recorded in ticks and start: equal as long as
\* the process runs, different once the timer interrupted it.
TurnInv ==
  LET p == cproc[0] IN
  /\ mode[0] = "run" => ticks = start[0]
  /\ mode[0] = "post" \/ (mode[0] = "tick" /\ p # NULL) => ticks # start[0]
  /\ mode[0] = "back" =>
       IF state[p] = "RUNNABLE" /\ pc[p] # "spret"
       THEN ticks # start[0]
       ELSE state[p] = "ZOMBIE" \/ ticks = start[0]

\* One tick is visible in ticks, wrapping or not.
LEMMA TickVisible ==
  ASSUME NEW x \in 0 .. TICKMOD - 1
  PROVE  (x + 1) % TICKMOD # x
  <1>1. CASE x + 1 < TICKMOD
    <2>1. (x + 1) % TICKMOD = x + 1
      BY <1>1, ProcAssumption
    <2> QED
      BY <2>1
  <1>2. CASE x + 1 = TICKMOD
    <2>1. (x + 1) % TICKMOD = 0
      BY <1>2, ProcAssumption
    <2> QED
      BY <2>1, <1>2, ProcAssumption
  <1> QED
    BY <1>1, <1>2, ProcAssumption

\* While CPU 0 holds ptable.lock on its way back, nothing it will look at
\* changes; before that, only its own steps matter.
LEMMA TurnPreserves ==
  ASSUME IInv, TurnInv, [Next]_vars
  PROVE  TurnInv'
  <1> USE Distinct DEF IInv
  <1>1. CASE UNCHANGED vars
    <2>1. UNCHANGED <<state, pc, ticks, mode, cproc, start>>
      BY <1>1, Zenon DEF vars, procVars, cpuVars
    <2> QED
      BY <2>1, Zenon DEF TurnInv
  <1> SUFFICES ASSUME fault = "none", NEW c \in CPUs,
                      \/ KernelStep(c) \/ UserCall(c)
                      \/ TimerInterrupt(c) \/ TickWakeup(c)
               PROVE  TurnInv'
    BY <1>1, Zenon DEF Next
  <1> USE DEF procVars, localVars, cpuVars
  <1>2. ASSUME NEW p \in Slots, Dispatch(c, p)  PROVE TurnInv'
    BY <1>2 DEF Dispatch, TurnInv, TypeOK, LockDiscipline, Goto
  <1>3. CASE DispatchDivide(c) \/ DispatchOverrun(c) \/ ExitInit(c)
    <2>1. UNCHANGED <<state, pc, ticks, mode, cproc, start>>
      BY <1>3, Zenon DEF DispatchDivide, DispatchOverrun, ExitInit
    <2> QED
      BY <2>1, Zenon DEF TurnInv
  <1>4. CASE Back(c)
    BY <1>4, SMTT(30) DEF Back, TurnInv, TypeOK, LockDiscipline
  <1>5. CASE Tick(c)
    BY <1>5, TickVisible, SMTT(30) DEF Tick, TurnInv, TypeOK, CpuOwnership
  <1>6. CASE TickWakeup(c)
    BY <1>6 DEF TickWakeup, TurnInv, TypeOK, LockDiscipline
  <1>7. CASE TimerOther(c)
    BY <1>7, Zenon DEF TimerOther, TurnInv, TypeOK
  <1>8. CASE TimerYield(c)
    <2>1. cproc[c] \in Slots /\ pc[cproc[c]] # "spret"
      BY <1>8 DEF TimerYield, TypeOK, CpuOwnership, StateMatchesCode, OnCpu
    <2> QED
      BY <1>8, <2>1, SMTT(30) DEF TimerYield, Sched, TurnInv, TypeOK,
         LockDiscipline
  <1>9. ASSUME NEW p \in Slots, ForkRun(c, p)  PROVE TurnInv'
    BY <1>9, Zenon DEF ForkRun, Runs, TurnInv, LockDiscipline
  <1>10. ASSUME NEW p \in Slots, ForkFail(c, p)  PROVE TurnInv'
    <2>1. state[p] = "RUNNING" /\ np[p] \in Slots /\ state[np[p]] = "EMBRYO"
      BY <1>10, Owner, SMTT(30) DEF ForkFail, Runs, EmbryoOwned, Live, TypeOK
    <2>2. mode[0] = "back" => /\ cproc[0] \in Slots
                             /\ cproc[0] # p /\ cproc[0] # np[p]
      BY <2>1 DEF CpuOwnership, TypeOK
    <2> QED
      BY <1>10, <2>2, ZenonT(40) DEF ForkFail, Goto, TurnInv, TypeOK
  <1>11. ASSUME NEW p \in Slots, Exit(c, p)  PROVE TurnInv'
    <2>1. state'[p] = "ZOMBIE"
      BY <1>11, Zenon DEF Exit, ExitStates, Wakeup1, TypeOK
    <2> QED
      BY <1>11, <2>1, ZenonT(40) DEF Exit, EntersExit, Sched, TurnInv, TypeOK,
         LockDiscipline
  <1>12. ASSUME NEW p \in Slots, WaitCall(c, p)  PROVE TurnInv'
    BY <1>12, Zenon DEF WaitCall, TurnInv, LockDiscipline
  <1>13. ASSUME NEW p \in Slots,
                WaitNone(c, p) \/ \E s \in Slots : WaitReap(c, p, s)
         PROVE  TurnInv'
    BY <1>13, SMTT(30) DEF WaitNone, WaitReap, Runs, TurnInv, LockDiscipline
  <1>14. ASSUME NEW p \in Slots, WaitSleep(c, p)  PROVE TurnInv'
    BY <1>14, SMTT(30) DEF WaitSleep, Runs, Sched, TurnInv, TypeOK,
       LockDiscipline
  <1>15. ASSUME NEW p \in Slots, \E k \in SleepArgs : SleepCall(c, p, k)
         PROVE  TurnInv'
    <2>1. mode[0] = "back" => cproc[0] # p
      BY <1>15, Owner DEF SleepCall, MayCall, Runs, CpuOwnership
    <2> QED
      BY <1>15, <2>1, SMTT(30) DEF SleepCall, Goto, TurnInv, TypeOK
  <1>16. ASSUME NEW p \in Slots,
                SleepDone(c, p) \/ SleepAgain(c, p) \/ SleepReacquire(c, p)
         PROVE  TurnInv'
    <2>1. mode[0] = "back" => cproc[0] # p
      BY <1>16, Owner DEF SleepDone, SleepAgain, SleepReacquire, Runs,
         CpuOwnership
    <2>4. /\ UNCHANGED <<state, ticks, mode, cproc, start>>
          /\ \E w \in Points : pc' = [pc EXCEPT ![p] = w]
      BY <1>16, Zenon DEF SleepDone, SleepAgain, SleepReacquire, Goto, Points
    <2>2. /\ UNCHANGED <<state, ticks, mode, cproc, start>>
          /\ \A s \in Slots : s # p => pc'[s] = pc[s]
      BY <2>4, ZenonT(40) DEF TypeOK
    <2>3. mode[0] = "back" => cproc[0] \in Slots
      BY SMTT(30) DEF CpuOwnership, TypeOK
    <2> QED
      BY <2>1, <2>2, <2>3, ZenonT(40) DEF TurnInv
  <1>17. ASSUME NEW p \in Slots, SleepEnter(c, p)  PROVE TurnInv'
    BY <1>17 DEF SleepEnter, Runs, Sched, TurnInv, TypeOK, LockDiscipline
  <1>18. ASSUME NEW p \in Slots, SpYield(c, p)  PROVE TurnInv'
    BY <1>18, Zenon DEF SpYield, Runs, Goto, Sched, TurnInv, TypeOK,
       LockDiscipline
  <1>19. ASSUME NEW p \in Slots, NEW s \in Slots, NEW q \in 1 .. PRIOCAP,
                ForkAlloc(c, p, s, q)
         PROVE  TurnInv'
    BY <1>19, Zenon DEF ForkAlloc, TurnInv, LockDiscipline
  <1>20. ASSUME NEW p \in Slots, NEW k \in KillPids, NEW s \in Slots,
                Kill(c, p, k, s)
         PROVE  TurnInv'
    BY <1>20, Zenon DEF Kill, TurnInv, LockDiscipline
  <1>21. ASSUME NEW p \in Slots, NEW q \in PrioArgs, SetPriority(c, p, q)
         PROVE  TurnInv'
    BY <1>21, Zenon DEF SetPriority, TurnInv, LockDiscipline
  <1> QED
    BY <1>2, <1>3, <1>4, <1>5, <1>6, <1>7, <1>8, <1>9, <1>10, <1>11, <1>12,
       <1>13, <1>14, <1>15, <1>16, <1>17, <1>18, <1>19, <1>20, <1>21,
       ZenonT(40) DEF KernelStep, UserCall, TimerInterrupt

\* A step that ends a turn on CPU 0 is Back, and judges it by TurnInv.
LEMMA TurnJudged ==
  ASSUME IInv, TurnInv, [Next]_vars
  PROVE  [JudgedOn(0)]_vars
  <1> SUFFICES ASSUME fault = "none", NEW c \in CPUs,
                      \/ KernelStep(c) \/ UserCall(c)
                      \/ TimerInterrupt(c) \/ TickWakeup(c),
                      mode[0] = "back", mode'[0] = "sched"
               PROVE  JudgedOn(0)
    BY Zenon DEF Next, JudgedOn
  <1> USE Distinct DEF IInv
  <1>1. lk = 0
    BY Zenon DEF LockDiscipline
  <1>2. Back(c) /\ c = 0
    <2> USE <1>1 DEF cpuVars
    <2>0. mode \in [CPUs -> Modes]
      BY Zenon DEF TypeOK
    <2>1. ASSUME KernelStep(c), ~Back(c)  PROVE mode'[0] # "sched"
      <3>1. CASE \E p \in Slots : Dispatch(c, p)
        BY <2>0, <3>1, Zenon DEF Dispatch
      <3>2. CASE DispatchDivide(c) \/ DispatchOverrun(c) \/ ExitInit(c)
        BY <3>2, Zenon DEF DispatchDivide, DispatchOverrun, ExitInit
      <3>3. ASSUME NEW p \in Slots,
                   \/ TimerYield(c) \/ ForkRun(c, p) \/ Exit(c, p)
                   \/ SleepEnter(c, p) \/ SpYield(c, p)
            PROVE  FALSE
        BY <3>3, Zenon DEF TimerYield, ForkRun, Exit, SleepEnter, SpYield
      <3>4. ASSUME NEW p \in Slots,
                   \/ ForkFail(c, p) \/ WaitNone(c, p) \/ SleepDone(c, p)
                   \/ SleepAgain(c, p) \/ SleepReacquire(c, p)
                   \/ \E s \in Slots : WaitReap(c, p, s)
            PROVE  mode' = mode
        BY <3>4, Zenon DEF ForkFail, WaitNone, SleepDone, SleepAgain,
           SleepReacquire, WaitReap
      <3>5. ASSUME NEW p \in Slots, WaitSleep(c, p)
            PROVE  mode'[0] = "back"
        BY <2>0, <3>5, Zenon DEF WaitSleep, Sched
      <3> QED
        BY <2>1, <3>1, <3>2, <3>3, <3>4, <3>5, Zenon DEF KernelStep
    <2>2. UserCall(c) => mode'[0] # "sched"
      BY Zenon DEF UserCall, ForkAlloc, Exit, WaitCall, SleepCall, Kill,
         SetPriority
    <2>3. TimerInterrupt(c) \/ TickWakeup(c) => mode'[0] # "sched"
      BY <2>0, Zenon DEF TimerInterrupt, Tick, TimerOther, TickWakeup
    <2>4. Back(c)
      BY <2>1, <2>2, <2>3, ZenonT(40)
    <2> QED
      BY <2>4, Zenon DEF Back, LockDiscipline
  <1>3. cproc[0] \in Slots
    BY DEF CpuOwnership, TypeOK
  <1>4. prio'[cproc[0]] = Adjusted(cproc[0], 0) /\ prio[cproc[0]] \in Nat
    BY <1>2, <1>3, Zenon DEF Back, TypeOK
  <1> QED
    BY <1>2, <1>3, <1>4 DEF JudgedOn, TurnInv, Adjusted

\* On CPU 0 a process is demoted exactly when the timer ended its turn.
THEOREM Cpu0Judges == Spec => Cpu0Judgement
  <1>1. Init => TurnInv
    BY Distinct, Zenon DEF Init, TurnInv
  <1> QED
    BY <1>1, InitEstablishes, NextPreserves, TurnPreserves, TurnJudged, PTL
       DEF Spec, Cpu0Judgement

-----------------------------------------------------------------------------
(* The faults of scheduler().                                              *)

\* What keeps scheduler() and init safe: no setpriority() argument beyond the
\* value the minimum starts from, room in plist for every slot, and nobody
\* kills init.
SafeArgs ==
  /\ PRIOCAP <= MNINIT
  /\ PrioArgs \subseteq 0 .. MNINIT
  /\ NPROC <= PLISTLEN
  /\ 1 \notin KillPids

\* No priority exceeds what the minimum starts from; init keeps its pid and
\* is not marked.
FaultFree ==
  /\ fault = "none"
  /\ \A s \in Slots : prio[s] <= MNINIT
  /\ pid[initproc] = 1
  /\ ~killed[initproc]

\* A nonempty set of naturals has a least element.
LEMMA LeastExists ==
  ASSUME NEW S, S \subseteq Nat, S # {}
  PROVE  \E m \in S : \A k \in S : m <= k
  <1>1. PICK m \in S : \A k \in S : ~(<<k, m>> \in OpToRel(<, Nat))
    BY WFMin, NatLessThanWellFounded, Zenon
  <1>2. \A k \in S : ~(k < m)
    BY <1>1, Zenon DEF OpToRel
  <1> QED
    BY <1>2

\* scheduler() finds a candidate if one runnable process is not below the value
\* its minimum starts from.
LEMMA CandidateExists ==
  ASSUME TypeOK, NEW s \in Runnable, prio[s] <= MNINIT
  PROVE  plist # {}
  <1> DEFINE seen == {MNINIT} \cup {prio[t] : t \in Runnable}
  <1>1. seen \subseteq Nat
    BY ProcAssumption, Zenon DEF TypeOK, Runnable
  <1>2. \E m \in seen : \A k \in seen : m <= k
    BY <1>1, LeastExists, Zenon
  <1>3. mn \in seen /\ \A k \in seen : mn <= k
    BY <1>2, Zenon DEF mn
  <1>4. prio[s] \in Nat /\ mn <= prio[s]
    BY <1>3 DEF TypeOK, Runnable
  <1>5. CASE mn = MNINIT
    BY <1>4, <1>5, ProcAssumption DEF plist
  <1>6. CASE \E t \in Runnable : mn = prio[t]
    BY <1>6, Zenon DEF plist
  <1> QED
    BY <1>3, <1>5, <1>6, Zenon

\* No list of candidates is longer than the table.
LEMMA CandidatesFit ==
  Cardinality(plist) \in Nat /\ Cardinality(plist) <= NPROC
  <1>1. IsFiniteSet(Slots) /\ Cardinality(Slots) = NPROC
    BY FS_Interval, ProcAssumption DEF Slots
  <1>2. plist \in SUBSET Slots
    BY Zenon DEF plist, Runnable
  <1>3. IsFiniteSet(plist) /\ Cardinality(plist) <= NPROC
    BY <1>1, <1>2, FS_Subset, Zenon
  <1> QED
    BY <1>3, FS_CardinalityType, Zenon

\* Under SafeArgs no step faults, lowers a process too far or marks init.
LEMMA FaultFreePreserves ==
  ASSUME SafeArgs, IInv, FaultFree, [Next]_vars
  PROVE  FaultFree'
  <1> USE Distinct, ProcAssumption DEF IInv
  <1>1. CASE UNCHANGED vars
    <2>1. UNCHANGED <<prio, pid, killed, fault>>
      BY <1>1, Zenon DEF vars, procVars
    <2> QED
      BY <2>1, Zenon DEF FaultFree
  <1> SUFFICES ASSUME NEW c \in CPUs,
                      \/ KernelStep(c) \/ UserCall(c)
                      \/ TimerInterrupt(c) \/ TickWakeup(c)
               PROVE  FaultFree'
    BY <1>1, Zenon DEF Next
  <1> USE DEF procVars
  <1>2. ASSUME NEW p \in Slots, Dispatch(c, p)  PROVE FaultFree'
    <2>1. UNCHANGED <<prio, pid, killed, fault>>
      BY <1>2, Zenon DEF Dispatch
    <2> QED
      BY <2>1, Zenon DEF FaultFree
  <1>3. ~DispatchDivide(c) /\ ~DispatchOverrun(c) /\ ~ExitInit(c)
    <2>1. ~DispatchDivide(c)
      <3>1. \A s \in Runnable : prio[s] <= MNINIT
        BY Zenon DEF FaultFree, Runnable
      <3> QED
        BY <3>1, CandidateExists, Zenon DEF DispatchDivide
    <2>2. ~DispatchOverrun(c)
      BY CandidatesFit DEF DispatchOverrun, SafeArgs
    <2>3. ~ExitInit(c)
      BY Zenon DEF ExitInit, FaultFree
    <2> QED
      BY <2>1, <2>2, <2>3, Zenon
  <1>4. CASE Back(c)
    <2>1. cproc[c] \in Slots
      BY <1>4 DEF Back, CpuOwnership, TypeOK
    <2>2. prio[cproc[c]] \in Nat /\ prio[cproc[c]] <= MNINIT
      BY <2>1, Zenon DEF FaultFree, TypeOK
    <2>3. Adjusted(cproc[c], c) <= MNINIT
      BY <2>2 DEF Adjusted, SafeArgs
    <2> QED
      BY <1>4, <2>1, <2>3, ZenonT(40) DEF Back, FaultFree, TypeOK
  <1>5. CASE TimerInterrupt(c) \/ TickWakeup(c) \/ TimerYield(c)
    <2>1. UNCHANGED <<prio, pid, killed, fault>>
      BY <1>5, Zenon DEF TimerInterrupt, Tick, TimerOther, TickWakeup,
         TimerYield
    <2> QED
      BY <2>1, Zenon DEF FaultFree
  <1>6. ASSUME NEW p \in Slots, ForkFail(c, p) \/ ForkRun(c, p) \/ Exit(c, p)
        PROVE  FaultFree'
    <2>1. UNCHANGED <<prio, pid, killed, fault>>
      BY <1>6, Zenon DEF ForkFail, ForkRun, Exit
    <2> QED
      BY <2>1, Zenon DEF FaultFree
  <1>7. ASSUME NEW p \in Slots,
               WaitCall(c, p) \/ WaitNone(c, p) \/ WaitSleep(c, p)
        PROVE  FaultFree'
    <2>1. UNCHANGED <<prio, pid, killed, fault>>
      BY <1>7, Zenon DEF WaitCall, WaitNone, WaitSleep
    <2> QED
      BY <2>1, Zenon DEF FaultFree
  <1>8. ASSUME NEW p \in Slots, NEW s \in Slots, WaitReap(c, p, s)
        PROVE  FaultFree'
    <2>1. s # initproc
      BY <1>8, Zenon DEF WaitReap, IsFirst, ZombieChildren, Children,
         StateMatchesCode
    <2>0. pid' = [pid EXCEPT ![s] = 0] /\ prio' = [prio EXCEPT ![s] = 0]
      BY <1>8, Zenon DEF WaitReap
    <2>2. /\ pid'[initproc] = pid[initproc]
          /\ \A t \in Slots : prio'[t] \in {prio[t], 0}
      BY <2>0, <2>1, Zenon DEF TypeOK
    <2>3. killed'[initproc] = killed[initproc] /\ fault' = fault
      BY <1>8, <2>1, Zenon DEF WaitReap, TypeOK
    <2>4. \A t \in Slots : prio'[t] <= MNINIT
      BY <2>2 DEF FaultFree
    <2> QED
      BY <2>2, <2>3, <2>4, Zenon DEF FaultFree
  <1>9. ASSUME NEW p \in Slots,
               \/ \E k \in SleepArgs : SleepCall(c, p, k)
               \/ SleepDone(c, p) \/ SleepAgain(c, p) \/ SleepEnter(c, p)
               \/ SleepReacquire(c, p) \/ SpYield(c, p)
        PROVE  FaultFree'
    <2>1. UNCHANGED <<prio, pid, killed, fault>>
      BY <1>9, Zenon DEF SleepCall, SleepDone, SleepAgain, SleepEnter,
         SleepReacquire, SpYield
    <2> QED
      BY <2>1, Zenon DEF FaultFree
  <1>10. ASSUME NEW p \in Slots, NEW s \in Slots, NEW q \in 1 .. PRIOCAP,
                ForkAlloc(c, p, s, q)
         PROVE  FaultFree'
    <2>1. s # initproc
      BY <1>10, Zenon DEF ForkAlloc, IsFirst, StateMatchesCode
    <2>2. q <= MNINIT
      BY DEF SafeArgs
    <2>0. /\ pid' = [pid EXCEPT ![s] = nextpid]
          /\ prio' = [prio EXCEPT ![s] = q]
      BY <1>10, Zenon DEF ForkAlloc, TakesPid
    <2>3. /\ pid'[initproc] = pid[initproc]
          /\ \A t \in Slots : prio'[t] \in {prio[t], q}
      BY <2>0, <2>1, Zenon DEF TypeOK
    <2>4. killed' = killed /\ fault' = fault
      BY <1>10, Zenon DEF ForkAlloc
    <2>5. \A t \in Slots : prio'[t] <= MNINIT
      BY <2>2, <2>3, Zenon DEF FaultFree
    <2> QED
      BY <2>3, <2>4, <2>5, Zenon DEF FaultFree
  <1>11. ASSUME NEW p \in Slots, NEW k \in KillPids, NEW s \in Slots,
                Kill(c, p, k, s)
         PROVE  FaultFree'
    <2>1. s # initproc
      BY <1>11, Zenon DEF Kill, IsFirst, FaultFree, SafeArgs
    <2> QED
      BY <1>11, <2>1, Zenon DEF Kill, FaultFree, TypeOK
  <1>12. ASSUME NEW p \in Slots, NEW q \in PrioArgs, SetPriority(c, p, q)
         PROVE  FaultFree'
    <2>1. /\ prio' = [prio EXCEPT ![p] = q]
          /\ pid' = pid /\ killed' = killed /\ fault' = fault
      BY <1>12, ZenonT(40) DEF SetPriority
    <2>2. \A t \in Slots : prio'[t] <= MNINIT
      BY <2>1 DEF FaultFree, SafeArgs, TypeOK
    <2> QED
      BY <2>1, <2>2, Zenon DEF FaultFree
  <1> QED
    BY <1>2, <1>3, <1>4, <1>5, <1>6, <1>7, <1>8, <1>9, <1>10, <1>11, <1>12,
       ZenonT(40) DEF KernelStep, UserCall

\* With arguments in range the scheduler never divides by zero, never
\* overruns plist, and init never exits.
THEOREM KernelKeepsRunning == ASSUME SafeArgs PROVE Spec => []NoFault
  <1>1. Init => FaultFree
    BY Distinct, ProcAssumption DEF Init, FaultFree, SafeArgs
  <1>2. IInv /\ FaultFree /\ [Next]_vars => FaultFree'
    BY FaultFreePreserves, Zenon
  <1>3. FaultFree => NoFault
    BY Zenon DEF FaultFree, NoFault
  <1> QED
    BY <1>1, <1>2, <1>3, InitEstablishes, NextPreserves, PTL DEF Spec

\* Only scheduler() divides, and it does so without a candidate.
LEMMA DivideStep ==
  ASSUME [Next]_vars, fault # "divide", fault' = "divide"
  PROVE  \E c \in CPUs : DispatchDivide(c)
  <1>1. ~UNCHANGED vars
    BY Zenon DEF vars
  <1>2. PICK c \in CPUs : \/ KernelStep(c) \/ UserCall(c)
                          \/ TimerInterrupt(c) \/ TickWakeup(c)
    BY <1>1, Zenon DEF Next
  <1> SUFFICES ASSUME ~DispatchDivide(c)
               PROVE  fault' # "divide"
    BY Zenon
  <1>3. CASE TimerInterrupt(c) \/ TickWakeup(c)
    BY <1>3, Zenon DEF TimerInterrupt, Tick, TimerOther, TickWakeup
  <1>4. CASE UserCall(c)
    <2>1. PICK p \in Slots :
            \/ \E s \in Slots, q \in 1 .. PRIOCAP : ForkAlloc(c, p, s, q)
            \/ Exit(c, p) \/ WaitCall(c, p)
            \/ \E k \in SleepArgs : SleepCall(c, p, k)
            \/ \E k \in KillPids, s \in Slots : Kill(c, p, k, s)
            \/ \E q \in PrioArgs : SetPriority(c, p, q)
      BY <1>4, Zenon DEF UserCall
    <2> QED
      BY <2>1, Zenon DEF ForkAlloc, Exit, WaitCall, SleepCall, Kill,
         SetPriority
  <1>5. CASE KernelStep(c)
    <2>1. CASE DispatchOverrun(c) \/ ExitInit(c)
      BY <2>1, Zenon DEF DispatchOverrun, ExitInit
    <2>2. CASE Back(c) \/ TimerYield(c) \/ \E p \in Slots : Dispatch(c, p)
      BY <2>2, Zenon DEF Back, TimerYield, Dispatch
    <2>3. ASSUME NEW p \in Slots,
                 \/ ForkFail(c, p) \/ ForkRun(c, p) \/ Exit(c, p)
                 \/ \E s \in Slots : WaitReap(c, p, s)
                 \/ WaitNone(c, p) \/ WaitSleep(c, p)
          PROVE  fault' # "divide"
      BY <2>3, Zenon DEF ForkFail, ForkRun, Exit, WaitReap, WaitNone,
         WaitSleep
    <2>4. ASSUME NEW p \in Slots,
                 \/ SleepDone(c, p) \/ SleepAgain(c, p) \/ SleepEnter(c, p)
                 \/ SleepReacquire(c, p) \/ SpYield(c, p)
          PROVE  fault' # "divide"
      BY <2>4, Zenon DEF SleepDone, SleepAgain, SleepEnter, SleepReacquire,
         SpYield
    <2> QED
      BY <1>5, <2>1, <2>2, <2>3, <2>4, Zenon DEF KernelStep
  <1> QED
    BY <1>2, <1>3, <1>4, <1>5, Zenon

\* scheduler() divides by zero only when every runnable process is below the
\* lowest priority its minimum starts from: while one is not, whatever the
\* number of processes and CPUs, the machine keeps scheduling.
THEOREM DivideHasOneCause == Spec => []DivideMeansBelowMin
  <1>1. Init => DivideMeansBelowMin
    BY Zenon DEF Init, DivideMeansBelowMin
  <1>2. ASSUME IInv, DivideMeansBelowMin, [Next]_vars
        PROVE  DivideMeansBelowMin'
    <2>1. CASE fault = "divide"
      <3>1. UNCHANGED vars
        BY <1>2, <2>1, Zenon DEF Next
      <3>2. UNCHANGED <<state, prio, fault>>
        BY <3>1, Zenon DEF vars, procVars
      <3> QED
        BY <1>2, <3>2, Zenon DEF DivideMeansBelowMin, Runnable
    <2>2. CASE fault # "divide" /\ fault' = "divide"
      <3>1. PICK c \in CPUs : DispatchDivide(c)
        BY <1>2, <2>2, DivideStep, Zenon
      <3>2. UNCHANGED <<state, prio>> /\ Runnable # {} /\ plist = {}
        BY <3>1, Zenon DEF DispatchDivide, procVars
      <3>3. TypeOK
        BY <1>2, Zenon DEF IInv
      <3>4. \A s \in Runnable : prio[s] > MNINIT
        <4>1. \A s \in Runnable : ~(prio[s] <= MNINIT)
          BY <3>2, <3>3, CandidateExists, Zenon
        <4>2. \A s \in Runnable : prio[s] \in Nat
          BY <3>3, Zenon DEF TypeOK, Runnable
        <4> QED
          BY <4>1, <4>2, ProcAssumption
      <3> QED
        BY <3>2, <3>4, Zenon DEF DivideMeansBelowMin, Runnable
    <2>3. CASE fault' # "divide"
      BY <2>3, Zenon DEF DivideMeansBelowMin
    <2> QED
      BY <2>1, <2>2, <2>3, Zenon
  <1> QED
    BY <1>1, <1>2, Invariance, PTL DEF Spec

=============================================================================
