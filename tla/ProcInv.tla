------------------------------ MODULE ProcInv ------------------------------
(***************************************************************************)
(* Proofs about Proc for any number of slots and CPUs: the inductive       *)
(* invariant, and one lemma for each action: those that only move a        *)
(* process within the kernel or take it off its CPU through sched(), the   *)
(* steps of scheduler(), the timer interrupt, kill(), the reaping of       *)
(* wait(), fork() and exit().                                              *)
(***************************************************************************)
EXTENDS Proc, TLAPS

\* The inductive invariant.
IInv ==
  /\ TypeOK
  /\ CpuOwnership
  /\ LockDiscipline
  /\ StateMatchesCode
  /\ EmbryoOwned
  /\ ParentLive
  /\ PidUnique
  /\ NoLostExit
  /\ NoLostTick

\* What the proofs need to know of the constants: null pointers, channels
\* and slots are told apart.
LEMMA Distinct ==
  /\ NULL \notin Slots /\ TICKS \notin Slots /\ NULL \notin CPUs
  /\ NULL # TICKS
  /\ initproc \in Slots /\ 0 \in CPUs
  BY ProcAssumption DEF NULL, TICKS, Slots, CPUs, initproc

\* Who runs where depends on cpu->proc and on which processes are RUNNING: a
\* step that leaves both alone, and the state of a process on its way back to
\* scheduler(), keeps the ownership.
LEMMA OwnershipKept ==
  ASSUME CpuOwnership, UNCHANGED <<mode, cproc>>,
         \A t \in Slots : state'[t] = "RUNNING" <=> state[t] = "RUNNING",
         \A d \in CPUs : OnCpu(d) => cproc[d] \in Slots,
         \A d \in CPUs : mode[d] = "back" =>
            state'[cproc[d]] \in {"RUNNABLE", "SLEEPING", "ZOMBIE"}
  PROVE  CpuOwnership'
  <1>1. \A d \in CPUs : OnCpu(d)' <=> OnCpu(d)
    BY Zenon DEF OnCpu
  <1>2. \A d \in CPUs : OnCpu(d) => state'[cproc[d]] = "RUNNING"
    BY Zenon DEF CpuOwnership
  <1>3. \A s \in Slots : state'[s] = "RUNNING" =>
          \E d \in CPUs : OnCpu(d) /\ cproc[d] = s
    BY Zenon DEF CpuOwnership
  <1>4. \A d \in CPUs : OnCpu(d)' => state'[cproc'[d]] = "RUNNING"
    BY <1>1, <1>2, Zenon
  <1>5. \A s \in Slots : state'[s] = "RUNNING" =>
          \E d \in CPUs : OnCpu(d)' /\ cproc'[d] = s
    BY <1>1, <1>3, Zenon
  <1>6. \A d \in CPUs : mode'[d] = "back" =>
          state'[cproc'[d]] \in {"RUNNABLE", "SLEEPING", "ZOMBIE"}
    BY Zenon
  <1>7. \A d \in CPUs :
          /\ mode'[d] \in {"run", "post", "back"} => cproc'[d] # NULL
          /\ mode'[d] = "sched" => cproc'[d] = NULL
    BY Zenon DEF CpuOwnership
  <1>8. \A d, e \in CPUs : d # e /\ cproc'[d] # NULL => cproc'[d] # cproc'[e]
    BY ZenonT(40) DEF CpuOwnership
  <1> QED
    BY <1>4, <1>5, <1>6, <1>7, <1>8, Zenon DEF CpuOwnership

\* The locks follow the place in the code of the process that runs: a step
\* that moves one only between places that hold no lock keeps the discipline.
LEMMA LocksKept ==
  ASSUME LockDiscipline, UNCHANGED <<mode, cproc, lk, tl, fault>>,
         \A d \in CPUs : mode[d] = "run" =>
            \/ pc'[cproc[d]] = pc[cproc[d]]
            \/ /\ pc[cproc[d]] \notin {"scan", "tchk", "tgo"}
               /\ pc'[cproc[d]] \notin {"scan", "tchk", "tgo"}
  PROVE  LockDiscipline'
  <1> SUFFICES ASSUME NEW d \in CPUs
               PROVE  /\ fault = "none" =>
                           (lk = d <=> \/ mode[d] = "back"
                                       \/ /\ mode[d] = "run"
                                          /\ pc'[cproc[d]] = "scan")
                      /\ tl = d <=>
                           \/ mode[d] = "tick"
                           \/ /\ mode[d] = "run"
                              /\ pc'[cproc[d]] \in {"tchk", "tgo"}
    BY Zenon DEF LockDiscipline
  <1>1. mode[d] = "run" =>
          /\ pc'[cproc[d]] = "scan" <=> pc[cproc[d]] = "scan"
          /\ pc'[cproc[d]] \in {"tchk", "tgo"} <=>
               pc[cproc[d]] \in {"tchk", "tgo"}
    BY Zenon
  <1> QED
    BY <1>1, Zenon DEF LockDiscipline

\* A step that leaves a process alone, takes its slot away, or leaves it in
\* user code or in fork() keeps states and places in agreement.
LEMMA PlacesKept ==
  ASSUME StateMatchesCode, UNCHANGED <<mode, cproc, chan>>,
         \A t \in Slots :
            \/ state'[t] = state[t] /\ pc'[t] = pc[t]
            \/ state'[t] \in {"UNUSED", "EMBRYO"} /\ t # initproc
            \/ /\ state'[t] \in {"RUNNABLE", "RUNNING"}
               /\ pc'[t] \in {"user", "fork"},
         \A d \in CPUs : OnCpu(d) =>
            /\ cproc[d] \in Slots
            /\ \/ pc'[cproc[d]] = pc[cproc[d]]
               \/ pc'[cproc[d]] \in {"user", "fork"}
  PROVE  StateMatchesCode'
  <1>1. \A d \in CPUs : OnCpu(d)' <=> OnCpu(d)
    BY Zenon DEF OnCpu
  <1>2. \A d \in CPUs : OnCpu(d) /\ mode[d] # "run" =>
          pc'[cproc[d]] \in {"user", "fork", "twake", "sp"}
    BY Zenon DEF StateMatchesCode
  <1>3. \A d \in CPUs : OnCpu(d)' /\ mode'[d] # "run" =>
          pc'[cproc'[d]] \in {"user", "fork", "twake", "sp"}
    BY <1>1, <1>2, Zenon
  <1>4. state'[initproc] \notin {"UNUSED", "EMBRYO", "ZOMBIE"}
    BY Distinct, Zenon DEF StateMatchesCode
  <1>5. \A t \in Slots : state'[t] = "SLEEPING" =>
          \/ pc'[t] = "wait" /\ chan'[t] = t
          \/ pc'[t] = "tsleep" /\ chan'[t] = TICKS
    BY ZenonT(40) DEF StateMatchesCode
  <1>6. \A t \in Slots : state'[t] = "RUNNABLE" =>
          pc'[t] \in {"user", "fork", "wait", "tsleep", "twake", "sp", "spret"}
    BY ZenonT(40) DEF StateMatchesCode
  <1>7. \A t \in Slots : state'[t] = "ZOMBIE" => pc'[t] = "dead"
    BY Zenon DEF StateMatchesCode
  <1>8. \A t \in Slots : state'[t] = "RUNNING" =>
          pc'[t] \in {"user", "fork", "scan", "tchk", "tgo", "twake", "sp"}
    BY Zenon DEF StateMatchesCode
  <1> QED
    BY <1>3, <1>4, <1>5, <1>6, <1>7, <1>8, Zenon DEF StateMatchesCode

\* A CPU that executes a process, or is handing one back, names a slot, and
\* never one that is not in the state this requires.
LEMMA Elsewhere ==
  ASSUME TypeOK, CpuOwnership, NEW s \in Slots, state[s] # "RUNNING"
  PROVE  /\ \A d \in CPUs : OnCpu(d) \/ mode[d] = "run" =>
              OnCpu(d) /\ cproc[d] \in Slots \ {s}
         /\ state[s] \in {"UNUSED", "EMBRYO"} =>
              \A d \in CPUs : mode[d] = "back" => cproc[d] \in Slots \ {s}
  <1>1. \A d \in CPUs : cproc[d] # NULL => cproc[d] \in Slots
    BY Zenon DEF TypeOK
  <1>2. \A d \in CPUs : mode[d] = "run" => OnCpu(d)
    BY Zenon DEF CpuOwnership, OnCpu
  <1>3. \A d \in CPUs : OnCpu(d) => cproc[d] \in Slots \ {s}
    BY <1>1, Zenon DEF CpuOwnership, OnCpu
  <1>4. ASSUME state[s] \in {"UNUSED", "EMBRYO"}, NEW d \in CPUs,
               mode[d] = "back"
        PROVE  cproc[d] \in Slots \ {s}
    BY <1>1, <1>4, Zenon DEF CpuOwnership
  <1> QED
    BY <1>2, <1>3, <1>4, Zenon

\* The process a CPU executes is RUNNING and belongs to that CPU alone.
LEMMA Owner ==
  ASSUME IInv, NEW c \in CPUs, NEW p \in Slots,
         cproc[c] = p, mode[c] \in {"run", "post"}
  PROVE  state[p] = "RUNNING" /\ \A d \in CPUs : d # c => cproc[d] # p
  BY DEF IInv, CpuOwnership, OnCpu

\* A step of a running process that moves it to another place in the kernel,
\* and changes no other process.
LEMMA MoveOnly ==
  ASSUME IInv, NEW c \in CPUs, NEW p \in Slots,
         cproc[c] = p, mode[c] = "run", pc[p] # "fork",
         NEW w \in {"user", "scan", "tchk", "tgo", "sp"},
         pc' = [pc EXCEPT ![p] = w],
         UNCHANGED <<state, pid, parent, chan, killed, np, nextpid, mode,
                     cproc>>
  PROVE  /\ pc' \in [Slots -> Points]
         /\ \A d \in CPUs : mode[d] = "run" =>
              pc'[cproc[d]] = IF d = c THEN w ELSE pc[cproc[d]]
         /\ CpuOwnership' /\ StateMatchesCode' /\ EmbryoOwned'
         /\ ParentLive' /\ PidUnique' /\ NoLostExit'
  <1>inv. /\ TypeOK /\ CpuOwnership /\ LockDiscipline /\ StateMatchesCode
          /\ EmbryoOwned /\ ParentLive /\ PidUnique /\ NoLostExit /\ NoLostTick
    BY Zenon DEF IInv
  <1> USE <1>inv
  <1>1. state[p] = "RUNNING" /\ \A d \in CPUs : d # c => cproc[d] # p
    BY Owner, Zenon
  <1>2. pc'[p] = w /\ \A s \in Slots : s # p => pc'[s] = pc[s]
    BY Zenon DEF TypeOK
  <1>3. pc' \in [Slots -> Points]
    BY Zenon DEF TypeOK, Points
  <1>4. \A d \in CPUs : mode[d] = "run" \/ OnCpu(d) => cproc[d] \in Slots
    BY DEF CpuOwnership, OnCpu, TypeOK
  <1>5. \A d \in CPUs : mode[d] = "run" =>
          pc'[cproc[d]] = IF d = c THEN w ELSE pc[cproc[d]]
    BY <1>1, <1>2, <1>4, Zenon
  <1>6. CpuOwnership' /\ ParentLive' /\ PidUnique'
    BY DEF CpuOwnership, OnCpu, ParentLive, Live, PidUnique
  <1>7. StateMatchesCode'
    <2>1. \A d \in CPUs : OnCpu(d)' /\ mode'[d] # "run" =>
            OnCpu(d) /\ d # c /\ pc'[cproc'[d]] = pc[cproc[d]]
      BY <1>1, <1>2, <1>4, ZenonT(40) DEF OnCpu
    <2> QED
      BY <1>1, <1>2, <2>1 DEF StateMatchesCode
  <1>8. EmbryoOwned'
    BY <1>1, <1>2 DEF EmbryoOwned, Live
  <1>9. NoLostExit'
    BY <1>1, <1>2, Zenon DEF NoLostExit, Children, ZombieChildren
  <1> QED
    BY <1>3, <1>5, <1>6, <1>7, <1>8, <1>9, Zenon

\* A process inside fork() leaves the CPU only by being preempted there.
ForkStays(p, st, w) ==
  pc[p] = "fork" \/ w = "fork" => w = pc[p] /\ st = "RUNNABLE"

\* What sched() leaves behind: p off its CPU in state st, to go on at w.
SchedLeaves(c, p, st, w) ==
  /\ state' \in [Slots -> ProcStates] /\ mode' \in [CPUs -> Modes]
  /\ pc' \in [Slots -> Points]
  /\ state[p] = "RUNNING" /\ state'[p] = st /\ pc'[p] = w
  /\ \A s \in Slots : s # p => state'[s] = state[s] /\ pc'[s] = pc[s]
  /\ \A d \in CPUs : d # c => /\ mode'[d] = mode[d] /\ mode[d] # "back"
                              /\ cproc[d] # p
  /\ mode'[c] = "back"
  /\ \A d \in CPUs : OnCpu(d) => cproc[d] \in Slots
  /\ \A d \in CPUs : d # c /\ mode[d] = "run" =>
        pc'[cproc[d]] = pc[cproc[d]]
  /\ CpuOwnership' /\ EmbryoOwned' /\ ParentLive' /\ PidUnique'

\* A process gives up its CPU through sched(), with ptable.lock held.
LEMMA SchedOnly ==
  ASSUME IInv, fault = "none", NEW c \in CPUs, NEW p \in Slots,
         cproc[c] = p, mode[c] \in {"run", "post"},
         lk \in {NULL, c},
         NEW st \in {"RUNNABLE", "SLEEPING"}, NEW w \in Points,
         ForkStays(p, st, w),
         state' = [state EXCEPT ![p] = st],
         pc' = [pc EXCEPT ![p] = w],
         mode' = [mode EXCEPT ![c] = "back"], lk' = c,
         UNCHANGED <<pid, parent, np, nextpid, cproc, fault>>
  PROVE  SchedLeaves(c, p, st, w)
  <1>inv. /\ TypeOK /\ CpuOwnership /\ LockDiscipline /\ StateMatchesCode
          /\ EmbryoOwned /\ ParentLive /\ PidUnique /\ NoLostExit /\ NoLostTick
    BY Zenon DEF IInv
  <1> USE <1>inv DEF ForkStays
  <1>1. state[p] = "RUNNING" /\ \A d \in CPUs : d # c => cproc[d] # p
    BY Owner, Zenon
  <1>2. /\ state' \in [Slots -> ProcStates] /\ mode' \in [CPUs -> Modes]
        /\ pc' \in [Slots -> Points]
    BY Zenon DEF TypeOK, ProcStates, Modes
  <1>3. /\ state'[p] = st /\ pc'[p] = w
        /\ \A s \in Slots : s # p => state'[s] = state[s] /\ pc'[s] = pc[s]
    BY Zenon DEF TypeOK
  <1>4. mode'[c] = "back" /\ \A d \in CPUs : d # c => mode'[d] = mode[d]
    BY Zenon DEF TypeOK
  <1>5. \A d \in CPUs : d # c => mode[d] # "back"
    BY Distinct, Zenon DEF LockDiscipline
  <1>6. \A d \in CPUs : OnCpu(d) => cproc[d] \in Slots
    BY Zenon DEF TypeOK, OnCpu
  <1>a. \A d \in CPUs : d # c /\ mode[d] = "run" =>
          pc'[cproc[d]] = pc[cproc[d]]
    BY <1>1, <1>3, <1>6, Zenon DEF CpuOwnership, OnCpu
  <1>7. CpuOwnership'
    BY <1>1, <1>3, <1>4, <1>5, <1>6 DEF CpuOwnership, OnCpu
  <1>8. EmbryoOwned'
    <2>1. \A s \in Slots : np[s] # NULL => np[s] \in Slots \ {p}
      BY <1>1 DEF EmbryoOwned, TypeOK
    <2> QED
      BY <1>1, <1>3, <2>1 DEF EmbryoOwned, Live
  <1>9. ParentLive'
    BY <1>1, <1>3 DEF ParentLive, Live
  <1>10. PidUnique'
    BY <1>1, <1>3 DEF PidUnique
  <1> QED
    BY <1>1, <1>2, <1>3, <1>4, <1>5, <1>6, <1>7, <1>8, <1>9, <1>10, <1>a,
       Zenon DEF SchedLeaves


\* wait() takes ptable.lock.
LEMMA WaitCallPreserves ==
  ASSUME IInv, fault = "none", NEW c \in CPUs, NEW p \in Slots,
         WaitCall(c, p)
  PROVE  IInv'
  <1>inv. /\ TypeOK /\ CpuOwnership /\ LockDiscipline /\ StateMatchesCode
          /\ EmbryoOwned /\ ParentLive /\ PidUnique /\ NoLostExit /\ NoLostTick
    BY Zenon DEF IInv
  <1> USE <1>inv
  <1>1. /\ cproc[c] = p /\ mode[c] = "run" /\ pc[p] = "user"
        /\ pc' = [pc EXCEPT ![p] = "scan"]
        /\ lk = NULL /\ lk' = c
        /\ UNCHANGED <<state, pid, parent, chan, killed, np,
                       nextpid, ticks, mode, cproc, start, fault,
                       prio, ticks0, n, tl>>
    BY Zenon DEF WaitCall, MayCall, Runs, Goto, procVars, localVars, cpuVars
  <1>2. /\ pc' \in [Slots -> Points]
        /\ \A d \in CPUs : mode[d] = "run" =>
             pc'[cproc[d]] = IF d = c THEN "scan" ELSE pc[cproc[d]]
        /\ CpuOwnership' /\ StateMatchesCode' /\ EmbryoOwned'
        /\ ParentLive' /\ PidUnique' /\ NoLostExit'
    BY <1>1, MoveOnly, Zenon
  <1>3. TypeOK'
    BY <1>1, <1>2, Zenon DEF TypeOK
  <1>4. LockDiscipline'
    BY <1>1, <1>2, Distinct DEF LockDiscipline
  <1>5. NoLostTick'
    <2>1. state[p] = "RUNNING" /\ pc'[p] # "tgo"
          /\ \A s \in Slots : s # p => pc'[s] = pc[s]
      BY <1>1, Owner, Zenon DEF TypeOK
    <2> QED
      BY <1>1, <2>1, Zenon DEF NoLostTick, StillWaiting
  <1> QED
    BY <1>2, <1>3, <1>4, <1>5, Zenon DEF IInv

\* wait() gives up and releases ptable.lock.
LEMMA WaitNonePreserves ==
  ASSUME IInv, fault = "none", NEW c \in CPUs, NEW p \in Slots,
         WaitNone(c, p)
  PROVE  IInv'
  <1>inv. /\ TypeOK /\ CpuOwnership /\ LockDiscipline /\ StateMatchesCode
          /\ EmbryoOwned /\ ParentLive /\ PidUnique /\ NoLostExit /\ NoLostTick
    BY Zenon DEF IInv
  <1> USE <1>inv
  <1>1. /\ cproc[c] = p /\ mode[c] = "run" /\ pc[p] = "scan"
        /\ pc' = [pc EXCEPT ![p] = "user"]
        /\ lk' = NULL
        /\ UNCHANGED <<state, pid, parent, chan, killed, np,
                       nextpid, ticks, mode, cproc, start, fault,
                       prio, ticks0, n, tl>>
    BY Zenon DEF WaitNone, Runs, Goto, procVars, localVars, cpuVars
  <1>2. /\ pc' \in [Slots -> Points]
        /\ \A d \in CPUs : mode[d] = "run" =>
             pc'[cproc[d]] = IF d = c THEN "user" ELSE pc[cproc[d]]
        /\ CpuOwnership' /\ StateMatchesCode' /\ EmbryoOwned'
        /\ ParentLive' /\ PidUnique' /\ NoLostExit'
    BY <1>1, MoveOnly, Zenon
  <1>3. TypeOK'
    BY <1>1, <1>2, Zenon DEF TypeOK
  <1>4. LockDiscipline'
    BY <1>1, <1>2, Distinct DEF LockDiscipline
  <1>5. NoLostTick'
    <2>1. state[p] = "RUNNING" /\ pc'[p] # "tgo"
          /\ \A s \in Slots : s # p => pc'[s] = pc[s]
      BY <1>1, Owner, Zenon DEF TypeOK
    <2> QED
      BY <1>1, <2>1, Zenon DEF NoLostTick, StillWaiting
  <1> QED
    BY <1>2, <1>3, <1>4, <1>5, Zenon DEF IInv

\* sys_sleep() takes tickslock and notes the time.
LEMMA SleepCallPreserves ==
  ASSUME IInv, fault = "none", NEW c \in CPUs, NEW p \in Slots,
         NEW k \in SleepArgs,
         SleepCall(c, p, k)
  PROVE  IInv'
  <1>inv. /\ TypeOK /\ CpuOwnership /\ LockDiscipline /\ StateMatchesCode
          /\ EmbryoOwned /\ ParentLive /\ PidUnique /\ NoLostExit /\ NoLostTick
    BY Zenon DEF IInv
  <1> USE <1>inv
  <1>1. /\ cproc[c] = p /\ mode[c] = "run" /\ pc[p] = "user"
        /\ pc' = [pc EXCEPT ![p] = "tchk"]
        /\ tl = NULL /\ tl' = c
        /\ ticks0' = [ticks0 EXCEPT ![p] = ticks] /\ n' = [n EXCEPT ![p] = k]
        /\ k \in Nat
        /\ UNCHANGED <<state, pid, parent, chan, killed, np,
                       nextpid, ticks, mode, cproc, start, fault,
                       prio, lk>>
    BY ProcAssumption, Zenon DEF SleepCall, MayCall, Runs, Goto, procVars,
       localVars, cpuVars
  <1>2. /\ pc' \in [Slots -> Points]
        /\ \A d \in CPUs : mode[d] = "run" =>
             pc'[cproc[d]] = IF d = c THEN "tchk" ELSE pc[cproc[d]]
        /\ CpuOwnership' /\ StateMatchesCode' /\ EmbryoOwned'
        /\ ParentLive' /\ PidUnique' /\ NoLostExit'
    BY <1>1, MoveOnly, Zenon
  <1>3. TypeOK'
    BY <1>1, <1>2, Zenon DEF TypeOK
  <1>4. LockDiscipline'
    BY <1>1, <1>2, Distinct DEF LockDiscipline
  <1>5. NoLostTick'
    <2>1. state[p] = "RUNNING" /\ pc'[p] # "tgo"
          /\ \A s \in Slots : s # p => pc'[s] = pc[s]
                /\ ticks0'[s] = ticks0[s] /\ n'[s] = n[s]
      BY <1>1, Owner, Zenon DEF TypeOK
    <2> QED
      BY <1>1, <2>1, Zenon DEF NoLostTick, StillWaiting
  <1> QED
    BY <1>2, <1>3, <1>4, <1>5, Zenon DEF IInv

\* sys_sleep() returns and releases tickslock.
LEMMA SleepDonePreserves ==
  ASSUME IInv, fault = "none", NEW c \in CPUs, NEW p \in Slots,
         SleepDone(c, p)
  PROVE  IInv'
  <1>inv. /\ TypeOK /\ CpuOwnership /\ LockDiscipline /\ StateMatchesCode
          /\ EmbryoOwned /\ ParentLive /\ PidUnique /\ NoLostExit /\ NoLostTick
    BY Zenon DEF IInv
  <1> USE <1>inv
  <1>1. /\ cproc[c] = p /\ mode[c] = "run" /\ pc[p] = "tchk"
        /\ pc' = [pc EXCEPT ![p] = "user"]
        /\ tl' = NULL
        /\ ticks0' = [ticks0 EXCEPT ![p] = 0] /\ n' = [n EXCEPT ![p] = 0]
        /\ UNCHANGED <<state, pid, parent, chan, killed, np,
                       nextpid, ticks, mode, cproc, start, fault,
                       prio, lk>>
    BY Zenon DEF SleepDone, Runs, Goto, procVars, localVars, cpuVars
  <1>2. /\ pc' \in [Slots -> Points]
        /\ \A d \in CPUs : mode[d] = "run" =>
             pc'[cproc[d]] = IF d = c THEN "user" ELSE pc[cproc[d]]
        /\ CpuOwnership' /\ StateMatchesCode' /\ EmbryoOwned'
        /\ ParentLive' /\ PidUnique' /\ NoLostExit'
    BY <1>1, MoveOnly, Zenon
  <1>3. TypeOK'
    BY <1>1, <1>2, ProcAssumption DEF TypeOK
  <1>4. LockDiscipline'
    BY <1>1, <1>2, Distinct DEF LockDiscipline
  <1>5. NoLostTick'
    <2>1. state[p] = "RUNNING" /\ pc'[p] # "tgo"
          /\ \A s \in Slots : s # p => pc'[s] = pc[s]
                /\ ticks0'[s] = ticks0[s] /\ n'[s] = n[s]
      BY <1>1, Owner, Zenon DEF TypeOK
    <2> QED
      BY <1>1, <2>1, Zenon DEF NoLostTick, StillWaiting
  <1> QED
    BY <1>2, <1>3, <1>4, <1>5, Zenon DEF IInv

\* sys_sleep() decides to sleep, with tickslock held.
LEMMA SleepAgainPreserves ==
  ASSUME IInv, fault = "none", NEW c \in CPUs, NEW p \in Slots,
         SleepAgain(c, p)
  PROVE  IInv'
  <1>inv. /\ TypeOK /\ CpuOwnership /\ LockDiscipline /\ StateMatchesCode
          /\ EmbryoOwned /\ ParentLive /\ PidUnique /\ NoLostExit /\ NoLostTick
    BY Zenon DEF IInv
  <1> USE <1>inv
  <1>1. /\ cproc[c] = p /\ mode[c] = "run" /\ pc[p] = "tchk"
        /\ pc' = [pc EXCEPT ![p] = "tgo"]
        /\ StillWaiting(p)
        /\ UNCHANGED <<state, pid, parent, chan, killed, np,
                       nextpid, ticks, mode, cproc, start, fault,
                       prio, ticks0, n, lk, tl>>
    BY Zenon DEF SleepAgain, Runs, Goto, procVars, localVars, cpuVars
  <1>2. /\ pc' \in [Slots -> Points]
        /\ \A d \in CPUs : mode[d] = "run" =>
             pc'[cproc[d]] = IF d = c THEN "tgo" ELSE pc[cproc[d]]
        /\ CpuOwnership' /\ StateMatchesCode' /\ EmbryoOwned'
        /\ ParentLive' /\ PidUnique' /\ NoLostExit'
    BY <1>1, MoveOnly, Zenon
  <1>3. TypeOK'
    BY <1>1, <1>2, Zenon DEF TypeOK
  <1>4. LockDiscipline'
    BY <1>1, <1>2 DEF LockDiscipline
  <1>5. NoLostTick'
    <2>1. \A s \in Slots : s # p => pc'[s] = pc[s]
      BY <1>1, Zenon DEF TypeOK
    <2>2. StillWaiting(p)
      BY <1>1, Zenon
    <2> QED
      BY <1>1, <2>1, <2>2, Zenon DEF NoLostTick, StillWaiting
  <1> QED
    BY <1>2, <1>3, <1>4, <1>5, Zenon DEF IInv

\* sleep() ends by retaking tickslock.
LEMMA SleepReacquirePreserves ==
  ASSUME IInv, fault = "none", NEW c \in CPUs, NEW p \in Slots,
         SleepReacquire(c, p)
  PROVE  IInv'
  <1>inv. /\ TypeOK /\ CpuOwnership /\ LockDiscipline /\ StateMatchesCode
          /\ EmbryoOwned /\ ParentLive /\ PidUnique /\ NoLostExit /\ NoLostTick
    BY Zenon DEF IInv
  <1> USE <1>inv
  <1>1. /\ cproc[c] = p /\ mode[c] = "run" /\ pc[p] = "twake"
        /\ pc' = [pc EXCEPT ![p] = "tchk"]
        /\ tl = NULL /\ tl' = c
        /\ UNCHANGED <<state, pid, parent, chan, killed, np,
                       nextpid, ticks, mode, cproc, start, fault,
                       prio, ticks0, n, lk>>
    BY Zenon DEF SleepReacquire, Runs, Goto, procVars, localVars, cpuVars
  <1>2. /\ pc' \in [Slots -> Points]
        /\ \A d \in CPUs : mode[d] = "run" =>
             pc'[cproc[d]] = IF d = c THEN "tchk" ELSE pc[cproc[d]]
        /\ CpuOwnership' /\ StateMatchesCode' /\ EmbryoOwned'
        /\ ParentLive' /\ PidUnique' /\ NoLostExit'
    BY <1>1, MoveOnly, Zenon
  <1>3. TypeOK'
    BY <1>1, <1>2, Zenon DEF TypeOK
  <1>4. LockDiscipline'
    BY <1>1, <1>2, Distinct DEF LockDiscipline
  <1>5. NoLostTick'
    <2>1. state[p] = "RUNNING" /\ pc'[p] # "tgo"
          /\ \A s \in Slots : s # p => pc'[s] = pc[s]
      BY <1>1, Owner, Zenon DEF TypeOK
    <2> QED
      BY <1>1, <2>1, Zenon DEF NoLostTick, StillWaiting
  <1> QED
    BY <1>2, <1>3, <1>4, <1>5, Zenon DEF IInv

\* sp() changes the priority only.
LEMMA SetPriorityPreserves ==
  ASSUME IInv, fault = "none", NEW c \in CPUs, NEW p \in Slots,
         NEW q \in PrioArgs,
         SetPriority(c, p, q)
  PROVE  IInv'
  <1>inv. /\ TypeOK /\ CpuOwnership /\ LockDiscipline /\ StateMatchesCode
          /\ EmbryoOwned /\ ParentLive /\ PidUnique /\ NoLostExit /\ NoLostTick
    BY Zenon DEF IInv
  <1> USE <1>inv
  <1>1. /\ cproc[c] = p /\ mode[c] = "run" /\ pc[p] = "user"
        /\ pc' = [pc EXCEPT ![p] = "sp"]
        /\ prio' = [prio EXCEPT ![p] = q] /\ q \in Nat
        /\ UNCHANGED <<state, pid, parent, chan, killed, np,
                       nextpid, ticks, mode, cproc, start, fault,
                       ticks0, n, lk, tl>>
    BY ProcAssumption, Zenon DEF SetPriority, MayCall, Runs, Goto, procVars,
       localVars, cpuVars
  <1>2. /\ pc' \in [Slots -> Points]
        /\ \A d \in CPUs : mode[d] = "run" =>
             pc'[cproc[d]] = IF d = c THEN "sp" ELSE pc[cproc[d]]
        /\ CpuOwnership' /\ StateMatchesCode' /\ EmbryoOwned'
        /\ ParentLive' /\ PidUnique' /\ NoLostExit'
    BY <1>1, MoveOnly, Zenon
  <1>3. TypeOK'
    BY <1>1, <1>2, Zenon DEF TypeOK
  <1>4. LockDiscipline'
    BY <1>1, <1>2 DEF LockDiscipline
  <1>5. NoLostTick'
    <2>1. state[p] = "RUNNING" /\ pc'[p] # "tgo"
          /\ \A s \in Slots : s # p => pc'[s] = pc[s]
      BY <1>1, Owner, Zenon DEF TypeOK
    <2> QED
      BY <1>1, <2>1, Zenon DEF NoLostTick, StillWaiting
  <1> QED
    BY <1>2, <1>3, <1>4, <1>5, Zenon DEF IInv

\* The yield() of sp().
LEMMA SpYieldPreserves ==
  ASSUME IInv, fault = "none", NEW c \in CPUs, NEW p \in Slots,
         SpYield(c, p)
  PROVE  IInv'
  <1>0. /\ p \in Slots /\ mode[c] = "run" /\ pc[p] = "sp"
        /\ UNCHANGED <<killed, prio, ticks0, n, ticks, start,
                       chan, tl>>
    BY Zenon DEF SpYield, Runs, Sched, localVars
  <1>1. /\ cproc[c] = p /\ mode[c] \in {"run", "post"}
        /\ "RUNNABLE" \in {"RUNNABLE", "SLEEPING"} /\ "spret" \in Points
        /\ ForkStays(p, "RUNNABLE", "spret")
        /\ state' = [state EXCEPT ![p] = "RUNNABLE"]
        /\ pc' = [pc EXCEPT ![p] = "spret"]
        /\ mode' = [mode EXCEPT ![c] = "back"] /\ lk' = c
        /\ UNCHANGED <<pid, parent, np, nextpid, cproc, fault>>
    BY Zenon DEF SpYield, Runs, Goto, Sched, localVars, ForkStays, Points
  <1>l. lk \in {NULL, c}
    BY Zenon DEF SpYield
  <1>2. SchedLeaves(c, p, "RUNNABLE", "spret")
    BY <1>0, <1>1, <1>l, SchedOnly, Zenon
  <1>3. /\ state' \in [Slots -> ProcStates] /\ mode' \in [CPUs -> Modes]
        /\ pc' \in [Slots -> Points]
        /\ state[p] = "RUNNING" /\ state'[p] = "RUNNABLE" /\ pc'[p] = "spret"
        /\ \A s \in Slots : s # p => state'[s] = state[s] /\ pc'[s] = pc[s]
        /\ \A d \in CPUs : d # c => /\ mode'[d] = mode[d] /\ mode[d] # "back"
                                    /\ cproc[d] # p
        /\ mode'[c] = "back" /\ cproc[c] = p /\ lk' = c
        /\ UNCHANGED <<pid, parent, np, nextpid, cproc, fault>>
    BY <1>1, <1>2, Zenon DEF SchedLeaves
  <1>4. /\ \A d \in CPUs : OnCpu(d) => cproc[d] \in Slots
        /\ \A d \in CPUs : d # c /\ mode[d] = "run" =>
             pc'[cproc[d]] = pc[cproc[d]]
        /\ CpuOwnership' /\ EmbryoOwned' /\ ParentLive' /\ PidUnique'
    BY <1>2, Zenon DEF SchedLeaves
  <1>5. /\ TypeOK /\ LockDiscipline /\ StateMatchesCode /\ CpuOwnership
        /\ NoLostExit /\ NoLostTick
    BY Zenon DEF IInv
  <1> USE <1>0, <1>3
  <1>6. TypeOK'
    BY <1>5, Zenon DEF TypeOK
  <1>7. LockDiscipline'
    BY <1>l, <1>4, <1>5, Distinct, SMTT(30) DEF LockDiscipline
  <1>8. StateMatchesCode'
    BY <1>4, <1>5, Distinct, SMTT(30) DEF StateMatchesCode, OnCpu
  <1>9. NoLostExit'
    BY <1>5 DEF NoLostExit, Children, ZombieChildren
  <1>10. NoLostTick'
    BY <1>5, ZenonT(40) DEF NoLostTick, StillWaiting
  <1> QED
    BY <1>4, <1>6, <1>7, <1>8, <1>9, <1>10, Zenon DEF IInv

\* wait() goes to sleep with the lock its scan was made under.
LEMMA WaitSleepPreserves ==
  ASSUME IInv, fault = "none", NEW c \in CPUs, NEW p \in Slots,
         WaitSleep(c, p)
  PROVE  IInv'
  <1>0. /\ p \in Slots /\ mode[c] = "run" /\ pc[p] = "scan"
        /\ chan' = [chan EXCEPT ![p] = p]
        /\ Children(p) # {} /\ ZombieChildren(p) = {} /\ ~killed[p]
        /\ UNCHANGED <<killed, prio, ticks0, n, ticks, start, tl>>
    BY Zenon DEF WaitSleep, Runs, Sched, localVars
  <1>1. /\ cproc[c] = p /\ mode[c] \in {"run", "post"}
        /\ "SLEEPING" \in {"RUNNABLE", "SLEEPING"} /\ "wait" \in Points
        /\ ForkStays(p, "SLEEPING", "wait")
        /\ state' = [state EXCEPT ![p] = "SLEEPING"]
        /\ pc' = [pc EXCEPT ![p] = "wait"]
        /\ mode' = [mode EXCEPT ![c] = "back"] /\ lk' = c
        /\ UNCHANGED <<pid, parent, np, nextpid, cproc, fault>>
    BY Zenon DEF WaitSleep, Runs, Goto, Sched, localVars, ForkStays, Points
  <1>l. lk \in {NULL, c}
    BY <1>0, <1>1, Zenon DEF IInv, LockDiscipline
  <1>2. SchedLeaves(c, p, "SLEEPING", "wait")
    BY <1>0, <1>1, <1>l, SchedOnly, Zenon
  <1>3. /\ state' \in [Slots -> ProcStates] /\ mode' \in [CPUs -> Modes]
        /\ pc' \in [Slots -> Points]
        /\ state[p] = "RUNNING" /\ state'[p] = "SLEEPING" /\ pc'[p] = "wait"
        /\ \A s \in Slots : s # p => state'[s] = state[s] /\ pc'[s] = pc[s]
        /\ \A d \in CPUs : d # c => /\ mode'[d] = mode[d] /\ mode[d] # "back"
                                    /\ cproc[d] # p
        /\ mode'[c] = "back" /\ cproc[c] = p /\ lk' = c
        /\ UNCHANGED <<pid, parent, np, nextpid, cproc, fault>>
    BY <1>1, <1>2, Zenon DEF SchedLeaves
  <1>4. /\ \A d \in CPUs : OnCpu(d) => cproc[d] \in Slots
        /\ \A d \in CPUs : d # c /\ mode[d] = "run" =>
             pc'[cproc[d]] = pc[cproc[d]]
        /\ CpuOwnership' /\ EmbryoOwned' /\ ParentLive' /\ PidUnique'
    BY <1>2, Zenon DEF SchedLeaves
  <1>5. /\ TypeOK /\ LockDiscipline /\ StateMatchesCode /\ CpuOwnership
        /\ NoLostExit /\ NoLostTick
    BY Zenon DEF IInv
  <1> USE <1>0, <1>3
  <1>6. TypeOK'
    BY <1>5, Zenon DEF TypeOK
  <1>7. LockDiscipline'
    BY <1>l, <1>4, <1>5, SMTT(30) DEF LockDiscipline
  <1>8. StateMatchesCode'
    <2>1. \A s \in Slots : chan'[s] = IF s = p THEN p ELSE chan[s]
      BY <1>5, Zenon DEF TypeOK
    <2> QED
      BY <1>4, <1>5, <2>1, Distinct DEF StateMatchesCode, OnCpu
  <1>9. NoLostExit'
    BY <1>5 DEF NoLostExit, Children, ZombieChildren
  <1>10. NoLostTick'
    BY <1>5, ZenonT(40) DEF NoLostTick, StillWaiting
  <1> QED
    BY <1>4, <1>6, <1>7, <1>8, <1>9, <1>10, Zenon DEF IInv

\* sleep() trades tickslock for ptable.lock.
LEMMA SleepEnterPreserves ==
  ASSUME IInv, fault = "none", NEW c \in CPUs, NEW p \in Slots,
         SleepEnter(c, p)
  PROVE  IInv'
  <1>0. /\ p \in Slots /\ mode[c] = "run" /\ pc[p] = "tgo"
        /\ chan' = [chan EXCEPT ![p] = TICKS] /\ tl' = NULL
        /\ UNCHANGED <<killed, prio, ticks0, n, ticks, start>>
    BY Zenon DEF SleepEnter, Runs, Sched, localVars
  <1>1. /\ cproc[c] = p /\ mode[c] \in {"run", "post"}
        /\ "SLEEPING" \in {"RUNNABLE", "SLEEPING"} /\ "tsleep" \in Points
        /\ ForkStays(p, "SLEEPING", "tsleep")
        /\ state' = [state EXCEPT ![p] = "SLEEPING"]
        /\ pc' = [pc EXCEPT ![p] = "tsleep"]
        /\ mode' = [mode EXCEPT ![c] = "back"] /\ lk' = c
        /\ UNCHANGED <<pid, parent, np, nextpid, cproc, fault>>
    BY Zenon DEF SleepEnter, Runs, Goto, Sched, localVars, ForkStays, Points
  <1>l. lk \in {NULL, c}
    BY Zenon DEF SleepEnter
  <1>2. SchedLeaves(c, p, "SLEEPING", "tsleep")
    BY <1>0, <1>1, <1>l, SchedOnly, Zenon
  <1>3. /\ state' \in [Slots -> ProcStates] /\ mode' \in [CPUs -> Modes]
        /\ pc' \in [Slots -> Points]
        /\ state[p] = "RUNNING" /\ state'[p] = "SLEEPING" /\ pc'[p] = "tsleep"
        /\ \A s \in Slots : s # p => state'[s] = state[s] /\ pc'[s] = pc[s]
        /\ \A d \in CPUs : d # c => /\ mode'[d] = mode[d] /\ mode[d] # "back"
                                    /\ cproc[d] # p
        /\ mode'[c] = "back" /\ cproc[c] = p /\ lk' = c
        /\ UNCHANGED <<pid, parent, np, nextpid, cproc, fault>>
    BY <1>1, <1>2, Zenon DEF SchedLeaves
  <1>4. /\ \A d \in CPUs : OnCpu(d) => cproc[d] \in Slots
        /\ \A d \in CPUs : d # c /\ mode[d] = "run" =>
             pc'[cproc[d]] = pc[cproc[d]]
        /\ CpuOwnership' /\ EmbryoOwned' /\ ParentLive' /\ PidUnique'
    BY <1>2, Zenon DEF SchedLeaves
  <1>5. /\ TypeOK /\ LockDiscipline /\ StateMatchesCode /\ CpuOwnership
        /\ NoLostExit /\ NoLostTick
    BY Zenon DEF IInv
  <1> USE <1>0, <1>3
  <1>6. TypeOK'
    BY <1>5, Zenon DEF TypeOK
  <1>7. LockDiscipline'
    BY <1>l, <1>4, <1>5, Distinct, SMTT(30) DEF LockDiscipline
  <1>8. StateMatchesCode'
    <2>1. \A s \in Slots : chan'[s] = IF s = p THEN TICKS ELSE chan[s]
      BY <1>5, Zenon DEF TypeOK
    <2> QED
      BY <1>4, <1>5, <2>1, Distinct DEF StateMatchesCode, OnCpu
  <1>9. NoLostExit'
    BY <1>5 DEF NoLostExit, Children, ZombieChildren
  <1>10. NoLostTick'
    BY <1>5, ZenonT(40) DEF NoLostTick, StillWaiting
  <1> QED
    BY <1>4, <1>6, <1>7, <1>8, <1>9, <1>10, Zenon DEF IInv

\* yield() hands ptable.lock over with the CPU.
LEMMA TimerYieldPreserves ==
  ASSUME IInv, fault = "none", NEW c \in CPUs,
         TimerYield(c)
  PROVE  IInv'
  <1> DEFINE p == cproc[c]
  <1>0. /\ p \in Slots /\ mode[c] = "post"
        /\ pc[p] \in {"user", "fork", "twake", "sp"}
        /\ UNCHANGED <<killed, prio, ticks0, n, ticks, start,
                       chan, tl>>
    BY DEF TimerYield, Sched, CpuOwnership, OnCpu, StateMatchesCode, TypeOK,
       IInv, localVars
  <1>1. /\ cproc[c] = p /\ mode[c] \in {"run", "post"}
        /\ "RUNNABLE" \in {"RUNNABLE", "SLEEPING"} /\ pc[p] \in Points
        /\ ForkStays(p, "RUNNABLE", pc[p])
        /\ state' = [state EXCEPT ![p] = "RUNNABLE"]
        /\ pc' = [pc EXCEPT ![p] = pc[p]]
        /\ mode' = [mode EXCEPT ![c] = "back"] /\ lk' = c
        /\ UNCHANGED <<pid, parent, np, nextpid, cproc, fault>>
    BY <1>0, Zenon DEF TimerYield, Sched, TypeOK, IInv, ForkStays, localVars
  <1>l. lk \in {NULL, c}
    BY Zenon DEF TimerYield
  <1>2. SchedLeaves(c, p, "RUNNABLE", pc[p])
    BY <1>0, <1>1, <1>l, SchedOnly, Zenon
  <1>3. /\ state' \in [Slots -> ProcStates] /\ mode' \in [CPUs -> Modes]
        /\ pc' \in [Slots -> Points]
        /\ state[p] = "RUNNING" /\ state'[p] = "RUNNABLE" /\ pc'[p] = pc[p]
        /\ \A s \in Slots : s # p => state'[s] = state[s] /\ pc'[s] = pc[s]
        /\ \A d \in CPUs : d # c => /\ mode'[d] = mode[d] /\ mode[d] # "back"
                                    /\ cproc[d] # p
        /\ mode'[c] = "back" /\ cproc[c] = p /\ lk' = c
        /\ UNCHANGED <<pid, parent, np, nextpid, cproc, fault>>
    BY <1>1, <1>2, Zenon DEF SchedLeaves
  <1>4. /\ \A d \in CPUs : OnCpu(d) => cproc[d] \in Slots
        /\ \A d \in CPUs : d # c /\ mode[d] = "run" =>
             pc'[cproc[d]] = pc[cproc[d]]
        /\ CpuOwnership' /\ EmbryoOwned' /\ ParentLive' /\ PidUnique'
    BY <1>2, Zenon DEF SchedLeaves
  <1>5. /\ TypeOK /\ LockDiscipline /\ StateMatchesCode /\ CpuOwnership
        /\ NoLostExit /\ NoLostTick
    BY Zenon DEF IInv
  <1> USE <1>0, <1>3
  <1>6. TypeOK'
    BY <1>5, Zenon DEF TypeOK
  <1>7. LockDiscipline'
    BY <1>l, <1>4, <1>5, Distinct, SMTT(30) DEF LockDiscipline
  <1>8. StateMatchesCode'
    BY <1>4, <1>5, Distinct, SMTT(30) DEF StateMatchesCode, OnCpu
  <1>9. NoLostExit'
    BY <1>5 DEF NoLostExit, Children, ZombieChildren
  <1>10. NoLostTick'
    BY <1>5, Zenon DEF NoLostTick, StillWaiting
  <1> QED
    BY <1>4, <1>6, <1>7, <1>8, <1>9, <1>10, Zenon DEF IInv

-----------------------------------------------------------------------------
(* scheduler().                                                            *)

\* scheduler() up to swtch(): the chosen process was on no CPU, and whoever
\* still holds ptable.lock for its own stack keeps this step from happening.
LEMMA DispatchPreserves ==
  ASSUME IInv, fault = "none", NEW c \in CPUs, NEW p \in Slots,
         Dispatch(c, p)
  PROVE  IInv'
  <1>inv. /\ TypeOK /\ CpuOwnership /\ LockDiscipline /\ StateMatchesCode
          /\ EmbryoOwned /\ ParentLive /\ PidUnique /\ NoLostExit /\ NoLostTick
    BY Zenon DEF IInv
  <1> USE <1>inv DEF Dispatch, procVars, localVars, cpuVars
  <1>1. TypeOK'
    BY Zenon DEF TypeOK, IsPicked, plist, Runnable, ResumePoint, ResumeLock,
       Goto, ProcStates, Points, Modes, Faults
  <1>2. CpuOwnership'
    <2>1. state[p] = "RUNNABLE"
      BY Zenon DEF IsPicked, plist, Runnable
    <2>2. \A d \in CPUs : mode[d] # "back" /\ cproc[d] # p
      BY <2>1, Distinct DEF TypeOK, Modes, CpuOwnership, LockDiscipline, OnCpu
    <2>3. /\ mode[c] = "sched" /\ cproc[c] = NULL
          /\ state' = [state EXCEPT ![p] = "RUNNING"]
          /\ mode' = [mode EXCEPT ![c] = "run"]
          /\ cproc' = [cproc EXCEPT ![c] = p]
      BY Zenon DEF CpuOwnership
    <2> HIDE DEF Dispatch
    <2>4. \A d, e \in CPUs : d # e /\ cproc'[d] # NULL => cproc'[d] # cproc'[e]
      BY <2>2, <2>3, SMTT(30) DEF CpuOwnership, TypeOK
    <2>5. \A s \in Slots : state'[s] = "RUNNING" =>
            \E d \in CPUs : OnCpu(d)' /\ cproc'[d] = s
      BY <2>2, <2>3 DEF CpuOwnership, OnCpu, TypeOK
    <2>6. \A d \in CPUs :
            /\ mode'[d] \in {"run", "post", "back"} => cproc'[d] # NULL
            /\ mode'[d] = "sched" => cproc'[d] = NULL
            /\ mode'[d] = "back" =>
                  state'[cproc'[d]] \in {"RUNNABLE", "SLEEPING", "ZOMBIE"}
            /\ OnCpu(d)' => state'[cproc'[d]] = "RUNNING"
      BY <2>2, <2>3, SMTT(30) DEF CpuOwnership, OnCpu, TypeOK
    <2> QED
      BY <2>4, <2>5, <2>6, Zenon DEF CpuOwnership
  <1>3. LockDiscipline'
    BY Distinct, SMTT(30) DEF LockDiscipline, TypeOK, CpuOwnership, OnCpu,
       StateMatchesCode, IsPicked, plist, Runnable, ResumePoint, ResumeLock,
       Goto
  <1>4. StateMatchesCode'
    BY DEF StateMatchesCode, OnCpu, TypeOK, CpuOwnership, LockDiscipline,
       IsPicked, plist, Runnable, ResumePoint, ResumeLock, Goto
  <1>5. EmbryoOwned'
    BY DEF EmbryoOwned, Live, TypeOK, IsPicked, plist, Runnable, ResumePoint,
       ResumeLock, Goto
  <1>6. ParentLive'
    BY DEF ParentLive, Live, TypeOK, IsPicked, plist, Runnable, ResumePoint,
       ResumeLock, Goto
  <1>7. PidUnique'
    BY Zenon DEF PidUnique, TypeOK, IsPicked, plist, Runnable, ResumePoint,
       ResumeLock, Goto
  <1>8. NoLostExit'
    BY DEF NoLostExit, Children, ZombieChildren, TypeOK, StateMatchesCode,
       OnCpu, CpuOwnership, IsPicked, plist, Runnable, ResumePoint,
       ResumeLock, Goto
  <1>9. NoLostTick'
    BY DEF NoLostTick, StillWaiting, TypeOK, StateMatchesCode, OnCpu,
       CpuOwnership, IsPicked, plist, Runnable, ResumePoint, ResumeLock, Goto
  <1> QED
    BY <1>1, <1>2, <1>3, <1>4, <1>5, <1>6, <1>7, <1>8, <1>9, Zenon DEF IInv

\* A fault of scheduler() changes nothing but the lock.
LEMMA SchedulerStops ==
  ASSUME IInv, NEW c \in CPUs, lk' = c, fault' \in {"divide", "plist"},
         UNCHANGED <<state, pid, parent, chan, killed, prio, pc, np, ticks0, n,
                     nextpid, ticks, tl, mode, cproc, start>>
  PROVE  IInv'
  <1>1. TypeOK'
    BY Zenon DEF IInv, TypeOK, Faults
  <1>2. LockDiscipline'
    BY Zenon DEF IInv, LockDiscipline
  <1>3. CpuOwnership' /\ StateMatchesCode'
    <2>1. \A d \in CPUs : OnCpu(d) => cproc[d] \in Slots
      BY Zenon DEF IInv, TypeOK, OnCpu
    <2>2. \A d \in CPUs : mode[d] = "back" =>
            state'[cproc[d]] \in {"RUNNABLE", "SLEEPING", "ZOMBIE"}
      BY Zenon DEF IInv, CpuOwnership
    <2>3. CpuOwnership'
      BY <2>1, <2>2, OwnershipKept, Zenon DEF IInv
    <2>4. StateMatchesCode'
      BY <2>1, PlacesKept, Zenon DEF IInv
    <2> QED
      BY <2>3, <2>4, Zenon
  <1>4. EmbryoOwned' /\ ParentLive' /\ PidUnique'
    BY DEF IInv, EmbryoOwned, Live, ParentLive, PidUnique
  <1>5. NoLostExit' /\ NoLostTick'
    BY Zenon DEF IInv, NoLostExit, Children, ZombieChildren, NoLostTick,
       StillWaiting
  <1> QED
    BY <1>1, <1>2, <1>3, <1>4, <1>5, Zenon DEF IInv

LEMMA DispatchDividePreserves ==
  ASSUME IInv, fault = "none", NEW c \in CPUs,
         DispatchDivide(c)
  PROVE  IInv'
  BY SchedulerStops, Zenon DEF DispatchDivide, procVars, localVars, cpuVars

LEMMA DispatchOverrunPreserves ==
  ASSUME IInv, fault = "none", NEW c \in CPUs,
         DispatchOverrun(c)
  PROVE  IInv'
  BY SchedulerStops, Zenon DEF DispatchOverrun, procVars, localVars, cpuVars

\* scheduler() after swtch(): only now is the process free for other CPUs.
LEMMA BackPreserves ==
  ASSUME IInv, fault = "none", NEW c \in CPUs,
         Back(c)
  PROVE  IInv'
  <1> DEFINE p == cproc[c]
  <1>1. TypeOK /\ CpuOwnership /\ LockDiscipline /\ StateMatchesCode
    BY Zenon DEF IInv
  <1>2. p \in Slots /\ mode[c] = "back"
    BY <1>1 DEF TypeOK, CpuOwnership, Back
  <1>3. UNCHANGED <<state, pid, parent, chan, killed, pc, np, ticks0, n,
                    nextpid, ticks, tl, fault>> /\ lk' = NULL
    BY Zenon DEF Back, localVars
  <1>4. /\ mode'[c] = "sched" /\ cproc'[c] = NULL
        /\ \A d \in CPUs : d # c => mode'[d] = mode[d] /\ cproc'[d] = cproc[d]
    BY <1>1, Zenon DEF Back, TypeOK
  <1>5. TypeOK'
    <2>1. prio' \in [Slots -> Nat]
      <3>1. prio[p] \in Nat
        BY <1>1, <1>2, Zenon DEF TypeOK
      <3>2. Adjusted(p, c) \in Nat
        BY <3>1 DEF Adjusted
      <3> QED
        BY <1>1, <1>2, <3>2, Zenon DEF Back, TypeOK
    <2>2. mode' \in [CPUs -> Modes] /\ cproc' \in [CPUs -> Slots \cup {NULL}]
      BY <1>1, Zenon DEF Back, TypeOK, Modes
    <2>3. start' \in [CPUs -> 0 .. TICKMOD - 1]
      BY <1>1, ProcAssumption DEF Back, TypeOK
    <2> QED
      BY <1>1, <1>3, <2>1, <2>2, <2>3, Zenon DEF TypeOK
  <1>6. \A d \in CPUs : OnCpu(d)' <=> OnCpu(d)
    BY <1>2, <1>4, Zenon DEF OnCpu
  <1>7. \A d \in CPUs : OnCpu(d) => d # c /\ cproc[d] # p
    BY <1>1, <1>2, Zenon DEF OnCpu, CpuOwnership
  <1> HIDE DEF p
  <1>8. CpuOwnership'
    BY <1>1, <1>3, <1>4, <1>6, <1>7 DEF CpuOwnership
  <1>9. LockDiscipline'
    BY <1>1, <1>2, <1>3, <1>4, Distinct DEF LockDiscipline
  <1>10. StateMatchesCode'
    BY <1>1, <1>3, <1>4, <1>6, <1>7, Zenon DEF StateMatchesCode
  <1>11. NoLostTick'
    BY <1>2, <1>3, <1>4, Zenon DEF IInv, NoLostTick, StillWaiting
  <1>12. EmbryoOwned' /\ ParentLive' /\ PidUnique'
    BY <1>3, ZenonT(40) DEF IInv, EmbryoOwned, Live, ParentLive, PidUnique
  <1>13. NoLostExit'
    BY <1>3, Zenon DEF IInv, NoLostExit, Children, ZombieChildren
  <1> QED
    BY <1>5, <1>8, <1>9, <1>10, <1>11, <1>12, <1>13, Zenon DEF IInv


-----------------------------------------------------------------------------
(* The timer interrupt, kill() and wait().                                 *)

\* The tick is counted under tickslock, so no sys_sleep() is past its test.
LEMMA TickPreserves ==
  ASSUME IInv, fault = "none", NEW c \in CPUs,
         Tick(c)
  PROVE  IInv'
  <1>inv. /\ TypeOK /\ CpuOwnership /\ LockDiscipline /\ StateMatchesCode
          /\ EmbryoOwned /\ ParentLive /\ PidUnique /\ NoLostExit /\ NoLostTick
    BY Zenon DEF IInv
  <1> USE <1>inv DEF Tick, procVars, localVars, cpuVars
  <1>1. TypeOK'
    BY ProcAssumption DEF TypeOK, Interruptible, ProcStates, Points, Modes,
       Faults
  <1>2. CpuOwnership'
    BY DEF CpuOwnership, OnCpu, TypeOK, LockDiscipline, StateMatchesCode,
       Interruptible
  <1>3. LockDiscipline'
    BY Distinct DEF LockDiscipline, TypeOK, CpuOwnership, OnCpu,
       StateMatchesCode, Interruptible
  <1>4. StateMatchesCode'
    <2>1. ASSUME cproc[c] # NULL
          PROVE  pc[cproc[c]] \in {"user", "fork", "twake", "sp"}
      <3>1. /\ mode[c] = "run" /\ cproc[c] \in Slots
            /\ state[cproc[c]] = "RUNNING"
        BY <2>1 DEF CpuOwnership, OnCpu, TypeOK
      <3>2. pc[cproc[c]] \notin {"scan", "tchk", "tgo"}
        BY <3>1, Zenon DEF LockDiscipline, Interruptible
      <3> QED
        BY <3>1, <3>2, Zenon DEF StateMatchesCode
    <2> QED
      BY <2>1, Zenon DEF StateMatchesCode, OnCpu, TypeOK
  <1>5. NoLostTick'
    BY Zenon DEF NoLostTick, StillWaiting, TypeOK, StateMatchesCode, OnCpu,
       CpuOwnership, Interruptible
  <1>6. EmbryoOwned' /\ ParentLive' /\ PidUnique' /\ NoLostExit'
    <2>1. EmbryoOwned'
      BY ZenonT(40) DEF EmbryoOwned, Live
    <2>2. ParentLive' /\ PidUnique'
      BY Zenon DEF ParentLive, Live, PidUnique
    <2>3. NoLostExit'
      BY Zenon DEF NoLostExit, Children, ZombieChildren
    <2> QED
      BY <2>1, <2>2, <2>3, Zenon
  <1> QED
    BY <1>1, <1>2, <1>3, <1>4, <1>5, <1>6, Zenon DEF IInv

\* wakeup(&ticks) leaves nobody asleep on &ticks.
LEMMA TickWakeupPreserves ==
  ASSUME IInv, fault = "none", NEW c \in CPUs,
         TickWakeup(c)
  PROVE  IInv'
  <1>inv. /\ TypeOK /\ CpuOwnership /\ LockDiscipline /\ StateMatchesCode
          /\ EmbryoOwned /\ ParentLive /\ PidUnique /\ NoLostExit /\ NoLostTick
    BY Zenon DEF IInv
  <1> USE <1>inv DEF TickWakeup, procVars, localVars, cpuVars
  <1>1. TypeOK'
    BY Zenon DEF TypeOK, Wakeup1, ProcStates, Points, Modes, Faults
  <1>2. CpuOwnership'
    BY SMTT(30) DEF CpuOwnership, OnCpu, TypeOK, LockDiscipline,
       StateMatchesCode, Wakeup1
  <1>3. LockDiscipline'
    BY Distinct, SMTT(30) DEF LockDiscipline, TypeOK, CpuOwnership, OnCpu,
       StateMatchesCode, Wakeup1
  <1>4. StateMatchesCode'
    BY Distinct, SMTT(30) DEF StateMatchesCode, OnCpu, TypeOK, CpuOwnership,
       LockDiscipline, Wakeup1
  <1>5. EmbryoOwned'
    BY DEF EmbryoOwned, Live, TypeOK, Wakeup1
  <1>6. ParentLive'
    BY Zenon DEF ParentLive, Live, TypeOK, Wakeup1
  <1>7. PidUnique'
    BY Zenon DEF PidUnique, TypeOK, Wakeup1
  <1>8. NoLostExit'
    BY Zenon DEF NoLostExit, Children, ZombieChildren, TypeOK, Wakeup1
  <1>9. NoLostTick'
    <2>1. tl = c
      BY Zenon DEF LockDiscipline
    <2>2. ASSUME NEW s \in Slots, state'[s] = "SLEEPING", pc[s] = "tsleep"
          PROVE  FALSE
      BY <2>2, Zenon DEF Wakeup1, StateMatchesCode, TypeOK
    <2>3. ASSUME NEW s \in Slots, state'[s] = "RUNNING", pc[s] = "tgo"
          PROVE  FALSE
      <3>1. state[s] = "RUNNING"
        BY <2>3, Zenon DEF Wakeup1, TypeOK
      <3>2. PICK d \in CPUs : OnCpu(d) /\ cproc[d] = s
        BY <3>1, Zenon DEF CpuOwnership
      <3>3. mode[d] = "run"
        BY <2>3, <3>2, Zenon DEF StateMatchesCode
      <3> QED
        BY <2>1, <2>3, <3>2, <3>3, Zenon DEF LockDiscipline
    <2> QED
      BY <2>2, <2>3, Zenon DEF NoLostTick
  <1> QED
    BY <1>1, <1>2, <1>3, <1>4, <1>5, <1>6, <1>7, <1>8, <1>9, Zenon DEF IInv

\* Interrupts are off under a spinlock, so the process holds none.
LEMMA TimerOtherPreserves ==
  ASSUME IInv, fault = "none", NEW c \in CPUs,
         TimerOther(c)
  PROVE  IInv'
  <1>inv. /\ TypeOK /\ CpuOwnership /\ LockDiscipline /\ StateMatchesCode
          /\ EmbryoOwned /\ ParentLive /\ PidUnique /\ NoLostExit /\ NoLostTick
    BY Zenon DEF IInv
  <1> USE <1>inv DEF TimerOther, procVars, localVars, cpuVars
  <1>1. TypeOK'
    BY Zenon DEF TypeOK, Interruptible, ProcStates, Points, Modes, Faults
  <1>2. CpuOwnership'
    BY SMTT(30) DEF CpuOwnership, OnCpu, TypeOK, LockDiscipline,
       StateMatchesCode, Interruptible
  <1>3. LockDiscipline'
    BY DEF LockDiscipline, TypeOK, CpuOwnership, OnCpu, StateMatchesCode,
       Interruptible
  <1>4. StateMatchesCode'
    <2>1. ASSUME cproc[c] # NULL
          PROVE  pc[cproc[c]] \in {"user", "fork", "twake", "sp"}
      <3>1. /\ mode[c] = "run" /\ cproc[c] \in Slots
            /\ state[cproc[c]] = "RUNNING"
        BY <2>1 DEF CpuOwnership, OnCpu, TypeOK
      <3>2. pc[cproc[c]] \notin {"scan", "tchk", "tgo"}
        BY <3>1, Zenon DEF LockDiscipline, Interruptible
      <3> QED
        BY <3>1, <3>2, Zenon DEF StateMatchesCode
    <2> QED
      BY <2>1, Zenon DEF StateMatchesCode, OnCpu, TypeOK
  <1>5. NoLostTick'
    BY DEF NoLostTick, StillWaiting, TypeOK, StateMatchesCode, OnCpu,
       CpuOwnership, Interruptible
  <1>6. EmbryoOwned' /\ ParentLive' /\ PidUnique' /\ NoLostExit'
    <2>1. EmbryoOwned'
      BY ZenonT(40) DEF EmbryoOwned, Live
    <2>2. ParentLive' /\ PidUnique'
      BY Zenon DEF ParentLive, Live, PidUnique
    <2>3. NoLostExit'
      BY Zenon DEF NoLostExit, Children, ZombieChildren
    <2> QED
      BY <2>1, <2>2, <2>3, Zenon
  <1> QED
    BY <1>1, <1>2, <1>3, <1>4, <1>5, <1>6, Zenon DEF IInv

\* init exiting stops the kernel.
LEMMA ExitInitPreserves ==
  ASSUME IInv, fault = "none", NEW c \in CPUs,
         ExitInit(c)
  PROVE  IInv'
  <1>1. fault' \in Faults /\ fault' # "none"
    BY Zenon DEF ExitInit, Faults
  <1>2. state' = state /\ mode' = mode /\ cproc' = cproc /\ pc' = pc
    BY Zenon DEF ExitInit, procVars, cpuVars
  <1>3. chan' = chan /\ np' = np /\ parent' = parent /\ pid' = pid
    BY Zenon DEF ExitInit, procVars, localVars
  <1>4. lk' = lk /\ tl' = tl /\ ticks' = ticks /\ ticks0' = ticks0 /\ n' = n
    BY Zenon DEF ExitInit, localVars
  <1>5. /\ killed' = killed /\ prio' = prio
        /\ start' = start /\ nextpid' = nextpid
    BY Zenon DEF ExitInit, procVars, cpuVars
  <1>inv. /\ TypeOK /\ CpuOwnership /\ LockDiscipline /\ StateMatchesCode
          /\ EmbryoOwned /\ ParentLive /\ PidUnique /\ NoLostExit /\ NoLostTick
    BY Zenon DEF IInv
  <1> USE <1>inv
  <1>6. TypeOK'
    BY <1>1, <1>2, <1>3, <1>4, <1>5, ZenonT(40) DEF TypeOK
  <1>7. CpuOwnership'
    BY <1>2 DEF CpuOwnership, OnCpu
  <1>8. LockDiscipline'
    BY <1>1, <1>2, <1>4, Zenon DEF LockDiscipline
  <1>9. StateMatchesCode'
    BY <1>2, <1>3, Zenon DEF StateMatchesCode, OnCpu
  <1>10. EmbryoOwned'
    BY <1>2, <1>3, Zenon DEF EmbryoOwned, Live
  <1>11. ParentLive' /\ PidUnique'
    BY <1>2, <1>3, <1>5, Zenon DEF Live, ParentLive, PidUnique
  <1>12. NoLostExit'
    BY <1>2, <1>3, <1>5, Zenon DEF NoLostExit, Children, ZombieChildren
  <1>13. NoLostTick'
    BY <1>2, <1>4, Zenon DEF NoLostTick, StillWaiting
  <1> QED
    BY <1>6, <1>7, <1>8, <1>9, <1>10, <1>11, <1>12, <1>13, Zenon DEF IInv

\* kill() marks a process and wakes it if it sleeps.
LEMMA KillPreserves ==
  ASSUME IInv, fault = "none", NEW c \in CPUs, NEW p \in Slots,
         NEW k \in KillPids, NEW s \in Slots,
         Kill(c, p, k, s)
  PROVE  IInv'
  <1>1. /\ killed' = [killed EXCEPT ![s] = TRUE]
        /\ state' = [state EXCEPT ![s] = IF @ = "SLEEPING" THEN "RUNNABLE"
                                         ELSE @]
    BY Zenon DEF Kill
  <1>2. /\ mode[c] = "run" /\ lk = NULL
        /\ UNCHANGED <<pid, parent, chan, prio, pc, np, ticks0, n, nextpid,
                       ticks, lk, tl, mode, cproc, start, fault>>
    BY Zenon DEF Kill, MayCall, Runs, localVars, cpuVars
  <1>inv. /\ TypeOK /\ CpuOwnership /\ LockDiscipline /\ StateMatchesCode
          /\ EmbryoOwned /\ ParentLive /\ PidUnique /\ NoLostExit /\ NoLostTick
    BY Zenon DEF IInv
  <1> USE <1>inv
  <1>3. /\ state' \in [Slots -> ProcStates] /\ killed' \in [Slots -> BOOLEAN]
        /\ \A t \in Slots : \/ state'[t] = state[t]
                             \/ /\ state[t] = "SLEEPING"
                                /\ state'[t] = "RUNNABLE"
        /\ \A t \in Slots : state'[t] = "SLEEPING" => killed'[t] = killed[t]
    BY <1>1, Zenon DEF TypeOK, ProcStates
  <1> USE <1>2, <1>3
  <1>l. \A t \in Slots :
          /\ Live(t)' <=> Live(t)
          /\ state'[t] = "EMBRYO" <=> state[t] = "EMBRYO"
          /\ state'[t] = "ZOMBIE" <=> state[t] = "ZOMBIE"
          /\ state[t] \in {"RUNNABLE", "RUNNING"} =>
               state'[t] \in {"RUNNABLE", "RUNNING"}
    BY Zenon DEF Live
  <1>4. TypeOK'
    BY Zenon DEF TypeOK
  <1>5. CpuOwnership'
    <2>1. \A t \in Slots : state'[t] = "RUNNING" <=> state[t] = "RUNNING"
      BY Zenon
    <2>2. \A d \in CPUs : cproc[d] # NULL => cproc[d] \in Slots
      BY Zenon DEF TypeOK
    <2>3. \A d \in CPUs : OnCpu(d) => cproc[d] \in Slots
      BY <2>2, Zenon DEF OnCpu
    <2>4. \A d \in CPUs : mode[d] = "back" =>
            state'[cproc[d]] \in {"RUNNABLE", "SLEEPING", "ZOMBIE"}
      BY <2>2, Zenon DEF CpuOwnership
    <2> QED
      BY <2>1, <2>3, <2>4, OwnershipKept, Zenon
  <1>6. LockDiscipline'
    BY Zenon DEF LockDiscipline
  <1>7. StateMatchesCode'
    BY Distinct DEF StateMatchesCode, OnCpu
  <1>8. EmbryoOwned'
    <2>1. \A t \in Slots : np[t] # NULL => np[t] \in Slots
      BY Zenon DEF TypeOK
    <2> QED
      <3>1. \A t \in Slots : np'[t] # NULL =>
              /\ state'[t] \in {"RUNNABLE", "RUNNING"} /\ pc'[t] = "fork"
              /\ state'[np'[t]] = "EMBRYO"
        BY <2>1, <1>l, Zenon DEF EmbryoOwned
      <3>2. \A t \in Slots : Live(t)' /\ pc'[t] = "fork" => np'[t] # NULL
        BY <1>l, Zenon DEF EmbryoOwned
      <3>3. \A t \in Slots : state'[t] = "EMBRYO" =>
              \E u \in Slots : np'[u] = t
        <4>1. \A t \in Slots : state[t] = "EMBRYO" =>
                \E u \in Slots : np[u] = t
          BY <1>inv, Zenon DEF EmbryoOwned
        <4>2. np' = np
          BY <1>2, Zenon
        <4> QED
          BY ONLY <1>l, <4>1, <4>2, Zenon
      <3>4. \A t, u \in Slots : t # u /\ np'[t] # NULL => np'[t] # np'[u]
        BY ZenonT(40) DEF EmbryoOwned
      <3> QED
        BY <3>1, <3>2, <3>3, <3>4, Zenon DEF EmbryoOwned
  <1>9. ParentLive'
    BY <1>l, ZenonT(40) DEF ParentLive
  <1>10. PidUnique'
    BY ZenonT(40) DEF PidUnique
  <1>11. NoLostExit'
    <2>1. \A t \in Slots : /\ Children(t)' = Children(t)
                            /\ ZombieChildren(t)' = ZombieChildren(t)
      BY <1>l, Zenon DEF Children, ZombieChildren
    <2> QED
      BY <2>1, Zenon DEF NoLostExit
  <1>12. NoLostTick'
    BY Zenon DEF NoLostTick, StillWaiting
  <1> QED
    BY <1>4, <1>5, <1>6, <1>7, <1>8, <1>9, <1>10, <1>11, <1>12, Zenon DEF IInv

\* wait() frees a zombie, which has no children left.
LEMMA WaitReapPreserves ==
  ASSUME IInv, fault = "none", NEW c \in CPUs, NEW p \in Slots,
         NEW s \in Slots,
         WaitReap(c, p, s)
  PROVE  IInv'
  <1>1. /\ pid' = [pid EXCEPT ![s] = 0]
        /\ parent' = [parent EXCEPT ![s] = NULL]
        /\ killed' = [killed EXCEPT ![s] = FALSE]
        /\ state' = [state EXCEPT ![s] = "UNUSED"]
        /\ prio' = [prio EXCEPT ![s] = 0]
        /\ pc' = [pc EXCEPT ![p] = "user"]
    BY Zenon DEF WaitReap, Goto
  <1>2. /\ mode[c] = "run" /\ cproc[c] = p /\ pc[p] = "scan" /\ lk' = NULL
        /\ parent[s] = p /\ state[s] = "ZOMBIE"
        /\ UNCHANGED <<chan, np, ticks0, n, nextpid, ticks, tl, mode, cproc,
                       start, fault>>
    BY Zenon DEF WaitReap, Runs, IsFirst, ZombieChildren, Children, localVars,
       cpuVars
  <1>3. state[p] = "RUNNING" /\ \A d \in CPUs : d # c => cproc[d] # p
    BY <1>2, Owner, Zenon
  <1>inv. /\ TypeOK /\ CpuOwnership /\ LockDiscipline /\ StateMatchesCode
          /\ EmbryoOwned /\ ParentLive /\ PidUnique /\ NoLostExit /\ NoLostTick
    BY Zenon DEF IInv
  <1> USE <1>inv
  <1>4. TypeOK'
    BY <1>1, <1>2, Zenon DEF TypeOK, ProcStates, Points
  <1>5. /\ pid'[s] = 0 /\ parent'[s] = NULL /\ state'[s] = "UNUSED"
        /\ \A t \in Slots : t # s => /\ pid'[t] = pid[t]
                                     /\ state'[t] = state[t]
                                     /\ parent'[t] = parent[t]
        /\ pc'[p] = "user" /\ \A t \in Slots : t # p => pc'[t] = pc[t]
        /\ s # p
    BY <1>1, <1>2, <1>3, Zenon DEF TypeOK
  <1>6. \A d \in CPUs : OnCpu(d) \/ mode[d] = "run" => cproc[d] \in Slots \ {s}
    BY <1>2, Elsewhere, Zenon
  <1>h. lk = c
    BY <1>2, Zenon DEF LockDiscipline
  <1>7. \A d \in CPUs : mode[d] # "back"
    BY <1>2, <1>h, Zenon DEF LockDiscipline
  <1>8. s # initproc /\ \A t \in Slots : parent[t] # s
    <2>1. s # initproc
      BY <1>2, Zenon DEF StateMatchesCode
    <2> QED
      BY <1>2, <2>1, Distinct DEF ParentLive, Live
  <1> USE <1>2, <1>3, <1>5
  <1>9. CpuOwnership'
    <2>1. \A t \in Slots : state'[t] = "RUNNING" <=> state[t] = "RUNNING"
      BY Zenon
    <2> QED
      BY <1>6, <1>7, <2>1, OwnershipKept, Zenon
  <1>10. LockDiscipline'
    <2>1. \A d \in CPUs : d # c => lk # d
      BY <1>h, Zenon
    <2>2. \A d \in CPUs : d # c /\ mode[d] = "run" =>
            pc'[cproc[d]] = pc[cproc[d]] /\ pc[cproc[d]] # "scan"
      BY <1>6, <2>1, Zenon DEF LockDiscipline
    <2> SUFFICES ASSUME NEW d \in CPUs
                 PROVE  /\ mode[d] = "run" => pc'[cproc[d]] # "scan"
                        /\ tl = d <=>
                             \/ mode[d] = "tick"
                             \/ /\ mode[d] = "run"
                                /\ pc'[cproc[d]] \in {"tchk", "tgo"}
      BY <1>7, Distinct, ZenonT(40) DEF LockDiscipline
    <2>3. CASE d = c
      <3>1. pc'[cproc[d]] = "user" /\ pc[cproc[d]] = "scan" /\ mode[d] = "run"
        BY <2>3, Zenon
      <3> QED
        BY <3>1, Zenon DEF LockDiscipline
    <2>4. CASE d # c
      <3>1. mode[d] = "run" =>
              /\ pc'[cproc[d]] # "scan"
              /\ pc'[cproc[d]] \in {"tchk", "tgo"} <=>
                   pc[cproc[d]] \in {"tchk", "tgo"}
        BY <2>2, <2>4, Zenon
      <3> QED
        BY <3>1, Zenon DEF LockDiscipline
    <2> QED
      BY <2>3, <2>4, Zenon
  <1>11. StateMatchesCode'
    <2>1. \A t \in Slots :
            \/ state'[t] = state[t] /\ pc'[t] = pc[t]
            \/ state'[t] \in {"UNUSED", "EMBRYO"} /\ t # initproc
            \/ /\ state'[t] \in {"RUNNABLE", "RUNNING"}
               /\ pc'[t] \in {"user", "fork"}
      BY <1>8, Zenon
    <2>2. \A d \in CPUs : OnCpu(d) =>
            /\ cproc[d] \in Slots
            /\ \/ pc'[cproc[d]] = pc[cproc[d]]
               \/ pc'[cproc[d]] \in {"user", "fork"}
      BY <1>6, Zenon
    <2> QED
      BY <2>1, <2>2, PlacesKept, Zenon
  <1>12. EmbryoOwned'
    <2>1. \A t \in Slots : np[t] # NULL => np[t] \in Slots
      BY Zenon DEF TypeOK
    <2>2. \A t \in Slots : np[t] # NULL => t # p /\ t # s /\ np[t] # s
      BY Zenon DEF EmbryoOwned
    <2>3. \A t \in Slots : np'[t] # NULL =>
            /\ state'[t] \in {"RUNNABLE", "RUNNING"} /\ pc'[t] = "fork"
            /\ state'[np'[t]] = "EMBRYO"
      <3> SUFFICES ASSUME NEW t \in Slots, np[t] # NULL
                   PROVE  /\ state'[t] \in {"RUNNABLE", "RUNNING"}
                          /\ pc'[t] = "fork" /\ state'[np[t]] = "EMBRYO"
        BY Zenon
      <3>1. /\ state[t] \in {"RUNNABLE", "RUNNING"} /\ pc[t] = "fork"
            /\ state[np[t]] = "EMBRYO"
        BY Zenon DEF EmbryoOwned
      <3> QED
        BY <2>1, <2>2, <3>1, Zenon
    <2>4. \A t \in Slots : Live(t)' /\ pc'[t] = "fork" => np'[t] # NULL
      <3>1. \A t \in Slots : Live(t)' /\ pc'[t] = "fork" =>
              Live(t) /\ pc[t] = "fork"
        BY Zenon DEF Live
      <3> QED
        BY <3>1, Zenon DEF EmbryoOwned
    <2>5. \A t, u \in Slots : t # u /\ np'[t] # NULL => np'[t] # np'[u]
      BY ZenonT(40) DEF EmbryoOwned
    <2>6. \A e \in Slots : state'[e] = "EMBRYO" => \E t \in Slots : np'[t] = e
      <3>1. \A e \in Slots : state'[e] = "EMBRYO" => state[e] = "EMBRYO"
        BY Zenon
      <3>2. np' = np
        BY Zenon
      <3> HIDE <1>2, <1>3, <1>5
      <3> QED
        BY <3>1, <3>2, Zenon DEF EmbryoOwned
    <2> QED
      BY <2>3, <2>4, <2>5, <2>6, Zenon DEF EmbryoOwned
  <1>13. ParentLive'
    <2>1. \A t \in Slots : Live(t)' <=> t # s /\ Live(t)
      BY Zenon DEF Live
    <2>2. ~Live(s)'
      BY Zenon DEF Live
    <2>3. \A t \in Slots : t # s /\ Live(t) /\ t # initproc =>
            /\ parent'[t] = parent[t] /\ parent[t] \in Slots \ {t}
            /\ state[parent[t]] \notin {"UNUSED", "EMBRYO", "ZOMBIE"}
            /\ parent[t] # s
      BY <1>8, Zenon DEF ParentLive, Live
    <2>4. \A t \in Slots : t # s /\ Live(t) /\ t # initproc =>
            /\ parent'[t] \in Slots \ {t}
            /\ state'[parent'[t]] \notin {"UNUSED", "EMBRYO", "ZOMBIE"}
      <3> SUFFICES ASSUME NEW t \in Slots, t # s, Live(t), t # initproc
                   PROVE  /\ parent'[t] \in Slots \ {t}
                          /\ state'[parent'[t]] \notin
                               {"UNUSED", "EMBRYO", "ZOMBIE"}
        BY Zenon
      <3>1. PICK r \in Slots \ {t} :
              /\ r = parent'[t] /\ r # s
              /\ state[r] \notin {"UNUSED", "EMBRYO", "ZOMBIE"}
        BY <2>3, Zenon
      <3> QED
        BY <3>1, Zenon
    <2>5. \A t \in Slots : t # initproc /\ ~Live(t)' => parent'[t] = NULL
      <3> SUFFICES ASSUME NEW t \in Slots, t # initproc, ~Live(t)', t # s
                   PROVE  parent'[t] = NULL
        BY Zenon
      <3>1. ~Live(t) /\ parent'[t] = parent[t]
        BY <2>1, Zenon
      <3>2. parent[t] = NULL
        BY <3>1, Zenon DEF ParentLive
      <3> QED
        BY <3>1, <3>2, Zenon
    <2>6. parent'[initproc] = NULL
      BY <1>8, Distinct, Zenon DEF ParentLive
    <2> QED
      <3>1. \A t \in Slots : t # initproc /\ Live(t)' =>
              /\ parent'[t] \in Slots \ {t}
              /\ state'[parent'[t]] \notin {"UNUSED", "EMBRYO", "ZOMBIE"}
        BY <2>1, <2>4, Zenon
      <3> HIDE <1>inv, <1>2, <1>3, <1>5
      <3> QED
        BY <2>5, <2>6, <3>1, Zenon DEF ParentLive, Live
  <1>14. PidUnique'
    <2>1. 0 < nextpid
      BY DEF PidUnique, TypeOK
    <2>2. \A t \in Slots : pid'[t] < nextpid'
      BY <2>1, Zenon DEF PidUnique
    <2>3. \A t \in Slots : state'[t] # "UNUSED" =>
            state[t] # "UNUSED" /\ pid'[t] = pid[t]
      BY Zenon
    <2>4. \A t, u \in Slots :
            t # u /\ state'[t] # "UNUSED" /\ state'[u] # "UNUSED" =>
              pid'[t] # pid'[u]
      <3> HIDE <1>2, <1>3, <1>5
      <3> QED
        BY <2>3, Zenon DEF PidUnique
    <2> QED
      BY <2>2, <2>4, ZenonT(40) DEF PidUnique
  <1>15. NoLostExit'
    <2> SUFFICES ASSUME NEW t \in Slots,
                        state'[t] = "SLEEPING", pc'[t] = "wait"
                 PROVE  /\ Children(t)' # {} /\ ZombieChildren(t)' = {}
                        /\ ~killed'[t]
      BY Zenon DEF NoLostExit
    <2>1. t # p /\ t # s /\ state[t] = "SLEEPING" /\ pc[t] = "wait"
      BY Zenon
    <2>2. Children(t)' = Children(t)
      <3>1. \A u \in Slots : parent'[u] = t <=> parent[u] = t
        <4>1. parent[s] # t /\ parent'[s] # t
          BY <2>1, Distinct, Zenon
        <4> QED
          BY <4>1, Zenon
      <3> QED
        BY <3>1, Zenon DEF Children
    <2>3. ZombieChildren(t)' = ZombieChildren(t)
      <3>1. \A u \in Children(t) : state'[u] = "ZOMBIE" <=> state[u] = "ZOMBIE"
        BY <2>1, Zenon DEF Children
      <3> QED
        BY <2>2, <3>1, Zenon DEF ZombieChildren
    <2>4. killed'[t] = killed[t]
      BY <1>1, <2>1, Zenon DEF TypeOK
    <2> QED
      BY <2>1, <2>2, <2>3, <2>4, Zenon DEF NoLostExit
  <1>16. NoLostTick'
    BY ZenonT(40) DEF NoLostTick, StillWaiting
  <1> QED
    BY <1>4, <1>9, <1>10, <1>11, <1>12, <1>13, <1>14, <1>15, <1>16, Zenon DEF
       IInv

-----------------------------------------------------------------------------
(* fork() and exit().                                                      *)

\* allocproc() takes a slot nobody works on.
LEMMA ForkAllocPreserves ==
  ASSUME IInv, fault = "none", NEW c \in CPUs, NEW p \in Slots,
         NEW s \in Slots, NEW q \in 1 .. PRIOCAP,
         ForkAlloc(c, p, s, q)
  PROVE  IInv'
  <1>1. /\ mode[c] = "run" /\ cproc[c] = p /\ pc[p] = "user"
        /\ state[s] = "UNUSED"
        /\ state' = [state EXCEPT ![s] = "EMBRYO"]
        /\ pid' = [pid EXCEPT ![s] = nextpid] /\ nextpid' = nextpid + 1
        /\ prio' = [prio EXCEPT ![s] = q]
        /\ np' = [np EXCEPT ![p] = s]
        /\ pc' = [pc EXCEPT ![p] = "fork"]
        /\ UNCHANGED <<parent, chan, killed, ticks0, n, ticks, lk, tl, mode,
                       cproc, start, fault>>
    BY Zenon DEF ForkAlloc, MayCall, Runs, IsFirst, TakesPid, Goto, cpuVars
  <1>2. state[p] = "RUNNING" /\ \A d \in CPUs : d # c => cproc[d] # p
    BY <1>1, Owner, Zenon
  <1>inv. /\ TypeOK /\ CpuOwnership /\ LockDiscipline /\ StateMatchesCode
          /\ EmbryoOwned /\ ParentLive /\ PidUnique /\ NoLostExit /\ NoLostTick
    BY Zenon DEF IInv
  <1> USE <1>inv
  <1>3. /\ state'[s] = "EMBRYO" /\ np'[p] = s /\ pc'[p] = "fork"
        /\ pid'[s] = nextpid /\ s # p
        /\ \A t \in Slots : t # s => state'[t] = state[t] /\ pid'[t] = pid[t]
        /\ \A t \in Slots : t # p => np'[t] = np[t] /\ pc'[t] = pc[t]
    BY <1>1, <1>2, Zenon DEF TypeOK
  <1>u. /\ mode[c] = "run" /\ cproc[c] = p /\ pc[p] = "user"
        /\ state[s] = "UNUSED"
        /\ UNCHANGED <<parent, chan, killed, ticks0, n, ticks, lk, tl, mode,
                       cproc, start, fault>>
    BY <1>1, Zenon
  <1>4. \A d \in CPUs : OnCpu(d) \/ mode[d] = "back" =>
          cproc[d] \in Slots \ {s}
    BY <1>u, Elsewhere, Zenon
  <1>5. TypeOK'
    BY <1>1 DEF TypeOK, ProcStates, Points
  <1>6. CpuOwnership'
    <2>1. \A t \in Slots : state'[t] = "RUNNING" <=> state[t] = "RUNNING"
      BY <1>u, <1>3, Zenon
    <2>2. \A d \in CPUs : mode[d] = "back" =>
            state'[cproc[d]] \in {"RUNNABLE", "SLEEPING", "ZOMBIE"}
      <3>1. \A d \in CPUs : mode[d] = "back" => cproc[d] \in Slots \ {s}
        BY <1>4, Zenon
      <3>2. \A d \in CPUs : mode[d] = "back" =>
              state'[cproc[d]] = state[cproc[d]]
        BY <1>3, <3>1, Zenon
      <3> QED
        BY <3>2, Zenon DEF CpuOwnership
    <2> QED
      BY <1>u, <1>4, <2>1, <2>2, OwnershipKept, Zenon
  <1>run. \A d \in CPUs : OnCpu(d) \/ mode[d] = "run" =>
            \/ pc'[cproc[d]] = pc[cproc[d]]
            \/ pc[cproc[d]] = "user" /\ pc'[cproc[d]] = "fork"
    <2>1. \A d \in CPUs : mode[d] = "run" => OnCpu(d)
      BY Zenon DEF OnCpu, CpuOwnership
    <2> QED
      BY <1>u, <1>2, <1>3, <1>4, <2>1, Zenon
  <1>7. LockDiscipline'
    BY <1>u, <1>run, LocksKept, Zenon
  <1>8. StateMatchesCode'
    <2>1. s # initproc
      BY <1>u, Zenon DEF StateMatchesCode
    <2>2. \A t \in Slots :
            \/ state'[t] = state[t] /\ pc'[t] = pc[t]
            \/ state'[t] \in {"UNUSED", "EMBRYO"} /\ t # initproc
            \/ /\ state'[t] \in {"RUNNABLE", "RUNNING"}
               /\ pc'[t] \in {"user", "fork"}
      BY <1>2, <1>3, <2>1, ZenonT(40)
    <2> QED
      BY <1>u, <1>4, <1>run, <2>2, PlacesKept, Zenon
  <1>9. EmbryoOwned'
    <2>1. \A t \in Slots : np[t] # NULL =>
            /\ np[t] \in Slots /\ np[t] # s /\ t # s /\ t # p
            /\ state[t] \in {"RUNNABLE", "RUNNING"} /\ pc[t] = "fork"
            /\ state[np[t]] = "EMBRYO"
      BY <1>u DEF EmbryoOwned, TypeOK
    <2>2. \A t \in Slots : np'[t] # NULL =>
            /\ state'[t] \in {"RUNNABLE", "RUNNING"} /\ pc'[t] = "fork"
            /\ state'[np'[t]] = "EMBRYO"
      <3> SUFFICES ASSUME NEW t \in Slots, np'[t] # NULL
                   PROVE  /\ state'[t] \in {"RUNNABLE", "RUNNING"}
                          /\ pc'[t] = "fork" /\ state'[np'[t]] = "EMBRYO"
        BY Zenon
      <3>1. CASE t = p
        BY <1>2, <1>3, <3>1, Zenon
      <3>2. CASE t # p
        <4>1. np'[t] = np[t] /\ np[t] # NULL
          BY <1>3, <3>2, Zenon
        <4> QED
          <5>1. state'[t] = state[t] /\ pc'[t] = pc[t]
            BY <1>3, <2>1, <3>2, <4>1, Zenon
          <5>2. PICK e : np[t] = e
            BY Zenon
          <5>3. state'[e] = "EMBRYO"
            BY <1>3, <2>1, <4>1, <5>2, ZenonT(40)
          <5> QED
            BY <2>1, <4>1, <5>1, <5>2, <5>3, Zenon
      <3> QED
        BY <3>1, <3>2, Zenon
    <2>3. \A t \in Slots : Live(t)' /\ pc'[t] = "fork" => np'[t] # NULL
      <3>1. \A t \in Slots : Live(t)' => Live(t)
        BY <1>3, Zenon DEF Live
      <3>2. \A t \in Slots : Live(t) /\ pc[t] = "fork" => np[t] # NULL
        BY Zenon DEF EmbryoOwned
      <3> QED
        BY <1>3, <3>1, <3>2, Distinct, ZenonT(40)
    <2>4. \A t, r \in Slots : t # r /\ np'[t] # NULL => np'[t] # np'[r]
      <3>1. \A t, r \in Slots : t # r /\ np[t] # NULL => np[t] # np[r]
        BY Zenon DEF EmbryoOwned
      <3>2. \A t \in Slots : np[t] # s
        <4>1. s # NULL
          BY Distinct, Zenon
        <4> QED
          BY <2>1, <4>1, Zenon
      <3> SUFFICES ASSUME NEW t \in Slots, NEW r \in Slots, t # r,
                          np'[t] # NULL
                   PROVE  np'[t] # np'[r]
        BY Zenon
      <3>3. CASE t = p \/ r = p
        BY <1>3, <3>2, <3>3, Zenon
      <3>4. CASE t # p /\ r # p
        <4>1. np'[t] = np[t] /\ np'[r] = np[r] /\ np[t] # NULL
          BY <1>3, <3>4, Zenon
        <4> QED
          BY <3>1, <4>1, Zenon
      <3> QED
        BY <3>3, <3>4, Zenon
    <2>5. \A e \in Slots : state'[e] = "EMBRYO" => \E t \in Slots : np'[t] = e
      <3>1. \A e \in Slots : state[e] = "EMBRYO" => \E t \in Slots : np[t] = e
        BY Zenon DEF EmbryoOwned
      <3>2. np[p] = NULL
        BY <2>1, Zenon
      <3> SUFFICES ASSUME NEW e \in Slots, state'[e] = "EMBRYO"
                   PROVE  \E t \in Slots : np'[t] = e
        BY Zenon
      <3>3. CASE e = s
        BY <1>3, <3>3, Zenon
      <3>4. CASE e # s
        <4>1. PICK t \in Slots : np[t] = e
          BY <1>3, <3>1, <3>4, Zenon
        <4>2. t # p
          BY <3>2, <4>1, Distinct, Zenon
        <4> QED
          BY <1>3, <4>1, <4>2, Zenon
      <3> QED
        BY <3>3, <3>4, Zenon
    <2> QED
      BY <2>2, <2>3, <2>4, <2>5, Zenon DEF EmbryoOwned
  <1>10. ParentLive'
    <2>1. s # initproc
      BY <1>u, Zenon DEF StateMatchesCode
    <2>2. \A t \in Slots : Live(t)' <=> Live(t)
      BY <1>u, <1>3, Zenon DEF Live
    <2>3. \A t \in Slots : state'[t] = "ZOMBIE" => state[t] = "ZOMBIE"
      BY <1>3, Zenon
    <2> QED
      BY <1>u, <2>1, <2>2, <2>3, Zenon DEF ParentLive
  <1>11. PidUnique'
    BY <1>1, <1>3 DEF PidUnique, TypeOK
  <1>12. NoLostExit'
    <2> SUFFICES ASSUME NEW t \in Slots,
                        state'[t] = "SLEEPING", pc'[t] = "wait"
                 PROVE  /\ Children(t)' # {} /\ ZombieChildren(t)' = {}
                        /\ ~killed'[t]
      BY Zenon DEF NoLostExit
    <2>1. t # p /\ t # s /\ state[t] = "SLEEPING" /\ pc[t] = "wait"
      BY <1>3, Zenon
    <2>2. Children(t)' = Children(t) /\ killed'[t] = killed[t]
      BY <1>u, Zenon DEF Children
    <2>3. ZombieChildren(t)' \subseteq ZombieChildren(t)
      BY <1>3, <2>2, Zenon DEF ZombieChildren, Children
    <2> QED
      BY <2>1, <2>2, <2>3, Zenon DEF NoLostExit
  <1>13. NoLostTick'
    BY <1>u, <1>2, <1>3, ZenonT(40) DEF NoLostTick, StillWaiting
  <1> QED
    BY <1>5, <1>6, <1>7, <1>8, <1>9, <1>10, <1>11, <1>12, <1>13, Zenon DEF
       IInv

\* fork() gives its own EMBRYO slot back, unlocked.
LEMMA ForkFailPreserves ==
  ASSUME IInv, fault = "none", NEW c \in CPUs, NEW p \in Slots,
         ForkFail(c, p)
  PROVE  IInv'
  <1>inv. /\ TypeOK /\ CpuOwnership /\ LockDiscipline /\ StateMatchesCode
          /\ EmbryoOwned /\ ParentLive /\ PidUnique /\ NoLostExit /\ NoLostTick
    BY Zenon DEF IInv
  <1> USE <1>inv
  <1>0. state[p] = "RUNNING" /\ \A d \in CPUs : d # c => cproc[d] # p
    BY Owner, Zenon DEF Runs, ForkFail
  <1>a. /\ mode[c] = "run" /\ cproc[c] = p /\ pc[p] = "fork"
        /\ state' = [state EXCEPT ![np[p]] = "UNUSED"]
        /\ np' = [np EXCEPT ![p] = NULL]
        /\ pc' = [pc EXCEPT ![p] = "user"]
        /\ UNCHANGED <<pid, parent, chan, killed, prio, ticks0, n, nextpid,
                       ticks, lk, tl, mode, cproc, start, fault>>
    BY Zenon DEF ForkFail, Runs, Goto, cpuVars
  <1>b. /\ np[p] \in Slots \ {p} /\ state[np[p]] = "EMBRYO"
        /\ \A s \in Slots : s # p => np[s] # np[p]
    <2>1. np[p] # NULL
      BY <1>0, <1>a, Zenon DEF EmbryoOwned, Live
    <2> QED
      <3>1. np[p] \in Slots
        BY <2>1, Zenon DEF TypeOK
      <3>2. state[np[p]] = "EMBRYO" /\ \A s \in Slots : s # p => np[s] # np[p]
        BY <2>1, Zenon DEF EmbryoOwned
      <3>3. np[p] # p
        BY <1>0, <3>2, Zenon
      <3> QED
        BY <3>1, <3>2, <3>3, Zenon
  <1>c. /\ state'[np[p]] = "UNUSED"
        /\ \A s \in Slots : s # np[p] => state'[s] = state[s]
        /\ np'[p] = NULL /\ pc'[p] = "user"
        /\ \A s \in Slots : s # p => np'[s] = np[s] /\ pc'[s] = pc[s]
    BY <1>a, <1>b, Zenon DEF TypeOK
  <1>u. /\ mode[c] = "run" /\ cproc[c] = p /\ pc[p] = "fork"
        /\ UNCHANGED <<pid, parent, chan, killed, prio, ticks0, n, nextpid,
                       ticks, lk, tl, mode, cproc, start, fault>>
    BY <1>a, Zenon
  <1>d. \A d \in CPUs : OnCpu(d) \/ mode[d] = "back" =>
          cproc[d] \in Slots \ {np[p]}
    BY <1>b, Elsewhere, Zenon
  <1>1. TypeOK'
    BY <1>a, <1>b, Zenon DEF TypeOK, ProcStates, Points
  <1>2. CpuOwnership'
    <2>1. \A t \in Slots : state'[t] = "RUNNING" <=> state[t] = "RUNNING"
      BY <1>b, <1>c, Zenon
    <2>2. \A d \in CPUs : mode[d] = "back" =>
            state'[cproc[d]] \in {"RUNNABLE", "SLEEPING", "ZOMBIE"}
      BY <1>c, <1>d, ZenonT(40) DEF CpuOwnership
    <2> QED
      BY <1>u, <1>d, <2>1, <2>2, OwnershipKept, Zenon
  <1>run. \A d \in CPUs : OnCpu(d) \/ mode[d] = "run" =>
            \/ pc'[cproc[d]] = pc[cproc[d]]
            \/ pc[cproc[d]] = "fork" /\ pc'[cproc[d]] = "user"
    <2>1. \A d \in CPUs : mode[d] = "run" => OnCpu(d)
      BY Zenon DEF OnCpu, CpuOwnership
    <2> QED
      BY <1>0, <1>u, <1>c, <1>d, <2>1, Zenon
  <1>3. LockDiscipline'
    BY <1>u, <1>run, LocksKept, Zenon
  <1>4. StateMatchesCode'
    <2>1. np[p] # initproc
      BY <1>b, Zenon DEF StateMatchesCode
    <2>2. \A t \in Slots :
            \/ state'[t] = state[t] /\ pc'[t] = pc[t]
            \/ state'[t] \in {"UNUSED", "EMBRYO"} /\ t # initproc
            \/ /\ state'[t] \in {"RUNNABLE", "RUNNING"}
               /\ pc'[t] \in {"user", "fork"}
      BY <1>0, <1>b, <1>c, <2>1, Zenon
    <2> QED
      BY <1>u, <1>d, <1>run, <2>2, PlacesKept, Zenon
  <1>5. EmbryoOwned'
    <2>1. \A t \in Slots : t # p /\ np[t] # NULL =>
            /\ np[t] \in Slots /\ np[t] # np[p] /\ t # np[p]
            /\ state[t] \in {"RUNNABLE", "RUNNING"} /\ pc[t] = "fork"
            /\ state[np[t]] = "EMBRYO"
      BY <1>b DEF EmbryoOwned, TypeOK
    <2>2. \A t \in Slots : np'[t] # NULL =>
            /\ state'[t] \in {"RUNNABLE", "RUNNING"} /\ pc'[t] = "fork"
            /\ state'[np'[t]] = "EMBRYO"
      <3> SUFFICES ASSUME NEW t \in Slots, np'[t] # NULL
                   PROVE  /\ state'[t] \in {"RUNNABLE", "RUNNING"}
                          /\ pc'[t] = "fork" /\ state'[np'[t]] = "EMBRYO"
        BY Zenon
      <3>1. t # p /\ np'[t] = np[t] /\ np[t] # NULL
        BY <1>c, Zenon
      <3> QED
        <4>1. state'[t] = state[t] /\ pc'[t] = pc[t]
          BY <1>c, <2>1, <3>1, Zenon
        <4>2. PICK e : np[t] = e
          BY Zenon
        <4>3. state'[e] = "EMBRYO"
          BY <1>c, <2>1, <3>1, <4>2, ZenonT(40)
        <4> QED
          BY <2>1, <3>1, <4>1, <4>2, <4>3, Zenon
    <2>3. \A t \in Slots : Live(t)' /\ pc'[t] = "fork" => np'[t] # NULL
      <3>1. \A t \in Slots : Live(t)' => Live(t)
        BY <1>b, <1>c, Zenon DEF Live
      <3>2. \A t \in Slots : Live(t) /\ pc[t] = "fork" => np[t] # NULL
        BY Zenon DEF EmbryoOwned
      <3> QED
        BY <1>c, <3>1, <3>2, Zenon
    <2>4. \A t, r \in Slots : t # r /\ np'[t] # NULL => np'[t] # np'[r]
      <3>1. \A t, r \in Slots : t # r /\ np[t] # NULL => np[t] # np[r]
        BY Zenon DEF EmbryoOwned
      <3> SUFFICES ASSUME NEW t \in Slots, NEW r \in Slots, t # r,
                          np'[t] # NULL
                   PROVE  np'[t] # np'[r]
        BY Zenon
      <3>2. t # p /\ np'[t] = np[t]
        BY <1>c, Zenon
      <3>3. CASE r = p
        BY <1>c, <3>3, Zenon
      <3>4. CASE r # p
        BY <1>c, <3>1, <3>2, <3>4, ZenonT(40)
      <3> QED
        BY <3>3, <3>4, Zenon
    <2>5. \A e \in Slots : state'[e] = "EMBRYO" => \E t \in Slots : np'[t] = e
      <3>1. \A e \in Slots : state[e] = "EMBRYO" => \E t \in Slots : np[t] = e
        BY Zenon DEF EmbryoOwned
      <3>2. \A e \in Slots : state'[e] = "EMBRYO" =>
              e # np[p] /\ state[e] = "EMBRYO"
        BY <1>c, Zenon
      <3> SUFFICES ASSUME NEW e \in Slots, state'[e] = "EMBRYO"
                   PROVE  \E t \in Slots : np'[t] = e
        BY Zenon
      <3>3. PICK t \in Slots : np[t] = e
        BY <3>1, <3>2, Zenon
      <3>4. t # p
        BY <3>2, <3>3, Zenon
      <3> QED
        BY <1>c, <3>3, <3>4, Zenon
    <2> QED
      BY <2>2, <2>3, <2>4, <2>5, Zenon DEF EmbryoOwned
  <1>6. ParentLive'
    <2>1. \A t \in Slots : Live(t)' <=> Live(t)
      BY <1>b, <1>c, Zenon DEF Live
    <2>2. \A t \in Slots : state'[t] = "ZOMBIE" => state[t] = "ZOMBIE"
      BY <1>c, Zenon
    <2> QED
      BY <1>u, <2>1, <2>2, Zenon DEF ParentLive
  <1>7. PidUnique'
    <2>1. \A t \in Slots : state'[t] # "UNUSED" => state[t] # "UNUSED"
      BY <1>c, Zenon
    <2> QED
      BY <1>u, <2>1, Zenon DEF PidUnique
  <1>8. NoLostExit'
    <2>1. \A t \in Slots : state'[t] = "SLEEPING" /\ pc'[t] = "wait" =>
            state[t] = "SLEEPING" /\ pc[t] = "wait"
      BY <1>0, <1>c, Zenon
    <2>2. \A t \in Slots : /\ Children(t)' = Children(t)
                            /\ ZombieChildren(t)' \subseteq ZombieChildren(t)
      BY <1>u, <1>b, <1>c, Zenon DEF Children, ZombieChildren
    <2> QED
      BY <1>u, <2>1, <2>2, Zenon DEF NoLostExit
  <1>9. NoLostTick'
    BY <1>0, <1>u, <1>b, <1>c, ZenonT(40) DEF NoLostTick, StillWaiting
  <1> QED
    BY <1>1, <1>2, <1>3, <1>4, <1>5, <1>6, <1>7, <1>8, <1>9, Zenon DEF IInv

\* fork() gives its EMBRYO slot a parent and makes it RUNNABLE.
LEMMA ForkRunPreserves ==
  ASSUME IInv, fault = "none", NEW c \in CPUs, NEW p \in Slots,
         ForkRun(c, p)
  PROVE  IInv'
  <1>1. /\ mode[c] = "run" /\ cproc[c] = p /\ pc[p] = "fork"
        /\ parent' = [parent EXCEPT ![np[p]] = p]
        /\ state' = [state EXCEPT ![np[p]] = "RUNNABLE"]
        /\ np' = [np EXCEPT ![p] = NULL]
        /\ pc' = [pc EXCEPT ![p] = "user", ![np[p]] = "user"]
        /\ UNCHANGED <<pid, chan, killed, prio, ticks0, n, nextpid, ticks, lk,
                       tl, mode, cproc, start, fault>>
    BY Zenon DEF ForkRun, Runs, cpuVars
  <1>2. state[p] = "RUNNING" /\ \A d \in CPUs : d # c => cproc[d] # p
    BY <1>1, Owner, Zenon
  <1>inv. /\ TypeOK /\ CpuOwnership /\ LockDiscipline /\ StateMatchesCode
          /\ EmbryoOwned /\ ParentLive /\ PidUnique /\ NoLostExit /\ NoLostTick
    BY Zenon DEF IInv
  <1> USE <1>inv
  <1> DEFINE m == np[p]
  <1>3. /\ m \in Slots \ {p} /\ m = np[p] /\ state[m] = "EMBRYO"
        /\ \A s \in Slots : s # p => np[s] # m
    <2>1. np[p] # NULL
      BY <1>1, <1>2, Zenon DEF EmbryoOwned, Live
    <2> QED
      <3>1. np[p] \in Slots
        BY <2>1, Zenon DEF TypeOK
      <3>2. state[np[p]] = "EMBRYO" /\ \A s \in Slots : s # p => np[s] # np[p]
        BY <2>1, Zenon DEF EmbryoOwned
      <3>3. np[p] # p
        BY <1>2, <3>2, Zenon
      <3> QED
        BY <3>1, <3>2, <3>3, Zenon
  <1>4. m # initproc /\ parent[m] = NULL /\ \A s \in Slots : parent[s] # m
    <2>1. m # initproc
      BY <1>3, Zenon DEF StateMatchesCode
    <2> QED
      BY <1>3, <2>1, Distinct, Zenon DEF ParentLive, Live
  <1>5. /\ state'[m] = "RUNNABLE" /\ parent'[m] = p /\ np'[p] = NULL
        /\ pc'[m] = "user" /\ pc'[p] = "user"
        /\ \A s \in Slots : s # m => /\ state'[s] = state[s]
                                     /\ parent'[s] = parent[s]
        /\ \A s \in Slots : s # p => np'[s] = np[s]
        /\ \A s \in Slots \ {p, m} : pc'[s] = pc[s]
    BY <1>1, <1>3, Zenon DEF TypeOK
  <1>6. \A d \in CPUs : OnCpu(d) \/ mode[d] \in {"run", "back"} =>
          cproc[d] \in Slots \ {m}
    BY <1>3, Elsewhere, Zenon
  <1>7. TypeOK'
    BY <1>1, <1>3, Zenon DEF TypeOK, ProcStates, Points
  <1>a. /\ mode[c] = "run" /\ cproc[c] = p /\ pc[p] = "fork"
        /\ UNCHANGED <<pid, chan, killed, ticks0, n, nextpid, ticks, lk, tl,
                       mode, cproc, fault>>
    BY <1>1, Distinct, Zenon
  <1> HIDE DEF m
  <1>8. CpuOwnership'
    <2>1. \A t \in Slots : state'[t] = "RUNNING" <=> state[t] = "RUNNING"
      BY <1>3, <1>5, Zenon
    <2>2. \A d \in CPUs : mode[d] = "back" =>
            state'[cproc[d]] = state[cproc[d]]
      BY <1>5, <1>6, Zenon
    <2>3. \A d \in CPUs : mode[d] = "back" =>
            state'[cproc[d]] \in {"RUNNABLE", "SLEEPING", "ZOMBIE"}
      BY <2>2, Zenon DEF CpuOwnership
    <2> QED
      BY <1>a, <1>6, <2>1, <2>3, OwnershipKept, Zenon
  <1>run. \A d \in CPUs : OnCpu(d) \/ mode[d] = "run" =>
            \/ pc'[cproc[d]] = pc[cproc[d]]
            \/ pc[cproc[d]] = "fork" /\ pc'[cproc[d]] = "user"
    BY <1>a, <1>2, <1>5, <1>6, Zenon
  <1>9. LockDiscipline'
    BY <1>a, <1>run, LocksKept, Zenon
  <1>10. StateMatchesCode'
    <2>1. \A t \in Slots :
            \/ state'[t] = state[t] /\ pc'[t] = pc[t]
            \/ /\ state'[t] \in {"RUNNABLE", "RUNNING"}
               /\ pc'[t] \in {"user", "fork"}
      BY <1>2, <1>3, <1>5, Zenon
    <2> QED
      BY <1>a, <1>6, <1>run, <2>1, PlacesKept, Zenon
  <1>11. EmbryoOwned'
    <2>1. \A s \in Slots : np[s] # NULL => np[s] \in Slots
      BY Zenon DEF TypeOK
    <2>2. \A s \in Slots : np'[s] # NULL =>
            s # p /\ s # m /\ np'[s] = np[s] /\ np[s] \in Slots \ {m}
      <3>1. np[m] = NULL
        BY <1>3, <2>1, Zenon DEF EmbryoOwned
      <3> QED
        BY <1>3, <1>5, <2>1, <3>1, Zenon
    <2>3. \A s \in Slots : np'[s] # NULL =>
            /\ state'[s] \in {"RUNNABLE", "RUNNING"} /\ pc'[s] = "fork"
            /\ state'[np'[s]] = "EMBRYO"
      <3>1. \A s \in Slots : np[s] # NULL =>
              /\ state[s] \in {"RUNNABLE", "RUNNING"} /\ pc[s] = "fork"
              /\ state[np[s]] = "EMBRYO"
        BY Zenon DEF EmbryoOwned
      <3> SUFFICES ASSUME NEW s \in Slots, np'[s] # NULL
                   PROVE  /\ state'[s] \in {"RUNNABLE", "RUNNING"}
                          /\ pc'[s] = "fork" /\ state'[np'[s]] = "EMBRYO"
        BY Zenon
      <3>2. PICK e : np[s] = e
        BY Zenon
      <3>3. np'[s] = e /\ e \in Slots \ {m} /\ np[s] # NULL /\ s # p /\ s # m
        BY <2>2, <3>2, Zenon
      <3>4. state'[s] = state[s] /\ pc'[s] = pc[s]
        BY <1>5, <3>3, Zenon
      <3>5. state'[e] = "EMBRYO"
        <4>1. state[e] = "EMBRYO"
          BY <3>1, <3>2, <3>3, Zenon
        <4>2. e \in Slots /\ e # m
          BY <3>3, Zenon
        <4> QED
          BY <1>5, <4>1, <4>2, Zenon
      <3> QED
        BY <3>1, <3>3, <3>4, <3>5, Zenon
    <2>4. \A s \in Slots : Live(s)' /\ pc'[s] = "fork" => np'[s] # NULL
      <3>1. \A s \in Slots : pc'[s] = "fork" =>
              s # p /\ s # m /\ pc[s] = "fork" /\ state'[s] = state[s]
        BY <1>5, Zenon
      <3>2. \A s \in Slots : Live(s)' /\ pc'[s] = "fork" =>
              s # p /\ Live(s) /\ pc[s] = "fork"
        BY <3>1, Zenon DEF Live
      <3> QED
        <4>1. \A s \in Slots : Live(s)' /\ pc'[s] = "fork" =>
                np[s] # NULL /\ np'[s] = np[s]
          BY <1>5, <3>2, Zenon DEF EmbryoOwned
        <4> QED
          BY <4>1, Zenon
    <2>5. \A s, t \in Slots : s # t /\ np'[s] # NULL => np'[s] # np'[t]
      <3> SUFFICES ASSUME NEW s \in Slots, NEW t \in Slots, s # t,
                          np'[s] # NULL
                   PROVE  np'[s] # np'[t]
        BY Zenon
      <3>1. s # p /\ np'[s] = np[s]
        BY <2>2, Zenon
      <3>2. CASE t = p
        BY <1>5, <3>2, Zenon
      <3>3. CASE t # p
        <4>1. np'[t] = np[t] /\ np[s] # NULL
          BY <1>5, <3>1, <3>3, Zenon
        <4>2. np[s] # np[t]
          BY <4>1, Zenon DEF EmbryoOwned
        <4> QED
          BY <3>1, <4>1, <4>2, Zenon
      <3> QED
        BY <3>2, <3>3, Zenon
    <2>6. \A e \in Slots : state'[e] = "EMBRYO" => e # m /\ state[e] = "EMBRYO"
      BY <1>5, Zenon
    <2>7. \A e \in Slots : state'[e] = "EMBRYO" => \E s \in Slots : np'[s] = e
      <3>1. \A e \in Slots : state[e] = "EMBRYO" => \E s \in Slots : np[s] = e
        BY Zenon DEF EmbryoOwned
      <3> SUFFICES ASSUME NEW e \in Slots, state'[e] = "EMBRYO"
                   PROVE  \E s \in Slots : np'[s] = e
        BY Zenon
      <3>2. PICK s \in Slots : np[s] = e
        BY <2>6, <3>1, Zenon
      <3>3. s # p
        BY <1>3, <2>6, <3>2, Zenon
      <3> QED
        BY <1>5, <3>2, <3>3, Zenon
    <2> QED
      BY <2>3, <2>4, <2>5, <2>7, Zenon DEF EmbryoOwned
  <1>12. ParentLive'
    <2>1. \A s \in Slots : s # m => (Live(s)' <=> Live(s))
      BY <1>5, Zenon DEF Live
    <2>2. \A s \in Slots : s # m => parent'[s] = parent[s]
      BY <1>5, Zenon
    <2>3. \A s \in Slots : s # m /\ Live(s)' /\ s # initproc =>
            /\ parent'[s] \in Slots \ {s}
            /\ state'[parent'[s]] \notin {"UNUSED", "EMBRYO", "ZOMBIE"}
      <3> SUFFICES ASSUME NEW s \in Slots, s # m, Live(s)', s # initproc
                   PROVE  /\ parent'[s] \in Slots \ {s}
                          /\ state'[parent'[s]] \notin
                               {"UNUSED", "EMBRYO", "ZOMBIE"}
        BY Zenon
      <3>1. parent'[s] = parent[s] /\ Live(s)
        BY <2>1, <2>2, Zenon
      <3>2. /\ parent[s] \in Slots \ {s} /\ parent[s] # m
            /\ state[parent[s]] \notin {"UNUSED", "EMBRYO", "ZOMBIE"}
        BY <1>4, <3>1, Zenon DEF ParentLive, Live
      <3>3. state'[parent[s]] = state[parent[s]]
        BY <1>5, <3>2, Zenon
      <3> QED
        BY <3>1, <3>2, <3>3, Zenon
    <2>4. \A s \in Slots : s # m /\ ~Live(s)' /\ s # initproc =>
            parent'[s] = NULL
      BY <2>1, <2>2, Zenon DEF ParentLive
    <2>5. /\ state'[m] \notin {"UNUSED", "EMBRYO"}
          /\ parent'[m] \in Slots \ {m}
          /\ state'[parent'[m]] \notin {"UNUSED", "EMBRYO", "ZOMBIE"}
      BY <1>2, <1>3, <1>5, Zenon
    <2>6. parent'[initproc] = NULL
      BY <1>4, <2>2, Distinct, Zenon DEF ParentLive
    <2>7. ASSUME NEW s \in Slots, s # initproc
          PROVE  IF Live(s)'
                 THEN /\ parent'[s] \in Slots \ {s}
                      /\ state'[parent'[s]] \notin
                           {"UNUSED", "EMBRYO", "ZOMBIE"}
                 ELSE parent'[s] = NULL
      <3>1. CASE s = m
        BY <2>5, <3>1, Zenon DEF Live
      <3>2. CASE s # m
        BY <2>3, <2>4, <2>7, <3>2, Zenon
      <3> QED
        BY <3>1, <3>2, Zenon
    <2> QED
      BY <2>6, <2>7, Zenon DEF ParentLive, Live
  <1>13. PidUnique'
    <2>1. \A s \in Slots : state'[s] # "UNUSED" => state[s] # "UNUSED"
      BY <1>3, <1>5, Zenon
    <2> QED
      BY <1>a, <2>1, Zenon DEF PidUnique
  <1>14. NoLostExit'
    <2> SUFFICES ASSUME NEW s \in Slots,
                        state'[s] = "SLEEPING", pc'[s] = "wait"
                 PROVE  /\ Children(s)' # {} /\ ZombieChildren(s)' = {}
                        /\ ~killed'[s]
      BY Zenon DEF NoLostExit
    <2>1. s # p /\ s # m /\ state[s] = "SLEEPING" /\ pc[s] = "wait"
      BY <1>5, Zenon
    <2>2. Children(s)' = Children(s)
      BY <1>4, <1>5, <2>1, Distinct DEF Children
    <2>3. ZombieChildren(s)' = ZombieChildren(s)
      BY <1>3, <1>5, <2>1, <2>2, Zenon DEF ZombieChildren, Children
    <2> QED
      BY <1>a, <2>1, <2>2, <2>3, Distinct, Zenon DEF NoLostExit
  <1>15. NoLostTick'
    <2>1. \A s \in Slots : pc'[s] \in {"tsleep", "tgo"} =>
            pc'[s] = pc[s] /\ state'[s] = state[s]
      BY <1>5, Zenon
    <2>2. \A s \in Slots : StillWaiting(s)' <=> StillWaiting(s)
      BY <1>a, Zenon DEF StillWaiting
    <2> QED
      BY <1>a, <2>1, <2>2, Zenon DEF NoLostTick
  <1> QED
    BY <1>7, <1>8, <1>9, <1>10, <1>11, <1>12, <1>13, <1>14, <1>15, Zenon DEF
       IInv

\* The states that exit() leaves: p is a zombie, some sleepers are runnable,
\* among them its parent, and init if p leaves it a zombie.
LEMMA ExitStatesFacts ==
  ASSUME state \in [Slots -> ProcStates], NEW p \in Slots,
         state[p] = "RUNNING"
  PROVE  /\ ExitStates(p) \in [Slots -> ProcStates]
         /\ ExitStates(p)[p] = "ZOMBIE"
         /\ \A s \in Slots : s # p =>
              \/ ExitStates(p)[s] = state[s]
              \/ state[s] = "SLEEPING" /\ ExitStates(p)[s] = "RUNNABLE"
         /\ \A s \in Slots : state[s] = "SLEEPING" /\ chan[s] = parent[p]
              => ExitStates(p)[s] # "SLEEPING"
         /\ \A s \in Slots :
              (/\ state[s] = "SLEEPING" /\ chan[s] = initproc
               /\ \E t \in Slots : parent[t] = p /\ state[t] = "ZOMBIE")
              => ExitStates(p)[s] # "SLEEPING"
  BY Zenon DEF ExitStates, Wakeup1, ProcStates

\* exit(): the parent, and init for an orphaned zombie, are woken before the
\* process becomes a zombie; its children go to init.
LEMMA ExitPreserves ==
  ASSUME IInv, fault = "none", NEW c \in CPUs, NEW p \in Slots,
         Exit(c, p)
  PROVE  IInv'
  <1>inv. /\ TypeOK /\ CpuOwnership /\ LockDiscipline /\ StateMatchesCode
          /\ EmbryoOwned /\ ParentLive /\ PidUnique /\ NoLostExit /\ NoLostTick
    BY Zenon DEF IInv
  <1> USE <1>inv
  <1>1. /\ cproc[c] = p /\ mode[c] \in {"run", "post"} /\ pc[p] = "user"
        /\ p # initproc /\ lk = NULL
        /\ lk' = c
        /\ mode' = [mode EXCEPT ![c] = "back"]
        /\ pc' = [pc EXCEPT ![p] = "dead"]
        /\ parent' = [s \in Slots |->
                        IF parent[s] = p THEN initproc ELSE parent[s]]
        /\ UNCHANGED <<pid, chan, killed, prio, np, ticks0, n, nextpid,
                       ticks, tl, fault, cproc, start>>
    BY Distinct, Zenon DEF Exit, EntersExit, Reparented, Goto, Sched,
       localVars
  <1>2. state[p] = "RUNNING" /\ \A d \in CPUs : d # c => cproc[d] # p
    BY <1>1, Owner, Zenon
  <1>0. state' = ExitStates(p) /\ state \in [Slots -> ProcStates]
    BY Zenon DEF Exit, TypeOK
  <1>3. /\ state' \in [Slots -> ProcStates]
        /\ state'[p] = "ZOMBIE"
        /\ \A s \in Slots : s # p => \/ state'[s] = state[s]
                                     \/ /\ state[s] = "SLEEPING"
                                        /\ state'[s] = "RUNNABLE"
    BY <1>0, <1>2, ExitStatesFacts, Zenon
  <1>4. \A s \in Slots : state[s] = "SLEEPING" /\ chan[s] = parent[p]
          => state'[s] # "SLEEPING"
    BY <1>0, <1>2, ExitStatesFacts, ZenonT(40)
  <1>5. \A s \in Slots :
          (/\ state[s] = "SLEEPING" /\ chan[s] = initproc
           /\ \E t \in Slots : parent[t] = p /\ state[t] = "ZOMBIE")
          => state'[s] # "SLEEPING"
    BY <1>0, <1>2, ExitStatesFacts
  <1>6. TypeOK'
    BY <1>1, <1>3, Distinct, ZenonT(40) DEF TypeOK, Points, Modes
  <1>7. CpuOwnership'
    <2>1. \A d \in CPUs : mode[d] # "back"
      BY <1>1, Distinct, Zenon DEF LockDiscipline
    <2>2. \A d \in CPUs : d # c /\ OnCpu(d) => state'[cproc[d]] = "RUNNING"
      <3> SUFFICES ASSUME NEW d \in CPUs, d # c, OnCpu(d)
                   PROVE  state'[cproc[d]] = "RUNNING"
        BY Zenon
      <3>1. cproc[d] \in Slots \ {p} /\ state[cproc[d]] = "RUNNING"
        <4>1. cproc[d] \in Slots
          BY Zenon DEF OnCpu, TypeOK
        <4> QED
          BY <1>2, <4>1, Zenon DEF CpuOwnership
      <3> QED
        BY <1>3, <3>1, Zenon
    <2>3. \A d \in CPUs : d # c => mode'[d] = mode[d] /\ cproc'[d] = cproc[d]
      BY <1>1, Zenon DEF TypeOK
    <2>4. mode'[c] = "back" /\ cproc'[c] = p
      BY <1>1, Zenon DEF TypeOK
    <2>5. \A s \in Slots :
            state'[s] = "RUNNING" => s # p /\ state[s] = "RUNNING"
      BY <1>3, Zenon
    <2>6. \A s \in Slots : state'[s] = "RUNNING" =>
            \E d \in CPUs : OnCpu(d)' /\ cproc'[d] = s
      <3> SUFFICES ASSUME NEW s \in Slots, state'[s] = "RUNNING"
                   PROVE  \E d \in CPUs : OnCpu(d)' /\ cproc'[d] = s
        BY Zenon
      <3>1. PICK d \in CPUs : OnCpu(d) /\ cproc[d] = s
        BY <2>5, Zenon DEF CpuOwnership
      <3>2. d # c
        BY <1>1, <2>5, <3>1, Zenon
      <3> QED
        BY <2>3, <3>1, <3>2, Zenon DEF OnCpu
    <2>7. \A d \in CPUs :
            /\ mode'[d] \in {"run", "post", "back"} => cproc'[d] # NULL
            /\ mode'[d] = "sched" => cproc'[d] = NULL
            /\ mode'[d] = "back" =>
                  state'[cproc'[d]] \in {"RUNNABLE", "SLEEPING", "ZOMBIE"}
            /\ OnCpu(d)' => state'[cproc'[d]] = "RUNNING"
      <3> SUFFICES ASSUME NEW d \in CPUs
                   PROVE  /\ mode'[d] \in {"run", "post", "back"} =>
                               cproc'[d] # NULL
                          /\ mode'[d] = "sched" => cproc'[d] = NULL
                          /\ mode'[d] = "back" =>
                               state'[cproc'[d]] \in
                                 {"RUNNABLE", "SLEEPING", "ZOMBIE"}
                          /\ OnCpu(d)' => state'[cproc'[d]] = "RUNNING"
        BY Zenon
      <3>1. CASE d = c
        BY <1>3, <2>4, <3>1, Distinct, Zenon DEF OnCpu
      <3>2. CASE d # c
        <4>1. mode'[d] = mode[d] /\ cproc'[d] = cproc[d] /\ mode[d] # "back"
          BY <2>1, <2>3, <3>2, Zenon
        <4>2. OnCpu(d)' => OnCpu(d)
          BY <4>1, Zenon DEF OnCpu
        <4>3. OnCpu(d)' => state'[cproc'[d]] = "RUNNING"
          BY <2>2, <3>2, <4>1, <4>2, Zenon
        <4> QED
          BY <4>1, <4>3, Zenon DEF CpuOwnership
      <3> QED
        BY <3>1, <3>2, Zenon
    <2> QED
      BY <1>1, <2>6, <2>7 DEF CpuOwnership
  <1>8. LockDiscipline'
    <2>1. /\ mode'[c] = "back" /\ lk' = c /\ tl' = tl /\ cproc' = cproc
          /\ \A d \in CPUs : d # c => mode'[d] = mode[d]
      BY <1>1, Zenon DEF TypeOK
    <2>2. \A d \in CPUs : lk # d
      BY <1>1, Distinct, Zenon
    <2>3. \A d \in CPUs : d # c /\ mode[d] = "run" =>
            pc'[cproc[d]] = pc[cproc[d]]
      <3>1. \A d \in CPUs : mode[d] = "run" => cproc[d] \in Slots
        <4>1. \A d \in CPUs : mode[d] = "run" => cproc[d] # NULL
          BY Zenon DEF CpuOwnership
        <4> QED
          BY <4>1, Zenon DEF TypeOK
      <3> QED
        BY <1>1, <1>2, <3>1, Zenon DEF TypeOK
    <2>4. tl # c
      BY <1>1, Zenon DEF LockDiscipline
    <2> SUFFICES ASSUME NEW d \in CPUs
                 PROVE  /\ lk' = d <=> \/ mode'[d] = "back"
                                       \/ /\ mode'[d] = "run"
                                          /\ pc'[cproc'[d]] = "scan"
                        /\ tl' = d <=>
                             \/ mode'[d] = "tick"
                             \/ /\ mode'[d] = "run"
                                /\ pc'[cproc'[d]] \in {"tchk", "tgo"}
      BY Zenon DEF LockDiscipline
    <2>5. CASE d = c
      BY <2>1, <2>4, <2>5, Zenon
    <2>6. CASE d # c
      <3>1. mode'[d] = mode[d] /\ cproc'[d] = cproc[d] /\ mode[d] # "back"
        BY <2>1, <2>2, <2>6, Zenon DEF LockDiscipline
      <3>2. mode[d] = "run" => pc[cproc[d]] # "scan"
        BY <2>2, Zenon DEF LockDiscipline
      <3> QED
        BY <2>1, <2>3, <2>6, <3>1, <3>2, ZenonT(40) DEF LockDiscipline
    <2> QED
      BY <2>5, <2>6, Zenon
  <1>9. StateMatchesCode'
    <2>1. pc'[p] = "dead" /\ \A s \in Slots : s # p => pc'[s] = pc[s]
      BY <1>1, Zenon DEF TypeOK
    <2>2. \A s \in Slots : chan'[s] = chan[s]
      BY <1>1, Zenon
    <2>3. \A d \in CPUs : OnCpu(d)' /\ mode'[d] # "run" =>
            /\ d # c /\ OnCpu(d) /\ mode[d] # "run"
            /\ cproc'[d] = cproc[d] /\ cproc[d] \in Slots \ {p}
      BY <1>1, <1>2 DEF CpuOwnership, OnCpu, TypeOK
    <2>4. \A d \in CPUs : OnCpu(d)' /\ mode'[d] # "run" =>
            pc'[cproc'[d]] \in {"user", "fork", "twake", "sp"}
      <3> SUFFICES ASSUME NEW d \in CPUs, OnCpu(d)', mode'[d] # "run"
                   PROVE  pc'[cproc'[d]] \in {"user", "fork", "twake", "sp"}
        BY Zenon
      <3>1. pc[cproc[d]] \in {"user", "fork", "twake", "sp"}
        BY <2>3, Zenon DEF StateMatchesCode
      <3> QED
        BY <2>1, <2>3, <3>1, Zenon
    <2>5. \A s \in Slots :
            /\ state'[s] = "SLEEPING" => s # p /\ state[s] = "SLEEPING"
            /\ state'[s] = "RUNNABLE" =>
                 s # p /\ state[s] \in {"SLEEPING", "RUNNABLE"}
            /\ state'[s] = "RUNNING" => s # p /\ state[s] = "RUNNING"
            /\ state'[s] = "ZOMBIE" => s = p \/ state[s] = "ZOMBIE"
      BY <1>3, Zenon
    <2>6. state'[initproc] \notin {"UNUSED", "EMBRYO", "ZOMBIE"}
      BY <1>1, <1>3, Distinct, Zenon DEF StateMatchesCode
    <2> QED
      BY <2>1, <2>2, <2>4, <2>5, <2>6, Distinct DEF StateMatchesCode
  <1>10. EmbryoOwned'
    <2>1. np[p] = NULL /\ np' = np
      BY <1>1, Zenon DEF EmbryoOwned
    <2>2. \A s \in Slots :
            np[s] # NULL => s # p /\ np[s] # p /\ np[s] \in Slots
      BY <1>2, <2>1 DEF EmbryoOwned, TypeOK
    <2>3. \A s \in Slots : s # p => pc'[s] = pc[s]
      BY <1>1, Zenon DEF TypeOK
    <2>4. pc'[p] = "dead"
      BY <1>1, Zenon DEF TypeOK
    <2>5. \A s \in Slots : np'[s] # NULL =>
            /\ state'[s] \in {"RUNNABLE", "RUNNING"} /\ pc'[s] = "fork"
            /\ state'[np'[s]] = "EMBRYO"
      <3> SUFFICES ASSUME NEW s \in Slots, np[s] # NULL
                   PROVE  /\ state'[s] \in {"RUNNABLE", "RUNNING"}
                          /\ pc'[s] = "fork" /\ state'[np[s]] = "EMBRYO"
        BY <2>1, Zenon
      <3>1. /\ state[s] \in {"RUNNABLE", "RUNNING"} /\ pc[s] = "fork"
            /\ state[np[s]] = "EMBRYO"
        BY Zenon DEF EmbryoOwned
      <3> QED
        BY <1>3, <2>2, <2>3, <3>1, Zenon
    <2>6. \A s \in Slots : Live(s)' /\ pc'[s] = "fork" => np'[s] # NULL
      <3>1. \A s \in Slots : pc'[s] = "fork" => s # p /\ pc[s] = "fork"
        BY <2>3, <2>4, Zenon
      <3>2. \A s \in Slots : s # p /\ Live(s)' => Live(s)
        BY <1>3, Zenon DEF Live
      <3> QED
        BY <2>1, <3>1, <3>2, Zenon DEF EmbryoOwned
    <2>7. \A s, t \in Slots : s # t /\ np'[s] # NULL => np'[s] # np'[t]
      BY <2>1, Zenon DEF EmbryoOwned
    <2>8. \A e \in Slots : state'[e] = "EMBRYO" => \E s \in Slots : np'[s] = e
      <3>1. \A e \in Slots : state'[e] = "EMBRYO" => state[e] = "EMBRYO"
        BY <1>3, Zenon
      <3> QED
        BY <2>1, <3>1, Zenon DEF EmbryoOwned
    <2> QED
      BY <2>5, <2>6, <2>7, <2>8, Zenon DEF EmbryoOwned
  <1>11. ParentLive'
    <2>1. \A s \in Slots : Live(s)' => Live(s)
      BY <1>2, <1>3, Zenon DEF Live
    <2>2. Live(initproc) /\ state[initproc] # "ZOMBIE" /\ p # NULL
      BY Distinct, Zenon DEF StateMatchesCode, Live
    <2>3. parent'[initproc] = NULL
      BY <1>1, <2>2, Distinct, Zenon DEF ParentLive
    <2>4. ASSUME NEW s \in Slots \ {initproc}, Live(s)
          PROVE  /\ parent'[s] \in Slots \ {s}
                 /\ state'[parent'[s]] \notin {"UNUSED", "EMBRYO", "ZOMBIE"}
      <3>1. PICK r \in Slots \ {s} :
              /\ r = parent'[s] /\ r # p
              /\ state[r] \notin {"UNUSED", "EMBRYO", "ZOMBIE"}
        BY <1>1, <2>2, <2>4, Distinct, Zenon DEF ParentLive, Live
      <3> QED
        BY <1>3, <3>1, Zenon
    <2>5. ASSUME NEW s \in Slots \ {initproc}, ~Live(s)'
          PROVE  parent'[s] = NULL
      BY <1>1, <1>2, <1>3, <2>2, <2>5, ZenonT(40) DEF ParentLive, Live
    <2>6. ASSUME NEW s \in Slots \ {initproc}, Live(s)'
          PROVE  /\ parent'[s] \in Slots \ {s}
                 /\ Live(parent[s])' /\ state'[parent'[s]] # "ZOMBIE"
      BY <2>1, <2>4, <2>6, Zenon DEF Live
    <2> QED
      BY <2>3, <2>5, <2>6, Zenon DEF ParentLive
  <1>12. PidUnique'
    BY <1>1, <1>2, <1>3, ZenonT(40) DEF PidUnique
  <1>13. NoLostExit'
    <2> SUFFICES ASSUME NEW s \in Slots,
                        state'[s] = "SLEEPING", pc'[s] = "wait"
                 PROVE  /\ Children(s)' # {} /\ ZombieChildren(s)' = {}
                        /\ ~killed'[s]
      BY Zenon DEF NoLostExit
    <2>1. s # p /\ state[s] = "SLEEPING" /\ pc[s] = "wait" /\ chan[s] = s
      BY <1>1, <1>3, Distinct, ZenonT(40) DEF StateMatchesCode, TypeOK
    <2>2. parent[p] # s
      BY <1>4, <2>1, Zenon
    <2>3. Children(s) \subseteq Children(s)'
      BY <1>1, <2>1, Zenon DEF Children, TypeOK
    <2>4. \A t \in Slots : parent'[t] = s => state'[t] # "ZOMBIE"
      <3> SUFFICES ASSUME NEW t \in Slots, parent'[t] = s, state'[t] = "ZOMBIE"
                   PROVE  FALSE
        BY Zenon
      <3>1. t # p
        <4>1. parent[p] # p
          BY <1>1, <1>2, Zenon DEF ParentLive, Live
        <4> QED
          BY <1>1, <2>2, <4>1, Distinct, Zenon
      <3>2. state[t] = "ZOMBIE"
        BY <1>3, <3>1, Zenon
      <3>3. CASE parent[t] = p
        BY <1>1, <1>5, <2>1, <3>2, <3>3, Zenon
      <3>4. CASE parent[t] # p
        BY <1>1, <2>1, <3>2, <3>4, Zenon DEF NoLostExit, ZombieChildren,
           Children
      <3> QED
        BY <3>3, <3>4, Zenon
    <2> QED
      BY <1>1, <2>1, <2>3, <2>4, Zenon DEF NoLostExit, ZombieChildren,
         Children
  <1>14. NoLostTick'
    BY <1>1, <1>2, <1>3, Distinct, ZenonT(40) DEF NoLostTick, StillWaiting,
       TypeOK, localVars
  <1> QED
    BY <1>6, <1>7, <1>8, <1>9, <1>10, <1>11, <1>12, <1>13, <1>14, Zenon DEF
       IInv

=============================================================================
