-------------------------------- MODULE Proc --------------------------------
(***************************************************************************)
(* The process table, the per-CPU priority scheduler, the clock and the    *)
(* system calls that change a process's scheduling state: proc.c, with the *)
(* timer path of trap.c and sys_sleep of sysproc.c.                        *)
(*                                                                         *)
(* ptable.lock and tickslock are explicit.  A critical section is one      *)
(* action, except where the code keeps a lock across swtch() (sched() to   *)
(* scheduler(), and scheduler() to wait()) or reads shared data outside of *)
(* the lock that protects it (ticks in scheduler(), killed in sys_sleep(), *)
(* the EMBRYO slot in fork()): there the section is cut, so that other     *)
(* CPUs act in between.                                                    *)
(***************************************************************************)
EXTENDS Integers, FiniteSets

CONSTANTS
  NPROC,     \* slots of ptable.proc
  NCPU,      \* CPUs; CPU 0 is the one that counts ticks
  PRIOCAP,   \* the 10 of scheduler() and allocproc()
  MNINIT,    \* the 20 that scheduler() starts its minimum from
  PLISTLEN,  \* the 50 entries of scheduler()'s plist
  TICKMOD,   \* ticks is a uint: 2^32 in the build
  MaxPid,    \* bound: nextpid stops here, so at most MaxPid - 1 forks
  PrioArgs,  \* what programs pass to setpriority(), as a uint
  SleepArgs, \* what programs pass to sleep()
  KillPids   \* what programs pass to kill()

ASSUME ProcAssumption ==
  /\ NPROC \in Nat \ {0}
  /\ NCPU \in Nat \ {0}
  /\ PRIOCAP \in Nat \ {0}
  /\ MNINIT \in Nat
  /\ PLISTLEN \in Nat
  /\ TICKMOD \in Nat \ {0, 1}
  /\ MaxPid \in Nat
  /\ PrioArgs \subseteq Nat
  /\ SleepArgs \subseteq Nat
  /\ KillPids \subseteq Nat

Slots == 0 .. NPROC - 1
CPUs == 0 .. NCPU - 1
NULL == -1      \* the null pointer, and the holder of a free spinlock
TICKS == -2     \* &ticks as a sleep channel; a slot is its own channel
initproc == 0   \* userinit() gets the first slot

ProcStates ==
  {"UNUSED", "EMBRYO", "SLEEPING", "RUNNABLE", "RUNNING", "ZOMBIE"}

\* Where a process stands in the kernel when it is not executing:
\*   user    user space, or about to return there
\*   fork    in fork(), after allocproc()
\*   scan    in wait(), ptable.lock held, about to scan the table
\*   wait    in wait(), asleep on its own slot
\*   tchk    in sys_sleep(), tickslock held, at the loop test
\*   tgo     in sys_sleep(), tickslock held, calling sleep()
\*   tsleep  in sys_sleep(), asleep on &ticks
\*   twake   in sys_sleep(), back from sleep(), about to retake tickslock
\*   sp      in sp(), between release() and yield()
\*   spret   in sp(), switched away by yield()
\*   dead    past exit()
Points == {"user", "fork", "scan", "wait", "tchk", "tgo", "tsleep", "twake",
           "sp", "spret", "dead"}

\* What a CPU is executing:
\*   sched   the top of scheduler()'s loop, no lock held
\*   run     the process cproc[c]
\*   tick    trap(), timer interrupt: ticks counted, wakeup() not yet called
\*   post    trap(), past the switch on the trap number, with a process
\*   back    scheduler(), after swtch() returned, ptable.lock held
Modes == {"sched", "run", "tick", "post", "back"}

Faults == {"none", "divide", "plist", "init exiting"}

VARIABLES
  state, pid, parent, chan, killed, prio,   \* struct proc
  pc,         \* the process's place in the kernel
  np,         \* fork()'s local np
  ticks0, n,  \* sys_sleep()'s locals
  nextpid, ticks,
  lk, tl,     \* the CPU that holds ptable.lock, tickslock
  mode, cproc, start,   \* per CPU: control, c->proc, scheduler()'s start
  fault       \* the panic or trap that stopped the kernel

procVars == <<state, pid, parent, chan, killed, prio>>
localVars == <<np, ticks0, n>>
cpuVars == <<mode, cproc, start>>
vars == <<procVars, pc, localVars, nextpid, ticks, lk, tl, cpuVars, fault>>

-----------------------------------------------------------------------------
(* Helpers.                                                                *)

\* The slot at which a loop over ptable.proc stops.
IsFirst(s, S) == s \in S /\ \A t \in S : s <= t

\* Mutant: wakeup1() stops after the first sleeper it finds.
Wakeup1First(st, ch) ==
  [s \in Slots |-> IF IsFirst(s, {t \in Slots : st[t] = "SLEEPING"
                                               /\ chan[t] = ch})
                   THEN "RUNNABLE" ELSE st[s]]

\* wakeup1(ch) applied to the states st.
Wakeup1(st, ch) ==
  [s \in Slots |-> IF st[s] = "SLEEPING" /\ chan[s] = ch
                   THEN "RUNNABLE" ELSE st[s]]

Runnable == {s \in Slots : state[s] = "RUNNABLE"}

\* Mutant: the minimum starts from 0.
mnFromZero ==
  LET seen == {0} \cup {prio[s] : s \in Runnable}
  IN  CHOOSE m \in seen : \A k \in seen : m <= k

\* scheduler()'s minimum, which never exceeds the value it starts from.
mn ==
  LET seen == {MNINIT} \cup {prio[s] : s \in Runnable}
  IN  CHOOSE m \in seen : \A k \in seen : m <= k

\* The processes scheduler() collects in plist, in slot order.
plist == {s \in Runnable : prio[s] = mn}

\* plist[sch], with sch = ticks % idx.
IsPicked(s) ==
  /\ s \in plist
  /\ Cardinality({t \in plist : t < s}) = ticks % Cardinality(plist)

\* Mutants: an ordering of ticks that fails when the counter wraps, and
\* demotion left out.

AdjustedByOrder(p, c) ==
  IF ticks > start[c]
  THEN IF prio[p] < PRIOCAP THEN prio[p] + 1 ELSE prio[p]
  ELSE IF prio[p] > 0 THEN prio[p] - 1 ELSE prio[p]

AdjustedNoDemotion(p, c) ==
  IF ticks = start[c] /\ prio[p] > 0 THEN prio[p] - 1 ELSE prio[p]

\* The priority scheduler() leaves a process with after its turn.
Adjusted(p, c) ==
  IF ticks = start[c]
  THEN IF prio[p] > 0 THEN prio[p] - 1 ELSE prio[p]
  ELSE IF prio[p] < PRIOCAP THEN prio[p] + 1 ELSE prio[p]

\* uint arithmetic: ticks - ticks0 < n.
StillWaiting(p) == (ticks - ticks0[p]) % TICKMOD < n[p]

\* CPU c executes process code, outside of trap()'s timer path.
Runs(c, p) == mode[c] = "run" /\ cproc[c] = p

\* p is in user space on c and free to enter the kernel: trap() sends a
\* killed process to exit() before any other system call.
MayCall(c, p) == Runs(c, p) /\ pc[p] = "user" /\ ~killed[p]

\* Mutant: acquire() does not disable interrupts.
InterruptibleAlways(c) == TRUE

\* Interrupts are on: pushcli() keeps them off while a spinlock is held.
Interruptible(c) == lk # c /\ tl # c

Goto(p, where) == pc' = [pc EXCEPT ![p] = where]

\* Mutant: the lock is released before the switch.
SchedUnlocked(c) ==
  /\ lk' = NULL
  /\ mode' = [mode EXCEPT ![c] = "back"]
  /\ UNCHANGED <<cproc, start>>

\* sched(): hand the CPU, and ptable.lock with it, to scheduler().
Sched(c) ==
  /\ lk' = c
  /\ mode' = [mode EXCEPT ![c] = "back"]
  /\ UNCHANGED <<cproc, start>>

-----------------------------------------------------------------------------
(* Boot: main() has run userinit() and every CPU enters scheduler().       *)

Init ==
  /\ state = [s \in Slots |-> IF s = initproc THEN "RUNNABLE" ELSE "UNUSED"]
  /\ pid = [s \in Slots |-> IF s = initproc THEN 1 ELSE 0]
  /\ parent = [s \in Slots |-> NULL]
  /\ chan = [s \in Slots |-> NULL]
  /\ killed = [s \in Slots |-> FALSE]
  /\ \E q \in 1 .. PRIOCAP :
        prio = [s \in Slots |-> IF s = initproc THEN q ELSE 0]
  /\ pc = [s \in Slots |-> "user"]
  /\ np = [s \in Slots |-> NULL]
  /\ ticks0 = [s \in Slots |-> 0]
  /\ n = [s \in Slots |-> 0]
  /\ nextpid = 2
  /\ ticks = 0
  /\ lk = NULL
  /\ tl = NULL
  /\ mode = [c \in CPUs |-> "sched"]
  /\ cproc = [c \in CPUs |-> NULL]
  /\ start = [c \in CPUs |-> 0]
  /\ fault = "none"

-----------------------------------------------------------------------------
(* scheduler().                                                            *)

\* The process resumes where it called sched(), holding ptable.lock: yield()
\* and forkret() release it, sleep() first clears p->chan and releases it
\* unless it was called with ptable.lock itself, by wait().
ResumePoint(p) ==
  CASE pc[p] = "wait" -> "scan"
    [] pc[p] = "tsleep" -> "twake"
    [] pc[p] = "spret" -> "user"
    [] OTHER -> pc[p]

ResumeLock(p, c) == IF pc[p] = "wait" THEN c ELSE NULL

\* One turn of the loop up to swtch().  Nothing runnable: the loop repeats.
\* The build reads ticks once for sch and start.
Dispatch(c, p) ==
  /\ mode[c] = "sched"
  /\ lk = NULL
  /\ plist # {}
  /\ Cardinality(plist) <= PLISTLEN
  /\ IsPicked(p)
  /\ start' = [start EXCEPT ![c] = ticks]
  /\ cproc' = [cproc EXCEPT ![c] = p]
  /\ state' = [state EXCEPT ![p] = "RUNNING"]
  /\ mode' = [mode EXCEPT ![c] = "run"]
  /\ chan' = [chan EXCEPT ![p] = NULL]
  /\ lk' = ResumeLock(p, c)
  /\ Goto(p, ResumePoint(p))
  /\ UNCHANGED <<pid, parent, killed, prio, localVars, nextpid, ticks, tl,
                 fault>>

\* Some process is runnable, none has priority mn: ticks % idx divides by 0.
DispatchDivide(c) ==
  /\ mode[c] = "sched"
  /\ lk = NULL
  /\ Runnable # {}
  /\ plist = {}
  /\ fault' = "divide"
  /\ lk' = c
  /\ UNCHANGED <<procVars, pc, localVars, nextpid, ticks, tl, cpuVars>>

\* More candidates than plist has entries: the loop writes past its end.
DispatchOverrun(c) ==
  /\ mode[c] = "sched"
  /\ lk = NULL
  /\ Cardinality(plist) > PLISTLEN
  /\ fault' = "plist"
  /\ lk' = c
  /\ UNCHANGED <<procVars, pc, localVars, nextpid, ticks, tl, cpuVars>>

\* swtch() returned: judge the turn by the ticks that passed, then release;
\* start is dead from here on.
Back(c) ==
  /\ mode[c] = "back"
  /\ prio' = [prio EXCEPT ![cproc[c]] = Adjusted(cproc[c], c)]
  /\ cproc' = [cproc EXCEPT ![c] = NULL]
  /\ mode' = [mode EXCEPT ![c] = "sched"]
  /\ start' = [start EXCEPT ![c] = 0]
  /\ lk' = NULL
  /\ UNCHANGED <<state, pid, parent, chan, killed, pc, localVars, nextpid,
                 ticks, tl, fault>>

-----------------------------------------------------------------------------
(* The timer interrupt in trap().                                          *)

\* CPU 0 takes tickslock and counts, whatever it was doing.
Tick(c) ==
  /\ c = 0
  /\ mode[c] \in {"sched", "run"}
  /\ Interruptible(c)
  /\ tl = NULL
  /\ tl' = c
  /\ ticks' = (ticks + 1) % TICKMOD
  /\ mode' = [mode EXCEPT ![c] = "tick"]
  /\ UNCHANGED <<procVars, pc, localVars, nextpid, lk, cproc, start, fault>>

\* wakeup(&ticks), release(&tickslock).  No process: back to the loop.
TickWakeup(c) ==
  /\ mode[c] = "tick"
  /\ lk = NULL
  /\ state' = Wakeup1(state, TICKS)
  /\ tl' = NULL
  /\ mode' = [mode EXCEPT ![c] = IF cproc[c] = NULL THEN "sched" ELSE "post"]
  /\ UNCHANGED <<pid, parent, chan, killed, prio, pc, localVars, nextpid,
                 ticks, lk, cproc, start, fault>>

\* The other CPUs only acknowledge the interrupt.
TimerOther(c) ==
  /\ c # 0
  /\ mode[c] = "run"
  /\ Interruptible(c)
  /\ mode' = [mode EXCEPT ![c] = "post"]
  /\ UNCHANGED <<procVars, pc, localVars, nextpid, ticks, lk, tl, cproc,
                 start, fault>>

\* "Force process to give up CPU on clock tick", unless it was killed in
\* user space: then Exit is next.
TimerYield(c) ==
  LET p == cproc[c] IN
  /\ mode[c] = "post"
  /\ pc[p] = "user" => ~killed[p]
  /\ lk = NULL
  /\ state' = [state EXCEPT ![p] = "RUNNABLE"]
  /\ Sched(c)
  /\ UNCHANGED <<pid, parent, chan, killed, prio, pc, localVars, nextpid,
                 ticks, tl, fault>>

-----------------------------------------------------------------------------
(* fork().                                                                 *)

\* p->pid = nextpid++.
TakesPid(s) ==
  /\ pid' = [pid EXCEPT ![s] = nextpid]
  /\ nextpid' = nextpid + 1

\* allocproc() up to its release().  The priority comes from the real-time
\* clock's seconds.  A full table makes fork() return -1.
ForkAlloc(c, p, s, q) ==
  /\ MayCall(c, p)
  /\ lk = NULL
  /\ nextpid < MaxPid
  /\ IsFirst(s, {t \in Slots : state[t] = "UNUSED"})
  /\ state' = [state EXCEPT ![s] = "EMBRYO"]
  /\ TakesPid(s)
  /\ prio' = [prio EXCEPT ![s] = q]
  /\ np' = [np EXCEPT ![p] = s]
  /\ Goto(p, "fork")
  /\ UNCHANGED <<parent, chan, killed, ticks0, n, ticks, lk, tl, cpuVars,
                 fault>>

\* kalloc() or copyuvm() finds no memory: the slot is given back without
\* the lock, its pid and killed flag as they are.
ForkFail(c, p) ==
  /\ Runs(c, p)
  /\ pc[p] = "fork"
  /\ state' = [state EXCEPT ![np[p]] = "UNUSED"]
  /\ np' = [np EXCEPT ![p] = NULL]
  /\ Goto(p, "user")
  /\ UNCHANGED <<pid, parent, chan, killed, prio, ticks0, n, nextpid, ticks,
                 lk, tl, cpuVars, fault>>

\* The rest of fork().  np->parent is written before the lock is taken, but
\* only the parent itself, in wait() or exit(), compares it with curproc.
ForkRun(c, p) ==
  /\ Runs(c, p)
  /\ pc[p] = "fork"
  /\ lk = NULL
  /\ parent' = [parent EXCEPT ![np[p]] = p]
  /\ state' = [state EXCEPT ![np[p]] = "RUNNABLE"]
  /\ np' = [np EXCEPT ![p] = NULL]
  /\ pc' = [pc EXCEPT ![p] = "user", ![np[p]] = "user"]
  /\ UNCHANGED <<pid, chan, killed, prio, ticks0, n, nextpid, ticks, lk, tl,
                 cpuVars, fault>>

-----------------------------------------------------------------------------
(* exit(), wait().                                                         *)

\* Mutant: init is not told of the zombies it inherits.
ExitStatesQuiet(p) == [Wakeup1(state, parent[p]) EXCEPT ![p] = "ZOMBIE"]

\* The states after exit() woke the parent, passed the children to init
\* (which wakes up if one of them is a zombie) and made p a zombie.
ExitStates(p) ==
  LET woken == Wakeup1(state, parent[p])
      orphanZombie == \E s \in Slots : parent[s] = p /\ state[s] = "ZOMBIE"
  IN  [IF orphanZombie THEN Wakeup1(woken, initproc) ELSE woken
        EXCEPT ![p] = "ZOMBIE"]

\* Mutant: only the zombies are passed to init.
ReparentedZombies(p) ==
  [s \in Slots |-> IF parent[s] = p /\ state[s] = "ZOMBIE"
                   THEN initproc ELSE parent[s]]

\* exit() passes the children of p to init.
Reparented(p) ==
  [s \in Slots |-> IF parent[s] = p THEN initproc ELSE parent[s]]

\* Mutant: trap() sends a killed process to exit() from kernel code too.
EntersExitAnywhere(c, p) ==
  /\ cproc[c] = p
  /\ \/ mode[c] = "run" /\ pc[p] = "user"
     \/ mode[c] = "post" /\ killed[p]

\* Called by the program, by trap() for a killed process on its way to user
\* space, or by trap() when the timer finds it there.
EntersExit(c, p) ==
  /\ cproc[c] = p
  /\ pc[p] = "user"
  /\ mode[c] = "run" \/ (mode[c] = "post" /\ killed[p])

\* The file system calls at the start of exit() are not part of this module.
Exit(c, p) ==
  /\ EntersExit(c, p)
  /\ p # initproc
  /\ lk = NULL
  /\ state' = ExitStates(p)
  /\ parent' = Reparented(p)
  /\ Goto(p, "dead")
  /\ Sched(c)
  /\ UNCHANGED <<pid, chan, killed, prio, localVars, nextpid, ticks, tl,
                 fault>>

\* init.c never leaves its loop while fork() works, so only kill() does it.
ExitInit(c) ==
  /\ EntersExit(c, initproc)
  /\ killed[initproc]
  /\ fault' = "init exiting"
  /\ UNCHANGED <<procVars, pc, localVars, nextpid, ticks, lk, tl, cpuVars>>

WaitCall(c, p) ==
  /\ MayCall(c, p)
  /\ lk = NULL
  /\ lk' = c
  /\ Goto(p, "scan")
  /\ UNCHANGED <<procVars, localVars, nextpid, ticks, tl, cpuVars, fault>>

Children(p) == {s \in Slots : parent[s] = p}
ZombieChildren(p) == {s \in Children(p) : state[s] = "ZOMBIE"}

\* The first zombie child in the table is freed and its pid returned.
WaitReap(c, p, s) ==
  /\ Runs(c, p)
  /\ pc[p] = "scan"
  /\ IsFirst(s, ZombieChildren(p))
  /\ pid' = [pid EXCEPT ![s] = 0]
  /\ parent' = [parent EXCEPT ![s] = NULL]
  /\ killed' = [killed EXCEPT ![s] = FALSE]
  /\ state' = [state EXCEPT ![s] = "UNUSED"]
  /\ prio' = [prio EXCEPT ![s] = 0]
  /\ lk' = NULL
  /\ Goto(p, "user")
  /\ UNCHANGED <<chan, localVars, nextpid, ticks, tl, cpuVars, fault>>

\* No children, or killed: wait() returns -1.
WaitNone(c, p) ==
  /\ Runs(c, p)
  /\ pc[p] = "scan"
  /\ ZombieChildren(p) = {}
  /\ Children(p) = {} \/ killed[p]
  /\ lk' = NULL
  /\ Goto(p, "user")
  /\ UNCHANGED <<procVars, localVars, nextpid, ticks, tl, cpuVars, fault>>

\* sleep(curproc, &ptable.lock).
WaitSleep(c, p) ==
  /\ Runs(c, p)
  /\ pc[p] = "scan"
  /\ ZombieChildren(p) = {}
  /\ Children(p) # {}
  /\ ~killed[p]
  /\ chan' = [chan EXCEPT ![p] = p]
  /\ state' = [state EXCEPT ![p] = "SLEEPING"]
  /\ Goto(p, "wait")
  /\ Sched(c)
  /\ UNCHANGED <<pid, parent, killed, prio, localVars, nextpid, ticks, tl,
                 fault>>

-----------------------------------------------------------------------------
(* sys_sleep().                                                            *)

SleepCall(c, p, k) ==
  /\ MayCall(c, p)
  /\ tl = NULL
  /\ tl' = c
  /\ ticks0' = [ticks0 EXCEPT ![p] = ticks]
  /\ n' = [n EXCEPT ![p] = k]
  /\ Goto(p, "tchk")
  /\ UNCHANGED <<procVars, np, nextpid, ticks, lk, cpuVars, fault>>

\* Time is up, or killed: release(&tickslock) and return, which is the end of
\* the locals.
SleepDone(c, p) ==
  /\ Runs(c, p)
  /\ pc[p] = "tchk"
  /\ ~StillWaiting(p) \/ killed[p]
  /\ tl' = NULL
  /\ ticks0' = [ticks0 EXCEPT ![p] = 0]
  /\ n' = [n EXCEPT ![p] = 0]
  /\ Goto(p, "user")
  /\ UNCHANGED <<procVars, np, nextpid, ticks, lk, cpuVars, fault>>

\* Mutant: tickslock is released before sleep() is called.
SleepAgainUnlocked(c, p) ==
  /\ Runs(c, p)
  /\ pc[p] = "tchk"
  /\ StillWaiting(p)
  /\ ~killed[p]
  /\ tl' = NULL
  /\ Goto(p, "tgo")
  /\ UNCHANGED <<procVars, localVars, nextpid, ticks, lk, cpuVars, fault>>

\* killed is read without ptable.lock: kill() may come after this step.
SleepAgain(c, p) ==
  /\ Runs(c, p)
  /\ pc[p] = "tchk"
  /\ StillWaiting(p)
  /\ ~killed[p]
  /\ Goto(p, "tgo")
  /\ UNCHANGED <<procVars, localVars, nextpid, ticks, lk, tl, cpuVars, fault>>

\* sleep(&ticks, &tickslock): ptable.lock first, then tickslock is released.
SleepEnter(c, p) ==
  /\ Runs(c, p)
  /\ pc[p] = "tgo"
  /\ lk = NULL
  /\ tl' = NULL
  /\ chan' = [chan EXCEPT ![p] = TICKS]
  /\ state' = [state EXCEPT ![p] = "SLEEPING"]
  /\ Goto(p, "tsleep")
  /\ Sched(c)
  /\ UNCHANGED <<pid, parent, killed, prio, localVars, nextpid, ticks, fault>>

\* The acquire(lk) at the end of sleep().
SleepReacquire(c, p) ==
  /\ Runs(c, p)
  /\ pc[p] = "twake"
  /\ tl = NULL
  /\ tl' = c
  /\ Goto(p, "tchk")
  /\ UNCHANGED <<procVars, localVars, nextpid, ticks, lk, cpuVars, fault>>

-----------------------------------------------------------------------------
(* kill(), setpriority().                                                  *)

\* The first slot with that pid, whatever its state.
Kill(c, p, k, s) ==
  /\ MayCall(c, p)
  /\ lk = NULL
  /\ IsFirst(s, {t \in Slots : pid[t] = k})
  /\ killed' = [killed EXCEPT ![s] = TRUE]
  /\ state' = [state EXCEPT ![s] = IF @ = "SLEEPING" THEN "RUNNABLE" ELSE @]
  /\ UNCHANGED <<pid, parent, chan, prio, pc, localVars, nextpid, ticks, lk,
                 tl, cpuVars, fault>>

\* sp() on the caller's own pid, up to its release().
SetPriority(c, p, q) ==
  /\ MayCall(c, p)
  /\ lk = NULL
  /\ prio' = [prio EXCEPT ![p] = q]
  /\ Goto(p, "sp")
  /\ UNCHANGED <<state, pid, parent, chan, killed, localVars, nextpid, ticks,
                 lk, tl, cpuVars, fault>>

\* The yield() at the end of sp().
SpYield(c, p) ==
  /\ Runs(c, p)
  /\ pc[p] = "sp"
  /\ lk = NULL
  /\ state' = [state EXCEPT ![p] = "RUNNABLE"]
  /\ Goto(p, "spret")
  /\ Sched(c)
  /\ UNCHANGED <<pid, parent, chan, killed, prio, localVars, nextpid, ticks,
                 tl, fault>>

-----------------------------------------------------------------------------
(* The system.  A fault stops it.                                          *)

\* Steps a CPU takes by itself once it executes scheduler() or a system call.
KernelStep(c) ==
  \/ \E p \in Slots : Dispatch(c, p)
  \/ DispatchDivide(c)
  \/ DispatchOverrun(c)
  \/ Back(c)
  \/ TimerYield(c)
  \/ ExitInit(c)
  \/ \E p \in Slots :
        \/ ForkFail(c, p)
        \/ ForkRun(c, p)
        \/ killed[p] /\ Exit(c, p)
        \/ \E s \in Slots : WaitReap(c, p, s)
        \/ WaitNone(c, p)
        \/ WaitSleep(c, p)
        \/ SleepDone(c, p)
        \/ SleepAgain(c, p)
        \/ SleepEnter(c, p)
        \/ SleepReacquire(c, p)
        \/ SpYield(c, p)

\* System calls a program may make, or not.
UserCall(c) ==
  \E p \in Slots :
    \/ \E s \in Slots, q \in 1 .. PRIOCAP : ForkAlloc(c, p, s, q)
    \/ ~killed[p] /\ Exit(c, p)
    \/ WaitCall(c, p)
    \/ \E k \in SleepArgs : SleepCall(c, p, k)
    \/ \E k \in KillPids, s \in Slots : Kill(c, p, k, s)
    \/ \E q \in PrioArgs : SetPriority(c, p, q)

TimerInterrupt(c) == Tick(c) \/ TimerOther(c)

Next ==
  /\ fault = "none"
  /\ \E c \in CPUs :
        KernelStep(c) \/ UserCall(c) \/ TimerInterrupt(c) \/ TickWakeup(c)

Spec == Init /\ [][Next]_vars

\* The timer handler ends, and between two interrupts a CPU gets on with the
\* code they interrupt, however often that is.  A pending interrupt is taken
\* when interrupts are on again, however often they are turned off.
Fairness ==
  \A c \in CPUs : /\ WF_vars(fault = "none" /\ TickWakeup(c))
                  /\ SF_vars(fault = "none" /\ KernelStep(c))
                  /\ SF_vars(fault = "none" /\ TimerInterrupt(c))

FairSpec == Spec /\ Fairness

-----------------------------------------------------------------------------
(* Properties.                                                             *)

Live(s) == state[s] \notin {"UNUSED", "EMBRYO"}
OnCpu(c) == mode[c] \in {"run", "tick", "post"} /\ cproc[c] # NULL

\* Every variable stays in its type.
TypeOK ==
  /\ state \in [Slots -> ProcStates]
  /\ pid \in [Slots -> Nat]
  /\ parent \in [Slots -> Slots \cup {NULL}]
  /\ chan \in [Slots -> Slots \cup {NULL, TICKS}]
  /\ killed \in [Slots -> BOOLEAN]
  /\ prio \in [Slots -> Nat]
  /\ pc \in [Slots -> Points]
  /\ np \in [Slots -> Slots \cup {NULL}]
  /\ ticks0 \in [Slots -> 0 .. TICKMOD - 1]
  /\ n \in [Slots -> Nat]
  /\ nextpid \in Nat \ {0}
  /\ ticks \in 0 .. TICKMOD - 1
  /\ lk \in CPUs \cup {NULL}
  /\ tl \in CPUs \cup {NULL}
  /\ mode \in [CPUs -> Modes]
  /\ cproc \in [CPUs -> Slots \cup {NULL}]
  /\ start \in [CPUs -> 0 .. TICKMOD - 1]
  /\ fault \in Faults

\* Two CPUs never have the same process, not even while one of them is still
\* on its way from sched() to the scheduler on that process's kernel stack;
\* a process is RUNNING exactly while a CPU executes it.
CpuOwnership ==
  /\ \A c, d \in CPUs : c # d /\ cproc[c] # NULL => cproc[c] # cproc[d]
  /\ \A c \in CPUs :
        /\ mode[c] \in {"run", "post", "back"} => cproc[c] # NULL
        /\ mode[c] = "sched" => cproc[c] = NULL
        /\ mode[c] = "back" =>
              state[cproc[c]] \in {"RUNNABLE", "SLEEPING", "ZOMBIE"}
        /\ OnCpu(c) => state[cproc[c]] = "RUNNING"
  /\ \A s \in Slots :
        state[s] = "RUNNING" => \E c \in CPUs : OnCpu(c) /\ cproc[c] = s

\* A lock is held exactly by the CPU whose code stands between its acquire()
\* and release(), across swtch() too; in particular no process gets to
\* sched() with tickslock still held ("sched locks"), and no CPU acquires a
\* lock it holds ("acquire").
LockDiscipline ==
  \A c \in CPUs :
    /\ fault = "none" =>
         (lk = c <=> \/ mode[c] = "back"
                     \/ mode[c] = "run" /\ pc[cproc[c]] = "scan")
    /\ tl = c <=> \/ mode[c] = "tick"
                  \/ mode[c] = "run" /\ pc[cproc[c]] \in {"tchk", "tgo"}

\* A process's state agrees with the place in the kernel it stopped at, and
\* a sleeper's channel with the reason it sleeps; init never dies.
StateMatchesCode ==
  /\ \A s \in Slots :
       /\ state[s] = "SLEEPING" =>
            \/ pc[s] = "wait" /\ chan[s] = s
            \/ pc[s] = "tsleep" /\ chan[s] = TICKS
       /\ state[s] = "RUNNABLE" =>
            pc[s] \in {"user", "fork", "wait", "tsleep", "twake", "sp",
                       "spret"}
       /\ state[s] = "ZOMBIE" => pc[s] = "dead"
       /\ state[s] = "RUNNING" =>
            pc[s] \in {"user", "fork", "scan", "tchk", "tgo", "twake", "sp"}
  /\ \A c \in CPUs : OnCpu(c) /\ mode[c] # "run" =>
       pc[cproc[c]] \in {"user", "fork", "twake", "sp"}
  /\ state[initproc] \notin {"UNUSED", "EMBRYO", "ZOMBIE"}

\* A slot is EMBRYO exactly while one fork() is filling it, although fork()
\* works on it, and gives it back, without ptable.lock.
EmbryoOwned ==
  /\ \A s \in Slots : np[s] # NULL =>
       /\ state[s] \in {"RUNNABLE", "RUNNING"} /\ pc[s] = "fork"
       /\ state[np[s]] = "EMBRYO"
  /\ \A s \in Slots : Live(s) /\ pc[s] = "fork" => np[s] # NULL
  /\ \A s, t \in Slots : s # t /\ np[s] # NULL => np[s] # np[t]
  /\ \A e \in Slots : state[e] = "EMBRYO" => \E s \in Slots : np[s] = e

\* Every process but init has a parent that can still wait() for it: exit()
\* leaves no child behind, whatever forks and exits race with it.
ParentLive ==
  /\ parent[initproc] = NULL
  /\ \A s \in Slots \ {initproc} :
       IF Live(s)
       THEN /\ parent[s] \in Slots \ {s}
            /\ Live(parent[s]) /\ state[parent[s]] # "ZOMBIE"
       ELSE parent[s] = NULL

\* No two slots in use have the same pid, and pids are not handed out twice.
PidUnique ==
  /\ \A s \in Slots : pid[s] < nextpid
  /\ \A s, t \in Slots :
       s # t /\ state[s] # "UNUSED" /\ state[t] # "UNUSED" => pid[s] # pid[t]

\* The process table agrees with itself, with the locks and with where each
\* process stands in proc.c, in the middle of every fork() and exit().
TableConsistent ==
  /\ TypeOK
  /\ LockDiscipline
  /\ StateMatchesCode
  /\ EmbryoOwned
  /\ PidUnique

\* A process asleep in wait() has something to wait for: a child, none of
\* them a zombie already, and it was not killed.  No exit() or kill() comes
\* between the scan and the sleep.
NoLostExit ==
  \A s \in Slots : state[s] = "SLEEPING" /\ pc[s] = "wait" =>
    Children(s) # {} /\ ZombieChildren(s) = {} /\ ~killed[s]

\* A process asleep in sys_sleep() whose time is up is about to be woken: no
\* tick is lost between the test of ticks and the sleep.
NoLostTick ==
  \A s \in Slots :
    (state[s] = "SLEEPING" /\ pc[s] = "tsleep")
      \/ (state[s] = "RUNNING" /\ pc[s] = "tgo") =>
        StillWaiting(s) \/ \E c \in CPUs : mode[c] = "tick"

\* The scheduler never divides by an empty candidate count, never writes
\* past plist, and init is not made to exit.
NoFault == fault = "none"

\* The division by zero has one cause: every runnable process has been moved
\* below the lowest priority that the scheduler's minimum starts from.  As
\* long as one has not, the machine keeps scheduling.
DivideMeansBelowMin ==
  fault = "divide" =>
    Runnable # {} /\ \A s \in Runnable : prio[s] > MNINIT

\* A turn that ends on CPU 0 is judged by how it ended: the timer costs a
\* process one level, giving the CPU up earlier gains it one.
JudgedOn(c) ==
  LET p == cproc[c] IN
  mode[c] = "back" /\ mode'[c] = "sched" /\ state[p] # "ZOMBIE" =>
    IF state[p] = "RUNNABLE" /\ pc[p] # "spret"
    THEN prio'[p] = IF prio[p] < PRIOCAP THEN prio[p] + 1 ELSE prio[p]
    ELSE prio'[p] = IF prio[p] > 0 THEN prio[p] - 1 ELSE 0

Cpu0Judgement == [][JudgedOn(0)]_vars

\* A slot handed out by allocproc() is not already marked as killed.
BornAlive ==
  [][\A s \in Slots : state[s] = "UNUSED" /\ state'[s] = "EMBRYO"
        => ~killed'[s]]_vars

\* Time passes for a sleeper: whoever sleeps in sys_sleep() is woken, or the
\* kernel stops.
SleepersWake ==
  \A s \in Slots :
    (state[s] = "SLEEPING" /\ pc[s] = "tsleep")
      ~> (state[s] # "SLEEPING" \/ fault # "none")

\* s waits for a CPU, its last turn judged.
Waiting(s) == state[s] = "RUNNABLE" /\ \A c \in CPUs : cproc[c] # s

\* Among programs that only compute, fork and wait, a process that waits for
\* the CPU below the cap gets it: whoever is preferred to it uses up its
\* turns and is demoted past it.
RunsBelowCap ==
  \A s \in Slots :
    (Waiting(s) /\ prio[s] < PRIOCAP) ~> (state[s] = "RUNNING")

\* "In order to avoid starvation, we periodically bump priorities of CPU
\* intensive processes as well": a process that waits for the CPU eventually
\* runs, or is at least among those that a CPU in scheduler() chooses from.
NoStarvation ==
  \A s \in Slots :
    Waiting(s) ~> \/ state[s] = "RUNNING"
                  \/ s \in plist /\ \E c \in CPUs : mode[c] = "sched"

=============================================================================
