------------------------------ MODULE Spinlock ------------------------------
(***************************************************************************)
(* Spin locks and the nesting of cli (spinlock.c), one memory access at a  *)
(* time.  On every CPU a kernel thread takes locks in their order and      *)
(* gives them back in any; an interrupt handler, which may come whenever   *)
(* interrupts are on, takes lock 1 (tickslock, say) and returns.           *)
(***************************************************************************)
EXTENDS Integers, FiniteSets

CONSTANTS
  Cores,        \* the CPUs
  NLOCK         \* locks 1 .. NLOCK

Locks == 1 .. NLOCK

ASSUME SpinAssumption == NLOCK \in Nat \ {0} /\ 0 \notin Cores

VARIABLES
  locked,       \* lk->locked
  lkcpu,        \* lk->cpu, 0 for none
  IF_,          \* FL_IF of each CPU's eflags
  ncli, intena, \* of struct cpu
  frames,       \* of each CPU: 1, its thread, and 2, the handler on top of it
  depth,        \* the frame that runs
  spinFault     \* the panic that stopped the machine

spinVars == <<locked, lkcpu, IF_, ncli, intena, frames, depth, spinFault>>

\* A frame: where it is, the lock that is meant, the locks it holds and what
\* readeflags() or the first half of holding() gave it.
Frame == [pc |-> "idle", lk |-> 0, held |-> {}, saw |-> FALSE]

SpinInit ==
  /\ locked = [l \in Locks |-> FALSE] /\ lkcpu = [l \in Locks |-> 0]
  /\ IF_ = [c \in Cores |-> TRUE]
  /\ ncli = [c \in Cores |-> 0] /\ intena = [c \in Cores |-> FALSE]
  /\ frames = [c \in Cores |-> [k \in 1 .. 2 |-> Frame]]
  /\ depth = [c \in Cores |-> 1]
  /\ spinFault = "none"

Top(c) == frames[c][depth[c]]
PcIs(c, pc) == Top(c).pc = pc
SetTop(c, f) ==
  /\ frames' = [frames EXCEPT ![c][depth[c]] = f]
  /\ UNCHANGED depth
Goto(c, pc) == SetTop(c, [Top(c) EXCEPT !.pc = pc])

-----------------------------------------------------------------------------
(* acquire(lk).                                                            *)

\* The call, and eflags = readeflags() of pushcli().
CallAcquire(c) ==
  /\ PcIs(c, "idle")
  /\ \E l \in Locks :
       /\ IF depth[c] = 1 THEN \A h \in Top(c).held : h < l
                                ELSE l = 1 /\ Top(c).held = {}
       /\ SetTop(c, [Top(c) EXCEPT !.pc = "cli", !.lk = l, !.saw = IF_[c]])
  /\ UNCHANGED <<locked, lkcpu, IF_, ncli, intena, spinFault>>

\* if(ncli == 0) intena = eflags & FL_IF.
Saved(c) == IF ncli[c] = 0 THEN Top(c).saw ELSE intena[c]

Cli(c) == IF_' = [IF_ EXCEPT ![c] = FALSE]

Pushcli(c) ==
  /\ PcIs(c, "cli")
  /\ Cli(c)
  /\ intena' = [intena EXCEPT ![c] = Saved(c)]
  /\ ncli' = [ncli EXCEPT ![c] = @ + 1]
  /\ Goto(c, "holding")
  /\ UNCHANGED <<locked, lkcpu, spinFault>>

\* holding() reads lk->locked and then lk->cpu, for acquire() and release(); its
\* own pushcli() and popcli() cancel out.
HoldingLocked(c) ==
  /\ Top(c).pc \in {"holding", "release"}
  /\ SetTop(c, [Top(c) EXCEPT !.saw = locked[Top(c).lk],
                              !.pc = IF @ = "holding" THEN "acquire?" ELSE "release?"])
  /\ UNCHANGED <<locked, lkcpu, IF_, ncli, intena, spinFault>>

HoldingCpu(c) ==
  LET held == Top(c).saw /\ lkcpu[Top(c).lk] = c IN
  /\ Top(c).pc \in {"acquire?", "release?"}
  /\ spinFault' = IF PcIs(c, "acquire?") = held THEN Top(c).pc ELSE spinFault
  /\ Goto(c, IF PcIs(c, "acquire?") THEN "xchg" ELSE "clear")
  /\ UNCHANGED <<locked, lkcpu, IF_, ncli, intena>>

\* The xchg that finds 0; the ones before it change nothing.
Xchg(c) ==
  LET l == Top(c).lk IN
  /\ PcIs(c, "xchg") /\ ~locked[l]
  /\ locked' = [locked EXCEPT ![l] = TRUE]
  /\ SetTop(c, [Top(c) EXCEPT !.pc = "owner", !.held = @ \cup {l}])
  /\ UNCHANGED <<lkcpu, IF_, ncli, intena, spinFault>>

SetCpu(c) ==
  /\ PcIs(c, "owner")
  /\ lkcpu' = [lkcpu EXCEPT ![Top(c).lk] = c]
  /\ SetTop(c, [Top(c) EXCEPT !.pc = "idle", !.lk = 0])
  /\ UNCHANGED <<locked, IF_, ncli, intena, spinFault>>

-----------------------------------------------------------------------------
(* release(lk).                                                            *)

CallRelease(c) ==
  /\ PcIs(c, "idle")
  /\ \E l \in Top(c).held : SetTop(c, [Top(c) EXCEPT !.pc = "release", !.lk = l])
  /\ UNCHANGED <<locked, lkcpu, IF_, ncli, intena, spinFault>>

\* Mutant: release() leaves lk->cpu alone.
ClearedNot(c) == lkcpu

\* lk->cpu = 0.
Cleared(c) == [lkcpu EXCEPT ![Top(c).lk] = 0]

ClearCpu(c) ==
  /\ PcIs(c, "clear")
  /\ lkcpu' = Cleared(c)
  /\ Goto(c, "unlock")
  /\ UNCHANGED <<locked, IF_, ncli, intena, spinFault>>

\* movl $0, lk->locked.
Unlock(c) ==
  /\ PcIs(c, "unlock")
  /\ locked' = [locked EXCEPT ![Top(c).lk] = FALSE]
  /\ SetTop(c, [Top(c) EXCEPT !.pc = "popcli", !.held = @ \ {Top(c).lk}])
  /\ UNCHANGED <<lkcpu, IF_, ncli, intena, spinFault>>

Popcli(c) ==
  /\ PcIs(c, "popcli")
  /\ ncli' = [ncli EXCEPT ![c] = @ - 1]
  /\ spinFault' = IF IF_[c] \/ ncli[c] = 0 THEN "popcli" ELSE spinFault
  /\ IF_' = [IF_ EXCEPT ![c] = @ \/ (ncli[c] = 1 /\ intena[c])]
  /\ SetTop(c, [Top(c) EXCEPT !.pc = "idle", !.lk = 0, !.saw = FALSE])
  /\ UNCHANGED <<locked, lkcpu, intena>>

-----------------------------------------------------------------------------
(* Interrupts.  The gate turns IF off, and iret turns it on again.         *)

Interrupt(c) ==
  /\ IF_[c] /\ depth[c] = 1
  /\ IF_' = [IF_ EXCEPT ![c] = FALSE]
  /\ frames' = [frames EXCEPT ![c][2] = Frame]
  /\ depth' = [depth EXCEPT ![c] = 2]
  /\ UNCHANGED <<locked, lkcpu, ncli, intena, spinFault>>

Iret(c) ==
  /\ depth[c] = 2 /\ PcIs(c, "idle") /\ Top(c).held = {}
  /\ IF_' = [IF_ EXCEPT ![c] = TRUE]
  /\ depth' = [depth EXCEPT ![c] = 1]
  /\ UNCHANGED <<locked, lkcpu, ncli, intena, frames, spinFault>>

CoreStep(c) ==
  \/ CallAcquire(c) \/ Pushcli(c) \/ HoldingLocked(c) \/ HoldingCpu(c) \/ Xchg(c) \/ SetCpu(c)
  \/ CallRelease(c) \/ ClearCpu(c) \/ Unlock(c) \/ Popcli(c) \/ Interrupt(c) \/ Iret(c)

SpinNext == spinFault = "none" /\ \E c \in Cores : CoreStep(c)

SpinSpec == SpinInit /\ [][SpinNext]_spinVars

-----------------------------------------------------------------------------
(* Properties.                                                             *)

HeldOn(c) == UNION {frames[c][k].held : k \in 1 .. depth[c]}

\* No two frames hold one lock, and a CPU that holds or is about to take one has
\* its interrupts off, so that no handler spins on the lock of the thread below it:
\* "disable interrupts to avoid deadlock".
HeldMeansOff ==
  /\ \A c, d \in Cores : c # d => HeldOn(c) \cap HeldOn(d) = {}
  /\ \A c \in Cores : HeldOn(c) # {} \/ Top(c).pc = "xchg" => ~IF_[c]

\* Neither acquire() and release() nor popcli() panics, though holding() reads
\* lk->locked and lk->cpu while other CPUs change them.
NoSpinPanic == spinFault = "none"

\* "it takes two popcli to undo two pushcli": ncli counts the locks, and with the
\* last one the CPU has its interrupts back as they were: on in a thread, off in a
\* handler.
CliMatched ==
  \A c \in Cores :
    PcIs(c, "idle") =>
      /\ ncli[c] = Cardinality(HeldOn(c))
      /\ HeldOn(c) = {} => IF_[c] = (depth[c] = 1)

\* acquire(), release() and the nesting of pushcli() give what the rest of the
\* kernel takes for granted: exclusion, no interrupt meanwhile, and no panic.
SpinlocksSound ==
  /\ HeldMeansOff
  /\ NoSpinPanic
  /\ CliMatched
=============================================================================
