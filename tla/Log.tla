-------------------------------- MODULE Log ---------------------------------
(***************************************************************************)
(* The write-ahead log of log.c, with crashes.  Each disk write is a step  *)
(* of its own, so that a crash may come between any two; a block is one    *)
(* disk sector (BSIZE), which the disk writes whole or not at all.         *)
(*                                                                         *)
(* The buffer cache is seen through its interface: cache is what bread()   *)
(* returns, dirty the buffers that B_DIRTY keeps from being recycled.      *)
(***************************************************************************)
EXTENDS Integers, Sequences, FiniteSets, Functions

CONSTANTS
  Procs,        \* processes that make file system calls
  Blocks,       \* block numbers outside of the log
  Vals,         \* block contents
  Zero,         \* what mkfs.c left in each block
  LOGSIZE,      \* entries of struct logheader
  MAXOPBLOCKS,  \* "max # of blocks any FS op writes"
  LogBlocks,    \* log.size, the superblock's nlog: header block included
  OpBlocks,     \* blocks a file system call really writes
  MaxCrash      \* bound: crashes in a behaviour

ASSUME LogAssumption ==
  /\ MAXOPBLOCKS \in Nat \ {0}
  /\ LOGSIZE \in Nat /\ LOGSIZE >= MAXOPBLOCKS     \* param.h: MAXOPBLOCKS*3
  /\ LogBlocks \in Nat /\ LogBlocks >= LOGSIZE     \* mkfs.c: nlog = LOGSIZE
  /\ OpBlocks \in 0 .. MAXOPBLOCKS
  /\ MaxCrash \in Nat
  /\ Zero \in Vals
  /\ IsFiniteSet(Procs) /\ IsFiniteSet(Blocks)

\* Where a process stands:
\*   idle    outside of a file system call
\*   asleep  in begin_op(), asleep on &log
\*   awake   in begin_op(), woken up, about to retest
\*   op      between begin_op() and end_op()
\*   write   in log_write(), past the checks, about to take log.lock
\*   commit  in end_op(), committing
Points == {"idle", "asleep", "awake", "op", "write", "commit"}

\* What the kernel does with the log:
\*   boot     about to run initlog()
\*   rinst    recover_from_log(), in install_trans()
\*   up       serving system calls, no commit under way
\*   wlog     commit(), in write_log()
\*   inst     commit(), in install_trans()
\*   done     back from commit()
Phases == {"boot", "rinst", "up", "wlog", "inst", "done"}

Faults == {"none", "too big a transaction"}

VARIABLES
  home, dlog, dhead,  \* on disk: home locations, log blocks, header
  cache, dirty,       \* the buffer cache
  lh,                 \* log.lh: lh.n is Len(lh)
  outstanding, committing,
  phase, tail,        \* control of commit() and recovery, their loop index
  pc, target,         \* per process: place, and block and value to write
  wrote,              \* per process: the blocks its call has written
  crashes, fault

diskVars == <<home, dlog, dhead>>
procVars == <<pc, target, wrote>>
vars == <<diskVars, cache, dirty, lh, outstanding, committing, phase, tail,
          procVars, crashes, fault>>

None == [block |-> 0, val |-> 0]   \* no target

\* wakeup(&log) after p has moved on to where.
Woken(p, where) ==
  [q \in Procs |-> IF q = p THEN where
                   ELSE IF pc[q] = "asleep" THEN "awake" ELSE pc[q]]

\* mkfs.c has written the disk with an empty log; the kernel boots.
Init ==
  /\ home = [b \in Blocks |-> Zero]
  /\ dlog = [i \in 1 .. LOGSIZE |-> Zero]
  /\ dhead = <<>>
  /\ cache = home
  /\ dirty = {}
  /\ lh = <<>>
  /\ outstanding = 0
  /\ committing = FALSE
  /\ phase = "boot"
  /\ tail = 0
  /\ pc = [p \in Procs |-> "idle"]
  /\ target = [p \in Procs |-> None]
  /\ wrote = [p \in Procs |-> {}]
  /\ crashes = 0
  /\ fault = "none"

-----------------------------------------------------------------------------
(* File system calls.                                                      *)

\* Mutant: the call that begins is not counted itself.
HasRoomOneShort == Len(lh) + outstanding * MAXOPBLOCKS <= LOGSIZE

\* begin_op() has room for a call that writes MAXOPBLOCKS blocks.
HasRoom == Len(lh) + (outstanding + 1) * MAXOPBLOCKS <= LOGSIZE

\* Past recovery: forkret() runs initlog() before the first process returns.
Booted == phase \notin {"boot", "rinst"}

BeginOp(p) ==
  /\ Booted
  /\ pc[p] \in {"idle", "awake"}
  /\ ~committing
  /\ HasRoom
  /\ outstanding' = outstanding + 1
  /\ pc' = [pc EXCEPT ![p] = "op"]
  /\ UNCHANGED <<diskVars, cache, dirty, lh, committing, phase, tail, target,
                 wrote, crashes, fault>>

BeginSleep(p) ==
  /\ Booted
  /\ pc[p] \in {"idle", "awake"}
  /\ committing \/ ~HasRoom
  /\ pc' = [pc EXCEPT ![p] = "asleep"]
  /\ UNCHANGED <<diskVars, cache, dirty, lh, outstanding, committing, phase,
                 tail, target, wrote, crashes, fault>>

\* log_write()'s checks, which read lh.n without log.lock.
TooBig == Len(lh) >= LOGSIZE \/ Len(lh) >= LogBlocks - 1

\* The caller has locked the buffer of block b, which excludes the others.
MayWrite(p, b) ==
  /\ pc[p] = "op"
  /\ Cardinality(wrote[p] \cup {b}) <= OpBlocks
  /\ \A q \in Procs : pc[q] = "write" => target[q].block # b

LogWriteCall(p, b, v) ==
  /\ MayWrite(p, b)
  /\ ~TooBig
  /\ pc' = [pc EXCEPT ![p] = "write"]
  /\ target' = [target EXCEPT ![p] = [block |-> b, val |-> v]]
  /\ UNCHANGED <<diskVars, cache, dirty, lh, outstanding, committing, phase,
                 tail, wrote, crashes, fault>>

LogWritePanic(p, b) ==
  /\ MayWrite(p, b)
  /\ TooBig
  /\ fault' = "too big a transaction"
  /\ UNCHANGED <<diskVars, cache, dirty, lh, outstanding, committing, phase,
                 tail, procVars, crashes>>

\* The block is logged once, however often it is written.
Absorb(b) == IF b \in Range(lh) THEN lh ELSE Append(lh, b)

\* Mutant: the buffer is not pinned with B_DIRTY.
LogWriteUnpinned(p) ==
  LET b == target[p].block IN
  /\ pc[p] = "write"
  /\ lh' = Absorb(b)
  /\ cache' = [cache EXCEPT ![b] = target[p].val]
  /\ pc' = [pc EXCEPT ![p] = "op"]
  /\ target' = [target EXCEPT ![p] = None]
  /\ wrote' = [wrote EXCEPT ![p] = @ \cup {b}]
  /\ UNCHANGED <<diskVars, dirty, outstanding, committing, phase, tail,
                 crashes, fault>>

\* The rest of log_write() and brelse(): from here on others see the new
\* contents of the buffer.
LogWrite(p) ==
  LET b == target[p].block IN
  /\ pc[p] = "write"
  /\ lh' = Absorb(b)
  /\ cache' = [cache EXCEPT ![b] = target[p].val]
  /\ dirty' = dirty \cup {b}
  /\ pc' = [pc EXCEPT ![p] = "op"]
  /\ target' = [target EXCEPT ![p] = None]
  /\ wrote' = [wrote EXCEPT ![p] = @ \cup {b}]
  /\ UNCHANGED <<diskVars, outstanding, committing, phase, tail, crashes,
                 fault>>

\* end_op().  Its panic, a commit under way, is excluded by CommitAlone.
\* Other calls are still under way: wake up those that wait for log space.
EndOp(p) ==
  /\ pc[p] = "op"
  /\ outstanding > 1
  /\ outstanding' = outstanding - 1
  /\ pc' = Woken(p, "idle")
  /\ wrote' = [wrote EXCEPT ![p] = {}]
  /\ UNCHANGED <<diskVars, cache, dirty, lh, committing, phase, tail, target,
                 crashes, fault>>

\* Mutant: the header is written before the log blocks.
EndOpCommitHeadFirst(p) ==
  /\ pc[p] = "op"
  /\ outstanding = 1
  /\ outstanding' = 0
  /\ committing' = TRUE
  /\ phase' = IF lh = <<>> THEN "done" ELSE "wlog"
  /\ dhead' = lh
  /\ pc' = [pc EXCEPT ![p] = "commit"]
  /\ wrote' = [wrote EXCEPT ![p] = {}]
  /\ UNCHANGED <<home, dlog, cache, dirty, lh, tail, target, crashes, fault>>

\* Mutant: a commit of a single block is put off.
EndOpCommitLazy(p) ==
  /\ pc[p] = "op"
  /\ outstanding = 1
  /\ outstanding' = 0
  /\ committing' = TRUE
  /\ phase' = IF Len(lh) <= 1 THEN "done" ELSE "wlog"
  /\ pc' = [pc EXCEPT ![p] = "commit"]
  /\ wrote' = [wrote EXCEPT ![p] = {}]
  /\ UNCHANGED <<diskVars, cache, dirty, lh, tail, target, crashes, fault>>

\* The last one commits; commit() does nothing for an empty log.
EndOpCommit(p) ==
  /\ pc[p] = "op"
  /\ outstanding = 1
  /\ outstanding' = 0
  /\ committing' = TRUE
  /\ phase' = IF lh = <<>> THEN "done" ELSE "wlog"
  /\ pc' = [pc EXCEPT ![p] = "commit"]
  /\ wrote' = [wrote EXCEPT ![p] = {}]
  /\ UNCHANGED <<diskVars, cache, dirty, lh, tail, target, crashes, fault>>

-----------------------------------------------------------------------------
(* commit(), run by the process at "commit", without log.lock.             *)

\* One turn of write_log()'s loop.
WriteLog ==
  /\ phase = "wlog"
  /\ tail < Len(lh)
  /\ dlog' = [dlog EXCEPT ![tail + 1] = cache[lh[tail + 1]]]
  /\ tail' = tail + 1
  /\ UNCHANGED <<home, dhead, cache, dirty, lh, outstanding, committing,
                 phase, procVars, crashes, fault>>

\* write_head(): "the true point at which the current transaction commits".
WriteHead ==
  /\ phase = "wlog"
  /\ tail = Len(lh)
  /\ dhead' = lh
  /\ phase' = "inst"
  /\ tail' = 0
  /\ UNCHANGED <<home, dlog, cache, dirty, lh, outstanding, committing,
                 procVars, crashes, fault>>

\* One turn of install_trans()'s loop, in commit() or at boot.
InstallTrans ==
  LET b == lh[tail + 1] IN
  /\ phase \in {"inst", "rinst"}
  /\ tail < Len(lh)
  /\ home' = [home EXCEPT ![b] = dlog[tail + 1]]
  /\ cache' = [cache EXCEPT ![b] = dlog[tail + 1]]
  /\ dirty' = dirty \ {b}
  /\ tail' = tail + 1
  /\ UNCHANGED <<dlog, dhead, lh, outstanding, committing, phase, procVars,
                 crashes, fault>>

\* log.lh.n = 0 and the second write_head(): the transaction is erased.
ClearLog ==
  /\ phase \in {"inst", "rinst"}
  /\ tail = Len(lh)
  /\ lh' = <<>>
  /\ dhead' = <<>>
  /\ phase' = IF phase = "inst" THEN "done" ELSE "up"
  /\ tail' = 0
  /\ UNCHANGED <<home, dlog, cache, dirty, outstanding, committing, procVars,
                 crashes, fault>>

\* Mutant: nobody is woken up after the commit.
CommittedQuiet(p) ==
  /\ phase = "done"
  /\ pc[p] = "commit"
  /\ committing' = FALSE
  /\ phase' = "up"
  /\ pc' = [pc EXCEPT ![p] = "idle"]
  /\ UNCHANGED <<diskVars, cache, dirty, lh, outstanding, tail, target, wrote,
                 crashes, fault>>

\* The end of end_op(), after commit().
Committed(p) ==
  /\ phase = "done"
  /\ pc[p] = "commit"
  /\ committing' = FALSE
  /\ phase' = "up"
  /\ pc' = Woken(p, "idle")
  /\ UNCHANGED <<diskVars, cache, dirty, lh, outstanding, tail, target, wrote,
                 crashes, fault>>

-----------------------------------------------------------------------------
(* Crash and recovery.                                                     *)

\* Memory is lost; what bread() will find is what the disk holds.
Crash ==
  /\ crashes < MaxCrash
  /\ cache' = home
  /\ dirty' = {}
  /\ lh' = <<>>
  /\ outstanding' = 0
  /\ committing' = FALSE
  /\ phase' = "boot"
  /\ tail' = 0
  /\ pc' = [p \in Procs |-> "idle"]
  /\ target' = [p \in Procs |-> None]
  /\ wrote' = [p \in Procs |-> {}]
  /\ crashes' = crashes + 1
  /\ fault' = "none"
  /\ UNCHANGED diskVars

\* initlog() and read_head().
ReadHead ==
  /\ phase = "boot"
  /\ lh' = dhead
  /\ phase' = "rinst"
  /\ UNCHANGED <<diskVars, cache, dirty, outstanding, committing, tail,
                 procVars, crashes, fault>>

-----------------------------------------------------------------------------
Step ==
  \/ \E p \in Procs :
        \/ BeginOp(p) \/ BeginSleep(p) \/ LogWrite(p)
        \/ EndOp(p) \/ EndOpCommit(p)
        \/ Committed(p)
        \/ \E b \in Blocks : LogWritePanic(p, b)
        \/ \E b \in Blocks, v \in Vals : LogWriteCall(p, b, v)
  \/ WriteLog \/ WriteHead \/ InstallTrans \/ ClearLog \/ ReadHead

Next == (fault = "none" /\ Step) \/ Crash

Spec == Init /\ [][Next]_vars

\* Commit and recovery run to their end, and so does each system call, after
\* however many writes.  Nobody has to begin one.
Fairness ==
  /\ WF_vars(fault = "none" /\ (WriteLog \/ WriteHead \/ InstallTrans
                                  \/ ClearLog \/ ReadHead))
  /\ \A p \in Procs :
        /\ WF_vars(fault = "none" /\ (LogWrite(p) \/ Committed(p)))
        /\ SF_vars(fault = "none" /\ (EndOp(p) \/ EndOpCommit(p)))

FairSpec == Spec /\ Fairness

-----------------------------------------------------------------------------
(* Properties.                                                             *)

InOp == {p \in Procs : pc[p] \in {"op", "write"}}

\* Every variable stays in its type; the log never outgrows its header.
TypeOK ==
  /\ home \in [Blocks -> Vals]
  /\ dlog \in [1 .. LOGSIZE -> Vals]
  /\ dhead \in Seq(Blocks) /\ Len(dhead) <= LOGSIZE
  /\ cache \in [Blocks -> Vals]
  /\ dirty \subseteq Blocks
  /\ lh \in Seq(Blocks) /\ Len(lh) <= LOGSIZE
  /\ outstanding \in Nat
  /\ committing \in BOOLEAN
  /\ phase \in Phases
  /\ tail \in 0 .. Len(lh)
  /\ pc \in [Procs -> Points]
  /\ target \in [Procs -> [block : Blocks, val : Vals] \cup {None}]
  /\ \A p \in Procs :
        IF pc[p] = "write" THEN target[p] \in [block : Blocks, val : Vals]
                           ELSE target[p] = None
  /\ wrote \in [Procs -> SUBSET Blocks]
  /\ crashes \in Nat
  /\ fault \in Faults

\* A commit has the log for itself: no system call is between begin_op() and
\* end_op() while commit() works without log.lock, so end_op() never panics
\* ("log.committing"), and outstanding counts exactly the calls under way.
CommitAlone ==
  /\ outstanding = Cardinality(InOp)
  /\ committing => InOp = {}

\* B_DIRTY marks enough: a buffer that may be recycled holds what its home
\* location on disk holds, so that reading it again loses no update.
CleanIsHome == Booted => \A b \in Blocks \ dirty : cache[b] = home[b]

\* What the disk would hold after a crash now and recovery.
Recovered ==
  [b \in Blocks |-> IF b \in Range(dhead)
                    THEN dlog[CHOOSE i \in DOMAIN dhead : dhead[i] = b]
                    ELSE home[b]]

\* Between system calls everything is durable: the end_op() that leaves the
\* log idle returns after its commit.
DurableWhenIdle == phase = "up" /\ outstanding = 0 => Recovered = cache

\* Who has written what since its begin_op().
WrittenBy(P) == {w \in P \X Blocks : w[2] \in wrote[w[1]]}

\* The blocks that the calls under way may still write.
StillAllowed ==
  Cardinality(InOp) * MAXOPBLOCKS - Cardinality(WrittenBy(InOp))

\* The space begin_op() sets aside is enough: what is in the log and what the
\* calls under way may still add fit together, whatever log_write() absorbs.
\* log_write(), whose limit is one block lower, then panics only when the calls
\* use what was set aside for them to the last block but one.
SpaceReserved ==
  /\ Len(lh) + StillAllowed <= LOGSIZE
  /\ fault = "too big a transaction" => StillAllowed <= 1

\* Whoever sleeps in begin_op() has somebody to wake it up: a call under way
\* or a commit.
SleeperHasWaker ==
  \A p \in Procs : pc[p] = "asleep" => outstanding > 0 \/ committing

\* log.c keeps its counts, its buffers and its sleepers right around a commit
\* that works without log.lock, also after a crash.
LogConsistent ==
  /\ TypeOK
  /\ CommitAlone
  /\ CleanIsHome
  /\ SpaceReserved
  /\ SleeperHasWaker

\* Whoever sleeps in begin_op() is woken up, or the machine stops.
SleeperWoken ==
  \A p \in Procs : pc[p] = "asleep" ~> (pc[p] # "asleep" \/ fault # "none")

\* What calls see, and what a recovery would make of the disk.
Atomic ==
  INSTANCE LogAbs WITH current <- IF Booted THEN cache ELSE Recovered,
                       durable <- Recovered,
                       active <- InOp

\* Commit and recovery are atomic: whatever the crash interrupts, the disk
\* goes from one state between system calls to a later one.
RefinesAtomic == Atomic!ASpec

=============================================================================
