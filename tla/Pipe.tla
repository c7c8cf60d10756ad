-------------------------------- MODULE Pipe --------------------------------
(***************************************************************************)
(* A pipe between processes: pipewrite(), piperead() and pipeclose().      *)
(*                                                                         *)
(* A process takes p->lock, runs, and sleeps or releases the lock.  Before *)
(* it sleeps it tests p->killed, still with the lock, which kill() does    *)
(* not need: the test and sleep() are two steps.                           *)
(***************************************************************************)
EXTENDS Integers, Sequences, FiniteSets

CONSTANTS
  Writers, Readers,   \* processes that have one end of the pipe open
  PIPESIZE,           \* bytes in the ring
  WRAP,               \* nread and nwrite count modulo 2^32
  Bytes,
  Counts              \* the n of a call

ASSUME PipeAssumption ==
  /\ PIPESIZE \in Nat \ {0} /\ WRAP \in Nat /\ WRAP > PIPESIZE
  /\ WRAP % PIPESIZE = 0
  /\ Writers \cap Readers = {} /\ 0 \notin Writers \cup Readers
  /\ Bytes # {} /\ Counts \subseteq Nat

Users == Writers \cup Readers
Nobody == 0

VARIABLES
  ring,               \* p->data
  nread, nwrite,      \* p->nread, p->nwrite
  readopen, writeopen,
  plock,              \* who holds p->lock across steps
  at,                 \* where each process is
  left,               \* bytes its call has still to move
  given,              \* what a reader's call has read
  pkilled,            \* processes with p->killed
  stale               \* history: a killed writer has left the pipe full

ringVars == <<ring, nread, nwrite>>
openVars == <<readopen, writeopen>>
pipeVars == <<ringVars, openVars, plock, at, left, given, pkilled, stale>>

\* out: not in a call; call: waits for p->lock; run: has it; copy: has it and
\* reads; doze: has it and is about to sleep; gone: has closed its end.
Points == {"out", "call", "run", "copy", "doze", "asleep", "gone"}

PipeInit ==
  /\ ring = [i \in 0 .. PIPESIZE - 1 |-> CHOOSE b \in Bytes : TRUE]
  /\ nread = 0 /\ nwrite = 0
  /\ readopen = TRUE /\ writeopen = TRUE
  /\ plock = Nobody
  /\ at = [p \in Users |-> "out"]
  /\ left = [p \in Users |-> 0]
  /\ given = [p \in Readers |-> <<>>]
  /\ pkilled = {}
  /\ stale = FALSE

-----------------------------------------------------------------------------
\* p->nwrite == p->nread + PIPESIZE
Full == nwrite = (nread + PIPESIZE) % WRAP

Empty == nread = nwrite

\* Mutant: only one of the processes that sleep on a channel is woken.
WokenOne(ps) ==
  LET S == {p \in ps : at[p] = "asleep"} IN
  [p \in Users |-> IF S # {} /\ p = CHOOSE q \in S : TRUE THEN "call" ELSE at[p]]

\* wakeup(): the processes ps that sleep on one channel compete for the lock.
Woken(ps) ==
  [p \in Users |-> IF p \in ps /\ at[p] = "asleep" THEN "call" ELSE at[p]]

\* A system call, unless trap() makes the process exit first.
PipeCall(p, n) ==
  /\ at[p] = "out" /\ p \notin pkilled
  /\ at' = [at EXCEPT ![p] = "call"]
  /\ left' = [left EXCEPT ![p] = n]
  /\ given' = [q \in Readers |-> IF q = p THEN <<>> ELSE given[q]]
  /\ UNCHANGED <<ringVars, openVars, plock, pkilled, stale>>

\* acquire(&p->lock), at the start of a call and at the end of sleep().
PipeLock(p) ==
  /\ at[p] = "call" /\ plock = Nobody
  /\ at' = [at EXCEPT ![p] = "run"]
  /\ plock' = p
  /\ UNCHANGED <<ringVars, openVars, left, given, pkilled, stale>>

\* The end of sleep(): off the CPU, with the lock released.
PipeSleep(p) ==
  /\ at[p] = "doze"
  /\ at' = [at EXCEPT ![p] = "asleep"]
  /\ plock' = Nobody
  /\ UNCHANGED <<ringVars, openVars, left, given, pkilled, stale>>

-----------------------------------------------------------------------------
(* pipewrite().                                                            *)

\* Mutant: the index runs past the end of the ring.
SlotStuck(n) == 0

Slot(n) == n % PIPESIZE

PutByte(p, b) ==
  /\ p \in Writers /\ at[p] = "run" /\ left[p] > 0 /\ ~Full
  /\ ring' = [ring EXCEPT ![Slot(nwrite)] = b]
  /\ nwrite' = (nwrite + 1) % WRAP
  /\ left' = [left EXCEPT ![p] = @ - 1]
  /\ UNCHANGED <<nread, openVars, plock, at, given, pkilled, stale>>

\* No room: give up, without a wakeup, if nobody will read or the process was
\* killed; else wake up the readers and sleep.
PipewriteFull(p) ==
  /\ p \in Writers /\ at[p] = "run" /\ left[p] > 0 /\ Full
  /\ IF ~readopen \/ p \in pkilled
     THEN /\ at' = [at EXCEPT ![p] = "out"]
          /\ left' = [left EXCEPT ![p] = 0]
          /\ plock' = Nobody
          /\ stale' = TRUE
     ELSE /\ at' = [Woken(Readers) EXCEPT ![p] = "doze"]
          /\ stale' = FALSE
          /\ UNCHANGED <<left, plock>>
  /\ UNCHANGED <<ringVars, openVars, given, pkilled>>

PipewriteDone(p) ==
  /\ p \in Writers /\ at[p] = "run" /\ left[p] = 0
  /\ at' = [Woken(Readers) EXCEPT ![p] = "out"]
  /\ plock' = Nobody
  /\ stale' = FALSE
  /\ UNCHANGED <<ringVars, openVars, left, given, pkilled>>

-----------------------------------------------------------------------------
(* piperead().                                                             *)

\* p->nread == p->nwrite && p->writeopen
MustWait == Empty /\ writeopen

PipereadWait(p) ==
  /\ p \in Readers /\ at[p] = "run" /\ MustWait
  /\ IF p \in pkilled
     THEN /\ at' = [at EXCEPT ![p] = "out"]
          /\ left' = [left EXCEPT ![p] = 0]
          /\ plock' = Nobody
     ELSE /\ at' = [at EXCEPT ![p] = "doze"]
          /\ UNCHANGED <<left, plock>>
  /\ UNCHANGED <<ringVars, openVars, given, pkilled, stale>>

PipereadStart(p) ==
  /\ p \in Readers /\ at[p] = "run" /\ ~MustWait
  /\ at' = [at EXCEPT ![p] = "copy"]
  /\ UNCHANGED <<ringVars, openVars, plock, left, given, pkilled, stale>>

TakeByte(p) ==
  /\ at[p] = "copy" /\ left[p] > 0 /\ ~Empty
  /\ given' = [given EXCEPT ![p] = Append(@, ring[Slot(nread)])]
  /\ nread' = (nread + 1) % WRAP
  /\ left' = [left EXCEPT ![p] = @ - 1]
  /\ UNCHANGED <<ring, nwrite, openVars, plock, at, pkilled, stale>>

PipereadDone(p) ==
  /\ at[p] = "copy" /\ (left[p] = 0 \/ Empty)
  /\ at' = [Woken(Writers) EXCEPT ![p] = "out"]
  /\ left' = [left EXCEPT ![p] = 0]
  /\ plock' = Nobody
  /\ UNCHANGED <<ringVars, openVars, given, pkilled, stale>>

-----------------------------------------------------------------------------
\* Mutant: the processes at the other end are not told.
ToldNone(p) == at

\* Who is woken up when p is the last to close its end.
Told(p) == IF p \in Writers THEN Woken(Readers) ELSE Woken(Writers)

\* A process closes its end, or exits; the last one calls pipeclose().
Pipeclose(p) ==
  LET lastOf(ps) == p \in ps /\ \A q \in ps \ {p} : at[q] = "gone" IN
  /\ at[p] = "out" /\ plock = Nobody
  /\ writeopen' = (writeopen /\ ~lastOf(Writers))
  /\ readopen' = (readopen /\ ~lastOf(Readers))
  /\ at' = [(IF lastOf(Writers) \/ lastOf(Readers) THEN Told(p) ELSE at)
              EXCEPT ![p] = "gone"]
  /\ stale' = (stale /\ ~lastOf(Writers))
  /\ UNCHANGED <<ringVars, plock, left, given, pkilled>>

\* kill() in proc.c: mark the process and wake it up if it is asleep.
PipeKill(p) ==
  /\ at[p] # "gone" /\ p \notin pkilled
  /\ pkilled' = pkilled \cup {p}
  /\ at' = Woken({p})
  /\ UNCHANGED <<ringVars, openVars, plock, left, given, stale>>

-----------------------------------------------------------------------------
\* What a process does inside a call.
PipeStep(p) ==
  \/ PipeLock(p) \/ PipeSleep(p)
  \/ (\E b \in Bytes : PutByte(p, b)) \/ PipewriteFull(p) \/ PipewriteDone(p)
  \/ PipereadWait(p) \/ PipereadStart(p) \/ TakeByte(p) \/ PipereadDone(p)

PipeNext ==
  \E p \in Users :
    \/ PipeStep(p) \/ Pipeclose(p) \/ PipeKill(p)
    \/ \E n \in Counts : PipeCall(p, n)

\* Calls run; nobody has to begin one or to close the pipe.
PipeFairness == \A p \in Users : WF_pipeVars(PipeStep(p))

PipeSpec == PipeInit /\ [][PipeNext]_pipeVars /\ PipeFairness

-----------------------------------------------------------------------------
(* Properties.                                                             *)

Count == (nwrite - nread) % WRAP

\* Every variable stays in its type; nwrite is never more than PIPESIZE ahead
\* of nread, also when the counters wrap.
PipeTypeOK ==
  /\ ring \in [0 .. PIPESIZE - 1 -> Bytes]
  /\ nread \in 0 .. WRAP - 1 /\ nwrite \in 0 .. WRAP - 1 /\ Count <= PIPESIZE
  /\ readopen \in BOOLEAN /\ writeopen \in BOOLEAN
  /\ plock \in Users \cup {Nobody}
  /\ at \in [Users -> Points]
  /\ \A p \in Users : at[p] \in {"run", "copy", "doze"} <=> plock = p
  /\ left \in [Users -> Nat]
  /\ given \in [Readers -> Seq(Bytes)]
  /\ pkilled \subseteq Users

\* What the readers see of the ring: its bytes between nread and nwrite.
Pending == [i \in 1 .. Count |-> ring[(nread + i - 1) % PIPESIZE]]

Queue == INSTANCE Fifo WITH Capacity <- PIPESIZE, queue <- Pending

\* A pipe is a FIFO of PIPESIZE bytes, whoever writes, reads, sleeps, is killed
\* or closes it meanwhile.
IsFifo == Queue!FSpec

\* A reader sleeps only while there is nothing to read and somebody may still
\* write, and a writer only while there is no room and somebody may still
\* read: no wakeup is lost.  The exception is in the code: a writer that finds
\* itself killed leaves a full pipe without waking the readers up.
SleepJustified ==
  \A p \in Users : at[p] = "asleep" /\ plock = Nobody =>
    IF p \in Readers THEN writeopen /\ (Empty \/ stale)
                     ELSE readopen /\ Full

\* Counters and sleepers of pipewrite() and piperead() are right at every hold of
\* p->lock, whoever is killed and when.
PipeConsistent ==
  /\ PipeTypeOK
  /\ SleepJustified

\* piperead() returns nothing only at the end of the stream: the write end is
\* closed and everything in the pipe has been read.  (Or if nothing was asked.)
ZeroMeansEof ==
  [][\A p \in Readers :
       at[p] = "copy" /\ at'[p] = "out" /\ given[p] = <<>> /\ left[p] > 0
         => ~writeopen /\ Empty]_pipeVars

\* Once the write end is closed every piperead() returns.
EofReachesReaders ==
  \A p \in Readers : (~writeopen /\ at[p] \notin {"out", "gone"})
                       ~> at[p] \in {"out", "gone"}

\* End of file: piperead() reports it when it is so, and every reader gets it.
EndOfStream ==
  /\ ZeroMeansEof
  /\ EofReachesReaders

=============================================================================
