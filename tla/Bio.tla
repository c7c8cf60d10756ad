-------------------------------- MODULE Bio ---------------------------------
(***************************************************************************)
(* The buffer cache (bio.c), its sleep locks (sleeplock.c) and the disk    *)
(* driver underneath (ide.c).                                              *)
(*                                                                         *)
(* A step is what a process or the interrupt does under one hold of        *)
(* bcache.lock, of a sleep lock's spin lock or of idelock.  A process uses *)
(* one buffer at a time.                                                   *)
(***************************************************************************)
EXTENDS Integers, Sequences, FiniteSets, Functions

CONSTANTS
  Procs,      \* processes
  NBUF,       \* number of buffers
  Blocks,     \* blocks of the disk
  Written,    \* the blocks that processes write
  Vals,       \* contents of a block
  Zero,       \* what every block and buffer holds at first
  MaxPin,     \* blocks the log keeps pinned with B_DIRTY at a time
  MaxError    \* bound on failing reads

ASSUME BioAssumption ==
  NBUF \in Nat \ {0} /\ Zero \in Vals /\ 0 \notin Procs /\ 0 \notin Blocks
  /\ Written \subseteq Blocks /\ IsFiniteSet(Procs)

Bufs == 1 .. NBUF
NoBuf == 0
NoProc == 0
NoBlock == 0
Idle == [block |-> NoBlock, write |-> FALSE, val |-> Zero]

VARIABLES
  block,      \* b->blockno
  refcnt,     \* b->refcnt
  valid,      \* buffers with B_VALID in b->flags
  dirty,      \* buffers with B_DIRTY in b->flags
  data,       \* b->data
  holder,     \* b->lock: the process that set locked
  lru,        \* the list from head.next to head.prev
  idequeue,   \* the list of requests
  hw,         \* the command the controller works on
  disk,       \* contents of the disk
  pc,         \* where each process is
  cur,        \* the buffer it uses
  last,       \* history: what was last written to each block
  failed,     \* history: buffers whose read failed
  errors,     \* history: failing reads so far
  fault       \* the panic that stopped the machine

cacheVars == <<block, refcnt, lru>>
flagVars == <<valid, dirty>>
ideVars == <<idequeue, hw, disk, errors>>
histVars == <<last, failed>>
bioVars == <<cacheVars, flagVars, data, holder, ideVars, pc, cur, histVars, fault>>

\* out: not in the cache; acq: in acquiresleep(); asleep: sleeping there;
\* got: has the lock in bread(); ide: asleep in iderw(); woke: woken there;
\* held: bread() has returned; rel: in brelse(), the lock released.
BufPoints == {"out", "acq", "asleep", "got", "ide", "woke", "held", "rel"}

\* binit(), initsleeplock() and ideinit().
BioInit ==
  /\ block = [b \in Bufs |-> NoBlock]
  /\ refcnt = [b \in Bufs |-> 0]
  /\ valid = {} /\ dirty = {}
  /\ data = [b \in Bufs |-> Zero]
  /\ holder = [b \in Bufs |-> NoProc]
  /\ lru = [i \in Bufs |-> NBUF + 1 - i]
  /\ idequeue = <<>>
  /\ hw = Idle
  /\ disk = [k \in Blocks |-> Zero]
  /\ pc = [p \in Procs |-> "out"]
  /\ cur = [p \in Procs |-> NoBuf]
  /\ last = [k \in Blocks |-> Zero]
  /\ failed = {} /\ errors = 0
  /\ fault = "none"

-----------------------------------------------------------------------------
(* bget().                                                                 *)

Cached(k) == {b \in Bufs : block[b] = k}

\* Mutant: B_DIRTY does not protect a buffer.
RecyclableDirty(b) == refcnt[b] = 0

\* "Even if refcnt==0, B_DIRTY indicates a buffer is in use because log.c has
\* modified it but not yet committed it."
Recyclable(b) == refcnt[b] = 0 /\ b \notin dirty

Missing(k) == Cached(k) = {}

ClearsFlags(b) == valid \ {b}

\* "Is the block already cached?"
BgetHit(p, k) ==
  /\ pc[p] = "out"
  /\ \E b \in Cached(k) :
       /\ refcnt' = [refcnt EXCEPT ![b] = @ + 1]
       /\ cur' = [cur EXCEPT ![p] = b]
  /\ pc' = [pc EXCEPT ![p] = "acq"]
  /\ UNCHANGED <<block, lru, flagVars, data, holder, ideVars, histVars, fault>>

\* The second loop of bget(), from head.prev: the one released longest ago.
Victim ==
  lru[CHOOSE i \in Bufs : /\ Recyclable(lru[i])
                          /\ \A j \in Bufs : Recyclable(lru[j]) => j <= i]

\* "Not cached; recycle an unused buffer".
BgetRecycle(p, k) ==
  LET b == Victim IN
  /\ pc[p] = "out"
  /\ Missing(k)
  /\ \E c \in Bufs : Recyclable(c)
  /\ block' = [block EXCEPT ![b] = k]
  /\ valid' = ClearsFlags(b)
  /\ failed' = failed \ {b}
  /\ refcnt' = [refcnt EXCEPT ![b] = 1]
  /\ cur' = [cur EXCEPT ![p] = b]
  /\ pc' = [pc EXCEPT ![p] = "acq"]
  /\ UNCHANGED <<lru, dirty, data, holder, ideVars, last, fault>>

\* panic("bget: no buffers").
BgetPanic(p, k) ==
  /\ pc[p] = "out"
  /\ Missing(k)
  /\ ~ \E c \in Bufs : Recyclable(c)
  /\ fault' = "no buffers"
  /\ UNCHANGED <<cacheVars, flagVars, data, holder, ideVars, pc, cur, histVars>>

-----------------------------------------------------------------------------
(* acquiresleep(), releasesleep() and brelse().                            *)

LockFree(b) == holder[b] = NoProc

\* The test of locked and the sleep are under lk->lk, which sleep() releases.
Acquire(p) ==
  /\ pc[p] = "acq"
  /\ IF LockFree(cur[p])
     THEN /\ holder' = [holder EXCEPT ![cur[p]] = p]
          /\ pc' = [pc EXCEPT ![p] = "got"]
     ELSE /\ pc' = [pc EXCEPT ![p] = "asleep"]
          /\ UNCHANGED holder
  /\ UNCHANGED <<cacheVars, flagVars, data, ideVars, cur, histVars, fault>>

\* wakeup(lk): whoever waits for the lock tries again.
BufWoken(b) ==
  [q \in Procs |-> IF pc[q] = "asleep" /\ cur[q] = b THEN "acq" ELSE pc[q]]

\* brelse(), first half: releasesleep().
Release(p) ==
  /\ pc[p] = "held"
  /\ holder' = [holder EXCEPT ![cur[p]] = NoProc]
  /\ pc' = [BufWoken(cur[p]) EXCEPT ![p] = "rel"]
  /\ UNCHANGED <<cacheVars, flagVars, data, ideVars, cur, histVars, fault>>

\* Mutant: a pinned buffer is never let go.
DroppedIfClean(b) == IF b \in dirty THEN refcnt[b] ELSE refcnt[b] - 1

Dropped(b) == refcnt[b] - 1

\* b leaves its place in the list and goes to the front of it.
Fronted(b) ==
  LET n == CHOOSE i \in Bufs : lru[i] = b
  IN  [i \in Bufs |-> IF i = 1 THEN b ELSE IF i <= n THEN lru[i - 1] ELSE lru[i]]

\* brelse(), second half, under bcache.lock: "no one is waiting for it", so
\* it becomes the most recently used.
Brelse(p) ==
  LET b == cur[p] IN
  /\ pc[p] = "rel"
  /\ refcnt' = [refcnt EXCEPT ![b] = Dropped(b)]
  /\ lru' = IF refcnt'[b] = 0 THEN Fronted(b) ELSE lru
  /\ pc' = [pc EXCEPT ![p] = "out"]
  /\ cur' = [cur EXCEPT ![p] = NoBuf]
  /\ UNCHANGED <<block, flagVars, data, holder, ideVars, histVars, fault>>

-----------------------------------------------------------------------------
(* iderw(), idestart() and ideintr().                                      *)

\* idestart(): the command for the head of queue q, with the data of a write.
IdeStart(q, d, dat) ==
  IF q = <<>> THEN Idle
  ELSE [block |-> block[Head(q)],
        write |-> Head(q) \in d,
        val |-> IF Head(q) \in d THEN dat[Head(q)] ELSE Zero]

\* "Start disk if necessary": idequeue == b.
Starts(q) == Len(q) = 1

\* "Append b to idequeue", start the disk, "Wait for request to finish".  d
\* and dat are the dirty buffers and the data at the call.
Iderw(p, d, dat) ==
  /\ idequeue' = Append(idequeue, cur[p])
  /\ hw' = IF Starts(idequeue') THEN IdeStart(idequeue', d, dat) ELSE hw
  /\ pc' = [pc EXCEPT ![p] = "ide"]
  /\ UNCHANGED <<disk, errors>>

\* bread() of a buffer that is valid.
BreadValid(p) ==
  /\ pc[p] = "got"
  /\ cur[p] \in valid
  /\ pc' = [pc EXCEPT ![p] = "held"]
  /\ UNCHANGED <<cacheVars, flagVars, data, holder, ideVars, cur, histVars,
                 fault>>

\* bread() of one that is not: iderw(b).
BreadDisk(p) ==
  /\ pc[p] = "got"
  /\ cur[p] \notin valid
  /\ Iderw(p, dirty, data)
  /\ UNCHANGED <<cacheVars, flagVars, data, holder, cur, histVars, fault>>

\* The caller writes v into the buffer and calls log_write(), which pins it;
\* the log makes room for MaxPin blocks.
LogWrite(p, v) ==
  LET b == cur[p] IN
  /\ pc[p] = "held"
  /\ Cardinality(dirty \cup {b}) <= MaxPin
  /\ data' = [data EXCEPT ![b] = v]
  /\ dirty' = dirty \cup {b}
  /\ last' = [last EXCEPT ![block[b]] = v]
  /\ failed' = failed \ {b}
  /\ UNCHANGED <<cacheVars, valid, holder, ideVars, pc, cur, fault>>

\* The caller writes v into the buffer and calls bwrite(), as log.c does to
\* log blocks and to the blocks it installs.
Bwrite(p, v) ==
  LET b == cur[p] IN
  /\ pc[p] = "held"
  /\ data' = [data EXCEPT ![b] = v]
  /\ dirty' = dirty \cup {b}
  /\ last' = [last EXCEPT ![block[b]] = v]
  /\ failed' = failed \ {b}
  /\ Iderw(p, dirty', data')
  /\ UNCHANGED <<cacheVars, valid, holder, cur, fault>>

\* The loop of iderw() around its sleep.
IderwWoken(p) ==
  /\ pc[p] = "woke"
  /\ pc' = [pc EXCEPT ![p] = IF cur[p] \in valid \ dirty THEN "held" ELSE "ide"]
  /\ UNCHANGED <<cacheVars, flagVars, data, holder, ideVars, cur, histVars,
                 fault>>

\* Mutant: ideintr() wakes nobody.
AnsweredNone(b) == pc

\* wakeup(b): the process that waits for this buffer.
Answered(b) ==
  [p \in Procs |-> IF pc[p] = "ide" /\ cur[p] = b THEN "woke" ELSE pc[p]]

\* What ideintr() does after the data: mark the buffer, wake up its process
\* and start the next request.
IdeintrDone(b) ==
  /\ valid' = valid \cup {b}
  /\ dirty' = dirty \ {b}
  /\ pc' = Answered(b)
  /\ idequeue' = Tail(idequeue)
  /\ hw' = IdeStart(idequeue', dirty', data')
  /\ UNCHANGED <<cacheVars, holder, cur, last, fault>>

\* "First queued buffer is the active request."  An interrupt that finds the
\* queue empty does nothing.
Ideintr ==
  /\ idequeue # <<>>
  /\ LET b == Head(idequeue) IN
     /\ disk' = IF hw.write THEN [disk EXCEPT ![hw.block] = hw.val] ELSE disk
     /\ data' = [data EXCEPT ![b] = IF hw.write THEN @ ELSE disk[hw.block]]
     /\ failed' = failed \ {b}
     /\ UNCHANGED errors
     /\ IdeintrDone(b)

\* idewait(1) < 0: nothing is read into the buffer, but it is marked valid.
IdeintrError ==
  /\ idequeue # <<>>
  /\ errors < MaxError
  /\ ~hw.write
  /\ errors' = errors + 1
  /\ failed' = failed \cup {Head(idequeue)}
  /\ UNCHANGED <<disk, data>>
  /\ IdeintrDone(Head(idequeue))

-----------------------------------------------------------------------------
Step(p) ==
  \/ Acquire(p) \/ BreadValid(p) \/ BreadDisk(p) \/ IderwWoken(p) \/ Brelse(p)
  \/ Release(p)

BioNext ==
  /\ fault = "none"
  /\ \/ \E p \in Procs :
          \/ Step(p)
          \/ \E k \in Blocks : BgetHit(p, k) \/ BgetRecycle(p, k) \/ BgetPanic(p, k)
          \/ pc[p] = "held" /\ block[cur[p]] \in Written
             /\ \E v \in Vals : LogWrite(p, v) \/ Bwrite(p, v)
     \/ Ideintr \/ IdeintrError

\* The disk answers each command; nobody has to read or write anything.
BioSpec == BioInit /\ [][BioNext]_bioVars /\ WF_bioVars(fault = "none" /\ Ideintr)
             /\ \A p \in Procs : WF_bioVars(fault = "none" /\ IderwWoken(p))

-----------------------------------------------------------------------------
(* Properties.                                                             *)

\* The processes that count in b->refcnt.
UsersOf(b) == {p \in Procs : cur[p] = b}

\* Every variable stays in its type.
BioTypeOK ==
  /\ block \in [Bufs -> Blocks \cup {NoBlock}]
  /\ refcnt \in [Bufs -> 0 .. Cardinality(Procs)]
  /\ valid \subseteq Bufs /\ dirty \subseteq Bufs /\ failed \subseteq Bufs
  /\ data \in [Bufs -> Vals]
  /\ holder \in [Bufs -> Procs \cup {NoProc}]
  /\ lru \in [Bufs -> Bufs] /\ Range(lru) = Bufs
  /\ idequeue \in Seq(Bufs)
  /\ hw \in [block : Blocks \cup {NoBlock}, write : BOOLEAN, val : Vals]
  /\ disk \in [Blocks -> Vals] /\ last \in [Blocks -> Vals]
  /\ pc \in [Procs -> BufPoints]
  /\ cur \in [Procs -> Bufs \cup {NoBuf}]
  /\ \A p \in Procs : cur[p] \in IF pc[p] = "out" THEN {NoBuf} ELSE Bufs
  /\ fault \in {"none", "no buffers"}

\* A block has at most one buffer, though bget() drops bcache.lock before it
\* waits for the buffer's lock: a second copy would lose updates.
OneBufferPerBlock ==
  \A b, c \in Bufs : block[b] = block[c] /\ block[b] # NoBlock => b = c

\* refcnt is the number of processes between bget() and brelse(), so nobody's
\* buffer is given to another block under it.
RefcntCounts == \A b \in Bufs : refcnt[b] = Cardinality(UsersOf(b))

\* b->data has one owner: whoever bread() returned a buffer to, or sleeps in
\* the driver for it, holds its lock, and nobody else has it.
OneOwner ==
  \A p \in Procs : pc[p] \in {"got", "ide", "woke", "held"}
                     => holder[cur[p]] = p

\* What a process reads from a block is what was last written to it, through
\* any sequence of recycling, pinning, delayed writing and rereading; except
\* after a read that failed, which ideintr() marks valid like any other.
ReadsLastWrite ==
  \A k \in Blocks :
    IF \E b \in Cached(k) : b \in valid
    THEN \A b \in Cached(k) \ failed : data[b] = last[k]
    ELSE disk[k] = last[k]

\* A clean buffer can be forgotten: the disk has its contents.
CleanOnDisk ==
  \A b \in valid \ (dirty \cup failed) : disk[block[b]] = data[b]

\* The driver is never stuck: the controller works exactly on the head of
\* the queue, and each request in the queue is that of one process asleep,
\* with the buffer locked.
QueueServed ==
  /\ hw = IdeStart(idequeue, dirty, data)
  /\ Range(idequeue) = {cur[p] : p \in {q \in Procs : pc[q] = "ide"}}
  /\ Len(idequeue) = Cardinality({p \in Procs : pc[p] = "ide"})

\* Nobody sleeps on a sleep lock that is free.
NoLostRelease == \A p \in Procs : pc[p] = "asleep" => holder[cur[p]] # NoProc

\* bget() only panics when pinned blocks and processes together need more
\* buffers than there are: no buffer leaks.
PanicMeansFull ==
  fault = "no buffers" =>
    Cardinality(dirty \cup {b \in Bufs : UsersOf(b) # {}}) = NBUF

\* Buffers, their locks and the driver's queue agree, though bget(), brelse(),
\* iderw() and ideintr() each hold one of three spin locks at a time.
CacheConsistent ==
  /\ BioTypeOK
  /\ OneBufferPerBlock
  /\ RefcntCounts
  /\ OneOwner
  /\ CleanOnDisk
  /\ QueueServed
  /\ NoLostRelease
  /\ PanicMeansFull

\* Every request to the disk is answered.
RequestsComplete ==
  \A p \in Procs : pc[p] = "ide" ~> (pc[p] = "held" \/ fault # "none")

=============================================================================
