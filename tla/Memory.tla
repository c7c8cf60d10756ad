------------------------------- MODULE Memory -------------------------------
(***************************************************************************)
(* Physical pages and address spaces: kalloc.c, the user part of vm.c,     *)
(* growproc(), and what fork(), exec(), exit() and wait() do with memory.  *)
(*                                                                         *)
(* kalloc() is a step of its own, so that any process may take the last    *)
(* page between two allocations of another; what a failure or an exit      *)
(* gives back, it gives back in one step.  Which free page it takes makes  *)
(* no difference: here any one.  Sizes are in words of which PGSIZE make a *)
(* page, and wrap around at ADDRMOD as uint does.                          *)
(***************************************************************************)
EXTENDS Integers

CONSTANTS
  Owners,        \* entries of the process table, 1 is init
  NPAGE,        \* physical pages
  PGSIZE,
  NPTE,         \* user pages that one page table maps
  NTAB,         \* page tables below KERNBASE
  ADDRMOD,      \* 2^32 in the code
  SbrkUp,       \* n > 0 for which sbrk(n) is called
  SbrkDown,     \* and n for which sbrk(-n) is
  Images        \* sizes of the programs that exec() loads

Pages == 1 .. NPAGE
Vpages == 0 .. NPTE * NTAB - 1
KERNBASE == NPTE * NTAB * PGSIZE

\* The places of an address space that name a page: the page directory, the
\* page table of the kernel part, those of the user part, and the pages that
\* these map.
Dir == <<"dir", 0>>
Ktab == <<"ktab", 0>>
Tab(t) == <<"tab", t>>
Pte(v) == <<"pte", v>>
Parts == {Dir, Ktab} \cup {Tab(t) : t \in 0 .. NTAB - 1} \cup {Pte(v) : v \in Vpages}

ASSUME MemoryAssumption ==
  /\ PGSIZE \in Nat \ {0} /\ NPTE \in Nat \ {0} /\ NTAB \in Nat \ {0} /\ NPAGE \in Nat
  /\ NPAGE >= 5 /\ NPTE * NTAB >= 2             \* init fits
  /\ ADDRMOD \in Nat /\ KERNBASE * 2 <= ADDRMOD
  /\ 1 \in Owners /\ 0 \notin Owners
  /\ SbrkUp \subseteq Nat /\ SbrkDown \subseteq Nat /\ Images \subseteq Nat

VARIABLES
  free,         \* the free list
  space,        \* the page table that p->pgdir points to
  sz,           \* p->sz
  kstack,       \* p->kstack
  life,         \* UNUSED, EMBRYO, RUNNING, ZOMBIE
  parent,
  work,         \* the call in progress: its loop is at page a of newsz
  fresh,        \* the page table that fork() or exec() is building
  hand,         \* mem: a page that is not mapped yet, 0 for none
  gaveAll,      \* history: the process has called sbrk(-sz)
  memFault      \* the panic that stopped the machine

memVars == <<free, space, sz, kstack, life, parent, work, fresh, hand, gaveAll, memFault>>

\* No page table: 0 in every place.
NoSpace == [x \in Parts |-> 0]
NoWork == [call |-> "none", child |-> 0, a |-> 0, newsz |-> 0]

\* userinit(): init has a page table and one page.
MemInit ==
  /\ free = Pages \ 1 .. 5
  /\ space = [u \in Owners |->
                IF u # 1 THEN NoSpace
                ELSE [NoSpace EXCEPT ![Dir] = 2, ![Ktab] = 3, ![Tab(0)] = 4, ![Pte(0)] = 5]]
  /\ sz = [u \in Owners |-> IF u = 1 THEN PGSIZE ELSE 0]
  /\ kstack = [u \in Owners |-> IF u = 1 THEN 1 ELSE 0]
  /\ life = [u \in Owners |-> IF u = 1 THEN "RUNNING" ELSE "UNUSED"]
  /\ parent = [u \in Owners |-> 0]
  /\ work = [u \in Owners |-> NoWork]
  /\ fresh = [u \in Owners |-> NoSpace]
  /\ hand = [u \in Owners |-> 0]
  /\ gaveAll = [u \in Owners |-> FALSE]
  /\ memFault = "none"

Pgroundup(n) == ((n + PGSIZE - 1) \div PGSIZE)        \* in pages

\* The pages in the places P of an address space; freevm() frees all of them.
PagesIn(s, P) == {s[x] : x \in P} \ {0}
HeldBy(s) == PagesIn(s, Parts)

-----------------------------------------------------------------------------
(* Growing an address space: setupkvm(), allocuvm(), copyuvm().            *)

\* The address space that u's call is building, and page put in its place x.
Target(u) == IF work[u].call = "sbrk" THEN space[u] ELSE fresh[u]
Mapped(u, x, page) ==
  IF work[u].call = "sbrk"
  THEN space' = [space EXCEPT ![u][x] = page] /\ UNCHANGED fresh
  ELSE fresh' = [fresh EXCEPT ![u][x] = page] /\ UNCHANGED space

Busy(u) == work[u].call # "none"

\* kalloc() returns Taken, kfree() of pages.
Taken == CHOOSE page \in free : TRUE
Kalloc == free # {} /\ free' = free \ {Taken}
Kfree(pages) == free' = free \cup pages

\* The places from page n up, of which deallocuvm() frees the pages.
From(n) == {Pte(v) : v \in {v \in Vpages : v >= n}}

\* Mutant: the page that could not be mapped is not freed.
GivenBackSome(u) ==
  PagesIn(Target(u), IF work[u].call = "sbrk" THEN From(Pgroundup(sz[u])) ELSE Parts)

\* The pages that a call without memory gives back: deallocuvm() from the old
\* size up, or freevm() of the new address space, and the page in hand.
GivenBack(u) ==
  ({hand[u]} \ {0}) \cup
    PagesIn(Target(u), IF work[u].call = "sbrk" THEN From(Pgroundup(sz[u])) ELSE Parts)

\* The address space without the pages in the places P.
Without(s, P) == [x \in Parts |-> IF x \in P THEN 0 ELSE s[x]]

\* The call of u is over and has built nothing.
EndsCall(u) ==
  /\ work' = [work EXCEPT ![u] = NoWork]
  /\ fresh' = [fresh EXCEPT ![u] = NoSpace]
  /\ hand' = [hand EXCEPT ![u] = 0]

\* A call fails.  fork() also frees the child's kernel stack and its entry.
Abandon(u) ==
  LET c == work[u].child IN
  /\ Kfree(GivenBack(u) \cup (IF c = 0 THEN {} ELSE {kstack[c]} \ {0}))
  /\ space' = IF work[u].call # "sbrk" THEN space
              ELSE [space EXCEPT ![u] = Without(@, From(Pgroundup(sz[u])))]
  /\ EndsCall(u)
  /\ life' = IF c = 0 THEN life ELSE [life EXCEPT ![c] = "UNUSED"]
  /\ kstack' = IF c = 0 THEN kstack ELSE [kstack EXCEPT ![c] = 0]
  /\ UNCHANGED <<sz, parent, gaveAll, memFault>>

\* The next step of u's call is a kalloc().
NeedsPage(u) ==
  LET w == work[u] IN
  \/ w.call = "fork" /\ kstack[w.child] = 0
  \/ Target(u)[Ktab] = 0
  \/ w.a < Pgroundup(w.newsz) /\ (hand[u] = 0 \/ Target(u)[Tab(w.a \div NPTE)] = 0)

\* kalloc() returns 0.
OutOfMemory(u) == Busy(u) /\ NeedsPage(u) /\ free = {} /\ Abandon(u)

\* allocproc(): the child's kernel stack.
KstackAlloc(u) ==
  LET c == work[u].child IN
  /\ work[u].call = "fork" /\ kstack[c] = 0
  /\ Kalloc
  /\ kstack' = [kstack EXCEPT ![c] = Taken]
  /\ UNCHANGED <<space, sz, life, parent, work, fresh, hand, gaveAll, memFault>>

\* setupkvm(): the directory and the page table of the kernel part.
Setupkvm(u) ==
  /\ work[u].call \in {"fork", "exec"} /\ fresh[u][Ktab] = 0
  /\ work[u].call = "fork" => kstack[work[u].child] # 0
  /\ Kalloc
  /\ Mapped(u, IF fresh[u][Dir] = 0 THEN Dir ELSE Ktab, Taken)
  /\ UNCHANGED <<sz, kstack, life, parent, work, hand, gaveAll, memFault>>

\* fork() is to copy a page that the parent does not have.
AbsentPage(u) ==
  /\ work[u].call = "fork" /\ fresh[u][Ktab] # 0
  /\ work[u].a < Pgroundup(work[u].newsz) /\ space[u][Pte(work[u].a)] = 0

\* panic("copyuvm: page not present").
CopyuvmPanic(u) ==
  /\ AbsentPage(u)
  /\ memFault' = "copyuvm: page not present"
  /\ UNCHANGED <<free, space, sz, kstack, life, parent, work, fresh, hand, gaveAll>>

\* The loop of allocuvm() and copyuvm() is at a page.
Growing(u) ==
  /\ Busy(u) /\ work[u].a < Pgroundup(work[u].newsz) /\ Target(u)[Ktab] # 0
  /\ ~AbsentPage(u)

\* kalloc() of the page.
GrowPage(u) ==
  /\ Growing(u) /\ hand[u] = 0
  /\ Kalloc
  /\ hand' = [hand EXCEPT ![u] = Taken]
  /\ UNCHANGED <<space, sz, kstack, life, parent, work, fresh, gaveAll, memFault>>

\* mappages(): walkpgdir() may need a page table first.
GrowTable(u) ==
  LET t == work[u].a \div NPTE IN
  /\ Growing(u) /\ hand[u] # 0 /\ Target(u)[Tab(t)] = 0
  /\ Kalloc
  /\ Mapped(u, Tab(t), Taken)
  /\ UNCHANGED <<sz, kstack, life, parent, work, hand, gaveAll, memFault>>

GrowMap(u) ==
  /\ Growing(u) /\ hand[u] # 0 /\ Target(u)[Tab(work[u].a \div NPTE)] # 0
  /\ Mapped(u, Pte(work[u].a), hand[u])
  /\ hand' = [hand EXCEPT ![u] = 0]
  /\ work' = [work EXCEPT ![u].a = @ + 1]
  /\ UNCHANGED <<free, sz, kstack, life, parent, gaveAll, memFault>>

Complete(u, call) ==
  work[u].call = call /\ work[u].a >= Pgroundup(work[u].newsz) /\ Target(u)[Ktab] # 0
Begins(u, w) ==
  /\ life[u] = "RUNNING" /\ ~Busy(u)
  /\ work' = [work EXCEPT ![u] = w]
  /\ UNCHANGED <<fresh, hand>>

-----------------------------------------------------------------------------
(* growproc().                                                             *)

\* The first page that grows or shrinks.
GrowFirst(n) == Pgroundup(n)

BelowKernel(n) == n < KERNBASE

\* sbrk(n).
Sbrk(u, n) ==
  /\ BelowKernel(sz[u] + n)
  /\ Begins(u, [NoWork EXCEPT !.call = "sbrk", !.a = GrowFirst(sz[u]),
                              !.newsz = sz[u] + n])
  /\ UNCHANGED <<free, space, sz, kstack, life, parent, gaveAll, memFault>>

SbrkDone(u) ==
  /\ Complete(u, "sbrk")
  /\ sz' = [sz EXCEPT ![u] = work[u].newsz]
  /\ EndsCall(u)
  /\ UNCHANGED <<free, space, kstack, life, parent, gaveAll, memFault>>

\* sbrk(-n): deallocuvm() does nothing when the size wraps around, and a new size
\* of 0 looks like its failure.
SbrkLess(u, n) ==
  LET less == (sz[u] - n) % ADDRMOD
      gone == From(GrowFirst(less)) \ From(Pgroundup(sz[u]))
  IN
  /\ life[u] = "RUNNING" /\ ~Busy(u) /\ less < sz[u]
  /\ Kfree(PagesIn(space[u], gone))
  /\ space' = [space EXCEPT ![u] = Without(@, gone)]
  /\ sz' = [sz EXCEPT ![u] = IF less = 0 THEN @ ELSE less]
  /\ gaveAll' = [gaveAll EXCEPT ![u] = @ \/ less = 0]
  /\ UNCHANGED <<kstack, life, parent, work, fresh, hand, memFault>>

-----------------------------------------------------------------------------
(* fork(), exec(), exit() and wait().                                      *)

\* allocproc() finds an entry.
ForkBegin(u) ==
  \E c \in Owners :
    /\ life[c] = "UNUSED"
    /\ Begins(u, [NoWork EXCEPT !.call = "fork", !.child = c, !.newsz = sz[u]])
    /\ life' = [life EXCEPT ![c] = "EMBRYO"]
    /\ UNCHANGED <<free, space, sz, kstack, parent, gaveAll, memFault>>

ForkDone(u) ==
  LET c == work[u].child IN
  /\ Complete(u, "fork")
  /\ space' = [space EXCEPT ![c] = fresh[u]]
  /\ sz' = [sz EXCEPT ![c] = work[u].newsz]
  /\ parent' = [parent EXCEPT ![c] = u]
  /\ life' = [life EXCEPT ![c] = "RUNNING"]
  /\ EndsCall(u)
  /\ UNCHANGED <<free, kstack, gaveAll, memFault>>

\* The segments, and "two pages at the next page boundary" for the stack.
ExecBegin(u, image) ==
  /\ BelowKernel((Pgroundup(image) + 2) * PGSIZE)
  /\ Begins(u, [NoWork EXCEPT !.call = "exec",
                              !.newsz = (Pgroundup(image) + 2) * PGSIZE])
  /\ UNCHANGED <<free, space, sz, kstack, life, parent, gaveAll, memFault>>

\* bad: the file is no program, or its arguments do not fit.
ExecBad(u) ==
  /\ work[u].call = "exec" /\ hand[u] = 0 /\ fresh[u][Ktab] # 0
  /\ Abandon(u)

\* freevm(oldpgdir).
Replaced(u) == HeldBy(space[u])

\* "Commit to the user image."
ExecCommit(u) ==
  /\ Complete(u, "exec")
  /\ Kfree(Replaced(u))
  /\ space' = [space EXCEPT ![u] = fresh[u]]
  /\ sz' = [sz EXCEPT ![u] = work[u].newsz]
  /\ EndsCall(u)
  /\ gaveAll' = [gaveAll EXCEPT ![u] = FALSE]
  /\ UNCHANGED <<kstack, life, parent, memFault>>

ExitUser(u) ==
  /\ u # 1 /\ life[u] = "RUNNING" /\ ~Busy(u)
  /\ life' = [life EXCEPT ![u] = "ZOMBIE"]
  /\ parent' = [c \in Owners |-> IF parent[c] = u THEN 1 ELSE parent[c]]
  /\ UNCHANGED <<free, space, sz, kstack, work, fresh, hand, gaveAll, memFault>>

\* A zombie still has its kernel stack and page table; wait() frees both.  The
\* entry's sz, which no one reads before fork() sets it, is forgotten here.
WaitUser(u) ==
  \E c \in Owners :
    /\ life[u] = "RUNNING" /\ ~Busy(u)
    /\ life[c] = "ZOMBIE" /\ parent[c] = u
    /\ Kfree(HeldBy(space[c]) \cup {kstack[c]})
    /\ space' = [space EXCEPT ![c] = NoSpace]
    /\ kstack' = [kstack EXCEPT ![c] = 0]
    /\ life' = [life EXCEPT ![c] = "UNUSED"]
    /\ parent' = [parent EXCEPT ![c] = 0]
    /\ sz' = [sz EXCEPT ![c] = 0]
    /\ gaveAll' = [gaveAll EXCEPT ![c] = FALSE]
    /\ UNCHANGED <<work, fresh, hand, memFault>>

UserStep(u) ==
  \/ \E n \in SbrkUp : Sbrk(u, n)
  \/ \E n \in SbrkDown : SbrkLess(u, n)
  \/ SbrkDone(u) \/ OutOfMemory(u) \/ KstackAlloc(u) \/ Setupkvm(u)
  \/ GrowPage(u) \/ GrowTable(u) \/ GrowMap(u) \/ CopyuvmPanic(u) \/ ForkBegin(u) \/ ForkDone(u)
  \/ \E image \in Images : ExecBegin(u, image)
  \/ ExecBad(u) \/ ExecCommit(u) \/ ExitUser(u) \/ WaitUser(u)

MemNext == memFault = "none" /\ \E u \in Owners : UserStep(u)

MemSpec == MemInit /\ [][MemNext]_memVars

-----------------------------------------------------------------------------
(* Properties.                                                             *)

\* The state keeps its shape, and allocuvm() keeps every size below KERNBASE.
MemTypeOK ==
  /\ free \subseteq Pages
  /\ \A u \in Owners : sz[u] \in 0 .. KERNBASE - 1 /\ kstack[u] \in Pages \cup {0}
  /\ life \in [Owners -> {"UNUSED", "EMBRYO", "RUNNING", "ZOMBIE"}]
  /\ parent \in [Owners -> Owners \cup {0}]

\* Every place that may hold a page, and the page in it.
Places == (Owners \X {"now", "fresh"} \X Parts) \cup (Owners \X {"hand", "kstack"} \X {Dir})
PageAt(x) ==
  CASE x[2] = "now" -> space[x[1]][x[3]]
    [] x[2] = "fresh" -> fresh[x[1]][x[3]]
    [] x[2] = "hand" -> hand[x[1]]
    [] x[2] = "kstack" -> kstack[x[1]]

\* Every page is on the free list or in exactly one place of one process,
\* through every failure half way: none is lost, shared or freed twice.
PagesOwnedOnce ==
  LET held == {x \in Places : PageAt(x) # 0} IN
  /\ {PageAt(x) : x \in held} = Pages \ free
  /\ \A x, y \in held : PageAt(x) = PageAt(y) => x = y

\* A process has exactly the pages below its size: a failed sbrk(), fork() or
\* exec() leaves its memory as it was, and copyuvm() finds every page.  The
\* exception is a process that has given all its memory back: growproc() then
\* reports a failure and keeps the size.
MappedBelowSize ==
  /\ \A u \in Owners :
       life[u] \in {"RUNNING", "ZOMBIE"} /\ ~gaveAll[u] /\ work[u].call # "sbrk" =>
         \A v \in Vpages : space[u][Pte(v)] # 0 <=> v < Pgroundup(sz[u])
  /\ memFault # "none" => \E u \in Owners : gaveAll[u]

\* The free list and the page tables of vm.c share out the pages, whichever
\* kalloc() of which process fails.
PagesAccounted ==
  /\ MemTypeOK
  /\ PagesOwnedOnce
  /\ MappedBelowSize
=============================================================================
