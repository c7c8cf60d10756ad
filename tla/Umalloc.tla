------------------------------ MODULE Umalloc ------------------------------
(***************************************************************************)
(* The allocator of user programs (umalloc.c).  Addresses count Headers;   *)
(* base is at 0, below the heap, whose addresses are 1 .. HEAP.  A program *)
(* calls malloc() and free(), and sbrk() itself now and then, so that the  *)
(* memory malloc() gets is not contiguous.                                 *)
(***************************************************************************)
EXTENDS Integers, FiniteSets, FiniteSetsExt

CONSTANTS
  HEAP,         \* bound: where sbrk() begins to fail
  NU,           \* what morecore() asks for at least, 4096 in the code
  Requests      \* sizes asked for, in units, header not included

VARIABLES
  brk,          \* the first address beyond the heap
  ptr, size,    \* the fields of the header at each address
  freep,        \* 0 is &base; -1 before the first malloc()
  blocks        \* history: the blocks that the program holds

allocVars == <<brk, ptr, size, freep, blocks>>

Addresses == 0 .. HEAP

AllocInit ==
  /\ brk = 1 /\ freep = -1 /\ blocks = {}
  /\ ptr = [a \in Addresses |-> 0] /\ size = [a \in Addresses |-> 0]

\* The list as free() and malloc() see it.
Heap == [ptr |-> ptr, size |-> size, freep |-> freep, brk |-> brk]
SetHeap(h) == ptr' = h.ptr /\ size' = h.size /\ freep' = h.freep /\ brk' = h.brk

-----------------------------------------------------------------------------

\* The search of free(): the block of the list that bp follows.
RECURSIVE PlaceFrom(_, _, _)
PlaceFrom(h, bp, p) ==
  IF \/ bp > p /\ bp < h.ptr[p]
     \/ p >= h.ptr[p] /\ (bp > p \/ bp < h.ptr[p])
  THEN p ELSE PlaceFrom(h, bp, h.ptr[p])

\* Mutant: a block is not joined with the one below it.
JoinsBelowNever(h, p, bp) == FALSE

JoinsBelow(h, p, bp) == p + h.size[p] = bp

\* free(bp + 1).  Fields of headers that are no longer headers are forgotten.
Freed(h, bp) ==
  LET p == PlaceFrom(h, bp, h.freep)
      up == h.ptr[p]
      above == bp + h.size[bp] = up
      s == IF above THEN h.size[bp] + h.size[up] ELSE h.size[bp]
      n == IF above THEN h.ptr[up] ELSE up
      below == JoinsBelow(h, p, bp)
      gone == (IF above THEN {up} ELSE {}) \cup (IF below THEN {bp} ELSE {})
      set(f, b, x) == [a \in Addresses |-> IF a = b THEN x ELSE IF a \in gone THEN 0 ELSE f[a]]
  IN [h EXCEPT !.freep = p,
               !.ptr = IF below THEN set(h.ptr, p, n) ELSE [set(h.ptr, bp, n) EXCEPT ![p] = bp],
               !.size = IF below THEN set(h.size, p, h.size[p] + s) ELSE set(h.size, bp, s)]

\* morecore(nu), or {} when sbrk() fails.
Morecore(h, nunits) ==
  LET nu == IF nunits < NU THEN NU ELSE nunits IN
  IF h.brk + nu > HEAP + 1 THEN {}
  ELSE {Freed([h EXCEPT !.brk = @ + nu, !.size[h.brk] = nu], h.brk)}

FitsExactly(s, nunits) == s = nunits

\* The loop of malloc(): first fit behind freep, the tail of a larger block.
RECURSIVE Search(_, _, _)
Search(h, nunits, prevp) ==
  LET p == h.ptr[prevp]
      rest == h.size[p] - nunits
  IN
  IF FitsExactly(h.size[p], nunits)
  THEN [heap |-> [h EXCEPT !.ptr[prevp] = h.ptr[p], !.freep = prevp], at |-> p]
  ELSE IF h.size[p] > nunits
  THEN [heap |-> [h EXCEPT !.size = [h.size EXCEPT ![p] = rest, ![p + rest] = nunits],
                           !.freep = prevp], at |-> p + rest]
  ELSE IF p # h.freep THEN Search(h, nunits, p)
  ELSE IF Morecore(h, nunits) = {} THEN [heap |-> h, at |-> -1]
  ELSE LET more == CHOOSE m \in Morecore(h, nunits) : TRUE
       IN Search(more, nunits, more.freep)

Malloc(n) ==
  LET start == IF freep = -1 THEN [Heap EXCEPT !.freep = 0] ELSE Heap
      got == Search(start, n + 1, start.freep)
  IN
  /\ SetHeap(got.heap)
  /\ blocks' = IF got.at = -1 THEN blocks
               ELSE blocks \cup {[at |-> got.at, n |-> n + 1]}

Free(b) ==
  /\ SetHeap(Freed(Heap, b.at))
  /\ blocks' = blocks \ {b}

\* The program's own sbrk() of one unit.
OwnSbrk ==
  /\ brk <= HEAP
  /\ brk' = brk + 1
  /\ blocks' = blocks \cup {[at |-> brk, n |-> 0]}
  /\ UNCHANGED <<ptr, size, freep>>

AllocNext ==
  \/ \E n \in Requests : Malloc(n)
  \/ \E b \in blocks : b.n > 0 /\ Free(b)
  \/ OwnSbrk

AllocSpec == AllocInit /\ [][AllocNext]_allocVars

-----------------------------------------------------------------------------
(* Properties.                                                             *)

RECURSIVE ListFrom(_, _)
ListFrom(a, seen) == IF a \in seen THEN seen ELSE ListFrom(ptr[a], seen \cup {a})
FreeList == ListFrom(0, {}) \ {0}

Extent(a, n) == a .. a + n - 1

\* The blocks of the free list, the blocks that the program holds and the memory
\* it got from sbrk() itself share nothing and make up the whole heap: malloc()
\* never hands out a byte twice, and free() loses none.
HeapTiled ==
  LET parts == {<<a, size[a]>> : a \in FreeList}
                 \cup {<<b.at, IF b.n = 0 THEN 1 ELSE b.n>> : b \in blocks}
  IN /\ UNION {Extent(x[1], x[2]) : x \in parts} = 1 .. brk - 1
     /\ \A x, y \in parts : x # y => Extent(x[1], x[2]) \cap Extent(y[1], y[2]) = {}
     /\ \A b \in blocks : b.n > 0 => size[b.at] = b.n

\* The list is in the order of addresses and goes round once, and free() has
\* joined all neighbours, whatever the order in which blocks came back.
ListJoined ==
  /\ \A a \in FreeList \cup {0} :
       LET higher == {b \in FreeList : b > a}
       IN freep # -1 => ptr[a] = IF higher = {} THEN 0 ELSE Min(higher)
  /\ \A a \in FreeList : a + size[a] \notin FreeList
  /\ freep \in FreeList \cup {0, -1}

\* malloc() and free() keep the heap in one piece in any order of calls.
HeapSound ==
  /\ HeapTiled
  /\ ListJoined
=============================================================================
