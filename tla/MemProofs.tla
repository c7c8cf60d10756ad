----------------------------- MODULE MemProofs ------------------------------
(***************************************************************************)
(* Proofs about Memory: the free list and the places of processes share    *)
(* out the pages, and a process has the pages below its size, for any      *)
(* number of processes and pages and any page size.                        *)
(***************************************************************************)
EXTENDS Memory, TLAPS

-----------------------------------------------------------------------------
(* The inductive invariant.                                                *)

Entries == {"UNUSED", "EMBRYO", "RUNNING", "ZOMBIE"}
Alive == {"RUNNING", "ZOMBIE"}

MemTypes ==
  /\ free \subseteq Pages
  /\ space \in [Owners -> [Parts -> Pages \cup {0}]]
  /\ fresh \in [Owners -> [Parts -> Pages \cup {0}]]
  /\ hand \in [Owners -> Pages \cup {0}]
  /\ kstack \in [Owners -> Pages \cup {0}]
  /\ sz \in [Owners -> 0 .. KERNBASE - 1]
  /\ life \in [Owners -> Entries]
  /\ parent \in [Owners -> Owners \cup {0}]
  /\ work \in [Owners -> [call : {"none", "sbrk", "fork", "exec"},
                          child : Owners \cup {0}, a : Nat, newsz : 0 .. KERNBASE - 1]]
  /\ gaveAll \in [Owners -> BOOLEAN]

\* A call in progress: what it has built, and the child of a fork().
CallOK(u) ==
  /\ Busy(u) => life[u] = "RUNNING"
  /\ work[u].call \notin {"fork", "exec"} => fresh[u] = NoSpace
  /\ work[u].call = "fork" <=> work[u].child # 0
  /\ work[u].call = "fork" =>
       /\ life[work[u].child] = "EMBRYO"
       /\ work[u].newsz = sz[u]
       /\ fresh[u][Ktab] # 0 => kstack[work[u].child] # 0
  /\ work[u].call = "sbrk" => Pgroundup(sz[u]) <= work[u].a
  /\ work[u].a <= Pgroundup(work[u].newsz)
  /\ hand[u] # 0 => Busy(u) /\ work[u].a < Pgroundup(work[u].newsz)
  /\ work[u].call \in {"fork", "exec"} =>
       \A v \in Vpages : fresh[u][Pte(v)] # 0 <=> v < work[u].a

\* Where the pages of u end: sbrk() is adding some.
Top(u) == IF work[u].call = "sbrk" THEN work[u].a ELSE Pgroundup(sz[u])

\* An entry of the process table and its address space.
EntryOK(u) ==
  /\ life[u] \in {"UNUSED", "EMBRYO"} => space[u] = NoSpace
  /\ life[u] = "UNUSED" => kstack[u] = 0
  /\ life[u] \in Alive => kstack[u] # 0
  /\ \A v \in Vpages : v >= Top(u) => space[u][Pte(v)] = 0
  /\ life[u] \in Alive /\ ~gaveAll[u] =>
       \A v \in Vpages : v < Top(u) => space[u][Pte(v)] # 0

\* No two forks fill one entry.
ChildrenDiffer ==
  \A u, w \in Owners :
    work[u].child # 0 /\ work[u].child = work[w].child => u = w

FaultCause == memFault # "none" => \E u \in Owners : gaveAll[u]

MemIInv ==
  /\ MemTypes
  /\ PagesOwnedOnce
  /\ \A u \in Owners : CallOK(u)
  /\ \A u \in Owners : EntryOK(u)
  /\ ChildrenDiffer
  /\ FaultCause

-----------------------------------------------------------------------------
(* Sizes and pages.                                                        *)

\* A quotient is the only one with a remainder in range.
LEMMA Quotient ==
  ASSUME NEW x \in Nat, NEW d \in Nat \ {0}
  PROVE  /\ x \div d \in Nat
         /\ d * (x \div d) <= x
         /\ x < d * (x \div d) + d
  OBVIOUS

LEMMA ProductMonotone ==
  ASSUME NEW d \in Nat, NEW m \in Nat, NEW n \in Nat, m <= n
  PROVE  d * m <= d * n
  OBVIOUS

LEMMA QuotientMonotone ==
  ASSUME NEW d \in Nat \ {0}, NEW x \in Nat, NEW y \in Nat, x <= y
  PROVE  x \div d <= y \div d
<1> DEFINE m == x \div d
           n == y \div d
<1>1. m \in Nat /\ n \in Nat /\ d * m <= x /\ y < d * n + d
  BY Quotient, Zenon
<1>2. SUFFICES ASSUME n + 1 <= m PROVE FALSE
  BY <1>1
<1>3. d * (n + 1) <= d * m
  BY <1>1, <1>2, ProductMonotone
<1>4. d * (n + 1) = d * n + d
  BY <1>1
<1> QED BY <1>1, <1>3, <1>4

LEMMA QuotientBelow ==
  ASSUME NEW d \in Nat \ {0}, NEW x \in Nat, NEW k \in Nat, x < d * k
  PROVE  x \div d < k
<1> DEFINE m == x \div d
<1>1. m \in Nat /\ d * m <= x
  BY Quotient, Zenon
<1>2. SUFFICES ASSUME k <= m PROVE FALSE
  BY <1>1
<1>3. d * k <= d * m
  BY <1>1, <1>2, ProductMonotone, Zenon
<1>4. d * k \in Nat /\ d * m \in Nat
  BY <1>1
<1> QED BY <1>1, <1>3, <1>4

\* The constants as plain numbers.
LEMMA Numbers ==
  /\ PGSIZE \in Nat \ {0} /\ NPTE \in Nat \ {0} /\ NTAB \in Nat \ {0}
  /\ NPTE * NTAB \in Nat /\ NPTE * NTAB >= 2
  /\ KERNBASE \in Nat /\ KERNBASE = PGSIZE * (NPTE * NTAB) /\ PGSIZE < KERNBASE
<1>1. /\ PGSIZE \in Nat \ {0} /\ NPTE \in Nat \ {0} /\ NTAB \in Nat \ {0}
      /\ NPTE * NTAB \in Nat /\ NPTE * NTAB >= 2
  BY MemoryAssumption
<1> DEFINE k == NPTE * NTAB
<1>2. KERNBASE = PGSIZE * k
  BY <1>1 DEF KERNBASE
<1>3. PGSIZE * 2 <= PGSIZE * k
  BY <1>1, ProductMonotone, Zenon
<1> QED BY <1>1, <1>2, <1>3

\* Sizes rounded up to pages.
LEMMA Rounding ==
  /\ \A n \in Nat : Pgroundup(n) \in Nat
  /\ \A m, n \in Nat : m <= n => Pgroundup(m) <= Pgroundup(n)
  /\ \A n \in 0 .. KERNBASE - 1 : Pgroundup(n) <= NPTE * NTAB
  /\ Pgroundup(PGSIZE) = 1
<1> USE Numbers
<1>1. \A n \in Nat : n + PGSIZE - 1 \in Nat
  OBVIOUS
<1>2. \A n \in Nat : Pgroundup(n) \in Nat
  BY <1>1, Quotient, Zenon DEF Pgroundup
<1>3. ASSUME NEW m \in Nat, NEW n \in Nat, m <= n
      PROVE  Pgroundup(m) <= Pgroundup(n)
  <2>1. m + PGSIZE - 1 <= n + PGSIZE - 1
    BY <1>3
  <2> QED BY <2>1, <1>1, QuotientMonotone, Zenon DEF Pgroundup
<1>4. ASSUME NEW n \in 0 .. KERNBASE - 1
      PROVE  Pgroundup(n) <= NPTE * NTAB
  <2> DEFINE k == NPTE * NTAB
  <2>1. n \in Nat /\ n < PGSIZE * k
    OBVIOUS
  <2>2. PGSIZE * (k + 1) = PGSIZE * k + PGSIZE
    OBVIOUS
  <2>3. n + PGSIZE - 1 < PGSIZE * (k + 1)
    BY <2>1, <2>2
  <2>4. k + 1 \in Nat /\ n + PGSIZE - 1 \in Nat
    OBVIOUS
  <2>5. (n + PGSIZE - 1) \div PGSIZE < k + 1
    BY <2>3, <2>4, QuotientBelow, Zenon
  <2> QED BY <2>1, <2>5, <1>2 DEF Pgroundup
<1>5. Pgroundup(PGSIZE) = 1
  <2> DEFINE q == (PGSIZE + PGSIZE - 1) \div PGSIZE
  <2>1. PGSIZE + PGSIZE - 1 \in Nat
    OBVIOUS
  <2>2. q \in Nat /\ PGSIZE * q <= PGSIZE + PGSIZE - 1 /\ PGSIZE + PGSIZE - 1 < PGSIZE * q + PGSIZE
    BY <2>1, Quotient, Zenon
  <2>3. q # 0
    BY <2>2
  <2>4. ~ (q >= 2)
    <3>1. SUFFICES ASSUME 2 <= q PROVE FALSE
      BY <2>2, Zenon
    <3>2. PGSIZE * 2 <= PGSIZE * q
      BY <3>1, <2>2, ProductMonotone, Zenon
    <3> QED BY <3>2, <2>2
  <2> QED BY <2>2, <2>3, <2>4 DEF Pgroundup
<1> QED BY <1>2, <1>3, <1>4, <1>5, Zenon

\* The page table for a page.
LEMMA TableOf ==
  ASSUME NEW a \in Nat, a < NPTE * NTAB
  PROVE  a \div NPTE \in 0 .. NTAB - 1 /\ a \in Vpages
<1>1. a \div NPTE \in Nat /\ a \div NPTE < NTAB
  BY Numbers, Quotient, QuotientBelow, Zenon
<1> QED BY <1>1, Numbers DEF Vpages

-----------------------------------------------------------------------------
(* Pages change hands.                                                     *)

\* The pages of P outside F are one each in the places S, as f says.
OnceIn(S, f, P, F) ==
  /\ {f[x] : x \in {x \in S : f[x] # 0}} = P \ F
  /\ \A x, y \in S : f[x] # 0 /\ f[x] = f[y] => x = y

\* A free page goes to an empty place.
LEMMA TakingKeeps ==
  ASSUME NEW S, NEW f, NEW g, NEW P, NEW F, NEW page \in F, NEW x \in S,
         F \subseteq P, 0 \notin P, OnceIn(S, f, P, F),
         f[x] = 0, g[x] = page, \A y \in S : y # x => g[y] = f[y]
  PROVE  OnceIn(S, g, P, F \ {page})
<1>1. page # 0 /\ page \in P
  BY Zenon
<1>2. {g[y] : y \in {y \in S : g[y] # 0}} = {f[y] : y \in {y \in S : f[y] # 0}} \cup {page}
  BY <1>1, Zenon
<1>3. {g[y] : y \in {y \in S : g[y] # 0}} = P \ (F \ {page})
  BY <1>1, <1>2, ZenonT(40) DEF OnceIn
<1>4. ASSUME NEW y \in S, f[y] = page PROVE FALSE
  BY <1>1, <1>4, Zenon DEF OnceIn
<1>5. \A y, z \in S : g[y] # 0 /\ g[y] = g[z] => y = z
  BY <1>1, <1>4, Zenon DEF OnceIn
<1> QED BY <1>3, <1>5, Zenon DEF OnceIn

\* The pages of the places that become empty.
Emptied(S, f, g) == {f[y] : y \in {y \in S : f[y] # 0 /\ g[y] = 0}}

\* The pages of some places are freed.
LEMMA ReleasingKeeps ==
  ASSUME NEW S, NEW f, NEW g, NEW P, NEW F,
         OnceIn(S, f, P, F),
         \A y \in S : g[y] # 0 => g[y] = f[y]
  PROVE  OnceIn(S, g, P, F \cup Emptied(S, f, g))
<1> DEFINE G == F \cup Emptied(S, f, g)
<1>1. ASSUME NEW z \in S, g[z] # 0
      PROVE  g[z] \in P \ G
  BY <1>1, Zenon DEF OnceIn, Emptied
<1>2. ASSUME NEW page \in P \ G
      PROVE  \E z \in S : g[z] # 0 /\ g[z] = page
  BY DEF OnceIn, Emptied
<1>3. {g[z] : z \in {z \in S : g[z] # 0}} = P \ G
  BY <1>1, <1>2, Zenon
<1>4. \A y, z \in S : g[y] # 0 /\ g[y] = g[z] => y = z
  BY Zenon DEF OnceIn
<1> QED BY <1>3, <1>4, Zenon DEF OnceIn

LEMMA EmptiedPages ==
  ASSUME NEW S, NEW f, NEW g, NEW P, NEW F, OnceIn(S, f, P, F)
  PROVE  Emptied(S, f, g) \subseteq P
  BY Zenon DEF OnceIn, Emptied

\* The pages of some places go to others, from x to m[x].
LEMMA MovingKeeps ==
  ASSUME NEW S, NEW f, NEW g, NEW P, NEW F, NEW m \in [S -> S],
         OnceIn(S, f, P, F),
         \A y \in S : f[y] # 0 => g[m[y]] = f[y],
         \A z \in S : g[z] # 0 => \E y \in S : m[y] = z /\ f[y] # 0
  PROVE  OnceIn(S, g, P, F)
<1>1. ASSUME NEW z \in S, g[z] # 0
      PROVE  g[z] \in P \ F
  BY <1>1 DEF OnceIn
<1>2. ASSUME NEW page \in P \ F
      PROVE  \E z \in S : g[z] # 0 /\ g[z] = page
  <2>1. PICK y \in S : f[y] # 0 /\ f[y] = page
    BY DEF OnceIn
  <2> QED BY <2>1, Zenon
<1>3. {g[z] : z \in {z \in S : g[z] # 0}} = P \ F
  BY <1>1, <1>2
<1>4. \A y, z \in S : g[y] # 0 /\ g[y] = g[z] => y = z
  BY DEF OnceIn
<1> QED BY <1>3, <1>4, Zenon DEF OnceIn

-----------------------------------------------------------------------------
(* The places of the system.                                               *)

\* The page in every place.
View == [x \in Places |-> PageAt(x)]

LEMMA OwnedAsView ==
  /\ PagesOwnedOnce <=> OnceIn(Places, View, Pages, free)
  /\ PagesOwnedOnce' <=> OnceIn(Places, View', Pages, free')
<1>1. \A x \in Places : View[x] = PageAt(x) /\ View'[x] = PageAt(x)'
  BY Zenon DEF View
<1>2. Places' = Places /\ Pages' = Pages
  BY Zenon DEF Places, Pages, Parts, Dir, Ktab, Tab, Pte, Vpages
<1> QED BY <1>1, <1>2 DEF PagesOwnedOnce, OnceIn

LEMMA PlaceCases ==
  ASSUME NEW x \in Places
  PROVE  \E u \in Owners :
           \/ \E p \in Parts : x = <<u, "now", p>> \/ x = <<u, "fresh", p>>
           \/ x = <<u, "hand", Dir>>
           \/ x = <<u, "kstack", Dir>>
  BY DEF Places

LEMMA PartOf ==
  /\ Dir \in Parts /\ Ktab \in Parts
  /\ \A t \in 0 .. NTAB - 1 : Tab(t) \in Parts
  /\ \A v \in Vpages : Pte(v) \in Parts
  /\ Dir # Ktab
  /\ \A t : Tab(t) # Dir /\ Tab(t) # Ktab
  /\ \A v : Pte(v) # Dir /\ Pte(v) # Ktab
  /\ \A t, v : Tab(t) # Pte(v)
  /\ \A v, w : Pte(v) = Pte(w) => v = w
  BY Zenon DEF Parts, Dir, Ktab, Tab, Pte

LEMMA NowAt ==
  ASSUME NEW u \in Owners, NEW p \in Parts
  PROVE  /\ <<u, "now", p>> \in Places
         /\ View[<<u, "now", p>>] = space[u][p]
         /\ View'[<<u, "now", p>>] = space'[u][p]
  BY Zenon DEF View, PageAt, Places

LEMMA FreshAt ==
  ASSUME NEW u \in Owners, NEW p \in Parts
  PROVE  /\ <<u, "fresh", p>> \in Places
         /\ View[<<u, "fresh", p>>] = fresh[u][p]
         /\ View'[<<u, "fresh", p>>] = fresh'[u][p]
  BY Zenon DEF View, PageAt, Places

LEMMA HandAt ==
  ASSUME NEW u \in Owners
  PROVE  /\ <<u, "hand", Dir>> \in Places
         /\ View[<<u, "hand", Dir>>] = hand[u]
         /\ View'[<<u, "hand", Dir>>] = hand'[u]
  BY Zenon DEF View, PageAt, Places

LEMMA KstackAt ==
  ASSUME NEW u \in Owners
  PROVE  /\ <<u, "kstack", Dir>> \in Places
         /\ View[<<u, "kstack", Dir>>] = kstack[u]
         /\ View'[<<u, "kstack", Dir>>] = kstack'[u]
  BY Zenon DEF View, PageAt, Places

\* A place that is not touched.
LEMMA SameView ==
  ASSUME NEW y \in Places,
         \A u \in Owners, p \in Parts : y = <<u, "now", p>> => space'[u][p] = space[u][p],
         \A u \in Owners, p \in Parts : y = <<u, "fresh", p>> => fresh'[u][p] = fresh[u][p],
         \A u \in Owners : y = <<u, "hand", Dir>> => hand'[u] = hand[u],
         \A u \in Owners : y = <<u, "kstack", Dir>> => kstack'[u] = kstack[u]
  PROVE  View'[y] = View[y]
<1>1. PICK u \in Owners :
        \/ \E p \in Parts : y = <<u, "now", p>> \/ y = <<u, "fresh", p>>
        \/ y = <<u, "hand", Dir>>
        \/ y = <<u, "kstack", Dir>>
  BY PlaceCases, Zenon
<1>2. CASE \E p \in Parts : y = <<u, "now", p>>
  <2>1. PICK p \in Parts : y = <<u, "now", p>>
    BY <1>2, Zenon
  <2>2. space'[u][p] = space[u][p]
    BY <2>1, Zenon
  <2> QED BY <2>1, <2>2, NowAt, Zenon
<1>3. CASE \E p \in Parts : y = <<u, "fresh", p>>
  <2>1. PICK p \in Parts : y = <<u, "fresh", p>>
    BY <1>3, Zenon
  <2>2. fresh'[u][p] = fresh[u][p]
    BY <2>1, Zenon
  <2> QED BY <2>1, <2>2, FreshAt, Zenon
<1>4. CASE y = <<u, "hand", Dir>>
  BY <1>4, HandAt, Zenon
<1>5. CASE y = <<u, "kstack", Dir>>
  BY <1>5, KstackAt, Zenon
<1> QED BY <1>1, <1>2, <1>3, <1>4, <1>5, Zenon

LEMMA PagesAreNot0 ==
  0 \notin Pages
  BY DEF Pages

\* kalloc() for place x.
LEMMA TakeStep ==
  ASSUME MemTypes, PagesOwnedOnce, Kalloc, NEW x \in Places,
         View[x] = 0, View'[x] = Taken, \A y \in Places : y # x => View'[y] = View[y]
  PROVE  PagesOwnedOnce' /\ free' \subseteq Pages /\ Taken \in Pages
<1>1. Taken \in free /\ free' = free \ {Taken} /\ free \subseteq Pages
  BY Zenon DEF Kalloc, Taken, MemTypes
<1>2. OnceIn(Places, View, Pages, free)
  BY OwnedAsView, Zenon
<1>3. OnceIn(Places, View', Pages, free \ {Taken})
  BY <1>1, <1>2, PagesAreNot0, TakingKeeps, Zenon
<1> QED BY <1>1, <1>3, OwnedAsView, Zenon

\* kfree() of the pages in some places.
LEMMA ReleaseStep ==
  ASSUME MemTypes, PagesOwnedOnce, NEW freed, free' = free \cup freed,
         \A y \in Places : View'[y] # View[y] => View'[y] = 0,
         \A page : page \in freed <=>
           \E y \in Places : View[y] = page /\ View[y] # 0 /\ View'[y] = 0
  PROVE  PagesOwnedOnce' /\ free' \subseteq Pages
<1>1. OnceIn(Places, View, Pages, free) /\ free \subseteq Pages
  BY OwnedAsView, Zenon DEF MemTypes
<1>2. free' = free \cup Emptied(Places, View, View')
  BY Zenon DEF Emptied
<1>3. \A y \in Places : View'[y] # 0 => View'[y] = View[y]
  BY Zenon
<1>4. OnceIn(Places, View', Pages, free \cup Emptied(Places, View, View'))
  BY <1>1, <1>3, ReleasingKeeps, Zenon
<1>5. Emptied(Places, View, View') \subseteq Pages
  BY <1>1, EmptiedPages, Zenon
<1> QED BY <1>1, <1>2, <1>4, <1>5, OwnedAsView, Zenon

-----------------------------------------------------------------------------
(* What a step that leaves an entry and its call alone preserves.          *)

LEMMA CallKeeps ==
  ASSUME NEW w \in Owners, CallOK(w),
         work'[w] = work[w], fresh'[w] = fresh[w], hand'[w] = hand[w], sz'[w] = sz[w],
         Busy(w) => life'[w] = "RUNNING",
         work[w].call = "fork" =>
           /\ life'[work[w].child] = "EMBRYO"
           /\ kstack[work[w].child] # 0 => kstack'[work[w].child] # 0
  PROVE  CallOK(w)'
  BY Zenon DEF CallOK, Busy, Pgroundup, NoSpace, Vpages, Parts, Pte, Ktab,
     Dir, Tab

LEMMA EntryKeeps ==
  ASSUME NEW w \in Owners, EntryOK(w), life'[w] = life[w], space'[w] = space[w],
         life[w] = "UNUSED" => kstack'[w] = 0,
         kstack[w] # 0 => kstack'[w] # 0,
         work'[w] = work[w], sz'[w] = sz[w], gaveAll'[w] = gaveAll[w]
  PROVE  EntryOK(w)'
  BY Zenon DEF EntryOK, Top, Pgroundup, NoSpace, Vpages, Parts, Pte, Ktab,
     Dir, Tab, Alive

LEMMA AllKeep ==
  ASSUME MemIInv, UNCHANGED <<space, sz, kstack, life, work, fresh, hand, gaveAll>>
  PROVE  \A w \in Owners : CallOK(w)' /\ EntryOK(w)'
<1>1. TAKE w \in Owners
<1>2. CallOK(w) /\ EntryOK(w)
  BY Zenon DEF MemIInv
<1>3. CallOK(w)'
  <2>1. Busy(w) => life'[w] = "RUNNING"
    BY <1>2, Zenon DEF CallOK
  <2>2. work[w].call = "fork" =>
          /\ life'[work[w].child] = "EMBRYO"
          /\ kstack[work[w].child] # 0 => kstack'[work[w].child] # 0
    BY <1>2, Zenon DEF CallOK
  <2> QED BY <1>2, <2>1, <2>2, CallKeeps, Zenon
<1>4. EntryOK(w)'
  BY <1>2, EntryKeeps, Zenon DEF EntryOK
<1> QED BY <1>3, <1>4, Zenon

\* The loop of a call is at a page of the user part.
LEMMA AtPage ==
  ASSUME MemIInv, NEW u \in Owners, work[u].a < Pgroundup(work[u].newsz)
  PROVE  work[u].a \in Vpages /\ work[u].a \div NPTE \in 0 .. NTAB - 1
<1>1. work[u].a \in Nat /\ work[u].newsz \in 0 .. KERNBASE - 1
  BY Zenon DEF MemIInv, MemTypes
<1>2. Pgroundup(work[u].newsz) <= NPTE * NTAB /\ Pgroundup(work[u].newsz) \in Nat
  BY <1>1, Rounding, Numbers
<1>3. work[u].a < NPTE * NTAB
  BY <1>1, <1>2, Numbers
<1> QED BY <1>1, <1>3, TableOf, Zenon

\* kalloc() of a kernel stack, of a page, and of a part of an address space.
LEMMA TakeKstack ==
  ASSUME MemTypes, PagesOwnedOnce, Kalloc, NEW c \in Owners, kstack[c] = 0,
         kstack' = [kstack EXCEPT ![c] = Taken], UNCHANGED <<space, fresh, hand>>
  PROVE  PagesOwnedOnce' /\ free' \subseteq Pages /\ Taken \in Pages
<1> DEFINE x == <<c, "kstack", Dir>>
<1>1. kstack'[c] = Taken /\ \A u \in Owners : u # c => kstack'[u] = kstack[u]
  BY Zenon DEF MemTypes
<1>2. x \in Places /\ View[x] = 0 /\ View'[x] = Taken
  BY <1>1, KstackAt, Zenon
<1>3. \A y \in Places : y # x => View'[y] = View[y]
  BY <1>1, SameView, Zenon
<1> QED BY <1>2, <1>3, TakeStep, Zenon

LEMMA TakeHand ==
  ASSUME MemTypes, PagesOwnedOnce, Kalloc, NEW u \in Owners, hand[u] = 0,
         hand' = [hand EXCEPT ![u] = Taken], UNCHANGED <<space, fresh, kstack>>
  PROVE  PagesOwnedOnce' /\ free' \subseteq Pages /\ Taken \in Pages
<1> DEFINE x == <<u, "hand", Dir>>
<1>1. hand'[u] = Taken /\ \A w \in Owners : w # u => hand'[w] = hand[w]
  BY Zenon DEF MemTypes
<1>2. x \in Places /\ View[x] = 0 /\ View'[x] = Taken
  BY <1>1, HandAt, Zenon
<1>3. \A y \in Places : y # x => View'[y] = View[y]
  BY <1>1, SameView, Zenon
<1> QED BY <1>2, <1>3, TakeStep, ZenonT(40)

\* What a page in place p changes.
LEMMA MappedFacts ==
  ASSUME MemTypes, NEW u \in Owners, NEW p \in Parts, NEW page \in Pages \cup {0},
         Mapped(u, p, page)
  PROVE  /\ space' \in [Owners -> [Parts -> Pages \cup {0}]]
         /\ fresh' \in [Owners -> [Parts -> Pages \cup {0}]]
         /\ \A w \in Owners, q \in Parts :
              /\ space'[w][q] = IF work[u].call = "sbrk" /\ w = u /\ q = p THEN page
                                ELSE space[w][q]
              /\ fresh'[w][q] = IF work[u].call # "sbrk" /\ w = u /\ q = p THEN page
                                ELSE fresh[w][q]
         /\ \A w \in Owners : work[u].call # "sbrk" \/ w # u => space'[w] = space[w]
         /\ \A w \in Owners : work[u].call = "sbrk" \/ w # u => fresh'[w] = fresh[w]
<1>0. /\ space \in [Owners -> [Parts -> Pages \cup {0}]]
      /\ fresh \in [Owners -> [Parts -> Pages \cup {0}]]
  BY Zenon DEF MemTypes
<1>1. CASE work[u].call = "sbrk"
  <2>1. space' = [space EXCEPT ![u][p] = page] /\ fresh' = fresh
    BY <1>1, Zenon DEF Mapped
  <2>2. space' \in [Owners -> [Parts -> Pages \cup {0}]]
    BY <1>0, <2>1, Zenon
  <2>3. \A w \in Owners, q \in Parts :
          space'[w][q] = IF w = u /\ q = p THEN page ELSE space[w][q]
    BY <1>0, <2>1, Zenon
  <2>4. \A w \in Owners : w # u => space'[w] = space[w]
    BY <1>0, <2>1, Zenon
  <2> QED BY <1>0, <1>1, <2>1, <2>2, <2>3, <2>4, Zenon
<1>2. CASE work[u].call # "sbrk"
  <2>1. fresh' = [fresh EXCEPT ![u][p] = page] /\ space' = space
    BY <1>2, Zenon DEF Mapped
  <2>2. fresh' \in [Owners -> [Parts -> Pages \cup {0}]]
    BY <1>0, <2>1, Zenon
  <2>3. \A w \in Owners, q \in Parts :
          fresh'[w][q] = IF w = u /\ q = p THEN page ELSE fresh[w][q]
    BY <1>0, <2>1, Zenon
  <2>4. \A w \in Owners : w # u => fresh'[w] = fresh[w]
    BY <1>0, <2>1, Zenon
  <2> QED BY <1>0, <1>2, <2>1, <2>2, <2>3, <2>4, Zenon
<1> QED BY <1>1, <1>2, Zenon

LEMMA TakeMapped ==
  ASSUME MemTypes, PagesOwnedOnce, Kalloc, NEW u \in Owners, NEW p \in Parts,
         Target(u)[p] = 0, Mapped(u, p, Taken), UNCHANGED <<hand, kstack>>
  PROVE  PagesOwnedOnce' /\ free' \subseteq Pages /\ Taken \in Pages
<1> DEFINE x == IF work[u].call = "sbrk" THEN <<u, "now", p>> ELSE <<u, "fresh", p>>
<1>1. Taken \in Pages
  BY Zenon DEF Kalloc, Taken, MemTypes
<1>2. \A w \in Owners, q \in Parts :
        /\ space'[w][q] = IF work[u].call = "sbrk" /\ w = u /\ q = p THEN Taken
                          ELSE space[w][q]
        /\ fresh'[w][q] = IF work[u].call # "sbrk" /\ w = u /\ q = p THEN Taken
                          ELSE fresh[w][q]
  BY <1>1, MappedFacts
<1>3. x \in Places /\ View[x] = 0 /\ View'[x] = Taken
  <2>1. CASE work[u].call = "sbrk"
    <3>1. x = <<u, "now", p>> /\ space[u][p] = 0 /\ space'[u][p] = Taken
      BY <1>2, <2>1, Zenon DEF Target
    <3> QED BY <3>1, NowAt, Zenon
  <2>2. CASE work[u].call # "sbrk"
    <3>1. x = <<u, "fresh", p>> /\ fresh[u][p] = 0 /\ fresh'[u][p] = Taken
      BY <1>2, <2>2, Zenon DEF Target
    <3> QED BY <3>1, FreshAt, Zenon
  <2> QED BY <2>1, <2>2, Zenon
<1>4. \A y \in Places : y # x => View'[y] = View[y]
  BY <1>2, SameView, Zenon
<1> QED BY <1>3, <1>4, TakeStep, Zenon

-----------------------------------------------------------------------------
(* One lemma per action.                                                   *)

\* Nobody else's call or entry, and no child, is touched.
LEMMA OthersKeep ==
  ASSUME MemIInv, NEW u \in Owners,
         \A w \in Owners : w # u =>
           /\ work'[w] = work[w] /\ fresh'[w] = fresh[w] /\ hand'[w] = hand[w]
           /\ sz'[w] = sz[w] /\ space'[w] = space[w] /\ gaveAll'[w] = gaveAll[w],
         UNCHANGED <<life, kstack>>
  PROVE  \A w \in Owners : w # u => CallOK(w)' /\ EntryOK(w)'
<1>1. TAKE w \in Owners
<1>2. HAVE w # u
<1>3. CallOK(w) /\ EntryOK(w)
  BY Zenon DEF MemIInv
<1>4. CallOK(w)'
  <2>1. Busy(w) => life'[w] = "RUNNING"
    BY <1>3, Zenon DEF CallOK
  <2>2. work[w].call = "fork" =>
          /\ life'[work[w].child] = "EMBRYO"
          /\ kstack[work[w].child] # 0 => kstack'[work[w].child] # 0
    BY <1>3, Zenon DEF CallOK
  <2> QED BY <1>2, <1>3, <2>1, <2>2, CallKeeps, Zenon
<1>5. EntryOK(w)'
  BY <1>2, <1>3, EntryKeeps, Zenon DEF EntryOK
<1> QED BY <1>4, <1>5, Zenon

LEMMA KstackAllocKeeps ==
  ASSUME MemIInv, NEW u \in Owners, memFault = "none", KstackAlloc(u)
  PROVE  MemIInv'
<1> DEFINE c == work[u].child
<1>1. /\ work[u].call = "fork" /\ kstack[c] = 0 /\ Kalloc
      /\ kstack' = [kstack EXCEPT ![c] = Taken]
      /\ UNCHANGED <<space, sz, life, parent, work, fresh, hand, gaveAll, memFault>>
  BY Zenon DEF KstackAlloc
<1>2. c \in Owners /\ life[c] = "EMBRYO"
  BY <1>1 DEF MemIInv, MemTypes, CallOK
<1>3. PagesOwnedOnce' /\ free' \subseteq Pages /\ Taken \in Pages
  BY <1>1, <1>2, TakeKstack, Zenon DEF MemIInv
<1>4. Taken # 0 /\ kstack'[c] = Taken /\ \A w \in Owners : w # c => kstack'[w] = kstack[w]
  BY <1>1, <1>2, <1>3, PagesAreNot0, Zenon DEF MemIInv, MemTypes
<1>5. MemTypes'
  BY <1>1, <1>2, <1>3, Zenon DEF MemIInv, MemTypes
<1>6. ASSUME NEW w \in Owners PROVE CallOK(w)' /\ EntryOK(w)'
  <2>1. CallOK(w) /\ EntryOK(w) /\ work[w].child \in Owners \cup {0}
    BY Zenon DEF MemIInv, MemTypes
  <2>2. CallOK(w)'
    <3>1. Busy(w) => life'[w] = "RUNNING"
      BY <1>1, <2>1, Zenon DEF CallOK
    <3>2. work[w].call = "fork" =>
            /\ life'[work[w].child] = "EMBRYO"
            /\ kstack[work[w].child] # 0 => kstack'[work[w].child] # 0
      BY <1>1, <1>4, <2>1, MemoryAssumption, Zenon DEF CallOK
    <3> QED BY <1>1, <2>1, <3>1, <3>2, CallKeeps, Zenon
  <2>3. EntryOK(w)'
    BY <1>1, <1>2, <1>4, <2>1, EntryKeeps, Zenon DEF EntryOK
  <2> QED BY <2>2, <2>3, Zenon
<1>7. ChildrenDiffer' /\ FaultCause'
  BY <1>1, Zenon DEF MemIInv, ChildrenDiffer, FaultCause
<1> QED BY <1>3, <1>5, <1>6, <1>7, Zenon DEF MemIInv

LEMMA SetupkvmKeeps ==
  ASSUME MemIInv, NEW u \in Owners, memFault = "none", Setupkvm(u)
  PROVE  MemIInv'
<1> DEFINE p == IF fresh[u][Dir] = 0 THEN Dir ELSE Ktab
<1>1. /\ work[u].call \in {"fork", "exec"} /\ fresh[u][Ktab] = 0 /\ Kalloc
      /\ work[u].call = "fork" => kstack[work[u].child] # 0
      /\ Mapped(u, p, Taken)
      /\ UNCHANGED <<sz, kstack, life, parent, work, hand, gaveAll, memFault>>
  BY Zenon DEF Setupkvm
<1>2. p \in Parts /\ Target(u)[p] = 0
  BY <1>1, PartOf, Zenon DEF Target
<1>3. PagesOwnedOnce' /\ free' \subseteq Pages /\ Taken \in Pages
  BY <1>1, <1>2, TakeMapped, Zenon DEF MemIInv
<1>4. /\ space' \in [Owners -> [Parts -> Pages \cup {0}]]
      /\ fresh' \in [Owners -> [Parts -> Pages \cup {0}]]
      /\ \A w \in Owners, q \in Parts :
           fresh'[w][q] = IF w = u /\ q = p THEN Taken ELSE fresh[w][q]
      /\ \A w \in Owners : space'[w] = space[w]
      /\ \A w \in Owners : w # u => fresh'[w] = fresh[w]
  BY <1>1, <1>2, <1>3, MappedFacts DEF MemIInv
<1>5. MemTypes'
  BY <1>1, <1>3, <1>4, Zenon DEF MemIInv, MemTypes
<1>6. \A w \in Owners : w # u => CallOK(w)' /\ EntryOK(w)'
  BY <1>1, <1>4, OthersKeep, Zenon
<1>7. EntryOK(u)'
  <2>1. EntryOK(u)
    BY Zenon DEF MemIInv
  <2> QED BY <1>1, <1>4, <2>1, EntryKeeps, Zenon DEF EntryOK
<1>8. CallOK(u)'
  <2>1. CallOK(u)
    BY Zenon DEF MemIInv
  <2>2. \A v \in Vpages : fresh'[u][Pte(v)] = fresh[u][Pte(v)]
    BY <1>4, PartOf, Zenon
  <2> QED BY <1>1, <2>1, <2>2, Zenon DEF CallOK, Busy, Pgroundup
<1>9. ChildrenDiffer' /\ FaultCause'
  BY <1>1, Zenon DEF MemIInv, ChildrenDiffer, FaultCause
<1> QED BY <1>3, <1>5, <1>6, <1>7, <1>8, <1>9, Zenon DEF MemIInv

LEMMA GrowPageKeeps ==
  ASSUME MemIInv, NEW u \in Owners, memFault = "none", GrowPage(u)
  PROVE  MemIInv'
<1>1. /\ Busy(u) /\ work[u].a < Pgroundup(work[u].newsz) /\ hand[u] = 0 /\ Kalloc
      /\ hand' = [hand EXCEPT ![u] = Taken]
      /\ UNCHANGED <<space, sz, kstack, life, parent, work, fresh, gaveAll, memFault>>
  BY Zenon DEF GrowPage, Growing
<1>2. PagesOwnedOnce' /\ free' \subseteq Pages /\ Taken \in Pages
  BY <1>1, TakeHand, Zenon DEF MemIInv
<1>3. hand'[u] = Taken /\ \A w \in Owners : w # u => hand'[w] = hand[w]
  BY <1>1, Zenon DEF MemIInv, MemTypes
<1>4. MemTypes'
  BY <1>1, <1>2, Zenon DEF MemIInv, MemTypes
<1>5. \A w \in Owners : w # u => CallOK(w)' /\ EntryOK(w)'
  BY <1>1, <1>3, OthersKeep, Zenon
<1>6. EntryOK(u)'
  <2>1. EntryOK(u)
    BY Zenon DEF MemIInv
  <2> QED BY <1>1, <2>1, EntryKeeps, Zenon DEF EntryOK
<1>7. CallOK(u)'
  <2>1. CallOK(u)
    BY Zenon DEF MemIInv
  <2> QED BY <1>1, <2>1, Zenon DEF CallOK, Busy, Pgroundup
<1>8. ChildrenDiffer' /\ FaultCause'
  BY <1>1, Zenon DEF MemIInv, ChildrenDiffer, FaultCause
<1> QED BY <1>2, <1>4, <1>5, <1>6, <1>7, <1>8, Zenon DEF MemIInv

LEMMA GrowTableKeeps ==
  ASSUME MemIInv, NEW u \in Owners, memFault = "none", GrowTable(u)
  PROVE  MemIInv'
<1> DEFINE p == Tab(work[u].a \div NPTE)
<1>1. /\ Busy(u) /\ work[u].a < Pgroundup(work[u].newsz) /\ Target(u)[Ktab] # 0
      /\ hand[u] # 0 /\ Target(u)[p] = 0 /\ Kalloc
      /\ Mapped(u, p, Taken)
      /\ UNCHANGED <<sz, kstack, life, parent, work, hand, gaveAll, memFault>>
  BY Zenon DEF GrowTable, Growing
<1>2. p \in Parts /\ p # Ktab /\ \A v : p # Pte(v)
  BY <1>1, AtPage, PartOf, Zenon
<1>3. PagesOwnedOnce' /\ free' \subseteq Pages /\ Taken \in Pages
  BY <1>1, <1>2, TakeMapped, Zenon DEF MemIInv
<1> HIDE DEF p
<1>4. /\ space' \in [Owners -> [Parts -> Pages \cup {0}]]
      /\ fresh' \in [Owners -> [Parts -> Pages \cup {0}]]
      /\ \A w \in Owners, q \in Parts : q # p =>
           space'[w][q] = space[w][q] /\ fresh'[w][q] = fresh[w][q]
      /\ work[u].call = "sbrk" => fresh'[u] = fresh[u]
      /\ work[u].call # "sbrk" => space'[u] = space[u]
      /\ \A w \in Owners : w # u => space'[w] = space[w] /\ fresh'[w] = fresh[w]
  BY <1>1, <1>2, <1>3, MappedFacts DEF MemIInv
<1>5. MemTypes'
  BY <1>1, <1>3, <1>4, Zenon DEF MemIInv, MemTypes
<1>6. \A w \in Owners : w # u => CallOK(w)' /\ EntryOK(w)'
  BY <1>1, <1>4, OthersKeep, Zenon
<1>7. \A v \in Vpages : /\ space'[u][Pte(v)] = space[u][Pte(v)]
                        /\ fresh'[u][Pte(v)] = fresh[u][Pte(v)]
  BY <1>2, <1>4, PartOf, Zenon
<1>8. EntryOK(u)'
  <2>1. EntryOK(u) /\ life[u] = "RUNNING"
    BY <1>1, Zenon DEF MemIInv, CallOK
  <2> QED BY <1>1, <1>7, <2>1, Zenon DEF EntryOK, Top, Pgroundup, Alive
<1>9. CallOK(u)'
  <2>1. CallOK(u)
    BY Zenon DEF MemIInv
  <2>2. fresh'[u][Ktab] = fresh[u][Ktab]
    BY <1>2, <1>4, PartOf, Zenon
  <2>3. work[u].call \notin {"fork", "exec"} => fresh'[u] = NoSpace
    BY <1>1, <1>4, <2>1 DEF CallOK, Busy, MemIInv, MemTypes
  <2> QED BY <1>1, <1>7, <2>1, <2>2, <2>3, Zenon DEF CallOK, Busy, Pgroundup
<1>10. ChildrenDiffer' /\ FaultCause'
  BY <1>1, Zenon DEF MemIInv, ChildrenDiffer, FaultCause
<1> QED BY <1>3, <1>5, <1>6, <1>8, <1>9, <1>10, Zenon DEF MemIInv

\* The page in hand is mapped.
LEMMA MoveHand ==
  ASSUME MemTypes, PagesOwnedOnce, NEW u \in Owners, NEW p \in Parts,
         Target(u)[p] = 0, hand[u] # 0, Mapped(u, p, hand[u]),
         hand' = [hand EXCEPT ![u] = 0], UNCHANGED <<free, kstack>>
  PROVE  PagesOwnedOnce'
<1> DEFINE x == IF work[u].call = "sbrk" THEN <<u, "now", p>> ELSE <<u, "fresh", p>>
           h == <<u, "hand", Dir>>
           m == [y \in Places |-> IF y = h THEN x ELSE y]
<1>1. hand[u] \in Pages \cup {0} /\ hand'[u] = 0 /\ \A w \in Owners : w # u => hand'[w] = hand[w]
  BY Zenon DEF MemTypes
<1>2. \A w \in Owners, q \in Parts :
        /\ space'[w][q] = IF work[u].call = "sbrk" /\ w = u /\ q = p THEN hand[u]
                          ELSE space[w][q]
        /\ fresh'[w][q] = IF work[u].call # "sbrk" /\ w = u /\ q = p THEN hand[u]
                          ELSE fresh[w][q]
  BY <1>1, MappedFacts
<1>3. x \in Places /\ View[x] = 0 /\ View'[x] = hand[u]
  <2>1. CASE work[u].call = "sbrk"
    <3>1. x = <<u, "now", p>> /\ space[u][p] = 0 /\ space'[u][p] = hand[u]
      BY <1>2, <2>1, Zenon DEF Target
    <3> QED BY <3>1, NowAt, Zenon
  <2>2. CASE work[u].call # "sbrk"
    <3>1. x = <<u, "fresh", p>> /\ fresh[u][p] = 0 /\ fresh'[u][p] = hand[u]
      BY <1>2, <2>2, Zenon DEF Target
    <3> QED BY <3>1, FreshAt, Zenon
  <2> QED BY <2>1, <2>2, Zenon
<1>4. h \in Places /\ View[h] = hand[u] /\ View'[h] = 0
  BY <1>1, HandAt, Zenon
<1>5. \A y \in Places : y # x /\ y # h => View'[y] = View[y]
  BY <1>1, <1>2, SameView
<1> HIDE DEF x, h
<1>6. m \in [Places -> Places]
  BY <1>3, Zenon
<1>7. \A y \in Places : View[y] # 0 => View'[m[y]] = View[y]
  BY <1>3, <1>4, <1>5, Zenon
<1>8. \A z \in Places : View'[z] # 0 => \E y \in Places : m[y] = z /\ View[y] # 0
  BY <1>3, <1>4, <1>5, Zenon
<1> HIDE DEF m
<1>9. OnceIn(Places, View', Pages, free)
  BY <1>6, <1>7, <1>8, OwnedAsView, MovingKeeps, Zenon
<1> QED BY <1>9, OwnedAsView, Zenon

LEMMA GrowMapKeeps ==
  ASSUME MemIInv, NEW u \in Owners, memFault = "none", GrowMap(u)
  PROVE  MemIInv'
<1> DEFINE a == work[u].a
           p == Pte(a)
<1>1. /\ Busy(u) /\ a < Pgroundup(work[u].newsz) /\ Target(u)[Ktab] # 0
      /\ hand[u] # 0
      /\ Mapped(u, p, hand[u])
      /\ hand' = [hand EXCEPT ![u] = 0]
      /\ work' = [work EXCEPT ![u].a = @ + 1]
      /\ UNCHANGED <<free, sz, kstack, life, parent, gaveAll, memFault>>
  BY Zenon DEF GrowMap, Growing
<1>2. /\ a \in Vpages /\ p \in Parts /\ p # Ktab /\ a \in Nat
      /\ \A v \in Vpages : v # a => p # Pte(v)
  BY <1>1, AtPage, PartOf, Zenon DEF MemIInv, MemTypes
<1>3. CallOK(u) /\ EntryOK(u) /\ life[u] = "RUNNING"
  BY <1>1, Zenon DEF MemIInv, CallOK
<1>4. Target(u)[p] = 0
  <2>1. CASE work[u].call = "sbrk"
    BY <1>2, <1>3, <2>1, Numbers DEF Target, EntryOK, Top, Vpages
  <2>2. CASE work[u].call # "sbrk"
    <3>1. work[u].call \in {"fork", "exec"}
      BY <1>1, <2>2, Zenon DEF Busy, MemIInv, MemTypes
    <3> QED BY <1>2, <1>3, <2>2, <3>1 DEF Target, CallOK
  <2> QED BY <2>1, <2>2, Zenon
<1>5. hand[u] \in Pages
  BY <1>1, Zenon DEF MemIInv, MemTypes
<1>6. PagesOwnedOnce'
  BY <1>1, <1>2, <1>4, MoveHand, Zenon DEF MemIInv
<1>7. /\ space' \in [Owners -> [Parts -> Pages \cup {0}]]
      /\ fresh' \in [Owners -> [Parts -> Pages \cup {0}]]
      /\ \A q \in Parts : q # p =>
           space'[u][q] = space[u][q] /\ fresh'[u][q] = fresh[u][q]
      /\ work[u].call = "sbrk" => fresh'[u] = fresh[u] /\ space'[u][p] = hand[u]
      /\ work[u].call # "sbrk" => space'[u] = space[u] /\ fresh'[u][p] = hand[u]
      /\ \A w \in Owners : w # u => space'[w] = space[w] /\ fresh'[w] = fresh[w]
  <2> HIDE DEF p
  <2> QED BY <1>2, <1>1, <1>5, MappedFacts DEF MemIInv
<1>8. /\ work'[u] = [work[u] EXCEPT !.a = a + 1] /\ hand'[u] = 0
      /\ work'[u].a = a + 1 /\ work'[u].call = work[u].call
      /\ work'[u].child = work[u].child /\ work'[u].newsz = work[u].newsz
      /\ \A w \in Owners : w # u => work'[w] = work[w] /\ hand'[w] = hand[w]
  BY <1>1, ZenonT(40) DEF MemIInv, MemTypes
<1>9. MemTypes'
  <2>1. hand' \in [Owners -> Pages \cup {0}]
    BY <1>1, Zenon DEF MemIInv, MemTypes
  <2>2. work' \in [Owners -> [call : {"none", "sbrk", "fork", "exec"},
                     child : Owners \cup {0}, a : Nat, newsz : 0 .. KERNBASE - 1]]
    <3> DEFINE W == [call : {"none", "sbrk", "fork", "exec"},
                     child : Owners \cup {0}, a : Nat, newsz : 0 .. KERNBASE - 1]
    <3>1. work \in [Owners -> W] /\ work' = [work EXCEPT ![u] = [work[u] EXCEPT !.a = a + 1]]
      BY <1>1, Zenon DEF MemIInv, MemTypes
    <3>2. [work[u] EXCEPT !.a = a + 1] \in W
      BY <1>2, <3>1
    <3> HIDE DEF W
    <3>3. work' \in [Owners -> W]
      BY <3>1, <3>2, Zenon
    <3> QED BY <3>3, Zenon DEF W
  <2> QED BY <1>1, <1>7, <2>1, <2>2, Zenon DEF MemIInv, MemTypes
<1>10. \A w \in Owners : w # u => CallOK(w)' /\ EntryOK(w)'
  BY <1>1, <1>7, <1>8, OthersKeep, Zenon
<1>11. \A v \in Vpages : v # a => /\ space'[u][Pte(v)] = space[u][Pte(v)]
                                  /\ fresh'[u][Pte(v)] = fresh[u][Pte(v)]
  BY <1>2, <1>7, PartOf, Zenon
<1>12. EntryOK(u)'
  <2>1. CASE work[u].call = "sbrk"
    <3>1. \A v \in Vpages : v \in Nat
      BY Numbers DEF Vpages
    <3>2. \A v \in Vpages : v >= a + 1 => space'[u][Pte(v)] = 0
      BY <1>2, <1>3, <1>11, <2>1, <3>1 DEF EntryOK, Top
    <3>3. ~gaveAll[u] => \A v \in Vpages : v < a + 1 => space'[u][Pte(v)] # 0
      <4>1. \A v \in Vpages : v < a + 1 => v = a \/ v < a
        BY <1>2, <3>1
      <4>2. ~gaveAll[u] => \A v \in Vpages : v < a => space'[u][Pte(v)] # 0
        BY <1>2, <1>3, <1>11, <2>1, <3>1 DEF EntryOK, Top, Alive
      <4> QED BY <1>1, <1>7, <2>1, <4>1, <4>2, Zenon
    <3> QED
      BY <1>1, <1>3, <1>8, <2>1, <3>2, <3>3, Zenon DEF EntryOK, Top, Alive
  <2>2. CASE work[u].call # "sbrk"
    <3>1. Top(u)' = Top(u)
      BY <1>1, <1>8, <2>2, Zenon DEF Top, Pgroundup
    <3> QED BY <1>1, <1>3, <1>7, <2>2, <3>1, Zenon DEF EntryOK, Alive
  <2> QED BY <2>1, <2>2, Zenon
<1>13. CallOK(u)'
  <2>1. /\ Pgroundup(work[u].newsz) \in Nat
        /\ Pgroundup(sz[u]) \in Nat
    BY Rounding, Numbers DEF MemIInv, MemTypes
  <2>2. fresh'[u][Ktab] = fresh[u][Ktab]
    BY <1>2, <1>7, PartOf, Zenon
  <2>3. work[u].call \in {"fork", "exec"} =>
          \A v \in Vpages : fresh'[u][Pte(v)] # 0 <=> v < a + 1
    <3>1. \A v \in Vpages : v \in Nat
      BY Numbers DEF Vpages
    <3>2. \A v \in Vpages : v < a + 1 <=> v = a \/ v < a
      BY <1>2, <3>1
    <3>3. work[u].call \in {"fork", "exec"} =>
            \A v \in Vpages : v # a => (fresh'[u][Pte(v)] # 0 <=> v < a)
      BY <1>3, <1>11, Zenon DEF CallOK
    <3> QED BY <1>1, <1>7, <3>2, <3>3, Zenon
  <2>4. work[u].call = "sbrk" => Pgroundup(sz[u]) <= a + 1
    BY <1>2, <1>3, <2>1 DEF CallOK
  <2>5. a + 1 <= Pgroundup(work[u].newsz)
    BY <1>1, <1>2, <2>1
  <2>6. work[u].call \notin {"fork", "exec"} => fresh'[u] = NoSpace
    BY <1>1, <1>3, <1>7 DEF CallOK, Busy, MemIInv, MemTypes
  <2> QED
    BY <1>1, <1>3, <1>8, <2>2, <2>3, <2>4, <2>5, <2>6, Zenon DEF CallOK, Busy,
       Pgroundup
<1>14. ChildrenDiffer' /\ FaultCause'
  <2>1. \A w \in Owners : work'[w].child = work[w].child
    BY <1>8, Zenon
  <2> QED BY <1>1, <2>1 DEF MemIInv, ChildrenDiffer, FaultCause
<1> QED BY <1>6, <1>9, <1>10, <1>12, <1>13, <1>14, Zenon DEF MemIInv

-----------------------------------------------------------------------------
(* Calls begin and end.                                                    *)

Works == [call : {"none", "sbrk", "fork", "exec"}, child : Owners \cup {0},
          a : Nat, newsz : 0 .. KERNBASE - 1]

LEMMA WorkSet ==
  ASSUME MemTypes, NEW u \in Owners, NEW r \in Works, work' = [work EXCEPT ![u] = r]
  PROVE  /\ work' \in [Owners -> Works] /\ work'[u] = r
         /\ \A w \in Owners : w # u => work'[w] = work[w]
<1>1. work \in [Owners -> Works]
  BY Zenon DEF MemTypes, Works
<1> QED BY <1>1, Zenon

LEMMA NoWorkFacts ==
  /\ NoWork \in Works /\ NoWork.call = "none" /\ NoWork.child = 0 /\ NoWork.a = 0
  /\ NoWork.newsz = 0
  BY Numbers DEF NoWork, Works

LEMMA EndsCallFacts ==
  ASSUME MemTypes, NEW u \in Owners, EndsCall(u)
  PROVE  /\ work' \in [Owners -> Works] /\ work'[u] = NoWork
         /\ fresh' \in [Owners -> [Parts -> Pages \cup {0}]] /\ fresh'[u] = NoSpace
         /\ hand' \in [Owners -> Pages \cup {0}] /\ hand'[u] = 0
         /\ \A w \in Owners : w # u =>
              work'[w] = work[w] /\ fresh'[w] = fresh[w] /\ hand'[w] = hand[w]
<1>1. /\ work' = [work EXCEPT ![u] = NoWork]
      /\ fresh' = [fresh EXCEPT ![u] = NoSpace]
      /\ hand' = [hand EXCEPT ![u] = 0]
  BY Zenon DEF EndsCall
<1>2. NoSpace \in [Parts -> Pages \cup {0}]
  BY Zenon DEF NoSpace
<1>3. /\ work' \in [Owners -> Works] /\ work'[u] = NoWork
      /\ \A w \in Owners : w # u => work'[w] = work[w]
  BY <1>1, WorkSet, NoWorkFacts, Zenon
<1>4. /\ fresh' \in [Owners -> [Parts -> Pages \cup {0}]] /\ fresh'[u] = NoSpace
      /\ \A w \in Owners : w # u => fresh'[w] = fresh[w]
  BY <1>1, <1>2, Zenon DEF MemTypes
<1>5. /\ hand' \in [Owners -> Pages \cup {0}] /\ hand'[u] = 0
      /\ \A w \in Owners : w # u => hand'[w] = hand[w]
  BY <1>1, Zenon DEF MemTypes
<1> QED BY <1>3, <1>4, <1>5, Zenon

\* A process without a call.
LEMMA EndedDiffer ==
  ASSUME ChildrenDiffer, NEW u \in Owners, work'[u] = NoWork,
         \A w \in Owners : w # u => work'[w] = work[w]
  PROVE  ChildrenDiffer'
<1>1. work'[u].child = 0
  BY NoWorkFacts, Zenon
<1>2. ASSUME NEW v \in Owners, NEW w \in Owners,
             work'[v].child # 0, work'[v].child = work'[w].child
      PROVE  v = w
  <2>1. v # u /\ w # u
    BY <1>1, <1>2, Zenon
  <2> QED BY <1>2, <2>1, Zenon DEF ChildrenDiffer
<1> QED BY <1>2, Zenon DEF ChildrenDiffer

LEMMA IdleOK ==
  ASSUME NEW u \in Owners, work'[u] = NoWork, fresh'[u] = NoSpace, hand'[u] = 0
  PROVE  CallOK(u)'
<1>1. 0 <= Pgroundup(0)
  BY Rounding
<1> QED BY <1>1, NoWorkFacts, Zenon DEF CallOK, Busy, Pgroundup

\* No place changes.
LEMMA OwnedSame ==
  ASSUME PagesOwnedOnce, free' = free,
         \A w \in Owners : /\ space'[w] = space[w] /\ fresh'[w] = fresh[w]
                           /\ hand'[w] = hand[w] /\ kstack'[w] = kstack[w]
  PROVE  PagesOwnedOnce'
<1>1. \A y \in Places : View'[y] = View[y]
  BY SameView, Zenon
<1>2. OnceIn(Places, View, Pages, free)
  BY OwnedAsView, Zenon
<1>3. OnceIn(Places, View', Pages, free)
  BY <1>1, <1>2 DEF OnceIn
<1> QED BY <1>3, OwnedAsView, Zenon

\* u begins call w.
LEMMA BeginsKeeps ==
  ASSUME MemIInv, NEW u \in Owners, NEW r \in Works, Begins(u, r), r.call # "none",
         r.call # "fork" => UNCHANGED life /\ r.child = 0,
         r.call = "fork" => /\ r.child \in Owners /\ life[r.child] = "UNUSED"
                            /\ life' = [life EXCEPT ![r.child] = "EMBRYO"]
                            /\ r.newsz = sz[u],
         r.call = "sbrk" => r.a = Pgroundup(sz[u]),
         r.call # "sbrk" => r.a = 0,
         r.a <= Pgroundup(r.newsz),
         UNCHANGED <<free, space, sz, kstack, parent, gaveAll, memFault>>
  PROVE  MemIInv'
<1>1. /\ life[u] = "RUNNING" /\ work[u].call = "none" /\ work' = [work EXCEPT ![u] = r]
      /\ fresh' = fresh /\ hand' = hand
  BY Zenon DEF Begins, Busy
<1>2. /\ work' \in [Owners -> Works] /\ work'[u] = r
      /\ \A w \in Owners : w # u => work'[w] = work[w]
  BY <1>1, WorkSet, Zenon DEF MemIInv
<1>3. life' \in [Owners -> Entries]
  BY Zenon DEF MemIInv, MemTypes, Entries
<1>4. MemTypes'
  BY <1>1, <1>2, <1>3, Zenon DEF MemIInv, MemTypes, Works
<1>5. PagesOwnedOnce'
  BY <1>1, OwnedSame, Zenon DEF MemIInv
<1>6. CallOK(u) /\ EntryOK(u)
  BY Zenon DEF MemIInv
<1>7. r.call = "fork" => r.child # u /\ r.child # 0
  BY <1>1, MemoryAssumption, Zenon
<1>8. \A w \in Owners : life[w] # "UNUSED" => life'[w] = life[w]
  BY Zenon DEF MemIInv, MemTypes
<1>9. \A w \in Owners : life'[w] # life[w] => life[w] = "UNUSED" /\ life'[w] = "EMBRYO"
  BY Zenon DEF MemIInv, MemTypes
<1>10. CallOK(u)'
  <2>1. fresh[u] = NoSpace /\ hand[u] = 0
    BY <1>1, <1>6, Zenon DEF CallOK, Busy
  <2>2. \A v \in Vpages : fresh[u][Pte(v)] = 0 /\ ~(v < 0)
    BY <2>1, PartOf, Numbers DEF NoSpace, Vpages
  <2>3. fresh[u][Ktab] = 0
    BY <2>1, PartOf, Zenon DEF NoSpace
  <2>4. r.call = "fork" => life'[r.child] = "EMBRYO"
    BY Zenon DEF MemIInv, MemTypes
  <2>5. r.call = "sbrk" => Pgroundup(sz[u]) <= r.a
    BY Rounding DEF MemIInv, MemTypes
  <2> QED
    BY <1>1, <1>2, <1>7, <1>8, <2>1, <2>2, <2>3, <2>4, <2>5, Zenon DEF CallOK,
       Busy, Pgroundup
<1>11. EntryOK(u)'
  <2>1. Top(u)' = Top(u)
    BY <1>1, <1>2, Zenon DEF Top, Pgroundup
  <2> QED BY <1>1, <1>6, <1>8, <2>1, Zenon DEF EntryOK, Alive
<1>12. ASSUME NEW w \in Owners, w # u PROVE CallOK(w)' /\ EntryOK(w)'
  <2>1. CallOK(w) /\ EntryOK(w) /\ work[w].child \in Owners \cup {0}
    BY Zenon DEF MemIInv, MemTypes
  <2>2. Busy(w) => life'[w] = "RUNNING"
    BY <1>8, <2>1, Zenon DEF CallOK
  <2>3. work[w].call = "fork" => life'[work[w].child] = "EMBRYO"
    BY <1>8, <2>1, Zenon DEF CallOK
  <2>4. CallOK(w)'
    BY <1>1, <1>2, <1>12, <2>1, <2>2, <2>3, CallKeeps, Zenon
  <2>5. EntryOK(w)'
    <3>1. Top(w)' = Top(w)
      BY <1>2, <1>12, Zenon DEF Top, Pgroundup
    <3> QED BY <1>9, <2>1, <3>1, Zenon DEF EntryOK, Alive
  <2> QED BY <2>4, <2>5, Zenon
<1>13. ChildrenDiffer'
  <2>1. ASSUME NEW w \in Owners, w # u, work[w].child # 0
        PROVE  work[w].child # r.child
    BY <2>1 DEF MemIInv, CallOK
  <2> QED BY <1>2, <2>1 DEF MemIInv, ChildrenDiffer
<1>14. FaultCause'
  BY Zenon DEF MemIInv, FaultCause
<1> QED BY <1>4, <1>5, <1>10, <1>11, <1>12, <1>13, <1>14, Zenon DEF MemIInv

LEMMA SbrkKeeps ==
  ASSUME MemIInv, NEW u \in Owners, NEW n \in SbrkUp, memFault = "none", Sbrk(u, n)
  PROVE  MemIInv'
<1> DEFINE r == [NoWork EXCEPT !.call = "sbrk", !.a = GrowFirst(sz[u]),
                               !.newsz = sz[u] + n]
<1>1. /\ Begins(u, r) /\ sz[u] + n < KERNBASE
      /\ UNCHANGED <<free, space, sz, kstack, life, parent, gaveAll, memFault>>
  BY Zenon DEF Sbrk, BelowKernel
<1>2. sz[u] \in Nat /\ n \in Nat /\ sz[u] + n \in 0 .. KERNBASE - 1
  BY <1>1, MemoryAssumption, Numbers DEF MemIInv, MemTypes
<1>3. /\ Pgroundup(sz[u]) \in Nat
      /\ Pgroundup(sz[u]) <= Pgroundup(sz[u] + n)
  BY <1>2, Rounding
<1>4. /\ r.call = "sbrk" /\ r.child = 0 /\ r.a = Pgroundup(sz[u]) /\ r.newsz = sz[u] + n
      /\ r \in Works
  BY <1>2, <1>3, Zenon DEF NoWork, GrowFirst, Works
<1> HIDE DEF r
<1> QED BY <1>1, <1>3, <1>4, BeginsKeeps, Zenon

LEMMA ForkBeginKeeps ==
  ASSUME MemIInv, NEW u \in Owners, memFault = "none", ForkBegin(u)
  PROVE  MemIInv'
<1>1. PICK c \in Owners :
        /\ life[c] = "UNUSED"
        /\ Begins(u, [NoWork EXCEPT !.call = "fork", !.child = c, !.newsz = sz[u]])
        /\ life' = [life EXCEPT ![c] = "EMBRYO"]
        /\ UNCHANGED <<free, space, sz, kstack, parent, gaveAll, memFault>>
  BY Zenon DEF ForkBegin
<1> DEFINE r == [NoWork EXCEPT !.call = "fork", !.child = c, !.newsz = sz[u]]
<1>2. sz[u] \in 0 .. KERNBASE - 1 /\ sz[u] \in Nat
  BY Numbers DEF MemIInv, MemTypes
<1>3. /\ r.call = "fork" /\ r.child = c /\ r.a = 0 /\ r.newsz = sz[u] /\ r \in Works
  BY <1>2, Zenon DEF NoWork, Works
<1>4. 0 <= Pgroundup(sz[u])
  BY <1>2, Rounding
<1> HIDE DEF r
<1>5. Begins(u, r)
  BY <1>1, Zenon DEF r
<1> QED BY <1>1, <1>3, <1>4, <1>5, BeginsKeeps, Zenon

LEMMA ExecBeginKeeps ==
  ASSUME MemIInv, NEW u \in Owners, NEW image \in Images, memFault = "none",
         ExecBegin(u, image)
  PROVE  MemIInv'
<1> DEFINE size == (Pgroundup(image) + 2) * PGSIZE
           r == [NoWork EXCEPT !.call = "exec", !.newsz = size]
<1>1. /\ Begins(u, r) /\ size < KERNBASE
      /\ UNCHANGED <<free, space, sz, kstack, life, parent, gaveAll, memFault>>
  BY Zenon DEF ExecBegin, BelowKernel
<1>2. size \in Nat
  BY MemoryAssumption, Rounding, Numbers
<1>3. size \in 0 .. KERNBASE - 1
  BY <1>1, <1>2, Numbers
<1> HIDE DEF size
<1>4. /\ r.call = "exec" /\ r.child = 0 /\ r.a = 0 /\ r.newsz = size /\ r \in Works
  BY <1>3, Zenon DEF NoWork, Works
<1>5. 0 <= Pgroundup(size)
  BY <1>2, Rounding
<1> HIDE DEF r
<1> QED BY <1>1, <1>4, <1>5, BeginsKeeps, Zenon

LEMMA SbrkDoneKeeps ==
  ASSUME MemIInv, NEW u \in Owners, memFault = "none", SbrkDone(u)
  PROVE  MemIInv'
<1>1. /\ work[u].call = "sbrk" /\ work[u].a >= Pgroundup(work[u].newsz)
      /\ sz' = [sz EXCEPT ![u] = work[u].newsz] /\ EndsCall(u)
      /\ UNCHANGED <<free, space, kstack, life, parent, gaveAll, memFault>>
  BY Zenon DEF SbrkDone, Complete
<1>2. MemTypes /\ CallOK(u) /\ EntryOK(u)
  BY Zenon DEF MemIInv
<1>3. /\ work' \in [Owners -> Works] /\ work'[u] = NoWork
      /\ fresh' \in [Owners -> [Parts -> Pages \cup {0}]] /\ fresh'[u] = NoSpace
      /\ hand' \in [Owners -> Pages \cup {0}] /\ hand'[u] = 0
      /\ \A w \in Owners : w # u =>
           work'[w] = work[w] /\ fresh'[w] = fresh[w] /\ hand'[w] = hand[w]
  BY <1>1, <1>2, EndsCallFacts, Zenon
<1>4. /\ work[u].a \in Nat /\ work[u].newsz \in 0 .. KERNBASE - 1
      /\ Pgroundup(work[u].newsz) \in Nat
  BY <1>2, Rounding, Numbers DEF MemTypes
<1>5. work[u].a = Pgroundup(work[u].newsz) /\ hand[u] = 0 /\ fresh[u] = NoSpace
  BY <1>1, <1>2, <1>4 DEF CallOK
<1>6. PagesOwnedOnce'
  BY <1>1, <1>3, <1>5, OwnedSame, Zenon DEF MemIInv
<1>7. /\ sz' \in [Owners -> 0 .. KERNBASE - 1] /\ sz'[u] = work[u].newsz
      /\ \A w \in Owners : w # u => sz'[w] = sz[w]
  BY <1>1, <1>2, <1>4, Zenon DEF MemTypes
<1>8. MemTypes'
  BY <1>1, <1>2, <1>3, <1>7, Zenon DEF MemTypes, Works
<1>9. \A w \in Owners : w # u => CallOK(w)' /\ EntryOK(w)'
  BY <1>1, <1>3, <1>7, OthersKeep, Zenon
<1>10. CallOK(u)'
  BY <1>3, IdleOK, Zenon
<1>11. EntryOK(u)'
  <2>1. Top(u)' = Top(u)
    BY <1>1, <1>3, <1>5, <1>7, NoWorkFacts, Zenon DEF Top, Pgroundup
  <2> QED BY <1>1, <1>2, <2>1, Zenon DEF EntryOK, Alive
<1>12. ChildrenDiffer' /\ FaultCause'
  BY <1>1, <1>3, EndedDiffer, Zenon DEF MemIInv, FaultCause
<1> QED BY <1>6, <1>8, <1>9, <1>10, <1>11, <1>12, Zenon DEF MemIInv

LEMMA CopyuvmPanicKeeps ==
  ASSUME MemIInv, NEW u \in Owners, memFault = "none", CopyuvmPanic(u)
  PROVE  MemIInv'
<1>1. /\ work[u].call = "fork" /\ work[u].a < Pgroundup(work[u].newsz)
      /\ space[u][Pte(work[u].a)] = 0
      /\ UNCHANGED <<free, space, sz, kstack, life, parent, work, fresh, hand, gaveAll>>
  BY Zenon DEF CopyuvmPanic, AbsentPage
<1>2. work[u].a \in Vpages
  BY <1>1, AtPage, Zenon
<1>3. CallOK(u) /\ EntryOK(u)
  BY Zenon DEF MemIInv
<1>4. gaveAll[u]
  BY <1>1, <1>2, <1>3, Zenon DEF CallOK, EntryOK, Top, Busy, Alive
<1>5. FaultCause'
  BY <1>1, <1>4, Zenon DEF FaultCause
<1>6. PagesOwnedOnce'
  BY <1>1, OwnedSame, Zenon DEF MemIInv
<1>7. \A w \in Owners : CallOK(w)' /\ EntryOK(w)'
  BY <1>1, AllKeep, Zenon
<1>8. MemTypes' /\ ChildrenDiffer'
  BY <1>1, Zenon DEF MemIInv, MemTypes, ChildrenDiffer
<1> QED BY <1>5, <1>6, <1>7, <1>8, Zenon DEF MemIInv

LEMMA ExitUserKeeps ==
  ASSUME MemIInv, NEW u \in Owners, memFault = "none", ExitUser(u)
  PROVE  MemIInv'
<1>1. /\ life[u] = "RUNNING" /\ ~Busy(u)
      /\ life' = [life EXCEPT ![u] = "ZOMBIE"]
      /\ parent' = [c \in Owners |-> IF parent[c] = u THEN 1 ELSE parent[c]]
      /\ UNCHANGED <<free, space, sz, kstack, work, fresh, hand, gaveAll, memFault>>
  BY Zenon DEF ExitUser
<1>2. /\ life' \in [Owners -> Entries] /\ parent' \in [Owners -> Owners \cup {0}]
      /\ life'[u] = "ZOMBIE" /\ \A w \in Owners : w # u => life'[w] = life[w]
  BY <1>1, MemoryAssumption, Zenon DEF MemIInv, MemTypes, Entries
<1>3. MemTypes'
  BY <1>1, <1>2, Zenon DEF MemIInv, MemTypes
<1>4. PagesOwnedOnce'
  BY <1>1, OwnedSame, Zenon DEF MemIInv
<1>5. ASSUME NEW w \in Owners PROVE CallOK(w)'
  <2>1. CallOK(w) /\ work[w].child \in Owners \cup {0}
    BY Zenon DEF MemIInv, MemTypes
  <2>2. Busy(w) => life'[w] = "RUNNING"
    BY <1>1, <1>2, <2>1, Zenon DEF CallOK
  <2>3. work[w].call = "fork" => life'[work[w].child] = "EMBRYO"
    BY <1>1, <1>2, <2>1, Zenon DEF CallOK
  <2> QED BY <1>1, <2>1, <2>2, <2>3, CallKeeps, Zenon
<1>6. ASSUME NEW w \in Owners PROVE EntryOK(w)'
  <2>1. EntryOK(w) /\ Top(w)' = Top(w)
    BY <1>1, Zenon DEF MemIInv, Top, Pgroundup
  <2> QED BY <1>1, <1>2, <2>1, Zenon DEF EntryOK, Alive
<1>7. ChildrenDiffer' /\ FaultCause'
  BY <1>1, Zenon DEF MemIInv, ChildrenDiffer, FaultCause
<1> QED BY <1>3, <1>4, <1>5, <1>6, <1>7, Zenon DEF MemIInv

-----------------------------------------------------------------------------
(* Pages are given back.                                                   *)

\* A place that changes becomes empty;
OnlyEmptied ==
  /\ \A w \in Owners, q \in Parts :
       /\ space'[w][q] # space[w][q] => space'[w][q] = 0
       /\ fresh'[w][q] # fresh[w][q] => fresh'[w][q] = 0
  /\ \A w \in Owners :
       /\ hand'[w] # hand[w] => hand'[w] = 0
       /\ kstack'[w] # kstack[w] => kstack'[w] = 0

\* the page of a place that becomes empty is freed;
AllFreed(freed) ==
  /\ \A w \in Owners, q \in Parts :
       /\ space[w][q] # 0 /\ space'[w][q] = 0 => space[w][q] \in freed
       /\ fresh[w][q] # 0 /\ fresh'[w][q] = 0 => fresh[w][q] \in freed
  /\ \A w \in Owners :
       /\ hand[w] # 0 /\ hand'[w] = 0 => hand[w] \in freed
       /\ kstack[w] # 0 /\ kstack'[w] = 0 => kstack[w] \in freed

\* and every page freed was that of such a place.
AllWasHeld(freed) ==
  \A page \in freed : page # 0 /\
    \E w \in Owners :
      \/ \E q \in Parts : space[w][q] = page /\ space'[w][q] = 0
      \/ \E q \in Parts : fresh[w][q] = page /\ fresh'[w][q] = 0
      \/ hand[w] = page /\ hand'[w] = 0
      \/ kstack[w] = page /\ kstack'[w] = 0

\* Some places become empty, and their pages free.
LEMMA ReleaseAll ==
  ASSUME MemTypes, PagesOwnedOnce, NEW freed, free' = free \cup freed,
         OnlyEmptied, AllFreed(freed), AllWasHeld(freed)
  PROVE  PagesOwnedOnce' /\ free' \subseteq Pages
<1>1. ASSUME NEW y \in Places
      PROVE  /\ View'[y] # View[y] => View'[y] = 0
             /\ View[y] # 0 /\ View'[y] = 0 => View[y] \in freed
  <2>1. PICK w \in Owners :
          \/ \E q \in Parts : y = <<w, "now", q>> \/ y = <<w, "fresh", q>>
          \/ y = <<w, "hand", Dir>>
          \/ y = <<w, "kstack", Dir>>
    BY PlaceCases, Zenon
  <2>2. CASE \E q \in Parts : y = <<w, "now", q>>
    <3>1. PICK q \in Parts : y = <<w, "now", q>>
      BY <2>2, Zenon
    <3>2. View[y] = space[w][q] /\ View'[y] = space'[w][q]
      BY <3>1, NowAt, Zenon
    <3> QED BY <3>2, Zenon DEF OnlyEmptied, AllFreed
  <2>3. CASE \E q \in Parts : y = <<w, "fresh", q>>
    <3>1. PICK q \in Parts : y = <<w, "fresh", q>>
      BY <2>3, Zenon
    <3>2. View[y] = fresh[w][q] /\ View'[y] = fresh'[w][q]
      BY <3>1, FreshAt, Zenon
    <3> QED BY <3>2, Zenon DEF OnlyEmptied, AllFreed
  <2>4. CASE y = <<w, "hand", Dir>>
    <3>1. View[y] = hand[w] /\ View'[y] = hand'[w]
      BY <2>4, HandAt, Zenon
    <3> QED BY <3>1, Zenon DEF OnlyEmptied, AllFreed
  <2>5. CASE y = <<w, "kstack", Dir>>
    <3>1. View[y] = kstack[w] /\ View'[y] = kstack'[w]
      BY <2>5, KstackAt, Zenon
    <3> QED BY <3>1, Zenon DEF OnlyEmptied, AllFreed
  <2> QED BY <2>1, <2>2, <2>3, <2>4, <2>5, Zenon
<1>2. ASSUME NEW page \in freed
      PROVE  \E y \in Places : View[y] = page /\ View[y] # 0 /\ View'[y] = 0
  <2>1. PICK w \in Owners :
             \/ \E q \in Parts : space[w][q] = page /\ space'[w][q] = 0
             \/ \E q \in Parts : fresh[w][q] = page /\ fresh'[w][q] = 0
             \/ hand[w] = page /\ hand'[w] = 0
             \/ kstack[w] = page /\ kstack'[w] = 0
    BY Zenon DEF AllWasHeld
  <2>2. page # 0
    BY Zenon DEF AllWasHeld
  <2>3. CASE \E q \in Parts : space[w][q] = page /\ space'[w][q] = 0
    <3>1. PICK q \in Parts : space[w][q] = page /\ space'[w][q] = 0
      BY <2>3, Zenon
    <3> DEFINE y == <<w, "now", q>>
    <3>2. y \in Places /\ View[y] = space[w][q] /\ View'[y] = space'[w][q]
      BY NowAt, Zenon
    <3> HIDE DEF y
    <3> QED BY <2>2, <3>1, <3>2, Zenon
  <2>4. CASE \E q \in Parts : fresh[w][q] = page /\ fresh'[w][q] = 0
    <3>1. PICK q \in Parts : fresh[w][q] = page /\ fresh'[w][q] = 0
      BY <2>4, Zenon
    <3> DEFINE y == <<w, "fresh", q>>
    <3>2. y \in Places /\ View[y] = fresh[w][q] /\ View'[y] = fresh'[w][q]
      BY FreshAt, Zenon
    <3> HIDE DEF y
    <3> QED BY <2>2, <3>1, <3>2, Zenon
  <2>5. CASE hand[w] = page /\ hand'[w] = 0
    <3> DEFINE y == <<w, "hand", Dir>>
    <3>1. y \in Places /\ View[y] = hand[w] /\ View'[y] = hand'[w]
      BY HandAt, Zenon
    <3> HIDE DEF y
    <3> QED BY <2>2, <2>5, <3>1, Zenon
  <2>6. CASE kstack[w] = page /\ kstack'[w] = 0
    <3> DEFINE y == <<w, "kstack", Dir>>
    <3>1. y \in Places /\ View[y] = kstack[w] /\ View'[y] = kstack'[w]
      BY KstackAt, Zenon
    <3> HIDE DEF y
    <3> QED BY <2>2, <2>6, <3>1, Zenon
  <2> QED BY <2>1, <2>3, <2>4, <2>5, <2>6, Zenon
<1>3. \A y \in Places : View'[y] # View[y] => View'[y] = 0
  BY <1>1, Zenon
<1>4. \A page : page \in freed <=>
        \E y \in Places : View[y] = page /\ View[y] # 0 /\ View'[y] = 0
  BY <1>1, <1>2, Zenon
<1> QED BY <1>3, <1>4, ReleaseStep, Zenon

LEMMA WithoutFacts ==
  ASSUME NEW s \in [Parts -> Pages \cup {0}], NEW P \in SUBSET Parts
  PROVE  /\ Without(s, P) \in [Parts -> Pages \cup {0}]
         /\ \A q \in Parts : Without(s, P)[q] = IF q \in P THEN 0 ELSE s[q]
  BY Zenon DEF Without

\* The places from page n up.
LEMMA FromFacts ==
  ASSUME NEW n \in Nat
  PROVE  /\ From(n) \in SUBSET Parts
         /\ \A v \in Vpages : Pte(v) \in From(n) <=> v >= n
<1>1. From(n) \in SUBSET Parts
  BY PartOf, Zenon DEF From
<1>2. \A v \in Vpages : Pte(v) \in From(n) <=> v >= n
  BY PartOf, Zenon DEF From
<1> QED BY <1>1, <1>2, Zenon

LEMMA SbrkLessKeeps ==
  ASSUME MemIInv, NEW u \in Owners, NEW n \in SbrkDown, memFault = "none", SbrkLess(u, n)
  PROVE  MemIInv'
<1> DEFINE less == (sz[u] - n) % ADDRMOD
           gone == From(Pgroundup(less)) \ From(Pgroundup(sz[u]))
<1>1. /\ life[u] = "RUNNING" /\ ~Busy(u) /\ less < sz[u]
      /\ free' = free \cup PagesIn(space[u], gone)
      /\ space' = [space EXCEPT ![u] = Without(space[u], gone)]
      /\ sz' = [sz EXCEPT ![u] = IF less = 0 THEN sz[u] ELSE less]
      /\ gaveAll' = [gaveAll EXCEPT ![u] = gaveAll[u] \/ less = 0]
      /\ UNCHANGED <<kstack, life, parent, work, fresh, hand, memFault>>
  BY Zenon DEF SbrkLess, Kfree, GrowFirst
<1>2. MemTypes /\ CallOK(u) /\ EntryOK(u)
  BY Zenon DEF MemIInv
<1>3. sz[u] \in 0 .. KERNBASE - 1 /\ sz[u] \in Nat /\ space[u] \in [Parts -> Pages \cup {0}]
  BY <1>2, Numbers DEF MemTypes
<1>4. less \in Nat /\ less \in 0 .. KERNBASE - 1
  <2>1. ADDRMOD \in Nat \ {0} /\ n \in Nat
    BY MemoryAssumption, Numbers
  <2>2. less \in Nat
    BY <1>3, <2>1
  <2> QED BY <1>1, <1>3, <2>2, Numbers
<1> HIDE DEF less
<1>5. /\ Pgroundup(less) \in Nat /\ Pgroundup(sz[u]) \in Nat
      /\ Pgroundup(less) <= Pgroundup(sz[u])
  BY <1>1, <1>3, <1>4, Rounding
<1>6. /\ gone \in SUBSET Parts
      /\ \A v \in Vpages : Pte(v) \in gone <=> v >= Pgroundup(less) /\ ~(v >= Pgroundup(sz[u]))
  BY <1>5, FromFacts, Zenon
<1> HIDE DEF gone
<1>7. /\ space' \in [Owners -> [Parts -> Pages \cup {0}]]
      /\ \A q \in Parts : space'[u][q] = IF q \in gone THEN 0 ELSE space[u][q]
      /\ \A w \in Owners : w # u => space'[w] = space[w]
  <2>1. space \in [Owners -> [Parts -> Pages \cup {0}]]
    BY <1>2, Zenon DEF MemTypes
  <2>2. /\ Without(space[u], gone) \in [Parts -> Pages \cup {0}]
        /\ \A q \in Parts : Without(space[u], gone)[q] = IF q \in gone THEN 0 ELSE space[u][q]
    BY <1>3, <1>6, WithoutFacts, Zenon
  <2> QED BY <1>1, <2>1, <2>2, Zenon
<1>8. PagesOwnedOnce' /\ free' \subseteq Pages
  <2> DEFINE freed == PagesIn(space[u], gone)
  <2>1. AllWasHeld(freed)
    BY <1>6, <1>7, Zenon DEF PagesIn, AllWasHeld
  <2>2. /\ \A w \in Owners, q \in Parts : fresh'[w][q] = fresh[w][q]
        /\ \A w \in Owners : hand'[w] = hand[w] /\ kstack'[w] = kstack[w]
    BY <1>1, Zenon
  <2>3. OnlyEmptied
    BY <1>7, <2>2, Zenon DEF OnlyEmptied
  <2>4. \A w \in Owners, q \in Parts :
          space[w][q] # 0 /\ space'[w][q] = 0 => space[w][q] \in freed
    BY <1>7, Zenon DEF PagesIn
  <2> HIDE DEF freed
  <2>5. AllFreed(freed)
    BY <2>2, <2>4, Zenon DEF AllFreed
  <2>6. MemTypes /\ PagesOwnedOnce /\ free' = free \cup freed
    BY <1>1, Zenon DEF MemIInv, freed
  <2> QED BY <2>1, <2>3, <2>5, <2>6, ReleaseAll, Zenon
<1>9. /\ sz' \in [Owners -> 0 .. KERNBASE - 1] /\ gaveAll' \in [Owners -> BOOLEAN]
      /\ \A w \in Owners : w # u => sz'[w] = sz[w] /\ gaveAll'[w] = gaveAll[w]
  BY <1>1, <1>2, <1>3, <1>4, Zenon DEF MemTypes
<1>10. MemTypes'
  BY <1>1, <1>2, <1>7, <1>8, <1>9, Zenon DEF MemTypes
<1>11. \A w \in Owners : w # u => CallOK(w)' /\ EntryOK(w)'
  BY <1>1, <1>7, <1>9, OthersKeep, Zenon
<1>12. work[u].call = "none"
  BY <1>1, Zenon DEF Busy
<1>13. CallOK(u)'
  BY <1>1, <1>2, <1>12, Zenon DEF CallOK, Busy, Pgroundup
<1>14. EntryOK(u)'
  <2>1. \A v \in Vpages : v \in Nat
    BY Numbers DEF Vpages
  <2>2. \A v \in Vpages : space'[u][Pte(v)] # 0 <=> v < Pgroundup(less) /\ space[u][Pte(v)] # 0
    BY <1>2, <1>5, <1>6, <1>7, <1>12, <2>1, PartOf DEF EntryOK, Top
  <2>3. CASE less = 0
    <3>1. gaveAll'[u] /\ sz'[u] = sz[u]
      BY <1>1, <1>2, <2>3, Zenon DEF MemTypes
    <3>2. Top(u)' = Top(u)
      BY <1>1, <3>1 DEF Top, Pgroundup
    <3> QED BY <1>1, <1>2, <2>2, <3>1, <3>2, Zenon DEF EntryOK, Alive
  <2>4. CASE less # 0
    <3>1. gaveAll'[u] = gaveAll[u] /\ sz'[u] = less
      BY <1>1, <1>2, <2>4, Zenon DEF MemTypes
    <3>2. Top(u)' = Pgroundup(less) /\ Top(u) = Pgroundup(sz[u])
      BY <1>1, <1>12, <3>1, Zenon DEF Top, Pgroundup
    <3>3. \A v \in Vpages : v < Pgroundup(less) => v < Pgroundup(sz[u])
      BY <1>5, <2>1
    <3>4. \A v \in Vpages : v >= Pgroundup(less) => space'[u][Pte(v)] = 0
      BY <1>5, <2>1, <2>2
    <3> QED
      BY <1>1, <1>2, <2>2, <3>1, <3>2, <3>3, <3>4, Zenon DEF EntryOK, Alive
  <2> QED BY <2>3, <2>4, Zenon
<1>15. ChildrenDiffer' /\ FaultCause'
  BY <1>1, Zenon DEF MemIInv, ChildrenDiffer, FaultCause
<1> QED BY <1>8, <1>10, <1>11, <1>13, <1>14, <1>15, Zenon DEF MemIInv

\* The entry c becomes free: no call in progress uses it.
LEMMA WaitUserKeeps ==
  ASSUME MemIInv, NEW u \in Owners, memFault = "none", WaitUser(u)
  PROVE  MemIInv'
<1>1. PICK c \in Owners :
        /\ life[c] = "ZOMBIE"
        /\ free' = free \cup (HeldBy(space[c]) \cup {kstack[c]})
        /\ space' = [space EXCEPT ![c] = NoSpace]
        /\ kstack' = [kstack EXCEPT ![c] = 0]
        /\ life' = [life EXCEPT ![c] = "UNUSED"]
        /\ parent' = [parent EXCEPT ![c] = 0]
        /\ sz' = [sz EXCEPT ![c] = 0]
        /\ gaveAll' = [gaveAll EXCEPT ![c] = FALSE]
        /\ UNCHANGED <<work, fresh, hand, memFault>>
  BY Zenon DEF WaitUser, Kfree
<1>2. MemTypes /\ CallOK(c) /\ EntryOK(c)
  BY Zenon DEF MemIInv
<1>3. /\ space' \in [Owners -> [Parts -> Pages \cup {0}]]
      /\ space'[c] = NoSpace /\ \A w \in Owners : w # c => space'[w] = space[w]
  <2>1. NoSpace \in [Parts -> Pages \cup {0}]
    BY Zenon DEF NoSpace
  <2> QED BY <1>1, <1>2, <2>1, Zenon DEF MemTypes
<1>4. /\ kstack' \in [Owners -> Pages \cup {0}] /\ kstack'[c] = 0
      /\ \A w \in Owners : w # c => kstack'[w] = kstack[w]
  BY <1>1, <1>2, Zenon DEF MemTypes
<1>5. /\ life' \in [Owners -> Entries] /\ life'[c] = "UNUSED"
      /\ \A w \in Owners : w # c => life'[w] = life[w]
  BY <1>1, <1>2, Zenon DEF MemTypes, Entries
<1>6. /\ sz' \in [Owners -> 0 .. KERNBASE - 1] /\ sz'[c] = 0
      /\ \A w \in Owners : w # c => sz'[w] = sz[w]
  BY <1>1, <1>2, Numbers DEF MemTypes
<1>7. /\ parent' \in [Owners -> Owners \cup {0}] /\ gaveAll' \in [Owners -> BOOLEAN]
      /\ \A w \in Owners : w # c => gaveAll'[w] = gaveAll[w]
  BY <1>1, <1>2, Zenon DEF MemTypes
<1>8. PagesOwnedOnce' /\ free' \subseteq Pages
  <2> DEFINE freed == HeldBy(space[c]) \cup {kstack[c]}
  <2>1. kstack[c] # 0 /\ \A q \in Parts : space'[c][q] = 0
    BY <1>1, <1>2, <1>3, Zenon DEF EntryOK, Alive, NoSpace
  <2>2. AllWasHeld(freed)
    BY <1>4, <2>1, Zenon DEF AllWasHeld, HeldBy, PagesIn
  <2>3. /\ \A w \in Owners, q \in Parts : fresh'[w][q] = fresh[w][q]
        /\ \A w \in Owners : hand'[w] = hand[w]
    BY <1>1, Zenon
  <2>4. OnlyEmptied
    BY <1>3, <1>4, <2>1, <2>3, Zenon DEF OnlyEmptied
  <2>5. /\ \A w \in Owners, q \in Parts :
             space[w][q] # 0 /\ space'[w][q] = 0 => space[w][q] \in freed
        /\ \A w \in Owners : kstack[w] # 0 /\ kstack'[w] = 0 => kstack[w] \in freed
    BY <1>3, <1>4, Zenon DEF HeldBy, PagesIn
  <2> HIDE DEF freed
  <2>6. AllFreed(freed)
    BY <2>3, <2>5, Zenon DEF AllFreed
  <2>7. MemTypes /\ PagesOwnedOnce /\ free' = free \cup freed
    BY <1>1, Zenon DEF MemIInv, freed
  <2> QED BY <2>2, <2>4, <2>6, <2>7, ReleaseAll, Zenon
<1>9. MemTypes'
  BY <1>1, <1>2, <1>3, <1>4, <1>5, <1>6, <1>7, <1>8, Zenon DEF MemTypes
<1>10. ~Busy(c)
  BY <1>1, <1>2, Zenon DEF CallOK
<1>11. ASSUME NEW w \in Owners PROVE CallOK(w)'
  <2>1. CallOK(w) /\ work[w].child \in Owners \cup {0}
    BY Zenon DEF MemIInv, MemTypes
  <2>2. work[w].call = "fork" => work[w].child \in Owners /\ work[w].child # c
    BY <1>1, <2>1, Zenon DEF CallOK
  <2>3. CASE w # c
    <3>1. Busy(w) => life'[w] = "RUNNING"
      BY <1>5, <2>1, <2>3, Zenon DEF CallOK
    <3>2. work[w].call = "fork" =>
           /\ life'[work[w].child] = "EMBRYO"
           /\ kstack[work[w].child] # 0 => kstack'[work[w].child] # 0
      BY <1>4, <1>5, <2>1, <2>2, Zenon DEF CallOK
    <3> QED BY <1>1, <1>6, <2>1, <2>3, <3>1, <3>2, CallKeeps, Zenon
  <2>4. CASE w = c
    <3>1. work[c].call = "none"
      BY <1>10, Zenon DEF Busy
    <3> QED
      BY <1>1, <2>1, <2>4, <3>1, Zenon DEF CallOK, Busy, Pgroundup, NoSpace,
         Vpages, Parts, Pte, Ktab, Dir, Tab
  <2> QED BY <2>3, <2>4, Zenon
<1>12. ASSUME NEW w \in Owners PROVE EntryOK(w)'
  <2>1. EntryOK(w)
    BY Zenon DEF MemIInv
  <2>2. CASE w # c
    BY <1>1, <1>3, <1>4, <1>5, <1>6, <1>7, <2>1, <2>2, EntryKeeps, Zenon DEF
       EntryOK
  <2>3. CASE w = c
    <3>1. \A v \in Vpages : NoSpace[Pte(v)] = 0
      BY PartOf, Zenon DEF NoSpace
    <3> QED BY <1>3, <1>4, <1>5, <2>3, <3>1, Zenon DEF EntryOK, Alive
  <2> QED BY <2>2, <2>3, Zenon
<1>13. ChildrenDiffer' /\ FaultCause'
  BY <1>1, Zenon DEF MemIInv, ChildrenDiffer, FaultCause
<1> QED BY <1>8, <1>9, <1>11, <1>12, <1>13, Zenon DEF MemIInv

\* What a failed call leaves: the places it filled are empty, and so is the
\* entry of a child.
LEMMA AbandonFacts ==
  ASSUME MemIInv, NEW u \in Owners, Busy(u), Abandon(u)
  PROVE  /\ free' = free \cup (GivenBack(u) \cup
                     (IF work[u].child = 0 THEN {} ELSE {kstack[work[u].child]} \ {0}))
         /\ space' \in [Owners -> [Parts -> Pages \cup {0}]]
         /\ \A w \in Owners : ~(work[u].call = "sbrk" /\ w = u) => space'[w] = space[w]
         /\ work[u].call = "sbrk" =>
              \A q \in Parts : space'[u][q] = IF q \in From(Pgroundup(sz[u])) THEN 0 ELSE space[u][q]
         /\ life' \in [Owners -> Entries] /\ kstack' \in [Owners -> Pages \cup {0}]
         /\ \A w \in Owners :
              /\ life'[w] = IF w = work[u].child THEN "UNUSED" ELSE life[w]
              /\ kstack'[w] = IF w = work[u].child THEN 0 ELSE kstack[w]
         /\ UNCHANGED <<sz, parent, gaveAll, memFault>>
<1>1. MemTypes /\ CallOK(u)
  BY Zenon DEF MemIInv
<1> DEFINE c == work[u].child
<1>2. c \in Owners \cup {0} /\ 0 \notin Owners
  BY <1>1, MemoryAssumption, Zenon DEF MemTypes
<1>3. /\ free' = free \cup (GivenBack(u) \cup (IF c = 0 THEN {} ELSE {kstack[c]} \ {0}))
      /\ space' = IF work[u].call # "sbrk" THEN space
                  ELSE [space EXCEPT ![u] = Without(space[u], From(Pgroundup(sz[u])))]
      /\ life' = IF c = 0 THEN life ELSE [life EXCEPT ![c] = "UNUSED"]
      /\ kstack' = IF c = 0 THEN kstack ELSE [kstack EXCEPT ![c] = 0]
      /\ UNCHANGED <<sz, parent, gaveAll, memFault>>
  BY Zenon DEF Abandon, Kfree
<1> HIDE DEF c
<1>4. /\ life' \in [Owners -> Entries]
      /\ \A w \in Owners : life'[w] = IF w = c THEN "UNUSED" ELSE life[w]
  <2>1. life \in [Owners -> Entries] /\ "UNUSED" \in Entries
    BY <1>1, Zenon DEF MemTypes, Entries
  <2> QED BY <1>2, <1>3, <2>1, Zenon
<1>5. /\ kstack' \in [Owners -> Pages \cup {0}]
      /\ \A w \in Owners : kstack'[w] = IF w = c THEN 0 ELSE kstack[w]
  <2>1. kstack \in [Owners -> Pages \cup {0}]
    BY <1>1, Zenon DEF MemTypes
  <2> QED BY <1>2, <1>3, <2>1, Zenon
<1>6. space \in [Owners -> [Parts -> Pages \cup {0}]]
  BY <1>1, Zenon DEF MemTypes
<1> DEFINE gone == From(Pgroundup(sz[u]))
<1>7. gone \in SUBSET Parts
  <2>1. sz[u] \in Nat
    BY <1>1, Numbers DEF MemTypes
  <2> QED BY <2>1, Rounding, FromFacts, Zenon
<1> HIDE DEF gone
<1>8. /\ Without(space[u], gone) \in [Parts -> Pages \cup {0}]
      /\ \A q \in Parts : Without(space[u], gone)[q] = IF q \in gone THEN 0 ELSE space[u][q]
  BY <1>6, <1>7, WithoutFacts
<1>9. /\ space' \in [Owners -> [Parts -> Pages \cup {0}]]
      /\ \A w \in Owners : ~(work[u].call = "sbrk" /\ w = u) => space'[w] = space[w]
      /\ work[u].call = "sbrk" =>
           \A q \in Parts : space'[u][q] = IF q \in gone THEN 0 ELSE space[u][q]
  <2>1. CASE work[u].call = "sbrk"
    <3>1. space' = [space EXCEPT ![u] = Without(space[u], gone)]
      BY <1>3, <2>1, Zenon DEF gone
    <3> QED BY <1>6, <1>8, <2>1, <3>1, Zenon
  <2>2. CASE work[u].call # "sbrk"
    BY <1>3, <1>6, <2>2, Zenon
  <2> QED BY <2>1, <2>2, Zenon
<1> QED BY <1>3, <1>4, <1>5, <1>9, Zenon DEF c, gone

\* GivenBack() is what those places held.
LEMMA AbandonPages ==
  ASSUME MemIInv, NEW u \in Owners, Busy(u), Abandon(u)
  PROVE  PagesOwnedOnce' /\ free' \subseteq Pages
<1> DEFINE c == work[u].child
           stack == IF c = 0 THEN {} ELSE {kstack[c]} \ {0}
           freed == GivenBack(u) \cup stack
           gone == From(Pgroundup(sz[u]))
<1>1. MemTypes /\ PagesOwnedOnce /\ CallOK(u) /\ free' = free \cup freed
  BY AbandonFacts, Zenon DEF MemIInv
<1>2. /\ \A w \in Owners : ~(work[u].call = "sbrk" /\ w = u) => space'[w] = space[w]
      /\ work[u].call = "sbrk" =>
           \A q \in Parts : space'[u][q] = IF q \in gone THEN 0 ELSE space[u][q]
      /\ \A w \in Owners : kstack'[w] = IF w = c THEN 0 ELSE kstack[w]
  BY AbandonFacts, Zenon
<1>3. c \in Owners \cup {0} /\ 0 \notin Owners
  BY <1>1, MemoryAssumption, Zenon DEF MemTypes
<1>4. /\ fresh'[u] = NoSpace /\ hand'[u] = 0
      /\ \A w \in Owners : w # u => fresh'[w] = fresh[w] /\ hand'[w] = hand[w]
  BY <1>1, EndsCallFacts, Zenon DEF Abandon
<1>5. \A q \in Parts : fresh'[u][q] = 0
  BY <1>4, Zenon DEF NoSpace
<1>6. gone \in SUBSET Parts
  <2>1. sz[u] \in Nat
    BY <1>1, Numbers DEF MemTypes
  <2> QED BY <2>1, Rounding, FromFacts, Zenon
<1>7. OnlyEmptied
  <2>1. \A q \in Parts : space'[u][q] # space[u][q] => space'[u][q] = 0
    BY <1>2, Zenon
  <2> QED BY <1>2, <1>4, <1>5, <2>1, Zenon DEF OnlyEmptied
<1>8. stack = {kstack[w] : w \in {w \in Owners : w = c}} \ {0}
  BY <1>3, Zenon
<1>9. CASE work[u].call = "sbrk"
  <2>1. freed = (({hand[u]} \ {0}) \cup PagesIn(space[u], gone)) \cup stack
    BY <1>9, Zenon DEF GivenBack, Target
  <2>2. \A q \in Parts : fresh[u][q] = 0
    BY <1>1, <1>9, Zenon DEF CallOK, NoSpace
  <2> HIDE DEF stack, freed, gone, c
  <2>3. AllFreed(freed)
    BY <1>2, <1>4, <1>8, <1>9, <2>1, <2>2, Zenon DEF AllFreed, PagesIn
  <2>4. AllWasHeld(freed)
    BY <1>2, <1>4, <1>6, <1>8, <1>9, <2>1 DEF AllWasHeld, PagesIn
  <2> QED BY <1>1, <1>7, <2>3, <2>4, ReleaseAll, Zenon DEF freed, stack, c
<1>10. CASE work[u].call # "sbrk"
  <2>1. freed = (({hand[u]} \ {0}) \cup PagesIn(fresh[u], Parts)) \cup stack
    BY <1>10, Zenon DEF GivenBack, Target
  <2> HIDE DEF stack, freed, gone, c
  <2>2. AllFreed(freed)
    BY <1>2, <1>4, <1>8, <1>10, <2>1, Zenon DEF AllFreed, PagesIn
  <2>3. AllWasHeld(freed)
    BY <1>2, <1>4, <1>5, <1>8, <1>10, <2>1 DEF AllWasHeld, PagesIn
  <2> QED BY <1>1, <1>7, <2>2, <2>3, ReleaseAll, Zenon DEF freed, stack, c
<1> QED BY <1>9, <1>10, Zenon

LEMMA AbandonKeeps ==
  ASSUME MemIInv, NEW u \in Owners, memFault = "none", Busy(u), Abandon(u)
  PROVE  MemIInv'
<1> DEFINE c == work[u].child
<1>1. MemTypes /\ CallOK(u) /\ EntryOK(u) /\ ChildrenDiffer
  BY Zenon DEF MemIInv
<1>2. PagesOwnedOnce' /\ free' \subseteq Pages
  BY AbandonPages, Zenon
<1>3. /\ space' \in [Owners -> [Parts -> Pages \cup {0}]]
      /\ \A w \in Owners : ~(work[u].call = "sbrk" /\ w = u) => space'[w] = space[w]
      /\ work[u].call = "sbrk" =>
           \A q \in Parts : space'[u][q] = IF q \in From(Pgroundup(sz[u])) THEN 0 ELSE space[u][q]
      /\ life' \in [Owners -> Entries] /\ kstack' \in [Owners -> Pages \cup {0}]
      /\ \A w \in Owners :
           /\ life'[w] = IF w = c THEN "UNUSED" ELSE life[w]
           /\ kstack'[w] = IF w = c THEN 0 ELSE kstack[w]
      /\ UNCHANGED <<sz, parent, gaveAll, memFault>>
  BY AbandonFacts, Zenon
<1>4. /\ work' \in [Owners -> Works] /\ work'[u] = NoWork
      /\ fresh' \in [Owners -> [Parts -> Pages \cup {0}]] /\ fresh'[u] = NoSpace
      /\ hand' \in [Owners -> Pages \cup {0}] /\ hand'[u] = 0
      /\ \A w \in Owners : w # u =>
           work'[w] = work[w] /\ fresh'[w] = fresh[w] /\ hand'[w] = hand[w]
  BY <1>1, EndsCallFacts, Zenon DEF Abandon
<1>5. MemTypes'
  BY <1>1, <1>2, <1>3, <1>4, Zenon DEF MemTypes, Works
<1>6. life[u] = "RUNNING" /\ c # u /\ (c \in Owners => life[c] = "EMBRYO")
  <2>1. c \in Owners => work[u].call = "fork"
    BY <1>1, MemoryAssumption, Zenon DEF CallOK
  <2> QED BY <1>1, <2>1, Zenon DEF CallOK
<1>7. ASSUME NEW w \in Owners, w # u PROVE CallOK(w)'
  <2>1. CallOK(w) /\ work[w].child \in Owners \cup {0}
    BY Zenon DEF MemIInv, MemTypes
  <2>2. w # c \/ ~Busy(w)
    BY <1>6, <2>1, Zenon DEF CallOK
  <2>3. work[w].call = "fork" => work[w].child \in Owners /\ work[w].child # c
    BY <1>1, <1>7, <2>1, Zenon DEF CallOK, ChildrenDiffer
  <2>4. Busy(w) => life'[w] = "RUNNING"
    BY <1>3, <2>1, <2>2, Zenon DEF CallOK
  <2>5. work[w].call = "fork" =>
          /\ life'[work[w].child] = "EMBRYO"
          /\ kstack[work[w].child] # 0 => kstack'[work[w].child] # 0
    BY <1>3, <2>1, <2>3, Zenon DEF CallOK
  <2> QED BY <1>3, <1>4, <1>7, <2>1, <2>4, <2>5, CallKeeps, Zenon
<1>8. CallOK(u)'
  BY <1>4, IdleOK, Zenon
<1>9. ASSUME NEW w \in Owners, w # u, w # c PROVE EntryOK(w)'
  <2>1. EntryOK(w)
    BY Zenon DEF MemIInv
  <2>2. /\ life'[w] = life[w] /\ kstack'[w] = kstack[w] /\ space'[w] = space[w]
        /\ work'[w] = work[w] /\ sz'[w] = sz[w] /\ gaveAll'[w] = gaveAll[w]
    BY <1>3, <1>4, <1>9, Zenon
  <2> QED BY <2>1, <2>2, EntryKeeps, Zenon DEF EntryOK
<1>10. ASSUME NEW w \in Owners, w = c PROVE EntryOK(w)'
  <2>1. space'[w] = NoSpace
    <3>1. EntryOK(w)
      BY Zenon DEF MemIInv
    <3> QED BY <1>3, <1>6, <1>10, <3>1, Zenon DEF EntryOK
  <2>2. \A v \in Vpages : NoSpace[Pte(v)] = 0
    BY PartOf, Zenon DEF NoSpace
  <2> QED BY <1>3, <1>10, <2>1, <2>2, Zenon DEF EntryOK, Alive
<1>11. EntryOK(u)'
  <2>1. Top(u)' = Pgroundup(sz[u])
    BY <1>3, <1>4, NoWorkFacts, Zenon DEF Top, Pgroundup
  <2>2. life'[u] = "RUNNING" /\ kstack'[u] = kstack[u] /\ gaveAll'[u] = gaveAll[u]
    BY <1>3, <1>6, Zenon
  <2>3. CASE work[u].call # "sbrk"
    <3>1. Top(u) = Pgroundup(sz[u]) /\ space'[u] = space[u]
      BY <1>3, <2>3, Zenon DEF Top
    <3> QED BY <1>1, <1>6, <2>1, <2>2, <3>1, Zenon DEF EntryOK, Alive
  <2>4. CASE work[u].call = "sbrk"
    <3>1. sz[u] \in Nat /\ work[u].a \in Nat
      BY <1>1, Numbers DEF MemTypes
    <3>2. Top(u) = work[u].a /\ Pgroundup(sz[u]) <= work[u].a /\ Pgroundup(sz[u]) \in Nat
      BY <1>1, <2>4, <3>1, Rounding, Zenon DEF Top, CallOK
    <3>3. \A v \in Vpages :
            space'[u][Pte(v)] = IF v >= Pgroundup(sz[u]) THEN 0 ELSE space[u][Pte(v)]
      BY <1>3, <2>4, <3>2, FromFacts, PartOf, Zenon
    <3>4. \A v \in Vpages : v \in Nat
      BY Numbers, SMTT(30) DEF Vpages
    <3>5. \A v \in Vpages : v < Pgroundup(sz[u]) => v < work[u].a /\ ~(v >= Pgroundup(sz[u]))
      BY <3>1, <3>2, <3>4
    <3> QED
      BY <1>1, <1>6, <2>1, <2>2, <3>2, <3>3, <3>5, Zenon DEF EntryOK, Alive
  <2> QED BY <2>3, <2>4, Zenon
<1>12. ChildrenDiffer' /\ FaultCause'
  BY <1>3, <1>4, EndedDiffer, ZenonT(40) DEF MemIInv, FaultCause
<1>13. \A w \in Owners : CallOK(w)' /\ EntryOK(w)'
  BY <1>7, <1>8, <1>9, <1>10, <1>11, Zenon
<1> QED BY <1>2, <1>5, <1>12, <1>13, Zenon DEF MemIInv

-----------------------------------------------------------------------------
(* An address space that is complete goes to its process.                  *)

\* The pages of u's new address space go to c, whose own places are empty in g.
LEMMA FreshMoves ==
  ASSUME NEW u \in Owners, NEW c \in Owners, NEW g, NEW F,
         OnceIn(Places, g, Pages, F),
         \A q \in Parts : g[<<c, "now", q>>] = 0,
         \A q \in Parts : View'[<<c, "now", q>>] = g[<<u, "fresh", q>>],
         \A q \in Parts : View'[<<u, "fresh", q>>] = 0,
         \A y \in Places : (\A q \in Parts : y # <<c, "now", q>> /\ y # <<u, "fresh", q>>)
           => View'[y] = g[y]
  PROVE  OnceIn(Places, View', Pages, F)
<1> DEFINE m == [y \in Places |-> IF \E q \in Parts : y = <<u, "fresh", q>>
                                  THEN <<c, "now", y[3]>> ELSE y]
<1>1. \A q \in Parts : <<u, "fresh", q>> \in Places /\ <<c, "now", q>> \in Places
  BY Zenon DEF Places
<1>2. \A q \in Parts : m[<<u, "fresh", q>>] = <<c, "now", q>>
  BY <1>1, Zenon
<1>3. \A y \in Places : (\A q \in Parts : y # <<u, "fresh", q>>) => m[y] = y
  BY Zenon
<1>4. m \in [Places -> Places]
  <2>1. ASSUME NEW y \in Places PROVE m[y] \in Places
    <3>1. CASE \E q \in Parts : y = <<u, "fresh", q>>
      <4>1. PICK q \in Parts : y = <<u, "fresh", q>>
        BY <3>1, Zenon
      <4>2. m[y] = <<c, "now", q>>
        BY <1>2, <4>1, Zenon
      <4> HIDE DEF m
      <4> QED BY <1>1, <4>2, Zenon
    <3>2. CASE \A q \in Parts : y # <<u, "fresh", q>>
      BY <1>3, <3>2, Zenon
    <3> QED BY <3>1, <3>2, Zenon
  <2> QED BY <2>1, Zenon
<1> HIDE DEF m
<1>5. ASSUME NEW y \in Places, g[y] # 0 PROVE View'[m[y]] = g[y]
  <2>1. CASE \E q \in Parts : y = <<u, "fresh", q>>
    <3>1. PICK q \in Parts : y = <<u, "fresh", q>>
      BY <2>1, Zenon
    <3> QED BY <1>2, <3>1, Zenon
  <2>2. CASE \A q \in Parts : y # <<u, "fresh", q>>
    <3>1. \A q \in Parts : y # <<c, "now", q>>
      BY <1>5, Zenon
    <3> QED BY <1>3, <2>2, <3>1, Zenon
  <2> QED BY <2>1, <2>2, Zenon
<1>6. ASSUME NEW z \in Places, View'[z] # 0
      PROVE  \E y \in Places : m[y] = z /\ g[y] # 0
  <2>1. CASE \E q \in Parts : z = <<c, "now", q>>
    <3>1. PICK q \in Parts : z = <<c, "now", q>>
      BY <2>1, Zenon
    <3> DEFINE y == <<u, "fresh", q>>
    <3>2. y \in Places /\ m[y] = z /\ g[y] = View'[z]
      BY <1>1, <1>2, <3>1, Zenon
    <3> HIDE DEF y
    <3> QED BY <1>6, <3>2, Zenon
  <2>2. CASE \A q \in Parts : z # <<c, "now", q>>
    <3>1. \A q \in Parts : z # <<u, "fresh", q>>
      BY <1>6, Zenon
    <3>2. m[z] = z /\ g[z] = View'[z]
      BY <1>3, <2>2, <3>1, Zenon
    <3> QED BY <1>6, <3>2, Zenon
  <2> QED BY <2>1, <2>2, Zenon
<1> QED BY <1>4, <1>5, <1>6, MovingKeeps

LEMMA ForkDoneKeeps ==
  ASSUME MemIInv, NEW u \in Owners, memFault = "none", ForkDone(u)
  PROVE  MemIInv'
<1>1. MemTypes /\ CallOK(u) /\ EntryOK(u) /\ ChildrenDiffer /\ PagesOwnedOnce
  BY Zenon DEF MemIInv
<1>2. PICK c \in Owners :
        /\ c = work[u].child
        /\ work[u].call = "fork" /\ work[u].a >= Pgroundup(work[u].newsz) /\ fresh[u][Ktab] # 0
        /\ space' = [space EXCEPT ![c] = fresh[u]]
        /\ sz' = [sz EXCEPT ![c] = work[u].newsz]
        /\ parent' = [parent EXCEPT ![c] = u]
        /\ life' = [life EXCEPT ![c] = "RUNNING"]
        /\ EndsCall(u)
        /\ UNCHANGED <<free, kstack, gaveAll, memFault>>
  <2>1. work[u].call = "fork" /\ work[u].child \in Owners
    BY <1>1, Zenon DEF ForkDone, Complete, CallOK, MemTypes
  <2> QED BY <2>1, Zenon DEF ForkDone, Complete, Target
<1>3. EntryOK(c) /\ CallOK(c)
  BY Zenon DEF MemIInv
<1>4. /\ life[u] = "RUNNING" /\ life[c] = "EMBRYO" /\ c # u /\ ~Busy(c)
      /\ space[c] = NoSpace /\ kstack[c] # 0 /\ work[u].newsz = sz[u]
  BY <1>1, <1>2, <1>3, Zenon DEF CallOK, EntryOK, Busy
<1>5. /\ work[u].a = Pgroundup(work[u].newsz) /\ hand[u] = 0
      /\ work[u].newsz \in 0 .. KERNBASE - 1
  <2>1. work[u].a \in Nat /\ work[u].newsz \in 0 .. KERNBASE - 1 /\ work[u].newsz \in Nat
    BY <1>1, Numbers DEF MemTypes
  <2>2. Pgroundup(work[u].newsz) \in Nat
    BY <2>1, Rounding, Zenon
  <2> QED BY <1>1, <1>2, <2>1, <2>2 DEF CallOK
<1>6. /\ space' \in [Owners -> [Parts -> Pages \cup {0}]] /\ space'[c] = fresh[u]
      /\ \A w \in Owners : w # c => space'[w] = space[w]
  BY <1>1, <1>2, Zenon DEF MemTypes
<1>7. /\ sz' \in [Owners -> 0 .. KERNBASE - 1] /\ sz'[c] = work[u].newsz
      /\ \A w \in Owners : w # c => sz'[w] = sz[w]
  BY <1>1, <1>2, <1>5, Zenon DEF MemTypes
<1>8. /\ life' \in [Owners -> Entries] /\ life'[c] = "RUNNING"
      /\ \A w \in Owners : w # c => life'[w] = life[w]
      /\ parent' \in [Owners -> Owners \cup {0}]
  BY <1>1, <1>2, Zenon DEF MemTypes, Entries
<1>9. /\ work' \in [Owners -> Works] /\ work'[u] = NoWork
      /\ fresh' \in [Owners -> [Parts -> Pages \cup {0}]] /\ fresh'[u] = NoSpace
      /\ hand' \in [Owners -> Pages \cup {0}] /\ hand'[u] = 0
      /\ \A w \in Owners : w # u =>
           work'[w] = work[w] /\ fresh'[w] = fresh[w] /\ hand'[w] = hand[w]
  BY <1>1, <1>2, EndsCallFacts, Zenon
<1>10. MemTypes'
  BY <1>1, <1>2, <1>6, <1>7, <1>8, <1>9, Zenon DEF MemTypes, Works
<1>11. PagesOwnedOnce'
  <2>1. ASSUME NEW q \in Parts
        PROVE  /\ View[<<c, "now", q>>] = 0
               /\ View'[<<c, "now", q>>] = View[<<u, "fresh", q>>]
               /\ View'[<<u, "fresh", q>>] = 0
    <3>1. View[<<c, "now", q>>] = space[c][q] /\ View'[<<c, "now", q>>] = space'[c][q]
      BY NowAt, Zenon
    <3>2. View[<<u, "fresh", q>>] = fresh[u][q] /\ View'[<<u, "fresh", q>>] = fresh'[u][q]
      BY FreshAt, Zenon
    <3>3. NoSpace[q] = 0
      BY Zenon DEF NoSpace
    <3> QED BY <1>4, <1>6, <1>9, <3>1, <3>2, <3>3, Zenon
  <2>2. ASSUME NEW y \in Places, \A q \in Parts : y # <<c, "now", q>> /\ y # <<u, "fresh", q>>
        PROVE  View'[y] = View[y]
    <3>1. \A w \in Owners, q \in Parts : y = <<w, "now", q>> => space'[w][q] = space[w][q]
      BY <1>6, <2>2, Zenon
    <3>2. \A w \in Owners, q \in Parts : y = <<w, "fresh", q>> => fresh'[w][q] = fresh[w][q]
      BY <1>9, <2>2, Zenon
    <3>3. \A w \in Owners : hand'[w] = hand[w] /\ kstack'[w] = kstack[w]
      BY <1>2, <1>5, <1>9, Zenon
    <3> QED BY <3>1, <3>2, <3>3, SameView, Zenon
  <2>3. OnceIn(Places, View, Pages, free)
    BY <1>1, OwnedAsView, Zenon
  <2>4. /\ \A q \in Parts : View[<<c, "now", q>>] = 0
        /\ \A q \in Parts : View'[<<c, "now", q>>] = View[<<u, "fresh", q>>]
        /\ \A q \in Parts : View'[<<u, "fresh", q>>] = 0
    BY <2>1, Zenon
  <2>5. \A y \in Places : (\A q \in Parts : y # <<c, "now", q>> /\ y # <<u, "fresh", q>>)
           => View'[y] = View[y]
    BY <2>2, Zenon
  <2>6. OnceIn(Places, View', Pages, free)
    BY <2>3, <2>4, <2>5, FreshMoves
  <2> QED BY <1>2, <2>6, OwnedAsView, Zenon
<1>12. ASSUME NEW w \in Owners, w # u, w # c PROVE CallOK(w)'
  <2>1. CallOK(w) /\ work[w].child \in Owners \cup {0}
    BY Zenon DEF MemIInv, MemTypes
  <2>2. work[w].call = "fork" => work[w].child \in Owners /\ work[w].child # c
    BY <1>1, <1>2, <1>12, <2>1, MemoryAssumption, Zenon DEF CallOK,
       ChildrenDiffer
  <2>3. Busy(w) => life'[w] = "RUNNING"
    BY <1>8, <1>12, <2>1, Zenon DEF CallOK
  <2>4. work[w].call = "fork" => life'[work[w].child] = "EMBRYO"
    BY <1>8, <2>1, <2>2, Zenon DEF CallOK
  <2> QED BY <1>2, <1>7, <1>9, <1>12, <2>1, <2>3, <2>4, CallKeeps, Zenon
<1>13. CallOK(u)'
  BY <1>9, IdleOK, Zenon
<1>14. CallOK(c)'
  <2>1. work[c].call = "none"
    BY <1>4, Zenon DEF Busy
  <2>2. work'[c] = work[c] /\ fresh'[c] = fresh[c] /\ hand'[c] = hand[c]
    BY <1>4, <1>9, Zenon
  <2> QED
    BY <1>3, <2>1, <2>2, Zenon DEF CallOK, Busy, Pgroundup, NoSpace, Vpages,
       Parts, Pte, Ktab, Dir, Tab
<1>15. ASSUME NEW w \in Owners, w # u, w # c PROVE EntryOK(w)'
  <2>1. EntryOK(w)
    BY Zenon DEF MemIInv
  <2> QED
    BY <1>2, <1>6, <1>7, <1>8, <1>9, <1>15, <2>1, EntryKeeps, Zenon DEF
       EntryOK
<1>16. EntryOK(u)'
  <2>1. Top(u)' = Pgroundup(sz[u]) /\ Top(u) = Pgroundup(sz[u])
    BY <1>2, <1>4, <1>7, <1>9, NoWorkFacts, Zenon DEF Top, Pgroundup
  <2>2. /\ life'[u] = life[u] /\ kstack'[u] = kstack[u] /\ gaveAll'[u] = gaveAll[u]
        /\ space'[u] = space[u]
    BY <1>2, <1>4, <1>6, <1>8, Zenon
  <2> QED BY <1>1, <1>4, <2>1, <2>2, Zenon DEF EntryOK, Alive
<1>17. EntryOK(c)'
  <2>1. work'[c].call = "none"
    BY <1>4, <1>9, Zenon DEF Busy
  <2>2. Top(c)' = work[u].a
    BY <1>5, <1>7, <2>1, Zenon DEF Top, Pgroundup
  <2>3. \A v \in Vpages : fresh[u][Pte(v)] # 0 <=> v < work[u].a
    BY <1>1, <1>2, Zenon DEF CallOK
  <2>4. \A v \in Vpages : v >= work[u].a => ~(v < work[u].a)
    <3>1. work[u].a \in Nat /\ \A v \in Vpages : v \in Nat
      BY <1>1, Numbers DEF MemTypes, Vpages
    <3> QED BY <3>1
  <2> QED BY <1>2, <1>4, <1>6, <1>8, <2>2, <2>3, <2>4 DEF EntryOK, Alive
<1>18. ChildrenDiffer' /\ FaultCause'
  BY <1>2, <1>9, EndedDiffer, Zenon DEF MemIInv, FaultCause
<1>19. \A w \in Owners : CallOK(w)' /\ EntryOK(w)'
  BY <1>12, <1>13, <1>14, <1>15, <1>16, <1>17, Zenon
<1> QED BY <1>10, <1>11, <1>18, <1>19, Zenon DEF MemIInv

\* freevm() of the old address space, and the new one in its place.
LEMMA ExecPages ==
  ASSUME MemTypes, PagesOwnedOnce, NEW u \in Owners, hand[u] = 0, ExecCommit(u)
  PROVE  PagesOwnedOnce' /\ free' \subseteq Pages
<1> DEFINE g == [y \in Places |-> IF \E q \in Parts : y = <<u, "now", q>> THEN 0 ELSE View[y]]
<1>1. /\ free' = free \cup HeldBy(space[u]) /\ kstack' = kstack
      /\ space' = [space EXCEPT ![u] = fresh[u]] /\ EndsCall(u)
  BY Zenon DEF ExecCommit, Replaced, Kfree
<1>2. /\ space'[u] = fresh[u] /\ fresh'[u] = NoSpace /\ hand'[u] = 0
      /\ \A w \in Owners : w # u =>
           space'[w] = space[w] /\ fresh'[w] = fresh[w] /\ hand'[w] = hand[w]
  BY <1>1, EndsCallFacts, Zenon DEF MemTypes
<1>3. \A q \in Parts : <<u, "now", q>> \in Places /\ <<u, "fresh", q>> \in Places
  BY NowAt, FreshAt, Zenon
<1>4. /\ \A q \in Parts : g[<<u, "now", q>>] = 0
      /\ \A y \in Places : (\A q \in Parts : y # <<u, "now", q>>) => g[y] = View[y]
  BY <1>3, Zenon
<1> HIDE DEF g
<1>5. OnceIn(Places, View, Pages, free) /\ free \subseteq Pages
  BY OwnedAsView, Zenon DEF MemTypes
<1>6. \A y \in Places : g[y] # 0 => g[y] = View[y]
  BY <1>4, Zenon
<1>7. Emptied(Places, View, g) = HeldBy(space[u])
  <2>1. ASSUME NEW q \in Parts, space[u][q] # 0
        PROVE  space[u][q] \in Emptied(Places, View, g)
    <3> DEFINE y == <<u, "now", q>>
    <3>1. y \in Places /\ View[y] = space[u][q] /\ g[y] = 0
      BY <1>3, <1>4, NowAt, Zenon
    <3> HIDE DEF y
    <3> QED BY <2>1, <3>1, Zenon DEF Emptied
  <2>2. ASSUME NEW y \in Places, View[y] # 0, g[y] = 0
        PROVE  View[y] \in HeldBy(space[u])
    <3>1. PICK q \in Parts : y = <<u, "now", q>>
      BY <1>4, <2>2, Zenon
    <3>2. View[y] = space[u][q]
      BY <3>1, NowAt, Zenon
    <3> QED BY <2>2, <3>2, Zenon DEF HeldBy, PagesIn
  <2> QED BY <2>1, <2>2, Zenon DEF Emptied, HeldBy, PagesIn
<1>8. OnceIn(Places, g, Pages, free') /\ free' \subseteq Pages
  <2>1. OnceIn(Places, g, Pages, free \cup Emptied(Places, View, g))
    BY <1>5, <1>6, ReleasingKeeps, Zenon
  <2>2. Emptied(Places, View, g) \subseteq Pages
    BY <1>5, EmptiedPages, Zenon
  <2> QED BY <1>1, <1>5, <1>7, <2>1, <2>2, Zenon
<1>9. ASSUME NEW q \in Parts
      PROVE  /\ View'[<<u, "now", q>>] = g[<<u, "fresh", q>>]
             /\ View'[<<u, "fresh", q>>] = 0
  <2>1. View'[<<u, "now", q>>] = space'[u][q] /\ View'[<<u, "fresh", q>>] = fresh'[u][q]
    BY NowAt, FreshAt, Zenon
  <2>2. g[<<u, "fresh", q>>] = fresh[u][q]
    BY <1>3, <1>4, FreshAt, Zenon
  <2>3. NoSpace[q] = 0
    BY Zenon DEF NoSpace
  <2> QED BY <1>2, <2>1, <2>2, <2>3, Zenon
<1>10. ASSUME NEW y \in Places, \A q \in Parts : y # <<u, "now", q>> /\ y # <<u, "fresh", q>>
       PROVE  View'[y] = g[y]
  <2>1. \A w \in Owners, q \in Parts : y = <<w, "now", q>> => space'[w][q] = space[w][q]
    BY <1>2, <1>10, Zenon
  <2>2. \A w \in Owners, q \in Parts : y = <<w, "fresh", q>> => fresh'[w][q] = fresh[w][q]
    BY <1>2, <1>10, Zenon
  <2>3. \A w \in Owners : hand'[w] = hand[w] /\ kstack'[w] = kstack[w]
    BY <1>1, <1>2, Zenon
  <2>4. View'[y] = View[y]
    BY <2>1, <2>2, <2>3, SameView, Zenon
  <2> QED BY <1>4, <1>10, <2>4, Zenon
<1>11. /\ \A q \in Parts : View'[<<u, "now", q>>] = g[<<u, "fresh", q>>]
       /\ \A q \in Parts : View'[<<u, "fresh", q>>] = 0
  BY <1>9, Zenon
<1>12. \A y \in Places : (\A q \in Parts : y # <<u, "now", q>> /\ y # <<u, "fresh", q>>)
         => View'[y] = g[y]
  BY <1>10, Zenon
<1>13. OnceIn(Places, View', Pages, free')
  BY <1>4, <1>8, <1>11, <1>12, FreshMoves
<1> QED BY <1>8, <1>13, OwnedAsView, Zenon

LEMMA ExecCommitKeeps ==
  ASSUME MemIInv, NEW u \in Owners, memFault = "none", ExecCommit(u)
  PROVE  MemIInv'
<1>1. MemTypes /\ CallOK(u) /\ EntryOK(u) /\ PagesOwnedOnce
  BY Zenon DEF MemIInv
<1>2. /\ work[u].call = "exec" /\ work[u].a >= Pgroundup(work[u].newsz)
      /\ space' = [space EXCEPT ![u] = fresh[u]]
      /\ sz' = [sz EXCEPT ![u] = work[u].newsz] /\ EndsCall(u)
      /\ gaveAll' = [gaveAll EXCEPT ![u] = FALSE]
      /\ UNCHANGED <<kstack, life, parent, memFault>>
  BY Zenon DEF ExecCommit, Complete
<1>3. /\ work[u].a = Pgroundup(work[u].newsz) /\ hand[u] = 0
      /\ work[u].newsz \in 0 .. KERNBASE - 1
  <2>1. work[u].a \in Nat /\ work[u].newsz \in 0 .. KERNBASE - 1 /\ work[u].newsz \in Nat
    BY <1>1, Numbers DEF MemTypes
  <2>2. Pgroundup(work[u].newsz) \in Nat
    BY <2>1, Rounding, Zenon
  <2> QED BY <1>1, <1>2, <2>1, <2>2 DEF CallOK
<1>4. PagesOwnedOnce' /\ free' \subseteq Pages
  BY <1>1, <1>3, ExecPages, Zenon
<1>5. /\ space' \in [Owners -> [Parts -> Pages \cup {0}]] /\ space'[u] = fresh[u]
      /\ \A w \in Owners : w # u => space'[w] = space[w]
  BY <1>1, <1>2, Zenon DEF MemTypes
<1>6. /\ sz' \in [Owners -> 0 .. KERNBASE - 1] /\ sz'[u] = work[u].newsz
      /\ gaveAll' \in [Owners -> BOOLEAN]
      /\ \A w \in Owners : w # u => sz'[w] = sz[w] /\ gaveAll'[w] = gaveAll[w]
  BY <1>1, <1>2, <1>3, Zenon DEF MemTypes
<1>7. /\ work' \in [Owners -> Works] /\ work'[u] = NoWork
      /\ fresh' \in [Owners -> [Parts -> Pages \cup {0}]] /\ fresh'[u] = NoSpace
      /\ hand' \in [Owners -> Pages \cup {0}] /\ hand'[u] = 0
      /\ \A w \in Owners : w # u =>
           work'[w] = work[w] /\ fresh'[w] = fresh[w] /\ hand'[w] = hand[w]
  BY <1>1, <1>2, EndsCallFacts, Zenon
<1>8. MemTypes'
  BY <1>1, <1>2, <1>4, <1>5, <1>6, <1>7, Zenon DEF MemTypes, Works
<1>9. \A w \in Owners : w # u => CallOK(w)' /\ EntryOK(w)'
  BY <1>2, <1>5, <1>6, <1>7, OthersKeep, Zenon
<1>10. CallOK(u)'
  BY <1>7, IdleOK, Zenon
<1>11. EntryOK(u)'
  <2>1. Top(u)' = work[u].a
    BY <1>3, <1>6, <1>7, NoWorkFacts, Zenon DEF Top, Pgroundup
  <2>2. \A v \in Vpages : fresh[u][Pte(v)] # 0 <=> v < work[u].a
    BY <1>1, <1>2, Zenon DEF CallOK
  <2>3. \A v \in Vpages : v >= work[u].a => ~(v < work[u].a)
    <3>1. work[u].a \in Nat /\ \A v \in Vpages : v \in Nat
      BY <1>1, Numbers DEF MemTypes, Vpages
    <3> QED BY <3>1
  <2>4. life[u] = "RUNNING"
    BY <1>1, <1>2, Zenon DEF CallOK, Busy
  <2> QED
    BY <1>1, <1>2, <1>5, <2>1, <2>2, <2>3, <2>4, Zenon DEF EntryOK, Alive
<1>12. ChildrenDiffer' /\ FaultCause'
  BY <1>2, <1>7, EndedDiffer, Zenon DEF MemIInv, FaultCause
<1> QED BY <1>4, <1>8, <1>9, <1>10, <1>11, <1>12, Zenon DEF MemIInv

-----------------------------------------------------------------------------
(* The initial state, and the theorem.                                     *)

LEMMA InitPages ==
  ASSUME MemInit
  PROVE  PagesOwnedOnce
<1> DEFINE a == <<1, "kstack", Dir>>
           b == <<1, "now", Dir>>
           d == <<1, "now", Ktab>>
           e == <<1, "now", Tab(0)>>
           k == <<1, "now", Pte(0)>>
           first == {a, b, d, e, k}
<1>1. 1 \in Owners /\ Tab(0) \in Parts /\ Pte(0) \in Parts
  BY MemoryAssumption, Numbers, PartOf DEF Vpages
<1>2. /\ \A q \in Parts : space[1][q] = IF q = Pte(0) THEN 5 ELSE IF q = Tab(0) THEN 4
                                         ELSE IF q = Ktab THEN 3 ELSE IF q = Dir THEN 2 ELSE 0
      /\ \A w \in Owners, q \in Parts : (w # 1 => space[w][q] = 0) /\ fresh[w][q] = 0
      /\ \A w \in Owners : hand[w] = 0 /\ (w # 1 => kstack[w] = 0)
      /\ kstack[1] = 1
  BY <1>1, PartOf, Zenon DEF MemInit, NoSpace
<1>3. \A q \in Parts : <<1, "now", q>> \in Places /\ View[<<1, "now", q>>] = space[1][q]
  BY <1>1, NowAt, Zenon
<1>4. /\ a \in Places /\ b \in Places /\ d \in Places /\ e \in Places /\ k \in Places
      /\ View[a] = 1 /\ View[b] = 2 /\ View[d] = 3 /\ View[e] = 4 /\ View[k] = 5
  <2>1. a \in Places /\ View[a] = 1
    BY <1>1, <1>2, KstackAt, Zenon
  <2>2. b \in Places /\ View[b] = 2
    BY <1>2, <1>3, PartOf, Zenon
  <2>3. d \in Places /\ View[d] = 3
    BY <1>2, <1>3, PartOf, Zenon
  <2>4. e \in Places /\ View[e] = 4
    BY <1>1, <1>2, <1>3, PartOf
  <2>5. k \in Places /\ View[k] = 5
    BY <1>1, <1>2, <1>3, PartOf, Zenon
  <2> QED BY <2>1, <2>2, <2>3, <2>4, <2>5, Zenon
<1>5. ASSUME NEW y \in Places, View[y] # 0
      PROVE  y \in first
  <2>1. PICK w \in Owners :
          \/ \E q \in Parts : y = <<w, "now", q>> \/ y = <<w, "fresh", q>>
          \/ y = <<w, "hand", Dir>>
          \/ y = <<w, "kstack", Dir>>
    BY PlaceCases, Zenon
  <2>2. ~(y = <<w, "hand", Dir>>)
    <3>1. View[<<w, "hand", Dir>>] = hand[w]
      BY HandAt, Zenon
    <3> QED BY <1>2, <1>5, <3>1, Zenon
  <2>3. \A q \in Parts : ~(y = <<w, "fresh", q>>)
    <3>1. \A q \in Parts : View[<<w, "fresh", q>>] = fresh[w][q]
      BY FreshAt, Zenon
    <3> QED BY <1>2, <1>5, <3>1, ZenonT(40)
  <2>4. CASE y = <<w, "kstack", Dir>>
    <3>1. View[<<w, "kstack", Dir>>] = kstack[w]
      BY KstackAt, Zenon
    <3>2. w = 1
      BY <1>2, <1>5, <2>4, <3>1, Zenon
    <3> QED BY <2>4, <3>2, Zenon
  <2>5. CASE \E q \in Parts : y = <<w, "now", q>>
    <3>1. PICK q \in Parts : y = <<w, "now", q>>
      BY <2>5, Zenon
    <3>2. space[w][q] # 0
      BY <1>5, <3>1, NowAt, Zenon
    <3>3. w = 1 /\ q \in {Dir, Ktab, Tab(0), Pte(0)}
      BY <1>2, <3>2, Zenon
    <3> QED BY <3>1, <3>3, Zenon
  <2> QED BY <2>1, <2>2, <2>3, <2>4, <2>5, Zenon
<1> HIDE DEF a, b, d, e, k
<1>6. {View[y] : y \in {y \in Places : View[y] # 0}} = {1, 2, 3, 4, 5}
  BY <1>4, <1>5
<1>7. \A y, z \in Places : View[y] # 0 /\ View[y] = View[z] => y = z
  BY <1>4, <1>5
<1>8. Pages \ free = {1, 2, 3, 4, 5}
  BY MemoryAssumption DEF MemInit, Pages
<1>9. OnceIn(Places, View, Pages, free)
  BY <1>6, <1>7, <1>8, Zenon DEF OnceIn
<1> QED BY <1>9, OwnedAsView, Zenon

LEMMA InitHolds == MemInit => MemIInv
<1> HAVE MemInit
<1>1. 1 \in Owners /\ NoWork \in Works /\ 1 .. 5 \subseteq Pages
  BY MemoryAssumption, NoWorkFacts DEF Pages
<1>2. /\ NoSpace \in [Parts -> Pages \cup {0}] /\ \A q \in Parts : NoSpace[q] = 0
  BY Zenon DEF NoSpace
<1> DEFINE first == [NoSpace EXCEPT ![Dir] = 2, ![Ktab] = 3, ![Tab(0)] = 4, ![Pte(0)] = 5]
<1>3. /\ first \in [Parts -> Pages \cup {0}]
      /\ first[Pte(0)] = 5
      /\ \A v \in Vpages : v # 0 => first[Pte(v)] = 0
  <2>1. 2 \in Pages /\ 3 \in Pages /\ 4 \in Pages /\ 5 \in Pages
    BY <1>1
  <2>2. Pte(0) \in Parts
    BY Numbers, PartOf DEF Vpages
  <2> QED BY <1>2, <2>1, <2>2, PartOf, Zenon
<1> HIDE DEF first
<1>4. /\ space = [u \in Owners |-> IF u # 1 THEN NoSpace ELSE first]
      /\ fresh = [u \in Owners |-> NoSpace] /\ hand = [u \in Owners |-> 0]
      /\ work = [u \in Owners |-> NoWork] /\ gaveAll = [u \in Owners |-> FALSE]
      /\ kstack = [u \in Owners |-> IF u = 1 THEN 1 ELSE 0]
      /\ sz = [u \in Owners |-> IF u = 1 THEN PGSIZE ELSE 0]
      /\ life = [u \in Owners |-> IF u = 1 THEN "RUNNING" ELSE "UNUSED"]
      /\ parent = [u \in Owners |-> 0] /\ memFault = "none" /\ free \subseteq Pages
  BY Zenon DEF MemInit, first
<1>5. MemTypes
  <2>1. space \in [Owners -> [Parts -> Pages \cup {0}]]
        /\ fresh \in [Owners -> [Parts -> Pages \cup {0}]]
    BY <1>2, <1>3, <1>4, Zenon
  <2>2. hand \in [Owners -> Pages \cup {0}] /\ kstack \in [Owners -> Pages \cup {0}]
    BY <1>1, <1>4
  <2>3. sz \in [Owners -> 0 .. KERNBASE - 1]
    BY <1>4, Numbers
  <2>4. life \in [Owners -> Entries] /\ parent \in [Owners -> Owners \cup {0}]
    BY <1>4, Zenon DEF Entries
  <2>5. work \in [Owners -> Works] /\ gaveAll \in [Owners -> BOOLEAN]
    BY <1>1, <1>4, Zenon
  <2> QED BY <1>4, <2>1, <2>2, <2>3, <2>4, <2>5, Zenon DEF MemTypes, Works
<1>6. ASSUME NEW u \in Owners PROVE CallOK(u)
  <2>1. 0 <= Pgroundup(0)
    BY Rounding
  <2> QED BY <1>4, <2>1, NoWorkFacts, Zenon DEF CallOK, Busy
<1>7. ASSUME NEW u \in Owners PROVE EntryOK(u)
  <2>1. Top(u) = Pgroundup(sz[u])
    BY <1>4, NoWorkFacts, Zenon DEF Top
  <2>2. CASE u = 1
    <3>1. /\ Top(u) = 1 /\ space[u] = first /\ kstack[u] = 1 /\ life[u] = "RUNNING"
      BY <1>4, <2>1, <2>2, Rounding, Zenon
    <3>2. \A v \in Vpages : (v >= 1 => v # 0) /\ (v < 1 => v = 0)
      BY Numbers DEF Vpages
    <3> QED BY <1>3, <3>1, <3>2 DEF EntryOK, Alive
  <2>3. CASE u # 1
    <3>1. space[u] = NoSpace /\ kstack[u] = 0 /\ life[u] = "UNUSED"
      BY <1>4, <2>3, Zenon
    <3>2. \A v \in Vpages : NoSpace[Pte(v)] = 0
      BY <1>2, PartOf, Zenon
    <3> QED BY <3>1, <3>2, Zenon DEF EntryOK, Alive
  <2> QED BY <2>2, <2>3, Zenon
<1>8. ChildrenDiffer /\ FaultCause
  BY <1>4, NoWorkFacts, Zenon DEF ChildrenDiffer, FaultCause
<1> QED BY <1>5, <1>6, <1>7, <1>8, InitPages, Zenon DEF MemIInv

LEMMA MemStep == MemIInv /\ [MemNext]_memVars => MemIInv'
<1> SUFFICES ASSUME MemIInv, [MemNext]_memVars PROVE MemIInv'
  BY Zenon
<1>1. CASE UNCHANGED memVars
  <2>1. /\ UNCHANGED <<free, space, sz, kstack, life, parent, work, fresh, hand, gaveAll>>
        /\ UNCHANGED memFault
    BY <1>1, Zenon DEF memVars
  <2>2. \A w \in Owners : CallOK(w)' /\ EntryOK(w)'
    BY <2>1, AllKeep, Zenon
  <2>3. PagesOwnedOnce'
    BY <2>1, OwnedSame, Zenon DEF MemIInv
  <2> QED
    BY <2>1, <2>2, <2>3, Zenon DEF MemIInv, MemTypes, ChildrenDiffer,
       FaultCause
<1>2. ASSUME NEW u \in Owners, memFault = "none", UserStep(u) PROVE MemIInv'
  <2>1. ASSUME NEW n \in SbrkUp, Sbrk(u, n) PROVE MemIInv'
    BY <1>2, <2>1, SbrkKeeps, Zenon
  <2>2. ASSUME NEW n \in SbrkDown, SbrkLess(u, n) PROVE MemIInv'
    BY <1>2, <2>2, SbrkLessKeeps, Zenon
  <2>3. CASE SbrkDone(u)
    BY <1>2, <2>3, SbrkDoneKeeps, Zenon
  <2>4. CASE OutOfMemory(u)
    BY <1>2, <2>4, AbandonKeeps, Zenon DEF OutOfMemory
  <2>5. CASE KstackAlloc(u)
    BY <1>2, <2>5, KstackAllocKeeps, Zenon
  <2>6. CASE Setupkvm(u)
    BY <1>2, <2>6, SetupkvmKeeps, Zenon
  <2>7. CASE GrowPage(u)
    BY <1>2, <2>7, GrowPageKeeps, Zenon
  <2>8. CASE GrowTable(u)
    BY <1>2, <2>8, GrowTableKeeps, Zenon
  <2>9. CASE GrowMap(u)
    BY <1>2, <2>9, GrowMapKeeps, Zenon
  <2>10. CASE CopyuvmPanic(u)
    BY <1>2, <2>10, CopyuvmPanicKeeps, Zenon
  <2>11. CASE ForkBegin(u)
    BY <1>2, <2>11, ForkBeginKeeps, Zenon
  <2>12. CASE ForkDone(u)
    BY <1>2, <2>12, ForkDoneKeeps, Zenon
  <2>13. ASSUME NEW image \in Images, ExecBegin(u, image) PROVE MemIInv'
    BY <1>2, <2>13, ExecBeginKeeps, Zenon
  <2>14. CASE ExecBad(u)
    BY <1>2, <2>14, AbandonKeeps, Zenon DEF ExecBad, Busy
  <2>15. CASE ExecCommit(u)
    BY <1>2, <2>15, ExecCommitKeeps, Zenon
  <2>16. CASE ExitUser(u)
    BY <1>2, <2>16, ExitUserKeeps, Zenon
  <2>17. CASE WaitUser(u)
    BY <1>2, <2>17, WaitUserKeeps, Zenon
  <2> QED
    BY <1>2, <2>1, <2>2, <2>3, <2>4, <2>5, <2>6, <2>7, <2>8, <2>9, <2>10,
       <2>11, <2>12, <2>13, <2>14, <2>15, <2>16, <2>17, Zenon DEF UserStep
<1> QED BY <1>1, <1>2, Zenon DEF MemNext

LEMMA Accounted == MemIInv => PagesAccounted
<1> HAVE MemIInv
<1>1. MemTypeOK
  BY Zenon DEF MemIInv, MemTypes, MemTypeOK, Entries
<1>2. ASSUME NEW u \in Owners, life[u] \in {"RUNNING", "ZOMBIE"}, ~gaveAll[u],
             work[u].call # "sbrk", NEW v \in Vpages
      PROVE  space[u][Pte(v)] # 0 <=> v < Pgroundup(sz[u])
  <2>1. EntryOK(u) /\ Top(u) = Pgroundup(sz[u])
    BY <1>2, Zenon DEF MemIInv, Top
  <2>2. v \in Nat /\ Pgroundup(sz[u]) \in Nat
    BY Numbers, Rounding DEF Vpages, MemIInv, MemTypes
  <2>3. v < Pgroundup(sz[u]) \/ v >= Pgroundup(sz[u])
    BY <2>2
  <2>4. v >= Pgroundup(sz[u]) => ~(v < Pgroundup(sz[u]))
    BY <2>2
  <2> QED BY <1>2, <2>1, <2>3, <2>4, Zenon DEF EntryOK, Alive
<1>3. MappedBelowSize
  BY <1>2, Zenon DEF MappedBelowSize, MemIInv, FaultCause
<1> QED BY <1>1, <1>3, Zenon DEF PagesAccounted, MemIInv

\* Whatever process takes the last page, and wherever sbrk(), fork() or exec()
\* then fails, every page is on the free list of kalloc.c or in exactly one place
\* of one process, a process has the pages below its size, and copyuvm() panics
\* only after a process has given all its memory back.
THEOREM PagesStayAccounted == MemSpec => []PagesAccounted
<1>1. MemIInv => PagesAccounted
  BY Accounted, Zenon
<1> QED BY <1>1, InitHolds, MemStep, PTL DEF MemSpec
=============================================================================
