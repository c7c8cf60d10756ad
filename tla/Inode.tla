------------------------------- MODULE Inode --------------------------------
(***************************************************************************)
(* Inodes, directories and path names: the inode cache and namex() of      *)
(* fs.c, and the path system calls of sysfile.c.                           *)
(*                                                                         *)
(* A step is what a process does from one acquiresleep() of an inode lock  *)
(* to the next; iput() has steps of its own, which the process takes for   *)
(* every reference in its list put before it goes on.  Directories are     *)
(* functions from names to inode numbers, 0 for no entry; file contents    *)
(* and blocks are in Content, transactions in Log.                         *)
(***************************************************************************)
EXTENDS Integers, Sequences, FiniteSets, FiniteSetsExt, TLC

CONSTANTS
  Procs,
  NINODE,       \* entries of the inode cache
  NINODES,      \* inodes on disk
  Names,        \* names of directory entries
  Calls,        \* the system calls processes may make, on paths with a name
  Tree,         \* the files at the start: [parent, name, type] by inode
  Home,         \* the directory processes start in
  MaxCalls      \* bound: path system calls in a behaviour

ROOTINO == 1
Inums == 1 .. NINODES
Slots == 1 .. NINODE
Dots == {".", ".."}
Nobody == 0

ASSUME InodeAssumption ==
  /\ NINODES \in Nat \ {0} /\ NINODE \in Nat
  /\ NINODE >= NINODES       \* iget() always finds an entry
  /\ Names \cap Dots = {} /\ 0 \notin Procs

VARIABLES
  di,           \* inodes on disk and the entries of directories
  ic,           \* the inode cache
  proc,         \* where each process is in its system call
  cwd,          \* p->cwd
  ofile,        \* the inode of each process's open file, 0 if none
  calls,        \* path system calls so far
  lost,         \* history: entries that were freed with their directory
  fault         \* the panic that stopped the machine

ivars == <<di, ic, proc, cwd, ofile, calls, lost, fault>>

NoEntries == [n \in Names \cup Dots |-> 0]
Blank == [type |-> "none", nlink |-> 0, ents |-> NoEntries]
EmptySlot == [inum |-> 0, ref |-> 0, valid |-> FALSE, holder |-> Nobody,
              type |-> "none", nlink |-> 0]
AtRest == [pc |-> "idle", path |-> <<>>, ret |-> "idle", ip |-> 0, other |-> 0,
           put |-> <<>>, phase |-> "lock", call |-> [sys |-> "none"]]

\* An inode of the image that mkfs makes and mkdir() and create() extend.
Planted(i) ==
  LET in(d) == {j \in DOMAIN Tree : Tree[j].parent = d /\ j # d} IN
  IF i \notin DOMAIN Tree THEN Blank
  ELSE [type |-> Tree[i].type,
        nlink |-> 1 + Cardinality({j \in in(i) : Tree[j].type = "dir"}),
        ents |-> IF Tree[i].type # "dir" THEN NoEntries
                 ELSE [n \in Names \cup Dots |->
                         CASE n = "." -> i
                           [] n = ".." -> Tree[i].parent
                           [] OTHER -> SumSet({j \in in(i) : Tree[j].name = n})]]

Init ==
  /\ di = [i \in Inums |-> Planted(i)]
  /\ ic = [s \in Slots |-> IF s # 1 THEN EmptySlot
                           ELSE [EmptySlot EXCEPT !.inum = Home,
                                                  !.ref = Cardinality(Procs)]]
  /\ proc = [p \in Procs |-> AtRest]
  /\ cwd = [p \in Procs |-> 1]
  /\ ofile = [p \in Procs |-> 0]
  /\ calls = 0
  /\ lost = [i \in Inums |-> 0]
  /\ fault = "none"

-----------------------------------------------------------------------------
(* The inode cache.  These operators take a cache c to a cache.            *)

\* The entry iget() finds or recycles.
IgetSlot(c, i) ==
  LET cached == {s \in Slots : c[s].ref > 0 /\ c[s].inum = i} IN
  IF cached # {} THEN Min(cached) ELSE Min({s \in Slots : c[s].ref = 0})

Iget(c, i) ==
  LET s == IgetSlot(c, i) IN
  IF c[s].ref > 0 THEN [c EXCEPT ![s].ref = @ + 1]
  ELSE [c EXCEPT ![s] = [EmptySlot EXCEPT !.inum = i, !.ref = 1]]

Idup(c, s) == [c EXCEPT ![s].ref = @ + 1]

\* ilock(), once ip->lock is free: read the inode if it is not valid.
Ilock(c, s, p) ==
  LET d == di[c[s].inum]
      l == [c EXCEPT ![s].holder = p]
  IN IF c[s].valid THEN l
     ELSE [l EXCEPT ![s].valid = TRUE, ![s].type = d.type, ![s].nlink = d.nlink]

Iunlock(c, s) == [c EXCEPT ![s].holder = Nobody]

\* ilock() and, in the same step, iunlock().
Iread(c, s) == Iunlock(Ilock(c, s, Nobody), s)

\* "Must be called after every change to an ip->xxx field that lives on disk."
Iupdate(d, c, s) ==
  [d EXCEPT ![c[s].inum].type = c[s].type, ![c[s].inum].nlink = c[s].nlink]

\* The inode that ilock() finds in entry s.
TypeIn(s) == IF ic[s].valid THEN ic[s].type ELSE di[ic[s].inum].type
Entries(s) == di[ic[s].inum].ents

\* Where a process stands: fields of its record.
Goes(p, fields) == proc' = [proc EXCEPT ![p] = fields @@ @]

\* p has no reference to drop first and stands at l.
At(p, l) == proc[p].pc = l /\ proc[p].put = <<>>

\* Nobody holds the lock and ilock() will not panic.
CanLock(s) == ic[s].holder = Nobody /\ TypeIn(s) # "none"

-----------------------------------------------------------------------------
(* iput().                                                                 *)

\* Mutant: other references do not keep an inode.
DoomedReferenced(s) == ic[s].valid /\ ic[s].nlink = 0

\* ip->valid && ip->nlink == 0, and r == 1.
Doomed(s) == ic[s].valid /\ ic[s].nlink = 0 /\ ic[s].ref = 1

\* acquiresleep(), the test, and releasesleep() if there is nothing to free.
IputLock(p) ==
  LET s == Head(proc[p].put) IN
  /\ proc[p].put # <<>> /\ proc[p].phase = "lock"
  /\ ic[s].holder = Nobody
  /\ IF Doomed(s)
     THEN ic' = [ic EXCEPT ![s].holder = p] /\ Goes(p, [phase |-> "free"])
     ELSE Goes(p, [phase |-> "drop"]) /\ UNCHANGED ic
  /\ UNCHANGED <<di, cwd, ofile, calls, lost, fault>>

\* "Truncate and free", and releasesleep().
IputFree(p) ==
  LET s == Head(proc[p].put)
      i == ic[s].inum
  IN
  /\ proc[p].phase = "free"
  /\ di' = [di EXCEPT ![i] = Blank]
  /\ ic' = [ic EXCEPT ![s].valid = FALSE, ![s].type = "none",
                      ![s].holder = Nobody]
  /\ lost' = [j \in Inums |->
                lost[j] + Cardinality({n \in Names : di[i].ents[n] = j})]
  /\ Goes(p, [phase |-> "drop"])
  /\ UNCHANGED <<cwd, ofile, calls, fault>>

\* ip->ref--.  An entry without references is dead until iget() recycles it.
IputDrop(p) ==
  LET s == Head(proc[p].put) IN
  /\ proc[p].phase = "drop"
  /\ ic' = [ic EXCEPT ![s] = IF @.ref = 1 THEN EmptySlot
                             ELSE [@ EXCEPT !.ref = @ - 1]]
  /\ Goes(p, [phase |-> "lock", put |-> Tail(proc[p].put)])
  /\ UNCHANGED <<di, cwd, ofile, calls, lost, fault>>

-----------------------------------------------------------------------------
(* System calls begin, and namex().                                        *)

\* The first entry that namex() looks in, and the cache with a reference.
StartSlot(p, path) ==
  IF Head(path) = "/" THEN IgetSlot(ic, ROOTINO) ELSE cwd[p]
Elements(path) == IF Head(path) = "/" THEN Tail(path) ELSE path

\* begin_op(), and namei() or nameiparent() of the first path.
Begin(p, c) ==
  LET s == StartSlot(p, c.path) IN
  /\ At(p, "idle") /\ calls < MaxCalls
  /\ calls' = calls + 1
  /\ ic' = IF Head(c.path) = "/" THEN Iget(ic, ROOTINO) ELSE Idup(ic, s)
  /\ Goes(p, [pc |-> "walk", path |-> Elements(c.path), ip |-> s, call |-> c,
              ret |-> c.sys])
  /\ UNCHANGED <<di, cwd, ofile, lost, fault>>

\* fileclose() of the last descriptor of an open file.
Close(p) ==
  /\ At(p, "idle") /\ ofile[p] # 0
  /\ Goes(p, [put |-> <<ofile[p]>>])
  /\ ofile' = [ofile EXCEPT ![p] = 0]
  /\ UNCHANGED <<di, ic, cwd, calls, lost, fault>>

\* nameiparent(): stop one level early.
Parent(p) == proc[p].ret \in {"link2", "unlink", "create", "mkdir", "mknod"}

\* The call is over but for the references it still drops.
Returns(p, refs) == proc' = [proc EXCEPT ![p] = [AtRest EXCEPT !.put = refs]]

\* Mutant: the directory where the search ended is not put.
FailsKeeping(p, refs) ==
  IF proc[p].ret = "link2" THEN Goes(p, [pc |-> "linkbad", ip |-> 0])
  ELSE Returns(p, <<>>)

\* namei() returns 0 and the call fails; link() first undoes its count.
Fails(p, refs) ==
  IF proc[p].ret = "link2" THEN Goes(p, [pc |-> "linkbad", ip |-> 0, put |-> refs])
  ELSE Returns(p, refs)

\* Mutant: the walk goes on with the directory still locked.
WalkHolding(p) ==
  LET q == proc[p]
      s == q.ip
      i == Entries(s)[Head(q.path)]
      c == Iget(Ilock(ic, s, p), i)
  IN
  /\ At(p, "walk") /\ CanLock(s) /\ i # 0
  /\ ic' = IF Parent(p) /\ Len(q.path) = 1 THEN Iread(ic, s) ELSE c
  /\ Goes(p, IF Parent(p) /\ Len(q.path) = 1 THEN [pc |-> q.ret]
             ELSE [pc |-> IF Len(q.path) = 1 THEN q.ret ELSE "walk",
                   path |-> Tail(q.path), ip |-> IgetSlot(ic, i)])
  /\ UNCHANGED <<di, cwd, ofile, calls, lost, fault>>

\* One round of the loop of namex().
Walk(p) ==
  LET q == proc[p]
      s == q.ip
      n == Head(q.path)
      c == Iread(ic, s)
      i == Entries(s)[n]
  IN
  /\ At(p, "walk") /\ CanLock(s)
  /\ IF TypeIn(s) # "dir" \/ (i = 0 /\ ~(Parent(p) /\ Len(q.path) = 1))
     THEN /\ ic' = c
          /\ Fails(p, <<s>>)
     ELSE IF Parent(p) /\ Len(q.path) = 1
     THEN /\ ic' = c
          /\ Goes(p, [pc |-> q.ret])
     ELSE /\ ic' = Iget(c, i)
          /\ Goes(p, [pc |-> IF Len(q.path) = 1 THEN q.ret ELSE "walk",
                      path |-> Tail(q.path), ip |-> IgetSlot(c, i),
                      put |-> <<s>>])
  /\ UNCHANGED <<di, cwd, ofile, calls, lost, fault>>

\* The entry whose lock p's next step acquires, 0 if none.
Wanted(p) ==
  LET q == proc[p] IN
  CASE q.put # <<>> -> IF q.phase = "lock" THEN Head(q.put) ELSE 0
    [] q.put = <<>> /\ q.pc \in {"walk", "open", "chdir", "link", "link2",
                               "unlink", "create", "mkdir", "mknod"} -> q.ip
    [] q.put = <<>> /\ q.pc \in {"unlink2", "create2", "linkbad"} -> q.other
    [] OTHER -> 0

\* panic("ilock: no type").
IlockPanic(p) ==
  /\ proc[p].put = <<>> /\ Wanted(p) # 0
  /\ ic[Wanted(p)].holder = Nobody /\ TypeIn(Wanted(p)) = "none"
  /\ fault' = "ilock: no type"
  /\ UNCHANGED <<di, ic, proc, cwd, ofile, calls, lost>>

-----------------------------------------------------------------------------
(* sys_open() without O_CREATE, and sys_chdir().                           *)

\* The end of sys_open(): a file for the inode, which is put if none is left.
Opened(p, s) ==
  /\ ofile' = [ofile EXCEPT ![p] = IF @ = 0 THEN s ELSE @]
  /\ Returns(p, IF ofile[p] = 0 THEN <<>> ELSE <<s>>)

Open(p) ==
  /\ At(p, "open") /\ CanLock(proc[p].ip)
  /\ ic' = Iread(ic, proc[p].ip)
  /\ Opened(p, proc[p].ip)
  /\ UNCHANGED <<di, cwd, calls, lost, fault>>

Chdir(p) ==
  LET s == proc[p].ip IN
  /\ At(p, "chdir") /\ CanLock(s)
  /\ ic' = Iread(ic, s)
  /\ Returns(p, <<IF TypeIn(s) = "dir" THEN cwd[p] ELSE s>>)
  /\ cwd' = [cwd EXCEPT ![p] = IF TypeIn(s) = "dir" THEN s ELSE @]
  /\ UNCHANGED <<di, ofile, calls, lost, fault>>

-----------------------------------------------------------------------------
(* sys_link().                                                             *)

\* nlink changes by k, in memory and, by iupdate(), on disk.
Relinked(s, k, c) ==
  /\ ic' = [c EXCEPT ![s].nlink = @ + k]
  /\ di' = Iupdate(di, ic', s)

\* Count the new link of ip, then find the directory for it.
LinkCount(p) ==
  LET s == proc[p].ip
      to == proc[p].call.new
      c == Iread(ic, s)
      d == StartSlot(p, to)
  IN
  /\ At(p, "link") /\ CanLock(s)
  /\ IF TypeIn(s) = "dir"
     THEN ic' = c /\ Returns(p, <<s>>) /\ UNCHANGED di
     ELSE /\ Relinked(s, 1, IF Head(to) = "/" THEN Iget(c, ROOTINO) ELSE Idup(c, d))
          /\ Goes(p, [pc |-> "walk", path |-> Elements(to), ip |-> d,
                      other |-> s, ret |-> "link2"])
  /\ UNCHANGED <<cwd, ofile, calls, lost, fault>>

\* dirlink(): fails, with an iput() under dp's lock, if the name is taken.
LinkEnter(p) ==
  LET q == proc[p]
      d == q.ip
      n == Head(q.path)
      i == Entries(d)[n]
      c == Ilock(ic, d, p)
  IN
  /\ At(p, "link2") /\ CanLock(d)
  /\ IF i # 0
     THEN /\ ic' = Iget(c, i)
          /\ Goes(p, [pc |-> "linktaken", put |-> <<IgetSlot(c, i)>>])
          /\ UNCHANGED di
     ELSE /\ ic' = Iunlock(c, d)
          /\ di' = [di EXCEPT ![ic[d].inum].ents[n] = ic[q.other].inum]
          /\ Returns(p, <<d, q.other>>)
  /\ UNCHANGED <<cwd, ofile, calls, lost, fault>>

LinkTaken(p) ==
  /\ At(p, "linktaken")
  /\ ic' = Iunlock(ic, proc[p].ip)
  /\ Goes(p, [pc |-> "linkbad", ip |-> 0, put |-> <<proc[p].ip>>])
  /\ UNCHANGED <<di, cwd, ofile, calls, lost, fault>>

\* bad: take the count back.
LinkBad(p) ==
  LET s == proc[p].other IN
  /\ At(p, "linkbad") /\ CanLock(s)
  /\ Relinked(s, -1, Iread(ic, s))
  /\ Returns(p, <<s>>)
  /\ UNCHANGED <<cwd, ofile, calls, lost, fault>>

-----------------------------------------------------------------------------
(* sys_unlink().                                                           *)

\* Lock dp and look the name up.
UnlinkFind(p) ==
  LET q == proc[p]
      d == q.ip
      n == Head(q.path)
      i == Entries(d)[n]
      c == Ilock(ic, d, p)
  IN
  /\ At(p, "unlink") /\ CanLock(d)
  /\ IF n \in Dots \/ i = 0
     THEN ic' = Iunlock(c, d) /\ Returns(p, <<d>>)
     ELSE /\ ic' = Iget(c, i)
          /\ Goes(p, [pc |-> "unlink2", other |-> IgetSlot(c, i)])
  /\ UNCHANGED <<di, cwd, ofile, calls, lost, fault>>

IsDirEmpty(s) == \A n \in Names : Entries(s)[n] = 0

\* Mutant: the entry of a directory does not count as a link of its parent.
ParentLinksKept(s) == 0

\* dp->nlink--, for the ".." of the removed directory.
ParentLinks(s) == IF TypeIn(s) = "dir" THEN 1 ELSE 0

\* With dp locked, lock ip; erase the entry, iunlockput(dp) keeping ip locked.
UnlinkErase(p) ==
  LET q == proc[p]
      d == q.ip
      s == q.other
      c == Ilock(ic, s, p)
      e == [c EXCEPT ![d].nlink = @ - ParentLinks(s)]
  IN
  /\ At(p, "unlink2") /\ CanLock(s)
  /\ IF c[s].nlink < 1
     THEN fault' = "unlink: nlink < 1" /\ UNCHANGED <<di, ic, proc>>
     ELSE IF TypeIn(s) = "dir" /\ ~IsDirEmpty(s)
     THEN /\ ic' = Iunlock(c, s)
          /\ Goes(p, [pc |-> "unlinkbad", other |-> 0, put |-> <<s>>])
          /\ UNCHANGED <<di, fault>>
     ELSE /\ ic' = Iunlock(e, d)
          /\ di' = [Iupdate(di, e, d) EXCEPT ![ic[d].inum].ents[Head(q.path)] = 0]
          /\ Goes(p, [pc |-> "unlink3", ip |-> 0, put |-> <<d>>])
          /\ UNCHANGED fault
  /\ UNCHANGED <<cwd, ofile, calls, lost>>

\* ip->nlink--, iupdate(ip) and iunlockput(ip).
UnlinkCount(p) ==
  LET s == proc[p].other IN
  /\ At(p, "unlink3")
  /\ Relinked(s, -1, Iunlock(ic, s))
  /\ Returns(p, <<s>>)
  /\ UNCHANGED <<cwd, ofile, calls, lost, fault>>

\* bad: iunlockput(dp).
UnlinkBad(p) ==
  /\ At(p, "unlinkbad")
  /\ ic' = Iunlock(ic, proc[p].ip)
  /\ Returns(p, <<proc[p].ip>>)
  /\ UNCHANGED <<di, cwd, ofile, calls, lost, fault>>

-----------------------------------------------------------------------------
(* create(), for open(O_CREATE), mkdir() and mknod().                      *)

NewType(p) ==
  CASE proc[p].call.sys = "create" -> "file"
    [] proc[p].call.sys = "mkdir" -> "dir"
    [] proc[p].call.sys = "mknod" -> "dev"

\* The first free inode on disk: ialloc().
Free == {i \in Inums : di[i].type = "none"}

\* Lock dp.  A name that exists is looked at with dp released.
CreateFind(p) ==
  LET q == proc[p]
      d == q.ip
      i == Entries(d)[Head(q.path)]
      c == Iread(ic, d)
  IN
  /\ At(p, q.call.sys) /\ q.call.sys \in {"create", "mkdir", "mknod"}
  /\ CanLock(d) /\ i # 0
  /\ ic' = Iget(c, i)
  /\ Goes(p, [pc |-> "create2", ip |-> 0, other |-> IgetSlot(c, i), put |-> <<d>>])
  /\ UNCHANGED <<di, cwd, ofile, calls, lost, fault>>

NewEntries(t, i, d) ==
  IF t = "dir" THEN [NoEntries EXCEPT !["."] = i, ![".."] = d] ELSE NoEntries

\* A new inode, its dots and its entry; iunlockput(dp) keeping ip locked.
CreateNew(p) ==
  LET q == proc[p]
      d == q.ip
      n == Head(q.path)
      t == NewType(p)
      i == Min(Free)
      c == Iget(Ilock(ic, d, p), i)
      s == IgetSlot(Ilock(ic, d, p), i)
      e == [c EXCEPT ![s].holder = p, ![s].valid = TRUE, ![s].type = t,
                     ![s].nlink = 1, ![d].nlink = @ + (IF t = "dir" THEN 1 ELSE 0)]
  IN
  /\ At(p, q.call.sys) /\ q.call.sys \in {"create", "mkdir", "mknod"}
  /\ CanLock(d) /\ Entries(d)[n] = 0
  /\ IF Free = {}
     THEN /\ fault' = "ialloc: no inodes"
          /\ UNCHANGED <<di, ic, proc>>
     ELSE /\ ic' = Iunlock(e, d)
          /\ di' = [Iupdate(di, e, d) EXCEPT
                      ![i] = [type |-> t, nlink |-> 1,
                              ents |-> NewEntries(t, i, ic[d].inum)],
                      ![ic[d].inum].ents[n] = i]
          /\ Goes(p, [pc |-> "created", ip |-> 0, other |-> s, put |-> <<d>>])
          /\ UNCHANGED fault
  /\ UNCHANGED <<cwd, ofile, calls, lost>>

\* The name exists: good only for open() of a file.
CreateOld(p) ==
  LET s == proc[p].other IN
  /\ At(p, "create2") /\ CanLock(s)
  /\ ic' = Iread(ic, s)
  /\ IF NewType(p) = "file" /\ TypeIn(s) = "file" THEN Opened(p, s)
     ELSE Returns(p, <<s>>) /\ UNCHANGED ofile
  /\ UNCHANGED <<di, cwd, calls, lost, fault>>

\* create() returned a new inode: open() keeps it, the others let it go.
Created(p) ==
  LET s == proc[p].other IN
  /\ At(p, "created")
  /\ ic' = Iunlock(ic, s)
  /\ IF NewType(p) = "file" THEN Opened(p, s)
     ELSE Returns(p, <<s>>) /\ UNCHANGED ofile
  /\ UNCHANGED <<di, cwd, calls, lost, fault>>

Step(p) ==
  \/ \E c \in Calls : Begin(p, c)
  \/ Close(p) \/ Walk(p) \/ IlockPanic(p)
  \/ IputLock(p) \/ IputFree(p) \/ IputDrop(p)
  \/ Open(p) \/ Chdir(p)
  \/ LinkCount(p) \/ LinkEnter(p) \/ LinkTaken(p) \/ LinkBad(p)
  \/ UnlinkFind(p) \/ UnlinkErase(p) \/ UnlinkCount(p) \/ UnlinkBad(p)
  \/ CreateFind(p) \/ CreateNew(p) \/ CreateOld(p) \/ Created(p)

Next == \E p \in Procs : fault = "none" /\ Step(p)

Spec == Init /\ [][Next]_ivars

-----------------------------------------------------------------------------
(* Properties.                                                             *)

\* The state keeps its shape; only directories have entries.
TypeOK ==
  /\ di \in [Inums -> [type : {"none", "dir", "file", "dev"}, nlink : Nat,
                       ents : [Names \cup Dots -> 0 .. NINODES]]]
  /\ ic \in [Slots -> [inum : 0 .. NINODES, ref : Nat, valid : BOOLEAN,
                       holder : Procs \cup {Nobody},
                       type : {"none", "dir", "file", "dev"}, nlink : Nat]]
  /\ \A i \in Inums : di[i].type # "dir" => di[i].ents = NoEntries
  /\ cwd \in [Procs -> Slots] /\ ofile \in [Procs -> Slots \cup {0}]
  /\ lost \in [Inums -> Nat]

\* References to entry s that process p holds.
Held(p, s) ==
  LET one(b) == IF b THEN 1 ELSE 0 IN
  one(cwd[p] = s) + one(ofile[p] = s) + one(proc[p].ip = s) + one(proc[p].other = s)
    + Cardinality({k \in DOMAIN proc[p].put : proc[p].put[k] = s})

\* "ip->ref tracks the number of in-memory pointers to the entry" (fs.c): an
\* error path of link(), unlink(), create() or open() that forgets an iput(),
\* or does it twice, breaks this.
RefsCounted ==
  \A s \in Slots : ic[s].ref = MapThenSumSet(LAMBDA p : Held(p, s), Procs)

\* iget() never makes two entries for one inode, whose locks and link counts
\* would then go separate ways.
OneSlotPerInode ==
  \A s, t \in Slots :
    ic[s].ref > 0 /\ ic[t].ref > 0 /\ ic[s].inum = ic[t].inum => s = t

\* A valid entry that nobody has locked agrees with the inode on disk: every
\* change was followed by iupdate() before iunlock().
CachedMatchesDisk ==
  \A s \in Slots : ic[s].ref > 0 /\ ic[s].valid /\ ic[s].holder = Nobody =>
    ic[s].type = di[ic[s].inum].type /\ ic[s].nlink = di[ic[s].inum].nlink

\* The inode cache agrees with the disk and with the pointers that processes
\* have into it, at every step of the path system calls and their error paths.
InodesConsistent ==
  /\ TypeOK
  /\ RefsCounted
  /\ OneSlotPerInode
  /\ CachedMatchesDisk

\* Entries, other than dots, that name inode i.
NamesOf(i) == {e \in Inums \X Names : di[e[1]].ents[e[2]] = i}
SubDirs(i) == {n \in Names : di[i].ents[n] # 0 /\ di[di[i].ents[n]].type = "dir"}
\* Links in flight: link() has counted what it has not entered, unlink() has
\* erased what it has not counted.
InFlight(i) ==
  {p \in Procs : /\ proc[p].pc \in {"linkbad", "linktaken", "unlink3"}
                      \/ proc[p].ret = "link2"
                 /\ proc[p].other # 0 /\ ic[proc[p].other].inum = i}

\* The link count of an inode is the number of entries that name it, of the
\* ".." entries of its subdirectories, one for the root, and of the links that
\* link() and unlink() are in the middle of: in every interleaving of them.
LinksCounted ==
  fault = "none" => \A i \in Inums : di[i].type # "none" =>
    di[i].nlink = (IF i = ROOTINO THEN 1 ELSE 0) + lost[i] + Cardinality(NamesOf(i))
                    + Cardinality(SubDirs(i)) + Cardinality(InFlight(i))

\* A name always leads to an allocated inode, although unlink() frees inodes
\* while others walk the tree, and no two directories name one directory.
NoDanglingName ==
  \A i \in Inums :
    /\ NamesOf(i) # {} => di[i].type # "none"
    /\ di[i].type = "dir" => Cardinality(NamesOf(i)) <= 1

\* An inode without links is allocated only while somebody refers to it: the
\* last iput() frees it, whoever that is.
NoLeakedInode ==
  \A i \in Inums : di[i].type # "none" /\ di[i].nlink = 0 =>
    \E s \in Slots : ic[s].ref > 0 /\ ic[s].inum = i

\* iput() frees no inode that somebody still uses.  The one way to refer to a
\* free inode, and to panic in ilock(), is the ".." of a directory that was
\* removed while it was some process's current directory.
UsedStaysAllocated ==
  \A p \in Procs : \A s \in {cwd[p], ofile[p], proc[p].ip, proc[p].other} \ {0} :
    di[ic[s].inum].type = "none" =>
      \E d \in Inums : /\ di[d].type = "dir" /\ NamesOf(d) = {}
                       /\ di[d].ents[".."] = ic[s].inum

\* Neither a name nor a process is left with an inode that iput() freed.
NothingUsedIsFree ==
  /\ NoDanglingName
  /\ UsedStaysAllocated

\* "The separation also helps avoid deadlock and races during pathname lookup"
\* (fs.c): the locks that ilock() takes never form a cycle, parents before
\* children.  Two processes can wait for each other only through the lock that
\* iput() takes of its own on the directory, while the caller, a create() or an
\* unlink(), still holds the inode below it.
CyclesThroughIput ==
  \A p, q \in Procs :
    /\ Wanted(p) # 0 /\ Wanted(q) # 0
    /\ ic[Wanted(p)].holder = q /\ ic[Wanted(q)].holder = p
    => \E r \in {p, q} : proc[r].put # <<>>
=============================================================================
