-------------------------------- MODULE Mkfs --------------------------------
(***************************************************************************)
(* mkfs.c: the file system image that the kernel boots from.  A byte of an *)
(* inode's content is the pair of the inode and the offset; names, which   *)
(* the kernel's layout does not depend on, are left out.  The files given  *)
(* are supposed to fit into the image: mkfs does not test that.            *)
(***************************************************************************)
EXTENDS Integers, FiniteSets, FiniteSetsExt

CONSTANTS
  NMETA,        \* blocks in front of the data: boot, super, log, inodes, bitmap
  NDATA,        \* data blocks
  MKBSIZE, MKNDIRECT, MKNINDIRECT,   \* BSIZE, NDIRECT and NINDIRECT
  DIRENT,       \* sizeof(struct dirent)
  FileSizes,    \* sizes of the files given
  MaxFiles      \* bound: how many files are given

VARIABLES
  dinode,       \* the inodes written so far
  indirect,     \* the indirect block of each
  image,        \* the data blocks
  freeblock,
  entries,      \* inodes that the root directory names
  bitmap,
  stage         \* "start", "files", "done", "abort"

mkfsVars == <<dinode, indirect, image, freeblock, entries, bitmap, stage>>

RootInum == 1
MKMAXFILE == MKNDIRECT + MKNINDIRECT
NewInums == 1 .. MaxFiles + 1
Data == NMETA .. NMETA + NDATA - 1

NoDinode == [type |-> "none", size |-> 0, addrs |-> [i \in 0 .. MKNDIRECT |-> 0]]

MkfsInit ==
  /\ dinode = [i \in NewInums |-> NoDinode]
  /\ indirect = [i \in NewInums |-> [k \in 0 .. MKNINDIRECT - 1 |-> 0]]
  /\ image = [b \in Data |-> [k \in 0 .. MKBSIZE - 1 |-> <<0, 0>>]]
  /\ freeblock = NMETA /\ entries = << >> /\ bitmap = {} /\ stage = "start"

Disk == [dinode |-> dinode, indirect |-> indirect, image |-> image, free |-> freeblock,
         ok |-> TRUE]
WriteDisk(d) ==
  /\ dinode' = d.dinode /\ indirect' = d.indirect /\ image' = d.image /\ freeblock' = d.free

\* The next inode gets a type; its size is 0.
Ialloc(d, inum, type) == [d EXCEPT !.dinode[inum].type = type]

\* Mutant: the pointer to the indirect block is taken for a direct one.
IsDirectLate(fbn) == fbn <= MKNDIRECT

IsDirect(fbn) == fbn < MKNDIRECT

\* min(n, (fbn + 1) * BSIZE - off).
Piece(n, off) == Min({n, (off \div MKBSIZE + 1) * MKBSIZE - off})

\* Block fbn of inum, allocated as far as it is missing.
Mapped(d, inum, fbn) ==
  LET a == d.dinode[inum].addrs
      ind == IF a[MKNDIRECT] = 0
             THEN [d EXCEPT !.dinode[inum].addrs[MKNDIRECT] = d.free, !.free = @ + 1] ELSE d
  IN IF IsDirect(fbn)
     THEN IF a[fbn] # 0 THEN d
          ELSE [d EXCEPT !.dinode[inum].addrs[fbn] = d.free, !.free = @ + 1]
     ELSE IF ind.indirect[inum][fbn - MKNDIRECT] # 0 THEN ind
          ELSE [ind EXCEPT !.indirect[inum][fbn - MKNDIRECT] = ind.free, !.free = @ + 1]

BlockOf(d, inum, fbn) ==
  IF IsDirect(fbn) THEN d.dinode[inum].addrs[fbn] ELSE d.indirect[inum][fbn - MKNDIRECT]

\* iappend() of n bytes; assert(fbn < MKMAXFILE) ends the program.
RECURSIVE Iappend(_, _, _)
Iappend(d, inum, n) ==
  LET off == d.dinode[inum].size
      fbn == off \div MKBSIZE
      n1 == Piece(n, off)
      m == Mapped(d, inum, fbn)
      x == BlockOf(m, inum, fbn)
      start == off % MKBSIZE
      block == [k \in 0 .. MKBSIZE - 1 |->
                  IF k \in start .. start + n1 - 1 THEN <<inum, off + k - start>> ELSE m.image[x][k]]
  IN IF n = 0 \/ ~d.ok THEN d
     ELSE IF fbn >= MKMAXFILE THEN [d EXCEPT !.ok = FALSE]
     ELSE Iappend([m EXCEPT !.image[x] = block, !.dinode[inum].size = off + n1], inum, n - n1)

\* The content of a file, read and appended by up to BSIZE bytes.
RECURSIVE AppendContent(_, _, _)
AppendContent(d, inum, n) ==
  IF n = 0 THEN d
  ELSE AppendContent(Iappend(d, inum, Min({n, MKBSIZE})), inum, n - Min({n, MKBSIZE}))

-----------------------------------------------------------------------------

\* The root directory with . and .. .
MakeRoot ==
  /\ stage = "start"
  /\ WriteDisk(Iappend(Iappend(Ialloc(Disk, RootInum, "T_DIR"), RootInum, DIRENT), RootInum, DIRENT))
  /\ entries' = <<RootInum, RootInum>>
  /\ stage' = "files"
  /\ UNCHANGED bitmap

\* A file: its inode, its directory entry, its content.
AddFile(n) ==
  LET inum == Cardinality(DOMAIN entries)
      d == AppendContent(Iappend(Ialloc(Disk, inum, "T_FILE"), RootInum, DIRENT), inum, n)
  IN
  /\ stage = "files" /\ inum \in NewInums
  /\ WriteDisk(d)
  /\ entries' = [k \in 1 .. inum + 1 |-> IF k = inum + 1 THEN inum ELSE entries[k]]
  /\ stage' = IF d.ok THEN "files" ELSE "abort"
  /\ UNCHANGED bitmap

\* balloc(used).
Marked(used) == 0 .. used - 1

\* The size of the root directory goes up to the next block; balloc().
Finish ==
  /\ stage = "files"
  /\ dinode' = [dinode EXCEPT ![RootInum].size = (@ \div MKBSIZE + 1) * MKBSIZE]
  /\ bitmap' = Marked(freeblock)
  /\ stage' = "done"
  /\ UNCHANGED <<indirect, image, freeblock, entries>>

MkfsNext == MakeRoot \/ (\E n \in FileSizes : AddFile(n)) \/ Finish

MkfsSpec == MkfsInit /\ [][MkfsNext]_mkfsVars

-----------------------------------------------------------------------------
(* Properties.                                                             *)

\* Where bmap() of the kernel looks for block fbn.
KernelBlock(i, fbn) ==
  IF fbn < MKNDIRECT THEN dinode[i].addrs[fbn] ELSE indirect[i][fbn - MKNDIRECT]

\* The kernel reads back what was appended: every offset of every file and of the
\* directory lies in the block that bmap() will find, behind what was appended before.
FilesReadBack ==
  \A i \in NewInums :
    LET len == IF i = RootInum THEN Cardinality(DOMAIN entries) * DIRENT ELSE dinode[i].size IN
    /\ len <= dinode[i].size
    /\ stage # "abort" =>
         \A off \in 0 .. len - 1 :
           LET b == KernelBlock(i, off \div MKBSIZE)
           IN b \in Data /\ image[b][off % MKBSIZE] = <<i, off>>

\* The bitmap marks exactly the blocks in front of the data and those that some
\* inode uses, each of them once.
BitmapExact ==
  LET uses(i) == {<<i, "addrs", k, dinode[i].addrs[k]>> : k \in 0 .. MKNDIRECT}
                   \cup {<<i, "indirect", k, indirect[i][k]>> : k \in DOMAIN indirect[i]}
      all == {u \in UNION {uses(i) : i \in NewInums} : u[4] # 0}
  IN stage = "done" =>
       /\ bitmap = 0 .. NMETA - 1 \cup {u[4] : u \in all}
       /\ \A u, v \in all : u[4] = v[4] => u = v

\* mkfs builds the image that the kernel's readi() and balloc() expect.
ImageExact ==
  /\ FilesReadBack
  /\ BitmapExact
=============================================================================
