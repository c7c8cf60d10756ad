------------------------------ MODULE Content -------------------------------
(***************************************************************************)
(* File content: the block bitmap, bmap(), readi(), writei() and itrunc()  *)
(* of fs.c, and fileread() and filewrite() of file.c.                      *)
(*                                                                         *)
(* A block is BSIZE words, of data or of block numbers; readi() and        *)
(* writei() move words one by one where the code moves the part of a block *)
(* at once.  The operators take a file system record to the next one.      *)
(***************************************************************************)
EXTENDS Integers, Sequences, FiniteSets, FiniteSetsExt, SequencesExt

CONSTANTS
  Writers,      \* processes; each writes words of its own, its number
  OpenFiles,    \* open files, shared between processes
  Inodes,
  NBLOCKS,      \* data blocks
  BSIZE,        \* words in a block
  NDIRECT,
  MAXOPBLOCKS,
  UINTMOD,      \* 2^32 in the code
  WriteLengths, \* lengths of writes
  ReadLengths,  \* and of reads
  ExecOffsets,  \* offsets that exec() takes from an ELF file
  MaxWrites     \* bound: calls of filewrite()

NINDIRECT == BSIZE
MAXFILE == NDIRECT + NINDIRECT
Blocks == 1 .. NBLOCKS
INODES == 0             \* the blocks that hold the inodes and the bitmap
BITMAP == NBLOCKS + 1
Zeros == [k \in 0 .. BSIZE - 1 |-> 0]
NewInode == [size |-> 0, addrs |-> [k \in 0 .. NDIRECT |-> 0]]

Nothing == [from |-> 0, words |-> <<>>]

ASSUME ContentAssumption ==
  /\ NBLOCKS > 0 /\ BSIZE > 0 /\ NDIRECT > 0 /\ MAXOPBLOCKS >= 6
  /\ UINTMOD > MAXFILE * BSIZE /\ 0 \notin Writers

VARIABLES
  fs,           \* bitmap, blocks, inodes in memory (ino) and on disk (dino)
  file,         \* ftable: the inode of an open file, 0 if closed, and f->off
  job,          \* each process's filewrite(): its file, 0 if none, and n - i
  writes,       \* calls of filewrite() so far
  reply         \* what the last step read, and from where

contentVars == <<fs, file, job, writes, reply>>

ContentInit ==
  /\ fs = [used |-> {}, blk |-> [b \in Blocks |-> Zeros],
           ino |-> [i \in Inodes |-> NewInode], dino |-> [i \in Inodes |-> NewInode],
           got |-> 0, logged |-> {}, panic |-> "none"]
  /\ file = [f \in OpenFiles |-> [ip |-> 0, off |-> 0]]
  /\ job = [p \in Writers |-> [file |-> 0, n |-> 0]]
  /\ writes = 0
  /\ reply = Nothing

-----------------------------------------------------------------------------
(* Blocks.                                                                 *)

\* "Zero a block."
Bzero(d, b) == [d EXCEPT !.blk[b] = Zeros, !.logged = @ \cup {b}]

\* "Allocate a zeroed disk block": its number is left in got.
Balloc(d) ==
  LET b == Min(Blocks \ d.used) IN
  IF d.used = Blocks THEN [d EXCEPT !.panic = "balloc: out of blocks", !.got = 0]
  ELSE Bzero([d EXCEPT !.used = @ \cup {b}, !.got = b,
                       !.logged = @ \cup {BITMAP}], b)

\* "Free a disk block."
Bfree(d, b) ==
  IF b \in d.used THEN [d EXCEPT !.used = @ \ {b}, !.logged = @ \cup {BITMAP}]
  ELSE [d EXCEPT !.panic = "freeing free block"]

\* Write the inode to disk.
Iflush(d, i) == [d EXCEPT !.dino[i] = d.ino[i], !.logged = @ \cup {INODES}]

\* Word k of table, allocated if it is 0: ip->addrs[k] of inode i.
Direct(d, i, k) ==
  LET e == Balloc(d) IN
  IF d.ino[i].addrs[k] # 0 THEN [d EXCEPT !.got = d.ino[i].addrs[k]]
  ELSE [e EXCEPT !.ino[i].addrs[k] = e.got]

\* The same in the indirect block t.
Indirect(d, t, k) ==
  LET e == Balloc(d) IN
  IF d.panic # "none" THEN d
  ELSE IF d.blk[t][k] # 0 THEN [d EXCEPT !.got = d.blk[t][k]]
  ELSE [e EXCEPT !.blk[t][k] = e.got, !.logged = @ \cup {t}]

\* Mutant: off by one.
EntryOff(bn) == Max({0, bn - NDIRECT - 1})

\* bn -= NDIRECT.
Entry(bn) == bn - NDIRECT

\* "Return the disk block address of the nth block in inode ip.  If there is no
\* such block, bmap allocates one."
Bmap(d, i, bn) ==
  CASE bn < NDIRECT -> Direct(d, i, bn)
    [] bn >= NDIRECT /\ bn < MAXFILE ->
         LET e == Direct(d, i, NDIRECT) IN Indirect(e, e.got, Entry(bn))
    [] OTHER -> [d EXCEPT !.panic = "bmap: out of range"]

\* Mutant: the blocks of the indirect block stay allocated.
IndirectBlocksNone(d, i) == {}

\* The blocks that the indirect block of i lists.
IndirectBlocks(d, i) ==
  IF d.ino[i].addrs[NDIRECT] = 0 THEN {}
  ELSE Range(d.blk[d.ino[i].addrs[NDIRECT]]) \ {0}

\* "Truncate inode (discard contents)."
Itrunc(d, i) ==
  LET mine == (Range(d.ino[i].addrs) \ {0}) \cup IndirectBlocks(d, i) IN
  Iflush([FoldLeft(Bfree, d, SetToSeq(mine)) EXCEPT !.ino[i] = NewInode], i)

-----------------------------------------------------------------------------
(* readi() and writei().                                                   *)

Wraps(off, n) == (off + n) % UINTMOD < off

Readable(d, i, off, n) == off <= d.ino[i].size /\ ~Wraps(off, n)

\* The words that readi() copies, from blocks that bmap() finds.
Readi(d, i, off, n) ==
  LET m == Min({n, d.ino[i].size - off}) IN
  LET done[tot \in 0 .. m] ==
        IF tot = 0 THEN [fs |-> d, words |-> <<>>]
        ELSE LET r == done[tot - 1]
                 at == off + tot - 1
                 e == Bmap(r.fs, i, at \div BSIZE)
             IN IF e.panic # "none" THEN [r EXCEPT !.fs = e]
                ELSE [fs |-> e, words |-> Append(r.words, e.blk[e.got][at % BSIZE])]
  IN done[m]

Fits(off, n) == off + n <= MAXFILE * BSIZE

Writable(d, i, off, n) == off <= d.ino[i].size /\ ~Wraps(off, n) /\ Fits(off, n)

\* The size grows, and is written to disk with the addresses of the blocks.
Grown(d, i, end) ==
  IF end > d.ino[i].size THEN Iflush([d EXCEPT !.ino[i].size = end], i) ELSE d

Writei(d, i, off, n, v) ==
  LET done[tot \in 0 .. n] ==
        IF tot = 0 THEN [d EXCEPT !.logged = {}]
        ELSE LET at == off + tot - 1
                 e == Bmap(done[tot - 1], i, at \div BSIZE)
             IN IF e.panic # "none" THEN e
                ELSE [e EXCEPT !.blk[e.got][at % BSIZE] = v,
                               !.logged = @ \cup {e.got}]
  IN IF done[n].panic # "none" THEN done[n] ELSE Grown(done[n], i, off + n)

-----------------------------------------------------------------------------
(* Files.                                                                  *)

Idle(f) == \A p \in Writers : job[p].file # f

\* sys_open() of inode i.
OpenFile(f, i) ==
  /\ file[f].ip = 0
  /\ file' = [file EXCEPT ![f] = [ip |-> i, off |-> 0]]
  /\ reply' = Nothing /\ UNCHANGED <<fs, job, writes>>

\* No other file is open on the inode: iput() has the last reference.
LastOpen(f) == \A g \in OpenFiles \ {f} : file[g].ip # file[f].ip

\* The last close of f.  When no other file is open on the inode and it has no
\* links, iput() truncates it.
CloseFile(f) ==
  LET i == file[f].ip IN
  /\ i # 0 /\ Idle(f)
  /\ file' = [file EXCEPT ![f] = [ip |-> 0, off |-> 0]]
  /\ \/ UNCHANGED fs
     \/ /\ LastOpen(f)
        /\ fs' = [Itrunc([fs EXCEPT !.logged = {}], i) EXCEPT !.got = 0]
  /\ reply' = Nothing /\ UNCHANGED <<job, writes>>

Filewrite(p, f, n) ==
  /\ job[p].file = 0 /\ file[f].ip # 0 /\ writes < MaxWrites
  /\ job' = [job EXCEPT ![p] = [file |-> f, n |-> n]]
  /\ writes' = writes + 1
  /\ reply' = Nothing /\ UNCHANGED <<fs, file>>

\* n1: "write a few blocks at a time to avoid exceeding the maximum log
\* transaction size".
Chunk(n) == Min({n, ((MAXOPBLOCKS - 1 - 1 - 2) \div 2) * BSIZE})

\* f->off += r.
Advanced(f, r) == [file EXCEPT ![f].off = @ + r]

\* One round of the loop, under the inode's lock.
FilewriteChunk(p) ==
  LET f == job[p].file
      i == file[f].ip
      n1 == Chunk(job[p].n)
  IN
  /\ f # 0
  /\ IF ~Writable(fs, i, file[f].off, n1)
     THEN job' = [job EXCEPT ![p] = [file |-> 0, n |-> 0]] /\ UNCHANGED <<fs, file>>
     ELSE /\ fs' = [Writei(fs, i, file[f].off, n1, p) EXCEPT !.got = 0]
          /\ file' = Advanced(f, IF fs'.panic = "none" THEN n1 ELSE 0)
          /\ job' = [job EXCEPT ![p] = IF @.n = n1 THEN [file |-> 0, n |-> 0]
                                       ELSE [@ EXCEPT !.n = @ - n1]]
  /\ reply' = Nothing /\ UNCHANGED writes

\* readi() of inode i.
Reads(i, off, n) ==
  LET r == Readi(fs, i, off, n) IN
  IF Readable(fs, i, off, n)
  THEN fs' = [r.fs EXCEPT !.got = 0] /\ reply' = [from |-> off, words |-> r.words]
  ELSE reply' = Nothing /\ UNCHANGED fs

Fileread(f, n) ==
  LET i == file[f].ip IN
  /\ i # 0
  /\ Reads(i, file[f].off, n)
  /\ file' = Advanced(f, Max({0, Min({n, fs.ino[i].size - file[f].off})}))
  /\ UNCHANGED <<job, writes>>

\* exec() and loaduvm() read where the program headers say.
ExecRead(i, off, n) ==
  /\ Reads(i, off, n)
  /\ UNCHANGED <<file, job, writes>>

ContentStep ==
  \/ \E f \in OpenFiles, i \in Inodes : OpenFile(f, i)
  \/ \E f \in OpenFiles : CloseFile(f)
  \/ \E f \in OpenFiles, n \in WriteLengths, p \in Writers : Filewrite(p, f, n)
  \/ \E p \in Writers : FilewriteChunk(p)
  \/ \E f \in OpenFiles, n \in ReadLengths : Fileread(f, n)
  \/ \E i \in Inodes, off \in ExecOffsets, n \in ReadLengths : ExecRead(i, off, n)

ContentNext == fs.panic = "none" /\ ContentStep

ContentSpec == ContentInit /\ [][ContentNext]_contentVars

-----------------------------------------------------------------------------
(* Properties.                                                             *)

\* The state keeps its shape; running out of blocks is the only panic.
ContentTypeOK ==
  /\ fs.used \subseteq Blocks
  /\ fs.panic \in {"none", "balloc: out of blocks"}
  /\ \A i \in Inodes : fs.ino[i].size \in 0 .. MAXFILE * BSIZE
  /\ file \in [OpenFiles -> [ip : Inodes \cup {0}, off : Nat]]

\* The blocks of inode i, one for every place that holds a block number.
Places(i) ==
  LET a == fs.ino[i].addrs
      t == a[NDIRECT]
  IN {<<i, k, a[k]>> : k \in {k \in 0 .. NDIRECT : a[k] # 0}} \cup
     (IF t = 0 THEN {}
      ELSE {<<i, NDIRECT + 1 + k, fs.blk[t][k]>> :
              k \in {k \in 0 .. NINDIRECT - 1 : fs.blk[t][k] # 0}})

\* Every block marked in the bitmap is in exactly one place of one inode, and
\* every block of an inode is marked: balloc(), bmap() and itrunc() neither
\* share nor lose a block.
BlocksOwnedOnce ==
  fs.panic = "none" =>
    LET all == UNION {Places(i) : i \in Inodes} IN
    /\ fs.used = {x[3] : x \in all}
    /\ \A x, y \in all : x[3] = y[3] => x = y

\* What a crash would leave is the inode in memory.  writei() calls iupdate()
\* only when the size grows, so this needs that no write inside the file
\* allocates a block.
InodeOnDisk == fs.panic = "none" => fs.dino = fs.ino

\* "to avoid exceeding the maximum log transaction size, including i-node,
\* indirect block, allocation blocks" (filewrite): every chunk stays inside
\* what begin_op() reserves.
FitsTransaction == Cardinality(fs.logged) <= MAXOPBLOCKS

\* The offset of an open file never lies beyond the end of the file, so a
\* write through a descriptor fails only for lack of room.
OffsetInFile ==
  \A f \in OpenFiles : file[f].ip # 0 => file[f].off <= fs.ino[file[f].ip].size

\* Bitmap, inodes and offsets agree after every piece of a filewrite(), and no
\* piece writes more than its transaction holds.
ContentConsistent ==
  /\ ContentTypeOK
  /\ BlocksOwnedOnce
  /\ InodeOnDisk
  /\ FitsTransaction
  /\ OffsetInFile

\* Word k of a file, 0 where it has no block.
WordAt(i, k) ==
  LET bn == k \div BSIZE
      a == fs.ino[i].addrs
      b == IF bn < NDIRECT THEN a[bn]
           ELSE IF a[NDIRECT] = 0 THEN 0 ELSE fs.blk[a[NDIRECT]][bn - NDIRECT]
  IN IF b \in Blocks THEN fs.blk[b][k % BSIZE] ELSE 0

Contents ==
  INSTANCE ByteFiles WITH
    Files <- Inodes, Values <- Writers, MaxSize <- MAXFILE * BSIZE,
    text <- [i \in Inodes |-> [k \in 1 .. fs.ino[i].size |-> WordAt(i, k - 1)]],
    answer <- reply

\* Files behave as sequences of words, whatever the blocks they are in held
\* before, and reads return what was written there last.
IsByteFiles == Contents!Spec
=============================================================================
