------------------------------ MODULE MCFiles -------------------------------
(***************************************************************************)
(* The file system in one run: part says which component a behaviour       *)
(* exercises (names and inodes, the content of files, or the program that  *)
(* makes the first image); the others stay as they were.                   *)
(***************************************************************************)
EXTENDS MCInode, Content, Mkfs

VARIABLE part

\* No component tells its processes, inodes or open files apart.
FilesSym ==
  Sym \cup Permutations(Writers) \cup Permutations(Inodes) \cup Permutations(OpenFiles)

FilesInit ==
  /\ part \in {"inode", "content", "mkfs"}
  /\ Init /\ ContentInit /\ MkfsInit

FilesNext ==
  \/ part = "inode" /\ Next /\ UNCHANGED <<contentVars, mkfsVars, part>>
  \/ part = "content" /\ ContentNext /\ UNCHANGED <<ivars, mkfsVars, part>>
  \/ part = "mkfs" /\ MkfsNext /\ UNCHANGED <<ivars, contentVars, part>>

FilesSpec == FilesInit /\ [][FilesNext]_<<ivars, contentVars, mkfsVars, part>>
=============================================================================
