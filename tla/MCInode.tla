------------------------------ MODULE MCInode -------------------------------
(* An instance of Inode: directories /a and /a/a and file /b.             *)
EXTENDS Inode

MCTree ==
  1 :> [parent |-> 1, name |-> "/", type |-> "dir"] @@
  2 :> [parent |-> 1, name |-> "a", type |-> "dir"] @@
  3 :> [parent |-> 2, name |-> "a", type |-> "dir"] @@
  4 :> [parent |-> 1, name |-> "b", type |-> "file"]

Sym == Permutations(Procs)

Of(sys, path) == [sys |-> sys, path |-> path]

\* Each call meets every outcome: the name is there or not, the directory is
\* empty, full, removed, the current one or another process's.
MCCalls ==
  {Of("open", <<"/", "b">>), Of("unlink", <<"/", "b">>),
   Of("unlink", <<"/", "a", "a">>), Of("unlink", <<"/", "a">>),
   Of("create", <<"/", "b">>), Of("mkdir", <<"b">>), Of("mknod", <<"b">>),
   Of("chdir", <<"..">>), Of("chdir", <<"/", "b">>),
   [sys |-> "link", path |-> <<"/", "a">>, new |-> <<"b">>],
   [sys |-> "link", path |-> <<"/", "b">>, new |-> <<"b">>]}
=============================================================================
