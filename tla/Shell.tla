------------------------------- MODULE Shell --------------------------------
(***************************************************************************)
(* File descriptors at work: the open file table of file.c, the descriptor *)
(* calls of sysfile.c, pipealloc() and pipeclose() of pipe.c, the part of  *)
(* fork(), exit() and wait() that deals with files, and the shell sh.c     *)
(* running commands through them.                                          *)
(*                                                                         *)
(* A process runs code: a sequence of system calls that runcmd() makes for *)
(* its command.  Reads and writes move one byte; that sleep() and wakeup() *)
(* lose no wakeup is the matter of Pipe, here a blocked call just waits.   *)
(***************************************************************************)
EXTENDS Integers, Sequences, FiniteSets, FiniteSetsExt, SequencesExt

CONSTANTS
  NPROC, NFILE,
  FdLimits,     \* NOFILE, one of these in a behaviour
  NPIPE,        \* bound: pages that kalloc() has for pipes
  PIPELEN,      \* PIPESIZE
  Commands,     \* what is typed at the prompt
  MaxCommands   \* bound: commands before end of file

Pids == 1 .. NPROC
FileIds == 1 .. NFILE
PipeIds == 1 .. NPIPE
SH == 1
InitRefs == 3           \* init's own descriptors of the console
CONSOLE == 1            \* the open file that init made of the console

\* Values that stand for p[0] and p[1] in the arguments of runcmd()'s calls.
P0 == 100
P1 == 101

Ins(op, n, code) == [op |-> op, n |-> n, code |-> code]
Call(op) == Ins(op, 0, <<>>)
CloseFd(n) == Ins("close", n, <<>>)
DupFd(n) == Ins("dup", n, <<>>)
Fork1(code) == Ins("fork", 0, code)

-----------------------------------------------------------------------------
(* runcmd().                                                               *)

\* Mutant: the parent keeps the write end.
PipeParentKeeps == <<CloseFd(P0)>>

\* What the parent closes after it has forked both sides of a pipe.
PipeParent == <<CloseFd(P0), CloseFd(P1)>>

RECURSIVE Runcmd(_)
Runcmd(cmd) ==
  CASE cmd.type = "EXEC" -> cmd.prog
    [] cmd.type = "REDIR" -> <<CloseFd(cmd.fd), Call("open")>> \o Runcmd(cmd.cmd)
    [] cmd.type = "LIST" ->
         <<Fork1(Runcmd(cmd.left)), Call("wait")>> \o Runcmd(cmd.right)
    [] cmd.type = "PIPE" ->
         <<Call("pipe"),
           Fork1(<<CloseFd(1), DupFd(P1), CloseFd(P0), CloseFd(P1)>>
                 \o Runcmd(cmd.left)),
           Fork1(<<CloseFd(0), DupFd(P0), CloseFd(P0), CloseFd(P1)>>
                 \o Runcmd(cmd.right))>>
         \o PipeParent \o <<Call("wait"), Call("wait"), Call("exit")>>
    [] cmd.type = "BACK" -> <<Fork1(Runcmd(cmd.cmd)), Call("exit")>>

\* Programs: write two bytes and exit; copy input to output; do nothing.
Yes == <<Call("put"), Call("put"), Call("exit")>>
Cat == <<Call("get")>>
True == <<Call("exit")>>

VARIABLES
  ftable,       \* open files
  pipe,         \* pipes
  task,         \* processes
  nofile,       \* NOFILE
  typed         \* commands typed so far

shellVars == <<ftable, pipe, task, nofile, typed>>

NoFile == [ref |-> 0, type |-> "FD_NONE", pipe |-> 0, writable |-> FALSE]
NoPipe == [used |-> FALSE, readopen |-> FALSE, writeopen |-> FALSE, n |-> 0]
NoTask == [state |-> "UNUSED", parent |-> 0, ofile |-> [fd \in {} |-> 0],
           code |-> <<>>, p |-> <<0, 0>>, new |-> <<0, 0>>, drop |-> <<>>,
           shut |-> <<>>]

Fds == 0 .. nofile - 1

\* sh, started by init with the console as descriptors 0, 1 and 2.
ShellInit ==
  /\ nofile \in FdLimits
  /\ ftable = [f \in FileIds |->
                 IF f # CONSOLE THEN NoFile
                 ELSE [NoFile EXCEPT !.ref = InitRefs + 3, !.type = "FD_INODE",
                                     !.writable = TRUE]]
  /\ pipe = [i \in PipeIds |-> NoPipe]
  /\ task = [t \in Pids |->
               IF t # SH THEN NoTask
               ELSE [NoTask EXCEPT !.state = "RUNNING", !.code = <<Call("main")>>,
                       !.ofile = [fd \in Fds |-> IF fd < 3 THEN CONSOLE ELSE 0]]]
  /\ typed = 0

-----------------------------------------------------------------------------
(* Files.                                                                  *)

Runs(t, op) ==
  /\ task[t].state = "RUNNING" /\ task[t].drop = <<>> /\ task[t].shut = <<>>
  /\ Head(task[t].code).op = op

\* The descriptor an argument stands for, and the file behind it: argfd().
ArgFd(t) ==
  LET n == Head(task[t].code).n IN
  CASE n = P0 -> task[t].p[1] [] n = P1 -> task[t].p[2] [] OTHER -> n
FileAt(t, fd) == task[t].ofile[fd]

Rest(t) == Tail(task[t].code)
Exits == <<Call("exit")>>       \* panic() and the end of runcmd()

FreeFd(t) == {fd \in Fds : FileAt(t, fd) = 0}
FreeFiles == {f \in FileIds : ftable[f].ref = 0}
FreePipes == {i \in PipeIds : ~pipe[i].used}

\* fileclose() under ftable.lock: the last reference leaves its pipe to shut.
Fileclose(t) ==
  LET f == Head(task[t].drop)
      last == ftable[f].ref = 1
  IN
  /\ task[t].drop # <<>> /\ task[t].shut = <<>>
  /\ ftable' = [ftable EXCEPT ![f] = IF last THEN NoFile
                                     ELSE [@ EXCEPT !.ref = @ - 1]]
  /\ task' = [task EXCEPT
                ![t].drop = Tail(@),
                ![t].shut = IF last /\ ftable[f].type = "FD_PIPE"
                            THEN <<ftable[f].pipe, ftable[f].writable>> ELSE <<>>]
  /\ UNCHANGED <<pipe, nofile, typed>>

BothClosed(p) == ~p.readopen /\ ~p.writeopen

\* pipeclose(), after ftable.lock is released; frees the pipe with its last end.
Pipeclose(t) ==
  LET i == task[t].shut[1]
      p == IF task[t].shut[2] THEN [pipe[i] EXCEPT !.writeopen = FALSE]
           ELSE [pipe[i] EXCEPT !.readopen = FALSE]
  IN
  /\ task[t].shut # <<>>
  /\ pipe' = [pipe EXCEPT ![i] = IF BothClosed(p) THEN NoPipe ELSE p]
  /\ task' = [task EXCEPT ![t].shut = <<>>]
  /\ UNCHANGED <<ftable, nofile, typed>>

Close(t) ==
  /\ Runs(t, "close")
  /\ task' = [task EXCEPT ![t].ofile[ArgFd(t)] = 0, ![t].code = Rest(t),
                          ![t].drop = IF FileAt(t, ArgFd(t)) = 0 THEN <<>>
                                      ELSE <<FileAt(t, ArgFd(t))>>]
  /\ UNCHANGED <<ftable, pipe, nofile, typed>>

\* sys_dup(): the lowest free descriptor.
Dup(t) ==
  LET f == FileAt(t, ArgFd(t)) IN
  /\ Runs(t, "dup")
  /\ IF f = 0 \/ FreeFd(t) = {}
     THEN task' = [task EXCEPT ![t].code = Rest(t)] /\ UNCHANGED ftable
     ELSE /\ task' = [task EXCEPT ![t].ofile[Min(FreeFd(t))] = f, ![t].code = Rest(t)]
          /\ ftable' = [ftable EXCEPT ![f].ref = @ + 1]
  /\ UNCHANGED <<pipe, nofile, typed>>

\* sys_open() in a redirection; without a file, a descriptor or the file's
\* name, runcmd() exits.
Open(t) ==
  /\ Runs(t, "open")
  /\ \/ /\ FreeFiles # {} /\ FreeFd(t) # {}
        /\ ftable' = [ftable EXCEPT ![Min(FreeFiles)] =
                        [NoFile EXCEPT !.ref = 1, !.type = "FD_INODE", !.writable = TRUE]]
        /\ task' = [task EXCEPT ![t].ofile[Min(FreeFd(t))] = Min(FreeFiles),
                                ![t].code = Rest(t)]
     \/ task' = [task EXCEPT ![t].code = Exits] /\ UNCHANGED ftable
  /\ UNCHANGED <<pipe, nofile, typed>>

\* pipealloc(): a file for each end, each from filealloc(); "bad" if none.
PipeFile(t) ==
  LET k == IF task[t].new[1] = 0 THEN 1 ELSE 2 IN
  /\ Runs(t, "pipe") /\ task[t].new[2] = 0
  /\ IF FreeFiles = {}
     THEN /\ task' = [task EXCEPT ![t].new = <<0, 0>>, ![t].code = Exits,
                        ![t].drop = SelectSeq(task[t].new, LAMBDA f : f # 0)]
          /\ UNCHANGED ftable
     ELSE /\ ftable' = [ftable EXCEPT ![Min(FreeFiles)].ref = 1]
          /\ task' = [task EXCEPT ![t].new[k] = Min(FreeFiles)]
  /\ UNCHANGED <<pipe, nofile, typed>>

\* The descriptors after sys_pipe() has failed.
Undone(t) == task[t].ofile

\* kalloc() of the pipe and, in sys_pipe(), a descriptor for each end; when
\* there are not two, both ends are closed again.
PipeMake(t) ==
  LET rf == task[t].new[1]
      wf == task[t].new[2]
      i == Min(FreePipes)
      fd0 == Min(FreeFd(t))
      fd1 == Min(FreeFd(t) \ {fd0})
      failed == [task[t] EXCEPT !.new = <<0, 0>>, !.drop = <<rf, wf>>, !.code = Exits]
  IN
  /\ Runs(t, "pipe") /\ wf # 0
  /\ IF FreePipes = {} THEN task' = [task EXCEPT ![t] = failed] /\ UNCHANGED <<ftable, pipe>>
     ELSE /\ pipe' = [pipe EXCEPT ![i] = [used |-> TRUE, readopen |-> TRUE,
                                          writeopen |-> TRUE, n |-> 0]]
          /\ ftable' = [ftable EXCEPT
                          ![rf] = [ref |-> 1, type |-> "FD_PIPE", pipe |-> i, writable |-> FALSE],
                          ![wf] = [ref |-> 1, type |-> "FD_PIPE", pipe |-> i, writable |-> TRUE]]
          /\ task' = [task EXCEPT ![t] =
                        IF Cardinality(FreeFd(t)) < 2 THEN [failed EXCEPT !.ofile = Undone(t)]
                        ELSE [@ EXCEPT !.new = <<0, 0>>, !.p = <<fd0, fd1>>, !.code = Rest(t),
                                       !.ofile[fd0] = rf, !.ofile[fd1] = wf]]
  /\ UNCHANGED <<nofile, typed>>

-----------------------------------------------------------------------------
(* Bytes.                                                                  *)

Through(t, fd) == ftable[FileAt(t, fd)]
HasFd(t, fd) == FileAt(t, fd) # 0

PipeFull(i) == pipe[i].n = PIPELEN

\* write(1, ..., 1): waits while the pipe is full and has a reader; without a
\* reader the write fails and the program exits.
Put(t) ==
  LET f == Through(t, 1)
      stuck == HasFd(t, 1) /\ f.type = "FD_PIPE" /\ PipeFull(f.pipe)
  IN
  /\ Runs(t, "put")
  /\ IF stuck
     THEN /\ ~pipe[f.pipe].readopen
          /\ task' = [task EXCEPT ![t].code = Exits] /\ UNCHANGED pipe
     ELSE /\ task' = [task EXCEPT ![t].code = IF HasFd(t, 1) THEN Rest(t) ELSE Exits]
          /\ pipe' = IF HasFd(t, 1) /\ f.type = "FD_PIPE"
                     THEN [pipe EXCEPT ![f.pipe].n = @ + 1] ELSE pipe
  /\ UNCHANGED <<ftable, nofile, typed>>

\* read(0, ..., 1): waits while the pipe is empty and has a writer.  A byte is
\* then put; at end of file the program exits.
Get(t) ==
  LET f == Through(t, 0)
      piped == HasFd(t, 0) /\ f.type = "FD_PIPE"
      some == piped /\ pipe[f.pipe].n > 0
  IN
  /\ Runs(t, "get")
  /\ piped /\ ~some => ~pipe[f.pipe].writeopen
  /\ task' = [task EXCEPT ![t].code = IF some THEN <<Call("put"), Call("get")>> ELSE Exits]
  /\ pipe' = IF some THEN [pipe EXCEPT ![f.pipe].n = @ - 1] ELSE pipe
  /\ UNCHANGED <<ftable, nofile, typed>>

-----------------------------------------------------------------------------
(* Processes.                                                              *)

\* The shell reads a command, or end of file.
Main(t) ==
  /\ Runs(t, "main")
  /\ \/ /\ typed < MaxCommands
        /\ typed' = typed + 1
        /\ \E cmd \in Commands :
             task' = [task EXCEPT ![t].code =
                        <<Fork1(Runcmd(cmd)), Call("wait"), Call("main")>>]
     \/ /\ typed = MaxCommands
        /\ task' = [task EXCEPT ![t].code = Exits]
        /\ UNCHANGED typed
  /\ UNCHANGED <<ftable, pipe, nofile>>

\* Mutant: the child's descriptors are not counted.
DupedNot(t) == ftable

\* filedup() of every descriptor.
Duped(t) ==
  [f \in FileIds |-> [ftable[f] EXCEPT
                        !.ref = @ + Cardinality({fd \in Fds : FileAt(t, fd) = f})]]

\* fork1(): panics, and so exits, when there is no process.
Fork(t) ==
  LET free == {c \in Pids : task[c].state = "UNUSED"} IN
  /\ Runs(t, "fork")
  /\ IF free = {} THEN task' = [task EXCEPT ![t].code = Exits] /\ UNCHANGED ftable
     ELSE /\ ftable' = Duped(t)
          /\ task' = [task EXCEPT
                        ![t].code = Rest(t),
                        ![Min(free)] = [NoTask EXCEPT
                           !.state = "RUNNING", !.parent = t, !.ofile = task[t].ofile,
                           !.p = task[t].p, !.code = Head(task[t].code).code]]
  /\ UNCHANGED <<pipe, nofile, typed>>

\* exit(): close every file, then become a zombie whose children are init's.
ExitClose(t) ==
  LET open == SetToSortSeq({fd \in Fds : FileAt(t, fd) # 0}, LAMBDA a, b : a < b) IN
  /\ Runs(t, "exit") /\ open # <<>>
  /\ task' = [task EXCEPT ![t].ofile = [fd \in Fds |-> 0],
                          ![t].drop = [k \in DOMAIN open |-> FileAt(t, open[k])]]
  /\ UNCHANGED <<ftable, pipe, nofile, typed>>

ExitZombie(t) ==
  /\ Runs(t, "exit") /\ FreeFd(t) = Fds
  /\ task' = [c \in Pids |->
                IF c = t THEN [NoTask EXCEPT !.state = "ZOMBIE", !.parent = task[t].parent]
                ELSE IF task[c].parent = t THEN [task[c] EXCEPT !.parent = 0]
                ELSE task[c]]
  /\ UNCHANGED <<ftable, pipe, nofile, typed>>

\* wait(): any zombie child, or -1 if there are no children.
Wait(t) ==
  LET children == {c \in Pids : task[c].state # "UNUSED" /\ task[c].parent = t}
      zombies == {c \in children : task[c].state = "ZOMBIE"}
  IN
  /\ Runs(t, "wait")
  /\ zombies # {} \/ children = {}
  /\ task' = [c \in Pids |->
                IF c = t THEN [task[t] EXCEPT !.code = Rest(t)]
                ELSE IF zombies # {} /\ c = Min(zombies) THEN NoTask
                ELSE task[c]]
  /\ UNCHANGED <<ftable, pipe, nofile, typed>>

\* init waits for the processes that have lost their parent, and for sh.
InitWait ==
  /\ \E c \in Pids : /\ task[c].state = "ZOMBIE" /\ task[c].parent = 0
                     /\ task' = [task EXCEPT ![c] = NoTask]
  /\ UNCHANGED <<ftable, pipe, nofile, typed>>

TaskStep(t) ==
  \/ Fileclose(t) \/ Pipeclose(t) \/ Close(t) \/ Dup(t) \/ Open(t)
  \/ PipeFile(t) \/ PipeMake(t) \/ Put(t) \/ Get(t)
  \/ Main(t) \/ Fork(t) \/ ExitClose(t) \/ ExitZombie(t) \/ Wait(t)

ShellNext == InitWait \/ \E t \in Pids : TaskStep(t)

\* The scheduler runs every process that can go on, and init.
ShellSpec ==
  /\ ShellInit /\ [][ShellNext]_shellVars
  /\ WF_shellVars(InitWait) /\ \A t \in Pids : WF_shellVars(TaskStep(t))

-----------------------------------------------------------------------------
(* Properties.                                                             *)

\* The state keeps its shape.
ShellTypeOK ==
  /\ ftable \in [FileIds -> [ref : Nat, type : {"FD_NONE", "FD_PIPE", "FD_INODE"},
                             pipe : 0 .. NPIPE, writable : BOOLEAN]]
  /\ pipe \in [PipeIds -> [used : BOOLEAN, readopen : BOOLEAN, writeopen : BOOLEAN,
                           n : 0 .. PIPELEN]]
  /\ typed \in 0 .. MaxCommands

\* References to file f that a process holds: descriptors, files that
\* pipealloc() has in hand, and files it is about to close.
RefsOf(t, f) ==
  Cardinality({fd \in DOMAIN task[t].ofile : task[t].ofile[fd] = f})
    + Cardinality({k \in 1 .. 2 : task[t].new[k] = f})
    + Cardinality({k \in DOMAIN task[t].drop : task[t].drop[k] = f})

\* f->ref counts the references to a file exactly, through fork(), dup(),
\* exit() and every failure of pipe() and open(): no file is closed early and
\* none leaks.
FileRefsCounted ==
  \A f \in FileIds :
    ftable[f].ref = MapThenSumSet(LAMBDA t : RefsOf(t, f), Pids)
                      + (IF f = CONSOLE THEN InitRefs ELSE 0)

\* An end of a pipe is open exactly while an open file or a fileclose() that
\* has not reached pipeclose() yet has it, and there is one of these: so the
\* pipe is freed once, after both.
PipeEndsHeld ==
  \A i \in PipeIds, w \in BOOLEAN :
    LET files == {f \in FileIds : ftable[f].ref > 0 /\ ftable[f].type = "FD_PIPE"
                                    /\ ftable[f].pipe = i /\ ftable[f].writable = w}
        shutting == {t \in Pids : task[t].shut = <<i, w>>}
    IN Cardinality(files) + Cardinality(shutting)
         = IF (IF w THEN pipe[i].writeopen ELSE pipe[i].readopen) THEN 1 ELSE 0

\* Descriptors, open files and pipes agree at every step of runcmd()'s system
\* calls, also when the tables of file.c and sysfile.c are full.
DescriptorsConsistent ==
  /\ ShellTypeOK
  /\ FileRefsCounted
  /\ PipeEndsHeld

\* Once a command was typed, it comes to an end, the shell exits when there
\* are no more, and everything they used is free again: a reader sees end of
\* file, because runcmd() closes every spare write end, also when a pipe(),
\* fork() or open() of the pipeline fails.
CommandsFinish ==
  <>(typed > 0) => <>[](/\ \A t \in Pids : task[t].state = "UNUSED"
                        /\ \A f \in FileIds \ {CONSOLE} : ftable[f].ref = 0)
=============================================================================
