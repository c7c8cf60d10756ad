----------------------------- MODULE MCPrograms -----------------------------
(***************************************************************************)
(* User programs, the files and pipes of the shell's commands, and the     *)
(* memory of processes, in one run: part says which component a behaviour  *)
(* exercises, the others stay as they were.                                *)
(***************************************************************************)
EXTENDS Shell, Memory, ShParser, Grep, Umalloc

VARIABLE part

-----------------------------------------------------------------------------
(* Commands for the shell to run.                                          *)

Exec(prog) == [type |-> "EXEC", prog |-> prog]
PipeCmd(l, r) == [type |-> "PIPE", left |-> l, right |-> r]
ListCmd(l, r) == [type |-> "LIST", left |-> l, right |-> r]
Redir(c, fd) == [type |-> "REDIR", cmd |-> c, fd |-> fd]
Back(c) == [type |-> "BACK", cmd |-> c]

MCCommands ==
  {PipeCmd(Exec(Yes), Exec(Cat)),
   PipeCmd(Exec(Yes), Exec(True)),
   Back(PipeCmd(Exec(Yes), Exec(Cat))),
   ListCmd(Back(Redir(Exec(Yes), 1)), PipeCmd(Exec(Yes), Exec(Cat))),
   ListCmd(Exec(True), Redir(Exec(Cat), 0)),
   PipeCmd(Exec(Yes), PipeCmd(Exec(Cat), Exec(Cat)))}

-----------------------------------------------------------------------------
(* Lines for it to parse: every one of up to three characters, some too    *)
(* long, and the written form of a family of commands.                     *)

Over(S, n) == UNION {[1 .. k -> S] : k \in 0 .. n}

MCRawLines ==
  Over({"x", " ", "|", "(", ")", ";", "&", "<", ">"}, 3)
    \cup {[i \in 1 .. n |-> IF i % 2 = 1 THEN "x" ELSE " "] : n \in {5, 7}}
    \cup {[i \in 1 .. 40 |-> "x"]}

Words1 == <<"x">>
Words2 == <<"y", "z">>
Simple == {Execcmd(a) : a \in {<< >>, <<Words1>>, <<Words2, Words1>>}}
Redirected(S) == {Redircmd(c, Words2, m) : c \in S, m \in {"read", "write"}}
Nested(S, T) ==
  {Pipecmd(c, d) : c \in S, d \in T} \cup {Listcmd(c, d) : c \in S, d \in T}
    \cup {Backcmd(c) : c \in S}
Leaves == Simple \cup Redirected(Simple)
Two == {Execcmd(<<Words1>>), Redircmd(Execcmd(<<Words2>>), Words1, "read")}
Deep == Nested(Two, Two)

MCTrees ==
  Leaves \cup Nested(Leaves, Leaves) \cup Nested(Two, Deep) \cup Nested(Deep, Two)
    \cup Redirected(Deep \cup Leaves)
MCLayouts == [blanks : BOOLEAN, first : BOOLEAN]

-----------------------------------------------------------------------------
(* Patterns for grep, and files with lines that fit its buffer or do not.  *)

Grepping(patterns, files) == {[pattern |-> p, file |-> f] : p \in patterns, f \in files}

MCCases ==
  Grepping(Over({"a", ".", "*", "^", "$"}, 3), {Append(t, "\n") : t \in Over({"a", "b"}, 3)})
    \cup Grepping({<<"a">>, <<"^", "b", "*", "$">>}, Over({"a", "b", "\n"}, 5))

-----------------------------------------------------------------------------
ProgramsInit ==
  /\ part \in {"shell", "memory", "parser", "grep", "umalloc"}
  /\ ShellInit /\ MemInit /\ AllocInit
  /\ IF part = "parser" THEN ParserInit ELSE Prompted({<< >>}, {})
  /\ IF part = "grep" THEN GrepInit ELSE Started(Grepping({<<"a">>}, {<< >>}))
  /\ part # "shell" => nofile = 4

ProgramsNext ==
  \/ part = "shell" /\ ShellNext
     /\ UNCHANGED <<memVars, parserVars, grepVars, allocVars, part>>
  \/ part = "memory" /\ MemNext
     /\ UNCHANGED <<shellVars, parserVars, grepVars, allocVars, part>>
  \/ part = "parser" /\ ParserNext
     /\ UNCHANGED <<shellVars, memVars, grepVars, allocVars, part>>
  \/ part = "grep" /\ GrepNext
     /\ UNCHANGED <<shellVars, memVars, parserVars, allocVars, part>>
  \/ part = "umalloc" /\ AllocNext
     /\ UNCHANGED <<shellVars, memVars, parserVars, grepVars, part>>

\* The fairness of ShellSpec.
ProgramsSpec ==
  /\ ProgramsInit
  /\ [][ProgramsNext]_<<shellVars, memVars, parserVars, grepVars, allocVars, part>>
  /\ WF_shellVars(part = "shell" /\ InitWait)
  /\ \A t \in Pids : WF_shellVars(part = "shell" /\ TaskStep(t))
=============================================================================
