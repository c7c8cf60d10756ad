------------------------------ MODULE ShParser ------------------------------
(***************************************************************************)
(* The shell's reader and parser: getcmd() and everything that parsecmd()  *)
(* calls (sh.c).  A buffer is a sequence of characters, a pointer into it  *)
(* an index; the parser's pointer ps is passed along and returned, as 0    *)
(* once the parser has panicked.                                           *)
(***************************************************************************)
EXTENDS Integers, Sequences, SequencesExt, FiniteSets, FiniteSetsExt

CONSTANTS
  NBUF,         \* size of main()'s buffer
  MAXARGS,
  RawLines,     \* lines that are keyed as they are
  Trees,        \* commands that are written down and keyed
  Layouts       \* ways to write a command down

VARIABLES
  keyed,        \* characters that the shell has not read yet
  wanted,       \* the command that was written down, or NoTree
  buf,          \* main()'s buffer, ended by a NUL
  cmd,          \* what parsecmd() returned
  stage,        \* "getcmd", "parsecmd", "runcmd", "panic", "eof"
  line          \* history: the line as it was read

parserVars == <<keyed, wanted, buf, cmd, stage, line>>

NUL == "NUL"
Whitespace == {" ", "\n"}
Symbols == {"<", "|", ">", "&", ";", "(", ")"}

-----------------------------------------------------------------------------
(* gettoken() and peek() on the buffer b.                                  *)

\* The first position from s on that holds no whitespace.
SkipSpace(b, s) == Min({i \in s .. Len(b) : b[i] \notin Whitespace})

EndOfToken(b, s) ==
  CASE b[s] = NUL -> s
    [] b[s] = ">" /\ b[s + 1] = ">" -> s + 2
    [] b[s] \in Symbols -> s + 1
    [] OTHER -> Min({i \in s .. Len(b) : b[i] \in Whitespace \cup Symbols \cup {NUL}})

\* tok is "a" for a word, "+" for >>, else the character itself.
Gettoken(b, s) ==
  LET q == SkipSpace(b, s)
      eq == EndOfToken(b, q)
  IN [tok |-> IF b[q] = ">" /\ eq = q + 2 THEN "+"
              ELSE IF b[q] \in Symbols \cup {NUL} THEN b[q] ELSE "a",
      q |-> q, eq |-> eq, s |-> SkipSpace(b, eq)]

Peek(b, s, toks) == b[SkipSpace(b, s)] \in toks

-----------------------------------------------------------------------------
(* Commands.  A word or a file name is the pair of its first position and  *)
(* the position after its last.                                            *)

Execcmd(argv) == [type |-> "EXEC", argv |-> argv]
Redircmd(c, file, mode) == [type |-> "REDIR", cmd |-> c, file |-> file, mode |-> mode]
Pipecmd(l, r) == [type |-> "PIPE", left |-> l, right |-> r]
Listcmd(l, r) == [type |-> "LIST", left |-> l, right |-> r]
Backcmd(c) == [type |-> "BACK", cmd |-> c]

NoTree == [type |-> "none"]
Result(c, s) == [cmd |-> c, s |-> s]
Panic == Result(NoTree, 0)

RECURSIVE Wrapped(_, _)
Wrapped(c, redirs) ==
  IF redirs = << >> THEN c
  ELSE Redircmd(Wrapped(c, Front(redirs)), Last(redirs).file, Last(redirs).mode)

-----------------------------------------------------------------------------
(* The parser.                                                             *)

\* parseredirs(): the redirections from s on, appended to redirs.
RECURSIVE Parseredirs(_, _, _)
Parseredirs(b, s, redirs) ==
  IF ~Peek(b, s, {"<", ">"}) THEN [redirs |-> redirs, s |-> s]
  ELSE LET op == Gettoken(b, s)
           name == Gettoken(b, op.s)
       IN IF name.tok # "a" THEN [redirs |-> redirs, s |-> 0]
          ELSE Parseredirs(b, name.s,
                 Append(redirs, [file |-> <<name.q, name.eq>>,
                                 mode |-> IF op.tok = "<" THEN "read" ELSE "write"]))

TooMany(argc) == argc >= MAXARGS

\* The loop of parseexec(), behind the first redirections r.
RECURSIVE Parseargs(_, _, _)
Parseargs(b, r, argv) ==
  LET word == Gettoken(b, r.s) IN
  IF r.s = 0 THEN Panic
  ELSE IF Peek(b, r.s, {"|", ")", "&", ";"}) \/ word.tok = NUL
  THEN Result(Wrapped(Execcmd(argv), r.redirs), SkipSpace(b, r.s))
  ELSE IF word.tok # "a" \/ TooMany(Len(argv) + 1) THEN Panic
  ELSE Parseargs(b, Parseredirs(b, word.s, r.redirs), Append(argv, <<word.q, word.eq>>))

\* while(peek("&")) cmd = backcmd(cmd).
RECURSIVE Background(_, _)
Background(b, r) ==
  IF r.s = 0 \/ ~Peek(b, r.s, {"&"}) THEN r
  ELSE Background(b, Result(Backcmd(r.cmd), Gettoken(b, r.s).s))

\* A pipe or list node gets its right side.
Joint(node, right) ==
  IF right.s = 0 THEN Panic ELSE Result([node EXCEPT !.right = right.cmd], right.s)

\* The redirections behind a block wrap its command: it is no node of its own.
BlockEnd(c, behind) ==
  IF behind.s = 0 THEN Panic ELSE Result(Wrapped(c, behind.redirs), behind.s)

RECURSIVE Parseline(_, _), Parsepipe(_, _)

Parseblock(b, inside) ==
  IF inside.s = 0 \/ ~Peek(b, inside.s, {")"}) THEN Panic
  ELSE BlockEnd(inside.cmd, Parseredirs(b, Gettoken(b, inside.s).s, << >>))

Parseexec(b, s) ==
  IF Peek(b, s, {"("}) THEN Parseblock(b, Parseline(b, Gettoken(b, s).s))
  ELSE Parseargs(b, Parseredirs(b, s, << >>), << >>)

PipeRest(b, left) ==
  IF left.s = 0 \/ ~Peek(b, left.s, {"|"}) THEN left
  ELSE Joint(Pipecmd(left.cmd, NoTree), Parsepipe(b, Gettoken(b, left.s).s))

Parsepipe(b, s) == PipeRest(b, Parseexec(b, s))

LineRest(b, left) ==
  IF left.s = 0 \/ ~Peek(b, left.s, {";"}) THEN left
  ELSE Joint(Listcmd(left.cmd, NoTree), Parseline(b, Gettoken(b, left.s).s))

Parseline(b, s) == LineRest(b, Background(b, Parsepipe(b, s)))

\* Mutant: the file name of a redirection is not ended.
RECURSIVE EndsNoFile(_)
EndsNoFile(c) ==
  CASE c.type = "EXEC" -> {c.argv[i][2] : i \in DOMAIN c.argv}
    [] c.type = "REDIR" -> EndsNoFile(c.cmd)
    [] c.type = "BACK" -> EndsNoFile(c.cmd)
    [] OTHER -> EndsNoFile(c.left) \cup EndsNoFile(c.right)

\* Where nulterminate() writes a NUL.
RECURSIVE Ends(_)
Ends(c) ==
  CASE c.type = "EXEC" -> {c.argv[i][2] : i \in DOMAIN c.argv}
    [] c.type = "REDIR" -> Ends(c.cmd) \cup {c.file[2]}
    [] c.type = "BACK" -> Ends(c.cmd)
    [] OTHER -> Ends(c.left) \cup Ends(c.right)

Leftovers(b, r) == SkipSpace(b, r.s) # Len(b)

-----------------------------------------------------------------------------
(* The shell reads and parses one line after the other.                    *)

\* gets(): up to a newline, at most NBUF - 1 characters.
LineOf(text) ==
  LET stop == {i \in DOMAIN text : text[i] = "\n"} \cup {NBUF - 1, Len(text)}
  IN SubSeq(text, 1, Min(stop))

Getcmd ==
  /\ stage = "getcmd"
  /\ buf' = Append(LineOf(keyed), NUL)
  /\ line' = LineOf(keyed)
  /\ keyed' = SubSeq(keyed, Len(LineOf(keyed)) + 1, Len(keyed))
  /\ stage' = IF keyed = << >> THEN "eof" ELSE "parsecmd"
  /\ UNCHANGED <<wanted, cmd>>

\* What parsecmd() makes of the result r of parseline().
Parsed(r) ==
  IF r.s = 0 \/ Leftovers(buf, r)
  THEN stage' = "panic" /\ UNCHANGED <<buf, cmd>>
  ELSE /\ stage' = "runcmd"
       /\ cmd' = r.cmd
       /\ buf' = [i \in DOMAIN buf |-> IF i \in Ends(r.cmd) THEN NUL ELSE buf[i]]

\* The child of main() parses the line.
Parsecmd ==
  /\ stage = "parsecmd"
  /\ Parsed(Parseline(buf, 1))
  /\ UNCHANGED <<keyed, wanted, line>>

\* main() goes on when the child has exited.
NextLine ==
  /\ stage \in {"runcmd", "panic"}
  /\ stage' = "getcmd" /\ buf' = <<NUL>> /\ cmd' = NoTree /\ wanted' = NoTree
  /\ line' = << >>
  /\ UNCHANGED keyed

-----------------------------------------------------------------------------
(* How a command is written down: the grammar of the shell, with words as  *)
(* sequences of characters.  A layout says whether blanks stand around the *)
(* symbols and whether redirections come before the arguments.             *)

Joined(ws, sep) ==
  LET f[k \in 0 .. Len(ws)] ==
        IF k = 0 THEN << >> ELSE f[k - 1] \o (IF k = 1 THEN << >> ELSE sep) \o ws[k]
  IN f[Len(ws)]

RECURSIVE RedirsOf(_)
RedirsOf(t) == IF t.type = "REDIR" THEN Append(RedirsOf(t.cmd), t) ELSE << >>

RECURSIVE BaseOf(_)
BaseOf(t) == IF t.type = "REDIR" THEN BaseOf(t.cmd) ELSE t

\* level 0: a line, 1: a line without ;, 2: a pipeline, 3: one command.
LevelOf(t) == CASE t.type = "LIST" -> 0 [] t.type = "BACK" -> 1
                [] t.type = "PIPE" -> 2 [] OTHER -> 3

RECURSIVE Written(_, _, _)
Written(t, level, how) ==
  LET gap == IF how.blanks THEN <<" ">> ELSE << >>
      redirs == Joined([i \in DOMAIN RedirsOf(t) |->
                          <<IF RedirsOf(t)[i].mode = "read" THEN "<" ELSE ">">>
                          \o (IF RedirsOf(t)[i].mode = "read" \/ how.first
                              THEN << >> ELSE <<">">>)
                          \o gap \o RedirsOf(t)[i].file], gap)
      block(x) == <<"(">> \o gap \o Written(x, 0, how) \o gap \o <<")">>
  IN
  IF LevelOf(t) < level THEN block(t)
  ELSE CASE t.type = "LIST" ->
              Written(t.left, 1, how) \o gap \o <<";">> \o gap \o Written(t.right, 0, how)
         [] t.type = "BACK" -> Written(t.cmd, 1, how) \o gap \o <<"&">>
         [] t.type = "PIPE" ->
              Written(t.left, 3, how) \o gap \o <<"|">> \o gap \o Written(t.right, 2, how)
         [] t.type = "EXEC" -> Joined(t.argv, <<" ">>)
         [] t.type = "REDIR" /\ BaseOf(t).type # "EXEC" -> block(BaseOf(t)) \o redirs
         [] t.type = "REDIR" /\ how.first ->
              Joined(<<redirs, Joined(BaseOf(t).argv, <<" ">>)>>, <<" ">>)
         [] OTHER -> Joined(BaseOf(t).argv, <<" ">>) \o gap \o redirs

\* The shell waits for a line: one of lines, or one of trees written out.
Prompted(lines, trees) ==
  /\ buf = <<NUL>> /\ cmd = NoTree /\ stage = "getcmd" /\ line = << >>
  /\ \/ \E l \in lines : keyed = Append(l, "\n") /\ wanted = NoTree
     \/ \E t \in trees, how \in Layouts :
          keyed = Append(Written(t, 0, how), "\n") /\ wanted = t

ParserInit == Prompted(RawLines, Trees)

ParserNext == Getcmd \/ Parsecmd \/ NextLine

ParserSpec == ParserInit /\ [][ParserNext]_parserVars

-----------------------------------------------------------------------------
(* Properties.                                                             *)

\* The string that begins at q, as exec() and open() will read it.
StringAt(b, q) == SubSeq(b, q, Min({i \in q .. Len(b) : b[i] = NUL}) - 1)

\* The command with its strings in place of its pointers.
RECURSIVE Seen(_, _)
Seen(b, c) ==
  CASE c.type = "EXEC" -> Execcmd([i \in DOMAIN c.argv |-> StringAt(b, c.argv[i][1])])
    [] c.type = "REDIR" -> Redircmd(Seen(b, c.cmd), StringAt(b, c.file[1]), c.mode)
    [] c.type = "BACK" -> Backcmd(Seen(b, c.cmd))
    [] OTHER -> [c EXCEPT !.left = Seen(b, @), !.right = Seen(b, @)]

\* A command that is written down, with or without blanks, is parsed back into
\* itself, and runcmd() finds every word and file name complete and ended, though
\* nulterminate() overwrites the symbols that follow them.
CommandsAsWritten ==
  wanted # NoTree =>
    /\ stage # "panic"
    /\ stage = "runcmd" => Seen(buf, cmd) = wanted

\* The nodes of a command.
RECURSIVE Nodes(_)
Nodes(c) ==
  <<c>> \o CASE c.type = "EXEC" -> << >>
             [] c.type \in {"REDIR", "BACK"} -> Nodes(c.cmd)
             [] OTHER -> Nodes(c.left) \o Nodes(c.right)

\* The words of a line, as pairs of positions.
WordsOf(l) ==
  LET part(i) == l[i] \notin Whitespace \cup Symbols
      begins == {i \in DOMAIN l : part(i) /\ (i = 1 \/ ~part(i - 1))}
  IN {<<i, Min({j \in i .. Len(l) + 1 : j = Len(l) + 1 \/ ~part(j)})>> : i \in begins}

\* A line that is accepted is run whole: of whatever was keyed, no word and no
\* operator is left out of the command or comes up twice.
NothingDropped ==
  stage = "runcmd" =>
    LET nodes == Nodes(cmd)
        made(type) == Len(SelectSeq(nodes, LAMBDA c : c.type = type))
        count(sym) == Cardinality({i \in DOMAIN line : line[i] = sym})
        words(c) == CASE c.type = "EXEC" -> Range(c.argv)
                      [] c.type = "REDIR" -> {c.file}
                      [] OTHER -> {}
    IN /\ UNION {words(nodes[k]) : k \in DOMAIN nodes} = WordsOf(line)
       /\ made("PIPE") = count("|") /\ made("LIST") = count(";") /\ made("BACK") = count("&")

\* parseexec() keeps room in argv[MAXARGS] for the 0 that ends the arguments.
ArgvFits ==
  stage = "runcmd" =>
    \A k \in DOMAIN Nodes(cmd) :
      Nodes(cmd)[k].type = "EXEC" => Len(Nodes(cmd)[k].argv) < MAXARGS

\* parsecmd() understands what is written, and no more and no less.
ParsedFaithfully ==
  /\ CommandsAsWritten
  /\ NothingDropped
  /\ ArgvFits
=============================================================================
