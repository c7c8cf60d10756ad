-------------------------------- MODULE Grep --------------------------------
(***************************************************************************)
(* grep.c: the matcher on sequences of characters, and grep(), which cuts  *)
(* what read() returns into lines and prints the ones that match.          *)
(***************************************************************************)
EXTENDS Integers, Sequences, SequencesExt, FiniteSets, FiniteSetsExt

CONSTANTS
  BUFSIZE,      \* sizeof(buf)
  Cases         \* the patterns and files that grep() is called with

VARIABLES
  pattern, unread,  \* the pattern, what is left of the file
  kept,             \* buf[0 .. m-1]
  printed,          \* what was written to fd 1
  ended,            \* read() has returned 0
  whole,            \* history: the file
  discarded         \* history: a part of a line was thrown away

grepVars == <<pattern, unread, kept, printed, ended, whole, discarded>>

Suffix(s, k) == SubSeq(s, k, Len(s))

-----------------------------------------------------------------------------
(* The matcher.                                                            *)

AtEnd(text) == text = << >>

RECURSIVE Matchhere(_, _)

\* c*re: as many c as there are may go before re.
Matchstar(c, re, text) ==
  \E k \in 0 .. Len(text) :
    /\ \A i \in 1 .. k : text[i] = c \/ c = "."
    /\ Matchhere(re, Suffix(text, k + 1))

Matchhere(re, text) ==
  IF re = << >> THEN TRUE
  ELSE IF Len(re) > 1 /\ re[2] = "*" THEN Matchstar(re[1], Suffix(re, 3), text)
  ELSE IF re = <<"$">> THEN AtEnd(text)
  ELSE /\ text # << >> /\ (re[1] = "." \/ re[1] = text[1])
       /\ Matchhere(Tail(re), Tail(text))

Match(re, text) ==
  IF re # << >> /\ re[1] = "^" THEN Matchhere(Tail(re), text)
  ELSE \E k \in 1 .. Len(text) + 1 : Matchhere(re, Suffix(text, k))

-----------------------------------------------------------------------------
(* grep().                                                                 *)

Started(cases) ==
  /\ \E c \in cases : pattern = c.pattern /\ unread = c.file /\ whole = c.file
  /\ kept = << >> /\ printed = << >> /\ ended = FALSE /\ discarded = FALSE

GrepInit == Started(Cases)

Newlines(s) == {i \in DOMAIN s : s[i] = "\n"}

\* The complete lines of s, with their newlines.
LinesOf(s) ==
  LET begins(i) == Max({0} \cup {j \in Newlines(s) : j < i}) + 1
      f[k \in 0 .. Len(s)] ==
        IF k = 0 THEN << >>
        ELSE IF s[k] = "\n" THEN Append(f[k - 1], SubSeq(s, begins(k), k)) ELSE f[k - 1]
  IN f[Len(s)]

Matching(lines) == SelectSeq(lines, LAMBDA l : Match(pattern, Front(l)))

\* Mutant: the rest of the buffer is forgotten.
RemainderNone(s) == << >>

\* What memmove() keeps: nothing when there was no newline.
Remainder(s) == IF Newlines(s) = {} THEN << >> ELSE Suffix(s, Max(Newlines(s)) + 1)

\* read() returns n characters and the loop prints the lines that are complete.
GrepRead(n) ==
  LET have == kept \o SubSeq(unread, 1, n) IN
  /\ n <= Len(unread) /\ n <= BUFSIZE - Len(kept) - 1
  /\ unread' = Suffix(unread, n + 1)
  /\ printed' = printed \o Matching(LinesOf(have))
  /\ kept' = Remainder(have)
  /\ discarded' = (discarded \/ Newlines(have) = {})
  /\ UNCHANGED <<pattern, ended, whole>>

\* read() returns 0 at the end of the file.
GrepEnd ==
  /\ ~ended /\ unread = << >>
  /\ ended' = TRUE
  /\ UNCHANGED <<pattern, unread, kept, printed, whole, discarded>>

GrepNext == (\E n \in 1 .. BUFSIZE - 1 : GrepRead(n)) \/ GrepEnd

GrepSpec == GrepInit /\ [][GrepNext]_grepVars

-----------------------------------------------------------------------------
(* Properties.                                                             *)

\* A pattern as a sequence of characters, starred or not, between anchors.
RECURSIVE Items(_)
Items(re) ==
  IF re = << >> \/ re = <<"$">> THEN << >>
  ELSE IF Len(re) > 1 /\ re[2] = "*" THEN <<[c |-> re[1], star |-> TRUE]>> \o Items(Suffix(re, 3))
  ELSE <<[c |-> re[1], star |-> FALSE]>> \o Items(Tail(re))

RECURSIVE Anchored(_)
Anchored(re) ==
  IF Len(re) > 1 /\ re[2] = "*" THEN Anchored(Suffix(re, 3))
  ELSE re = <<"$">> \/ (re # << >> /\ Anchored(Tail(re)))

\* What the operators mean: some part of the text, at its ends where the pattern
\* says so, can be cut into pieces, one for every item.
Means(re, text) ==
  LET first == re # << >> /\ re[1] = "^"
      body == IF first THEN Tail(re) ELSE re
      items == Items(body)
      fits(item, i, j) ==
        /\ item.star \/ j = i + 1
        /\ \A k \in i + 1 .. j : item.c = "." \/ text[k] = item.c
  IN \E cut \in [0 .. Len(items) -> 0 .. Len(text)] :
       /\ first => cut[0] = 0
       /\ Anchored(body) => cut[Len(items)] = Len(text)
       /\ \A k \in 1 .. Len(items) : cut[k - 1] <= cut[k] /\ fits(items[k], cut[k - 1], cut[k])

\* match() finds a line exactly when the pattern, read as ^ . * $ are meant ("Only
\* supports ^ . * $ operators"), describes a part of it.
MatchMeans ==
  ended => \A k \in DOMAIN LinesOf(whole) :
             LET text == Front(LinesOf(whole)[k]) IN Match(pattern, text) <=> Means(pattern, text)

\* However read() cuts the file, grep() prints the matching lines, each once and in
\* order, as long as every buffer holds the end of some line: a buffer without a
\* newline is thrown away.
PrintsMatchingLines ==
  ~discarded =>
    /\ IsPrefix(printed, Matching(LinesOf(whole)))
    /\ ended => printed = Matching(LinesOf(whole))

\* grep prints what its pattern means, whatever read() returns at a time.
GrepCorrect ==
  /\ MatchMeans
  /\ PrintsMatchingLines
=============================================================================
