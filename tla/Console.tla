------------------------------ MODULE Console -------------------------------
(***************************************************************************)
(* The console (console.c): the keyboard interrupt edits a line in a ring  *)
(* of INPUT_BUF characters and echoes it, processes read finished lines    *)
(* from it, and cgaputc() moves the cursor of a screen.                    *)
(*                                                                         *)
(* As in Pipe, a reader holds cons.lock between its test of p->killed and  *)
(* its sleep, and kill() does not need that lock.  The loops that put out  *)
(* several characters hold it too, one step for each character.            *)
(***************************************************************************)
EXTENDS Integers, Sequences

CONSTANTS
  People,       \* processes that read the console
  INPUT_BUF,    \* characters in the ring
  INPUTWRAP,    \* r, w and e count modulo 2^32
  COLS, ROWS,   \* the 80 columns and 24 rows that are used
  Asked         \* the n of a call; with none to read, it returns at once

ASSUME ConsoleAssumption ==
  /\ INPUT_BUF \in Nat \ {0} /\ INPUTWRAP \in Nat /\ INPUTWRAP > INPUT_BUF
  /\ INPUTWRAP % INPUT_BUF = 0
  /\ COLS \in Nat \ {0} /\ ROWS \in Nat \ {0}
  /\ People \subseteq Nat \ {0} /\ Asked \subseteq Nat \ {0}

Nul == "nul"
BACKSPACE == "backspace"
Keys == {"x", "nl", "cr", "eof", "bs", "kill", Nul}
Chars == {"x", "nl", "eof"}

\* Who holds cons.lock, besides the processes that read.
Unlocked == 0
Keyboard == -1    \* consoleintr()
Output == -2      \* consolewrite()

VARIABLES
  buf, rd, wr, ed,   \* input.buf, input.r, input.w and input.e
  clock,          \* who holds cons.lock across steps
  cat,            \* where each process is: out, call, run, doze or asleep
  need,           \* n: characters its call still asks for
  got,            \* what its call has read
  ckilled,        \* processes with p->killed
  crt,            \* screen cells with something in them
  pos             \* the cursor

inputVars == <<buf, rd, wr, ed>>
screenVars == <<crt, pos>>
consVars == <<inputVars, clock, cat, need, got, ckilled, screenVars>>

ConsInit ==
  /\ buf = [i \in 0 .. INPUT_BUF - 1 |-> Nul]
  /\ rd = 0 /\ wr = 0 /\ ed = 0
  /\ clock = Unlocked
  /\ cat = [p \in People |-> "out"]
  /\ need = [p \in People |-> 0]
  /\ got = [p \in People |-> <<>>]
  /\ ckilled = {}
  /\ crt = {} /\ pos = 0

-----------------------------------------------------------------------------
(* cgaputc().                                                              *)

\* The row at which the screen scrolls.
ScrollRow == ROWS

\* Where a character leaves the cursor, before scrolling.
Moved(c) ==
  CASE c = "nl" -> pos + (COLS - (pos % COLS))
    [] c = BACKSPACE -> IF pos > 0 THEN pos - 1 ELSE pos
    [] OTHER -> pos + 1

\* "Scroll up": the rows move and the new last one is cleared; the cell under
\* the cursor is always blanked.
Cgaputc(c) ==
  LET p == Moved(c)
      ink == IF c \in {"nl", BACKSPACE} THEN crt ELSE crt \cup {pos}
  IN IF p \div COLS >= ScrollRow
     THEN /\ pos' = p - COLS
          /\ crt' = {k - COLS : k \in {i \in ink : i \in COLS .. ROWS * COLS - 1}}
                      \ (p - COLS .. ROWS * COLS)
     ELSE pos' = p /\ crt' = ink \ {p}

-----------------------------------------------------------------------------
(* consoleintr(), for one character; C('P') only lists processes.          *)

At(i) == buf[i % INPUT_BUF]
Minus(i, n) == (i - n) % INPUTWRAP
Plus(i, n) == (i + n) % INPUTWRAP

\* wakeup(&input.r)
Announced == [p \in People |-> IF cat[p] = "asleep" THEN "call" ELSE cat[p]]

\* "Kill line": back to the last newline that is not finished.
KillMore == ed # wr /\ At(Minus(ed, 1)) # "nl"

KillChar ==
  /\ clock = Keyboard /\ KillMore
  /\ ed' = Minus(ed, 1)
  /\ Cgaputc(BACKSPACE)
  /\ UNCHANGED <<buf, rd, wr, clock, cat, need, got, ckilled>>

Backspace ==
  /\ ed # wr
  /\ ed' = Minus(ed, 1)
  /\ Cgaputc(BACKSPACE)
  /\ UNCHANGED <<buf, rd, wr, cat>>

\* Mutant: a full ring does not finish the line.
FinishedLine(c) == c \in {"nl", "eof"}

\* c == '\n' || c == C('D') || input.e == input.r+INPUT_BUF, after e++.
Finished(c) == c \in {"nl", "eof"} \/ Plus(ed, 1) = Plus(rd, INPUT_BUF)

HasRoom == Minus(ed, rd) < INPUT_BUF

Ordinary(k) ==
  LET c == IF k = "cr" THEN "nl" ELSE k IN
  /\ k # Nul /\ HasRoom
  /\ buf' = [buf EXCEPT ![ed % INPUT_BUF] = c]
  /\ ed' = Plus(ed, 1)
  /\ Cgaputc(c)
  /\ IF Finished(c) THEN wr' = ed' /\ cat' = Announced ELSE UNCHANGED <<wr, cat>>
  /\ UNCHANGED rd

Consoleintr(k) ==
  /\ clock = Unlocked
  /\ CASE k = "kill" -> clock' = Keyboard /\ UNCHANGED <<inputVars, cat, screenVars>>
       [] k = "bs" -> Backspace /\ UNCHANGED clock
       [] OTHER -> Ordinary(k) /\ UNCHANGED clock
  /\ UNCHANGED <<need, got, ckilled>>

-----------------------------------------------------------------------------
(* consoleread(), consolewrite() and kill().                               *)

ConsCall(p, n) ==
  /\ cat[p] = "out" /\ p \notin ckilled
  /\ cat' = [cat EXCEPT ![p] = "call"]
  /\ need' = [need EXCEPT ![p] = n]
  /\ got' = [got EXCEPT ![p] = <<>>]
  /\ UNCHANGED <<inputVars, clock, ckilled, screenVars>>

ConsLock(p) ==
  /\ cat[p] = "call" /\ clock = Unlocked
  /\ cat' = [cat EXCEPT ![p] = "run"]
  /\ clock' = p
  /\ UNCHANGED <<inputVars, need, got, ckilled, screenVars>>

ConsSleep(p) ==
  /\ cat[p] = "doze"
  /\ cat' = [cat EXCEPT ![p] = "asleep"]
  /\ clock' = Unlocked
  /\ UNCHANGED <<inputVars, need, got, ckilled, screenVars>>

\* Nothing finished: return -1 if killed, else go to sleep.
ConsWait(p) ==
  /\ cat[p] = "run" /\ rd = wr
  /\ IF p \in ckilled
     THEN /\ cat' = [cat EXCEPT ![p] = "out"]
          /\ clock' = Unlocked
          /\ need' = [need EXCEPT ![p] = 0]
     ELSE cat' = [cat EXCEPT ![p] = "doze"] /\ UNCHANGED <<clock, need>>
  /\ UNCHANGED <<inputVars, got, ckilled, screenVars>>

\* Mutant: ^D is not kept for the next call.
EofKeptNever(p) == FALSE

\* "Save ^D for next time, to make sure caller gets a 0-byte result."
EofKept(p) == got[p] # <<>>

ConsTake(p) ==
  LET c == At(rd) IN
  /\ cat[p] = "run" /\ rd # wr
  /\ rd' = IF c = "eof" /\ EofKept(p) THEN rd ELSE Plus(rd, 1)
  /\ got' = IF c = "eof" THEN got ELSE [got EXCEPT ![p] = Append(@, c)]
  /\ IF c \in {"eof", "nl"} \/ need[p] = 1
     THEN /\ cat' = [cat EXCEPT ![p] = "out"]
          /\ clock' = Unlocked
          /\ need' = [need EXCEPT ![p] = 0]
     ELSE need' = [need EXCEPT ![p] = @ - 1] /\ UNCHANGED <<cat, clock>>
  /\ UNCHANGED <<buf, wr, ed, ckilled, screenVars>>

\* A program writes any characters; the lock is released after the last one.
Consolewrite ==
  /\ clock = Unlocked /\ clock' = Output
  /\ UNCHANGED <<inputVars, cat, need, got, ckilled, screenVars>>

WriteChar(c) ==
  /\ clock = Output
  /\ Cgaputc(c)
  /\ UNCHANGED <<inputVars, clock, cat, need, got, ckilled>>

\* consoleintr() after a killed line, and consolewrite(), release the lock.
ConsRelease ==
  /\ clock = Output \/ (clock = Keyboard /\ ~KillMore)
  /\ clock' = Unlocked
  /\ UNCHANGED <<inputVars, cat, need, got, ckilled, screenVars>>

ConsKill(p) ==
  /\ p \notin ckilled
  /\ ckilled' = ckilled \cup {p}
  /\ cat' = [cat EXCEPT ![p] = IF @ = "asleep" THEN "call" ELSE @]
  /\ UNCHANGED <<inputVars, clock, need, got, screenVars>>

-----------------------------------------------------------------------------
ConsStep(p) == ConsLock(p) \/ ConsSleep(p) \/ ConsWait(p) \/ ConsTake(p)

ConsNext ==
  \/ \E k \in Keys : Consoleintr(k)
  \/ \E p \in People : \/ ConsStep(p) \/ ConsKill(p)
                       \/ \E n \in Asked : ConsCall(p, n)
  \/ KillChar \/ Consolewrite \/ ConsRelease
  \/ \E c \in {"x", "nl"} : WriteChar(c)

ConsSpec == ConsInit /\ [][ConsNext]_consVars

-----------------------------------------------------------------------------
(* Properties.                                                             *)

\* Every variable stays in its type; rd, wr and ed keep their order and stay
\* within one ring of each other, also when they wrap.
ConsTypeOK ==
  /\ buf \in [0 .. INPUT_BUF - 1 -> Chars \cup {Nul}]
  /\ {rd, wr, ed} \subseteq 0 .. INPUTWRAP - 1
  /\ Minus(wr, rd) <= Minus(ed, rd) /\ Minus(ed, rd) <= INPUT_BUF
  /\ clock \in People \cup {Unlocked, Keyboard, Output}
  /\ cat \in [People -> {"out", "call", "run", "doze", "asleep"}]
  /\ \A p \in People : cat[p] \in {"run", "doze"} <=> clock = p
  /\ need \in [People -> Nat]
  /\ got \in [People -> Seq(Chars)]
  /\ ckilled \subseteq People
  /\ crt \subseteq Nat /\ pos \in Nat

\* Finished lines are between rd and wr, the one being typed up to ed.
Lines ==
  INSTANCE LineInput WITH
    Ends <- {"nl", "eof"},
    Room <- INPUT_BUF,
    ready <- [i \in 1 .. Minus(wr, rd) |-> At(Plus(rd, i - 1))],
    typed <- [i \in 1 .. Minus(ed, wr) |-> At(Plus(wr, i - 1))]

\* The ring is a line editor: what is read is what was typed and not taken
\* back, in order; a ^D is thrown away only by a call that returns nothing.
IsLineInput == Lines!LSpec

\* A reader sleeps only while no line is finished: no wakeup is lost.
ConsSleepJustified ==
  clock = Unlocked => \A p \in People : cat[p] = "asleep" => rd = wr

\* The keyboard is never dead: when the ring takes no more characters, there
\* is something for a reader to make room with.
NoDeadKeyboard == ~HasRoom => rd # wr

\* The cursor stays on the screen, so that cgaputc() does not panic, and
\* nothing is printed at or after it.
NothingPastCursor ==
  pos < ROWS * COLS /\ \A k \in crt : k < pos

\* Ring, sleepers and screen of console.c are right between any two interrupts.
ConsoleConsistent ==
  /\ ConsTypeOK
  /\ ConsSleepJustified
  /\ NoDeadKeyboard
  /\ NothingPastCursor

=============================================================================
