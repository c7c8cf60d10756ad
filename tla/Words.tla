------------------------------- MODULE Words -------------------------------
(***************************************************************************)
(* Two computations on machine words: printint(), as the kernel's console  *)
(* has it, and the tests by which fetchint() and argptr() accept the       *)
(* address of an argument.  A word is a number below WORD, and all sums    *)
(* wrap around there, as uint does at 2^32.                                *)
(***************************************************************************)
EXTENDS Integers, Sequences, SequencesExt

CONSTANTS
  WORD,         \* 2^32 in the code
  KERN,         \* KERNBASE: no process is larger
  INTSIZE       \* sizeof(int)

ASSUME WordsAssumption == KERN * 2 <= WORD /\ INTSIZE <= KERN

AllWords == 0 .. WORD - 1

VARIABLES
  op,           \* what was called last
  args,        \* its arguments
  output,       \* what printint() printed
  accepted      \* whether the address was accepted

wordVars == <<op, args, output, accepted>>

NoOutput == [minus |-> FALSE, digits |-> << >>]

\* The int that a word stands for.
AsInt(x) == IF x >= WORD \div 2 THEN x - WORD ELSE x
Wrap(x) == x % WORD

-----------------------------------------------------------------------------
(* printint(xx, base, sign).                                               *)

\* Mutant: the complement is taken without adding one.
MagnitudeOnes(xx) == IF AsInt(xx) < 0 THEN Wrap(-AsInt(xx) - 1) ELSE xx

\* x = -xx, as an unsigned number.
Magnitude(xx) == IF AsInt(xx) < 0 THEN Wrap(-AsInt(xx)) ELSE xx

\* The digits of x, the last one first, as they are put into buf.
RECURSIVE DigitsOf(_, _)
DigitsOf(x, base) ==
  <<x % base>> \o (IF x \div base = 0 THEN << >> ELSE DigitsOf(x \div base, base))

Printint(xx, base, sign) ==
  LET neg == sign /\ AsInt(xx) < 0
  IN [minus |-> neg, digits |-> Reverse(DigitsOf(IF sign THEN Magnitude(xx) ELSE xx, base))]

PrintWord(xx, base, sign) ==
  /\ op' = "printint"
  /\ args' = <<xx, base, IF sign THEN 1 ELSE 0>>
  /\ output' = Printint(xx, base, sign)
  /\ UNCHANGED accepted

-----------------------------------------------------------------------------
(* fetchint(addr) and argptr() of address i and size n, in a process of    *)
(* size sz.                                                                *)

IntInside(addr, sz) == addr < sz /\ Wrap(addr + INTSIZE) <= sz

Fetchint(addr, sz) ==
  /\ op' = "fetchint" /\ args' = <<addr, INTSIZE, sz>>
  /\ accepted' = IntInside(addr, sz)
  /\ UNCHANGED output

BlockInside(i, n, sz) == AsInt(n) >= 0 /\ i < sz /\ Wrap(i + n) <= sz

Argptr(i, n, sz) ==
  /\ op' = "argptr" /\ args' = <<i, n, sz>>
  /\ accepted' = BlockInside(i, n, sz)
  /\ UNCHANGED output

-----------------------------------------------------------------------------

WordsInit == op = "none" /\ args = <<0, 0, 0>> /\ output = NoOutput /\ accepted = FALSE

\* One call of each kind, from the state in which nothing was called.
WordsNext ==
  /\ op = "none"
  /\ \/ \E xx \in AllWords, base \in {10, 16}, sign \in BOOLEAN : PrintWord(xx, base, sign)
     \/ \E addr \in AllWords, sz \in 0 .. KERN : Fetchint(addr, sz)
     \/ \E i, n \in AllWords, sz \in 0 .. KERN : Argptr(i, n, sz)

WordsSpec == WordsInit /\ [][WordsNext]_wordVars

-----------------------------------------------------------------------------
(* Properties.                                                             *)

\* What printint() prints is the number, also for the least int, whose magnitude
\* is no int.
PrintedIsValue ==
  op = "printint" =>
    LET value[k \in 0 .. Len(output.digits)] ==
          IF k = 0 THEN 0 ELSE value[k - 1] * args[2] + output.digits[k]
        printedValue == IF output.minus THEN -value[Len(output.digits)]
                                        ELSE value[Len(output.digits)]
    IN printedValue = IF args[3] = 1 THEN AsInt(args[1]) ELSE args[1]

\* fetchint() and argptr() accept a block of memory only if all of it is in the
\* process ("Check that the pointer lies within the process address space"), however
\* the sums wrap around, and refuse none that is and is not empty.
AcceptedInside ==
  op \in {"fetchint", "argptr"} =>
    LET n == AsInt(args[2])
        inside == n >= 0 /\ args[1] + n <= args[3]
    IN /\ accepted => inside
       /\ inside /\ n > 0 => accepted

\* printint(), fetchint() and argptr() are right on every machine word.
WordsExact ==
  /\ PrintedIsValue
  /\ AcceptedInside
=============================================================================
