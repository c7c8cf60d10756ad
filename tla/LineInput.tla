----------------------------- MODULE LineInput ------------------------------
(***************************************************************************)
(* What the console promises a program that reads it: lines.  Typed        *)
(* characters can be edited until the line is finished; then they come out *)
(* in the order they were typed.                                           *)
(***************************************************************************)
EXTENDS Integers, Sequences

CONSTANTS Chars, Ends, Room, People

VARIABLES
  typed,    \* the line being typed
  ready,    \* finished and not yet read
  got       \* what each reader's call has read so far

lvars == <<typed, ready, got>>

LInit == typed = <<>> /\ ready = <<>> /\ got = [p \in People |-> <<>>]

\* A character joins the line if there is room; it finishes the line if it
\* ends one or if the room is used up.
Type(c) ==
  /\ Len(ready) + Len(typed) < Room
  /\ IF c \in Ends \/ Len(ready) + Len(typed) + 1 = Room
     THEN ready' = ready \o Append(typed, c) /\ typed' = <<>>
     ELSE typed' = Append(typed, c) /\ UNCHANGED ready
  /\ UNCHANGED got

\* Backspace; kill line is a series of them.
Edit ==
  /\ typed # <<>>
  /\ typed' = SubSeq(typed, 1, Len(typed) - 1)
  /\ UNCHANGED <<ready, got>>

\* A reader takes the first character: for itself, or to throw it away (the
\* mark that ends a file).
Fetch(p, keep) ==
  /\ ready # <<>>
  /\ ready' = Tail(ready)
  /\ got' = IF keep THEN [got EXCEPT ![p] = Append(@, Head(ready))] ELSE got
  /\ ~keep => Head(ready) = "eof" /\ got[p] = <<>>
  /\ UNCHANGED typed

Ask(p) ==
  /\ got' = [got EXCEPT ![p] = <<>>]
  /\ UNCHANGED <<typed, ready>>

LNext ==
  \/ \E c \in Chars : Type(c)
  \/ Edit
  \/ \E p \in People : Ask(p) \/ \E keep \in BOOLEAN : Fetch(p, keep)

LSpec == LInit /\ [][LNext]_lvars

=============================================================================
