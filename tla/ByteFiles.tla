----------------------------- MODULE ByteFiles ------------------------------
(***************************************************************************)
(* What the content layer of fs.c promises: a file is a sequence of words. *)
(* A write replaces words from an offset inside the file or at its end and *)
(* no other file's; a read returns the words from an offset; a file whose  *)
(* last link and reference are gone is empty again.                        *)
(***************************************************************************)
EXTENDS Integers, Sequences

CONSTANTS Files, Values, MaxSize

VARIABLES
  text,         \* the words of each file
  answer        \* the words the last step read, and from where

Nothing == [from |-> 0, words |-> <<>>]

Init == text = [i \in Files |-> <<>>] /\ answer = Nothing

Overwritten(t, off, s) ==
  [k \in 1 .. (IF off + Len(s) > Len(t) THEN off + Len(s) ELSE Len(t)) |->
     IF k \in off + 1 .. off + Len(s) THEN s[k - off] ELSE t[k]]

Write(i) ==
  LET old == text[i]
      new == text'[i]
  IN
  /\ answer' = Nothing
  /\ \A j \in Files \ {i} : text'[j] = text[j]
  /\ \E off \in 0 .. Len(old) : \E n \in 1 .. MaxSize - off, v \in Values :
       new = Overwritten(old, off, [k \in 1 .. n |-> v])

Read(i) ==
  LET all == text[i] IN
  /\ UNCHANGED text
  /\ \E off \in 0 .. Len(all) : \E n \in 0 .. Len(all) - off :
       answer' = [from |-> off, words |-> SubSeq(all, off + 1, off + n)]

Drop(i) == text' = [text EXCEPT ![i] = <<>>] /\ answer' = Nothing

Other == answer' = Nothing /\ UNCHANGED text

Next == Other \/ \E i \in Files : Read(i) \/ Drop(i) \/ Write(i)

Spec == Init /\ [][Next]_<<text, answer>>
=============================================================================
