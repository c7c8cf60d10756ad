-------------------------------- MODULE Fifo --------------------------------
(***************************************************************************)
(* What a pipe promises: a bounded queue of bytes.  They come out in the   *)
(* order they went in, none twice and none missing.                        *)
(***************************************************************************)
EXTENDS Integers, Sequences

CONSTANTS Bytes, Capacity, Readers

VARIABLES
  queue,    \* bytes written and not yet read
  given     \* what each reader's call has read so far

fvars == <<queue, given>>

FInit ==
  /\ queue = <<>>
  /\ given = [p \in Readers |-> <<>>]

Put(b) ==
  /\ Len(queue) < Capacity
  /\ queue' = Append(queue, b)
  /\ UNCHANGED given

Take(p) ==
  /\ queue # <<>>
  /\ given' = [given EXCEPT ![p] = Append(@, Head(queue))]
  /\ queue' = Tail(queue)

Call(p) ==
  /\ given' = [given EXCEPT ![p] = <<>>]
  /\ UNCHANGED queue

FNext == (\E b \in Bytes : Put(b)) \/ (\E p \in Readers : Take(p) \/ Call(p))

FSpec == FInit /\ [][FNext]_fvars

=============================================================================
