------------------------------- MODULE LogAbs -------------------------------
(***************************************************************************)
(* What log.c promises to the file system: the blocks as the system calls  *)
(* see them, and the blocks as a crash would leave them.  The second catch *)
(* up with the first only as a whole, and only between system calls.       *)
(***************************************************************************)
EXTENDS FiniteSets

CONSTANTS Procs, Blocks, Vals

VARIABLES
  current,  \* block contents that system calls read and write
  durable,  \* block contents after a crash and recovery
  active    \* the processes inside a file system call

avars == <<current, durable, active>>

AInit ==
  /\ current \in [Blocks -> Vals]
  /\ durable = current
  /\ active = {}

ABegin(p) ==
  /\ active' = active \cup {p}
  /\ UNCHANGED <<current, durable>>

AEnd(p) ==
  /\ active' = active \ {p}
  /\ UNCHANGED <<current, durable>>

AWrite(p, b, v) ==
  /\ p \in active
  /\ current' = [current EXCEPT ![b] = v]
  /\ UNCHANGED <<durable, active>>

\* All the calls since the last commit become durable at once.
ACommit ==
  /\ active = {}
  /\ durable' = current
  /\ UNCHANGED <<current, active>>

ACrash ==
  /\ current' = durable
  /\ active' = {}
  /\ UNCHANGED durable

ANext ==
  \/ \E p \in Procs : ABegin(p) \/ AEnd(p)
  \/ \E p \in Procs, b \in Blocks, v \in Vals : AWrite(p, b, v)
  \/ ACommit
  \/ ACrash

ASpec == AInit /\ [][ANext]_avars

=============================================================================
