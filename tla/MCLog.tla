------------------------------- MODULE MCLog --------------------------------
(***************************************************************************)
(* Instances of Log for model checking.                                    *)
(***************************************************************************)
EXTENDS Log, TLC

\* Processes and blocks are interchangeable.
Symmetry == Permutations(Procs) \cup Permutations(Blocks)

=============================================================================
