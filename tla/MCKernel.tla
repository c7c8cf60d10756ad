----------------------------- MODULE MCKernel -------------------------------
(***************************************************************************)
(* Parts of the kernel that share no state, in one run: part says which    *)
(* component a behaviour exercises, the others stay as they were at boot.  *)
(***************************************************************************)
EXTENDS Bio, Pipe, Console, Spinlock, Rtc, Words

VARIABLE part

Parts == {"bio", "pipe", "console", "spinlock", "rtc", "words"}

\* Three fields of the clock, one that needs two BCD digits.
MCWraps == <<11, 2, 2>>

KernelInit ==
  /\ part \in Parts
  /\ BioInit /\ PipeInit /\ ConsInit /\ SpinInit /\ RtcInit /\ WordsInit
  /\ part # "rtc" => bcd

KernelNext ==
  \/ part = "bio" /\ BioNext
     /\ UNCHANGED <<pipeVars, consVars, spinVars, clockVars, wordVars, part>>
  \/ part = "pipe" /\ PipeNext
     /\ UNCHANGED <<bioVars, consVars, spinVars, clockVars, wordVars, part>>
  \/ part = "console" /\ ConsNext
     /\ UNCHANGED <<bioVars, pipeVars, spinVars, clockVars, wordVars, part>>
  \/ part = "spinlock" /\ SpinNext
     /\ UNCHANGED <<bioVars, pipeVars, consVars, clockVars, wordVars, part>>
  \/ part = "rtc" /\ RtcNext
     /\ UNCHANGED <<bioVars, pipeVars, consVars, spinVars, wordVars, part>>
  \/ part = "words" /\ WordsNext
     /\ UNCHANGED <<bioVars, pipeVars, consVars, spinVars, clockVars, part>>

\* The fairness of BioSpec and PipeSpec.
KernelFairness ==
  /\ WF_bioVars(part = "bio" /\ fault = "none" /\ Ideintr)
  /\ \A p \in Procs : WF_bioVars(part = "bio" /\ fault = "none" /\ IderwWoken(p))
  /\ \A p \in Users : WF_pipeVars(part = "pipe" /\ PipeStep(p))

KernelSpec ==
  /\ KernelInit
  /\ [][KernelNext]_<<bioVars, pipeVars, consVars, spinVars, clockVars, wordVars, part>>
  /\ KernelFairness
=============================================================================
