------------------------------- MODULE MultiAgent -------------------------------
(***************************************************************************)
(* An orchestrator that uses multi_agent/: it either makes parallel calls  *)
(* or routes an exception to its handlers.  The two share no state of the  *)
(* SDK, so each is explored by itself.                                     *)
(***************************************************************************)
EXTENDS ParallelCalls, FanOut

TypeOK == ParallelTypeOK /\ FanOutTypeOK

Init == ParallelInit /\ FanOutInit

Next ==
    \/ phase = "idle" /\ ParallelNext /\ UNCHANGED fanOutVars
    \/ group = "idle" /\ FanOutNext /\ UNCHANGED parallelVars

Spec == Init /\ [][Next]_<<parallelVars, fanOutVars>>

FairSpec == Spec /\ ParallelFairness /\ FanOutFairness
=============================================================================
