------------------------------- MODULE MCDag --------------------------------
(* Every step list of up to MaxSteps steps over the names of StepNames:    *)
(* duplicate names, unknown names, self-dependencies and cycles included.  *)
EXTENDS Dag

CONSTANT MaxSteps

MCStepLists ==
  UNION {[1 .. n -> [name : StepNames, dependsOn : SUBSET StepNames]]
           : n \in 0 .. MaxSteps}
=============================================================================
