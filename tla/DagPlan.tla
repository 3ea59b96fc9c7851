------------------------------ MODULE DagPlan -------------------------------
(***************************************************************************)
(* What a batch plan promises, without saying how it is computed: the      *)
(* steps are handed out batch by batch, each batch being exactly the steps *)
(* whose dependencies are all in earlier batches, and a cycle's steps all  *)
(* at once at the end.  Dag.tla (the in-degree algorithm of engine/dag.go) *)
(* implements it, and EngineRun.tla executes main steps by it.             *)
(***************************************************************************)
EXTENDS StepGraph

CONSTANT Step             \* the steps a manifest may have

VARIABLES
  steps,                  \* the main steps of the manifest
  left,                   \* the steps in no batch yet
  batches                 \* the batches handed out, in order

planVars == <<steps, left, batches>>

Init ==
  /\ steps \in Seq(Step)
  /\ left = DOMAIN steps
  /\ batches = << >>

Take ==
  /\ left # {}
  /\ batches' = Append(batches, BatchOf(steps, left))
  /\ left' = left \ BatchOf(steps, left)
  /\ UNCHANGED steps

Spec == Init /\ [][Take]_planVars /\ WF_planVars(Take)
=============================================================================
