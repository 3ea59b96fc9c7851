-------------------------------- MODULE Dag ---------------------------------
(***************************************************************************)
(* BuildDAG and TopologicalBatches (engine/dag.go): Kahn's algorithm on    *)
(* in-degree counters.  Go iterates maps in any order, so the order inside *)
(* a batch is arbitrary: a batch is a set, and its steps are released in   *)
(* any order.                                                              *)
(***************************************************************************)
EXTENDS StepGraph

CONSTANTS
  StepNames,              \* the names steps have and depend on
  StepLists               \* the step lists a manifest may have

Step == [name : StepNames, dependsOn : SUBSET StepNames]

ASSUME StepListsAssumption == StepLists \subseteq Seq(Step)

VARIABLES
  steps,                  \* the main steps of the manifest
  inDegree,               \* per step, the edges into it from remaining steps
  remaining,              \* the steps not released yet
  todo,                   \* the steps of the last batch still to be released
  batches,                \* the batches found so far, in order
  pc                      \* "collect" | "release" | "done"

vars == <<steps, inDegree, remaining, todo, batches, pc>>

InDegreeOf_out(s) ==
  [n \in DOMAIN s |-> Cardinality({t \in DOMAIN s : n \in Deps(s, t)})]
InDegreeOf(s) == [n \in DOMAIN s |-> Cardinality(Deps(s, n))]

Init ==
  /\ steps \in StepLists
  /\ inDegree = InDegreeOf(steps)
  /\ remaining = DOMAIN steps
  /\ todo = {}
  /\ batches = << >>
  /\ pc = "collect"

Zero == {n \in remaining : inDegree[n] = 0}

(* The loop head finds the steps nothing remaining points at ...           *)
CollectBatch_one ==
  /\ pc = "collect"
  /\ \E n \in Zero : batches' = Append(batches, {n}) /\ todo' = {n}
  /\ pc' = "release"
  /\ UNCHANGED <<steps, inDegree, remaining>>

CollectBatch ==
  /\ pc = "collect"
  /\ Zero # {}
  /\ batches' = Append(batches, Zero)
  /\ todo' = Zero
  /\ pc' = "release"
  /\ UNCHANGED <<steps, inDegree, remaining>>

(* ... or, when a cycle leaves none, takes everything and stops.           *)
BreakCycle_never == FALSE

BreakCycle ==
  /\ pc = "collect"
  /\ remaining # {}
  /\ Zero = {}
  /\ batches' = Append(batches, remaining)
  /\ pc' = "done"
  /\ UNCHANGED <<steps, inDegree, remaining, todo>>

Released(n) == [t \in DOMAIN inDegree |->
                  IF n \in Deps(steps, t) THEN inDegree[t] - 1 ELSE inDegree[t]]

(* The inner loop deletes a batch's step and lowers its targets' counters. *)
ReleaseStep_kept(n) ==
  /\ pc = "release"
  /\ n \in todo
  /\ inDegree' = Released(n)
  /\ todo' = todo \ {n}
  /\ pc' = IF todo = {n} THEN "collect" ELSE "release"
  /\ UNCHANGED <<steps, remaining, batches>>

ReleaseStep(n) ==
  /\ pc = "release"
  /\ n \in todo
  /\ remaining' = remaining \ {n}
  /\ inDegree' = Released(n)
  /\ todo' = todo \ {n}
  /\ pc' = IF todo = {n} THEN "collect" ELSE "release"
  /\ UNCHANGED <<steps, batches>>

Finish ==
  /\ pc = "collect"
  /\ remaining = {}
  /\ pc' = "done"
  /\ UNCHANGED <<steps, inDegree, remaining, todo, batches>>

Next ==
  \/ CollectBatch
  \/ BreakCycle
  \/ \E n \in DOMAIN steps : ReleaseStep(n)
  \/ Finish

(* The algorithm is a loop of one goroutine: it keeps running.             *)
Spec == Init /\ [][Next]_vars /\ WF_vars(Next)

-----------------------------------------------------------------------------

TypeOK ==
  /\ steps \in Seq(Step)
  /\ inDegree \in [DOMAIN steps -> Nat]
  /\ remaining \subseteq DOMAIN steps
  /\ todo \subseteq remaining
  /\ batches \in Seq(SUBSET DOMAIN steps)
  /\ pc \in {"collect", "release", "done"}
  /\ pc # "release" => todo = {}

(* A counter is exactly the number of edges from steps not yet released:   *)
(* never stale while a batch is half released, so zero means ready.        *)
InDegreeCounts ==
  \A n \in DOMAIN steps :
    inDegree[n] = Cardinality(Deps(steps, n) \cap remaining)

(* The steps the plan has not placed yet.                                  *)
Left == IF pc = "done" THEN {} ELSE remaining \ todo

(* No step is lost or planned twice: at any time a step is in exactly one  *)
(* batch or still left.                                                    *)
PlannedOnce ==
  \A n \in DOMAIN steps :
    IF n \in Left
      THEN \A k \in DOMAIN batches : n \notin batches[k]
      ELSE \E k \in DOMAIN batches :
             /\ n \in batches[k]
             /\ \A j \in DOMAIN batches : n \in batches[j] => j = k

(* In a manifest without cycles a step's dependencies are all in earlier   *)
(* batches, so running batch after batch runs them first.                  *)
DependenciesEarlier ==
  Acyclic(steps) =>
    \A k \in DOMAIN batches : \A n \in batches[k] :
      \A d \in Deps(steps, n) : \E j \in 1 .. k - 1 : d \in batches[j]

(* A cycle disturbs only the steps on it or behind it: every other step    *)
(* still waits for its dependencies.  A batch breaks the order only when   *)
(* it is the last one and every step of it waits for another step of it.   *)
CycleOnlyLast ==
  \A k \in DOMAIN batches :
    \/ \A n \in batches[k] : \A d \in Deps(steps, n) :
         \E j \in 1 .. k - 1 : d \in batches[j]
    \/ /\ k = Len(batches)
       /\ pc = "done"
       /\ Ready(steps, batches[k]) = {}

Plan == INSTANCE DagPlan WITH left <- Left

(* The counters compute the plan DagPlan.tla promises, batch for batch,    *)
(* and to its end.                                                         *)
ImplementsPlan == Plan!Spec
=============================================================================
