----------------------------- MODULE StepGraph ------------------------------
(***************************************************************************)
(* The dependency graph of a manifest's main steps (engine/dag.go).        *)
(*                                                                         *)
(* A step list is a sequence of records with at least the fields           *)
(*   name      : the step's name, which dependsOn entries refer to         *)
(*   dependsOn : the set of names the step declares as its dependencies    *)
(* (TLA+ index i is Go index i-1).  A dependsOn list with a name repeated  *)
(* adds as many edges as it later takes off, so a set stands for it.       *)
(***************************************************************************)
EXTENDS Integers, Sequences, FiniteSets

(* nameToIdx: with duplicate names the last step of that name wins.        *)
Resolves(steps, name, j) ==
  /\ steps[j].name = name
  /\ \A k \in DOMAIN steps : steps[k].name = name => k <= j

(* The steps with an edge into step i.  A name no main step has (an        *)
(* unknown step, or a setup step) makes no edge.                           *)
Deps(steps, i) ==
  {j \in DOMAIN steps : \E d \in steps[i].dependsOn : Resolves(steps, d, j)}

HasDependencies(steps) == \E i \in DOMAIN steps : steps[i].dependsOn # {}

(* Of the steps in left, those that wait for no other step in left.        *)
Ready(steps, left) == {i \in left : Deps(steps, i) \cap left = {}}

(* What the next batch has to be: the ready steps, or everything that is   *)
(* left when a cycle leaves nothing ready.                                 *)
BatchOf_all(steps, left) == left
BatchOf(steps, left) ==
  IF Ready(steps, left) # {} THEN Ready(steps, left) ELSE left

(* No cycle: every nonempty set of steps has one that waits for no other.  *)
Acyclic(steps) ==
  \A S \in SUBSET DOMAIN steps : S # {} => Ready(steps, S) # {}
=============================================================================
