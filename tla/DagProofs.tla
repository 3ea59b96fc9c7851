----------------------------- MODULE DagProofs ------------------------------
(***************************************************************************)
(* What TLAPS proves of Dag for step lists of any length over any names:   *)
(* the counters are never stale, no step is lost or planned twice, a batch *)
(* waits for nothing but earlier batches unless it breaks a cycle, and     *)
(* each step of the algorithm is a batch of DagPlan's or a stutter.        *)
(***************************************************************************)
EXTENDS Dag, FiniteSetTheorems, TLAPS

(* The indices of a step list are the first numbers, and finitely many.    *)
LEMMA IndicesFinite ==
  ASSUME NEW s \in Seq(Step), NEW S
  PROVE  /\ DOMAIN s = 1 .. Len(s) /\ Len(s) \in Nat
         /\ IsFiniteSet(DOMAIN s \cap S)
  <1>1. DOMAIN s = 1 .. Len(s) /\ Len(s) \in Nat
    OBVIOUS
  <1>2. IsFiniteSet(DOMAIN s)
    BY <1>1, FS_Interval
  <1> QED
    BY <1>1, <1>2, FS_Subset

(* What a step waits for can be counted, and is nothing iff the count is 0.*)
LEMMA DepsFinite ==
  ASSUME NEW s \in Seq(Step), NEW n \in DOMAIN s, NEW S
  PROVE  /\ Deps(s, n) \subseteq DOMAIN s
         /\ IsFiniteSet(Deps(s, n) \cap S)
         /\ Cardinality(Deps(s, n) \cap S) \in Nat
         /\ Cardinality(Deps(s, n) \cap S) = 0 <=> Deps(s, n) \cap S = {}
  <1>1. Deps(s, n) \subseteq DOMAIN s
    BY DEF Deps
  <1>2. Deps(s, n) \cap S = DOMAIN s \cap (Deps(s, n) \cap S)
    BY <1>1
  <1>3. IsFiniteSet(Deps(s, n) \cap S)
    BY <1>2, IndicesFinite
  <1> QED
    BY <1>1, <1>3, FS_CardinalityType, FS_EmptySet

(* The steps whose counter is zero are those that wait for no other.       *)
LEMMA ZeroIsReady ==
  ASSUME TypeOK, InDegreeCounts
  PROVE  Zero = Ready(steps, remaining)
  <1>1. steps \in Seq(Step) /\ remaining \subseteq DOMAIN steps
    BY DEF TypeOK
  <1>2. ASSUME NEW n \in remaining
        PROVE  inDegree[n] = 0 <=> Deps(steps, n) \cap remaining = {}
    <2>1. inDegree[n] = Cardinality(Deps(steps, n) \cap remaining)
      BY <1>1, <1>2 DEF InDegreeCounts
    <2> QED
      BY <1>1, <1>2, <2>1, DepsFinite
  <1> QED
    BY <1>2 DEF Zero, Ready

LEMMA NextCases ==
  ASSUME [Next]_vars
  PROVE  \/ CollectBatch \/ BreakCycle \/ \E n \in DOMAIN steps : ReleaseStep(n)
         \/ Finish \/ UNCHANGED vars
  BY DEF Next

-----------------------------------------------------------------------------

(* The counters and the types hold each other up: a counter stays a number *)
(* because it counts something.                                            *)
Counters == TypeOK /\ InDegreeCounts

LEMMA InitCounters == Init => Counters
  <1> SUFFICES ASSUME Init PROVE Counters
    OBVIOUS
  <1>1. steps \in Seq(Step)
    BY StepListsAssumption DEF Init
  <1>2. ASSUME NEW n \in DOMAIN steps
        PROVE  /\ inDegree[n] = Cardinality(Deps(steps, n) \cap remaining)
               /\ inDegree[n] \in Nat
    <2>1. Deps(steps, n) \cap remaining = Deps(steps, n)
      BY <1>1, <1>2, DepsFinite DEF Init
    <2> QED
      BY <1>1, <1>2, <2>1, DepsFinite DEF Init, InDegreeOf
  <1>3. inDegree \in [DOMAIN steps -> Nat]
    BY <1>2 DEF Init, InDegreeOf
  <1>4. TypeOK
    BY <1>1, <1>3 DEF Init, TypeOK
  <1>5. InDegreeCounts
    BY <1>2 DEF InDegreeCounts
  <1> QED
    BY <1>4, <1>5 DEF Counters

(* Releasing a step takes it out of what the others wait for.              *)
LEMMA ReleaseCounters ==
  ASSUME Counters, NEW n \in DOMAIN steps, ReleaseStep(n)
  PROVE  Counters'
  <1> USE DEF Counters, TypeOK, InDegreeCounts
  <1>1. n \in remaining /\ remaining' = remaining \ {n} /\ UNCHANGED <<steps, batches>>
    BY DEF ReleaseStep
  <1>2. DOMAIN inDegree' = DOMAIN steps
    BY DEF ReleaseStep, Released
  <1>3. ASSUME NEW t \in DOMAIN steps
        PROVE  /\ inDegree'[t] = Cardinality(Deps(steps, t) \cap remaining')
               /\ inDegree'[t] \in Nat
    <2> DEFINE before == Deps(steps, t) \cap remaining
    <2>1. Deps(steps, t) \cap remaining' = before \ {n}
      BY <1>1
    <2>2. IsFiniteSet(before) /\ inDegree[t] = Cardinality(before)
      BY DepsFinite
    <2>3. n \in before <=> n \in Deps(steps, t)
      BY <1>1
    <2>4. Cardinality(before \ {n}) =
            IF n \in Deps(steps, t) THEN inDegree[t] - 1 ELSE inDegree[t]
      <3> HIDE DEF before, Counters, TypeOK, InDegreeCounts
      <3>1. Cardinality(before \ {n}) =
              IF n \in before THEN Cardinality(before) - 1 ELSE Cardinality(before)
        BY <2>2, FS_RemoveElement
      <3> QED
        BY <2>2, <2>3, <3>1
    <2>5. inDegree'[t] = Cardinality(Deps(steps, t) \cap remaining')
      BY <2>1, <2>4, <1>3 DEF ReleaseStep, Released
    <2>6. steps \in Seq(Step)
      OBVIOUS
    <2>7. Cardinality(Deps(steps, t) \cap remaining') \in Nat
      BY <1>3, <2>6, DepsFinite
    <2> QED
      BY <2>5, <2>7
  <1>4. InDegreeCounts'
    BY <1>1, <1>3
  <1>5. inDegree' \in [DOMAIN steps -> Nat]
    BY <1>2, <1>3 DEF ReleaseStep, Released
  <1>6. todo' \subseteq remaining' /\ remaining' \subseteq DOMAIN steps
    BY DEF ReleaseStep
  <1>7. pc' \in {"collect", "release"} /\ (pc' # "release" => todo' = {})
    BY DEF ReleaseStep
  <1> QED
    BY <1>1, <1>4, <1>5, <1>6, <1>7

LEMMA CountersStep ==
  ASSUME Counters, [Next]_vars
  PROVE  Counters'
  <1> USE DEF Counters, TypeOK, InDegreeCounts
  <1>1. CASE CollectBatch
    BY <1>1 DEF CollectBatch, Zero
  <1>2. CASE BreakCycle
    BY <1>2 DEF BreakCycle
  <1>3. ASSUME NEW n \in DOMAIN steps, ReleaseStep(n) PROVE Counters'
    BY <1>3, ReleaseCounters
  <1>4. CASE Finish
    BY <1>4 DEF Finish
  <1>5. CASE UNCHANGED vars
    BY <1>5 DEF vars
  <1> QED
    BY NextCases, <1>1, <1>2, <1>3, <1>4, <1>5

-----------------------------------------------------------------------------

(* A new batch takes steps that are left and nothing else.                 *)
LEMMA PlannedByBatch ==
  ASSUME TypeOK, PlannedOnce, NEW B \in SUBSET Left,
         batches' = Append(batches, B), Left' = Left \ B, UNCHANGED steps
  PROVE  PlannedOnce'
  <1> USE DEF PlannedOnce
  <1>1. /\ DOMAIN batches = 1 .. Len(batches) /\ Len(batches) \in Nat
        /\ DOMAIN batches' = 1 .. Len(batches) + 1
        /\ \A k \in DOMAIN batches : batches'[k] = batches[k]
        /\ batches'[Len(batches) + 1] = B
    BY DEF TypeOK
  <1> SUFFICES ASSUME NEW n \in DOMAIN steps
               PROVE  IF n \in Left'
                        THEN \A k \in DOMAIN batches' : n \notin batches'[k]
                        ELSE \E k \in DOMAIN batches' :
                               /\ n \in batches'[k]
                               /\ \A j \in DOMAIN batches' : n \in batches'[j] => j = k
    OBVIOUS
  <1>2. CASE n \in Left'
    BY <1>1, <1>2
  <1>3. CASE n \in B
    <2>1. \A k \in DOMAIN batches : n \notin batches[k]
      BY <1>3
    <2>2. \A j \in DOMAIN batches' : n \in batches'[j] => j = Len(batches) + 1
      BY <1>1, <2>1
    <2> QED
      BY <1>1, <1>3, <2>2
  <1>4. CASE n \notin Left
    <2>1. PICK k \in DOMAIN batches :
            /\ n \in batches[k]
            /\ \A j \in DOMAIN batches : n \in batches[j] => j = k
      BY <1>4
    <2>2. n \notin B
      BY <1>4
    <2>3. \A j \in DOMAIN batches' : n \in batches'[j] => j = k
      BY <1>1, <2>1, <2>2
    <2> QED
      BY <1>1, <1>4, <2>1, <2>3
  <1> QED
    BY <1>2, <1>3, <1>4

(* What has been planned when the next batch is collected.                 *)
LEMMA LeftWhenCollecting ==
  ASSUME TypeOK, pc = "collect"
  PROVE  Left = remaining
  BY DEF TypeOK, Left

LEMMA PlannedStep ==
  ASSUME TypeOK, PlannedOnce, [Next]_vars
  PROVE  PlannedOnce'
  <1>1. CASE CollectBatch
    <2>1. Left = remaining /\ Zero \subseteq Left
      BY <1>1, LeftWhenCollecting DEF CollectBatch, Zero
    <2>2. Left' = Left \ Zero
      BY <1>1, <2>1 DEF CollectBatch, Left
    <2> QED
      BY <1>1, <2>1, <2>2, PlannedByBatch DEF CollectBatch
  <1>2. CASE BreakCycle
    <2>1. Left = remaining
      BY <1>2, LeftWhenCollecting DEF BreakCycle
    <2>2. Left' = Left \ remaining
      BY <1>2, <2>1 DEF BreakCycle, Left
    <2> QED
      BY <1>2, <2>1, <2>2, PlannedByBatch DEF BreakCycle
  <1>3. ASSUME NEW n \in DOMAIN steps, ReleaseStep(n) PROVE PlannedOnce'
    <2>1. Left' = Left
      BY <1>3 DEF ReleaseStep, Left
    <2> QED
      BY <1>3, <2>1 DEF ReleaseStep, PlannedOnce
  <1>4. CASE Finish
    <2>1. Left' = Left
      BY <1>4, LeftWhenCollecting DEF Finish, Left
    <2> QED
      BY <1>4, <2>1 DEF Finish, PlannedOnce
  <1>5. CASE UNCHANGED vars
    BY <1>5 DEF vars, PlannedOnce, Left
  <1> QED
    BY NextCases, <1>1, <1>2, <1>3, <1>4, <1>5

-----------------------------------------------------------------------------

(* The steps of a batch wait for earlier batches only.                     *)
InOrder(k) ==
  \A n \in batches[k] : \A d \in Deps(steps, n) :
    \E j \in 1 .. k - 1 : d \in batches[j]

LEMMA OrderStep ==
  ASSUME Counters, PlannedOnce, CycleOnlyLast, [Next]_vars
  PROVE  CycleOnlyLast'
  <1> USE DEF Counters, CycleOnlyLast
  <1>0. DOMAIN batches = 1 .. Len(batches) /\ Len(batches) \in Nat
    BY DEF TypeOK
  <1>1. CASE CollectBatch
    <2>1. /\ DOMAIN batches' = 1 .. Len(batches) + 1
          /\ \A k \in DOMAIN batches : batches'[k] = batches[k]
          /\ batches'[Len(batches) + 1] = Zero
          /\ UNCHANGED steps
      BY <1>0, <1>1 DEF CollectBatch, TypeOK
    <2>2. Left = remaining /\ Zero \subseteq DOMAIN steps
      BY <1>1, LeftWhenCollecting DEF CollectBatch, Zero, TypeOK
    <2>3. ASSUME NEW n \in Zero, NEW d \in Deps(steps, n)
          PROVE  \E j \in 1 .. Len(batches) : d \in batches[j]
      <3>1. Deps(steps, n) \cap remaining = {}
        BY ZeroIsReady, <2>3 DEF Ready
      <3>2. d \in DOMAIN steps \ Left
        BY <2>2, <3>1 DEF Deps
      <3> QED
        BY <1>0, <3>2 DEF PlannedOnce
    <2>4. \A k \in DOMAIN batches : InOrder(k)
      BY <1>1 DEF CollectBatch, InOrder
    <2>5. ASSUME NEW k \in DOMAIN batches' PROVE InOrder(k)'
      <3>1. CASE k \in DOMAIN batches
        BY <1>0, <2>1, <2>4, <3>1 DEF InOrder
      <3>2. CASE k = Len(batches) + 1
        BY <1>0, <2>1, <2>3, <3>2 DEF InOrder
      <3> QED
        BY <1>0, <2>1, <3>1, <3>2
    <2> QED
      BY <2>5 DEF InOrder
  <1>2. CASE BreakCycle
    <2>1. /\ DOMAIN batches' = 1 .. Len(batches) + 1
          /\ Len(batches') = Len(batches) + 1
          /\ \A k \in DOMAIN batches : batches'[k] = batches[k]
          /\ batches'[Len(batches) + 1] = remaining
          /\ pc' = "done" /\ UNCHANGED steps
      BY <1>0, <1>2 DEF BreakCycle, TypeOK
    <2>2. \A k \in DOMAIN batches : InOrder(k)
      BY <1>2 DEF BreakCycle, InOrder
    <2>3. Ready(steps, remaining) = {}
      BY <1>2, ZeroIsReady DEF BreakCycle
    <2>4. ASSUME NEW k \in DOMAIN batches PROVE InOrder(k)'
      BY <1>0, <2>1, <2>2, <2>4 DEF InOrder
    <2>5. Ready(steps', batches'[Len(batches')]) = {}
      BY <2>1, <2>3
    <2> QED
      BY <1>0, <2>1, <2>4, <2>5 DEF InOrder
  <1>3. ASSUME NEW n \in DOMAIN steps, ReleaseStep(n) PROVE CycleOnlyLast'
    BY <1>3 DEF ReleaseStep
  <1>4. CASE Finish
    BY <1>4 DEF Finish
  <1>5. CASE UNCHANGED vars
    BY <1>5 DEF vars
  <1> QED
    BY NextCases, <1>1, <1>2, <1>3, <1>4, <1>5

IInv == Counters /\ PlannedOnce /\ CycleOnlyLast

LEMMA Invariance == Spec => []IInv
  <1>1. Init => IInv
    <2> SUFFICES ASSUME Init PROVE IInv
      OBVIOUS
    <2>1. Left = DOMAIN steps
      BY DEF Init, Left
    <2>2. PlannedOnce /\ CycleOnlyLast
      BY <2>1 DEF Init, PlannedOnce, CycleOnlyLast
    <2> QED
      BY <2>2, InitCounters DEF IInv
  <1>2. IInv /\ [Next]_vars => IInv'
    BY CountersStep, PlannedStep, OrderStep DEF IInv, Counters
  <1> QED
    BY <1>1, <1>2, PTL DEF Spec

-----------------------------------------------------------------------------

(* For any step list: the counters, the plan and the loop keep their types *)
(* (no counter falls below zero).                                          *)
THEOREM TypeCorrect == Spec => []TypeOK
  <1>1. IInv => TypeOK
    BY DEF IInv, Counters
  <1> QED
    BY <1>1, Invariance, PTL

(* A counter is never stale, in the middle of a batch either.              *)
THEOREM CountersExact == Spec => []InDegreeCounts
  <1>1. IInv => InDegreeCounts
    BY DEF IInv, Counters
  <1> QED
    BY <1>1, Invariance, PTL

(* The plan of any step list has each step once, or still has it to place. *)
THEOREM NothingLost == Spec => []PlannedOnce
  <1>1. IInv => PlannedOnce
    BY DEF IInv
  <1> QED
    BY <1>1, Invariance, PTL

(* Cycles, self-dependencies and duplicate names disturb only what is      *)
(* behind them: the order is broken by the last batch or not at all.       *)
THEOREM CyclesLast == Spec => []CycleOnlyLast
  <1>1. IInv => CycleOnlyLast
    BY DEF IInv
  <1> QED
    BY <1>1, Invariance, PTL

(* Without a cycle every dependency is in an earlier batch.                *)
THEOREM DependenciesFirst == Spec => []DependenciesEarlier
  <1>1. ASSUME IInv, Acyclic(steps), NEW k \in DOMAIN batches PROVE InOrder(k)
    <2>1. batches[k] \in SUBSET DOMAIN steps
      BY <1>1 DEF IInv, Counters, TypeOK
    <2>2. CASE batches[k] = {}
      BY <2>2 DEF InOrder
    <2>3. CASE Ready(steps, batches[k]) # {}
      BY <1>1, <2>3 DEF IInv, CycleOnlyLast, InOrder
    <2> QED
      BY <1>1, <2>1, <2>2, <2>3 DEF Acyclic
  <1>2. IInv => DependenciesEarlier
    BY <1>1 DEF DependenciesEarlier, InOrder
  <1> QED
    BY <1>2, Invariance, PTL

(* The algorithm hands out the plan DagPlan promises: where it begins, and *)
(* each of its steps is the next batch or leaves the plan alone.  That it  *)
(* gets to the plan's end is left to the model checker.                    *)
THEOREM FollowsPlan == Spec => Plan!Init /\ [][Plan!Take]_Plan!planVars
  <1> USE DEF Plan!planVars, Plan!Take, Plan!BatchOf, Plan!Ready, Plan!Deps, Plan!Resolves
  <1>1. Init => Plan!Init
    BY StepListsAssumption DEF Init, Plan!Init, Left
  <1>2. ASSUME IInv, [Next]_vars PROVE [Plan!Take]_Plan!planVars
    <2> USE <1>2 DEF IInv, Counters
    <2>1. Ready(steps, remaining) = Zero
      BY ZeroIsReady
    <2>2. CASE CollectBatch
      <3>1. Left = remaining
        BY <2>2, LeftWhenCollecting DEF CollectBatch
      <3>2. Zero # {} /\ Zero \subseteq remaining
        BY <2>2 DEF CollectBatch, Zero
      <3>3. Plan!BatchOf(steps, Left) = Zero
        BY <2>1, <3>1, <3>2 DEF Ready, Deps, Resolves
      <3>4. Left' = Left \ Zero
        BY <2>2, <3>1 DEF CollectBatch, Left
      <3> QED
        BY <2>2, <3>1, <3>2, <3>3, <3>4 DEF CollectBatch
    <2>3. CASE BreakCycle
      <3>1. Left = remaining /\ remaining # {} /\ Zero = {}
        BY <2>3, LeftWhenCollecting DEF BreakCycle
      <3>2. Plan!BatchOf(steps, Left) = remaining
        BY <2>1, <3>1 DEF Ready, Deps, Resolves
      <3>3. Left' = Left \ remaining
        BY <2>3, <3>1 DEF BreakCycle, Left
      <3> QED
        BY <2>3, <3>1, <3>2, <3>3 DEF BreakCycle
    <2>4. ASSUME NEW n \in DOMAIN steps, ReleaseStep(n)
          PROVE  UNCHANGED Plan!planVars
      BY <2>4 DEF ReleaseStep, Left
    <2>5. CASE Finish
      BY <2>5, LeftWhenCollecting DEF Finish, Left
    <2>6. CASE UNCHANGED vars
      BY <2>6 DEF vars, Left
    <2> QED
      BY NextCases, <2>2, <2>3, <2>4, <2>5, <2>6
  <1> QED
    BY <1>1, <1>2, Invariance, PTL DEF Spec
=============================================================================
