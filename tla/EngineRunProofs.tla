-------------------------- MODULE EngineRunProofs ---------------------------
(***************************************************************************)
(* What TLAPS proves of EngineRun for every set of manifests and requests: *)
(* its types, the accounting behind a run's verdict, that it keeps the     *)
(* promise of RunContract, what becomes of each step, and what the events  *)
(* tell.                                                                   *)
(***************************************************************************)
EXTENDS EngineRun, SeqFilterProofs, FiniteSetTheorems, TLAPS

(* The outcomes of an attempt are values the extract pool can hold.        *)
LEMMA OutcomeType ==
  ASSUME NEW kind \in DOMAIN Outcomes, NEW o \in Outcomes[kind]
  PROVE  o \in {"met", "missed", "done", "error"}
  BY DEF Outcomes, CallOutcomes, BrowserOutcomes

(* A phase's step list, and the step an index of it stands for.            *)
LEMMA StepType ==
  ASSUME manifest \in Manifests, NEW ph \in StepPhases,
         NEW i \in DOMAIN manifest[ph]
  PROVE  Step(ph, i) \in StepDef
  <1>1. manifest \in Manifest
    BY ManifestsAssumption
  <1>2. manifest[ph] \in Seq(StepDef)
    BY <1>1 DEF Manifest, StepPhases
  <1> QED
    BY <1>2 DEF Step

LEMMA NoStepType ==
  NoStep \in InFlight
  BY DEF NoStep, Origin, InFlight

LEMMA OverlayType ==
  ASSUME NEW f \in [Key -> Origin], NEW g \in [Key -> Origin]
  PROVE  Overlay(f, g) \in [Key -> Origin]
  BY DEF Overlay

(* Every step index of a phase is one of the first n numbers.              *)
LEMMA IndicesType ==
  ASSUME manifest \in Manifests, NEW ph \in StepPhases
  PROVE  /\ Len(manifest[ph]) \in Nat
         /\ DOMAIN manifest[ph] = 1 .. Len(manifest[ph])
  <1>1. manifest \in Manifest
    BY ManifestsAssumption
  <1>2. manifest[ph] \in Seq(StepDef)
    BY <1>1 DEF Manifest, StepPhases
  <1> QED
    BY <1>2

-----------------------------------------------------------------------------

(* The steps are counted in one place at a time.                           *)
Placed ==
  /\ phase \in StepPhases =>
       left \cup batch \subseteq DOMAIN manifest[phase]
  /\ left \cap batch = {}
  /\ batch # {} => phase = "main"
  /\ cur # NoStep =>
       /\ phase \in StepPhases
       /\ cur.idx \in DOMAIN manifest[phase]
       /\ cur.idx \notin left \cup batch
       /\ cur.status # "none"

TypeInv == TypeOK /\ Placed

LEMMA InitTypeInv == Init => TypeInv
  <1> SUFFICES ASSUME Init PROVE TypeInv
    OBVIOUS
  <1>1. req \in [resume : BOOLEAN, from : Nat, preload : SUBSET Key]
    BY RequestsAssumption DEF Init
  <1>2. TypeOK
    BY <1>1, NoStepType DEF Init, TypeOK, Origin
  <1>3. Placed
    BY DEF Init, Placed, StepPhases
  <1> QED
    BY <1>2, <1>3 DEF TypeInv

(* Beginning a step: BeginStep is shared by two actions.                   *)
LEMMA FreshStepType ==
  ASSUME NEW i \in Nat
  PROVE  /\ FreshStep(i).idx = i
         /\ FreshStep(i).status = "running"
         /\ FreshStep(i) \in InFlight
  BY NoStepType DEF FreshStep, NoStep, InFlight

LEMMA BatchOfType ==
  ASSUME NEW list, NEW S
  PROVE  BatchOf(list, S) \subseteq S
  BY DEF BatchOf, Ready

LEMMA ReportTypeInv ==
  ASSUME TypeInv, cur # NoStep, NEW st \in {"passed", "skipped", "failed", "error"},
         Report(st)
  PROVE  TypeInv'
  <1> USE DEF TypeInv
  <1>1. manifest' = manifest /\ req' = req /\ batch' = batch /\ pool' = pool
        /\ total' = total /\ cur' = NoStep
    BY DEF Report, input
  <1>2. /\ phase \in StepPhases
        /\ cur.idx \in DOMAIN manifest[phase]
        /\ Step(phase, cur.idx) \in StepDef
    BY StepType DEF Placed, TypeOK
  <1>3. steps' \in Seq(StepResult)
    <2>1. RetryCount \in Nat
      BY DEF RetryCount, TypeOK, InFlight
    <2>2. [phase |-> phase, idx |-> cur.idx, status |-> st,
           attempts |-> cur.attempt, retryCount |-> RetryCount,
           asserted |-> cur.asserted] \in StepResult
      BY <1>2, <2>1 DEF StepResult, TypeOK, InFlight
    <2> QED
      BY <2>2 DEF Report, TypeOK
  <1>4. extracts' \in [Key -> Origin]
    BY OverlayType DEF Report, Merged, TypeOK, InFlight
  <1>5. status' \in {"passed", "failed"}
    BY DEF Report, TypeOK
  <1>6. failedSteps' \subseteq StepName
    BY <1>2 DEF Report, TypeOK, StepDef
  <1>7. /\ phase' \in StepPhases /\ left' \subseteq Nat
        /\ left' \cup batch' \subseteq DOMAIN manifest[phase']
        /\ left' \cap batch' = {} /\ (batch' # {} => phase' = "main")
    <2>1. CASE Aborts(st)
      <3>1. phase' = "teardown" /\ left' = DOMAIN manifest["teardown"]
        BY <2>1 DEF Report, AbortSetup, Indices
      <3>2. batch = {}
        BY <2>1 DEF Aborts, Placed
      <3> QED
        BY <1>1, <3>1, <3>2, IndicesType DEF TypeOK, StepPhases
    <2>2. CASE ~ Aborts(st)
      BY <1>1, <1>2, <2>2 DEF Report, Placed, TypeOK
    <2> QED
      BY <2>1, <2>2
  <1>8. TypeOK'
    BY <1>1, <1>3, <1>4, <1>5, <1>6, <1>7, NoStepType DEF TypeOK
  <1>9. Placed'
    BY <1>1, <1>7 DEF Placed
  <1> QED
    BY <1>8, <1>9

LEMMA FinalStatusType ==
  ASSUME TypeInv, cur # NoStep
  PROVE  FinalStatus \in {"passed", "failed", "error"}
  BY DEF FinalStatus, TypeInv, Placed, TypeOK, InFlight

LEMMA AttemptKeepsStep ==
  ASSUME TypeInv, Attempt
  PROVE  cur # NoStep /\ cur' # NoStep /\ cur'.idx = cur.idx
  <1>1. cur # NoStep /\ cur.status # "none"
    BY DEF Attempt, TypeInv, Placed
  <1>2. cur'.idx = cur.idx /\ cur'.status # "none"
    BY <1>1 DEF Attempt, AfterAttempt
  <1> QED
    BY <1>1, <1>2 DEF NoStep

LEMMA NextTypeInv == TypeInv /\ [Next]_vars => TypeInv'
  <1> SUFFICES ASSUME TypeInv, [Next]_vars PROVE TypeInv'
    OBVIOUS
  <1> USE DEF TypeInv
  <1>0. /\ manifest \in Manifest
        /\ req \in [resume : BOOLEAN, from : Nat, preload : SUBSET Key]
    BY ManifestsAssumption, RequestsAssumption DEF TypeOK
  <1>1. CASE Start
    <2>1. TypeOK'
      BY <1>0, <1>1, IndicesType
      DEF Start, TypeOK, input, ResumeSteps, TotalCount, Indices, StepPhases, Manifest
    <2>2. left' \subseteq DOMAIN manifest[phase']
      BY <1>0, <1>1, IndicesType
      DEF Start, ResumeSteps, Indices, StepPhases, TypeOK
    <2>3. batch = {} /\ cur = NoStep
      BY <1>1 DEF Start, Placed, StepPhases
    <2> QED
      BY <1>1, <2>1, <2>2, <2>3 DEF Start, Placed, input
  <1>2. CASE StartMain
    <2>1. TypeOK'
      BY <1>2, IndicesType DEF StartMain, TypeOK, input, result, Indices, StepPhases
    <2>2. Placed'
      BY <1>2 DEF StartMain, Placed, PhaseOver, input, result, Indices
    <2> QED
      BY <2>1, <2>2
  <1>3. CASE StartTeardown
    <2>1. TypeOK'
      BY <1>3, IndicesType DEF StartTeardown, TypeOK, input, result, Indices, StepPhases
    <2>2. Placed'
      BY <1>3 DEF StartTeardown, Placed, PhaseOver, input, result, Indices
    <2> QED
      BY <2>1, <2>2
  <1>4. CASE NextBatch
    <2>1. batch' \subseteq left
      BY <1>4, BatchOfType DEF NextBatch
    <2>2. TypeOK'
      BY <1>4, <2>1 DEF NextBatch, TypeOK, input, result
    <2>3. Placed'
      BY <1>4, <2>1 DEF NextBatch, Placed, input
    <2> QED
      BY <2>2, <2>3
  <1>5. ASSUME NEW i \in batch, SkipBlocked(i) PROVE TypeInv'
    <2>1. TypeOK'
      BY <1>5 DEF SkipBlocked, TypeOK, input, result
    <2>2. Placed'
      BY <1>5 DEF SkipBlocked, Placed, input
    <2> QED
      BY <2>1, <2>2
  <1>6. CASE BeginNext
    <2>1. PICK i \in left : left' = left \ {i} /\ BeginStep(i)
      BY <1>6 DEF BeginNext
    <2>2. i \in Nat /\ batch' = batch /\ phase \in StepPhases
      BY <1>6 DEF BeginNext, TypeOK
    <2>3. TypeOK'
      BY <2>1, <2>2, FreshStepType DEF BeginStep, TypeOK, input, result
    <2>4. Placed'
      BY <2>1, <2>2, FreshStepType DEF BeginStep, Placed, input
    <2> QED
      BY <2>3, <2>4
  <1>7. ASSUME NEW i \in batch, BeginInBatch(i) PROVE TypeInv'
    <2>1. i \in Nat /\ phase = "main" /\ left' = left /\ batch' = batch \ {i}
      BY <1>7 DEF BeginInBatch, TypeOK, Placed
    <2>2. TypeOK'
      BY <1>7, <2>1, FreshStepType DEF BeginInBatch, BeginStep, TypeOK, input, result
    <2>3. Placed'
      BY <1>7, <2>1, FreshStepType
      DEF BeginInBatch, BeginStep, Placed, input, StepPhases
    <2> QED
      BY <2>2, <2>3
  <1>8. CASE Attempt
    <2> DEFINE def == Step(phase, cur.idx)
    <2>1. /\ phase \in StepPhases /\ cur.idx \in DOMAIN manifest[phase]
          /\ def \in StepDef
      BY <1>8, StepType DEF Attempt, Placed, TypeOK
    <2> HIDE DEF def
    <2>2. PICK o \in Outcomes[def.kind], found \in SUBSET def.extract :
            LET got == [k \in Key |->
                         IF k \in found /\ o # "error" THEN o ELSE "none"]
            IN /\ pool' = Overlay(pool, got)
               /\ cur' = AfterAttempt(o, got)
      BY <1>8 DEF Attempt, def
    <2> DEFINE got == [k \in Key |->
                         IF k \in found /\ o # "error" THEN o ELSE "none"]
    <2>3. got \in [Key -> Origin] /\ o \in {"met", "missed", "done", "error"}
      BY <2>1, OutcomeType DEF Origin, StepDef
    <2> HIDE DEF got
    <2>4. pool' \in [Key -> Origin]
      BY <2>2, <2>3, OverlayType DEF got, TypeOK
    <2>5. Overlay(cur.found, got) \in [Key -> Origin]
      BY <2>3, OverlayType DEF TypeOK, InFlight
    <2>6. /\ cur' \in InFlight
          /\ cur'.idx = cur.idx
          /\ cur.status # "none" => cur'.status # "none"
      <3>1. cur' = AfterAttempt(o, got)
        BY <2>2 DEF got
      <3> QED
        BY <2>3, <2>5, <3>1 DEF AfterAttempt, TypeOK, InFlight, Origin
    <2>7. UNCHANGED <<manifest, req, phase, left, batch, failedSteps,
                      status, total, steps, extracts>>
      BY <1>8 DEF Attempt, input, result
    <2>8. TypeOK'
      BY <2>4, <2>6, <2>7 DEF TypeOK
    <2>9. Placed'
      BY <1>8, <2>6, <2>7 DEF Placed, Attempt
    <2> QED
      BY <2>8, <2>9
  <1>9. CASE SkipByWhen
    BY <1>9, ReportTypeInv DEF SkipByWhen
  <1>10. CASE EndStep
    BY <1>10, FinalStatusType, ReportTypeInv DEF EndStep
  <1>11. CASE Finalize
    <2>1. TypeOK'
      BY <1>11 DEF Finalize, TypeOK, input, result
    <2>2. Placed'
      BY <1>11 DEF Finalize, Placed, RunOver, PhaseOver, StepPhases, input
    <2> QED
      BY <2>1, <2>2
  <1>12. CASE UNCHANGED vars
    BY <1>12 DEF vars, input, TypeOK, Placed
  <1> QED
    BY <1>1, <1>2, <1>3, <1>4, <1>5, <1>6, <1>7, <1>8, <1>9, <1>10, <1>11,
       <1>12 DEF Next

(* A run's variables keep their types, whatever the manifest and however   *)
(* its steps end.                                                          *)
THEOREM TypeCorrect == Spec => []TypeOK
  <1>1. TypeInv => TypeOK
    BY DEF TypeInv
  <1> QED
    BY <1>1, InitTypeInv, NextTypeInv, PTL DEF Spec

-----------------------------------------------------------------------------

Rank == Contract!Rank

(* The report so far explains the phase and the status: a reported step    *)
(* belongs to an earlier phase or is no longer to be handed out, setup and *)
(* main go on only while no setup step failed, and the status is failed    *)
(* exactly when a step outside teardown did.                               *)
Behind(k) ==
  \/ phase = "done"
  \/ /\ phase \in StepPhases
     /\ \/ Rank[steps[k].phase] < Rank[phase]
        \/ /\ steps[k].phase = phase
           /\ steps[k].idx \notin left \cup batch
           /\ cur # NoStep => steps[k].idx # cur.idx

RunFailing(k) == steps[k].phase # "teardown" /\ steps[k].status \in Failures

Ledger ==
  /\ phase = "new" => steps = << >>
  /\ \A k \in DOMAIN steps : Behind(k)
  /\ phase \in {"setup", "main"} => \A k \in DOMAIN steps : ~ FailedAt(k, "setup")
  /\ status = "failed" <=> \E k \in DOMAIN steps : RunFailing(k)

IInv == TypeInv /\ Ledger

LEMMA RankOrder ==
  /\ Rank["setup"] = 1
  /\ Rank["main"] = 2
  /\ Rank["teardown"] = 3
  BY DEF Rank, Contract!Rank

LEMMA ReportedType ==
  ASSUME TypeInv, NEW k \in DOMAIN steps
  PROVE  /\ steps[k].phase \in StepPhases
         /\ steps[k].idx \in Nat
         /\ steps[k].status \in {"passed", "skipped", "failed", "error"}
  <1>1. steps[k] \in StepResult
    BY DEF TypeInv, TypeOK
  <1> QED
    BY <1>1 DEF StepResult

LEMMA InitLedger == Init => Ledger
  BY DEF Init, Ledger, FailedAt, RunFailing

(* The reported steps stay behind when the run moves on to a later phase.  *)
LEMMA MoveOnLedger ==
  ASSUME TypeInv, Ledger, steps' = steps, status' = status, cur' = NoStep,
         phase' \in StepPhases, phase \in StepPhases,
         Rank[phase] < Rank[phase'],
         phase' = "main" => phase = "setup"
  PROVE  Ledger'
  <1>1. \A k \in DOMAIN steps :
          /\ steps[k].phase \in StepPhases
          /\ \/ Rank[steps[k].phase] < Rank[phase]
             \/ steps[k].phase = phase
    BY ReportedType DEF Ledger, Behind, StepPhases
  <1>2. \A k \in DOMAIN steps : Rank[steps[k].phase] < Rank[phase']
    BY <1>1, RankOrder DEF StepPhases
  <1>3. \A k \in DOMAIN steps' : Behind(k)'
    BY <1>2 DEF Behind
  <1>4. phase' \in {"setup", "main"} =>
          \A k \in DOMAIN steps' : ~ FailedAt(k, "setup")'
    BY RankOrder DEF Ledger, FailedAt, StepPhases
  <1>5. status' = "failed" <=> \E k \in DOMAIN steps' : RunFailing(k)'
    BY DEF Ledger, RunFailing
  <1> QED
    BY <1>3, <1>4, <1>5 DEF Ledger, StepPhases

(* ... and when it only hands out steps of its phase.                      *)
LEMMA HandOutLedger ==
  ASSUME Ledger, steps' = steps, status' = status, phase' = phase,
         left' \cup batch' \subseteq left \cup batch,
         \/ cur' = NoStep
         \/ cur' # NoStep /\ cur # NoStep /\ cur'.idx = cur.idx
         \/ cur' # NoStep /\ cur'.idx \in left \cup batch
  PROVE  Ledger'
  <1>1. \A k \in DOMAIN steps' : Behind(k)'
    BY DEF Ledger, Behind
  <1>2. phase' \in {"setup", "main"} =>
          \A k \in DOMAIN steps' : ~ FailedAt(k, "setup")'
    BY DEF Ledger, FailedAt
  <1>3. status' = "failed" <=> \E k \in DOMAIN steps' : RunFailing(k)'
    BY DEF Ledger, RunFailing
  <1> QED
    BY <1>1, <1>2, <1>3 DEF Ledger

NewResult(st) ==
  [phase |-> phase, idx |-> cur.idx, status |-> st,
   attempts |-> cur.attempt, retryCount |-> RetryCount,
   asserted |-> cur.asserted]

(* Reporting a step appends one result of it and keeps the others.         *)
LEMMA ReportAppends ==
  ASSUME TypeInv, cur # NoStep,
         NEW st \in {"passed", "skipped", "failed", "error"}, Report(st)
  PROVE  /\ NewResult(st) \in StepResult
         /\ steps' = Append(steps, NewResult(st))
         /\ Len(steps') = Len(steps) + 1
         /\ DOMAIN steps' = DOMAIN steps \cup {Len(steps) + 1}
         /\ \A k \in DOMAIN steps : steps'[k] = steps[k]
         /\ steps'[Len(steps) + 1] = NewResult(st)
  <1>1. RetryCount \in Nat
    BY DEF RetryCount, TypeInv, TypeOK, InFlight
  <1>2. NewResult(st) \in StepResult
    BY <1>1 DEF NewResult, StepResult, TypeInv, TypeOK, Placed, InFlight
  <1>3. steps' = Append(steps, NewResult(st)) /\ steps \in Seq(StepResult)
    BY DEF Report, NewResult, TypeInv, TypeOK
  <1> QED
    BY <1>2, <1>3

LEMMA ReportLedger ==
  ASSUME IInv, cur # NoStep,
         NEW st \in {"passed", "skipped", "failed", "error"}, Report(st)
  PROVE  Ledger'
  <1>0. PICK n : n = Len(steps) + 1
    OBVIOUS
  <1>1. /\ DOMAIN steps' = DOMAIN steps \cup {n}
        /\ \A k \in DOMAIN steps : steps'[k] = steps[k]
        /\ steps'[n].phase = phase
        /\ steps'[n].idx = cur.idx
        /\ steps'[n].status = st
    BY <1>0, ReportAppends DEF IInv, NewResult
  <1>2. /\ phase \in StepPhases
        /\ cur.idx \notin left \cup batch
        /\ cur' = NoStep
        /\ batch' = batch
    BY DEF IInv, TypeInv, Placed, Report
  <1>3. /\ status' = IF FailsRun(st) THEN "failed" ELSE status
        /\ \/ Aborts(st) /\ phase = "setup" /\ phase' = "teardown"
           \/ ~ Aborts(st) /\ phase' = phase /\ left' = left
    BY DEF Report, AbortSetup, Aborts
  <1>4. \A k \in DOMAIN steps : steps[k].phase \in StepPhases
    BY ReportedType DEF IInv
  <1>5. \A k \in DOMAIN steps' : Behind(k)'
    <2>1. CASE Aborts(st)
      <3>1. phase = "setup" /\ phase' = "teardown"
        BY <1>3, <2>1
      <3>2. \A k \in DOMAIN steps :
              Rank[steps[k].phase] < Rank[phase] \/ steps[k].phase = phase
        BY <3>1 DEF IInv, Ledger, Behind
      <3>3. \A k \in DOMAIN steps' : Rank[steps'[k].phase] < Rank[phase']
        BY <1>1, <1>4, <3>1, <3>2, RankOrder DEF StepPhases
      <3> QED
        BY <3>1, <3>3 DEF Behind, StepPhases
    <2>2. CASE ~ Aborts(st)
      <3>1. \A k \in DOMAIN steps : Behind(k)'
        BY <1>1, <1>2, <1>3, <2>2 DEF IInv, Ledger, Behind
      <3>2. Behind(n)'
        BY <1>1, <1>2, <1>3, <2>2 DEF Behind
      <3> QED
        BY <1>1, <3>1, <3>2
    <2> QED
      BY <2>1, <2>2
  <1>6. phase' \in {"setup", "main"} =>
          \A k \in DOMAIN steps' : ~ FailedAt(k, "setup")'
    BY <1>1, <1>2, <1>3 DEF IInv, Ledger, FailedAt, Aborts
  <1>7. status' = "failed" <=> \E k \in DOMAIN steps' : RunFailing(k)'
    <2>1. \A k \in DOMAIN steps : RunFailing(k)' <=> RunFailing(k)
      BY <1>1 DEF RunFailing
    <2>2. RunFailing(n)' <=> FailsRun(st)
      BY <1>1, <1>2 DEF RunFailing, FailsRun
    <2>3. status = "failed" <=> \E k \in DOMAIN steps : RunFailing(k)
      BY DEF IInv, Ledger
    <2> QED
      BY <1>1, <1>3, <2>1, <2>2, <2>3
  <1>8. phase' # "new"
    BY <1>2, <1>3 DEF StepPhases
  <1> QED
    BY <1>5, <1>6, <1>7, <1>8 DEF Ledger

LEMMA NextLedger == IInv /\ [Next]_vars => Ledger'
  <1> SUFFICES ASSUME IInv, [Next]_vars PROVE Ledger'
    OBVIOUS
  <1> USE DEF IInv
  <1>1. CASE Start
    <2>1. steps' = << >> /\ status' = status /\ phase' # "new" /\ steps = << >>
      BY <1>1 DEF Start, Ledger
    <2> QED
      BY <2>1 DEF Ledger, FailedAt, RunFailing
  <1>2. CASE StartMain
    <2>1. /\ steps' = steps /\ status' = status /\ cur' = NoStep
          /\ phase = "setup" /\ phase' = "main"
      BY <1>2 DEF StartMain, result, PhaseOver
    <2> QED
      BY <2>1, MoveOnLedger, RankOrder DEF StepPhases
  <1>3. CASE StartTeardown
    <2>1. /\ steps' = steps /\ status' = status /\ cur' = NoStep
          /\ phase = "main" /\ phase' = "teardown"
      BY <1>3 DEF StartTeardown, result, PhaseOver
    <2> QED
      BY <2>1, MoveOnLedger, RankOrder DEF StepPhases
  <1>4. CASE NextBatch
    <2>1. /\ steps' = steps /\ status' = status /\ phase' = phase
          /\ cur' = NoStep
          /\ left' \cup batch' \subseteq left \cup batch
      BY <1>4, BatchOfType DEF NextBatch, result
    <2> QED
      BY <2>1, HandOutLedger
  <1>5. ASSUME NEW i \in batch, SkipBlocked(i) PROVE Ledger'
    BY <1>5, HandOutLedger DEF SkipBlocked, result
  <1>6. CASE BeginNext
    <2>1. PICK i \in left : left' = left \ {i} /\ BeginStep(i)
      BY <1>6 DEF BeginNext
    <2>2. /\ i \in Nat /\ cur' = FreshStep(i) /\ cur'.idx = i
          /\ cur'.status = "running"
      BY <2>1, FreshStepType DEF BeginStep, TypeInv, TypeOK
    <2>3. cur' # NoStep
      BY <2>2 DEF NoStep
    <2>4. /\ steps' = steps /\ status' = status /\ phase' = phase
          /\ left' \cup batch' \subseteq left \cup batch
      BY <1>6, <2>1 DEF BeginNext, BeginStep, result
    <2> QED
      BY <2>2, <2>3, <2>4, HandOutLedger
  <1>7. ASSUME NEW i \in batch, BeginInBatch(i) PROVE Ledger'
    <2>1. /\ i \in Nat /\ cur' = FreshStep(i) /\ cur'.idx = i
          /\ cur'.status = "running"
      BY <1>7, FreshStepType DEF BeginInBatch, BeginStep, TypeInv, TypeOK
    <2>2. cur' # NoStep
      BY <2>1 DEF NoStep
    <2>3. /\ steps' = steps /\ status' = status /\ phase' = phase
          /\ left' \cup batch' \subseteq left \cup batch
      BY <1>7 DEF BeginInBatch, BeginStep, result
    <2> QED
      BY <2>1, <2>2, <2>3, HandOutLedger
  <1>8. CASE Attempt
    <2>1. cur' # NoStep /\ cur # NoStep /\ cur'.idx = cur.idx
      BY <1>8, AttemptKeepsStep DEF IInv
    <2>2. /\ steps' = steps /\ status' = status /\ phase' = phase
          /\ left' = left /\ batch' = batch
      BY <1>8 DEF Attempt, result
    <2> QED
      BY <2>1, <2>2, HandOutLedger
  <1>9. CASE SkipByWhen
    BY <1>9, ReportLedger DEF SkipByWhen
  <1>10. CASE EndStep
    BY <1>10, FinalStatusType, ReportLedger DEF EndStep
  <1>11. CASE Finalize
    <2>1. /\ phase' = "done" /\ steps' = steps /\ status' = status
      BY <1>11 DEF Finalize, result
    <2> QED
      BY <2>1 DEF Ledger, Behind, RunFailing
  <1>12. CASE UNCHANGED vars
    BY <1>12 DEF vars, result, Ledger, Behind, RunFailing, FailedAt
  <1> QED
    BY <1>1, <1>2, <1>3, <1>4, <1>5, <1>6, <1>7, <1>8, <1>9, <1>10, <1>11,
       <1>12 DEF Next

LEMMA Invariance == Spec => []IInv
  <1>1. Init => IInv
    BY InitTypeInv, InitLedger DEF IInv
  <1>2. IInv /\ [Next]_vars => IInv'
    BY NextTypeInv, NextLedger DEF IInv
  <1> QED
    BY <1>1, <1>2, PTL DEF Spec

-----------------------------------------------------------------------------

(* An action that leaves the step in flight, the results and the status    *)
(* alone and does not end the run is no step of the contract.              *)
LEMMA Stutters ==
  ASSUME OpenStep' = OpenStep, steps' = steps,
         phase # "done", phase' # "done"
  PROVE  UNCHANGED Contract!contractVars
  BY DEF Contract!contractVars, ReportSoFar, VerdictGiven, Brief

(* Beginning a step that was still to be handed out opens it.              *)
LEMMA BeginOpens ==
  ASSUME IInv, phase \in StepPhases, cur = NoStep, NEW i \in left \cup batch,
         cur' = FreshStep(i), phase' = phase, steps' = steps
  PROVE  Contract!Open
  <1>1. i \in DOMAIN manifest[phase] /\ i \in Nat
    BY DEF IInv, TypeInv, TypeOK, Placed
  <1>2. i \in Index
    BY <1>1 DEF Index, IInv, TypeInv, TypeOK
  <1>3. cur'.idx = i /\ cur' # NoStep
    BY <1>1, FreshStepType DEF NoStep
  <1>4. OpenStep = {} /\ OpenStep' = {<<phase, i>>}
    BY <1>3 DEF OpenStep
  <1>5. VerdictGiven = "none" /\ VerdictGiven' = "none"
    BY DEF VerdictGiven, StepPhases
  <1>6. ReportSoFar' = ReportSoFar
    BY DEF ReportSoFar, Brief
  <1>7. Contract!MayOpen(phase, i)
    <2>1. phase = "main" => ~ Contract!Fails(ReportSoFar, {"setup"})
      BY DEF IInv, Ledger, FailedAt, ReportSoFar, Brief, Failures,
             Contract!Fails, Contract!Failures
    <2>2. ASSUME NEW k \in DOMAIN steps
          PROVE  \/ Rank[steps[k].phase] < Rank[phase]
                 \/ steps[k].phase = phase /\ steps[k].idx # i
      BY DEF IInv, Ledger, Behind, StepPhases
    <2> QED
      BY <2>1, <2>2 DEF Contract!MayOpen, ReportSoFar, Brief, Rank
  <1>8. phase \in Contract!Phases
    BY DEF StepPhases, Contract!Phases
  <1> QED
    BY <1>2, <1>4, <1>5, <1>6, <1>7, <1>8 DEF Contract!Open

(* Reporting the step in flight closes it.                                 *)
LEMMA ReportCloses ==
  ASSUME IInv, cur # NoStep,
         NEW st \in {"passed", "skipped", "failed", "error"}, Report(st)
  PROVE  Contract!Close
  <1> DEFINE closed == [phase |-> phase, idx |-> cur.idx, status |-> st]
  <1>1. /\ phase \in StepPhases
        /\ cur.idx \in DOMAIN manifest[phase]
        /\ cur' = NoStep
    BY DEF IInv, TypeInv, Placed, Report
  <1>2. phase' \in StepPhases
    BY <1>1 DEF Report, AbortSetup, StepPhases
  <1>3. /\ cur.idx \in Index
        /\ phase \in Contract!Phases
        /\ st \in Contract!StepStatuses
    BY <1>1 DEF Index, IInv, TypeInv, TypeOK, StepPhases, Contract!Phases,
                Contract!StepStatuses, Contract!Failures
  <1>4. OpenStep = {<<phase, cur.idx>>} /\ OpenStep' = {}
    BY <1>1 DEF OpenStep
  <1>5. VerdictGiven' = VerdictGiven
    BY <1>1, <1>2 DEF VerdictGiven, StepPhases
  <1>6. ReportSoFar' = Append(ReportSoFar, closed)
    <2>1. /\ steps \in Seq(StepResult)
          /\ steps' = Append(steps, NewResult(st))
          /\ Brief(NewResult(st)) = closed
      BY ReportAppends DEF IInv, TypeInv, TypeOK, NewResult, Brief
    <2> QED
      BY <2>1 DEF ReportSoFar
  <1> QED
    BY <1>3, <1>4, <1>5, <1>6 DEF Contract!Close

(* The final status is the verdict that follows from the report.           *)
LEMMA FinalizeFinishes ==
  ASSUME IInv, Finalize
  PROVE  Contract!Finish
  <1>1. /\ phase \in {"main", "teardown"} /\ phase' = "done"
        /\ cur = NoStep /\ cur' = NoStep
        /\ steps' = steps /\ status' = status
    BY DEF Finalize, RunOver, PhaseOver, result
  <1>2. status = "failed" <=> Contract!Fails(ReportSoFar, {"setup", "main"})
    <2>1. \A k \in DOMAIN steps :
            RunFailing(k) <=> /\ ReportSoFar[k].phase \in {"setup", "main"}
                              /\ ReportSoFar[k].status \in Contract!Failures
      BY ReportedType DEF IInv, RunFailing, ReportSoFar, Brief, Failures,
                          StepPhases, Contract!Failures
    <2>2. DOMAIN ReportSoFar = DOMAIN steps
      BY DEF ReportSoFar
    <2> QED
      BY <2>1, <2>2 DEF IInv, Ledger, Contract!Fails
  <1>3. status = Contract!Verdict(ReportSoFar)
    BY <1>2 DEF IInv, TypeInv, TypeOK, Contract!Verdict
  <1>4. VerdictGiven = "none" /\ VerdictGiven' = status
    BY <1>1 DEF VerdictGiven
  <1>5. OpenStep = {} /\ OpenStep' = {} /\ ReportSoFar' = ReportSoFar
    BY <1>1 DEF OpenStep, ReportSoFar, Brief
  <1> QED
    BY <1>3, <1>4, <1>5 DEF Contract!Finish

LEMMA StepKeepsContract ==
  IInv /\ [Next]_vars => [Contract!Next]_(Contract!contractVars)
  <1> SUFFICES ASSUME IInv, [Next]_vars
               PROVE  [Contract!Next]_(Contract!contractVars)
    OBVIOUS
  <1>1. CASE Start
    <2>1. cur = NoStep /\ cur' = NoStep
      BY <1>1 DEF Start, IInv, TypeInv, Placed, StepPhases
    <2> QED
      BY <1>1, <2>1, Stutters DEF Start, OpenStep
  <1>2. CASE StartMain
    BY <1>2, Stutters DEF StartMain, PhaseOver, OpenStep, result
  <1>3. CASE StartTeardown
    BY <1>3, Stutters DEF StartTeardown, PhaseOver, OpenStep, result
  <1>4. CASE NextBatch
    BY <1>4, Stutters DEF NextBatch, OpenStep, result
  <1>5. ASSUME NEW i \in batch, SkipBlocked(i)
        PROVE  UNCHANGED Contract!contractVars
    <2>1. phase = "main"
      BY DEF IInv, TypeInv, Placed
    <2> QED
      BY <1>5, <2>1, Stutters DEF SkipBlocked, OpenStep, result
  <1>6. CASE BeginNext
    BY <1>6, BeginOpens DEF BeginNext, BeginStep, result, Contract!Next
  <1>7. ASSUME NEW i \in batch, BeginInBatch(i)
        PROVE  Contract!Next
    <2>1. phase = "main"
      BY DEF IInv, TypeInv, Placed
    <2> QED
      BY <1>7, <2>1, BeginOpens
      DEF BeginInBatch, BeginStep, result, StepPhases, Contract!Next
  <1>8. CASE Attempt
    <2>1. cur # NoStep /\ cur' # NoStep /\ cur'.idx = cur.idx
      BY <1>8, AttemptKeepsStep DEF IInv
    <2>2. phase \in StepPhases /\ phase' = phase /\ steps' = steps
      BY <1>8, <2>1 DEF Attempt, result, IInv, TypeInv, Placed
    <2> QED
      BY <2>1, <2>2, Stutters DEF OpenStep, StepPhases
  <1>9. CASE SkipByWhen
    BY <1>9, ReportCloses DEF SkipByWhen, Contract!Next
  <1>10. CASE EndStep
    BY <1>10, FinalStatusType, ReportCloses DEF EndStep, IInv, Contract!Next
  <1>11. CASE Finalize
    BY <1>11, FinalizeFinishes DEF Contract!Next
  <1>12. CASE UNCHANGED vars
    BY <1>12 DEF vars, result, Contract!contractVars, OpenStep, ReportSoFar,
                 VerdictGiven, Brief
  <1> QED
    BY <1>1, <1>2, <1>3, <1>4, <1>5, <1>6, <1>7, <1>8, <1>9, <1>10, <1>11,
       <1>12 DEF Next

(* Every run keeps the contract of its host, for every set of manifests    *)
(* and requests: a step is reported at most once and in its phase, nothing *)
(* of the main phase starts once a setup step failed, and the run's status *)
(* is "failed" exactly when a reported step outside teardown failed.       *)
THEOREM RunKeepsContract == Spec => ImplementsContract
  <1>1. Init => Contract!Init
    BY DEF Init, Contract!Init, OpenStep, ReportSoFar, VerdictGiven
  <1>2. IInv /\ [Next]_vars => [Contract!Next]_(Contract!contractVars)
    BY StepKeepsContract
  <1> QED
    BY <1>1, <1>2, Invariance, PTL DEF Spec, ImplementsContract, Contract!Spec

-----------------------------------------------------------------------------
(***************************************************************************)
(* The steps of a run: none is forgotten, teardown runs in full, a step of *)
(* a DAG runs behind its dependencies and never behind a failed one, and   *)
(* the extracts handed to the host are those of the shared pool.           *)
(***************************************************************************)
(* Where a step of the phase is while the run has not finished with it.    *)
OpenIdx == IF cur = NoStep THEN {} ELSE {cur.idx}
Pending == left \cup batch \cup OpenIdx

SetupFailed == \E k \in DOMAIN steps : FailedAt(k, "setup")

BlockedBy(i) ==
  \E k \in DOMAIN steps :
    /\ FailedAt(k, "main")
    /\ manifest.main[steps[k].idx].name \in manifest.main[i].dependsOn

SetupAccounted ==
  phase # "new" /\ ~ req.resume =>
    \A i \in Indices(manifest.setup) :
      \/ Reported("setup", i)
      \/ phase = "setup" /\ i \in Pending
      \/ \E k \in DOMAIN steps : FailedAt(k, "setup") /\ steps[k].idx < i

MainAccounted ==
  phase \in {"main", "teardown", "done"} =>
    \A i \in Indices(manifest.main) :
      \/ Reported("main", i)
      \/ phase = "main" /\ i \in Pending
      \/ req.resume /\ i <= req.from
      \/ SetupFailed
      \/ UsesDAG /\ BlockedBy(i)

TeardownAccounted ==
  phase \in {"teardown", "done"} /\ ~ req.resume =>
    \A i \in Indices(manifest.teardown) :
      \/ Reported("teardown", i)
      \/ phase = "teardown" /\ i \in Pending

(* Setup goes by index; a resumed run has no setup and no teardown.        *)
InSetup ==
  /\ phase = "setup" /\ cur # NoStep => \A j \in left : cur.idx < j
  /\ phase \in {"setup", "teardown"} => ~ req.resume

Accounts == SetupAccounted /\ MainAccounted /\ TeardownAccounted /\ InSetup

(* runDAG's map holds the names of the failed main steps, no others.       *)
Names ==
  /\ \A n \in failedSteps : \E k \in DOMAIN steps :
       FailedAt(k, "main") /\ manifest.main[steps[k].idx].name = n
  /\ UsesDAG => \A k \in DOMAIN steps : FailedAt(k, "main") =>
       manifest.main[steps[k].idx].name \in failedSteps

(* Batches are handed out to runDAG only.                                  *)
InBatch == batch # {} => UsesDAG

(* What was not blocked when it began is not blocked when it ends.         *)
Unblocked ==
  UsesDAG /\ phase = "main" /\ cur # NoStep =>
    manifest.main[cur.idx].dependsOn \cap failedSteps = {}

(* Without cycles a batch waits for nothing that is not over.              *)
Waits ==
  UsesDAG /\ phase = "main" /\ Acyclic(manifest.main) =>
    \A i \in batch \cup OpenIdx : Deps(manifest.main, i) \cap Pending = {}

(* The result's extracts with those of the step in flight are the pool.    *)
Pooled ==
  \A k \in Key :
    LET e == Overlay(extracts, cur.found)[k]
    IN IF e = "none" THEN pool[k] \in {"none", "preload"} ELSE pool[k] = e

-----------------------------------------------------------------------------

(* Nothing but a report changes the results; it adds one and keeps the     *)
(* others, and what was said of them still holds.                          *)
LEMMA ReportGrows ==
  ASSUME TypeInv, cur # NoStep,
         NEW st \in {"passed", "skipped", "failed", "error"}, Report(st)
  PROVE  /\ UNCHANGED <<manifest, req, batch>> /\ cur' = NoStep
         /\ DOMAIN steps' = DOMAIN steps \cup {Len(steps) + 1}
         /\ Len(steps) \in Nat /\ DOMAIN steps = 1 .. Len(steps)
         /\ Len(steps') = Len(steps) + 1
         /\ \A k \in DOMAIN steps : steps'[k] = steps[k]
         /\ steps'[Len(steps) + 1].phase = phase
         /\ steps'[Len(steps) + 1].idx = cur.idx
         /\ steps'[Len(steps) + 1].status = st
  <1>1. steps \in Seq(StepResult)
    BY DEF TypeInv, TypeOK
  <1>2. UNCHANGED <<manifest, req, batch>> /\ cur' = NoStep
    BY DEF Report, input
  <1> QED
    BY <1>1, <1>2, ReportAppends DEF NewResult

LEMMA SaidStays ==
  ASSUME DOMAIN steps \subseteq DOMAIN steps', UNCHANGED <<manifest, req>>,
         \A k \in DOMAIN steps : steps'[k] = steps[k]
  PROVE  /\ \A ph, i : Reported(ph, i) => Reported(ph, i)'
         /\ \A ph : \A k \in DOMAIN steps : FailedAt(k, ph) <=> FailedAt(k, ph)'
         /\ SetupFailed => SetupFailed'
         /\ \A i : BlockedBy(i) => BlockedBy(i)'
         /\ UsesDAG' = UsesDAG
  BY DEF Reported, FailedAt, SetupFailed, BlockedBy, UsesDAG

LEMMA NoStepOpen ==
  ASSUME NEW i \in Nat, cur' = FreshStep(i)
  PROVE  cur' # NoStep /\ OpenIdx' = {i} /\ cur'.idx = i
  <1>1. cur'.idx = i /\ cur'.status = "running" /\ NoStep.status = "none"
    BY FreshStepType DEF NoStep
  <1> QED
    BY <1>1 DEF OpenIdx

(* Handing out steps of a phase loses none.                                *)
LEMMA HandOutAccounts ==
  ASSUME Accounts, UNCHANGED <<manifest, req, phase, steps>>,
         \A i \in Pending \ Pending' : phase = "main" /\ UsesDAG /\ BlockedBy(i),
         phase = "setup" /\ cur' # NoStep => \A j \in left' : cur'.idx < j
  PROVE  Accounts'
  <1> USE DEF Accounts, Indices
  <1>1. /\ \A ph, i : Reported(ph, i) <=> Reported(ph, i)'
        /\ \A ph : \A k \in DOMAIN steps : FailedAt(k, ph) <=> FailedAt(k, ph)'
        /\ SetupFailed <=> SetupFailed'
        /\ \A i : BlockedBy(i) <=> BlockedBy(i)'
        /\ UsesDAG' = UsesDAG
    BY DEF Reported, FailedAt, SetupFailed, BlockedBy, UsesDAG
  <1>2. SetupAccounted'
    BY <1>1 DEF SetupAccounted
  <1>3. MainAccounted'
    BY <1>1 DEF MainAccounted
  <1>4. TeardownAccounted'
    BY <1>1 DEF TeardownAccounted
  <1>5. InSetup'
    BY DEF InSetup
  <1> QED
    BY <1>2, <1>3, <1>4, <1>5

(* A reported step is no longer pending, and when it aborts setup the      *)
(* steps left there are behind it.                                         *)
LEMMA ReportAccounts ==
  ASSUME IInv, Accounts, cur # NoStep,
         NEW st \in {"passed", "skipped", "failed", "error"}, Report(st)
  PROVE  Accounts'
  <1> USE DEF IInv, Accounts, Indices
  <1>0. PICK n : n = Len(steps) + 1
    OBVIOUS
  <1>1. /\ UNCHANGED <<manifest, req, batch>> /\ cur' = NoStep
        /\ DOMAIN steps' = DOMAIN steps \cup {n}
        /\ \A k \in DOMAIN steps : steps'[k] = steps[k]
        /\ steps'[n].phase = phase /\ steps'[n].idx = cur.idx /\ steps'[n].status = st
    BY <1>0, ReportGrows
  <1>2. /\ \A ph, i : Reported(ph, i) => Reported(ph, i)'
        /\ \A ph : \A k \in DOMAIN steps : FailedAt(k, ph) <=> FailedAt(k, ph)'
        /\ SetupFailed => SetupFailed'
        /\ \A i : BlockedBy(i) => BlockedBy(i)'
        /\ UsesDAG' = UsesDAG
    BY <1>1, SaidStays
  <1>3. \A ph, i : ph = phase /\ i = cur.idx => Reported(ph, i)'
    BY <1>1 DEF Reported
  <1>4. /\ phase \in StepPhases /\ cur.idx \in DOMAIN manifest[phase]
        /\ cur.idx \in Nat
    BY DEF TypeInv, Placed, TypeOK, InFlight
  <1>5. OpenIdx = {cur.idx} /\ OpenIdx' = {}
    BY <1>1 DEF OpenIdx
  <1>6. CASE Aborts(st)
    <2>1. /\ phase = "setup" /\ phase' = "teardown"
          /\ left' = DOMAIN manifest.teardown /\ FailedAt(n, "setup")'
      BY <1>1, <1>6 DEF Report, AbortSetup, Aborts, FailedAt
    <2>2. batch = {}
      BY <2>1 DEF TypeInv, Placed
    <2>3. SetupFailed'
      BY <1>1, <2>1 DEF SetupFailed
    <2>4. SetupAccounted'
      <3> SUFFICES ASSUME NEW i \in DOMAIN manifest.setup
                   PROVE  \/ Reported("setup", i)'
                          \/ \E k \in DOMAIN steps' : FailedAt(k, "setup")' /\ steps'[k].idx < i
        BY <1>1, <2>1 DEF SetupAccounted
      <3>1. CASE i \in left
        BY <1>1, <2>1, <3>1 DEF InSetup
      <3>2. CASE i = cur.idx
        BY <1>3, <2>1, <3>2
      <3>3. CASE i \notin Pending
        BY <1>1, <1>2, <2>1, <3>3 DEF SetupAccounted, InSetup
      <3> QED
        BY <1>5, <2>2, <3>1, <3>2, <3>3 DEF Pending
    <2>5. MainAccounted' /\ TeardownAccounted' /\ InSetup'
      BY <1>1, <2>1, <2>3 DEF MainAccounted, TeardownAccounted, InSetup, Pending
    <2> QED
      BY <2>4, <2>5
  <1>7. CASE ~ Aborts(st)
    <2>1. UNCHANGED <<phase, left>>
      BY <1>7 DEF Report
    <2>2. \A i \in Pending \ Pending' : i = cur.idx
      BY <1>1, <1>5, <2>1 DEF Pending
    <2>3. SetupAccounted'
      BY <1>1, <1>2, <1>3, <2>1, <2>2 DEF SetupAccounted
    <2>4. MainAccounted'
      BY <1>1, <1>2, <1>3, <2>1, <2>2 DEF MainAccounted
    <2>5. TeardownAccounted'
      BY <1>1, <1>2, <1>3, <1>4, <2>1, <2>2 DEF TeardownAccounted, StepPhases
    <2>6. InSetup'
      BY <1>1, <2>1 DEF InSetup
    <2> QED
      BY <2>3, <2>4, <2>5, <2>6
  <1> QED
    BY <1>6, <1>7

(* The run moves on to the next phase when nothing of the last is pending, *)
(* or ends.                                                                *)
LEMMA MoveOnAccounts ==
  ASSUME IInv, Accounts,
         Start \/ StartMain \/ StartTeardown \/ Finalize
  PROVE  Accounts'
  <1> USE DEF Accounts, Indices
  <1>1. CASE Start
    <2>1. /\ UNCHANGED <<manifest, req, batch, cur>> /\ steps = << >> /\ steps' = << >>
          /\ cur = NoStep
      BY <1>1 DEF Start, input, IInv, Ledger, TypeInv, Placed, StepPhases
    <2>2. req \in [resume : BOOLEAN, from : Nat, preload : SUBSET Key]
      BY RequestsAssumption DEF IInv, TypeInv, TypeOK
    <2>3. Len(manifest.main) \in Nat /\ DOMAIN manifest.main = 1 .. Len(manifest.main)
      BY IndicesType DEF IInv, TypeInv, TypeOK, StepPhases
    <2>4. \A i \in DOMAIN manifest.main : i \in ResumeSteps \/ i <= req.from
      BY <2>2, <2>3 DEF ResumeSteps
    <2> QED
      BY <1>1, <2>1, <2>2, <2>4
      DEF Start, SetupAccounted, MainAccounted, TeardownAccounted, InSetup, Pending
  <1>2. ASSUME StartMain \/ StartTeardown \/ Finalize
        PROVE  /\ UNCHANGED <<manifest, req, steps>> /\ cur' = cur
               /\ Pending = {} /\ cur = NoStep
    BY <1>2 DEF StartMain, StartTeardown, Finalize, RunOver, PhaseOver, input,
                result, Pending, OpenIdx
  <1>3. ASSUME UNCHANGED <<manifest, req, steps>>
        PROVE  /\ \A ph, i : Reported(ph, i) <=> Reported(ph, i)'
               /\ \A ph : \A k \in DOMAIN steps : FailedAt(k, ph) <=> FailedAt(k, ph)'
               /\ SetupFailed <=> SetupFailed'
               /\ \A i : BlockedBy(i) <=> BlockedBy(i)'
               /\ UsesDAG' = UsesDAG
    BY <1>3 DEF Reported, FailedAt, SetupFailed, BlockedBy, UsesDAG
  <1>4. CASE StartMain
    <2>1. phase = "setup" /\ phase' = "main" /\ left' = DOMAIN manifest.main
      BY <1>4 DEF StartMain
    <2>2. left' \subseteq Pending'
      BY DEF Pending
    <2> QED
      BY <1>2, <1>3, <1>4, <2>1, <2>2
      DEF SetupAccounted, MainAccounted, TeardownAccounted, InSetup
  <1>5. CASE StartTeardown
    <2>1. /\ phase = "main" /\ phase' = "teardown" /\ ~ req.resume
          /\ left' = DOMAIN manifest.teardown
      BY <1>5 DEF StartTeardown
    <2>2. left' \subseteq Pending'
      BY DEF Pending
    <2> QED
      BY <1>2, <1>3, <1>5, <2>1, <2>2
      DEF SetupAccounted, MainAccounted, TeardownAccounted, InSetup
  <1>6. CASE Finalize
    <2>1. phase = (IF req.resume THEN "main" ELSE "teardown") /\ phase' = "done"
      BY <1>6 DEF Finalize, RunOver
    <2> QED
      BY <1>2, <1>3, <1>6, <2>1
      DEF SetupAccounted, MainAccounted, TeardownAccounted, InSetup
  <1> QED
    BY <1>1, <1>4, <1>5, <1>6

(* What an attempt changes is the step in flight and the pool.             *)
LEMMA AttemptOpen ==
  ASSUME TypeInv, Attempt
  PROVE  /\ UNCHANGED <<manifest, req, phase, left, batch, failedSteps, steps, extracts>>
         /\ cur # NoStep /\ cur' # NoStep /\ cur'.idx = cur.idx
         /\ OpenIdx' = OpenIdx
  BY AttemptKeepsStep DEF Attempt, input, result, OpenIdx

LEMMA BeginOpen ==
  ASSUME TypeInv, NEW i \in left \cup batch, BeginStep(i), cur = NoStep
  PROVE  /\ UNCHANGED <<manifest, req, phase, failedSteps, steps, extracts, pool>>
         /\ cur' # NoStep /\ cur'.idx = i /\ cur'.found = NoStep.found
         /\ OpenIdx = {} /\ OpenIdx' = {i}
  <1>1. i \in Nat /\ cur' = FreshStep(i)
    BY DEF TypeInv, TypeOK, BeginStep
  <1> QED
    BY <1>1, NoStepOpen DEF BeginStep, input, result, OpenIdx, FreshStep, NoStep

(* What blocks a step is a failed one that it names.                       *)
LEMMA BlockedIsBlockedBy ==
  ASSUME Names, NEW i, Blocked(i)
  PROVE  BlockedBy(i)
  BY DEF Names, Blocked, BlockedBy

LEMMA AccountsStep ==
  ASSUME IInv, Accounts, Names, InBatch, [Next]_vars
  PROVE  Accounts'
  <1>1. CASE Start \/ StartMain \/ StartTeardown \/ Finalize
    BY <1>1, MoveOnAccounts
  <1>2. CASE NextBatch
    <2>1. /\ UNCHANGED <<manifest, req, phase, steps, cur>> /\ cur = NoStep
          /\ batch' \subseteq left /\ left' = left \ batch' /\ batch = {}
      BY <1>2, BatchOfType DEF NextBatch, input, result
    <2>2. Pending \subseteq Pending'
      BY <2>1 DEF Pending, OpenIdx
    <2> QED
      BY <2>1, <2>2, HandOutAccounts
  <1>3. ASSUME NEW i \in batch, SkipBlocked(i) PROVE Accounts'
    <2>1. /\ UNCHANGED <<manifest, req, phase, steps, left, cur>> /\ cur = NoStep
          /\ batch' = batch \ {i} /\ Blocked(i) /\ phase = "main"
      BY <1>3 DEF SkipBlocked, input, result, IInv, TypeInv, Placed
    <2>2. UsesDAG
      BY DEF InBatch
    <2>3. \A j \in Pending \ Pending' : j = i
      BY <2>1 DEF Pending, OpenIdx
    <2> QED
      BY <2>1, <2>2, <2>3, BlockedIsBlockedBy, HandOutAccounts
  <1>4. CASE BeginNext
    <2>1. PICK i \in left : /\ \A j \in left : i <= j
                            /\ left' = left \ {i} /\ BeginStep(i)
                            /\ cur = NoStep /\ batch' = batch
      BY <1>4 DEF BeginNext
    <2>2. /\ UNCHANGED <<manifest, req, phase, steps>>
          /\ cur'.idx = i /\ OpenIdx = {} /\ OpenIdx' = {i}
      BY <2>1, BeginOpen DEF IInv
    <2>3. Pending' = Pending
      BY <2>1, <2>2 DEF Pending
    <2>4. \A j \in left' : i < j
      BY <2>1 DEF IInv, TypeInv, TypeOK
    <2> QED
      BY <2>1, <2>2, <2>3, <2>4, HandOutAccounts
  <1>5. ASSUME NEW i \in batch, BeginInBatch(i) PROVE Accounts'
    <2>1. /\ batch' = batch \ {i} /\ BeginStep(i) /\ cur = NoStep /\ left' = left
          /\ phase = "main"
      BY <1>5 DEF BeginInBatch, IInv, TypeInv, Placed
    <2>2. /\ UNCHANGED <<manifest, req, phase, steps>>
          /\ OpenIdx = {} /\ OpenIdx' = {i}
      BY <2>1, BeginOpen DEF IInv
    <2>3. Pending' = Pending
      BY <2>1, <2>2 DEF Pending
    <2> QED
      BY <2>1, <2>2, <2>3, HandOutAccounts
  <1>6. CASE Attempt
    <2>1. /\ UNCHANGED <<manifest, req, phase, left, batch, steps>>
          /\ cur # NoStep /\ cur'.idx = cur.idx /\ OpenIdx' = OpenIdx
      BY <1>6, AttemptOpen DEF IInv
    <2>2. Pending' = Pending
      BY <2>1 DEF Pending
    <2>3. phase = "setup" => \A j \in left' : cur'.idx < j
      BY <2>1 DEF Accounts, InSetup
    <2> QED
      BY <2>1, <2>2, <2>3, HandOutAccounts
  <1>7. CASE SkipByWhen
    BY <1>7, ReportAccounts DEF SkipByWhen
  <1>8. CASE EndStep
    BY <1>8, FinalStatusType, ReportAccounts DEF EndStep, IInv
  <1>9. CASE UNCHANGED vars
    <2>1. UNCHANGED <<manifest, req, phase, left, batch, cur, steps>>
      BY <1>9 DEF vars, input, result
    <2>2. Pending' = Pending
      BY <2>1 DEF Pending, OpenIdx
    <2> QED
      BY <2>1, <2>2, HandOutAccounts DEF Accounts, InSetup
  <1> QED
    BY <1>1, <1>2, <1>3, <1>4, <1>5, <1>6, <1>7, <1>8, <1>9 DEF Next

-----------------------------------------------------------------------------

(* Every step of the run but a report leaves the results alone.            *)
LEMMA OnlyReports ==
  ASSUME IInv, [Next]_vars
  PROVE  \/ UNCHANGED <<manifest, req, failedSteps, steps, extracts>>
         \/ /\ cur # NoStep
            /\ \E st \in {"passed", "skipped", "failed", "error"} : Report(st)
  <1>1. CASE SkipByWhen
    BY <1>1 DEF SkipByWhen
  <1>2. CASE EndStep
    BY <1>2, FinalStatusType DEF EndStep, IInv
  <1>3. CASE ~ SkipByWhen /\ ~ EndStep
    BY <1>3 DEF Next, vars, input, result, Start, StartMain, StartTeardown, NextBatch,
                SkipBlocked, BeginNext, BeginInBatch, BeginStep, Attempt, Finalize
  <1> QED
    BY <1>1, <1>2, <1>3

LEMMA NamesStep ==
  ASSUME IInv, Names, [Next]_vars
  PROVE  Names'
  <1>1. CASE UNCHANGED <<manifest, req, failedSteps, steps, extracts>>
    BY <1>1 DEF Names, FailedAt, UsesDAG
  <1>2. ASSUME cur # NoStep,
               NEW st \in {"passed", "skipped", "failed", "error"}, Report(st)
        PROVE  Names'
    <2>0. PICK n : n = Len(steps) + 1
      OBVIOUS
    <2>1. /\ UNCHANGED <<manifest, req, batch>>
          /\ DOMAIN steps' = DOMAIN steps \cup {n}
          /\ \A k \in DOMAIN steps : steps'[k] = steps[k]
          /\ steps'[n].phase = phase /\ steps'[n].idx = cur.idx /\ steps'[n].status = st
      BY <1>2, <2>0, ReportGrows DEF IInv
    <2>2. failedSteps' = IF st \in Failures /\ phase = "main" /\ UsesDAG
                           THEN failedSteps \cup {manifest.main[cur.idx].name}
                           ELSE failedSteps
      BY <1>2 DEF Report, Step
    <2>3. \A k \in DOMAIN steps : FailedAt(k, "main") <=> FailedAt(k, "main")'
      BY <2>1 DEF FailedAt
    <2>4. FailedAt(n, "main")' <=> phase = "main" /\ st \in Failures
      BY <2>1 DEF FailedAt
    <2>5. UsesDAG' = UsesDAG
      BY <2>1 DEF UsesDAG
    <2> QED
      BY <2>1, <2>2, <2>3, <2>4, <2>5 DEF Names
  <1> QED
    BY <1>1, <1>2, OnlyReports

LEMMA InBatchStep ==
  ASSUME IInv, InBatch, [Next]_vars
  PROVE  InBatch'
  <1>1. UsesDAG' = UsesDAG
    BY OnlyReports DEF UsesDAG, Report, input
  <1>2. CASE NextBatch
    BY <1>1, <1>2 DEF NextBatch, InBatch
  <1>3. CASE ~ NextBatch
    <2>1. batch' \subseteq batch
      BY <1>3 DEF Next, vars, Start, StartMain, StartTeardown, SkipBlocked, BeginNext,
                  BeginInBatch, Attempt, SkipByWhen, EndStep, Report, Finalize
    <2> QED
      BY <1>1, <2>1 DEF InBatch
  <1> QED
    BY <1>2, <1>3

(* What the run does to the step in flight: it leaves it, begins one that  *)
(* was handed out, makes an attempt, or closes it.                         *)
LEMMA OpenSteps ==
  ASSUME IInv, [Next]_vars
  PROVE  \/ cur' = NoStep
         \/ UNCHANGED <<manifest, req, phase, failedSteps, left, batch, cur>>
         \/ Attempt
         \/ BeginNext
         \/ \E i \in batch : BeginInBatch(i)
  BY DEF Next, vars, Start, StartMain, StartTeardown, NextBatch, SkipBlocked, PhaseOver,
         SkipByWhen, EndStep, Report, Finalize, RunOver, IInv, TypeInv, Placed, StepPhases

LEMMA UnblockedStep ==
  ASSUME IInv, Unblocked, [Next]_vars
  PROVE  Unblocked'
  <1>1. UsesDAG' = UsesDAG
    BY OnlyReports DEF UsesDAG, Report, input
  <1>2. CASE cur' = NoStep
    BY <1>2 DEF Unblocked
  <1>3. CASE UNCHANGED <<manifest, req, phase, failedSteps, left, batch, cur>>
    BY <1>1, <1>3 DEF Unblocked
  <1>4. CASE Attempt
    BY <1>1, <1>4, AttemptOpen DEF Unblocked, IInv
  <1>5. CASE BeginNext
    BY <1>1, <1>5 DEF Unblocked, BeginNext, BeginStep
  <1>6. ASSUME NEW i \in batch, BeginInBatch(i) PROVE Unblocked'
    BY <1>6, BeginOpen DEF Unblocked, BeginInBatch, Blocked, IInv
  <1> QED
    BY <1>2, <1>3, <1>4, <1>5, <1>6, OpenSteps

(* Handing out fewer and waiting for fewer keeps a batch ready.            *)
LEMMA StillWaits ==
  ASSUME Waits, UNCHANGED <<manifest, req, phase>>,
         batch' \cup OpenIdx' \subseteq batch \cup OpenIdx, Pending' \subseteq Pending
  PROVE  Waits'
  <1>1. UsesDAG' = UsesDAG
    BY DEF UsesDAG
  <1> QED
    BY <1>1 DEF Waits

(* Without a cycle a batch is what waits for nothing that is left.         *)
LEMMA AcyclicBatch ==
  ASSUME IInv, NextBatch, Acyclic(manifest.main), NEW i \in batch'
  PROVE  Deps(manifest.main, i) \cap left = {}
  <1>1. left \in SUBSET DOMAIN manifest.main /\ left # {}
    BY DEF NextBatch, IInv, TypeInv, Placed, StepPhases
  <1>2. Ready(manifest.main, left) # {}
    BY <1>1 DEF Acyclic
  <1> QED
    BY <1>2 DEF NextBatch, BatchOf, Ready

LEMMA WaitsStep ==
  ASSUME IInv, Waits, [Next]_vars
  PROVE  Waits'
  <1>1. CASE Start \/ StartMain \/ StartTeardown \/ Finalize
    <2>1. \/ phase' # "main"
          \/ req'.resume
          \/ batch' \cup OpenIdx' = {}
      BY <1>1 DEF Start, StartMain, StartTeardown, Finalize, PhaseOver, OpenIdx, input
    <2> QED
      BY <2>1 DEF Waits, UsesDAG
  <1>2. CASE NextBatch
    <2>1. /\ UNCHANGED <<manifest, req, phase>>
          /\ OpenIdx' = {} /\ Pending' = left /\ batch' \subseteq left
      BY <1>2, BatchOfType DEF NextBatch, input, OpenIdx, Pending
    <2>2. Acyclic(manifest.main) =>
            \A i \in batch' : Deps(manifest.main, i) \cap left = {}
      BY <1>2, AcyclicBatch
    <2> QED
      BY <2>1, <2>2 DEF Waits
  <1>3. ASSUME NEW i \in batch, SkipBlocked(i) PROVE Waits'
    BY <1>3, StillWaits DEF SkipBlocked, input, Pending, OpenIdx
  <1>4. CASE BeginNext
    <2>1. phase' # "main" \/ ~ UsesDAG'
      BY <1>4, OnlyReports DEF BeginNext, BeginStep, input, UsesDAG
    <2> QED
      BY <2>1 DEF Waits
  <1>5. ASSUME NEW i \in batch, BeginInBatch(i) PROVE Waits'
    <2>1. /\ UNCHANGED <<manifest, req, phase, left>> /\ batch' = batch \ {i}
          /\ OpenIdx' = {i} /\ OpenIdx = {}
      BY <1>5, BeginOpen DEF BeginInBatch, IInv
    <2> QED
      BY <2>1, StillWaits DEF Pending
  <1>6. CASE Attempt
    <2>1. UNCHANGED <<manifest, req, phase, left, batch>> /\ OpenIdx' = OpenIdx
      BY <1>6, AttemptOpen DEF IInv
    <2> QED
      BY <2>1, StillWaits DEF Pending
  <1>7. ASSUME cur # NoStep,
               NEW st \in {"passed", "skipped", "failed", "error"}, Report(st)
        PROVE  Waits'
    <2>1. UNCHANGED <<manifest, req, batch>> /\ OpenIdx' = {}
      BY <1>7, ReportGrows DEF OpenIdx, IInv
    <2>2. phase' = "teardown" \/ UNCHANGED <<phase, left>>
      BY <1>7 DEF Report, AbortSetup
    <2> QED
      BY <2>1, <2>2, StillWaits DEF Pending, Waits
  <1>8. CASE UNCHANGED vars
    BY <1>8, StillWaits DEF vars, Pending, OpenIdx
  <1> QED
    BY <1>1, <1>2, <1>3, <1>4, <1>5, <1>6, <1>7, <1>8, FinalStatusType
    DEF Next, SkipByWhen, EndStep, IInv

LEMMA PooledStep ==
  ASSUME IInv, Pooled, [Next]_vars
  PROVE  Pooled'
  <1> USE DEF Pooled
  <1>1. cur = NoStep => \A k \in Key : Overlay(extracts, cur.found)[k] = extracts[k]
    BY DEF Overlay, NoStep
  <1>2. CASE UNCHANGED <<cur, pool, extracts>>
    BY <1>2 DEF Overlay
  <1>3. ASSUME cur = NoStep, cur'.found = NoStep.found, UNCHANGED <<pool, extracts>>
        PROVE  Pooled'
    BY <1>3 DEF Overlay, NoStep
  <1>4. CASE BeginNext
    BY <1>3, <1>4, BeginOpen DEF BeginNext, IInv
  <1>5. ASSUME NEW i \in batch, BeginInBatch(i) PROVE Pooled'
    BY <1>3, <1>5, BeginOpen DEF BeginInBatch, IInv
  <1>6. CASE Attempt
    <2>1. PICK got : /\ got \in [Key -> {"none", "met", "missed", "done", "error"}]
                     /\ pool' = Overlay(pool, got)
                     /\ cur'.found = Overlay(cur.found, got)
      <3>1. PICK o \in Outcomes[Step(phase, cur.idx).kind],
                 found \in SUBSET Step(phase, cur.idx).extract :
              LET got == [k \in Key |->
                            IF k \in found /\ o # "error" THEN o ELSE "none"]
              IN pool' = Overlay(pool, got) /\ cur' = AfterAttempt(o, got)
        BY <1>6 DEF Attempt
      <3>2. o \in {"met", "missed", "done", "error"}
        <4>1. Step(phase, cur.idx) \in StepDef
          BY <1>6, StepType DEF Attempt, IInv, TypeInv, TypeOK, Placed
        <4> QED
          BY <4>1, OutcomeType DEF StepDef
      <3> QED
        BY <3>1, <3>2 DEF AfterAttempt
    <2>2. extracts' = extracts
      BY <1>6 DEF Attempt, result
    <2> QED
      BY <2>1, <2>2 DEF Overlay
  <1>7. ASSUME cur # NoStep,
               NEW st \in {"passed", "skipped", "failed", "error"}, Report(st)
        PROVE  Pooled'
    <2>1. /\ pool' = pool /\ cur' = NoStep
          /\ extracts' = Overlay(extracts, cur.found)
      BY <1>7 DEF Report, Merged
    <2> QED
      BY <2>1 DEF Overlay, NoStep
  <1>8. CASE \/ Start \/ StartMain \/ StartTeardown \/ NextBatch \/ Finalize
             \/ \E i \in batch : SkipBlocked(i)
             \/ UNCHANGED vars
    <2>1. UNCHANGED <<cur, pool, extracts>>
      BY <1>8 DEF Start, StartMain, StartTeardown, NextBatch, SkipBlocked, Finalize,
                  result, vars
    <2> QED
      BY <1>2, <2>1
  <1> QED
    BY <1>4, <1>5, <1>6, <1>7, <1>8, FinalStatusType
    DEF Next, SkipByWhen, EndStep, IInv

-----------------------------------------------------------------------------

(* A step that ends was not blocked: no failed one is in its dependsOn.    *)
LEMMA BlocksStep ==
  ASSUME IInv, Names, Unblocked, FailureBlocks, [Next]_vars
  PROVE  FailureBlocks'
  <1>1. CASE UNCHANGED <<manifest, req, failedSteps, steps, extracts>>
    BY <1>1 DEF FailureBlocks, FailedAt, UsesDAG
  <1>2. ASSUME cur # NoStep,
               NEW st \in {"passed", "skipped", "failed", "error"}, Report(st)
        PROVE  FailureBlocks'
    <2>0. PICK n : n = Len(steps) + 1
      OBVIOUS
    <2>1. /\ UNCHANGED <<manifest, req>>
          /\ n = Len(steps) + 1 /\ Len(steps) \in Nat
          /\ DOMAIN steps = 1 .. Len(steps) /\ Len(steps') = n
          /\ DOMAIN steps' = DOMAIN steps \cup {n}
          /\ \A k \in DOMAIN steps : steps'[k] = steps[k]
          /\ steps'[n].phase = phase /\ steps'[n].idx = cur.idx
      BY <1>2, <2>0, ReportGrows DEF IInv
    <2>2. \A k \in DOMAIN steps : FailedAt(k, "main") <=> FailedAt(k, "main")'
      BY <2>1 DEF FailedAt
    <2>3. UsesDAG' = UsesDAG
      BY <2>1 DEF UsesDAG
    <2>4. SUFFICES ASSUME UsesDAG, NEW k \in DOMAIN steps', FailedAt(k, "main")',
                          NEW j \in k + 1 .. Len(steps'), steps'[j].phase = "main"
                   PROVE  manifest.main[steps'[k].idx].name
                            \notin manifest.main[steps'[j].idx].dependsOn
      BY <2>1, <2>3 DEF FailureBlocks
    <2>5. k \in DOMAIN steps /\ FailedAt(k, "main") /\ steps'[k] = steps[k]
      BY <2>1, <2>2, <2>4
    <2>6. CASE j \in DOMAIN steps
      BY <2>1, <2>4, <2>5, <2>6 DEF FailureBlocks
    <2>7. CASE j = n
      <3>1. manifest.main[steps[k].idx].name \in failedSteps
        BY <2>4, <2>5 DEF Names
      <3>2. phase = "main" /\ steps'[j].idx = cur.idx
        BY <2>1, <2>4, <2>7
      <3> QED
        BY <1>2, <2>4, <2>5, <3>1, <3>2 DEF Unblocked
    <2> QED
      BY <2>1, <2>5, <2>6, <2>7
  <1> QED
    BY <1>1, <1>2, OnlyReports

(* When a step of a DAG ends, each of its dependencies is over: it is      *)
(* neither pending nor, the run being in main, behind an aborted setup.    *)
LEMMA DecidedStep ==
  ASSUME IInv, Accounts, Waits, DependenciesDecided, [Next]_vars
  PROVE  DependenciesDecided'
  <1>1. CASE UNCHANGED <<manifest, req, failedSteps, steps, extracts>>
    BY <1>1 DEF DependenciesDecided, FailedAt, UsesDAG
  <1>2. ASSUME cur # NoStep,
               NEW st \in {"passed", "skipped", "failed", "error"}, Report(st)
        PROVE  DependenciesDecided'
    <2>0. PICK n : n = Len(steps) + 1
      OBVIOUS
    <2>1. /\ UNCHANGED <<manifest, req>>
          /\ n = Len(steps) + 1 /\ Len(steps) \in Nat
          /\ DOMAIN steps = 1 .. Len(steps)
          /\ DOMAIN steps' = DOMAIN steps \cup {n}
          /\ \A k \in DOMAIN steps : steps'[k] = steps[k]
          /\ steps'[n].phase = phase /\ steps'[n].idx = cur.idx
      BY <1>2, <2>0, ReportGrows DEF IInv
    <2>2. \A k \in DOMAIN steps : FailedAt(k, "main") <=> FailedAt(k, "main")'
      BY <2>1 DEF FailedAt
    <2>3. UsesDAG' = UsesDAG
      BY <2>1 DEF UsesDAG
    <2> DEFINE Over(j, d) ==
          /\ steps[j].phase = "main"
          /\ \/ steps[j].idx = d
             \/ /\ FailedAt(j, "main")
                /\ manifest.main[steps[j].idx].name \in manifest.main[d].dependsOn
    <2>4. ASSUME UsesDAG, Acyclic(manifest.main),
                 NEW k \in DOMAIN steps', steps'[k].phase = "main",
                 NEW d \in Deps(manifest.main, steps'[k].idx)
          PROVE  \E j \in 1 .. k - 1 : j \in DOMAIN steps /\ Over(j, d)
      <3>1. CASE k \in DOMAIN steps
        <4>1. d \in Deps(manifest.main, steps[k].idx) /\ steps[k].phase = "main"
          BY <2>1, <2>4, <3>1
        <4>2. PICK j \in 1 .. k - 1 : Over(j, d)
          BY <2>4, <3>1, <4>1 DEF DependenciesDecided
        <4> QED
          BY <2>1, <3>1, <4>2
      <3>2. CASE k = n
        <4>1. /\ phase = "main" /\ d \in Deps(manifest.main, cur.idx)
              /\ d \in DOMAIN manifest.main
          BY <2>1, <2>4, <3>2 DEF Deps
        <4>2. d \notin Pending
          BY <1>2, <2>4, <4>1 DEF Waits, OpenIdx
        <4>3. ~ SetupFailed /\ ~ req.resume
          BY <2>4, <4>1 DEF SetupFailed, IInv, Ledger, UsesDAG
        <4>4. Reported("main", d) \/ BlockedBy(d)
          BY <4>1, <4>2, <4>3 DEF Accounts, MainAccounted, Indices
        <4>5. PICK j \in DOMAIN steps : Over(j, d)
          BY <4>4 DEF Reported, BlockedBy, FailedAt
        <4> QED
          BY <2>1, <3>2, <4>5
      <3> QED
        BY <2>1, <3>1, <3>2
    <2>5. \A j \in DOMAIN steps : \A d : Over(j, d) =>
            /\ steps'[j].phase = "main"
            /\ \/ steps'[j].idx = d
               \/ /\ FailedAt(j, "main")'
                  /\ manifest'.main[steps'[j].idx].name \in manifest'.main[d].dependsOn
      BY <2>1, <2>2
    <2>6. Acyclic(manifest'.main) = Acyclic(manifest.main)
      BY <2>1
    <2> HIDE DEF Over
    <2> QED
      BY <2>1, <2>3, <2>4, <2>5, <2>6 DEF DependenciesDecided
  <1> QED
    BY <1>1, <1>2, OnlyReports

(* The inductive invariant of the steps.                                   *)
StepsInv ==
  /\ IInv
  /\ Accounts
  /\ Names
  /\ InBatch
  /\ Unblocked
  /\ Waits
  /\ Pooled
  /\ FailureBlocks
  /\ DependenciesDecided

LEMMA InitStepsInv == Init => StepsInv
  <1> SUFFICES ASSUME Init PROVE StepsInv
    OBVIOUS
  <1>1. IInv
    BY InitTypeInv, InitLedger DEF IInv
  <1>2. Accounts
    BY DEF Init, Accounts, SetupAccounted, MainAccounted, TeardownAccounted, InSetup
  <1>3. Names /\ InBatch /\ Unblocked /\ Waits
    BY DEF Init, Names, InBatch, Unblocked, Waits, FailedAt
  <1>4. Pooled
    BY DEF Init, Pooled, Overlay, NoStep
  <1>5. FailureBlocks /\ DependenciesDecided
    BY DEF Init, FailureBlocks, DependenciesDecided
  <1> QED
    BY <1>1, <1>2, <1>3, <1>4, <1>5 DEF StepsInv

LEMMA StepsInvariance == Spec => []StepsInv
  <1>1. StepsInv /\ [Next]_vars => StepsInv'
    BY NextTypeInv, NextLedger, AccountsStep, NamesStep, InBatchStep, UnblockedStep,
       WaitsStep, PooledStep, BlocksStep, DecidedStep DEF StepsInv, IInv
  <1> QED
    BY <1>1, InitStepsInv, PTL DEF Spec

(* Whatever failed before or in it, teardown has run every one of its      *)
(* steps when a run that was not resumed is over (runner.go, Run).         *)
THEOREM TeardownInFull == Spec => []TeardownRuns
  <1>1. StepsInv => TeardownRuns
    BY DEF StepsInv, Accounts, TeardownAccounted, TeardownRuns
  <1> QED
    BY <1>1, StepsInvariance, PTL

(* A run forgets no step: one that has no result is behind a failed setup  *)
(* step, before the resume point, or names a failed step of the DAG.       *)
THEOREM NoneForgotten == Spec => []StepsAccounted
  <1>1. StepsInv => StepsAccounted
    BY DEF StepsInv, Accounts, SetupAccounted, MainAccounted,
           TeardownAccounted, StepsAccounted, TeardownRuns, SetupFailed, BlockedBy
  <1> QED
    BY <1>1, StepsInvariance, PTL

(* runDAG never runs a step that names a failed one in dependsOn.          *)
THEOREM FailuresBlock == Spec => []FailureBlocks
  <1>1. StepsInv => FailureBlocks
    BY DEF StepsInv
  <1> QED
    BY <1>1, StepsInvariance, PTL

(* runDAG runs a step of an acyclic graph behind its dependencies, each    *)
(* reported or itself skipped for a failed one.                            *)
THEOREM DependenciesFirst == Spec => []DependenciesDecided
  <1>1. StepsInv => DependenciesDecided
    BY DEF StepsInv
  <1> QED
    BY <1>1, StepsInvariance, PTL

(* Between steps the extracts of the result are what the pool holds, the   *)
(* preloaded values aside, through retries, errors and failures.           *)
THEOREM ResultIsPool == Spec => []ExtractsAgree
  <1>1. StepsInv => ExtractsAgree
    BY DEF StepsInv, Pooled, ExtractsAgree, Overlay, NoStep
  <1> QED
    BY <1>1, StepsInvariance, PTL

-----------------------------------------------------------------------------
(***************************************************************************)
(* What the events tell: the stream of a run matches its result, and the   *)
(* counts of the last event fit the verdict and the announced total.       *)
(***************************************************************************)

(* A sequence's events of a type; EventsOf takes those of the stream.      *)
OfType(s, type) == Filter(s, {s[i] : i \in {j \in DOMAIN s : s[j].type = type}})

LEMMA OfTypeAppend ==
  ASSUME NEW S, NEW s \in Seq(S), NEW e \in S, NEW type
  PROVE  /\ Append(s, e) \in Seq(S)
         /\ OfType(s, type) \in Seq(S)
         /\ OfType(Append(s, e), type) =
              IF e.type = type THEN Append(OfType(s, type), e) ELSE OfType(s, type)
  <1> DEFINE Kept(t) == {t[i] : i \in {j \in DOMAIN t : t[j].type = type}}
  <1>1. PICK u : u = Append(s, e)
    OBVIOUS
  <1>2. /\ u \in Seq(S) /\ Len(u) = Len(s) + 1 /\ Len(s) \in Nat
        /\ DOMAIN s = 1 .. Len(s) /\ DOMAIN u = 1 .. Len(u)
        /\ u[Len(s) + 1] = e /\ \A i \in 1 .. Len(s) : u[i] = s[i]
    BY <1>1, AppendProperties, LenProperties
  <1>3. \A i \in 1 .. Len(s) : s[i] \in Kept(s) <=> s[i].type = type
    BY <1>2
  <1>4. \A i \in 1 .. Len(u) : u[i] \in Kept(u) <=> u[i].type = type
    BY <1>2
  <1>5. \A i \in 1 .. Len(s) : s[i] \in Kept(s) <=> s[i] \in Kept(u)
    BY <1>2, <1>3, <1>4
  <1>6. e \in Kept(u) <=> e.type = type
    BY <1>2, <1>4
  <1> HIDE DEF Kept
  <1>7. Filter(u, Kept(u)) = IF e \in Kept(u) THEN Append(Filter(s, Kept(u)), e) ELSE Filter(s, Kept(u))
    BY <1>1, FilterAppend
  <1>8. Filter(s, Kept(s)) = Filter(s, Kept(u))
    BY <1>2, <1>5, FilterSame
  <1>9. Filter(s, Kept(s)) \in Seq(S)
    BY FilterType
  <1> QED
    BY <1>1, <1>2, <1>6, <1>7, <1>8, <1>9 DEF OfType, Kept

Statuses == {"passed", "skipped", "failed", "error"}

Event ==
  [type : {"run_started"}, total : Int]
    \cup [type : {"step_started"}, phase : StepPhases, idx : Nat]
    \cup [type : {"step_completed"}, idx : Nat, status : Statuses]
    \cup [type : {"run_completed"}, status : {"passed", "failed"}, total : Int,
          passed : Nat, failed : Nat]

(* The stream matches the result, and the event that is ahead of it is of  *)
(* the step in flight.                                                     *)
Streamed ==
  /\ events \in Seq(Event)
  /\ StreamMatchesResult
  /\ cur # NoStep =>
       LET last == EventsOf("step_started")[Len(steps) + 1]
       IN last.phase = phase /\ last.idx = cur.idx

(* An event is appended to those of its type.                              *)
LEMMA Emitted ==
  ASSUME events \in Seq(Event), NEW e \in Event, events' = Append(events, e), NEW type
  PROVE  /\ events' \in Seq(Event)
         /\ EventsOf(type) \in Seq(Event)
         /\ EventsOf(type)' = IF e.type = type THEN Append(EventsOf(type), e) ELSE EventsOf(type)
  <1>1. EventsOf(type) = OfType(events, type) /\ EventsOf(type)' = OfType(events', type)
    BY DEF EventsOf, OfType
  <1> QED
    BY <1>1, OfTypeAppend

(* Steps that tell the viewer nothing of a step.                           *)
LEMMA StreamedStays ==
  ASSUME Streamed, events' \in Seq(Event), steps' = steps,
         EventsOf("step_started")' = EventsOf("step_started"),
         EventsOf("step_completed")' = EventsOf("step_completed"),
         cur = NoStep <=> cur' = NoStep,
         cur # NoStep => phase' = phase /\ cur'.idx = cur.idx
  PROVE  Streamed'
  BY DEF Streamed, StreamMatchesResult

LEMMA StreamedQuiet ==
  ASSUME Streamed, UNCHANGED <<events, steps>>,
         cur = NoStep <=> cur' = NoStep,
         cur # NoStep => phase' = phase /\ cur'.idx = cur.idx
  PROVE  Streamed'
  <1>1. /\ EventsOf("step_started")' = EventsOf("step_started")
        /\ EventsOf("step_completed")' = EventsOf("step_completed")
    BY DEF EventsOf
  <1> QED
    BY <1>1, StreamedStays DEF Streamed

LEMMA StreamedBegin ==
  ASSUME TypeInv, Streamed, NEW i \in left \cup batch, BeginStep(i), cur = NoStep,
         phase \in StepPhases
  PROVE  Streamed'
  <1>1. PICK e : e = [type |-> "step_started", phase |-> phase, idx |-> i]
    OBVIOUS
  <1>2. e \in Event /\ e.type = "step_started" /\ e.phase = phase /\ e.idx = i
    BY <1>1 DEF Event, TypeInv, TypeOK
  <1>3. events' = Append(events, e)
    BY <1>1 DEF BeginStep, Emit
  <1>4. /\ UNCHANGED <<phase, steps>> /\ cur' # NoStep /\ cur'.idx = i
    BY BeginOpen
  <1>5. PICK s, t : s = EventsOf("step_started") /\ t = EventsOf("step_started")'
    OBVIOUS
  <1>6. /\ events' \in Seq(Event) /\ s \in Seq(Event) /\ t = Append(s, e)
        /\ EventsOf("step_completed")' = EventsOf("step_completed")
    BY <1>2, <1>3, <1>5, Emitted DEF Streamed
  <1>7. /\ Len(steps) \in Nat /\ DOMAIN steps = 1 .. Len(steps) /\ Len(s) = Len(steps)
        /\ Len(t) = Len(steps) + 1 /\ t[Len(steps) + 1] = e
        /\ \A k \in 1 .. Len(steps) : t[k] = s[k]
    <2>1. Len(steps) \in Nat /\ DOMAIN steps = 1 .. Len(steps)
      BY LenProperties DEF TypeInv, TypeOK
    <2>2. Len(s) = Len(steps)
      BY <1>5, <2>1 DEF Streamed, StreamMatchesResult
    <2>3. Len(t) = Len(s) + 1 /\ t[Len(s) + 1] = e /\ \A k \in 1 .. Len(s) : t[k] = s[k]
      BY <1>2, <1>6, AppendProperties
    <2> QED
      BY <2>1, <2>2, <2>3
  <1>8. StreamMatchesResult'
    BY <1>4, <1>5, <1>6, <1>7 DEF Streamed, StreamMatchesResult
  <1> QED
    BY <1>2, <1>4, <1>5, <1>6, <1>7, <1>8 DEF Streamed

LEMMA StreamedReport ==
  ASSUME TypeInv, Streamed, cur # NoStep, NEW st \in Statuses, Report(st)
  PROVE  Streamed'
  <1>1. PICK e : e = [type |-> "step_completed", idx |-> cur.idx, status |-> st]
    OBVIOUS
  <1>2. e \in Event /\ e.type = "step_completed" /\ e.idx = cur.idx /\ e.status = st
    BY <1>1 DEF Event, TypeInv, TypeOK, InFlight
  <1>3. events' = Append(events, e)
    BY <1>1 DEF Report, StepCompleted, Emit
  <1>4. PICK n : n = Len(steps) + 1
    OBVIOUS
  <1>5. /\ cur' = NoStep /\ n \in Nat /\ Len(steps') = n
        /\ DOMAIN steps' = DOMAIN steps \cup {n} /\ DOMAIN steps = 1 .. n - 1
        /\ \A k \in DOMAIN steps : steps'[k] = steps[k]
        /\ steps'[n].phase = phase /\ steps'[n].idx = cur.idx /\ steps'[n].status = st
    BY <1>4, ReportGrows DEF Statuses
  <1>6. PICK s, t : s = EventsOf("step_completed") /\ t = EventsOf("step_completed")'
    OBVIOUS
  <1>7. /\ events' \in Seq(Event) /\ s \in Seq(Event) /\ t = Append(s, e)
        /\ EventsOf("step_started")' = EventsOf("step_started")
    BY <1>2, <1>3, <1>6, Emitted DEF Streamed
  <1>8. /\ Len(s) = n - 1 /\ Len(t) = n /\ t[n] = e
        /\ \A k \in 1 .. n - 1 : t[k] = s[k]
    BY <1>4, <1>5, <1>6, <1>7, AppendProperties, LenProperties
       DEF Streamed, StreamMatchesResult
  <1>9. PICK u : u = EventsOf("step_started")
    OBVIOUS
  <1>10. Len(u) = n /\ u[n].phase = phase /\ u[n].idx = cur.idx
    BY <1>4, <1>5, <1>9 DEF Streamed, StreamMatchesResult
  <1>11. \A k \in DOMAIN steps :
           /\ u[k].phase = steps[k].phase /\ u[k].idx = steps[k].idx
           /\ s[k].idx = steps[k].idx /\ s[k].status = steps[k].status
    BY <1>6, <1>9 DEF Streamed, StreamMatchesResult
  <1>12. \A k \in DOMAIN steps' :
           /\ u[k].phase = steps'[k].phase /\ u[k].idx = steps'[k].idx
           /\ t[k].idx = steps'[k].idx /\ t[k].status = steps'[k].status
    BY <1>2, <1>5, <1>8, <1>10, <1>11
  <1>13. StreamMatchesResult'
    BY <1>5, <1>6, <1>7, <1>8, <1>9, <1>10, <1>12 DEF StreamMatchesResult
  <1> QED
    BY <1>5, <1>7, <1>13 DEF Streamed

LEMMA CountIs ==
  ASSUME TypeInv, NEW statuses
  PROVE  /\ CountOf(statuses) \in Nat
         /\ CountOf(statuses) > 0 <=> \E k \in DOMAIN steps : steps[k].status \in statuses
  <1>1. PICK S : S = {k \in DOMAIN steps : steps[k].status \in statuses}
    OBVIOUS
  <1>2. Len(steps) \in Nat /\ DOMAIN steps = 1 .. Len(steps)
    BY LenProperties DEF TypeInv, TypeOK
  <1>3. IsFiniteSet(1 .. Len(steps))
    BY <1>2, FS_Interval
  <1>4. IsFiniteSet(S)
    BY <1>1, <1>2, <1>3, FS_Subset
  <1>5. Cardinality(S) \in Nat /\ (Cardinality(S) = 0 <=> S = {})
    BY <1>4, FS_CardinalityType, FS_EmptySet
  <1>6. CountOf(statuses) = Cardinality(S)
    BY <1>1 DEF CountOf
  <1> QED
    BY <1>1, <1>5, <1>6

LEMMA StreamedStep ==
  ASSUME IInv, Streamed, [Next]_vars
  PROVE  Streamed'
  <1> USE DEF IInv
  <1>0. TypeInv /\ events \in Seq(Event)
    BY DEF Streamed
  <1>1. CASE Start
    <2>1. /\ steps' = steps /\ cur' = cur /\ cur = NoStep
      BY <1>1 DEF Start, TypeInv, Placed, StepPhases
    <2>2. total' \in Int
      BY NextTypeInv DEF TypeInv, TypeOK
    <2>3. PICK e : e = [type |-> "run_started", total |-> total']
      OBVIOUS
    <2>4. e \in Event /\ e.type = "run_started" /\ events' = Append(events, e)
      BY <1>1, <2>2, <2>3 DEF Event, Start, Emit
    <2>5. /\ events' \in Seq(Event)
          /\ EventsOf("step_started")' = EventsOf("step_started")
          /\ EventsOf("step_completed")' = EventsOf("step_completed")
      BY <1>0, <2>4, Emitted
    <2> QED
      BY <2>1, <2>5, StreamedStays
  <1>2. CASE StartMain
    BY <1>2, StreamedQuiet DEF StartMain, PhaseOver, result
  <1>3. CASE StartTeardown
    BY <1>3, StreamedQuiet DEF StartTeardown, PhaseOver, result
  <1>4. CASE NextBatch
    BY <1>4, StreamedQuiet DEF NextBatch, result
  <1>5. ASSUME NEW i \in batch, SkipBlocked(i) PROVE Streamed'
    BY <1>5, StreamedQuiet DEF SkipBlocked, result
  <1>6. CASE BeginNext
    BY <1>6, StreamedBegin DEF BeginNext
  <1>7. ASSUME NEW i \in batch, BeginInBatch(i) PROVE Streamed'
    <2>1. phase \in StepPhases
      BY DEF TypeInv, Placed, StepPhases
    <2> QED
      BY <1>7, <2>1, StreamedBegin DEF BeginInBatch
  <1>8. CASE Attempt
    <2>1. cur # NoStep /\ cur' # NoStep /\ cur'.idx = cur.idx
      BY <1>8, AttemptKeepsStep
    <2> QED
      BY <1>8, <2>1, StreamedQuiet DEF Attempt, result
  <1>9. CASE SkipByWhen
    BY <1>9, StreamedReport DEF SkipByWhen, Statuses
  <1>10. CASE EndStep
    BY <1>10, FinalStatusType, StreamedReport DEF EndStep, Statuses
  <1>11. CASE Finalize
    <2>1. /\ steps' = steps /\ cur' = cur /\ cur = NoStep
      BY <1>11 DEF Finalize, RunOver, PhaseOver, result
    <2>2. PICK passed, failed : passed = CountOf({"passed"}) /\ failed = CountOf(Failures)
      OBVIOUS
    <2>3. passed \in Nat /\ failed \in Nat
      BY <2>2, CountIs
    <2>4. PICK e : e = [type |-> "run_completed", status |-> status, total |-> total,
                        passed |-> passed, failed |-> failed]
      OBVIOUS
    <2>5. e \in Event /\ e.type = "run_completed"
      BY <2>3, <2>4 DEF Event, TypeInv, TypeOK
    <2>6. events' = Append(events, e)
      BY <1>11, <2>2, <2>4 DEF Finalize, Emit
    <2>7. /\ events' \in Seq(Event)
          /\ EventsOf("step_started")' = EventsOf("step_started")
          /\ EventsOf("step_completed")' = EventsOf("step_completed")
      BY <1>0, <2>5, <2>6, Emitted
    <2> QED
      BY <2>1, <2>7, StreamedStays
  <1>12. CASE UNCHANGED vars
    BY <1>12, StreamedQuiet DEF vars, result
  <1> QED
    BY <1>1, <1>2, <1>3, <1>4, <1>5, <1>6, <1>7, <1>8, <1>9, <1>10, <1>11, <1>12 DEF Next

LEMMA InitStreamed == Init => Streamed
  <1> SUFFICES ASSUME Init PROVE Streamed
    OBVIOUS
  <1>1. events = << >> /\ steps = << >> /\ cur = NoStep
    BY DEF Init
  <1>2. PICK empty : empty = << >>
    OBVIOUS
  <1>3. empty \in Seq(Event) /\ Len(empty) = 0
    BY <1>2, EmptySeq
  <1>4. ASSUME NEW type PROVE EventsOf(type) = empty
    <2>1. EventsOf(type) = Filter(empty, {events[i] : i \in {j \in DOMAIN events : events[j].type = type}})
      BY <1>1, <1>2, Zenon DEF EventsOf
    <2> QED
      BY <1>2, <2>1, FilterEmpty, Zenon
  <1>5. StreamMatchesResult
    BY <1>1, <1>2, <1>3, <1>4 DEF StreamMatchesResult
  <1> QED
    BY <1>1, <1>2, <1>3, <1>5 DEF Streamed

(* A viewer who only follows the events learns what the result says, in    *)
(* order, for every set of manifests and requests.                         *)
THEOREM StreamIsResult == Spec => []StreamMatchesResult
  <1>1. IInv /\ Streamed /\ [Next]_vars => Streamed'
    BY StreamedStep
  <1>2. Streamed => StreamMatchesResult
    BY DEF Streamed
  <1> QED
    BY <1>1, <1>2, InitStreamed, Invariance, PTL DEF Spec

(* A resumed run has only main steps behind its resume point.              *)
Planned(ph, i) ==
  /\ ph \in StepPhases
  /\ i \in DOMAIN manifest[ph]
  /\ req.resume => ph = "main" /\ i > req.from

Opened ==
  phase \in StepPhases =>
    \A i \in Pending : Planned(phase, i)

Different(j, k) == steps[j].phase # steps[k].phase \/ steps[j].idx # steps[k].idx

Told ==
  phase = "done" =>
    /\ Len(events) \in Nat \ {0}
    /\ events[Len(events)] =
         [type |-> "run_completed", status |-> status, total |-> total,
          passed |-> CountOf({"passed"}), failed |-> CountOf(Failures)]

(* The results are of planned steps, each of another one.                  *)
Counted ==
  /\ phase # "new" => total = TotalCount
  /\ Opened
  /\ \A k \in DOMAIN steps : Planned(steps[k].phase, steps[k].idx)
  /\ \A j, k \in DOMAIN steps : j # k => Different(j, k)
  /\ Told

(* The place of a planned step in the run.                                 *)
Place(ph, i) ==
  IF req.resume THEN i - req.from
  ELSE IF ph = "setup" THEN i
  ELSE IF ph = "main" THEN Len(manifest.setup) + i
  ELSE Len(manifest.setup) + Len(manifest.main) + i

LEMMA InputType ==
  ASSUME TypeInv
  PROVE  /\ Len(manifest.setup) \in Nat /\ DOMAIN manifest.setup = 1 .. Len(manifest.setup)
         /\ Len(manifest.main) \in Nat /\ DOMAIN manifest.main = 1 .. Len(manifest.main)
         /\ Len(manifest.teardown) \in Nat /\ DOMAIN manifest.teardown = 1 .. Len(manifest.teardown)
         /\ req.from \in Nat /\ req.resume \in BOOLEAN
         /\ ~ req.resume => req.from = 0
  <1>1. req \in [resume : BOOLEAN, from : Nat, preload : SUBSET Key] /\ (~ req.resume => req.from = 0)
    BY RequestsAssumption DEF TypeInv, TypeOK
  <1> QED
    BY <1>1, IndicesType DEF TypeInv, TypeOK, StepPhases

LEMMA PlannedIs ==
  ASSUME TypeInv, NEW ph, NEW i, Planned(ph, i)
  PROVE  /\ i \in Nat \ {0}
         /\ \/ ph = "setup" /\ ~ req.resume /\ i <= Len(manifest.setup)
            \/ ph = "main" /\ (req.resume => i > req.from) /\ i <= Len(manifest.main)
            \/ ph = "teardown" /\ ~ req.resume /\ i <= Len(manifest.teardown)
  <1>1. ph = "setup" \/ ph = "main" \/ ph = "teardown"
    BY DEF Planned, StepPhases
  <1>2. i \in DOMAIN manifest[ph] /\ (req.resume => ph = "main" /\ i > req.from)
    BY DEF Planned
  <1> QED
    BY <1>1, <1>2, InputType

LEMMA PlaceIs ==
  ASSUME TypeInv, NEW ph, NEW i, Planned(ph, i)
  PROVE  Place(ph, i) \in 1 .. TotalCount
  <1>1. PICK a, b, c, p, t :
          /\ a = Len(manifest.setup) /\ b = Len(manifest.main) /\ c = Len(manifest.teardown)
          /\ p = Place(ph, i) /\ t = TotalCount
    OBVIOUS
  <1>2. /\ a \in Nat /\ b \in Nat /\ c \in Nat /\ req.from \in Nat
        /\ i \in Nat \ {0}
        /\ \/ ph = "setup" /\ ~ req.resume /\ i <= a
           \/ ph = "main" /\ (req.resume => i > req.from) /\ i <= b
           \/ ph = "teardown" /\ ~ req.resume /\ i <= c
    BY <1>1, InputType, PlannedIs
  <1>3. p = IF req.resume THEN i - req.from
            ELSE IF ph = "setup" THEN i
            ELSE IF ph = "main" THEN a + i
            ELSE a + b + i
    BY <1>1 DEF Place
  <1>4. t = IF req.resume THEN b - req.from ELSE a + b + c
    BY <1>1 DEF TotalCount
  <1>5. p \in 1 .. t
    <2>1. CASE req.resume
      <3>1. p = i - req.from /\ t = b - req.from /\ i > req.from /\ i <= b
        BY <1>2, <1>3, <1>4, <2>1
      <3> QED
        BY <1>2, <3>1
    <2>2. CASE ~ req.resume
      <3>1. t = a + b + c
        BY <1>4, <2>2
      <3>2. \/ p = i /\ i <= a
            \/ p = a + i /\ i <= b
            \/ p = a + b + i /\ i <= c
        BY <1>2, <1>3, <2>2
      <3> QED
        BY <1>2, <3>1, <3>2
    <2> QED
      BY <2>1, <2>2
  <1> QED
    BY <1>1, <1>5

LEMMA PlaceDiffers ==
  ASSUME TypeInv, NEW ph, NEW i, Planned(ph, i), NEW qh, NEW j, Planned(qh, j),
         ph # qh \/ i # j
  PROVE  Place(ph, i) # Place(qh, j)
  <1>1. PICK a, b, c, p, q :
          /\ a = Len(manifest.setup) /\ b = Len(manifest.main) /\ c = Len(manifest.teardown)
          /\ p = Place(ph, i) /\ q = Place(qh, j)
    OBVIOUS
  <1>2. /\ a \in Nat /\ b \in Nat /\ c \in Nat /\ req.from \in Nat
        /\ i \in Nat \ {0} /\ j \in Nat \ {0}
        /\ \/ ph = "setup" /\ ~ req.resume /\ i <= a
           \/ ph = "main" /\ i <= b
           \/ ph = "teardown" /\ ~ req.resume
        /\ \/ qh = "setup" /\ ~ req.resume /\ j <= a
           \/ qh = "main" /\ j <= b
           \/ qh = "teardown" /\ ~ req.resume
    BY <1>1, InputType, PlannedIs
  <1>3. p = IF req.resume THEN i - req.from
            ELSE IF ph = "setup" THEN i
            ELSE IF ph = "main" THEN a + i
            ELSE a + b + i
    BY <1>1 DEF Place
  <1>4. q = IF req.resume THEN j - req.from
            ELSE IF qh = "setup" THEN j
            ELSE IF qh = "main" THEN a + j
            ELSE a + b + j
    BY <1>1 DEF Place
  <1>5. p # q
    <2>1. CASE req.resume
      <3>1. p = i - req.from /\ q = j - req.from /\ i # j
        BY <1>2, <1>3, <1>4, <2>1
      <3> QED
        BY <1>2, <3>1
    <2>2. CASE ~ req.resume
      <3>1. /\ ph = "setup" => p = i /\ i <= a
            /\ ph = "main" => p = a + i /\ i <= b
            /\ ph = "teardown" => p = a + b + i
            /\ qh = "setup" => q = j /\ j <= a
            /\ qh = "main" => q = a + j /\ j <= b
            /\ qh = "teardown" => q = a + b + j
        BY <1>2, <1>3, <1>4, <2>2
      <3> QED
        BY <1>2, <3>1
    <2> QED
      BY <2>1, <2>2
  <1> QED
    BY <1>1, <1>5

(* No more steps are reported than were announced.                         *)
LEMMA ReportedFit ==
  ASSUME TypeInv, Counted, phase # "new", req.from <= Len(manifest.main)
  PROVE  Len(steps) <= total
  <1>1. Len(steps) \in Nat /\ DOMAIN steps = 1 .. Len(steps)
    BY LenProperties DEF TypeInv, TypeOK
  <1>2. total = TotalCount /\ total \in Nat
    <2>1. total = TotalCount
      BY DEF Counted
    <2>2. PICK a, b, c :
            a = Len(manifest.setup) /\ b = Len(manifest.main) /\ c = Len(manifest.teardown)
      OBVIOUS
    <2>3. a \in Nat /\ b \in Nat /\ c \in Nat /\ req.from \in Nat /\ req.from <= b
      BY <2>2, InputType
    <2>4. TotalCount = IF req.resume THEN b - req.from ELSE a + b + c
      BY <2>2 DEF TotalCount
    <2>5. TotalCount \in Nat
      BY <2>3, <2>4
    <2> QED
      BY <2>1, <2>5
  <1>3. PICK f : f = [k \in 1 .. Len(steps) |-> Place(steps[k].phase, steps[k].idx)]
    OBVIOUS
  <1>4. f \in [1 .. Len(steps) -> 1 .. total]
    BY <1>1, <1>2, <1>3, PlaceIs DEF Counted
  <1>5. ASSUME NEW j \in 1 .. Len(steps), NEW k \in 1 .. Len(steps), j # k PROVE f[j] # f[k]
    <2>1. Place(steps[j].phase, steps[j].idx) # Place(steps[k].phase, steps[k].idx)
      BY <1>1, <1>5, PlaceDiffers DEF Counted, Different
    <2> QED
      BY <1>3, <2>1
  <1>6. f \in Injection(1 .. Len(steps), 1 .. total)
    BY <1>4, <1>5 DEF Injection, IsInjective
  <1>7. IsFiniteSet(1 .. total) /\ Cardinality(1 .. total) = total
    BY <1>2, FS_Interval
  <1>8. ASSUME NEW n \in Nat PROVE Cardinality(1 .. n) = n
    BY FS_Interval
  <1> QED
    BY <1>1, <1>2, <1>6, <1>7, <1>8, FS_Injection

(* A step counts once.                                                     *)
LEMMA CountsApart ==
  ASSUME TypeInv
  PROVE  CountOf({"passed"}) + CountOf(Failures) <= Len(steps)
  <1>1. PICK P, F : /\ P = {k \in DOMAIN steps : steps[k].status \in {"passed"}}
                    /\ F = {k \in DOMAIN steps : steps[k].status \in Failures}
    OBVIOUS
  <1>2. Len(steps) \in Nat /\ DOMAIN steps = 1 .. Len(steps)
    BY LenProperties DEF TypeInv, TypeOK
  <1>3. ASSUME NEW n \in Nat PROVE IsFiniteSet(1 .. n) /\ Cardinality(1 .. n) = n
    BY FS_Interval
  <1>4. P \subseteq 1 .. Len(steps) /\ F \subseteq 1 .. Len(steps) /\ P \cap F = {}
    BY <1>1, <1>2 DEF Failures
  <1>5. IsFiniteSet(P) /\ IsFiniteSet(F) /\ IsFiniteSet(P \cup F) /\ Cardinality(P \cup F) <= Len(steps)
    <2>1. PICK n \in Nat : n = Len(steps)
      BY <1>2
    <2>2. IsFiniteSet(1 .. n) /\ Cardinality(1 .. n) = n
      BY <1>3
    <2>3. P \in SUBSET (1 .. n) /\ F \in SUBSET (1 .. n) /\ P \cup F \in SUBSET (1 .. n)
      BY <1>4, <2>1
    <2> QED
      BY <2>1, <2>2, <2>3, FS_Subset
  <1>6. Cardinality(P) \in Nat /\ Cardinality(F) \in Nat /\ Cardinality({}) = 0
    BY <1>5, FS_CardinalityType, FS_EmptySet
  <1>7. Cardinality(P \cup F) = Cardinality(P) + Cardinality(F)
    <2>1. Cardinality(P \cup F) = Cardinality(P) + Cardinality(F) - Cardinality(P \cap F)
      BY <1>5, FS_Union
    <2>2. Cardinality(P \cap F) = 0
      BY <1>4, <1>6
    <2> QED
      BY <1>6, <2>1, <2>2
  <1>8. CountOf({"passed"}) = Cardinality(P) /\ CountOf(Failures) = Cardinality(F)
    BY <1>1 DEF CountOf
  <1> QED
    BY <1>5, <1>7, <1>8

LEMMA CountedFits ==
  ASSUME IInv, Counted
  PROVE  CountsFit
  <1> SUFFICES ASSUME phase = "done" PROVE CountsFit
    BY DEF CountsFit
  <1>1. PICK e : e = events[Len(events)]
    OBVIOUS
  <1>2. PICK passed, failed : passed = CountOf({"passed"}) /\ failed = CountOf(Failures)
    OBVIOUS
  <1>3. e = [type |-> "run_completed", status |-> status, total |-> total,
             passed |-> passed, failed |-> failed]
    BY <1>1, <1>2 DEF Counted, Told
  <1>4. /\ e.type = "run_completed" /\ e.status = status /\ e.total = total
        /\ e.passed = passed /\ e.failed = failed
    BY <1>3
  <1>5. req.from <= Len(manifest.main) => passed + failed <= total
    <2>1. passed \in Nat /\ failed \in Nat /\ Len(steps) \in Nat /\ total \in Int
      BY <1>2, CountIs, LenProperties DEF IInv, TypeInv, TypeOK
    <2> QED
      BY <1>2, <2>1, CountsApart, ReportedFit DEF IInv
  <1>6. failed > 0 <=> \E k \in DOMAIN steps : steps[k].status \in Failures
    BY <1>2, CountIs DEF IInv
  <1>7. status = "failed" => failed > 0
    BY <1>6 DEF IInv, Ledger, RunFailing
  <1>8. status = "passed" /\ failed > 0 => \E k \in DOMAIN steps : FailedAt(k, "teardown")
    BY <1>6 DEF IInv, Ledger, RunFailing, FailedAt
  <1> QED
    BY <1>1, <1>4, <1>5, <1>7, <1>8 DEF CountsFit

LEMMA PlannedStays ==
  ASSUME UNCHANGED <<manifest, req>>
  PROVE  /\ \A ph, i : Planned(ph, i)' <=> Planned(ph, i)
         /\ TotalCount' = TotalCount
  BY DEF Planned, TotalCount

(* Whatever moves no step but within the plan.                             *)
LEMMA MoveCounted ==
  ASSUME Counted, UNCHANGED <<manifest, req, steps, total>>,
         phase # "new", phase' \in StepPhases,
         \A i \in Pending' : Planned(phase', i)
  PROVE  Counted'
  <1>1. phase' # "done" /\ phase' # "new"
    BY DEF StepPhases
  <1>2. Opened' /\ Told'
    BY <1>1, PlannedStays DEF Opened, Told
  <1>3. \A k \in DOMAIN steps' : Planned(steps[k].phase, steps[k].idx)'
    BY PlannedStays DEF Counted
  <1>4. \A j, k \in DOMAIN steps' : j # k => Different(j, k)'
    BY DEF Counted, Different
  <1>5. total' = TotalCount'
    BY PlannedStays DEF Counted
  <1> QED
    BY <1>2, <1>3, <1>4, <1>5 DEF Counted

LEMMA HandOutCounted ==
  ASSUME Counted, UNCHANGED <<manifest, req, phase, steps, total>>,
         phase \in StepPhases, Pending' \subseteq Pending
  PROVE  Counted'
  <1>1. phase # "new" /\ phase' \in StepPhases
    BY DEF StepPhases
  <1>2. \A i \in Pending' : Planned(phase', i)
    BY DEF Counted, Opened
  <1> QED
    BY <1>1, <1>2, MoveCounted

LEMMA BeginCounted ==
  ASSUME TypeInv, Counted, NEW i \in left \cup batch, BeginStep(i), cur = NoStep,
         phase \in StepPhases, left' \cup batch' \subseteq left \cup batch
  PROVE  Counted'
  <1>1. UNCHANGED <<manifest, req, phase, steps, total>>
    BY DEF BeginStep, input, result
  <1>2. OpenIdx' = {i}
    BY BeginOpen
  <1>3. Pending' \subseteq Pending
    BY <1>2 DEF Pending
  <1> QED
    BY <1>1, <1>3, HandOutCounted

(* The step in flight is planned, and none of the reported ones.           *)
LEMMA ReportCounted ==
  ASSUME IInv, InSetup, Counted, cur # NoStep, NEW st \in Statuses, Report(st)
  PROVE  Counted'
  <1>0. PICK n : n = Len(steps) + 1
    OBVIOUS
  <1>1. /\ UNCHANGED <<manifest, req, batch>> /\ cur' = NoStep
        /\ DOMAIN steps' = DOMAIN steps \cup {n} /\ n \notin DOMAIN steps
        /\ \A k \in DOMAIN steps : steps'[k] = steps[k]
        /\ steps'[n].phase = phase /\ steps'[n].idx = cur.idx
    BY <1>0, ReportGrows DEF Statuses, IInv
  <1>2. phase \in StepPhases /\ total' = total
    BY DEF IInv, TypeInv, Placed, Report
  <1>3. Planned(phase, cur.idx)
    BY <1>2 DEF Counted, Opened, Pending, OpenIdx
  <1>4. \A k \in DOMAIN steps' : Planned(steps[k].phase, steps[k].idx)'
    BY <1>1, <1>3, PlannedStays DEF Counted
  <1>5. ASSUME NEW k \in DOMAIN steps
        PROVE  steps[k].phase # phase \/ steps[k].idx # cur.idx
    BY <1>2, ReportedType, RankOrder DEF IInv, Ledger, Behind, StepPhases
  <1>6. ASSUME NEW j \in DOMAIN steps', NEW k \in DOMAIN steps', j # k
        PROVE  Different(j, k)'
    <2>1. CASE j \in DOMAIN steps /\ k \in DOMAIN steps
      BY <1>1, <1>6, <2>1 DEF Counted, Different
    <2>2. CASE j = n \/ k = n
      BY <1>1, <1>5, <1>6, <2>2 DEF Different
    <2> QED
      BY <1>1, <2>1, <2>2
  <1>7. /\ phase' \in StepPhases
        /\ \A i \in Pending' : Planned(phase', i)
    <2>1. OpenIdx' = {}
      BY <1>1 DEF OpenIdx
    <2>2. CASE Aborts(st)
      <3>1. /\ phase = "setup" /\ phase' = "teardown" /\ left' = DOMAIN manifest.teardown
        BY <2>2 DEF Report, AbortSetup, Aborts, Indices
      <3>2. batch = {} /\ ~ req.resume
        BY <3>1 DEF IInv, TypeInv, Placed, InSetup
      <3> QED
        BY <1>1, <2>1, <3>1, <3>2 DEF Pending, Planned, StepPhases
    <2>3. CASE ~ Aborts(st)
      <3>1. UNCHANGED <<phase, left>>
        BY <2>3 DEF Report
      <3> QED
        BY <1>1, <1>2, <2>1, <3>1 DEF Pending, Counted, Opened
    <2> QED
      BY <2>2, <2>3
  <1>8. phase # "new" /\ phase' # "new" /\ phase' # "done"
    BY <1>2, <1>7 DEF StepPhases
  <1>9. total' = TotalCount'
    BY <1>1, <1>2, <1>8, PlannedStays DEF Counted
  <1>10. Opened' /\ Told'
    BY <1>1, <1>7, <1>8, PlannedStays DEF Opened, Told
  <1> QED
    BY <1>4, <1>6, <1>9, <1>10 DEF Counted

LEMMA CountedStep ==
  ASSUME IInv, InSetup, Streamed, Counted, [Next]_vars
  PROVE  Counted'
  <1> USE DEF IInv
  <1>1. CASE Start
    <2>1. /\ UNCHANGED <<manifest, req>> /\ steps = << >> /\ steps' = << >>
          /\ batch' = {} /\ cur' = NoStep
      BY <1>1 DEF Start, input, Ledger, TypeInv, Placed, StepPhases
    <2>2. \/ phase' = "main" /\ req.resume /\ left' = ResumeSteps
          \/ phase' = "setup" /\ ~ req.resume /\ left' = DOMAIN manifest.setup
      BY <1>1, InputType DEF Start, Indices
    <2>3. Pending' = left'
      BY <2>1 DEF Pending, OpenIdx
    <2>4. \A i \in Pending' : Planned(phase', i)
      BY <2>2, <2>3, InputType DEF Planned, ResumeSteps, StepPhases
    <2>5. total' = TotalCount'
      BY <1>1, <2>1, PlannedStays DEF Start
    <2> QED
      BY <2>1, <2>2, <2>4, <2>5, PlannedStays DEF Counted, Opened, Told
  <1>2. CASE StartMain
    <2>1. /\ UNCHANGED <<manifest, req, steps, total>> /\ phase = "setup" /\ phase' = "main"
          /\ left' = DOMAIN manifest.main /\ batch' = {} /\ cur' = NoStep /\ ~ req.resume
      BY <1>2 DEF StartMain, PhaseOver, input, result, Indices, InSetup
    <2>2. \A i \in Pending' : Planned(phase', i)
      BY <2>1 DEF Pending, OpenIdx, Planned, StepPhases
    <2> QED
      BY <2>1, <2>2, MoveCounted DEF StepPhases
  <1>3. CASE StartTeardown
    <2>1. /\ UNCHANGED <<manifest, req, steps, total>> /\ phase = "main" /\ phase' = "teardown"
          /\ left' = DOMAIN manifest.teardown /\ batch' = {} /\ cur' = NoStep /\ ~ req.resume
      BY <1>3 DEF StartTeardown, PhaseOver, input, result, Indices
    <2>2. \A i \in Pending' : Planned(phase', i)
      BY <2>1 DEF Pending, OpenIdx, Planned, StepPhases
    <2> QED
      BY <2>1, <2>2, MoveCounted DEF StepPhases
  <1>4. CASE NextBatch
    <2>1. /\ UNCHANGED <<manifest, req, phase, steps, total, cur>> /\ phase \in StepPhases
          /\ batch' \subseteq left /\ left' = left \ batch'
      BY <1>4, BatchOfType DEF NextBatch, input, result, StepPhases
    <2>2. Pending' \subseteq Pending
      BY <2>1 DEF Pending, OpenIdx
    <2> QED
      BY <2>1, <2>2, HandOutCounted
  <1>5. ASSUME NEW i \in batch, SkipBlocked(i) PROVE Counted'
    <2>1. /\ UNCHANGED <<manifest, req, phase, steps, total, cur, left>> /\ phase \in StepPhases
          /\ batch' = batch \ {i}
      BY <1>5 DEF SkipBlocked, input, result, TypeInv, Placed, StepPhases
    <2>2. Pending' \subseteq Pending
      BY <2>1 DEF Pending, OpenIdx
    <2> QED
      BY <2>1, <2>2, HandOutCounted
  <1>6. CASE BeginNext
    BY <1>6, BeginCounted DEF BeginNext
  <1>7. ASSUME NEW i \in batch, BeginInBatch(i) PROVE Counted'
    <2>1. phase \in StepPhases
      BY DEF TypeInv, Placed, StepPhases
    <2> QED
      BY <1>7, <2>1, BeginCounted DEF BeginInBatch
  <1>8. CASE Attempt
    <2>1. /\ UNCHANGED <<manifest, req, phase, left, batch, steps>> /\ OpenIdx' = OpenIdx
          /\ cur # NoStep
      BY <1>8, AttemptOpen
    <2>2. total' = total /\ phase \in StepPhases
      BY <1>8, <2>1 DEF Attempt, result, TypeInv, Placed
    <2> QED
      BY <2>1, <2>2, HandOutCounted DEF Pending
  <1>9. CASE SkipByWhen
    BY <1>9, ReportCounted DEF SkipByWhen, Statuses
  <1>10. CASE EndStep
    BY <1>10, FinalStatusType, ReportCounted DEF EndStep, Statuses
  <1>11. CASE Finalize
    <2>1. /\ UNCHANGED <<manifest, req, steps, total, status>> /\ phase' = "done" /\ phase # "new"
      BY <1>11 DEF Finalize, RunOver, input, result
    <2>2. PICK e : e = [type |-> "run_completed", status |-> status, total |-> total,
                        passed |-> CountOf({"passed"}), failed |-> CountOf(Failures)]
      OBVIOUS
    <2>3. events' = Append(events, e)
      BY <1>11, <2>2 DEF Finalize, Emit
    <2>4. Len(events) \in Nat /\ Len(events') = Len(events) + 1 /\ events'[Len(events) + 1] = e
      BY <2>3, LenProperties DEF Streamed
    <2>5. e = [type |-> "run_completed", status |-> status, total |-> total,
               passed |-> CountOf({"passed"}), failed |-> CountOf(Failures)]'
      BY <2>1, <2>2 DEF CountOf
    <2>6. Told'
      BY <2>4, <2>5 DEF Told
    <2>7. /\ \A k \in DOMAIN steps' : Planned(steps[k].phase, steps[k].idx)'
          /\ \A j, k \in DOMAIN steps' : j # k => Different(j, k)'
          /\ total' = TotalCount'
      BY <2>1, PlannedStays DEF Counted, Different
    <2> QED
      BY <2>1, <2>6, <2>7 DEF Counted, Opened, StepPhases
  <1>12. CASE UNCHANGED vars
    <2>1. /\ UNCHANGED <<manifest, req, phase, left, batch, cur, status, total, steps, events>>
      BY <1>12 DEF vars, result
    <2> QED
      BY <2>1 DEF Counted, Opened, Told, Planned, TotalCount, Different, Pending, OpenIdx, CountOf
  <1> QED
    BY <1>1, <1>2, <1>3, <1>4, <1>5, <1>6, <1>7, <1>8, <1>9, <1>10, <1>11, <1>12 DEF Next

(* The counts of run_completed fit the verdict and the announced total,    *)
(* for every set of manifests and requests.                                *)
THEOREM CountsAreRight == Spec => []CountsFit
  <1>1. IInv /\ InSetup /\ Streamed /\ Counted /\ [Next]_vars => Counted'
    BY CountedStep
  <1>2. Init => Counted
    BY DEF Init, Counted, Opened, Told, StepPhases
  <1>3. IInv /\ Counted => CountsFit
    BY CountedFits
  <1>4. StepsInv => InSetup
    BY DEF StepsInv, Accounts
  <1>5. IInv /\ Streamed /\ [Next]_vars => Streamed'
    BY StreamedStep
  <1> QED
    BY <1>1, <1>2, <1>3, <1>4, <1>5, InitStreamed, Invariance, StepsInvariance, PTL DEF Spec
=============================================================================
