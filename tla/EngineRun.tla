----------------------------- MODULE EngineRun ------------------------------
(***************************************************************************)
(* One test run: Runner.Run and everything under it (engine/runner.go) and *)
(* Executor.ExecuteStep (engine/executor.go).  A run is one goroutine; what*)
(* is nondeterministic is what it meets: how each attempt of a step ends,  *)
(* which values a response holds, what a `when` condition evaluates to and *)
(* the order inside a DAG batch.                                           *)
(*                                                                         *)
(* Indices start at 1 (Go's plus one); from_step keeps Go's 0-based value. *)
(***************************************************************************)
EXTENDS StepGraph, SeqFilter

CONSTANTS
  Key,                    \* keys of the shared extract pool
  StepName,               \* names of steps
  Manifests,              \* the manifests a run may be given
  Requests                \* the run requests it may be given

(* How one attempt of a step can end, by its type.  A response's           *)
(* assertions all hold ("met") or one does not ("missed"); "done" is a     *)
(* step that evaluates none, "error" a transport error, a failed browser   *)
(* action or an unknown step type.                                         *)
CallOutcomes == {"met", "missed", "error"}
BrowserOutcomes == {"done", "error"}

Outcomes == [call    |-> CallOutcomes,
             assert  |-> {"met", "missed"},
             browser |-> BrowserOutcomes,
             wait    |-> {"done"},
             unknown |-> {"error"}]

StepDef == [name : StepName, kind : DOMAIN Outcomes,
            dependsOn : SUBSET StepName, when : BOOLEAN, retries : Int,
            extract : SUBSET Key]

StepPhases == {"setup", "main", "teardown"}

(* retries is the manifest's config.retries, a step's own is in StepDef.   *)
Manifest == [setup : Seq(StepDef), main : Seq(StepDef),
             teardown : Seq(StepDef), retries : Nat]

ASSUME ManifestsAssumption == Manifests \subseteq Manifest

(* Only a resumed run starts somewhere else or with a filled pool.         *)
ASSUME RequestsAssumption ==
  /\ Requests \subseteq [resume : BOOLEAN, from : Nat, preload : SUBSET Key]
  /\ \A r \in Requests : ~ r.resume => r.from = 0 /\ r.preload = {}

VARIABLES
  manifest,               \* req.Manifest
  req,                    \* [resume, from, preload]
  phase,                  \* "new" | a phase | "done"
  left,                   \* indices of the phase not handed out yet
  batch,                  \* rest of the current DAG batch
  failedSteps,            \* runDAG's map of failed step names
  cur,                    \* the step in flight, NoStep between steps
  pool,                   \* interpCtx.Extract: where a key's value came from
  status,                 \* res.Status
  total,                  \* res.TotalCount
  steps,                  \* res.Steps
  extracts,               \* res.Extracts
  events                  \* what the emitter was given

vars == <<manifest, req, phase, left, batch, failedSteps, cur, pool,
          status, total, steps, extracts, events>>
input == <<manifest, req>>
result == <<status, total, steps, extracts>>

Failures == {"failed", "error"}

NoStep == [idx |-> 0, attempt |-> 0, status |-> "none", last |-> "none",
           asserted |-> "none", found |-> [k \in Key |-> "none"]]

FreshStep(i) == [NoStep EXCEPT !.idx = i, !.status = "running"]

Indices(list) == DOMAIN list

UsesDAG == ~ req.resume /\ HasDependencies(manifest.main)

Step(ph, i) == manifest[ph][i]

Overlay(f, g) == [k \in Key |-> IF g[k] = "none" THEN f[k] ELSE g[k]]

Emit(e) == events' = Append(events, e)

-----------------------------------------------------------------------------

Init ==
  /\ manifest \in Manifests
  /\ req \in Requests
  /\ phase = "new"
  /\ left = {}
  /\ batch = {}
  /\ failedSteps = {}
  /\ cur = NoStep
  /\ pool = [k \in Key |-> IF k \in req.preload THEN "preload" ELSE "none"]
  /\ status = "passed"
  /\ total = 0
  /\ steps = << >>
  /\ extracts = [k \in Key |-> "none"]
  /\ events = << >>

(* A resumed run has only the main steps from FromStep onward.             *)
ResumeSteps == req.from + 1 .. Len(manifest.main)

TotalCount_bug == Len(manifest.main) - req.from - 1
TotalCount ==
  IF req.resume
    THEN Len(manifest.main) - req.from
    ELSE Len(manifest.setup) + Len(manifest.main) + Len(manifest.teardown)

(* Run, up to the first step.                                              *)
Start ==
  /\ phase = "new"
  /\ IF req.resume
       THEN phase' = "main" /\ left' = ResumeSteps
       ELSE phase' = "setup" /\ left' = Indices(manifest.setup)
  /\ total' = TotalCount
  /\ Emit([type |-> "run_started", total |-> total'])
  /\ UNCHANGED <<input, batch, failedSteps, cur, pool, status, steps, extracts>>

(* The phase's steps are all handed out and the last one has ended.        *)
PhaseOver == left = {} /\ batch = {} /\ cur = NoStep

StartMain ==
  /\ phase = "setup"
  /\ PhaseOver
  /\ phase' = "main"
  /\ left' = Indices(manifest.main)
  /\ UNCHANGED <<input, batch, failedSteps, cur, pool, result, events>>

StartTeardown ==
  /\ phase = "main"
  /\ ~ req.resume
  /\ PhaseOver
  /\ phase' = "teardown"
  /\ left' = Indices(manifest.teardown)
  /\ UNCHANGED <<input, batch, failedSteps, cur, pool, result, events>>

(* runDAG takes the next batch of the plan (Dag.tla computes the plan).    *)
NextBatch ==
  /\ phase = "main"
  /\ UsesDAG
  /\ batch = {}
  /\ cur = NoStep
  /\ left # {}
  /\ batch' = BatchOf(manifest.main, left)
  /\ left' = left \ batch'
  /\ UNCHANGED <<input, phase, failedSteps, cur, pool, result, events>>

(* shouldSkip: a direct dependency has already failed.                     *)
Blocked_never(i) == FALSE
Blocked(i) == manifest.main[i].dependsOn \cap failedSteps # {}

(* A blocked step leaves no trace: no result, no event, no failed name.    *)
SkipBlocked(i) ==
  /\ i \in batch
  /\ cur = NoStep
  /\ Blocked(i)
  /\ batch' = batch \ {i}
  /\ UNCHANGED <<input, phase, left, failedSteps, cur, pool, result, events>>

BeginStep(i) ==
  /\ cur' = FreshStep(i)
  /\ Emit([type |-> "step_started", phase |-> phase, idx |-> i])
  /\ UNCHANGED <<input, phase, failedSteps, pool, result>>

(* Setup, teardown, resume and a main phase without dependencies: by index.*)
BeginNext ==
  /\ phase \in StepPhases
  /\ phase = "main" => ~ UsesDAG
  /\ cur = NoStep
  /\ \E i \in left :
       /\ \A j \in left : i <= j
       /\ left' = left \ {i}
       /\ BeginStep(i)
  /\ UNCHANGED batch

BeginInBatch(i) ==
  /\ i \in batch
  /\ cur = NoStep
  /\ ~ Blocked(i)
  /\ batch' = batch \ {i}
  /\ BeginStep(i)
  /\ UNCHANGED left

(* The retry loop goes on after an error and while the status is "failed". *)
MoreAttempts ==
  /\ cur.attempt <= Step(phase, cur.idx).retries
  /\ cur.attempt = 0 \/ cur.last = "error" \/ cur.status = "failed"

AfterAttempt(o, got) ==
  [idx |-> cur.idx,
   attempt |-> cur.attempt + 1,
   last |-> o,
   status |-> IF o = "missed" THEN "failed" ELSE cur.status,
   asserted |-> IF o \in {"met", "missed"} THEN o ELSE cur.asserted,
   found |-> Overlay(cur.found, got)]

(* One pass of the loop: extracts go to the pool first, then the           *)
(* assertions are evaluated; a miss marks the step failed, and nothing     *)
(* clears that mark on a later attempt.                                    *)
Attempt ==
  /\ cur # NoStep
  /\ MoreAttempts
  /\ \E o \in Outcomes[Step(phase, cur.idx).kind],
        found \in SUBSET Step(phase, cur.idx).extract :
       LET got == [k \in Key |->
                    IF k \in found /\ o # "error" THEN o ELSE "none"]
       IN /\ pool' = Overlay(pool, got)
          /\ cur' = AfterAttempt(o, got)
  /\ UNCHANGED <<input, phase, left, batch, failedSteps, result, events>>

FinalStatus == IF cur.last = "error" THEN "error"
               ELSE IF cur.status = "running" THEN "passed" ELSE cur.status

(* RetryCount is set behind every attempt that does not end the loop.      *)
RetryCount ==
  IF cur.attempt > 0 /\ cur.last # "error" /\ cur.status # "failed"
    THEN cur.attempt - 1
    ELSE cur.attempt

StepCompleted_early(st) ==
  [type |-> "step_completed", idx |-> cur.idx, status |-> cur.status]
StepCompleted(st) ==
  [type |-> "step_completed", idx |-> cur.idx, status |-> st]

Merged_passed(st) == IF st = "passed" THEN Overlay(extracts, cur.found) ELSE extracts
Merged(st) == Overlay(extracts, cur.found)

(* Failures of setup and main steps fail the run, those of teardown don't. *)
FailsRun_all(st) == st \in Failures
FailsRun(st) == st \in Failures /\ phase # "teardown"

(* A failed setup step aborts setup and main, but teardown still runs.     *)
AbortSetup_bug == phase' = "teardown" /\ left' = {}
AbortSetup == phase' = "teardown" /\ left' = Indices(manifest.teardown)

Aborts_main(st) == FailsRun(st)
Aborts(st) == st \in Failures /\ phase = "setup"

(* runStep, and what runAll, runDAG and runMainFrom do with its result.    *)
Report(st) ==
  /\ steps' = Append(steps,
       [phase |-> phase, idx |-> cur.idx, status |-> st,
        attempts |-> cur.attempt, retryCount |-> RetryCount,
        asserted |-> cur.asserted])
  /\ extracts' = Merged(st)
  /\ Emit(StepCompleted(st))
  /\ cur' = NoStep
  /\ status' = IF FailsRun(st) THEN "failed" ELSE status
  /\ failedSteps' = IF st \in Failures /\ phase = "main" /\ UsesDAG
                      THEN failedSteps \cup {Step(phase, cur.idx).name}
                      ELSE failedSteps
  /\ IF Aborts(st) THEN AbortSetup ELSE UNCHANGED <<phase, left>>
  /\ UNCHANGED <<input, batch, pool, total>>

(* The `when` condition is false: no attempt is made.                      *)
SkipByWhen ==
  /\ cur # NoStep
  /\ cur.attempt = 0
  /\ Step(phase, cur.idx).when
  /\ Report("skipped")

EndStep ==
  /\ cur # NoStep
  /\ ~ MoreAttempts
  /\ Report(FinalStatus)

CountOf(statuses) ==
  Cardinality({k \in DOMAIN steps : steps[k].status \in statuses})

RunOver_total == phase \in StepPhases /\ PhaseOver /\ Len(steps) = total
RunOver == phase = (IF req.resume THEN "main" ELSE "teardown") /\ PhaseOver

(* finalize: counts and the run_completed event.                           *)
Finalize ==
  /\ RunOver
  /\ phase' = "done"
  /\ Emit([type |-> "run_completed", status |-> status, total |-> total,
           passed |-> CountOf({"passed"}), failed |-> CountOf(Failures)])
  /\ UNCHANGED <<input, left, batch, failedSteps, cur, pool, result>>

Next ==
  \/ Start
  \/ StartMain
  \/ StartTeardown
  \/ NextBatch
  \/ \E i \in batch : SkipBlocked(i)
  \/ BeginNext
  \/ \E i \in batch : BeginInBatch(i)
  \/ Attempt
  \/ SkipByWhen
  \/ EndStep
  \/ Finalize

(* The run is one goroutine that only sleeps and waits with time limits.   *)
Spec == Init /\ [][Next]_vars /\ WF_vars(Next)

-----------------------------------------------------------------------------

Origin == {"none", "preload", "met", "missed", "done"}

InFlight ==
  [idx : Nat, attempt : Nat, status : {"none", "running", "failed"},
   last : Origin \cup {"error"}, asserted : {"none", "met", "missed"},
   found : [Key -> Origin]]

StepResult ==
  [phase : StepPhases, idx : Nat,
   status : {"passed", "skipped", "failed", "error"},
   attempts : Nat, retryCount : Nat, asserted : {"none", "met", "missed"}]

TypeOK ==
  /\ manifest \in Manifests
  /\ req \in Requests
  /\ phase \in StepPhases \cup {"new", "done"}
  /\ left \subseteq Nat
  /\ batch \subseteq Nat
  /\ failedSteps \subseteq StepName
  /\ cur \in InFlight
  /\ pool \in [Key -> Origin]
  /\ status \in {"passed", "failed"}
  /\ total \in Int
  /\ steps \in Seq(StepResult)
  /\ extracts \in [Key -> Origin]

(* The steps' indices, over all manifests.                                 *)
Index == UNION {DOMAIN m[ph] : m \in Manifests, ph \in StepPhases}

Brief(r) == [phase |-> r.phase, idx |-> r.idx, status |-> r.status]

OpenStep == IF cur = NoStep THEN {} ELSE {<<phase, cur.idx>>}
ReportSoFar == [k \in DOMAIN steps |-> Brief(steps[k])]
VerdictGiven == IF phase = "done" THEN status ELSE "none"

Contract == INSTANCE RunContract WITH
  open <- OpenStep, report <- ReportSoFar, verdict <- VerdictGiven

(* A run keeps the promise of RunContract: no step twice or out of its     *)
(* phase, no main step after a failed setup step, and a verdict that       *)
(* follows from the reported steps alone.                                  *)
ImplementsContract == Contract!Spec

Reported(ph, i) == \E k \in DOMAIN steps : steps[k].phase = ph /\ steps[k].idx = i

FailedAt(k, ph) == steps[k].phase = ph /\ steps[k].status \in Failures

(* Teardown always runs in full, whatever failed before or in it; only a   *)
(* resumed run has none.                                                   *)
TeardownRuns ==
  phase = "done" /\ ~ req.resume =>
    \A i \in Indices(manifest.teardown) : Reported("teardown", i)

(* No step is silently forgotten: a setup step is missing only behind a    *)
(* failed one, a main step only when setup failed, when it lies before the *)
(* resume point, or when a step it names in dependsOn failed, and no step  *)
(* of teardown at all.                                                     *)
StepsAccounted ==
  phase = "done" =>
    /\ TeardownRuns
    /\ \A i \in Indices(manifest.setup) :
         \/ Reported("setup", i)
         \/ req.resume
         \/ \E k \in DOMAIN steps : FailedAt(k, "setup") /\ steps[k].idx < i
    /\ \A i \in Indices(manifest.main) :
         \/ Reported("main", i)
         \/ req.resume /\ i <= req.from
         \/ \E k \in DOMAIN steps : FailedAt(k, "setup")
         \/ /\ UsesDAG
            /\ \E k \in DOMAIN steps :
                 /\ FailedAt(k, "main")
                 /\ manifest.main[steps[k].idx].name \in manifest.main[i].dependsOn

(* When a step's result is in, each of its dependencies has had its turn   *)
(* before: it is reported, or was itself skipped for a failed dependency.  *)
DependenciesDecided ==
  UsesDAG /\ Acyclic(manifest.main) =>
    \A k \in DOMAIN steps : steps[k].phase = "main" =>
      \A d \in Deps(manifest.main, steps[k].idx) :
        \E j \in 1 .. k - 1 :
          /\ steps[j].phase = "main"
          /\ \/ steps[j].idx = d
             \/ /\ FailedAt(j, "main")
                /\ manifest.main[steps[j].idx].name \in manifest.main[d].dependsOn

(* Once a step of a DAG failed, no main step that names it in dependsOn runs.       *)
FailureBlocks ==
  UsesDAG =>
    \A k \in DOMAIN steps : FailedAt(k, "main") =>
      \A j \in k + 1 .. Len(steps) : steps[j].phase = "main" =>
        manifest.main[steps[k].idx].name \notin manifest.main[steps[j].idx].dependsOn

EventsOf(type) ==
  Filter(events, {events[i] : i \in {j \in DOMAIN events : events[j].type = type}})

(* A viewer who only follows the events learns what the result says: the   *)
(* k-th step_started and the k-th step_completed are of the k-th reported  *)
(* step, with its status; one more step_started is the step in flight.     *)
StreamMatchesResult ==
  LET started == EventsOf("step_started")
      completed == EventsOf("step_completed")
  IN /\ Len(completed) = Len(steps)
     /\ Len(started) = Len(steps) + (IF cur = NoStep THEN 0 ELSE 1)
     /\ \A k \in DOMAIN steps :
          /\ started[k].phase = steps[k].phase
          /\ started[k].idx = steps[k].idx
          /\ completed[k].idx = steps[k].idx
          /\ completed[k].status = steps[k].status

(* The counts of run_completed fit the verdict and the announced total: a  *)
(* failed run counts a failure, a passed one only failures of teardown.    *)
(* (A resume point behind the last step, which nothing refuses, makes the  *)
(* total negative.)                                                        *)
CountsFit ==
  phase = "done" =>
    LET e == events[Len(events)]
    IN /\ e.type = "run_completed"
       /\ req.from <= Len(manifest.main) => e.passed + e.failed <= e.total
       /\ e.status = "failed" => e.failed > 0
       /\ e.status = "passed" /\ e.failed > 0 =>
            \E k \in DOMAIN steps : FailedAt(k, "teardown")

(* Between steps the extracts the result hands to the host are exactly the *)
(* values later steps see in the pool, preloaded ones aside.               *)
ExtractsAgree ==
  cur = NoStep =>
    \A k \in Key :
      IF extracts[k] = "none" THEN pool[k] \in {"none", "preload"}
                              ELSE pool[k] = extracts[k]

(* A run ends, whatever its steps do and however their dependencies cycle. *)
Terminates == <>(phase = "done")

-----------------------------------------------------------------------------
(* What the repository says of a run and the code does not do.             *)

(* A retry recovers: a step whose last attempt met all its assertions is   *)
(* not recorded as failed.                                                 *)
RetryRecovers ==
  \A k \in DOMAIN steps : steps[k].status = "failed" => steps[k].asserted = "missed"
=============================================================================
