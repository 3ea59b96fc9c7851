------------------------------ MODULE RunStore ------------------------------
(***************************************************************************)
(* The rows of the API's runs and everybody who writes or reads them: the  *)
(* handlers that create, read and delete runs, the goroutine that executes *)
(* a run and persists each step as it completes, and a release gate that   *)
(* executes a run inside a request.  Every SQL statement is a step of its  *)
(* own (no handler uses a transaction); the server may crash between any   *)
(* two, and a statement may fail.                                          *)
(*                                                                         *)
(* A step leaves one row and one artifact.  The engine is reduced to the   *)
(* order of its calls (EngineRun.tla has the rest), and the alerts         *)
(* evaluated after a run are left out.                                     *)
(***************************************************************************)
EXTENDS Integers, FiniteSets

CONSTANTS
  Run,                    \* the runs that may be created
  Steps,                  \* how many steps each executes
  MaxConcurrency,         \* the setting MAX_CONCURRENCY
  MayCancel,              \* bound: whether clients of a gate may go away
  MaxFaults,              \* bound: SQL statements that fail
  MaxCrashes              \* bound: crashes of the server

ASSUME StoreAssumption ==
  /\ Steps \in Nat /\ MaxConcurrency \in Nat
  /\ MayCancel \in BOOLEAN
  /\ MaxFaults \in Nat /\ MaxCrashes \in Nat

VARIABLES
  row,                    \* status of the row in runs
  saved,                  \* the run's rows in step_results, as step numbers
  artifacts,              \* the steps whose artifact is stored
  pc,                     \* where the run's goroutine is
  done,                   \* steps it has executed
  verdict,                \* RunResult.Status
  announced,              \* run_completed has been emitted
  gate,                   \* it runs inside a release gate's request ...
  cancelled,              \* ... whose context has been cancelled
  deleting,               \* how far a deletion of the run is
  reader,                 \* a GET of a run under way or answered
  faults, crashes

vars == <<row, saved, artifacts, pc, done, verdict, announced, gate, cancelled,
          deleting, reader, faults, crashes>>
tables == <<row, saved, artifacts>>
worker == <<pc, done, verdict, announced>>
request == <<gate, cancelled>>
others == <<deleting, reader>>
bounds == <<faults, crashes>>

AllSteps == 1 .. Steps
InProgress == {"pending", "running"}
Terminal == {"passed", "failed"}
Alive == {"begin", "run", "save", "artifact", "finish"}
NoReader == [at |-> "idle", told |-> FALSE, status |-> "none",
             steps |-> {}, run |-> "none"]

Init ==
  /\ row = [r \in Run |-> "none"]
  /\ saved = [r \in Run |-> {}]
  /\ artifacts = [r \in Run |-> {}]
  /\ pc = [r \in Run |-> "none"]
  /\ done = [r \in Run |-> 0]
  /\ verdict = [r \in Run |-> "none"]
  /\ announced = [r \in Run |-> FALSE]
  /\ gate = [r \in Run |-> FALSE]
  /\ cancelled = [r \in Run |-> FALSE]
  /\ deleting = [r \in Run |-> "no"]
  /\ reader = NoReader
  /\ faults = 0
  /\ crashes = 0

Exists(r) == row[r] \notin {"none", "deleted"}

Fault == faults < MaxFaults /\ faults' = faults + 1
NoFault == UNCHANGED faults

-----------------------------------------------------------------------------
(* Creating a run.                                                         *)

Goto(r, to) == pc' = [pc EXCEPT ![r] = to]

Create_full(r) ==
  /\ row[r] = "none"
  /\ row' = [row EXCEPT ![r] = "pending"]
  /\ \/ Cardinality({x \in Run : pc[x] \in Alive}) < MaxConcurrency /\ Goto(r, "begin")
     \/ Cardinality({x \in Run : pc[x] \in Alive}) >= MaxConcurrency /\ UNCHANGED pc
  /\ UNCHANGED <<saved, artifacts, done, verdict, announced, request, others,
                 bounds>>

(* CreateRun inserts the pending row; the handler starts the goroutine, a  *)
(* release gate executes the run itself.  An insert whose answer is lost   *)
(* leaves a row nobody executes.                                           *)
Create(r) ==
  /\ row[r] = "none"
  /\ row' = [row EXCEPT ![r] = "pending"]
  /\ \/ /\ Goto(r, "begin")
        /\ \E g \in BOOLEAN : gate' = [gate EXCEPT ![r] = g]
        /\ NoFault
     \/ UNCHANGED <<pc, gate>> /\ Fault
  /\ UNCHANGED <<saved, artifacts, done, verdict, announced, cancelled, others,
                 crashes>>

-----------------------------------------------------------------------------
(* The goroutine of a run.                                                 *)

(* An UPDATE whose error is ignored; a cancelled context makes it fail.    *)
Update(r, status) ==
  \/ /\ ~ cancelled[r]
     /\ row' = IF Exists(r) THEN [row EXCEPT ![r] = status] ELSE row
     /\ NoFault
  \/ cancelled[r] /\ UNCHANGED row /\ NoFault
  \/ UNCHANGED row /\ Fault

MarkRunning_late(r) ==
  /\ pc[r] # "none"
  /\ row[r] # "running"
  /\ Goto(r, IF pc[r] = "begin" THEN "run" ELSE pc[r])
  /\ Update(r, "running")
  /\ UNCHANGED <<saved, artifacts, done, verdict, announced, request, others,
                 crashes>>

MarkRunning(r) ==
  /\ pc[r] = "begin"
  /\ Goto(r, "run")
  /\ Update(r, "running")
  /\ UNCHANGED <<saved, artifacts, done, verdict, announced, request, others,
                 crashes>>

(* The engine executes a step and calls OnStep with its result.            *)
ExecuteStep(r) ==
  /\ pc[r] = "run"
  /\ done[r] < Steps
  /\ done' = [done EXCEPT ![r] = @ + 1]
  /\ Goto(r, "save")
  /\ UNCHANGED <<tables, verdict, announced, request, others, bounds>>

(* stepPersister: the row first; without it (a fault, or no run row to     *)
(* refer to) the artifact is not written either.                           *)
SaveStep(r) ==
  /\ pc[r] = "save"
  /\ \/ /\ Exists(r)
        /\ saved' = [saved EXCEPT ![r] = @ \cup {done[r]}]
        /\ Goto(r, "artifact")
        /\ NoFault
     \/ ~ Exists(r) /\ UNCHANGED saved /\ Goto(r, "run") /\ NoFault
     \/ UNCHANGED saved /\ Goto(r, "run") /\ Fault
  /\ UNCHANGED <<row, artifacts, done, verdict, announced, request, others,
                 crashes>>

(* The artifact refers to the step's row.                                  *)
SaveArtifact(r) ==
  /\ pc[r] = "artifact"
  /\ Goto(r, "run")
  /\ \/ /\ done[r] \in saved[r]
        /\ artifacts' = [artifacts EXCEPT ![r] = @ \cup {done[r]}]
        /\ NoFault
     \/ done[r] \notin saved[r] /\ UNCHANGED artifacts /\ NoFault
     \/ UNCHANGED artifacts /\ Fault
  /\ UNCHANGED <<row, saved, done, verdict, announced, request, others, crashes>>

(* finalize: the verdict, and run_completed for the viewers ...            *)
Announce(r) ==
  /\ pc[r] = "run"
  /\ done[r] = Steps
  /\ \E v \in Terminal : verdict' = [verdict EXCEPT ![r] = v]
  /\ announced' = [announced EXCEPT ![r] = TRUE]
  /\ Goto(r, "finish")
  /\ UNCHANGED <<tables, done, request, others, bounds>>

Finish_overlap(r) ==
  /\ pc[r] \in {"save", "finish"}
  /\ done[r] = Steps
  /\ Goto(r, IF pc[r] = "save" THEN "save" ELSE "over")
  /\ Update(r, IF pc[r] = "save" THEN "passed" ELSE verdict[r])
  /\ UNCHANGED <<saved, artifacts, done, verdict, announced, request, others,
                 crashes>>

Finish_passed(r) ==
  /\ pc[r] = "finish"
  /\ Goto(r, "over")
  /\ IF verdict[r] = "passed" THEN Update(r, "passed") ELSE UNCHANGED <<row, faults>>
  /\ UNCHANGED <<saved, artifacts, done, verdict, announced, request, others,
                 crashes>>

(* ... and only then the terminal status in the row.                       *)
Finish(r) ==
  /\ pc[r] = "finish"
  /\ Goto(r, "over")
  /\ Update(r, verdict[r])
  /\ UNCHANGED <<saved, artifacts, done, verdict, announced, request, others,
                 crashes>>

(* The client of a release gate's request goes away.                       *)
Cancel(r) ==
  /\ MayCancel
  /\ gate[r]
  /\ pc[r] \in Alive
  /\ ~ cancelled[r]
  /\ cancelled' = [cancelled EXCEPT ![r] = TRUE]
  /\ UNCHANGED <<tables, worker, gate, others, bounds>>

-----------------------------------------------------------------------------
(* Deleting a run: check the status, then three DELETEs.  Creating a run   *)
(* in place of an old one deletes the old one first, in the same way.      *)

DeleteCheck_any(r) ==
  /\ deleting[r] = "no"
  /\ Exists(r)
  /\ deleting' = [deleting EXCEPT ![r] = "steps"]
  /\ UNCHANGED <<tables, worker, request, reader, bounds>>

DeleteCheck(r) ==
  /\ deleting[r] = "no"
  /\ Exists(r)
  /\ row[r] \notin InProgress
  /\ deleting' = [deleting EXCEPT ![r] = "steps"]
  /\ UNCHANGED <<tables, worker, request, reader, bounds>>

DeleteGoesOn(r, at, next) ==
  /\ deleting[r] = at
  /\ deleting' = [deleting EXCEPT ![r] = next]
  /\ NoFault
  /\ UNCHANGED <<worker, request, reader, crashes>>

DeleteSteps(r) ==
  /\ DeleteGoesOn(r, "steps", "artifacts")
  /\ saved' = [saved EXCEPT ![r] = {}]
  /\ UNCHANGED <<row, artifacts>>

DeleteArtifacts(r) ==
  /\ DeleteGoesOn(r, "artifacts", "row")
  /\ artifacts' = [artifacts EXCEPT ![r] = {}]
  /\ UNCHANGED <<row, saved>>

(* What still refers to the row goes with it (ON DELETE CASCADE).          *)
DeleteRow(r) ==
  /\ DeleteGoesOn(r, "row", "no")
  /\ row' = [row EXCEPT ![r] = "deleted"]
  /\ saved' = [saved EXCEPT ![r] = {}]
  /\ artifacts' = [artifacts EXCEPT ![r] = {}]

DeleteFails(r) ==
  /\ deleting[r] # "no"
  /\ Fault
  /\ deleting' = [deleting EXCEPT ![r] = "no"]
  /\ UNCHANGED <<tables, worker, request, reader, crashes>>

-----------------------------------------------------------------------------
(* Reading a run, as the builder does when it is told run_completed, or as *)
(* any page does: the row, then the steps (then the artifacts likewise).   *)

ReadRow(r) ==
  /\ reader.at = "idle"
  /\ Exists(r)
  /\ reader' = [at |-> "row", told |-> announced[r], status |-> row[r],
                steps |-> {}, run |-> r]
  /\ UNCHANGED <<tables, worker, request, deleting, bounds>>

ReadSteps(r) ==
  /\ reader.at = "row"
  /\ reader.run = r
  /\ reader' = [reader EXCEPT !.at = "answered", !.steps = saved[r]]
  /\ UNCHANGED <<tables, worker, request, deleting, bounds>>

ReadStepsFirst(r) ==
  /\ reader.at = "idle"
  /\ Exists(r)
  /\ reader' = [at |-> "row", told |-> announced[r], status |-> "none",
                steps |-> saved[r], run |-> r]
  /\ UNCHANGED <<tables, worker, request, deleting, bounds>>

ReadRowLast(r) ==
  /\ reader.at = "row"
  /\ reader.run = r
  /\ reader' = [reader EXCEPT !.at = "answered", !.status = row[r]]
  /\ UNCHANGED <<tables, worker, request, deleting, bounds>>

GetRun_swapped(r) == ReadStepsFirst(r) \/ ReadRowLast(r)
GetRun(r) == ReadRow(r) \/ ReadSteps(r)

ReadAgain ==
  /\ reader.at = "answered"
  /\ reader' = NoReader
  /\ UNCHANGED <<tables, worker, request, deleting, bounds>>

-----------------------------------------------------------------------------

(* A crash ends every goroutine and request; nothing looks at the rows     *)
(* they left when the server starts again.                                 *)
Crash ==
  /\ crashes < MaxCrashes
  /\ crashes' = crashes + 1
  /\ pc' = [r \in Run |-> IF pc[r] \in Alive THEN "dead" ELSE pc[r]]
  /\ deleting' = [r \in Run |-> "no"]
  /\ reader' = NoReader
  /\ UNCHANGED <<tables, done, verdict, announced, request, faults>>

Work(r) ==
  MarkRunning(r) \/ ExecuteStep(r) \/ SaveStep(r) \/ SaveArtifact(r)
    \/ Announce(r) \/ Finish(r)

Delete(r) ==
  DeleteCheck(r) \/ DeleteSteps(r) \/ DeleteArtifacts(r) \/ DeleteRow(r)
    \/ DeleteFails(r)

Next ==
  \/ \E r \in Run : Create(r) \/ Work(r) \/ Cancel(r) \/ Delete(r) \/ GetRun(r)
  \/ ReadAgain
  \/ Crash

(* The goroutine of a run is scheduled; a step ends in bounded time.       *)
Spec == Init /\ [][Next]_vars /\ \A r \in Run : WF_vars(Work(r))

-----------------------------------------------------------------------------

TypeOK ==
  /\ row \in [Run -> InProgress \cup Terminal \cup {"none", "deleted"}]
  /\ saved \in [Run -> SUBSET AllSteps]
  /\ artifacts \in [Run -> SUBSET AllSteps]
  /\ pc \in [Run -> Alive \cup {"none", "over", "dead"}]
  /\ done \in [Run -> 0 .. Steps]
  /\ verdict \in [Run -> Terminal \cup {"none"}]
  /\ announced \in [Run -> BOOLEAN]
  /\ gate \in [Run -> BOOLEAN]
  /\ cancelled \in [Run -> BOOLEAN]
  /\ deleting \in [Run -> {"no", "steps", "artifacts", "row"}]
  /\ reader.at \in {"idle", "row", "answered"}
  /\ reader.steps \subseteq AllSteps
  /\ faults \in 0 .. MaxFaults
  /\ crashes \in 0 .. MaxCrashes

(* Whatever fails or crashes, a run row's status only moves forward: a     *)
(* pending run starts, a started one gets its verdict, and a verdict, once *)
(* written, is the engine's and stays until the run is deleted.            *)
StatusForward ==
  [][\A r \in Run : row'[r] # row[r] =>
       \/ row[r] = "none" /\ row'[r] = "pending"
       \/ row[r] = "pending" /\ row'[r] = "running"
       \/ row[r] \in InProgress /\ row'[r] = verdict[r]
       \/ row[r] = verdict[r] /\ row'[r] = "deleted"]_vars

(* Deleting never races the run: when the rows are gone no goroutine is    *)
(* left that could write one, and nothing reappears.                       *)
DeletedStaysGone ==
  \A r \in Run : row[r] = "deleted" =>
    pc[r] \notin Alive /\ saved[r] = {} /\ artifacts[r] = {}

(* Unless a statement failed, or a crash left a deletion halfway, a        *)
(* terminal status means all steps and artifacts of the run are in the     *)
(* tables too, until someone deletes it.                                   *)
TerminalIsComplete ==
  faults = 0 /\ crashes = 0 =>
    \A r \in Run : row[r] \in Terminal /\ deleting[r] = "no" =>
      saved[r] = AllSteps /\ artifacts[r] = AllSteps

(* With the same exceptions a reader that is given a terminal status is    *)
(* given all the run's steps with it, although it reads twice, unless the  *)
(* run is being deleted under it.                                          *)
ReadsAreComplete ==
  /\ faults = 0 /\ crashes = 0
  /\ reader.at = "answered"
  /\ reader.status \in Terminal
  /\ reader.steps # AllSteps
  => row[reader.run] = "deleted" \/ deleting[reader.run] # "no"

(* A row that says a run is pending or running tells the truth: somebody   *)
(* is executing it.  Only a failed statement, a crash or a gate that went  *)
(* away make it lie, for good.                                             *)
InProgressIsTrue ==
  \A r \in Run : row[r] \in InProgress =>
    pc[r] \in Alive \/ cancelled[r] \/ faults > 0 \/ crashes > 0

(* Every created run gets its verdict in the row, with those exceptions.   *)
RunsSettle ==
  \A r \in Run : row[r] = "pending" ~>
    \/ row[r] \in Terminal \cup {"deleted"}
    \/ cancelled[r] \/ faults > 0 \/ crashes > 0
=============================================================================
