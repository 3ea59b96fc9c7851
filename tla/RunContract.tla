---------------------------- MODULE RunContract -----------------------------
(***************************************************************************)
(* What a test run promises its host (RunRequest, RunResult and the events *)
(* of engine/ports.go and engine/event): steps are opened and closed one   *)
(* at a time, each at most once and phase after phase; nothing of the main *)
(* phase opens once a setup step failed; and the verdict, given once at    *)
(* the end, is "failed" exactly when a step outside teardown failed.       *)
(* EngineRun.tla implements it.                                            *)
(***************************************************************************)
EXTENDS Integers, Sequences

CONSTANT Index            \* the indices steps may have

Phases == {"setup", "main", "teardown"}
Rank == [setup |-> 1, main |-> 2, teardown |-> 3]
Failures == {"failed", "error"}
StepStatuses == {"passed", "skipped"} \cup Failures

VARIABLES
  open,                   \* {} or the one step in flight, as <<phase, index>>
  report,                 \* the closed steps with their statuses, in order
  verdict                 \* "none" until the run ends

contractVars == <<open, report, verdict>>

Fails(r, phases) ==
  \E k \in DOMAIN r : r[k].phase \in phases /\ r[k].status \in Failures

Verdict(r) == IF Fails(r, {"setup", "main"}) THEN "failed" ELSE "passed"

MayOpen(ph, i) ==
  /\ ph = "main" => ~ Fails(report, {"setup"})
  /\ \A k \in DOMAIN report :
       \/ Rank[report[k].phase] < Rank[ph]
       \/ report[k].phase = ph /\ report[k].idx # i

Init ==
  /\ open = {}
  /\ report = << >>
  /\ verdict = "none"

Open ==
  /\ verdict = "none"
  /\ open = {}
  /\ \E ph \in Phases, i \in Index :
       MayOpen(ph, i) /\ open' = {<<ph, i>>}
  /\ UNCHANGED <<report, verdict>>

Close ==
  /\ \E ph \in Phases, i \in Index, st \in StepStatuses :
       /\ open = {<<ph, i>>}
       /\ report' = Append(report, [phase |-> ph, idx |-> i, status |-> st])
  /\ open' = {}
  /\ UNCHANGED verdict

Finish ==
  /\ verdict = "none"
  /\ open = {}
  /\ verdict' = Verdict(report)
  /\ UNCHANGED <<open, report>>

Next == Open \/ Close \/ Finish

Spec == Init /\ [][Next]_contractVars
=============================================================================
