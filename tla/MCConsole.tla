----------------------------- MODULE MCConsole -----------------------------
(* The pages that watch over the tests, one of them open at a time: schedules, *)
(* alerts, release gates and the confidence score.                            *)
EXTENDS Schedules, Alerts, Gates, Confidence

VARIABLE at  \* the page that is open

all == <<at, schVars, altVars, gatVars, conInput>>

MCSchRows == [s \in {"s1"} |-> [f \in Fields |-> f \in {"on", "session"}]]
MCAltRules ==
    [r \in {"r1"} |-> [on |-> TRUE, cond |-> "run_failed", threshold |-> FALSE, scope |-> "all", value |-> FALSE]]
MCAltRuns == [x \in {"x1", "x2"} |-> [failed |-> TRUE, test |-> x = "x1"]]

InSchedules(A) == at = "schedules" /\ A /\ UNCHANGED <<at, altVars, gatVars, conInput>>
InAlerts(A) == at = "alerts" /\ A /\ UNCHANGED <<at, schVars, gatVars, conInput>>
InGates(A) == at = "gates" /\ A /\ UNCHANGED <<at, schVars, altVars, conInput>>
InConfidence(A) == at = "confidence" /\ A /\ UNCHANGED <<at, schVars, altVars, gatVars>>

MCInit ==
    /\ at \in {"schedules", "alerts", "gates", "confidence"}
    /\ SchInit /\ AltInit /\ GatInit /\ ConInit

MCNext == InSchedules(SchNext) \/ InAlerts(AltNext) \/ InGates(GatNext) \/ InConfidence(ConNext)

\* The fairness of each page.  As the page stays the same, actions of different
\* pages can share a condition.
MCFairness ==
    /\ WF_all(InSchedules(SchProgress) \/ InAlerts(AltProgress) \/ InGates(GatServer))
    /\ WF_all(InGates(GatAnswer))
    /\ WF_all(InGates(gatLoads # <<>> /\ GatServeLoad(1))) /\ WF_all(InGates(GatLoadAnswer(1)))

MCSpec == MCInit /\ [][MCNext]_all /\ MCFairness

\* When nothing is under way each page shows what is stored: the schedules, the
\* rules and incidents, and a gate's verdict on the latest candidate.
ConsoleShowsStored == SchFreshAtRest /\ AltFreshAtRest /\ VerdictHonest

Waiting ==
    \/ at = "schedules" /\ SchWaiting
    \/ at = "alerts" /\ AltWaiting
    \/ at = "gates" /\ GatWaiting

\* No page stays behind its spinner, and no button that was pressed stays
\* disabled, whichever request fails, whatever restarts or overlaps.
ConsoleResponds == Waiting ~> ~Waiting
=============================================================================
