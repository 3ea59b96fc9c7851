----------------------------- MODULE Confidence -----------------------------
(* The confidence score, its blockers and the release-gate checks, all derived *)
(* from the same five inputs (web/src/lib/confidence.ts), and the two cards    *)
(* that show them.  Inputs arrive, change and go missing one at a time.        *)
(* Fractions are exact here; the program computes them in floating point.      *)
EXTENDS Integers, FiniteSets, Absent

CONSTANTS ConTests,     \* tests
          ConCritical,  \* those tagged as critical
          ConOps,       \* number of operations of the services
          ConServices,  \* catalog entries
          ConIncidents, \* bound: open critical incidents
          ConThreshold  \* coverage threshold, in percent

ASSUME ConfidenceAssumption ==
    /\ IsFiniteSet(ConTests) /\ IsFiniteSet(ConServices) /\ ConCritical \subseteq ConTests
    /\ ConOps \in Nat /\ ConIncidents \in Nat /\ ConThreshold \in 0 .. 100
    /\ None \notin BOOLEAN \cup Nat \cup (Nat \X Nat)

VARIABLE conInput  \* [tests, coverage, catalog, incidents, schedules], each None until it is fetched

\* What each can be; of schedules, only whether one is enabled matters.
Values ==
    [tests |-> [ConTests -> {"passed", "failed", "never"}] \cup {[t \in {} |-> "never"]},
     coverage |-> [covered : 0 .. ConOps, total : {ConOps}] \cup {[covered |-> 0, total |-> 0]},
     catalog |-> [ConServices -> {"healthy", "unreachable", "unknown"}],
     incidents |-> 0 .. ConIncidents,
     schedules |-> BOOLEAN]

Signals == {"coverage", "failingTests", "serviceHealth", "incidents", "schedules"}

-----------------------------------------------------------------------------
(* The score.                                                                *)

Weight == [coverage |-> 30, failingTests |-> 30, serviceHealth |-> 20, incidents |-> 15, schedules |-> 5]

Count(f, v) == Cardinality({ x \in DOMAIN f : f[x] = v })

\* ratio(), as numerator and denominator.
Ratio(n, d) == IF d > 0 THEN <<n, d>> ELSE None

Coverage(in) == IF in.coverage = None THEN None ELSE Ratio(in.coverage.covered, in.coverage.total)

\* Services whose state is not known do not count.
Health(in) ==
    IF in.catalog = None THEN None
    ELSE LET h == Count(in.catalog, "healthy") IN Ratio(h, h + Count(in.catalog, "unreachable"))

Failing(in) == Count(in.tests, "failed")

Fractions(in) ==
    [coverage |-> Coverage(in),
     failingTests |-> IF in.tests = None THEN None
                      ELSE LET n == Cardinality(DOMAIN in.tests) IN Ratio(n - Failing(in), n),
     serviceHealth |-> Health(in),
     incidents |-> IF in.incidents = None THEN None ELSE <<IF in.incidents > 0 THEN 0 ELSE 1, 1>>,
     schedules |-> IF in.schedules = None THEN None ELSE <<IF in.schedules THEN 1 ELSE 0, 1>>]

Available(in) == { k \in Signals : Fractions(in)[k] # None }

\* Math.round of a hundred times n / d.
Percent(n, d) == (200 * n + d) \div (2 * d)

\* One more signal, if it is there: the sum of the weighted fractions, as
\* numerator and denominator, and the sum of their weights.
Plus(sum, in, k) ==
    LET f == Fractions(in)[k]
    IN  IF f = None THEN sum
        ELSE [num |-> sum.num * f[2] + Weight[k] * f[1] * sum.den,
              den |-> sum.den * f[2],
              weight |-> sum.weight + Weight[k]]

Nothing == [num |-> 0, den |-> 1, weight |-> 0]
Sum(in) == Plus(Plus(Plus(Plus(Plus(Nothing, in, "coverage"), in, "failingTests"), in, "serviceHealth"),
                     in, "incidents"), in, "schedules")

\* Mutant: missing signals count as zero.
Score_allWeights(in) ==
    LET sum == Sum(in) IN IF sum.weight = 0 THEN None ELSE Percent(sum.num, sum.den * 100)

\* The weights of the signals that are missing are shared out among the others.
Score(in) ==
    LET sum == Sum(in) IN IF sum.weight = 0 THEN None ELSE Percent(sum.num, sum.den * sum.weight)

StatusFromScore(s) ==
    IF s = None THEN "unknown" ELSE IF s >= 85 THEN "ready" ELSE IF s >= 65 THEN "watch"
    ELSE IF s >= 40 THEN "risky" ELSE "blocked"

CoveragePercent(in) == IF Coverage(in) = None THEN None ELSE Percent(Coverage(in)[1], Coverage(in)[2])
Unreachable(in) == IF in.catalog = None THEN 0 ELSE Count(in.catalog, "unreachable")

-----------------------------------------------------------------------------
(* Blockers and checks.                                                      *)

\* Mutant: coverage at the threshold is too low.
Blockers_atThreshold(in) ==
    { b \in {"CRITICAL_INCIDENTS", "FAILING_TESTS", "UNREACHABLE_SERVICES", "LOW_COVERAGE", "NO_SCHEDULE"} :
        \/ b = "CRITICAL_INCIDENTS" /\ in.incidents # None /\ in.incidents > 0
        \/ b = "FAILING_TESTS" /\ in.tests # None /\ Failing(in) > 0
        \/ b = "UNREACHABLE_SERVICES" /\ Unreachable(in) > 0
        \/ b = "LOW_COVERAGE" /\ CoveragePercent(in) # None /\ CoveragePercent(in) <= ConThreshold
        \/ b = "NO_SCHEDULE" /\ in.schedules = FALSE }

\* buildBlockers.
Blockers(in) ==
    { b \in {"CRITICAL_INCIDENTS", "FAILING_TESTS", "UNREACHABLE_SERVICES", "LOW_COVERAGE", "NO_SCHEDULE"} :
        \/ b = "CRITICAL_INCIDENTS" /\ in.incidents # None /\ in.incidents > 0
        \/ b = "FAILING_TESTS" /\ in.tests # None /\ Failing(in) > 0
        \/ b = "UNREACHABLE_SERVICES" /\ Unreachable(in) > 0
        \/ b = "LOW_COVERAGE" /\ CoveragePercent(in) # None /\ CoveragePercent(in) < ConThreshold
        \/ b = "NO_SCHEDULE" /\ in.schedules = FALSE }

Check(known, passes) == IF ~known THEN "unknown" ELSE IF passes THEN "pass" ELSE "fail"

\* computeGateChecks under the default policy, which allows no failing test, no
\* unreachable service and no incident, and requires a schedule.
Checks(in) ==
    LET critical == IF in.tests = None THEN {} ELSE DOMAIN in.tests \cap ConCritical
    IN  [id \in {"critical-tests", "no-failing", "coverage-threshold", "services-reachable",
                 "no-critical-incidents", "smoke-scheduled"} |->
            CASE id = "critical-tests" -> Check(critical # {}, \A t \in critical : in.tests[t] # "failed")
              [] id = "no-failing" -> Check(in.tests # None, Failing(in) = 0)
              [] id = "coverage-threshold" -> Check(CoveragePercent(in) # None, CoveragePercent(in) >= ConThreshold)
              [] id = "services-reachable" -> Check(Health(in) # None, Unreachable(in) = 0)
              [] id = "no-critical-incidents" -> Check(in.incidents # None, in.incidents = 0)
              [] OTHER -> Check(in.schedules # None, in.schedules)]

Severity(id) == CASE id = "coverage-threshold" -> "warning" [] id = "smoke-scheduled" -> "info" [] OTHER -> "critical"

\* gateStatusFromChecks: the worst check that failed.
GateStatus(checks) ==
    LET failed == { Severity(id) : id \in { i \in DOMAIN checks : checks[i] = "fail" } }
    IN  IF \A id \in DOMAIN checks : checks[id] = "unknown" THEN "unknown"
        ELSE IF "critical" \in failed THEN "blocked" ELSE IF "warning" \in failed THEN "risky"
        ELSE IF "info" \in failed THEN "watch" ELSE "ready"

\* What the score's card says below the score.
Card(in) == IF Available(in) = {} THEN "no data" ELSE IF Blockers(in) = {} THEN "clear" ELSE "blockers"

\* What the card of next steps says: it is not told whether there is any data.
NextSteps(in) == IF Blockers(in) = {} THEN "clear" ELSE "steps"

-----------------------------------------------------------------------------
(* How the inputs change.                                                    *)

ConInit == conInput = [tests |-> None, coverage |-> None, catalog |-> None, incidents |-> None, schedules |-> None]

\* An input is fetched, or its fetch fails.
ConFetch(k) == conInput[k] = None /\ \E v \in Values[k] : conInput' = [conInput EXCEPT ![k] = v]
ConMiss(k) == conInput[k] # None /\ conInput' = [conInput EXCEPT ![k] = None]

\* One thing is fixed.
ConFix ==
    \/ /\ conInput.tests # None
       /\ \E t \in DOMAIN conInput.tests : /\ conInput.tests[t] = "failed"
                                           /\ conInput' = [conInput EXCEPT !.tests[t] = "passed"]
    \/ /\ conInput.coverage # None /\ conInput.coverage.covered < conInput.coverage.total
       /\ conInput' = [conInput EXCEPT !.coverage.covered = @ + 1]
    \/ /\ conInput.catalog # None
       /\ \E s \in ConServices : /\ conInput.catalog[s] # "healthy"
                                 /\ conInput' = [conInput EXCEPT !.catalog[s] = "healthy"]
    \/ conInput.incidents \notin {None, 0} /\ conInput' = [conInput EXCEPT !.incidents = @ - 1]
    \/ conInput.schedules = FALSE /\ conInput' = [conInput EXCEPT !.schedules = TRUE]

ConNext == ConFix \/ \E k \in DOMAIN conInput : ConFetch(k) \/ ConMiss(k)

ConSpec == ConInit /\ [][ConNext]_conInput

-----------------------------------------------------------------------------
(* Properties.                                                               *)

\* What is missing is never made up: the score lies between the worst and the
\* best of the signals that are there, whichever ones are missing, and is unknown
\* only where there is none.
ScoreHonest ==
    LET f == Fractions(conInput)
        pct == { Percent(f[k][1], f[k][2]) : k \in Available(conInput) }
    IN  IF Available(conInput) = {} THEN StatusFromScore(Score(conInput)) = "unknown"
        ELSE \E lo, hi \in pct : lo <= Score(conInput) /\ Score(conInput) <= hi

\* Score card and release gate are derived separately and never disagree: each
\* blocker stands for a check that failed, and the card says "clear" only where
\* the gate is ready.
BlockersMatchChecks ==
    LET checks == Checks(conInput)
        failed(id) == checks[id] = "fail"
        blocks(b) == b \in Blockers(conInput)
    IN  /\ blocks("CRITICAL_INCIDENTS") <=> failed("no-critical-incidents")
        /\ blocks("FAILING_TESTS") <=> failed("no-failing")
        /\ blocks("UNREACHABLE_SERVICES") <=> failed("services-reachable")
        /\ blocks("LOW_COVERAGE") <=> failed("coverage-threshold")
        /\ blocks("NO_SCHEDULE") <=> failed("smoke-scheduled")
        /\ Card(conInput) = "clear" => GateStatus(checks) = "ready" /\ NextSteps(conInput) = "clear"
        /\ Card(conInput) = "blockers" <=> GateStatus(checks) \in {"blocked", "risky", "watch"}

\* What the card, the gate and the next steps say follows from the signals that
\* are there.
ConfidenceHonest == ScoreHonest /\ BlockersMatchChecks
=============================================================================
