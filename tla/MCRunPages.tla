----------------------------- MODULE MCRunPages -----------------------------
(* The pages about runs, one of them open at a time: the list of tests, the    *)
(* list of runs, a run, its notes, and a session.                               *)
EXTENDS TestList, RunList, RunPage, RunNotes, SessionPage

VARIABLE opened  \* the page that is open

allPages == <<opened, tlVars, rlVars, rpVars, rnVars, seVars>>

MCTlRuns == [t \in TlTests |-> IF t = "t1" THEN "over" ELSE None]
MCRlRuns == [i \in 1 .. 2 |-> [id |-> i, class |-> IF i = 2 THEN "failed" ELSE "passed"]]
MCSeEnds == [t \in SeTests |-> IF t = "t1" THEN "passed" ELSE "failed"]
MCSeRuns == << >>
MCRpPhases == [p \in {"setup", "main", "teardown"} |-> IF p = "teardown" THEN 0 ELSE 1]

InTests(A) == opened = "tests" /\ A /\ UNCHANGED <<opened, rlVars, rpVars, rnVars, seVars>>
InRuns(A) == opened = "runs" /\ A /\ UNCHANGED <<opened, tlVars, rpVars, rnVars, seVars>>
InRun(A) == opened = "run" /\ A /\ UNCHANGED <<opened, tlVars, rlVars, rnVars, seVars>>
InNotes(A) == opened = "notes" /\ A /\ UNCHANGED <<opened, tlVars, rlVars, rpVars, seVars>>
InSession(A) == opened = "session" /\ A /\ UNCHANGED <<opened, tlVars, rlVars, rpVars, rnVars>>

PagesInit ==
    /\ opened \in {"tests", "runs", "run", "notes", "session"}
    /\ TlInit /\ RlInit /\ RpInit /\ RnInit /\ SeInit

PagesNext == InTests(TlNext) \/ InRuns(RlNext) \/ InRun(RpNext) \/ InNotes(RnNext) \/ InSession(SeNext)

\* The fairness of each page.  As the page stays the same, actions of different
\* pages can share a condition.
PagesFairness ==
    /\ WF_allPages(InTests(TlProgress) \/ InRuns(RlProgress) \/ InRun(RpAnswered) \/ InNotes(RnProgress)
                   \/ InSession(SeProgress))
    /\ WF_allPages(InTests(TlPolling) \/ InRun(RpPolling) \/ InSession(SePolling))
    /\ WF_allPages(InTests(TlRunsEnd) \/ InRun(RpWork) \/ InSession(SeRunGoesOn))

PagesSpec == PagesInit /\ [][PagesNext]_allPages /\ PagesFairness

\* When nothing is under way each page shows what is stored: the runs its filters
\* ask for, and none only when there are none; the notes; and a session whose
\* summary, groups and table agree.
PagesShowStored == RlShowsFilter /\ RlEmptyIsTrue /\ RnShowsStored /\ SeAgrees

\* Pages settle, each in its way: the list of tests shows the outcome of the runs
\* it follows (TestList), the page of a run how it ended (RunPage), and the page
\* of a session stops asking (SessionPage).
PagesSettle ==
    <>[](/\ opened = "tests" => TlShowsOutcome
         /\ opened = "run" => RpSettled
         /\ opened = "session" => SeSettled)

PagesWait ==
    \/ opened = "tests" /\ TlWaiting
    \/ opened = "runs" /\ RlWaiting
    \/ opened = "run" /\ RpWaiting
    \/ opened = "notes" /\ RnWaiting
    \/ opened = "session" /\ SeWaiting

\* No page stays behind its spinner, and no button that was pressed stays
\* disabled, whichever request fails or overlaps.
RunPagesRespond == PagesWait ~> ~PagesWait
=============================================================================
