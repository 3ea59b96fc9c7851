------------------------------ MODULE RunPage ------------------------------
(* The page of a run (web/src/app/runs/[id]/page.tsx, run-timeline.tsx and     *)
(* step-card.tsx): it polls a run until it is over, and resumes a failed one   *)
(* from a step, which starts another run seeded with the values extracted by   *)
(* the steps before it.  RunStore has the tables behind it in detail.          *)
EXTENDS Integers, Sequences, SequencesExt, FiniteSets, Absent

CONSTANTS RpPhases, \* number of steps: [setup, main, teardown -> Nat]
          RpRuns,   \* bound: runs, the resumed ones included
          RpAsks,   \* bound: reloads the user asks for
          RpFaults  \* bound: requests that fail

ASSUME RpAssumption ==
    /\ RpPhases \in [{"setup", "main", "teardown"} -> Nat]
    /\ RpRuns \in Nat \ {0} /\ RpAsks \in Nat /\ RpFaults \in Nat

VARIABLES
    rpRuns,  \* the runs: Seq([status, from, todo, rows, given, parent])
    rpPage,  \* [id, run, error, timer, resuming]: the page that is open; run is what it shows
    rpCalls, \* requests of that page under way: [kind, id, from, got, new]
    rpAsked, \* reloads so far
    rpLeft   \* faults left

rpVars == <<rpRuns, rpPage, rpCalls, rpAsked, rpLeft>>

Steps(phase, from) == [i \in 1 .. RpPhases[phase] - from |-> <<phase, from + i - 1>>]

-----------------------------------------------------------------------------
(* Runs.  A resumed one has the main steps from its step on, no setup and no   *)
(* teardown.  Errors are failures here, and a pending run is running.          *)

RpNewRun(from, given, parent) ==
    [status |-> "running", from |-> from, rows |-> <<>>, given |-> given, parent |-> parent,
     todo |-> IF parent = None THEN Steps("setup", 0) \o Steps("main", 0) \o Steps("teardown", 0)
              ELSE Steps("main", from)]

RpPassed(run) == { run.rows[i].step : i \in { j \in DOMAIN run.rows : run.rows[j].ok } }

\* A step ends and its row is written; a failed setup step leads to the teardown.
RpStep(r) ==
    LET run == rpRuns[r]
        step == run.todo[1]
    IN  /\ run.todo # <<>>
        /\ \E ok \in BOOLEAN :
             rpRuns' = [rpRuns EXCEPT ![r].rows = Append(@, [step |-> step, ok |-> ok]),
                                      ![r].todo = IF ~ok /\ step[1] = "setup" THEN Steps("teardown", 0) ELSE Tail(@)]
        /\ UNCHANGED <<rpPage, rpCalls, rpAsked, rpLeft>>

RpEnd(r) ==
    LET bad == \E i \in DOMAIN rpRuns[r].rows : ~rpRuns[r].rows[i].ok /\ rpRuns[r].rows[i].step[1] # "teardown"
    IN  /\ rpRuns[r].todo = <<>> /\ rpRuns[r].status = "running"
        /\ rpRuns' = [rpRuns EXCEPT ![r].status = IF bad THEN "failed" ELSE "passed"]
        /\ UNCHANGED <<rpPage, rpCalls, rpAsked, rpLeft>>

\* GetExtractContext: the values of that run's rows with a smaller step_index,
\* which every phase counts from zero.
RpExtracts(run, from) == { s \in RpPassed(run) : s[2] < from }

\* GetRun, read at once.
RpServeLoad(c) ==
    /\ c.kind = "load" /\ c.got = None /\ UNCHANGED <<rpRuns, rpPage, rpAsked, rpLeft>>
    /\ rpCalls' = (rpCalls \ {c}) \cup {[c EXCEPT !.got = [status |-> rpRuns[c.id].status, rows |-> rpRuns[c.id].rows]]}

RpServeResume(c) ==
    /\ c.kind = "resume" /\ c.new = 0 /\ Len(rpRuns) < RpRuns /\ UNCHANGED <<rpPage, rpAsked, rpLeft>>
    /\ rpRuns' = Append(rpRuns, RpNewRun(c.from, RpExtracts(rpRuns[c.id], c.from), c.id))
    /\ rpCalls' = (rpCalls \ {c}) \cup {[c EXCEPT !.new = Len(rpRuns) + 1]}

-----------------------------------------------------------------------------
(* What the page shows.                                                      *)

RpOpened(id) == [id |-> id, run |-> None, error |-> FALSE, timer |-> FALSE, resuming |-> FALSE]

\* Requests that are alike are one.
RpLoad(id) == [kind |-> "load", id |-> id, from |-> 0, got |-> None, new |-> 0]

\* The page is drawn: neither a skeleton nor an error.
RpShown == rpPage.run # None /\ ~rpPage.error

RpFailedRows == SelectSeq(rpPage.run.rows, LAMBDA row : ~row.ok)

\* The button above resumes a failed run from the first row that failed; the
\* card of a step that failed offers it too, while the run goes on as well.
RpResumable ==
    IF ~RpShown THEN {}
    ELSE { RpFailedRows[i].step[2] : i \in DOMAIN RpFailedRows }

\* The overview: a chip for each main step, found among the rows by its name;
\* those without one are listed as not executed below the timeline.
RpChip(run, i) ==
    LET mine == { j \in DOMAIN run.rows : run.rows[j].step = <<"main", i>> }
    IN  IF mine = {} THEN "not executed"
        ELSE IF run.rows[CHOOSE j \in mine : TRUE].ok THEN "passed" ELSE "failed"

\* The numbers of the summary strip: steps that passed and that failed.
RpStats(run) == [ok \in BOOLEAN |-> Len(SelectSeq(run.rows, LAMBDA row : row.ok = ok))]

-----------------------------------------------------------------------------
(* The page.                                                                 *)

\* Mutant: the interval goes on.
RpEffect_timerKept(page, run, calls) ==
    IF page.run # None /\ page.run.status = run.status
    THEN /\ rpPage' = [page EXCEPT !.run = run] /\ rpCalls' = calls
    ELSE /\ rpPage' = [page EXCEPT !.run = run, !.timer = @ \/ run.status = "running", !.error = FALSE]
         /\ rpCalls' = calls \cup {RpLoad(page.id)}

\* The effect of a status that is not the one before: load, and an interval for
\* a run that goes on, in place of the one before.
RpEffect(page, run, calls) ==
    IF page.run # None /\ page.run.status = run.status
    THEN /\ rpPage' = [page EXCEPT !.run = run] /\ rpCalls' = calls
    ELSE /\ rpPage' = [page EXCEPT !.run = run, !.timer = (run.status = "running"), !.error = FALSE]
         /\ rpCalls' = calls \cup {RpLoad(page.id)}

RpAsksLoad ==
    /\ rpPage' = [rpPage EXCEPT !.error = FALSE]
    /\ rpCalls' = rpCalls \cup {RpLoad(rpPage.id)} /\ UNCHANGED <<rpRuns, rpLeft>>

RpTick == rpPage.timer /\ RpLoad(rpPage.id) \notin rpCalls /\ RpAsksLoad /\ UNCHANGED rpAsked

RpReload == RpShown /\ rpAsked < RpAsks /\ rpAsked' = rpAsked + 1 /\ RpAsksLoad

\* Disabled while a resumption is asked for.
RpResume ==
    /\ ~rpPage.resuming /\ Len(rpRuns) < RpRuns /\ rpPage' = [rpPage EXCEPT !.resuming = TRUE]
    /\ \E from \in RpResumable :
         rpCalls' = rpCalls \cup {[kind |-> "resume", id |-> rpPage.id, from |-> from, got |-> None, new |-> 0]}
    /\ UNCHANGED <<rpRuns, rpAsked, rpLeft>>

RpLoaded(c) ==
    /\ c.kind = "load" /\ c.got # None /\ RpEffect(rpPage, c.got, rpCalls \ {c}) /\ UNCHANGED rpLeft

\* The page of the new run replaces this one, whose requests concern nobody.
RpResumed(c) ==
    /\ c.kind = "resume" /\ c.new # 0 /\ UNCHANGED rpLeft
    /\ rpPage' = RpOpened(c.new) /\ rpCalls' = {RpLoad(c.new)}

\* A request fails, or its answer is lost: an error in place of the page until
\* the next load, or an alert.
RpFails(c) ==
    /\ rpLeft > 0 /\ rpLeft' = rpLeft - 1 /\ rpCalls' = rpCalls \ {c}
    /\ rpPage' = IF c.kind = "load" THEN [rpPage EXCEPT !.error = TRUE] ELSE [rpPage EXCEPT !.resuming = FALSE]

RpAnswer(c) == (RpLoaded(c) \/ RpResumed(c) \/ RpFails(c)) /\ UNCHANGED <<rpRuns, rpAsked>>

-----------------------------------------------------------------------------

RpInit ==
    /\ rpRuns = <<RpNewRun(0, {}, None)>> /\ rpPage = RpOpened(1) /\ rpCalls = {RpLoad(1)}
    /\ rpAsked = 0 /\ rpLeft = RpFaults

\* Runs go on and are resumed, each a limited number of times; loads are asked
\* for by the interval and served in turn; requests are answered.
RpWork ==
    \/ \E r \in DOMAIN rpRuns : RpStep(r) \/ RpEnd(r)
    \/ \E c \in rpCalls : RpServeResume(c)
RpPolling == RpTick \/ \E c \in rpCalls : RpServeLoad(c)
RpAnswered == \E c \in rpCalls : RpAnswer(c)
RpNext == RpWork \/ RpPolling \/ RpAnswered \/ RpReload \/ RpResume

RpSpec == RpInit /\ [][RpNext]_rpVars /\ WF_rpVars(RpWork) /\ WF_rpVars(RpPolling) /\ WF_rpVars(RpAnswered)

-----------------------------------------------------------------------------
(* Properties.                                                               *)

\* To hold in the end: the page has stopped polling, and unless a load has failed it
\* shows the status, the numbers and the steps of the run as they are stored,
\* in whatever order the answers arrive.
RpSettled ==
    LET run == rpRuns[rpPage.id]
    IN  /\ ~rpPage.timer
        /\ RpShown => /\ rpPage.run.status = run.status /\ RpStats(rpPage.run) = RpStats(run)
                      /\ \A i \in 0 .. RpPhases.main - 1 : RpChip(rpPage.run, i) = RpChip(run, i)

\* The button Resume is disabled.
RpWaiting == rpPage.resuming

\* Steps whose values a step of the resumed run could refer to.
RpHad(run) == run.given \cup { s \in RpPassed(run) : s[1] # "teardown" }

\* A resumed run is "seeded with the already-extracted values": each of them
\* that a step before the resumed one had extracted.
ResumeSeeded ==
    \A r \in DOMAIN rpRuns :
        LET run == rpRuns[r]
        IN  run.parent # None =>
              \A s \in RpHad(rpRuns[run.parent]) : (s[1] = "setup" \/ s[2] < run.from) => s \in run.given
=============================================================================
