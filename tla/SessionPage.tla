---------------------------- MODULE SessionPage ----------------------------
(* The page of a session (web/src/app/sessions/[id]/page.tsx): it asks for the *)
(* session again while a run of it is under way, and its panel starts chosen   *)
(* tests with a request each and reloads when all of them were answered.       *)
EXTENDS Integers, Sequences, FiniteSets, FiniteSetsExt, Absent

CONSTANTS SeTests,  \* tests the panel offers
          SeEnds,   \* how the runs of each test end
          SeRuns0,  \* the session's runs when the page is opened
          SeAsks,   \* bound: requests of the user, with opening the panel
          SeFaults, \* bound: requests that fail
          SeLoads   \* bound: the interval is passed over while so many loads of it are under way

SeRun == [test : SeTests, status : {"pending", "running", "passed", "failed"}]

ASSUME SeAssumption ==
    /\ SeEnds \in [SeTests -> {"passed", "failed"}] /\ SeRuns0 \in Seq(SeRun)
    /\ SeAsks \in Nat /\ SeFaults \in Nat /\ SeLoads \in Nat \ {0}

VARIABLES
    seRuns,   \* the session's runs that are stored, in the order they were created
    sePage,   \* [shown, loading, error, panel, mounts]
    seCalls,  \* requests and timers under way
    seAsked,  \* requests of the user so far
    seLeft,   \* faults left
    seMissed  \* history: a run was created that what is shown does not know, and nothing reloads for it

seVars == <<seRuns, sePage, seCalls, seAsked, seLeft, seMissed>>

-----------------------------------------------------------------------------
(* The server.                                                               *)

SeWith(runs, what) == Cardinality({ i \in DOMAIN runs : runs[i].status \in what })

\* ComputeSummary.
SeSummary(runs) ==
    [total |-> Len(runs), passed |-> SeWith(runs, {"passed"}), failed |-> SeWith(runs, {"failed"}),
     going |-> SeWith(runs, {"pending", "running"})]

\* n: of a start, the panel that sent it; of a load, what tells it from others.
SeCall(kind, n, tests) ==
    [kind |-> kind, n |-> n, tests |-> tests, step |-> "sent", runs |-> None, summary |-> None, missed |-> FALSE]

\* Mutant: the summary is computed before the runs are read.
SeServeLoad_swapped(c) ==
    /\ c.kind = "load" /\ UNCHANGED <<seRuns, seMissed>>
    /\ \/ /\ c.step = "sent"
          /\ seCalls' = (seCalls \ {c}) \cup {[c EXCEPT !.step = "read", !.summary = SeSummary(seRuns)]}
       \/ /\ c.step = "read"
          /\ seCalls' = (seCalls \ {c}) \cup {[c EXCEPT !.step = "done", !.runs = seRuns]}

\* Get reads the runs first; the summary is computed from a second query.
SeServeLoad(c) ==
    /\ c.kind = "load" /\ UNCHANGED <<seRuns, seMissed>>
    /\ \/ /\ c.step = "sent"
          /\ seCalls' = (seCalls \ {c}) \cup {[c EXCEPT !.step = "read", !.runs = seRuns]}
       \/ /\ c.step = "read"
          /\ seCalls' = (seCalls \ {c}) \cup {[c EXCEPT !.step = "done", !.summary = SeSummary(seRuns)]}

\* One of the requests of a start is served: a run is created.  A load that has
\* read the runs does not know it.
SeServeStart(c) ==
    /\ c.kind = "start"
    /\ \E t \in c.tests :
         /\ seRuns' = Append(seRuns, [test |-> t, status |-> "pending"])
         /\ seCalls' = { IF d.kind = "load" /\ d.step # "sent" THEN [d EXCEPT !.missed = TRUE] ELSE d :
                       d \in seCalls \ {c} }
                       \cup {[c EXCEPT !.tests = @ \ {t}]}
    /\ seMissed' = (seMissed \/ c.step = "failed")

SeServe(c) == (SeServeLoad(c) \/ SeServeStart(c)) /\ UNCHANGED <<sePage, seAsked, seLeft>>

\* A run is executed.
SeRunGoesOn ==
    /\ \E i \in DOMAIN seRuns :
         \/ /\ seRuns[i].status = "pending"
            /\ seRuns' = [seRuns EXCEPT ![i].status = "running"]
         \/ /\ seRuns[i].status = "running"
            /\ seRuns' = [seRuns EXCEPT ![i].status = SeEnds[seRuns[i].test]]
    /\ UNCHANGED <<sePage, seCalls, seAsked, seLeft, seMissed>>

-----------------------------------------------------------------------------
(* The page.                                                                 *)

\* The table's groups: the counters of a test's runs.
SeGroups(runs) ==
    [ t \in { runs[i].test : i \in DOMAIN runs } |->
        LET of(status) == { i \in DOMAIN runs : runs[i].test = t /\ runs[i].status = status }
        IN  [passed |-> Cardinality(of("passed")), failed |-> Cardinality(of("failed"))] ]

\* hasAnyRunning.
SeGoing ==
    sePage.shown # None /\ \E i \in DOMAIN sePage.shown.runs : sePage.shown.runs[i].status \in {"pending", "running"}

\* Its tests are there at once: until their request is answered nothing can be chosen.
SePanel(n) == [n |-> n, selected |-> {}, running |-> FALSE]

\* load(): no error is shown any more, and a panel that was open before it is
\* there again as a new one.
SeLoad(page, calls, n) ==
    LET again == page.error /\ page.panel # None
    IN  /\ sePage' = [page EXCEPT !.loading = TRUE, !.error = FALSE,
                                  !.panel = IF again THEN SePanel(page.mounts + 1) ELSE @,
                                  !.mounts = IF again THEN @ + 1 ELSE @]
        /\ seCalls' = calls \cup {SeCall("load", n, {})}

\* The interval, three seconds: it does not wait for the load before.
SeTick ==
    /\ SeGoing
    /\ LET free == (SeAsks + 1 .. SeAsks + SeLoads) \ { c.n : c \in seCalls }
       IN  free # {} /\ SeLoad(sePage, seCalls, Min(free))
    /\ UNCHANGED <<seRuns, seAsked, seLeft, seMissed>>

\* An error takes the place of the whole page.
SeOffered == sePage.shown # None /\ ~sePage.error
SePanelOffered == SeOffered /\ sePage.panel # None /\ seAsked < SeAsks

SeAsk == seAsked < SeAsks /\ seAsked' = seAsked + 1

SeRefresh == SeOffered /\ SeAsk /\ SeLoad(sePage, seCalls, seAsked')

\* The button opens and closes the panel.
SeToggle ==
    /\ SeOffered
    /\ IF sePage.panel = None
       THEN SeAsk /\ sePage' = [sePage EXCEPT !.panel = SePanel(sePage.mounts + 1), !.mounts = @ + 1]
       ELSE sePage' = [sePage EXCEPT !.panel = None] /\ UNCHANGED seAsked

\* The panel, which the bound lets be filled in while a request is left.
SeSelect ==
    /\ SePanelOffered
    /\ \E t \in SeTests : sePage' = [sePage EXCEPT !.panel.selected = IF t \in @ THEN @ \ {t} ELSE @ \cup {t}]

\* Select all, for the tests that any text in the search field finds.  It compares
\* how many are selected with how many were found: it drops what is hidden, or
\* everything where the numbers are the same.
SeSelectAll ==
    /\ SePanelOffered
    /\ \E found \in SUBSET SeTests :
         sePage' = [sePage EXCEPT !.panel.selected = IF Cardinality(@) = Cardinality(found) THEN {} ELSE found]

SeStart ==
    /\ SePanelOffered /\ ~sePage.panel.running /\ sePage.panel.selected # {} /\ SeAsk
    /\ sePage' = [sePage EXCEPT !.panel.running = TRUE]
    /\ seCalls' = seCalls \cup {SeCall("start", sePage.panel.n, sePage.panel.selected)}

SeUser ==
    /\ \/ SeRefresh \/ SeStart
       \/ SeToggle /\ UNCHANGED seCalls
       \/ (SeSelect \/ SeSelectAll) /\ UNCHANGED <<seAsked, seCalls>>
    /\ UNCHANGED <<seRuns, seLeft, seMissed>>

-----------------------------------------------------------------------------
(* Answers.                                                                  *)

\* What a panel's requests do to it, if it is still there.
SeIn(c, panel) == IF sePage.panel # None /\ sePage.panel.n = c.n THEN panel ELSE sePage.panel

SeFault == seLeft > 0 /\ seLeft' = seLeft - 1

\* The last answer is shown; an error stays until the next load.
SeLoaded(c) ==
    /\ c.kind = "load" /\ c.step = "done" /\ seCalls' = seCalls \ {c} /\ UNCHANGED seLeft
    /\ sePage' = [sePage EXCEPT !.shown = [runs |-> c.runs, summary |-> c.summary], !.loading = FALSE]
    /\ seMissed' = c.missed

SeLoadFails(c) ==
    /\ c.kind = "load" /\ SeFault /\ seCalls' = seCalls \ {c} /\ seMissed' = TRUE
    /\ sePage' = [sePage EXCEPT !.error = TRUE, !.loading = FALSE, !.panel = IF @ = None THEN None ELSE SePanel(0)]

\* Promise.all: all requests of a start were answered.
SeStarted(c) ==
    /\ c.kind = "start" /\ c.tests = {} /\ UNCHANGED <<seLeft, seMissed>>
    /\ IF c.step = "failed" THEN seCalls' = seCalls \ {c} /\ UNCHANGED sePage
       ELSE /\ seCalls' = (seCalls \ {c}) \cup {SeCall("ran", c.n, {})}
            /\ sePage' = [sePage EXCEPT !.panel = SeIn(c, [@ EXCEPT !.running = FALSE])]

\* One of them fails, or its answer is lost: the others go on, but nothing is
\* done about them.
SeStartFails(c) ==
    /\ c.kind = "start" /\ c.step = "sent" /\ SeFault /\ seMissed' = TRUE
    /\ \E t \in c.tests \cup {None} : seCalls' = (seCalls \ {c}) \cup {[c EXCEPT !.step = "failed", !.tests = @ \ {t}]}
    /\ sePage' = [sePage EXCEPT !.panel = SeIn(c, [@ EXCEPT !.running = FALSE])]

\* Half a second later the panel is closed, whichever is open, and again later
\* the session is loaded.
SeRan(c) ==
    /\ c.kind = "ran" /\ sePage' = [sePage EXCEPT !.panel = None] /\ UNCHANGED <<seLeft, seMissed>>
    /\ seCalls' = (seCalls \ {c}) \cup {[c EXCEPT !.kind = "reload"]}

SeReload(c) ==
    /\ c.kind = "reload" /\ SeLoad(sePage, seCalls \ {c}, 0 - c.n) /\ UNCHANGED <<seLeft, seMissed>>

SeArrive(c) ==
    /\ SeLoaded(c) \/ SeLoadFails(c) \/ SeStarted(c) \/ SeStartFails(c) \/ SeRan(c) \/ SeReload(c)
    /\ UNCHANGED <<seRuns, seAsked>>

-----------------------------------------------------------------------------

SeInit ==
    /\ seRuns = SeRuns0 /\ seAsked = 0 /\ seLeft = SeFaults /\ seMissed = FALSE
    /\ sePage = [shown |-> None, loading |-> TRUE, error |-> FALSE, panel |-> None, mounts |-> 0]
    /\ seCalls = {SeCall("load", 0, {})}

SeCallGoesOn(c) == SeServe(c) \/ SeArrive(c)
SeProgress == \E c \in seCalls : c.kind # "load" /\ SeCallGoesOn(c)
SeLoading == \E c \in seCalls : c.kind = "load" /\ SeCallGoesOn(c)
SePolling == SeTick \/ SeLoading
SeNext == SeUser \/ SeRunGoesOn \/ SeProgress \/ SePolling

\* Requests are served and answered, timers fire, the interval does as long as it
\* is set, and runs end.
SeSpec == SeInit /\ [][SeNext]_seVars /\ WF_seVars(SeProgress) /\ WF_seVars(SePolling) /\ WF_seVars(SeRunGoesOn)

-----------------------------------------------------------------------------
(* Properties.                                                               *)

\* The sum of counters, as a number of pairs.
SeTotal(counters) == Cardinality(UNION { {t} \X (1 .. counters[t]) : t \in DOMAIN counters })

\* When the page has stopped asking, its summary, the counters of its groups and
\* the table agree with each other and with what is stored, although the summary
\* and the runs are read one after the other, loads overlap and each start is a
\* request of its own.  Exceptions: the last load failed or had read the runs
\* before one was created, or a start failed whose other runs go on.
SeAgrees ==
    seCalls = {} /\ sePage.shown # None /\ ~SeGoing /\ ~seMissed =>
        LET groups == SeGroups(sePage.shown.runs)
            sum == sePage.shown.summary
        IN  /\ sePage.shown.runs = seRuns /\ sum = SeSummary(seRuns) /\ sum.going = 0
            /\ SeTotal([t \in DOMAIN groups |-> groups[t].passed]) = sum.passed
            /\ SeTotal([t \in DOMAIN groups |-> groups[t].failed]) = sum.failed

\* To hold in the end: the page has stopped asking and shows no run as under way.
SeSettled == ~SeGoing

\* There is a spinner in place of the page or on the panel's button, or an error
\* in place of a page that goes on asking.
SeWaiting ==
    \/ sePage.loading /\ sePage.shown = None
    \/ sePage.panel # None /\ sePage.panel.running
    \/ sePage.error /\ SeGoing
=============================================================================
