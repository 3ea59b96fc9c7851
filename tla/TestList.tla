------------------------------ MODULE TestList ------------------------------
(* The list of tests (web/src/components/test-list.tsx, its tests tab, and the *)
(* dialog that runs a test with parameters): it marks the tests it started and *)
(* asks for the list again and again until their last runs are over.           *)
EXTENDS Integers, FiniteSets, Absent

CONSTANTS TlTests,  \* ids of tests
          TlRuns0,  \* the last run of each test when the page is opened: None or "over"
          TlAsks,   \* bound: requests of the user and faults
          TlFaults  \* bound: requests that fail

ASSUME TlAssumption ==
    TlRuns0 \in [TlTests -> {None, "over"}] /\ TlAsks \in Nat /\ TlFaults \in Nat

VARIABLES
    tlRuns,   \* status of the last run of each test that is stored: None, "running", "over"
    tlPage,   \* [tests, loading, running, dialog]: what is shown, and runningTests
    tlCalls,  \* requests and timers under way
    tlAsked,  \* requests of the user, and faults, so far
    tlLeft,   \* faults left
    tlSpoilt, \* history: what is shown was out of date on arrival, or its reload was lost
    tlLoose   \* history: tests with a run that nothing is marked for

tlVars == <<tlRuns, tlPage, tlCalls, tlAsked, tlLeft, tlSpoilt, tlLoose>>

-----------------------------------------------------------------------------
(* The server.                                                               *)

\* Requests for the list that are alike are one; those of the user are numbered.
\* unaware: the tests whose new run the answer of a poll knows nothing of.
TlCall(kind, tests) ==
    [kind |-> kind, tests |-> tests, step |-> "sent", got |-> None, stale |-> FALSE, unaware |-> {},
     dialog |-> FALSE, marks |-> {},
     n |-> IF kind \in {"start", "batch", "delete"} THEN tlAsked + 1 ELSE 0]

\* A list that has been read before a change does not show it; a poll before a
\* start does not know the test's new run.
TlOutdated(kinds, calls) == { IF d.got # None /\ d.kind \in kinds THEN [d EXCEPT !.stale = TRUE] ELSE d : d \in calls }
TlUnaware(t, calls) ==
    { IF d.got # None /\ d.kind = "poll" THEN [d EXCEPT !.unaware = @ \cup {t}] ELSE d : d \in calls }

\* POST /runs and /runs/batch: a batch creates the runs one after the other.  A
\* test deleted meanwhile is not found.
TlServeStart(c) ==
    /\ c.kind \in {"start", "batch"} /\ c.step = "sent"
    /\ \/ \E t \in c.tests \cap DOMAIN tlRuns :
             /\ tlRuns' = [tlRuns EXCEPT ![t] = "running"]
             /\ tlCalls' = TlUnaware(t, TlOutdated({"list"}, tlCalls \ {c}))
                           \cup {[c EXCEPT !.tests = @ \ {t}, !.step = IF c.tests = {t} THEN "done" ELSE @]}
       \/ /\ c.tests \cap DOMAIN tlRuns = {} /\ UNCHANGED tlRuns
          /\ tlCalls' = (tlCalls \ {c}) \cup {[c EXCEPT !.step = IF c.kind = "start" THEN "failed" ELSE "done"]}

TlServeDelete(c) ==
    /\ c.kind = "delete" /\ c.step = "sent"
    /\ tlRuns' = [t \in DOMAIN tlRuns \ c.tests |-> tlRuns[t]]
    /\ tlCalls' = TlOutdated({"list", "poll"}, tlCalls \ {c}) \cup {[c EXCEPT !.step = "done"]}

\* ListTests: every test with the status of its last run.
TlServeList(c) ==
    /\ c.kind \in {"list", "poll"} /\ c.step = "sent" /\ UNCHANGED tlRuns
    /\ tlCalls' = (tlCalls \ {c}) \cup {[c EXCEPT !.step = "done", !.got = tlRuns]}

TlServe(c) ==
    /\ TlServeStart(c) \/ TlServeDelete(c) \/ TlServeList(c)
    /\ UNCHANGED <<tlPage, tlAsked, tlLeft, tlSpoilt, tlLoose>>

\* A run ends.
TlRunEnds(t) ==
    /\ t \in DOMAIN tlRuns /\ tlRuns[t] = "running"
    /\ tlRuns' = [tlRuns EXCEPT ![t] = "over"] /\ tlCalls' = TlOutdated({"list"}, tlCalls)
    /\ UNCHANGED <<tlPage, tlAsked, tlLeft, tlSpoilt, tlLoose>>

-----------------------------------------------------------------------------
(* The page.                                                                 *)

TlMayAsk == tlAsked < TlAsks /\ tlAsked' = tlAsked + 1

\* Polls under way do not know the tests marked after they were asked.
TlMark(tests) == { IF d.kind = "poll" THEN [d EXCEPT !.unaware = @ \cup tests] ELSE d : d \in tlCalls }

\* The rows of the table, with their buttons; the dialog covers them.
TlOffered(t) == ~tlPage.loading /\ t \in DOMAIN tlPage.tests /\ tlPage.dialog = None

\* handleRun: the test is marked before its run is asked for.
TlRun(t) ==
    /\ TlOffered(t) /\ TlMayAsk /\ tlPage' = [tlPage EXCEPT !.running = @ \cup {t}]
    /\ tlCalls' = TlMark({t}) \cup {TlCall("start", {t})} /\ UNCHANGED tlLoose

TlOpenDialog(t) ==
    /\ TlOffered(t) /\ tlAsked < TlAsks
    /\ tlPage' = [tlPage EXCEPT !.dialog = [of |-> t, n |-> None]] /\ UNCHANGED <<tlAsked, tlCalls, tlLoose>>

\* The dialog's Run, disabled while it waits for the answer.
TlRunDialog ==
    /\ tlPage.dialog # None /\ tlPage.dialog.n = None /\ TlMayAsk /\ UNCHANGED tlLoose
    /\ LET t == tlPage.dialog.of
       IN  /\ tlPage' = [tlPage EXCEPT !.running = @ \cup {t}, !.dialog.n = tlAsked + 1]
           /\ tlCalls' = TlMark({t}) \cup {[TlCall("start", {t}) EXCEPT !.dialog = TRUE]}

\* Closing it does not wait for the answer.
TlCloseDialog ==
    /\ tlPage.dialog # None /\ tlPage' = [tlPage EXCEPT !.dialog = None]
    /\ UNCHANGED <<tlAsked, tlCalls, tlLoose>>

\* Run all: the tests shown now are marked, when the answer is there.
TlRunAll ==
    /\ tlPage.dialog = None /\ DOMAIN tlRuns # {} /\ TlMayAsk /\ UNCHANGED tlPage
    /\ tlCalls' = tlCalls \cup {[TlCall("batch", DOMAIN tlRuns) EXCEPT !.marks = DOMAIN tlPage.tests]}
    /\ tlLoose' = tlLoose \cup (DOMAIN tlRuns \ DOMAIN tlPage.tests)

TlDelete(t) ==
    /\ TlOffered(t) /\ TlMayAsk /\ tlCalls' = tlCalls \cup {TlCall("delete", {t})}
    /\ UNCHANGED <<tlPage, tlLoose>>

\* Reload: the manifests are loaded again, which changes nothing here, and the
\* list after them.
TlReload ==
    /\ tlPage.dialog = None /\ TlMayAsk /\ tlPage' = [tlPage EXCEPT !.loading = TRUE]
    /\ tlCalls' = tlCalls \cup {TlCall("list", {})} /\ UNCHANGED tlLoose

TlUser ==
    /\ \/ TlRunAll \/ TlRunDialog \/ TlCloseDialog \/ TlReload
       \/ \E t \in TlTests : TlRun(t) \/ TlOpenDialog(t) \/ TlDelete(t)
    /\ UNCHANGED <<tlRuns, tlLeft, tlSpoilt>>

\* The interval, as long as a test is marked; it takes along which ones are.
\* Bound: one unanswered poll at a time.
TlPoll ==
    /\ tlPage.running # {} /\ \A c \in tlCalls : c.kind # "poll"
    /\ tlCalls' = tlCalls \cup {TlCall("poll", tlPage.running)}
    /\ UNCHANGED <<tlRuns, tlPage, tlAsked, tlLeft, tlSpoilt, tlLoose>>

-----------------------------------------------------------------------------
(* Answers.                                                                  *)

\* The tests that are still running, as far as the answer of a poll says: one
\* that has no run yet is, one that is no longer there is not.
TlStill(c) == { t \in c.tests \cap DOMAIN c.got : c.got[t] \in {None, "running"} }

\* Mutant: only the marks are updated.
TlPollArrives_marksOnly(c) ==
    /\ c.kind = "poll" /\ c.step = "done" /\ tlCalls' = tlCalls \ {c} /\ tlSpoilt' = c.stale /\ UNCHANGED tlLeft
    /\ tlPage' = [tlPage EXCEPT !.running = TlStill(c)]
    /\ LET coming == UNION { d.tests : d \in { e \in tlCalls : e.kind = "start" /\ e.step = "sent" } }
       IN  tlLoose' = tlLoose \cup ((tlPage.running \ TlStill(c)) \cap (c.unaware \cup coming))

\* The poll's own set of marked tests is what the new one is made of.
TlPollArrives(c) ==
    /\ c.kind = "poll" /\ c.step = "done" /\ tlCalls' = tlCalls \ {c} /\ tlSpoilt' = c.stale /\ UNCHANGED tlLeft
    /\ tlPage' = [tlPage EXCEPT !.tests = c.got, !.running = TlStill(c)]
    /\ LET coming == UNION { d.tests : d \in { e \in tlCalls : e.kind = "start" /\ e.step = "sent" } }
       IN  tlLoose' = tlLoose \cup ((tlPage.running \ TlStill(c)) \cap (c.unaware \cup coming))

TlListArrives(c) ==
    /\ c.kind = "list" /\ c.step = "done" /\ tlCalls' = tlCalls \ {c} /\ tlSpoilt' = c.stale
    /\ tlPage' = [tlPage EXCEPT !.tests = c.got, !.loading = FALSE]
    /\ UNCHANGED <<tlLeft, tlLoose>>

\* After a start a timer loads the list; the dialog closes, whichever is open.
TlStarted(c) ==
    /\ c.kind \in {"start", "batch"} /\ c.step = "done" /\ UNCHANGED <<tlLeft, tlSpoilt>>
    /\ tlCalls' = (TlMark(c.marks) \ {c}) \cup {TlCall("timer", {})}
    /\ tlPage' = IF c.kind = "batch" THEN [tlPage EXCEPT !.running = c.marks]
                 ELSE IF c.dialog THEN [tlPage EXCEPT !.dialog = None] ELSE tlPage
    /\ tlLoose' = IF c.kind = "batch" THEN tlLoose \cup (tlPage.running \ c.marks) ELSE tlLoose

TlReloads(c) ==
    /\ c.kind = "timer" \/ (c.kind = "delete" /\ c.step = "done")
    /\ tlCalls' = (tlCalls \ {c}) \cup {TlCall("list", {})} /\ tlPage' = [tlPage EXCEPT !.loading = TRUE]
    /\ UNCHANGED <<tlLeft, tlSpoilt, tlLoose>>

\* Mutant: a failed load leaves the spinner.
TlFails_spins(c) ==
    /\ c.kind # "timer"
    /\ \/ c.step = "failed" /\ UNCHANGED <<tlAsked, tlLeft>>
       \/ c.step # "failed" /\ tlLeft > 0 /\ tlLeft' = tlLeft - 1 /\ TlMayAsk
    /\ tlCalls' = tlCalls \ {c} /\ tlSpoilt' = (tlSpoilt \/ c.kind \in {"list", "delete"})
    /\ tlPage' = IF c.kind = "list" THEN tlPage
                 ELSE IF c.kind = "start" /\ tlPage.dialog # None /\ tlPage.dialog.n = c.n
                 THEN [tlPage EXCEPT !.dialog.n = None] ELSE tlPage
    /\ tlLoose' = IF c.kind = "batch" THEN TlTests ELSE tlLoose

\* A request fails, or its answer is lost.  A test whose start fails stays
\* marked; one whose batch answer is lost is not.
TlFails(c) ==
    /\ c.kind # "timer"
    /\ \/ c.step = "failed" /\ UNCHANGED <<tlAsked, tlLeft>>
       \/ c.step # "failed" /\ tlLeft > 0 /\ tlLeft' = tlLeft - 1 /\ TlMayAsk
    /\ tlCalls' = tlCalls \ {c} /\ tlSpoilt' = (tlSpoilt \/ c.kind \in {"list", "delete"})
    /\ tlPage' = IF c.kind = "list" THEN [tlPage EXCEPT !.loading = FALSE]
                 ELSE IF c.kind = "start" /\ tlPage.dialog # None /\ tlPage.dialog.n = c.n
                 THEN [tlPage EXCEPT !.dialog.n = None] ELSE tlPage
    /\ tlLoose' = IF c.kind = "batch" THEN TlTests ELSE tlLoose

TlArrive(c) ==
    /\ \/ TlFails(c)
       \/ (TlPollArrives(c) \/ TlListArrives(c) \/ TlStarted(c) \/ TlReloads(c)) /\ UNCHANGED tlAsked
    /\ UNCHANGED tlRuns

-----------------------------------------------------------------------------

TlInit ==
    /\ tlRuns = TlRuns0 /\ tlLeft = TlFaults /\ tlAsked = 0 /\ tlSpoilt = FALSE /\ tlLoose = {}
    /\ tlPage = [tests |-> [t \in {} |-> None], loading |-> TRUE, running |-> {}, dialog |-> None]
    /\ tlCalls = {TlCall("list", {})}

TlRunsEnd == \E t \in TlTests : TlRunEnds(t)
TlProgress == \E c \in tlCalls : c.kind # "poll" /\ (TlServe(c) \/ TlArrive(c))
TlPolling == TlPoll \/ \E c \in tlCalls : c.kind = "poll" /\ (TlServe(c) \/ TlArrive(c))

TlNext == TlUser \/ TlProgress \/ TlPolling \/ TlRunsEnd

\* Requests are served and answered, those of the user whatever is polled
\* meanwhile; the interval fires, its polls are served and answered one after
\* the other, and runs end.
TlSpec ==
    /\ TlInit /\ [][TlNext]_tlVars
    /\ WF_tlVars(TlProgress) /\ WF_tlVars(TlPolling) /\ WF_tlVars(TlRunsEnd)

-----------------------------------------------------------------------------
(* Properties.                                                               *)

\* To hold in the end: the list shows how the last run of each test stands, although it
\* is only asked for while a test is marked.  Exceptions: a test unmarked by a
\* poll that knew nothing of its new run or not marked by a Run all that was
\* clicked before it was listed, and a list that was lost or out of date.
TlShowsOutcome ==
    ~tlSpoilt => \A t \in TlTests \ tlLoose :
                     IF t \in DOMAIN tlRuns
                     THEN t \in DOMAIN tlPage.tests /\ tlPage.tests[t] = tlRuns[t]
                     ELSE t \notin DOMAIN tlPage.tests

\* The table is hidden behind the spinner.
TlWaiting == tlPage.loading
=============================================================================
