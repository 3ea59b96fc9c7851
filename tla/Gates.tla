-------------------------------- MODULE Gates --------------------------------
(* Release gates of one service: the two pages and the dialog for a new        *)
(* release (web/src/app/release-gates, web/src/components/new-release-modal.tsx *)
(* and service-gate-board.tsx), and release_gate_service.go, whose evaluation  *)
(* runs inside the request and writes the whole candidate back.                *)
EXTENDS Integers, Sequences, FiniteSets, SequencesExt, Absent

CONSTANTS GatTests,   \* tests that protect the service
          GatAsks,    \* bound: requests of the user
          GatBreaks   \* bound: times the browser leaves or the server restarts

\* Results are functions from tests; a test that failed or ended in an error is
\* "failed".
ResultSets == UNION { [T -> {"passed", "failed"}] : T \in SUBSET GatTests }
Candidates == [status : {"draft", "evaluating", "ready", "blocked"}, results : ResultSets]

ASSUME GatesAssumption == GatAsks \in Nat /\ GatBreaks \in Nat /\ None \notin GatTests \cup Candidates

VARIABLES
    gatCands,    \* candidates, oldest first: [status, results]
    gatBase,     \* results of the latest baseline, or None
    gatPage,     \* the page: [at, gate, loading, busy, modal]
    gatCalls,    \* requests under way
    gatLoads,    \* loads under way, in the order they were sent
    gatAsked,    \* requests of the user so far
    gatLeft,     \* breaks left
    gatLost,     \* history: candidates of which an evaluation was cut off
    gatProduced, \* history: results of the evaluations that ended
    gatSpoilt    \* history: what the page shows was overtaken, or its reload was lost

gatVars == <<gatCands, gatBase, gatPage, gatCalls, gatLoads, gatAsked, gatLeft, gatLost, gatProduced, gatSpoilt>>

-----------------------------------------------------------------------------
(* The service.                                                              *)

NoResults == [t \in {} |-> "passed"]

\* Mutant: a known failure is a regression.
Type_known(base, results, t) ==
    LET failed == results[t] = "failed"
    IN  IF t \notin DOMAIN base THEN IF failed THEN "new_test_failure" ELSE "new_test_passing"
        ELSE IF failed THEN "new_regression"
        ELSE IF base[t] = "failed" THEN "fixed" ELSE "still_passing"

\* diffResults: only tests of the candidate are compared.
Type(base, results, t) ==
    LET failed == results[t] = "failed"
    IN  IF t \notin DOMAIN base THEN IF failed THEN "new_test_failure" ELSE "new_test_passing"
        ELSE IF failed THEN IF base[t] = "failed" THEN "known_failure" ELSE "new_regression"
        ELSE IF base[t] = "failed" THEN "fixed" ELSE "still_passing"

Diffs(base, results) == [t \in DOMAIN results |-> Type(base, results, t)]

Regressions(base, results) ==
    { t \in DOMAIN results : Diffs(IF base = None THEN NoResults ELSE base, results)[t] = "new_regression" }

Evaluated(cand) == cand # None /\ DOMAIN cand.results # {}

Latest(cands) == IF cands = <<>> THEN None ELSE Last(cands)

\* Summary: the first case that applies.
Status(cand, base) ==
    IF GatTests = {} THEN "not_configured"
    ELSE IF cand # None /\ cand.status = "evaluating" THEN "evaluating"
    ELSE IF base = None THEN "no_baseline"
    ELSE IF Evaluated(cand) /\ Regressions(base, cand.results) # {} THEN "blocked"
    ELSE "ready"

Summary(cands, base) ==
    [status |-> Status(Latest(cands), base), cand |-> Len(cands), evaluated |-> Evaluated(Latest(cands))]

GatTo(c, new) == gatCalls' = (gatCalls \ {c}) \cup {new}

GatCreated(c) ==
    /\ c.kind = "create" /\ c.step = "sent"
    /\ gatCands' = Append(gatCands, [status |-> "draft", results |-> NoResults])
    /\ GatTo(c, [c EXCEPT !.step = "done", !.cand = Len(gatCands')])
    /\ UNCHANGED <<gatBase, gatLost, gatProduced>>

\* EvaluateCandidate reads the candidate and writes it back as being evaluated.
GatRead(c) ==
    /\ c.kind = "eval" /\ c.step = "sent"
    /\ GatTo(c, [c EXCEPT !.step = "read", !.old = gatCands[c.cand].results])
    /\ UNCHANGED <<gatCands, gatBase, gatLost, gatProduced>>

GatBegin(c) ==
    /\ c.kind = "eval" /\ c.step = "read"
    /\ gatCands' = [gatCands EXCEPT ![c.cand] = [status |-> "evaluating", results |-> c.old]]
    /\ GatTo(c, [c EXCEPT !.step = "running", !.todo = GatTests])
    /\ UNCHANGED <<gatBase, gatLost, gatProduced>>

\* The next test of the scope is run; one whose manifest is gone is left out.
GatRunTest(c) ==
    /\ c.step = "running" /\ c.todo # {}
    /\ LET t == CHOOSE t \in c.todo : TRUE
           rest == c.todo \ {t}
       IN  \/ GatTo(c, [c EXCEPT !.todo = rest])
           \/ \E o \in {"passed", "failed"} :
                GatTo(c, [c EXCEPT !.todo = rest,
                                !.results = [u \in DOMAIN c.results \cup {t} |-> IF u = t THEN o ELSE c.results[u]]])
    /\ UNCHANGED <<gatCands, gatBase, gatLost, gatProduced>>

\* Mutant: without results the candidate goes on being evaluated.
GatFinish_emptyGoesOn(c) ==
    /\ c.step = "running" /\ c.todo = {} /\ GatTo(c, [c EXCEPT !.step = "done"])
    /\ gatCands' = [gatCands EXCEPT ![c.cand] =
           [status |-> IF c.results = NoResults THEN "evaluating"
                       ELSE IF Regressions(gatBase, c.results) # {} THEN "blocked" ELSE "ready",
            results |-> c.results]]
    /\ gatProduced' = gatProduced \cup {c.results}
    /\ UNCHANGED <<gatBase, gatLost>>

\* Mutant: the results before stay where there are no new ones.
GatFinish_merged(c) ==
    /\ c.step = "running" /\ c.todo = {} /\ GatTo(c, [c EXCEPT !.step = "done"])
    /\ gatCands' = [gatCands EXCEPT ![c.cand] =
           [status |-> IF Regressions(gatBase, c.results) # {} THEN "blocked" ELSE "ready",
            results |-> c.results @@ gatCands[c.cand].results]]
    /\ gatProduced' = gatProduced \cup {c.results}
    /\ UNCHANGED <<gatBase, gatLost>>

GatFinish(c) ==
    /\ c.step = "running" /\ c.todo = {} /\ GatTo(c, [c EXCEPT !.step = "done"])
    /\ gatCands' = [gatCands EXCEPT ![c.cand] =
           [status |-> IF Regressions(gatBase, c.results) # {} THEN "blocked" ELSE "ready", results |-> c.results]]
    /\ gatProduced' = gatProduced \cup {c.results}
    /\ UNCHANGED <<gatBase, gatLost>>

\* MarkBaseline takes what is stored by now, whatever it says.
GatMarked(c) ==
    /\ c.kind = "mark" /\ c.step = "sent"
    /\ IF Evaluated(gatCands[c.cand])
       THEN gatBase' = gatCands[c.cand].results /\ GatTo(c, [c EXCEPT !.step = "done"])
       ELSE UNCHANGED gatBase /\ GatTo(c, [c EXCEPT !.step = "failed"])
    /\ UNCHANGED <<gatCands, gatLost, gatProduced>>

GatRefused(c) ==
    /\ c.step = "sent" /\ GatTo(c, [c EXCEPT !.step = "failed"])
    /\ UNCHANGED <<gatCands, gatBase, gatLost, gatProduced>>

GatServe(c) ==
    /\ \/ GatCreated(c) \/ GatRead(c) \/ GatBegin(c) \/ GatRunTest(c) \/ GatFinish(c) \/ GatMarked(c)
       \/ GatRefused(c)
    /\ UNCHANGED <<gatPage, gatLoads, gatAsked, gatLeft, gatSpoilt>>

GatServeLoad(i) ==
    /\ gatLoads[i].gate = None
    /\ gatLoads' = [gatLoads EXCEPT ![i].gate = Summary(gatCands, gatBase)]
    /\ UNCHANGED <<gatCands, gatBase, gatPage, gatCalls, gatAsked, gatLeft, gatLost, gatProduced, gatSpoilt>>

Handled(c) == c.kind = "eval" /\ c.step = "running"
CutOff == { c.cand : c \in { d \in gatCalls : Handled(d) } }

\* The server restarts: evaluations end where they are.
GatRestart ==
    /\ gatLeft > 0 /\ gatLeft' = gatLeft - 1 /\ gatLost' = gatLost \cup CutOff
    /\ gatCalls' = { IF c.step \in {"read", "running"} THEN [c EXCEPT !.step = "failed"] ELSE c : c \in gatCalls }
    /\ UNCHANGED <<gatCands, gatBase, gatPage, gatLoads, gatAsked, gatProduced, gatSpoilt>>

-----------------------------------------------------------------------------
(* The pages.                                                                *)

GatLoad(releases) == [gate |-> None, late |-> FALSE, releases |-> releases]

\* load(): the skeleton takes the place of the detail page and of the dialog in
\* it, which starts afresh when the answers are there.
GatLoading(page) == [page EXCEPT !.loading = TRUE,
                              !.modal = IF @ # None /\ page.at = "detail" THEN [n |-> None] ELSE @]

\* A page that is opened.
Mount(at) == [at |-> at, gate |-> None, loading |-> TRUE, busy |-> None, modal |-> None]

GatCall(kind, cand, from, after) ==
    [kind |-> kind, cand |-> cand, from |-> from, after |-> after, step |-> "sent", todo |-> {},
     results |-> NoResults, old |-> NoResults, n |-> gatAsked]

GatMayAsk == gatAsked < GatAsks /\ gatAsked' = gatAsked + 1

Ask(c) == GatMayAsk /\ gatCalls' = gatCalls \cup {c} /\ UNCHANGED gatLoads

GatOffered(at) == gatPage.at = at /\ gatPage.modal = None /\ (at = "detail" => ~gatPage.loading)

HasCand == gatPage.gate # None /\ gatPage.gate.cand # 0

\* The button that comes first, from what was loaded.
Primary == IF ~HasCand THEN "new"
           ELSE IF ~gatPage.gate.evaluated \/ gatPage.gate.status = "blocked" THEN "run" ELSE "baseline"

\* Run Gate, which only a run under way disables; without a candidate it opens
\* the dialog.
GatRunGate ==
    /\ GatOffered("detail") /\ Primary = "run" /\ gatPage.busy # "eval"
    /\ gatPage' = [gatPage EXCEPT !.busy = "eval"]
    /\ Ask(GatCall("eval", gatPage.gate.cand, "page", FALSE))

GatMarkBaseline ==
    /\ GatOffered("detail") /\ Primary = "baseline" /\ gatPage.busy # "baseline"
    /\ gatPage' = [gatPage EXCEPT !.busy = "baseline"]
    /\ Ask(GatCall("mark", gatPage.gate.cand, "page", FALSE))

\* New Release, on both pages.  Bound: only while a request is left.
GatNewRelease ==
    /\ gatAsked < GatAsks /\ \E at \in {"landing", "detail"} : GatOffered(at)
    /\ gatPage' = [gatPage EXCEPT !.modal = [n |-> None]]
    /\ UNCHANGED <<gatAsked, gatCalls, gatLoads>>

\* Create, and perhaps evaluate after it.
GatSubmit ==
    /\ gatPage.modal # None /\ gatPage.modal.n = None /\ ~(gatPage.at = "detail" /\ gatPage.loading)
    /\ gatPage' = [gatPage EXCEPT !.modal.n = gatAsked]
    /\ \E after \in BOOLEAN : Ask(GatCall("create", 0, "modal", after))

\* The detail page loads again when its dialog closes.
GatCloseModal ==
    /\ gatPage.modal # None /\ gatPage.modal.n = None /\ ~(gatPage.at = "detail" /\ gatPage.loading)
    /\ IF gatPage.at = "detail"
       THEN gatPage' = GatLoading([gatPage EXCEPT !.modal = None]) /\ gatLoads' = Append(gatLoads, GatLoad(FALSE))
       ELSE gatPage' = [gatPage EXCEPT !.modal = None] /\ UNCHANGED gatLoads
    /\ UNCHANGED <<gatAsked, gatCalls>>

\* Going from one page to the other: what was asked goes on, but only the
\* dialog's last step, which opens the detail page, still has an effect.
GatOpenPage ==
    /\ GatOffered(gatPage.at) /\ GatMayAsk
    /\ gatPage' = Mount(IF gatPage.at = "detail" THEN "landing" ELSE "detail")
    /\ gatLoads' = <<GatLoad(FALSE)>>
    /\ gatCalls' = { [c EXCEPT !.from = IF @ = "page" THEN "gone" ELSE IF @ = "modal" THEN "gone modal" ELSE @]
                     : c \in gatCalls }

GatUser ==
    /\ \/ GatRunGate \/ GatMarkBaseline \/ GatNewRelease \/ GatSubmit \/ GatCloseModal \/ GatOpenPage
    /\ UNCHANGED <<gatCands, gatBase, gatLeft, gatLost, gatProduced, gatSpoilt>>

\* The browser leaves and comes back: its requests are cut off.
GatLeave ==
    /\ gatLeft > 0 /\ gatLeft' = gatLeft - 1 /\ gatLost' = gatLost \cup CutOff
    /\ gatCalls' = {} /\ gatLoads' = <<GatLoad(FALSE)>> /\ gatPage' = Mount("detail")
    /\ UNCHANGED <<gatCands, gatBase, gatAsked, gatProduced, gatSpoilt>>

-----------------------------------------------------------------------------
(* Answers.                                                                  *)

GatLate(upto) == [i \in DOMAIN gatLoads |-> IF i < upto THEN [gatLoads[i] EXCEPT !.late = TRUE] ELSE gatLoads[i]]

\* allSettled: a load that fails shows a gate that is not configured.  The load
\* that ends Run Gate or Mark releases the button.
GatLoadArrives(i) ==
    \E failed \in BOOLEAN :
        /\ failed \/ gatLoads[i].gate # None
        /\ gatPage' = [gatPage EXCEPT !.gate = IF failed THEN None ELSE gatLoads[i].gate, !.loading = FALSE,
                                      !.busy = IF gatLoads[i].releases THEN None ELSE @]
        /\ gatSpoilt' = (failed \/ gatLoads[i].late)
        /\ gatLoads' = RemoveAt(GatLate(i), i)
        /\ UNCHANGED gatCalls

GatAnswered(c) == c.step \in {"done", "failed"}
Lost == gatSpoilt' = TRUE /\ gatLoads' = GatLate(Len(gatLoads) + 1)

\* Run Gate and Mark: the page loads again before the button is released.
GatPageAnswer(c) ==
    /\ c.from = "page" /\ GatAnswered(c) /\ gatCalls' = gatCalls \ {c}
    /\ \/ /\ c.step = "done"
          /\ gatPage' = GatLoading(gatPage) /\ gatLoads' = Append(gatLoads, GatLoad(TRUE))
          /\ UNCHANGED gatSpoilt
       \/ gatPage' = [gatPage EXCEPT !.busy = None] /\ Lost

\* An evaluation whose page is no longer there: nothing is shown of its end.
GatGoneAnswer(c) ==
    /\ c.from = "gone" /\ GatAnswered(c) /\ gatCalls' = gatCalls \ {c} /\ UNCHANGED gatPage /\ Lost

\* The dialog's answers.  A creation may be followed by an evaluation, of which
\* failures are passed over; then the detail page is opened and the dialog
\* closed, whichever dialog is open by then.
GatModalAnswer(c) ==
    /\ c.from \in {"modal", "gone modal"} /\ GatAnswered(c)
    /\ \/ /\ c.kind = "create" /\ gatCalls' = gatCalls \ {c} /\ Lost
          /\ gatPage' = IF c.from = "modal" /\ gatPage.modal # None /\ gatPage.modal.n = c.n
                        THEN [gatPage EXCEPT !.modal.n = None] ELSE gatPage
       \/ /\ c.kind = "create" /\ c.step = "done" /\ c.after
          /\ GatTo(c, [c EXCEPT !.kind = "eval", !.step = "sent"])
          /\ UNCHANGED <<gatPage, gatLoads, gatSpoilt>>
       \/ /\ c.kind = "eval" \/ (c.step = "done" /\ ~c.after)
          /\ gatCalls' = gatCalls \ {c}
          /\ IF gatPage.at = "landing"
             THEN gatPage' = Mount("detail") /\ gatLoads' = <<GatLoad(FALSE)>> /\ UNCHANGED gatSpoilt
             ELSE IF c.from = "modal"
             THEN /\ gatPage' = GatLoading([gatPage EXCEPT !.modal = None]) /\ UNCHANGED gatSpoilt
                  /\ gatLoads' = Append(gatLoads, GatLoad(FALSE))
             ELSE UNCHANGED gatPage /\ Lost

GatAnswer ==
    /\ \E c \in gatCalls : GatPageAnswer(c) \/ GatGoneAnswer(c) \/ GatModalAnswer(c)
    /\ UNCHANGED <<gatCands, gatBase, gatAsked, gatLeft, gatLost, gatProduced>>

GatLoadAnswer(i) ==
    /\ i \in DOMAIN gatLoads /\ GatLoadArrives(i)
    /\ UNCHANGED <<gatCands, gatBase, gatAsked, gatLeft, gatLost, gatProduced>>

-----------------------------------------------------------------------------

GatInit ==
    /\ gatCands = <<>> /\ gatBase = None /\ gatPage = Mount("landing")
    /\ gatCalls = {} /\ gatLoads = <<GatLoad(FALSE)>> /\ gatAsked = 0 /\ gatLeft = GatBreaks
    /\ gatLost = {} /\ gatProduced = {} /\ gatSpoilt = FALSE

GatServer == \E c \in gatCalls : GatServe(c)

GatNext ==
    \/ GatUser \/ GatServer \/ GatAnswer \/ GatLeave \/ GatRestart
    \/ \E i \in DOMAIN gatLoads : GatServeLoad(i) \/ GatLoadAnswer(i)

\* Requests are served and answered; loads too, the oldest one in the end,
\* however often the page loads meanwhile.
GatFairness ==
    /\ WF_gatVars(GatServer) /\ WF_gatVars(GatAnswer)
    /\ WF_gatVars(gatLoads # <<>> /\ GatServeLoad(1)) /\ WF_gatVars(GatLoadAnswer(1))

GatSpec == GatInit /\ [][GatNext]_gatVars /\ GatFairness

-----------------------------------------------------------------------------
(* Properties.                                                               *)

\* Types of the variables of the pages and the service.
GatTypeOK ==
    /\ \A i \in DOMAIN gatCands : gatCands[i] \in Candidates
    /\ gatBase \in ResultSets \cup {None} /\ gatBase # NoResults
    /\ gatPage.at \in {"landing", "detail"} /\ gatPage.busy \in {"eval", "baseline", None}
    /\ gatPage.loading \in BOOLEAN /\ (gatPage.modal # None => gatPage.modal.n \in 0 .. GatAsks \cup {None})
    /\ \A c \in gatCalls : c.cand \in 0 .. Len(gatCands)
    /\ gatLost \subseteq DOMAIN gatCands /\ gatSpoilt \in BOOLEAN

\* A candidate does not stay "evaluating" when nothing evaluates it, whichever
\* evaluations of it overlap.  Exception: the server restarted, or the browser
\* left, while one was running.
EvaluatingIsTrue ==
    \A i \in DOMAIN gatCands \ gatLost :
        gatCands[i].status = "evaluating" => \E c \in gatCalls : Handled(c) /\ c.cand = i

\* Two evaluations of a candidate each write the whole of it: its results, and
\* those of a baseline made of it, are those of one evaluation, never a mixture.
ResultsOfOneEvaluation ==
    /\ \A i \in DOMAIN gatCands : gatCands[i].results \in gatProduced \cup {NoResults}
    /\ gatBase # None => gatBase \in gatProduced

\* When nothing is under way the detail page says "blocked" if and only if a
\* test of the latest candidate failed that passed in the latest baseline, and
\* the candidate was not cut off.  Exceptions: the last load failed or was
\* overtaken, or an evaluation ended whose page was no longer there.
VerdictHonest ==
    gatCalls = {} /\ gatLoads = <<>> /\ ~gatSpoilt /\ gatPage.at = "detail"
    => (gatPage.gate.status = "blocked" <=>
        /\ gatCands # <<>> /\ gatBase # None /\ Last(gatCands).status # "evaluating"
        /\ \E t \in DOMAIN Last(gatCands).results \cap DOMAIN gatBase :
             gatBase[t] = "passed" /\ Last(gatCands).results[t] = "failed")

\* A button that was pressed is disabled, or the page is behind its skeleton.
GatWaiting == gatPage.loading \/ gatPage.busy # None

\* Evaluations of one candidate that overlap leave it neither waiting nor with a
\* mixture of their results.
EvaluationsApart == EvaluatingIsTrue /\ ResultsOfOneEvaluation
=============================================================================
