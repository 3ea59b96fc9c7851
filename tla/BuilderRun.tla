----------------------------- MODULE BuilderRun -----------------------------
(* Running a test from the builder (web/src/app/builder/page.tsx): the test is *)
(* saved, the run started, and its outcome followed by polling or, with Live   *)
(* on, by the run's events (web/src/hooks/use-run-events.ts), which the cinema *)
(* hook folds into the diagram.  Requests are served and answered at any later *)
(* time and in any order.                                                      *)
EXTENDS Cinema, Functions, SeqFilter

CONSTANTS Scripts,     \* by verdict, the events the engine emits for such a run
          Debugged,    \* requests the page's address may start with
          Bounds       \* what a behaviour may do: [runs, polls, drops, toggles, scrubs]

Verdicts == {"passed", "failed", "error"}

ASSUME BuilderRunAssumption ==
    /\ DOMAIN Scripts = Statuses
    /\ \A v \in Statuses : Scripts[v] \in Seq([kind : {"started", "asserted", "extracted"}, step : Steps]
            \cup [kind : {"completed"}, step : Steps, status : Statuses] \cup [kind : {"ended"}])
    \* A run ends, and has each step once (a run of the builder has main steps only).
    /\ \A v \in Statuses : /\ \E i \in DOMAIN Scripts[v] : Scripts[v][i].kind = "ended"
                           /\ \A i, j \in DOMAIN Scripts[v] :
                                 /\ i < j /\ Scripts[v][i].kind = "completed"
                                 /\ Scripts[v][j].kind \in {"started", "completed"}
                                 => Scripts[v][i].step # Scripts[v][j].step
    /\ None \notin [run : Nat, state : {"closed", "connecting", "open"}, buffered : Nat, upto : Nat]
    /\ Debugged \subseteq SUBSET {[kind |-> "debug"]}
    /\ Bounds \subseteq [runs : Nat, polls : Nat, drops : Nat, toggles : Nat, scrubs : BOOLEAN]

VARIABLES
    host,       \* who uses the hook: the builder, or a page that plays recordings
    runStatus, detail,
    badges,     \* what the nodes show of a run
    poll,       \* runPollingRef: the run whose result the interval asks for
    live,       \* cinemaEnabled
    cinemaRun,  \* cinemaRunId
    sub,        \* the subscription: the run, and the events buffered and delivered so far
    seen,       \* sequence numbers in the `events' of useRunEvents
    spoiled,    \* history: `events' made the hook drop events the view had to have
    calls,      \* requests in flight
    runs,       \* the server's runs: [verdict, log, row]
    left        \* the bounds less what was done so far

pageVars == <<runStatus, detail, badges, poll>>
liveVars == <<live, cinemaRun, sub, seen, spoiled>>
worldVars == <<host, left>>
brVars == <<pageVars, liveVars, worldVars, calls, runs, cinemaVars>>

-----------------------------------------------------------------------------
(* The server.                                                               *)

Event(r, i) == LET e == Scripts[runs[r].verdict][i]
               IN  [k \in DOMAIN e \cup {"seq"} |-> IF k = "seq" THEN i ELSE e[k]]
Length(r) == Len(Scripts[runs[r].verdict])

\* What the steps of run r have come to after n events.
Results(r, n) == { <<Event(r, i).step, Event(r, i).status>> : i \in { j \in 1 .. n : Event(r, j).kind = "completed" } }

NewRun == \E v \in Statuses : runs' = Append(runs, [verdict |-> v, log |-> 0, row |-> "running"])

\* The engine emits the next event; the final row is written after the last.
Progress(r) ==
    /\ runs[r].row = "running"
    /\ runs' = IF runs[r].log < Length(r) THEN [runs EXCEPT ![r].log = @ + 1]
               ELSE [runs EXCEPT ![r].row = runs[r].verdict]
    /\ UNCHANGED <<pageVars, liveVars, worldVars, calls, cinemaVars>>

\* Mutant: the verdict is told before the run has ended.
Answer_early(r) == [run |-> r, status |-> runs[r].verdict, results |-> Results(r, runs[r].log)]

\* GET /api/runs/{id}: the row, and the steps that are complete.
Answer(r) == [run |-> r, status |-> runs[r].row, results |-> Results(r, runs[r].log)]

Serve(c) ==
    /\ c.kind = "get"
    /\ calls' = (calls \ {c}) \cup {[kind |-> "got", by |-> c.by, answer |-> Answer(c.run)]}
    /\ UNCHANGED <<pageVars, liveVars, worldVars, runs, cinemaVars>>

-----------------------------------------------------------------------------
(* Running and polling.                                                      *)

NoBadges == [i \in Steps |-> None]

\* Mutant: a badge once set is kept.
WithResults_kept(b, results) ==
    [i \in Steps |-> IF \E s \in Statuses : <<i, s>> \in results
                     THEN b[i] ELSE b[i]]

\* Step results replace the badges of the nodes of these names, and no other.
WithResults(b, results) ==
    [i \in Steps |-> IF \E s \in Statuses : <<i, s>> \in results
                     THEN CHOOSE s \in Statuses : <<i, s>> \in results ELSE b[i]]

\* While cinema mode is on, nodes show the state of their step whenever that is set.
ViewBadges == badges' = IF cinema'.active
                        THEN [i \in Steps |-> IF cinema'.view[i].status = "waiting" THEN None
                                             ELSE cinema'.view[i].status]
                        ELSE badges

ClearRunResults ==
    /\ detail # None /\ detail.status \in Verdicts
    /\ runStatus' = "idle" /\ detail' = None /\ badges' = NoBadges
    /\ UNCHANGED <<poll, liveVars, worldVars, calls, runs, cinemaVars>>

\* The handler remembers whether Live was on when Run was clicked.
ClickRun ==
    /\ runStatus \notin {"running", "saving"}
    /\ left.runs > 0 /\ left' = [left EXCEPT !.runs = @ - 1]
    /\ runStatus' = "saving" /\ detail' = None /\ badges' = NoBadges
    /\ calls' = calls \cup {[kind |-> "save", click |-> left.runs, live |-> live]}
    /\ UNCHANGED <<poll, liveVars, host, runs, cinemaVars>>

\* Mutant: a failed save is not shown.
SaveArrives_silent(c) ==
    /\ c.kind = "save"
    /\ \/ /\ runStatus' = "running" /\ badges' = [i \in Steps |-> "running"]
          /\ calls' = (calls \ {c}) \cup {[c EXCEPT !.kind = "start"]}
       \/ /\ runStatus' = runStatus /\ badges' = badges
          /\ calls' = calls \ {c}
    /\ UNCHANGED <<detail, poll, liveVars, worldVars, runs, cinemaVars>>

SaveArrives(c) ==
    /\ c.kind = "save"
    /\ \/ /\ runStatus' = "running" /\ badges' = [i \in Steps |-> "running"]
          /\ calls' = (calls \ {c}) \cup {[c EXCEPT !.kind = "start"]}
       \/ /\ runStatus' = "error" /\ badges' = badges
          /\ calls' = calls \ {c}
    /\ UNCHANGED <<detail, poll, liveVars, worldVars, runs, cinemaVars>>

\* POST /api/runs/test creates a run of a fresh id, whatever id it is sent.
StartServed(c) ==
    /\ c.kind = "start"
    /\ NewRun
    /\ calls' = (calls \ {c}) \cup {[kind |-> "begun", run |-> Len(runs'), live |-> c.live]}
    /\ UNCHANGED <<pageVars, liveVars, worldVars, cinemaVars>>

\* The effect of useRunEvents: leaves the old subscription and connects to the
\* run; the events seen so far are dropped only when there is none.
Subscribe(run, on) ==
    IF run = None \/ ~on
    THEN sub' = None /\ seen' = {} /\ spoiled' = FALSE
    ELSE IF sub # None /\ sub.run = run THEN UNCHANGED <<sub, seen, spoiled>>
    ELSE /\ sub' = [run |-> run, state |-> "closed", buffered |-> 0, upto |-> 0]
         /\ seen' = seen /\ spoiled' = (seen # {})

StartArrives(c) ==
    /\ c.kind = "begun" /\ calls' = calls \ {c}
    /\ IF c.live
       THEN /\ cinemaRun' = c.run /\ cinema' = Active("live") /\ astray' = FALSE
            /\ Subscribe(c.run, live) /\ ViewBadges
            /\ UNCHANGED <<live, runStatus, detail, poll, film, timers, last>>
       ELSE /\ poll' = c.run
            /\ UNCHANGED <<runStatus, detail, badges, liveVars, cinemaVars>>
    /\ UNCHANGED <<worldVars, runs>>

\* The request or its answer was lost: the run may exist all the same.
StartFails(c) ==
    /\ c.kind \in {"start", "begun"} /\ calls' = calls \ {c}
    /\ runStatus' = "error"
    /\ UNCHANGED <<detail, badges, poll, liveVars, worldVars, runs, cinemaVars>>

\* The interval does not wait for the answer of its previous request.
Tick ==
    /\ poll # None
    /\ Cardinality({ c \in calls : c.kind \in {"get", "got"} /\ c.by = "poll" }) < left.polls
    /\ calls' = calls \cup {[kind |-> "get", by |-> "poll", run |-> poll]}
    /\ UNCHANGED <<pageVars, liveVars, worldVars, runs, cinemaVars>>

\* An answer is taken for the current run's; one with a verdict, or a failure,
\* stops whichever interval there is.
PollArrives(c) ==
    /\ c.kind = "got" /\ c.by = "poll" /\ calls' = calls \ {c}
    /\ detail' = c.answer
    /\ badges' = WithResults(badges, c.answer.results)
    /\ IF c.answer.status \in Verdicts
       THEN poll' = None /\ runStatus' = c.answer.status
       ELSE UNCHANGED <<poll, runStatus>>
    /\ UNCHANGED <<liveVars, worldVars, runs, cinemaVars>>

PollFails(c) ==
    /\ c.kind \in {"get", "got"} /\ c.by = "poll" /\ calls' = calls \ {c}
    /\ poll' = None /\ runStatus' = "error"
    /\ UNCHANGED <<detail, badges, liveVars, worldVars, runs, cinemaVars>>

\* Opened to debug a failed run, which is run 0 here.
DebugArrives(c) ==
    /\ c.kind = "debug" /\ calls' = calls \ {c}
    /\ runStatus' = "failed" /\ detail' = [run |-> 0, status |-> "failed", results |-> {}]
    /\ UNCHANGED <<badges, poll, liveVars, worldVars, runs, cinemaVars>>

-----------------------------------------------------------------------------
(* Live.                                                                     *)

ToggleLive ==
    /\ left.toggles > 0 /\ left' = [left EXCEPT !.toggles = @ - 1]
    /\ live' = ~live
    /\ IF live THEN cinema' = Off /\ film' = <<>> /\ Cancel ELSE UNCHANGED <<cinema, film, timers, last>>
    /\ Subscribe(cinemaRun, ~live)
    /\ UNCHANGED <<cinemaRun, astray, pageVars, host, calls, runs>>

\* The hub registers the viewer: from here on events are queued for it.
Connect ==
    /\ sub # None /\ sub.state = "closed"
    /\ sub' = [sub EXCEPT !.state = "connecting", !.buffered = 0, !.upto = runs[sub.run].log]
    /\ UNCHANGED <<live, cinemaRun, seen, spoiled, pageVars, worldVars, calls, runs, cinemaVars>>

\* onEvent for a sequence of events; run_completed asks for the run's detail.
Handle(events) ==
    /\ cinema' = AllProcessed(cinema, events)
    /\ calls' = IF \E i \in DOMAIN events : events[i].kind = "ended"
                THEN calls \cup {[kind |-> "get", by |-> "live", run |-> cinemaRun]} ELSE calls
    /\ ViewBadges
    /\ UNCHANGED <<runStatus, detail, poll, film, timers, last, astray>>

Log(r) == [i \in 1 .. runs[r].log |-> Event(r, i)]

\* Mutant: the buffered events are not shown.
Open_dropped ==
    /\ sub # None /\ sub.state = "connecting"
    /\ sub' = [sub EXCEPT !.state = "open", !.buffered = runs[sub.run].log]
    /\ seen' = seen \cup 1 .. runs[sub.run].log
    /\ Handle(<<>>)
    /\ UNCHANGED <<live, cinemaRun, spoiled, worldVars, runs>>

\* The first message holds the events so far; those whose number was seen are dropped.
Open ==
    /\ sub # None /\ sub.state = "connecting"
    /\ sub' = [sub EXCEPT !.state = "open", !.buffered = runs[sub.run].log]
    /\ seen' = seen \cup 1 .. runs[sub.run].log
    /\ Handle(Filter(Log(sub.run), { e \in Range(Log(sub.run)) : e.seq \notin seen }))
    /\ UNCHANGED <<live, cinemaRun, spoiled, worldVars, runs>>

\* A live event is taken without looking at its number.
Deliver ==
    /\ sub # None /\ sub.state = "open" /\ sub.upto < runs[sub.run].log
    /\ sub' = [sub EXCEPT !.upto = @ + 1]
    /\ seen' = seen \cup {sub.upto + 1}
    /\ Handle(<<Event(sub.run, sub.upto + 1)>>)
    /\ UNCHANGED <<live, cinemaRun, spoiled, worldVars, runs>>

\* Bound: fewer drops than the retries after which the hook gives up.
Drop ==
    /\ sub # None /\ sub.state # "closed" /\ left.drops > 0
    /\ left' = [left EXCEPT !.drops = @ - 1]
    /\ sub' = [sub EXCEPT !.state = "closed"]
    /\ spoiled' = (spoiled \/ sub.upto < sub.buffered)
    /\ UNCHANGED <<live, cinemaRun, seen, pageVars, host, calls, runs, cinemaVars>>

DetailArrives(c) ==
    /\ c.kind = "got" /\ c.by = "live" /\ calls' = calls \ {c}
    /\ \/ detail' = c.answer /\ runStatus' = c.answer.status
       \/ UNCHANGED <<detail, runStatus>>       \* the failure is ignored
    /\ UNCHANGED <<badges, poll, liveVars, worldVars, runs, cinemaVars>>

\* Re-run from a step: a new run, which nobody subscribes to.
ClickRerun ==
    /\ live /\ detail # None /\ left.runs > 0 /\ left' = [left EXCEPT !.runs = @ - 1]
    /\ calls' = calls \cup {[kind |-> "resume"]}
    /\ UNCHANGED <<pageVars, liveVars, host, runs, cinemaVars>>

RerunArrives(c) ==
    /\ c.kind = "resume" /\ calls' = calls \ {c}
    /\ NewRun
    /\ \/ cinema' = Active("live") /\ astray' = TRUE /\ Cancel /\ ViewBadges /\ UNCHANGED film
       \/ UNCHANGED <<badges, cinemaVars>>
    /\ UNCHANGED <<runStatus, detail, poll, liveVars, worldVars>>

\* The overlay's scrubber, which is shown in live mode too.
Scrub ==
    /\ live /\ left.scrubs
    /\ \/ (Pause \/ Play) /\ UNCHANGED badges
       \/ (Reset \/ Seek(cinema.total)) /\ ViewBadges
    /\ UNCHANGED <<runStatus, detail, poll, liveVars, worldVars, calls, runs>>

-----------------------------------------------------------------------------

BRInit ==
    /\ CinemaInit
    /\ host \in {"builder", "player"}
    /\ runStatus = "idle" /\ detail = None /\ badges = NoBadges /\ poll = None
    /\ live = FALSE /\ cinemaRun = None /\ sub = None /\ seen = {} /\ spoiled = FALSE
    /\ calls \in (IF host = "builder" THEN Debugged ELSE {{}})
    /\ runs = <<>> /\ left \in Bounds

Respond(c) == Serve(c) \/ SaveArrives(c) \/ StartServed(c) \/ StartArrives(c) \/ StartFails(c)
              \/ PollArrives(c) \/ PollFails(c) \/ DetailArrives(c) \/ RerunArrives(c) \/ DebugArrives(c)

Builder == \/ ClickRun \/ ClickRerun \/ ClearRunResults \/ Tick
           \/ ToggleLive \/ Connect \/ Open \/ Deliver \/ Drop \/ Scrub
           \/ \E c \in calls : Respond(c)
           \/ \E r \in DOMAIN runs : Progress(r)

Player == ReplayNext /\ UNCHANGED <<pageVars, liveVars, worldVars, calls, runs>>

BRNext == (host = "builder" /\ Builder) \/ (host = "player" /\ Player)

\* The engine goes on, intervals and timers fire, and requests are answered.
Fairness ==
    /\ WF_brVars(host = "builder" /\ Tick)
    /\ \A k \in {"save", "start", "begun", "get", "got"} :
          WF_brVars(host = "builder" /\ \E c \in calls : c.kind = k /\ Respond(c))
    /\ WF_brVars(host = "builder" /\ \E r \in DOMAIN runs : Progress(r))
    /\ WF_brVars(host = "player" /\ (\E s \in DOMAIN timers : Fire(s))
                   /\ UNCHANGED <<pageVars, liveVars, worldVars, calls, runs>>)

BRSpec == BRInit /\ [][BRNext]_brVars /\ Fairness

-----------------------------------------------------------------------------
(* Properties.                                                               *)

\* The builder says that a test passed only if the server has written that some
\* run passed, in whatever order the answers of overlapping polls, of the debug
\* link and of a second run come in.
PassedIsServers == runStatus = "passed" => \E r \in DOMAIN runs : runs[r].row = "passed"

\* Without Live, a click on Run always ends in a verdict, and Run is enabled
\* again, whichever request fails and however the answers overtake one another.
Concludes == []~live => (runStatus \in {"saving", "running"} ~> runStatus \in Verdicts)

Settled(s) == s.state = "open" /\ runs[s.run].log = Length(s.run) /\ s.upto = Length(s.run)

ShowsAll == cinema.active /\ ~astray /\ sub # None /\ sub.run = cinemaRun /\ Settled(sub)
            => /\ cinema.done
               /\ \A r \in Results(sub.run, Length(sub.run)) : cinema.view[r[1]].status = r[2]

\* Once a run's events have all arrived, the diagram shows what each step came
\* to, although connections are lost on the way and the buffer and the live
\* stream may both deliver an event.  Exceptions: the subscription began with
\* the numbers of another run's events, or the connection was lost while events
\* were being repeated.
LiveSettles == ~spoiled => ShowsAll

\* README: one can watch each step live.  Without exception.
LiveShowsRun == cinemaRun = Len(runs) => ShowsAll

\* Without Live, when a verdict is shown and nothing is under way any more, the
\* nodes show what the steps of the displayed run came to, even if that is not
\* the latest run.  Exception: it was re-run from a step, which wipes the nodes.
BadgesMatch ==
    cinemaRun = None /\ ~astray /\ calls = {} /\ poll = None /\ detail # None /\ runStatus \in Statuses
    => \A r \in detail.results : badges[r[1]] = r[2]

\* In each of the ways a run is shown (played from a recording, watched live, or
\* polled) the diagram shows what its steps came to.
DiagramShowsRun == ShowsPrefix /\ LiveSettles /\ BadgesMatch
=============================================================================
