------------------------------- MODULE Cinema -------------------------------
(* The cinema hook (web/src/hooks/use-cinema-mode.ts) and the controls that    *)
(* drive it (web/src/components/cinema): a view of a run, folded from its      *)
(* events as they arrive, or from a recording played back by a chain of        *)
(* timers, of which each schedules the next.  Delays and speed are abstracted: *)
(* a pending timer may fire at any time.                                       *)
EXTENDS Integers, Sequences, FiniteSets, SequencesExt, Absent

CONSTANTS Steps,        \* indices of steps
          Recordings    \* step results that may be loaded: sequences of [step, checks, status]

Statuses == {"passed", "failed"}

ASSUME CinemaAssumption ==
    /\ Steps \subseteq Nat /\ None \notin Nat
    /\ \A r \in Recordings : r \in Seq([step : Steps, checks : Nat, status : Statuses])

VARIABLES
    cinema,   \* the hook's state
    film,     \* replayEventsRef: the events of the recording
    timers,   \* the events whose timers are pending, as a function to their number
    last,     \* replayTimerRef: the event of the timer scheduled last, if it has not fired
    astray    \* history: scrubbed while events were being shown, or on for a run nobody follows

cinemaVars == <<cinema, film, timers, last, astray>>

-----------------------------------------------------------------------------
(* Events and views.                                                         *)

Blank == [i \in Steps |-> [status |-> "waiting", checks |-> 0, extracts |-> 0]]

\* What one event does to the state of the steps.
Applied(view, e) ==
    IF e.kind = "ended" THEN view
    ELSE [view EXCEPT ![e.step] =
            [status   |-> IF e.kind = "started" THEN "running"
                          ELSE IF e.kind = "completed" THEN e.status ELSE @.status,
             checks   |-> IF e.kind = "asserted" THEN @.checks + 1 ELSE @.checks,
             extracts |-> IF e.kind = "extracted" THEN @.extracts + 1 ELSE @.extracts]]

\* The view after the events of `evs' numbered up to seq.
Upto(evs, seq) ==
    LET shown[n \in 0 .. Len(evs)] ==
            IF n = 0 THEN Blank
            ELSE IF evs[n].seq <= seq THEN Applied(shown[n - 1], evs[n]) ELSE shown[n - 1]
    IN  shown[Len(evs)]

Ended(evs, seq) == \E i \in DOMAIN evs : evs[i].seq <= seq /\ evs[i].kind = "ended"

\* The events a recording is turned into: for each step its start, its
\* assertions and its end, and at last the end of the run.
OfStep(s) == <<[kind |-> "started", step |-> s.step]>>
             \o [i \in 1 .. s.checks |-> [kind |-> "asserted", step |-> s.step]]
             \o <<[kind |-> "completed", step |-> s.step, status |-> s.status]>>
FilmOf(steps) ==
    LET all == FlattenSeq([i \in DOMAIN steps |-> OfStep(steps[i])]) \o <<[kind |-> "ended"]>>
        Numbered(e, i) == [k \in DOMAIN e \cup {"seq"} |-> IF k = "seq" THEN i ELSE e[k]]
    IN  [i \in DOMAIN all |-> Numbered(all[i], i)]

-----------------------------------------------------------------------------
(* The hook's operations, on the state `c' of the hook.                      *)

Off == [active |-> FALSE, mode |-> "live", playback |-> "stopped", cur |-> 0, total |-> 0,
        view |-> <<>>, done |-> FALSE]

Active(mode) == [Off EXCEPT !.active = TRUE, !.mode = mode, !.view = Blank,
                 !.playback = IF mode = "live" THEN "playing" ELSE "paused"]

\* An event is ignored while cinema mode is off; playback does not matter.
Processed(c, e) ==
    IF ~c.active THEN c
    ELSE [c EXCEPT !.cur = e.seq, !.total = @ + 1, !.view = Applied(@, e),
                   !.done = @ \/ e.kind = "ended"]

AllProcessed(c, events) ==
    LET after[n \in 0 .. Len(events)] == IF n = 0 THEN c ELSE Processed(after[n - 1], events[n])
    IN  after[Len(events)]

\* Seeking rebuilds the view from the recording, which is empty in live mode.
Sought(c, seq) == [c EXCEPT !.cur = seq, !.view = Upto(film, seq), !.done = Ended(film, seq)]

\* Mutant: the steps keep their state.
Rewound_view(c) == [c EXCEPT !.cur = 0, !.done = FALSE, !.playback = "stopped"]

Rewound(c) == [c EXCEPT !.cur = 0, !.view = Blank, !.done = FALSE, !.playback = "stopped"]

-----------------------------------------------------------------------------
(* Timers.                                                                   *)

NoTimers == [s \in {} |-> 0]

Pending(s) == IF s \in DOMAIN timers THEN timers[s] ELSE 0

\* scheduleNextReplayEvent: a timer for the first event after seq, if any, is
\* added to the timers ts, of which `ref' was scheduled last.
Schedule(ts, ref, seq) ==
    LET later == { film[i].seq : i \in { j \in DOMAIN film : film[j].seq > seq } }
    IN  IF later = {} THEN timers' = ts /\ last' = ref
        ELSE LET next == CHOOSE s \in later : \A t \in later : s <= t
             IN  /\ timers' = [ t \in DOMAIN ts \cup {next} |->
                                  (IF t \in DOMAIN ts THEN ts[t] ELSE 0) + (IF t = next THEN 1 ELSE 0) ]
                 /\ last' = next

Minus(ts, s) == [ t \in (IF ts[s] = 1 THEN DOMAIN ts \ {s} ELSE DOMAIN ts) |->
                    IF t = s THEN ts[t] - 1 ELSE ts[t] ]

\* clearTimeout of the timer scheduled last.
Cancel == /\ timers' = IF last = None THEN timers ELSE Minus(timers, last)
          /\ last' = None

-----------------------------------------------------------------------------
(* A host that plays recordings with the scrubber's buttons.                 *)

LoadReplay ==
    /\ film = <<>> /\ ~cinema.active
    /\ \E r \in Recordings : /\ film' = FilmOf(r)
                             /\ cinema' = [Active("replay") EXCEPT !.total = Len(film')]
    /\ astray' = FALSE
    /\ UNCHANGED <<timers, last>>

\* The button reads Play unless the recording is playing.
Play ==
    /\ cinema.active /\ cinema.playback # "playing"
    /\ cinema' = [cinema EXCEPT !.playback = "playing"]
    /\ Schedule(timers, last, cinema.cur)
    /\ UNCHANGED <<film, astray>>

\* Mutant: the timer goes on.
Pause_timerKept ==
    /\ cinema.active /\ cinema.playback = "playing"
    /\ cinema' = [cinema EXCEPT !.playback = "paused"]
    /\ UNCHANGED <<timers, last>>
    /\ UNCHANGED <<film, astray>>

Pause ==
    /\ cinema.active /\ cinema.playback = "playing"
    /\ cinema' = [cinema EXCEPT !.playback = "paused"]
    /\ Cancel
    /\ UNCHANGED <<film, astray>>

\* A click on the bar, or Skip to end.
Seek(seq) ==
    /\ cinema.active /\ seq \in 0 .. cinema.total
    /\ cinema' = Sought(cinema, seq)
    /\ astray' = (astray \/ cinema.playback = "playing" \/ cinema.mode = "live")
    /\ UNCHANGED <<film, timers, last>>

Reset ==
    /\ cinema.active
    /\ cinema' = Rewound(cinema)
    /\ Cancel
    /\ astray' = (cinema.mode = "live")
    /\ UNCHANGED film

Deactivate ==
    /\ cinema.active
    /\ cinema' = Off /\ film' = <<>>
    /\ Cancel
    /\ UNCHANGED astray

\* A timer shows its event and, while the recording plays, schedules the next.
Fire(s) ==
    /\ Pending(s) > 0
    /\ LET e == film[CHOOSE i \in DOMAIN film : film[i].seq = s]
           rest == Minus(timers, s)
           ref == IF last = s THEN None ELSE last
       IN  /\ cinema' = Processed(cinema, e)
           /\ IF cinema.playback = "playing" /\ cinema.mode = "replay"
              THEN Schedule(rest, ref, s)
              ELSE timers' = rest /\ last' = ref
    /\ UNCHANGED <<film, astray>>

CinemaInit == /\ cinema = Off /\ film = <<>> /\ timers = NoTimers /\ last = None /\ astray = FALSE

\* Bound: a recording is played back to a total of three times its length.
ReplayNext ==
    \/ LoadReplay \/ Pause \/ Reset \/ Deactivate
    \/ cinema.total < 3 * Len(film) /\ Play
    \/ \E s \in 0 .. Len(film) : Seek(s)
    \/ Seek(cinema.total)
    \/ \E s \in DOMAIN timers : Fire(s)

-----------------------------------------------------------------------------
(* Properties of playing a recording.                                        *)

\* With the buttons the scrubber offers there is one chain of timers at most,
\* and only while the recording plays: pausing, rewinding and closing stop it.
OneChain == /\ \A s \in DOMAIN timers : timers[s] = 1 /\ s = last
            /\ DOMAIN timers # {} => cinema.active /\ cinema.playback = "playing"

\* The steps are shown as the events up to the current position left them, so
\* playing, pausing and rewinding in any order neither loses nor repeats an
\* event; only scrubbing while a timer is pending can break this.
ShowsPrefix == cinema.active /\ ~astray /\ cinema.mode = "replay"
               => /\ cinema.view = Upto(film, cinema.cur)
                  /\ cinema.done = Ended(film, cinema.cur)
=============================================================================
