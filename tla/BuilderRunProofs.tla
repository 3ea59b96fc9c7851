-------------------------- MODULE BuilderRunProofs --------------------------
(***************************************************************************)
(* What TLAPS proves of BuilderRun and Cinema, for any recordings, scripts *)
(* and bounds: a recording is played by one chain of timers at most, the   *)
(* builder says "passed" only if the server has, and the diagram shows     *)
(* what the steps of a run came to, played, watched live, or polled.       *)
(***************************************************************************)
EXTENDS BuilderRun, SeqFilterProofs

-----------------------------------------------------------------------------
(* The events of a recording: they are numbered, so none is None.          *)

Frame == [kind : {"started", "asserted"}, step : Steps]
         \cup [kind : {"completed"}, step : Steps, status : Statuses]
         \cup [kind : {"ended"}]

Flattens(f, s, n) ==
  f = [i \in 1 .. n |-> IF i = 1 THEN s[i] ELSE f[i - 1] \o s[i]]

Joins(f, s, i) == f[i] = IF i = 1 THEN s[i] ELSE f[i - 1] \o s[i]

LEMMA FlattensStep ==
  ASSUME NEW f, NEW s, NEW n \in Nat, Flattens(f, s, n), NEW i \in 1 .. n
  PROVE  Joins(f, s, i)
  <1>1. f = [j \in 1 .. n |-> IF j = 1 THEN s[j] ELSE f[j - 1] \o s[j]]
    BY DEF Flattens
  <1> QED
    BY <1>1, Zenon DEF Joins

LEMMA FlattensExists ==
  ASSUME NEW s, NEW n \in Nat
  PROVE  \E f : Flattens(f, s, n)
  <1> DEFINE T == { m \in Nat : \E f : Flattens(f, s, m) }
  <1>1. 0 \in T
    <2>1. PICK f : f = [i \in 1 .. 0 |-> {}]
      OBVIOUS
    <2>2. Flattens(f, s, 0)
      BY <2>1 DEF Flattens
    <2> QED
      BY <2>2
  <1>2. ASSUME NEW m \in Nat, m \in T PROVE m + 1 \in T
    <2>1. PICK f : Flattens(f, s, m)
      BY <1>2
    <2>2. PICK g : g = [i \in 1 .. m + 1 |-> IF i <= m THEN f[i] ELSE IF i = 1 THEN s[i] ELSE f[i - 1] \o s[i]]
      OBVIOUS
    <2>3. g = [i \in 1 .. m + 1 |-> g[i]]
      BY <2>2
    <2>4. ASSUME NEW i \in 1 .. m + 1
          PROVE  g[i] = IF i = 1 THEN s[i] ELSE g[i - 1] \o s[i]
      <3>1. i # 1 => g[i - 1] = f[i - 1]
        BY <2>2
      <3>2. CASE i <= m
        <4>1. i \in 1 .. m /\ g[i] = f[i]
          BY <2>2, <3>2
        <4>2. Joins(f, s, i)
          BY <2>1, <4>1, FlattensStep
        <4> QED
          BY <3>1, <4>1, <4>2, Zenon DEF Joins
      <3>3. CASE i = m + 1
        <4>1. ~ (i <= m)
          BY <3>3
        <4>2. g[i] = IF i = 1 THEN s[i] ELSE f[i - 1] \o s[i]
          BY <2>2, <4>1, Zenon
        <4> QED
          BY <3>1, <4>2, Zenon
      <3> QED
        BY <3>2, <3>3
    <2>5. Flattens(g, s, m + 1)
      BY <2>3, <2>4, Zenon DEF Flattens
    <2> QED
      BY <2>5
  <1> HIDE DEF T
  <1>3. n \in T
    BY <1>1, <1>2, NumberInduction
  <1> QED
    BY <1>3 DEF T

LEMMA FlattenIs ==
  ASSUME NEW s, Len(s) \in Nat, Len(s) # 0
  PROVE  \E f : Flattens(f, s, Len(s)) /\ FlattenSeq(s) = f[Len(s)]
  <1> DEFINE f == CHOOSE f : Flattens(f, s, Len(s))
  <1>1. Flattens(f, s, Len(s))
    BY FlattensExists
  <1>2. FlattenSeq(s) = f[Len(s)]
    BY DEF FlattenSeq, Flattens
  <1> QED
    BY <1>1, <1>2

LEMMA FlattenType ==
  ASSUME NEW S, NEW s \in Seq(Seq(S))
  PROVE  FlattenSeq(s) \in Seq(S)
  <1>1. PICK n \in Nat : n = Len(s)
    OBVIOUS
  <1>2. CASE n = 0
    <2>1. FlattenSeq(s) = s /\ s = << >>
      BY <1>1, <1>2, EmptySeq DEF FlattenSeq
    <2> QED
      BY <2>1, EmptySeq
  <1>3. CASE n # 0
    <2>1. PICK f : Flattens(f, s, n) /\ FlattenSeq(s) = f[n]
      BY <1>1, <1>3, FlattenIs
    <2> DEFINE T == { i \in Nat : i \in 1 .. n => f[i] \in Seq(S) }
    <2>2. 0 \in T
      OBVIOUS
    <2>3. ASSUME NEW i \in Nat, i \in T PROVE i + 1 \in T
      <3>1. PICK j \in Nat : j = i + 1
        OBVIOUS
      <3>2. ASSUME j \in 1 .. n PROVE f[j] \in Seq(S)
        <4>1. s[j] \in Seq(S)
          BY <1>1, <3>2, ElementOfSeq
        <4>2. Joins(f, s, j)
          BY <2>1, <3>2, FlattensStep
        <4>3. CASE j = 1
          BY <4>1, <4>2, <4>3, Zenon DEF Joins
        <4>4. CASE j # 1
          <5>0. f[j] = f[j - 1] \o s[j]
            BY <4>2, <4>4, Zenon DEF Joins
          <5>1. f[j] = f[i] \o s[j]
            <6>1. j - 1 = i
              BY <3>1
            <6> QED
              BY <5>0, <6>1, Zenon
          <5>2. f[i] \in Seq(S)
            BY <2>3, <3>1, <3>2, <4>4
          <5>3. PICK a \in Seq(S), b \in Seq(S) : a = f[i] /\ b = s[j]
            BY <4>1, <5>2
          <5>4. f[j] = a \o b
            BY <5>1, <5>3, Zenon
          <5> QED
            BY <5>4, ConcatProperties
        <4> QED
          BY <4>3, <4>4
      <3>3. j \in T
        BY <3>2
      <3> QED
        BY <3>1, <3>3
    <2>4. n \in T
      <3> HIDE DEF T
      <3> QED
        BY <2>2, <2>3, NumberInduction
    <2> QED
      BY <1>3, <2>1, <2>4
  <1> QED
    BY <1>2, <1>3

LEMMA OfStepType ==
  ASSUME NEW s \in [step : Steps, checks : Nat, status : Statuses]
  PROVE  OfStep(s) \in Seq(Frame)
  <1>1. PICK a, b, c : /\ a = [kind |-> "started", step |-> s.step]
                       /\ b = [kind |-> "asserted", step |-> s.step]
                       /\ c = [kind |-> "completed", step |-> s.step, status |-> s.status]
    OBVIOUS
  <1>2. a \in Frame /\ b \in Frame /\ c \in Frame
    BY <1>1 DEF Frame
  <1>3. PICK n \in Nat : n = s.checks
    OBVIOUS
  <1>4. PICK p, q, r : p = <<a>> /\ q = [i \in 1 .. n |-> b] /\ r = <<c>>
    OBVIOUS
  <1>5. p \in Seq(Frame) /\ q \in Seq(Frame) /\ r \in Seq(Frame)
    <2>1. q \in [1 .. n -> Frame]
      BY <1>2, <1>4
    <2>2. q \in Seq(Frame)
      BY <2>1, SeqDef
    <2> QED
      BY <1>2, <1>4, <2>2
  <1>6. OfStep(s) = p \o q \o r
    BY <1>1, <1>3, <1>4, Zenon DEF OfStep
  <1> QED
    BY <1>5, <1>6, ConcatProperties

LEMMA FilmShape ==
  ASSUME NEW r \in Recordings
  PROVE  \E evs \in Seq(Frame) :
           FilmOf(r) = [i \in DOMAIN evs |-> [k \in DOMAIN evs[i] \cup {"seq"} |-> IF k = "seq" THEN i ELSE evs[i][k]]]
  <1>1. PICK n \in Nat : r \in Seq([step : Steps, checks : Nat, status : Statuses]) /\ n = Len(r) /\ DOMAIN r = 1 .. n
    BY CinemaAssumption, LenProperties
  <1>2. PICK ss : ss = [i \in DOMAIN r |-> OfStep(r[i])]
    OBVIOUS
  <1>3. ss \in Seq(Seq(Frame))
    <2>1. \A i \in 1 .. n : OfStep(r[i]) \in Seq(Frame)
      BY <1>1, ElementOfSeq, OfStepType
    <2>2. ss \in [1 .. n -> Seq(Frame)]
      BY <1>1, <1>2, <2>1
    <2> QED
      BY <2>2, SeqDef
  <1>4. PICK end, flat : end = <<[kind |-> "ended"]>> /\ flat = FlattenSeq(ss)
    OBVIOUS
  <1>5. flat \in Seq(Frame)
    BY <1>3, <1>4, FlattenType
  <1>6. end \in Seq(Frame)
    <2>1. PICK e : e = [kind |-> "ended"]
      OBVIOUS
    <2>2. e \in Frame /\ end = <<e>>
      BY <1>4, <2>1 DEF Frame
    <2> QED
      BY <2>2
  <1>7. PICK evs : evs = flat \o end
    OBVIOUS
  <1>8. evs \in Seq(Frame)
    BY <1>5, <1>6, <1>7, ConcatProperties
  <1>9. FilmOf(r) = [i \in DOMAIN evs |-> [k \in DOMAIN evs[i] \cup {"seq"} |-> IF k = "seq" THEN i ELSE evs[i][k]]]
    BY <1>2, <1>4, <1>7, Zenon DEF FilmOf
  <1> QED
    BY <1>8, <1>9, Zenon

LEMMA FilmIsNumbered ==
  ASSUME NEW r \in Recordings
  PROVE  \A i \in DOMAIN FilmOf(r) : FilmOf(r)[i].seq = i /\ i \in Nat
  <1>1. PICK evs \in Seq(Frame) :
          FilmOf(r) = [i \in DOMAIN evs |-> [k \in DOMAIN evs[i] \cup {"seq"} |-> IF k = "seq" THEN i ELSE evs[i][k]]]
    BY FilmShape
  <1>2. DOMAIN evs = 1 .. Len(evs) /\ Len(evs) \in Nat
    BY LenProperties
  <1> SUFFICES ASSUME NEW i \in DOMAIN FilmOf(r) PROVE FilmOf(r)[i].seq = i /\ i \in Nat
    OBVIOUS
  <1>3. i \in DOMAIN evs
    BY <1>1, Zenon
  <1>4. FilmOf(r)[i] = [k \in DOMAIN evs[i] \cup {"seq"} |-> IF k = "seq" THEN i ELSE evs[i][k]]
    BY <1>1, <1>3, Zenon
  <1>5. FilmOf(r)[i].seq = i
    BY <1>4
  <1> QED
    BY <1>2, <1>3, <1>5

-----------------------------------------------------------------------------
(* One chain of timers.                                                    *)

Hook == {"active", "mode", "playback", "cur", "total", "view", "done"}

(* A pending timer is the one remembered, and the recording plays.         *)
Chain ==
  /\ last = None => DOMAIN timers = {}
  /\ last # None =>
       /\ DOMAIN timers = {last} /\ timers[last] = 1
       /\ cinema.active /\ cinema.playback = "playing"

(* Only the player has recordings; the builder never sets a timer.         *)
Reel ==
  /\ host \in {"builder", "player"}
  /\ host = "builder" => film = << >> /\ last = None
  /\ host = "player" =>
       /\ DOMAIN cinema = Hook
       /\ \A i \in DOMAIN film : film[i].seq \in Nat

ChainInv == Chain /\ Reel

LEMMA CancelEnds ==
  ASSUME Chain, Cancel
  PROVE  DOMAIN timers' = {} /\ last' = None
  <1>1. CASE last = None
    BY <1>1 DEF Chain, Cancel
  <1>2. CASE last # None
    <2>1. DOMAIN timers = {last} /\ timers[last] = 1
      BY <1>2 DEF Chain
    <2>2. timers' = Minus(timers, last) /\ last' = None
      BY <1>2 DEF Cancel
    <2>3. DOMAIN Minus(timers, last) = DOMAIN timers \ {last}
      BY <2>1 DEF Minus
    <2> QED
      BY <2>1, <2>2, <2>3
  <1> QED
    BY <1>1, <1>2

(* Scheduling where nothing is pending starts one timer, or none.          *)
LEMMA FirstOfSome ==
  ASSUME NEW S, S \subseteq Nat, S # {}
  PROVE  \E s \in S : \A t \in S : s <= t
  <1> DEFINE R == OpToRel(<, Nat)
  <1>1. IsWellFoundedOn(R, Nat)
    BY NatLessThanWellFounded
  <1>2. PICK s \in S : \A t \in S : ~ (<<t, s>> \in R)
    BY <1>1, WFMin
  <1>3. \A t \in S : ~ (t < s)
    BY <1>2 DEF OpToRel
  <1>4. \A t \in S : s <= t
    BY <1>3
  <1> QED
    BY <1>4

LEMMA ScheduleStarts ==
  ASSUME NEW ts, DOMAIN ts = {}, NEW seq, Schedule(ts, None, seq),
         \A i \in DOMAIN film : film[i].seq \in Nat
  PROVE  /\ last' = None => DOMAIN timers' = {}
         /\ last' # None => DOMAIN timers' = {last'} /\ timers'[last'] = 1
         /\ DOMAIN film = {} => last' = None
  <1> DEFINE later == { film[i].seq : i \in { j \in DOMAIN film : film[j].seq > seq } }
             next == CHOOSE s \in later : \A t \in later : s <= t
  <1>1. CASE later = {}
    <2>1. timers' = ts /\ last' = None
      BY <1>1, Zenon DEF Schedule
    <2> QED
      BY <2>1
  <1>2. CASE later # {}
    <2>1. next \in Nat
      <3>1. later \subseteq Nat
        OBVIOUS
      <3> HIDE DEF later
      <3>2. \E s \in later : \A t \in later : s <= t
        BY <1>2, <3>1, FirstOfSome
      <3>3. next \in later
        BY <3>2
      <3> QED
        BY <3>1, <3>3
    <2>2. /\ timers' = [ t \in DOMAIN ts \cup {next} |->
                           (IF t \in DOMAIN ts THEN ts[t] ELSE 0) + (IF t = next THEN 1 ELSE 0) ]
          /\ last' = next
      BY <1>2, Zenon DEF Schedule
    <2>3. PICK n \in Nat : n = next
      BY <2>1
    <2>4. /\ timers' = [ t \in DOMAIN ts \cup {n} |->
                           (IF t \in DOMAIN ts THEN ts[t] ELSE 0) + (IF t = n THEN 1 ELSE 0) ]
          /\ last' = n
      BY <2>2, <2>3
    <2>5. DOMAIN timers' = {n}
      BY <2>4
    <2>6. timers'[n] = 1
      BY <2>4
    <2>7. DOMAIN film # {}
      BY <1>2
    <2>8. n # None
      BY CinemaAssumption
    <2> HIDE DEF next, later
    <2> QED
      BY <2>4, <2>5, <2>6, <2>7, <2>8
  <1> QED
    BY <1>1, <1>2

LEMMA ProcessedStays ==
  ASSUME NEW c, DOMAIN c = Hook, NEW e, NEW new, new = Processed(c, e)
  PROVE  DOMAIN new = Hook /\ new.active = c.active /\ new.playback = c.playback
  <1>1. CASE ~ c.active
    BY <1>1 DEF Processed
  <1>2. CASE c.active
    <2>1. PICK cur, total, view, done :
            new = [c EXCEPT !.cur = cur, !.total = total, !.view = view, !.done = done]
      BY <1>2, Zenon DEF Processed
    <2> QED
      BY <2>1 DEF Hook
  <1> QED
    BY <1>1, <1>2

LEMMA PlayerKeepsChain ==
  ASSUME ChainInv, host = "player", host' = host, ReplayNext
  PROVE  ChainInv'
  <1>1. Chain /\ DOMAIN cinema = Hook /\ \A i \in DOMAIN film : film[i].seq \in Nat
    BY DEF ChainInv, Reel
  <1>2. ASSUME LoadReplay PROVE ChainInv'
    <2>1. PICK r \in Recordings : film' = FilmOf(r) /\ cinema' = [Active("replay") EXCEPT !.total = Len(film')]
      BY <1>2 DEF LoadReplay
    <2>2. \A i \in DOMAIN film' : film'[i].seq \in Nat
      BY <2>1, FilmIsNumbered
    <2>3. DOMAIN cinema' = Hook
      BY <2>1 DEF Active, Off, Hook
    <2>4. timers' = timers /\ last' = last /\ last = None
      BY <1>1, <1>2 DEF LoadReplay, Chain
    <2> QED
      BY <1>1, <2>2, <2>3, <2>4 DEF ChainInv, Chain, Reel
  <1>3. ASSUME Pause PROVE ChainInv'
    <2>1. DOMAIN timers' = {} /\ last' = None /\ film' = film
      BY <1>1, <1>3, CancelEnds DEF Pause
    <2>2. DOMAIN cinema' = Hook
      BY <1>1, <1>3 DEF Pause
    <2> QED
      BY <1>1, <2>1, <2>2 DEF ChainInv, Chain, Reel
  <1>4. ASSUME Reset PROVE ChainInv'
    <2>1. DOMAIN timers' = {} /\ last' = None /\ film' = film
      BY <1>1, <1>4, CancelEnds DEF Reset
    <2>2. DOMAIN cinema' = Hook
      BY <1>1, <1>4 DEF Reset, Rewound
    <2> QED
      BY <1>1, <2>1, <2>2 DEF ChainInv, Chain, Reel
  <1>5. ASSUME Deactivate PROVE ChainInv'
    <2>1. DOMAIN timers' = {} /\ last' = None /\ film' = << >>
      BY <1>1, <1>5, CancelEnds DEF Deactivate
    <2>2. DOMAIN cinema' = Hook
      BY <1>5 DEF Deactivate, Off, Hook
    <2> QED
      BY <1>1, <2>1, <2>2 DEF ChainInv, Chain, Reel
  <1>6. ASSUME Play PROVE ChainInv'
    <2>1. cinema.active /\ cinema.playback # "playing" /\ cinema' = [cinema EXCEPT !.playback = "playing"]
          /\ film' = film
      BY <1>6 DEF Play
    <2>2. DOMAIN cinema' = Hook /\ cinema'.active /\ cinema'.playback = "playing"
      BY <1>1, <2>1 DEF Hook
    <2>3. last = None /\ DOMAIN timers = {}
      BY <1>1, <2>1 DEF Chain
    <2>4. PICK seq : Schedule(timers, None, seq)
      BY <1>6, <2>3 DEF Play
    <2>5. /\ last' = None => DOMAIN timers' = {}
          /\ last' # None => DOMAIN timers' = {last'} /\ timers'[last'] = 1
      BY <1>1, <2>3, <2>4, ScheduleStarts
    <2> QED
      BY <1>1, <2>1, <2>2, <2>5 DEF ChainInv, Chain, Reel
  <1>7. ASSUME NEW seq, Seek(seq) PROVE ChainInv'
    <2>1. film' = film /\ timers' = timers /\ last' = last /\ cinema' = Sought(cinema, seq)
      BY <1>7 DEF Seek
    <2>2. PICK view, done : cinema' = [cinema EXCEPT !.cur = seq, !.view = view, !.done = done]
      BY <2>1, Zenon DEF Sought
    <2>3. DOMAIN cinema' = Hook /\ cinema'.active = cinema.active /\ cinema'.playback = cinema.playback
      BY <1>1, <2>2 DEF Hook
    <2> QED
      BY <1>1, <2>1, <2>3 DEF ChainInv, Chain, Reel
  <1>8. ASSUME NEW s, Fire(s) PROVE ChainInv'
    <2>1. s = last /\ last # None /\ DOMAIN timers = {s} /\ timers[s] = 1 /\ cinema.active /\ cinema.playback = "playing"
      <3>1. s \in DOMAIN timers
        BY <1>8 DEF Fire, Pending
      <3> QED
        BY <1>1, <3>1 DEF Chain
    <2>2. PICK rest : rest = Minus(timers, s) /\ DOMAIN rest = {}
      <3>1. DOMAIN Minus(timers, s) = DOMAIN timers \ {s}
        BY <2>1 DEF Minus
      <3> QED
        BY <2>1, <3>1
    <2>3. PICK e : cinema' = Processed(cinema, e)
      BY <1>8, Zenon DEF Fire
    <2>4. DOMAIN cinema' = Hook /\ cinema'.active /\ cinema'.playback = "playing"
      BY <1>1, <2>1, <2>3, ProcessedStays
    <2>5. Schedule(rest, None, s) \/ (timers' = rest /\ last' = None)
      BY <1>8, <2>1, <2>2, Zenon DEF Fire
    <2>6. /\ last' = None => DOMAIN timers' = {}
          /\ last' # None => DOMAIN timers' = {last'} /\ timers'[last'] = 1
      BY <1>1, <2>2, <2>5, ScheduleStarts
    <2>7. film' = film
      BY <1>8 DEF Fire
    <2> QED
      BY <1>1, <2>4, <2>6, <2>7 DEF ChainInv, Chain, Reel
  <1> QED
    BY <1>2, <1>3, <1>4, <1>5, <1>6, <1>7, <1>8 DEF ReplayNext

(* In the builder the scrubber finds no recording to play.                 *)
LEMMA BuilderKeepsChain ==
  ASSUME ChainInv, host = "builder", host' = host, Builder
  PROVE  ChainInv'
  <1>1. Chain /\ film = << >> /\ last = None /\ DOMAIN timers = {}
    BY DEF ChainInv, Reel, Chain
  <1>2. (film' = film \/ film' = << >>) /\ DOMAIN timers' = {} /\ last' = None
    <2>1. CASE UNCHANGED <<film, timers, last>>
      BY <1>1, <2>1
    <2>2. CASE Cancel /\ (film' = film \/ film' = << >>)
      BY <1>1, <2>2, CancelEnds
    <2>3. CASE Play
      <3>1. PICK seq : Schedule(timers, None, seq) /\ film' = film
        BY <1>1, <2>3 DEF Play
      <3>2. DOMAIN film = {}
        BY <1>1
      <3> QED
        BY <1>1, <3>1, <3>2, ScheduleStarts
    <2>4. \/ UNCHANGED <<film, timers, last>>
          \/ Cancel /\ (film' = film \/ film' = << >>)
          \/ Play
      <3>1. CASE ClickRun \/ ClickRerun \/ ClearRunResults \/ Tick \/ Connect \/ Drop
        BY <3>1 DEF ClickRun, ClickRerun, ClearRunResults, Tick, Connect, Drop, cinemaVars
      <3>2. CASE Open \/ Deliver
        BY <3>2 DEF Open, Deliver, Handle
      <3>3. CASE ToggleLive
        BY <3>3 DEF ToggleLive
      <3>4. CASE Scrub
        BY <3>4 DEF Scrub, Pause, Reset, Seek
      <3>5. ASSUME NEW c \in calls, Respond(c), ~ RerunArrives(c) PROVE UNCHANGED <<film, timers, last>>
        BY <3>5 DEF Respond, Serve, SaveArrives, StartServed, StartArrives, StartFails, PollArrives, PollFails,
                    DetailArrives, DebugArrives, cinemaVars
      <3>6. ASSUME NEW c \in calls, RerunArrives(c) PROVE UNCHANGED <<film, timers, last>> \/ (Cancel /\ film' = film)
        BY <3>6 DEF RerunArrives, cinemaVars
      <3>7. ASSUME NEW r \in DOMAIN runs, Progress(r) PROVE UNCHANGED <<film, timers, last>>
        BY <3>7 DEF Progress, cinemaVars
      <3> QED
        BY <3>1, <3>2, <3>3, <3>4, <3>5, <3>6, <3>7 DEF Builder
    <2> QED
      BY <2>1, <2>2, <2>3, <2>4
  <1> QED
    BY <1>1, <1>2 DEF ChainInv, Chain, Reel

LEMMA ChainStays == BRSpec => []ChainInv
  <1>1. BRInit => ChainInv
    BY DEF BRInit, CinemaInit, ChainInv, Chain, Reel, Off, Hook, NoTimers
  <1>2. ChainInv /\ [BRNext]_brVars => ChainInv'
    <2> SUFFICES ASSUME ChainInv, [BRNext]_brVars PROVE ChainInv'
      OBVIOUS
    <2>1. CASE host = "builder" /\ Builder
      <3>1. host' = host
        BY <2>1 DEF Builder, ClickRun, ClickRerun, ClearRunResults, Tick, Connect, Drop, Open, Deliver, ToggleLive, Scrub,
                    Respond, Serve, SaveArrives, StartServed, StartArrives, StartFails, PollArrives, PollFails,
                    DetailArrives, DebugArrives, RerunArrives, Progress, worldVars
      <3> QED
        BY <2>1, <3>1, BuilderKeepsChain
    <2>2. CASE host = "player" /\ Player
      BY <2>2, PlayerKeepsChain DEF Player, worldVars
    <2>3. CASE UNCHANGED brVars
      BY <2>3 DEF brVars, worldVars, cinemaVars, ChainInv, Chain, Reel
    <2> QED
      BY <2>1, <2>2, <2>3 DEF BRNext
  <1> QED
    BY <1>1, <1>2, PTL DEF BRSpec

(* However playing, pausing, seeking, rewinding and closing follow each    *)
(* other, one timer at most is pending, and only while a recording plays.  *)
THEOREM OneTimer == BRSpec => []OneChain
  <1>1. ChainInv => OneChain
    BY DEF ChainInv, Chain, OneChain
  <1> QED
    BY <1>1, ChainStays, PTL

-----------------------------------------------------------------------------
(* "passed" is the server's word.                                          *)

Row == [verdict : Statuses, log : Nat, row : Statuses \cup {"running"}]

SomePassed == \E r \in DOMAIN runs : runs[r].row = "passed"

(* A request under way asks for a run there is, or brings what a row said. *)
CallOf(c) ==
  /\ "kind" \in DOMAIN c
  /\ c.kind \in {"get", "begun"} => c.run \in DOMAIN runs
  /\ c.kind = "got" => (c.answer.status = "passed" => SomePassed)

Truth ==
  /\ runs \in Seq(Row)
  /\ runStatus = "passed" => SomePassed
  /\ poll # None => poll \in DOMAIN runs
  /\ cinemaRun # None => cinemaRun \in DOMAIN runs
  /\ sub # None => cinemaRun # None
  /\ \A c \in calls : CallOf(c)

(* Runs are added, and a row that says "passed" is never written again.    *)
Grows ==
  /\ runs' \in Seq(Row)
  /\ DOMAIN runs \subseteq DOMAIN runs'
  /\ SomePassed => SomePassed'

LEMMA StayingGrows ==
  ASSUME Truth, runs' = runs
  PROVE  Grows
  BY DEF Truth, Grows, SomePassed

LEMMA NewRunGrows ==
  ASSUME Truth, NewRun
  PROVE  Grows /\ Len(runs') \in DOMAIN runs'
  <1>0. PICK v \in Statuses : runs' = Append(runs, [verdict |-> v, log |-> 0, row |-> "running"])
    BY DEF NewRun
  <1>1. PICK row : row = [verdict |-> v, log |-> 0, row |-> "running"] /\ runs' = Append(runs, row)
    BY <1>0
  <1>2. row \in Row
    BY <1>1 DEF Row
  <1>3. PICK n \in Nat : runs \in Seq(Row) /\ n = Len(runs) /\ DOMAIN runs = 1 .. n
    BY LenProperties DEF Truth
  <1>4. /\ runs' \in Seq(Row) /\ Len(runs') = n + 1 /\ DOMAIN runs' = 1 .. n + 1
        /\ \A r \in 1 .. n : runs'[r] = runs[r]
    BY <1>1, <1>2, <1>3, AppendProperties, LenProperties
  <1>5. SomePassed => SomePassed'
    BY <1>3, <1>4 DEF SomePassed
  <1> QED
    BY <1>3, <1>4, <1>5 DEF Grows

LEMMA ProgressGrows ==
  ASSUME Truth, NEW r \in DOMAIN runs, Progress(r)
  PROVE  Grows
  <1>1. PICK n \in Nat : runs \in Seq(Row) /\ n = Len(runs) /\ DOMAIN runs = 1 .. n
    BY LenProperties DEF Truth
  <1>2. runs \in [1 .. n -> Row] /\ r \in 1 .. n
    BY <1>1, ElementOfSeq, LenProperties
  <1>3. PICK old \in Row : old = runs[r] /\ old.row = "running"
    BY <1>2 DEF Progress
  <1>4. PICK new \in Row : runs' = [runs EXCEPT ![r] = new]
    <2>1. runs' = [runs EXCEPT ![r] = [old EXCEPT !.log = old.log + 1]] \/ runs' = [runs EXCEPT ![r] = [old EXCEPT !.row = old.verdict]]
      BY <1>3 DEF Progress
    <2>2. [old EXCEPT !.log = old.log + 1] \in Row /\ [old EXCEPT !.row = old.verdict] \in Row
      BY DEF Row
    <2> QED
      BY <2>1, <2>2
  <1>5. runs' \in [1 .. n -> Row] /\ DOMAIN runs' = 1 .. n /\ \A d \in 1 .. n : d # r => runs'[d] = runs[d]
    BY <1>2, <1>4
  <1>6. runs' \in Seq(Row)
    BY <1>5, SeqDef
  <1>7. SomePassed => SomePassed'
    BY <1>1, <1>3, <1>5 DEF SomePassed
  <1> QED
    BY <1>1, <1>5, <1>6, <1>7 DEF Grows

LEMMA KeepsTruth ==
  ASSUME Truth, Grows,
         runStatus' # "passed" \/ runStatus' = runStatus \/ SomePassed,
         poll' \in {poll, None} \cup DOMAIN runs',
         cinemaRun' \in {cinemaRun} \cup DOMAIN runs',
         sub' # None => cinemaRun' # None,
         \A c \in calls' : c \in calls \/ CallOf(c)'
  PROVE  Truth'
  <1>1. ASSUME NEW c \in calls' PROVE CallOf(c)'
    <2>1. CASE c \in calls
      <3>1. CallOf(c)
        BY <2>1 DEF Truth
      <3> QED
        BY <3>1 DEF CallOf, Grows
    <2> QED
      BY <1>1, <2>1
  <1> QED
    BY <1>1 DEF Truth, Grows

LEMMA StepKeepsTruth ==
  ASSUME Truth, Builder
  PROVE  Truth'
  <1>1. CASE ClickRun \/ ClickRerun \/ ClearRunResults
    <2>1. runs' = runs /\ poll' = poll /\ cinemaRun' = cinemaRun /\ sub' = sub
      BY <1>1 DEF ClickRun, ClickRerun, ClearRunResults, liveVars, pageVars
    <2>2. runStatus' # "passed" \/ runStatus' = runStatus
      BY <1>1 DEF ClickRun, ClickRerun, ClearRunResults, pageVars
    <2>3. \A c \in calls' : c \in calls \/ CallOf(c)'
      BY <1>1 DEF ClickRun, ClickRerun, ClearRunResults, CallOf
    <2> QED
      BY <2>1, <2>2, <2>3, StayingGrows, KeepsTruth DEF Truth
  <1>2. CASE Tick
    <2>1. runs' = runs /\ runStatus' = runStatus /\ poll' = poll /\ cinemaRun' = cinemaRun /\ sub' = sub
      BY <1>2 DEF Tick, liveVars, pageVars
    <2>2. \A c \in calls' : c \in calls \/ CallOf(c)'
      BY <1>2, <2>1 DEF Tick, CallOf, Truth
    <2> QED
      BY <2>1, <2>2, StayingGrows, KeepsTruth DEF Truth
  <1>3. CASE ToggleLive
    <2>1. runs' = runs /\ runStatus' = runStatus /\ poll' = poll /\ cinemaRun' = cinemaRun /\ calls' = calls
      BY <1>3 DEF ToggleLive, pageVars
    <2>2. sub' # None => cinemaRun' # None
      BY <1>3, <2>1 DEF ToggleLive, Subscribe
    <2> QED
      BY <2>1, <2>2, StayingGrows, KeepsTruth
  <1>4. CASE Connect \/ Drop \/ Scrub
    <2>1. runs' = runs /\ runStatus' = runStatus /\ poll' = poll /\ cinemaRun' = cinemaRun /\ calls' = calls
      BY <1>4 DEF Connect, Drop, Scrub, pageVars, liveVars
    <2>2. sub' # None => sub # None
      BY <1>4 DEF Connect, Drop, Scrub, liveVars
    <2> QED
      BY <2>1, <2>2, StayingGrows, KeepsTruth DEF Truth
  <1>5. CASE Open \/ Deliver
    <2>1. /\ runs' = runs /\ runStatus' = runStatus /\ poll' = poll /\ cinemaRun' = cinemaRun /\ sub # None
          /\ calls' = calls \/ calls' = calls \cup {[kind |-> "get", by |-> "live", run |-> cinemaRun]}
      BY <1>5 DEF Open, Deliver, Handle
    <2>2. cinemaRun \in DOMAIN runs
      BY <2>1 DEF Truth
    <2>3. \A c \in calls' : c \in calls \/ CallOf(c)'
      BY <2>1, <2>2 DEF CallOf
    <2> QED
      BY <2>1, <2>2, <2>3, StayingGrows, KeepsTruth DEF Truth
  <1>6. ASSUME NEW c \in calls, Respond(c) PROVE Truth'
    <2>1. CallOf(c)
      BY DEF Truth
    <2>2. CASE Serve(c)
      <3>1. /\ c.kind = "get" /\ runs' = runs /\ runStatus' = runStatus /\ poll' = poll
            /\ cinemaRun' = cinemaRun /\ sub' = sub
        BY <2>2 DEF Serve, pageVars, liveVars
      <3>2. PICK answer, new : /\ answer = Answer(c.run)
                               /\ new = [kind |-> "got", by |-> c.by, answer |-> answer]
        OBVIOUS
      <3>3. calls' = (calls \ {c}) \cup {new}
        BY <2>2, <3>2 DEF Serve
      <3>4. answer.status = runs[c.run].row /\ c.run \in DOMAIN runs
        BY <2>1, <3>1, <3>2 DEF Answer, CallOf
      <3>5. CallOf(new)'
        BY <3>1, <3>2, <3>4 DEF CallOf, SomePassed
      <3> QED
        BY <3>1, <3>3, <3>5, StayingGrows, KeepsTruth DEF Truth
    <2>3. CASE SaveArrives(c)
      <3>1. /\ runs' = runs /\ poll' = poll /\ cinemaRun' = cinemaRun /\ sub' = sub
            /\ runStatus' # "passed"
            /\ calls' = calls \ {c} \/ calls' = (calls \ {c}) \cup {[c EXCEPT !.kind = "start"]}
        BY <2>3 DEF SaveArrives, liveVars
      <3>2. CallOf([c EXCEPT !.kind = "start"])'
        BY <2>1 DEF CallOf
      <3> QED
        BY <3>1, <3>2, StayingGrows, KeepsTruth DEF Truth
    <2>4. CASE StartServed(c)
      <3>1. NewRun /\ runStatus' = runStatus /\ poll' = poll /\ cinemaRun' = cinemaRun /\ sub' = sub
        BY <2>4 DEF StartServed, pageVars, liveVars
      <3>2. PICK new : new = [kind |-> "begun", run |-> Len(runs'), live |-> c.live] /\ calls' = (calls \ {c}) \cup {new}
        BY <2>4 DEF StartServed
      <3>3. Grows /\ Len(runs') \in DOMAIN runs'
        BY <3>1, NewRunGrows
      <3>4. CallOf(new)'
        BY <3>2, <3>3 DEF CallOf
      <3> QED
        BY <3>1, <3>2, <3>3, <3>4, KeepsTruth DEF Truth
    <2>5. CASE StartArrives(c)
      <3>1. c.run \in DOMAIN runs /\ runs' = runs /\ calls' = calls \ {c}
        BY <2>1, <2>5 DEF StartArrives, CallOf
      <3>2. \/ cinemaRun' = c.run /\ poll' = poll /\ runStatus' = runStatus
            \/ /\ poll' = c.run /\ runStatus' = runStatus /\ cinemaRun' = cinemaRun /\ sub' = sub
        BY <2>5 DEF StartArrives, pageVars, liveVars
      <3>3. sub' # None => cinemaRun' # None
        BY <2>5, <3>2 DEF StartArrives, Subscribe, Truth, pageVars, liveVars
      <3> QED
        BY <3>1, <3>2, <3>3, StayingGrows, KeepsTruth
    <2>6. CASE StartFails(c) \/ PollFails(c) \/ DebugArrives(c)
      <3>1. /\ runs' = runs /\ poll' \in {poll, None} /\ cinemaRun' = cinemaRun /\ sub' = sub
            /\ runStatus' # "passed" /\ calls' = calls \ {c}
        BY <2>6 DEF StartFails, PollFails, DebugArrives, liveVars
      <3> QED
        BY <3>1, StayingGrows, KeepsTruth DEF Truth
    <2>7. CASE PollArrives(c) \/ DetailArrives(c)
      <3>1. /\ c.kind = "got" /\ runs' = runs /\ poll' \in {poll, None} /\ cinemaRun' = cinemaRun /\ sub' = sub
            /\ calls' = calls \ {c} /\ runStatus' \in {runStatus, c.answer.status}
        BY <2>7 DEF PollArrives, DetailArrives, liveVars
      <3>2. c.answer.status = "passed" => SomePassed
        BY <2>1, <3>1 DEF CallOf
      <3> QED
        BY <3>1, <3>2, StayingGrows, KeepsTruth DEF Truth
    <2>8. CASE RerunArrives(c)
      <3>1. /\ NewRun /\ runStatus' = runStatus /\ poll' = poll /\ cinemaRun' = cinemaRun /\ sub' = sub
            /\ calls' = calls \ {c}
        BY <2>8 DEF RerunArrives, pageVars, liveVars
      <3> QED
        BY <3>1, NewRunGrows, KeepsTruth DEF Truth
    <2> QED
      BY <1>6, <2>2, <2>3, <2>4, <2>5, <2>6, <2>7, <2>8 DEF Respond
  <1>7. ASSUME NEW r \in DOMAIN runs, Progress(r) PROVE Truth'
    <2>1. runStatus' = runStatus /\ poll' = poll /\ cinemaRun' = cinemaRun /\ sub' = sub /\ calls' = calls
      BY <1>7 DEF Progress, pageVars, liveVars
    <2> QED
      BY <1>7, <2>1, ProgressGrows, KeepsTruth DEF Truth
  <1> QED
    BY <1>1, <1>2, <1>3, <1>4, <1>5, <1>6, <1>7 DEF Builder

LEMMA TruthStays == BRSpec => []Truth
  <1>1. BRInit => Truth
    <2> SUFFICES ASSUME BRInit PROVE Truth
      OBVIOUS
    <2>1. runs \in Seq(Row) /\ runStatus = "idle" /\ poll = None /\ cinemaRun = None /\ sub = None
      BY EmptySeq DEF BRInit
    <2>2. \A c \in calls : c = [kind |-> "debug"]
      BY BuilderRunAssumption DEF BRInit
    <2> QED
      BY <2>1, <2>2 DEF Truth, CallOf
  <1>2. Truth /\ [BRNext]_brVars => Truth'
    <2> SUFFICES ASSUME Truth, [BRNext]_brVars PROVE Truth'
      OBVIOUS
    <2>1. CASE Builder
      BY <2>1, StepKeepsTruth
    <2>2. CASE Player \/ UNCHANGED brVars
      BY <2>2 DEF Player, brVars, pageVars, liveVars, Truth, CallOf, SomePassed
    <2> QED
      BY <2>1, <2>2 DEF BRNext
  <1> QED
    BY <1>1, <1>2, PTL DEF BRSpec

(* Whatever is clicked, lost or overtaken, the builder says "passed" only  *)
(* if some run's row does.                                                 *)
THEOREM PassedIsTrue == BRSpec => []PassedIsServers
  <1>1. Truth => PassedIsServers
    BY DEF Truth, SomePassed, PassedIsServers
  <1> QED
    BY <1>1, TruthStays, PTL

-----------------------------------------------------------------------------
(* The view after some of a recording's events, as a function of how many  *)
(* were looked at.                                                         *)

Shows(f, evs, seq, n) ==
  f = [i \in 0 .. n |-> IF i = 0 THEN Blank
                        ELSE IF evs[i].seq <= seq THEN Applied(f[i - 1], evs[i]) ELSE f[i - 1]]

LEMMA ShowsStep ==
  ASSUME NEW f, NEW evs, NEW seq, NEW n \in Nat, Shows(f, evs, seq, n), NEW i \in 1 .. n
  PROVE  f[i] = IF evs[i].seq <= seq THEN Applied(f[i - 1], evs[i]) ELSE f[i - 1]
  <1>1. i \in 0 .. n /\ i # 0
    OBVIOUS
  <1>2. f = [j \in 0 .. n |-> IF j = 0 THEN Blank
                              ELSE IF evs[j].seq <= seq THEN Applied(f[j - 1], evs[j]) ELSE f[j - 1]]
    BY DEF Shows
  <1> QED
    BY <1>1, <1>2, Zenon

LEMMA ShowsExists ==
  ASSUME NEW evs, NEW seq, NEW n \in Nat
  PROVE  \E f : Shows(f, evs, seq, n)
  <1> DEFINE T == { m \in Nat : \E f : Shows(f, evs, seq, m) }
  <1>1. 0 \in T
    <2>1. PICK f : f = [i \in 0 .. 0 |-> Blank]
      OBVIOUS
    <2>2. f = [i \in 0 .. 0 |-> IF i = 0 THEN Blank
                                ELSE IF evs[i].seq <= seq THEN Applied(f[i - 1], evs[i]) ELSE f[i - 1]]
      BY <2>1
    <2> QED
      BY <2>2 DEF Shows
  <1>2. ASSUME NEW m \in Nat, m \in T PROVE m + 1 \in T
    <2>1. PICK f : Shows(f, evs, seq, m)
      BY <1>2
    <2>2. PICK g : g = [i \in 0 .. m + 1 |-> IF i <= m THEN f[i]
                          ELSE IF evs[i].seq <= seq THEN Applied(f[i - 1], evs[i]) ELSE f[i - 1]]
      OBVIOUS
    <2>3. DOMAIN g = 0 .. m + 1 /\ g = [i \in 0 .. m + 1 |-> g[i]]
      BY <2>2
    <2>4. ASSUME NEW i \in 0 .. m + 1
          PROVE  g[i] = IF i = 0 THEN Blank
                        ELSE IF evs[i].seq <= seq THEN Applied(g[i - 1], evs[i]) ELSE g[i - 1]
      <3>1. CASE i = 0
        <4>1. g[i] = f[i] /\ 0 \in 0 .. m
          BY <2>2, <3>1
        <4>2. f[0] = Blank
          BY <2>1, <4>1, Zenon DEF Shows
        <4> QED
          BY <3>1, <4>1, <4>2
      <3>2. CASE i # 0 /\ i <= m
        <4>1. g[i] = f[i] /\ g[i - 1] = f[i - 1]
          BY <2>2, <3>2
        <4>2. f[i] = IF evs[i].seq <= seq THEN Applied(f[i - 1], evs[i]) ELSE f[i - 1]
          BY <2>1, <3>2, ShowsStep
        <4> QED
          BY <3>2, <4>1, <4>2, Zenon
      <3>3. CASE i = m + 1
        <4>1. g[i - 1] = f[i - 1] /\ ~ (i <= m) /\ i # 0
          BY <2>2, <3>3
        <4>2. g[i] = IF evs[i].seq <= seq THEN Applied(f[i - 1], evs[i]) ELSE f[i - 1]
          BY <2>2, <4>1, Zenon
        <4> QED
          BY <4>1, <4>2, Zenon
      <3> QED
        BY <3>1, <3>2, <3>3
    <2>5. Shows(g, evs, seq, m + 1)
      BY <2>3, <2>4, Zenon DEF Shows
    <2> QED
      BY <2>5
  <1> HIDE DEF T
  <1>3. n \in T
    BY <1>1, <1>2, NumberInduction
  <1> QED
    BY <1>3 DEF T

LEMMA UptoIs ==
  ASSUME NEW evs, NEW seq, Len(evs) \in Nat
  PROVE  \E f : Shows(f, evs, seq, Len(evs)) /\ Upto(evs, seq) = f[Len(evs)]
  <1> DEFINE f == CHOOSE f : Shows(f, evs, seq, Len(evs))
  <1>1. Shows(f, evs, seq, Len(evs))
    BY ShowsExists
  <1>2. Upto(evs, seq) = f[Len(evs)]
    BY DEF Upto, Shows
  <1> QED
    BY <1>1, <1>2

(* Events with the numbers of their places.                                *)
Numbered(evs) ==
  /\ Len(evs) \in Nat /\ DOMAIN evs = 1 .. Len(evs)
  /\ \A i \in DOMAIN evs : evs[i].seq = i

LEMMA UptoNone ==
  ASSUME NEW evs, Numbered(evs)
  PROVE  Upto(evs, 0) = Blank
  <1>1. PICK n \in Nat : n = Len(evs)
    BY DEF Numbered
  <1>2. PICK f : Shows(f, evs, 0, n) /\ Upto(evs, 0) = f[n]
    BY <1>1, UptoIs
  <1> DEFINE T == { i \in Nat : i <= n => f[i] = Blank }
  <1>3. 0 \in T
    <2>1. 0 \in 0 .. n
      OBVIOUS
    <2>2. f[0] = Blank
      BY <1>2, <2>1, Zenon DEF Shows
    <2> QED
      BY <2>2
  <1>4. ASSUME NEW i \in Nat, i \in T PROVE i + 1 \in T
    <2>1. PICK j \in Nat : j = i + 1
      OBVIOUS
    <2>2. ASSUME j <= n PROVE f[j] = Blank
      <3>1. j \in 1 .. n /\ j - 1 = i /\ evs[j].seq = j /\ ~ (j <= 0) /\ f[i] = Blank
        BY <1>1, <1>4, <2>1, <2>2 DEF Numbered
      <3>2. f[j] = IF evs[j].seq <= 0 THEN Applied(f[j - 1], evs[j]) ELSE f[j - 1]
        BY <1>2, <3>1, ShowsStep
      <3> QED
        BY <3>1, <3>2, Zenon
    <2> QED
      BY <2>1, <2>2
  <1>5. n \in T
    <2> HIDE DEF T
    <2> QED
      BY <1>3, <1>4, NumberInduction
  <1> QED
    BY <1>2, <1>5

(* One more event is shown by applying it.                                 *)
LEMMA UptoNext ==
  ASSUME NEW evs, Numbered(evs), NEW s \in Nat, s + 1 <= Len(evs)
  PROVE  Upto(evs, s + 1) = Applied(Upto(evs, s), evs[s + 1])
  <1>0. PICK n \in Nat : n = Len(evs)
    BY DEF Numbered
  <1>1. PICK t \in Nat : n = Len(evs) /\ t = s + 1
    BY <1>0
  <1>2. PICK f : Shows(f, evs, s, n) /\ Upto(evs, s) = f[n]
    BY <1>1, UptoIs
  <1>3. PICK g : Shows(g, evs, t, n) /\ Upto(evs, t) = g[n]
    BY <1>1, UptoIs
  <1>4. ASSUME NEW i \in 1 .. n
        PROVE  /\ f[i] = IF i <= s THEN Applied(f[i - 1], evs[i]) ELSE f[i - 1]
               /\ g[i] = IF i <= t THEN Applied(g[i - 1], evs[i]) ELSE g[i - 1]
    <2>1. evs[i].seq = i
      BY <1>1 DEF Numbered
    <2>2. /\ f[i] = IF evs[i].seq <= s THEN Applied(f[i - 1], evs[i]) ELSE f[i - 1]
          /\ g[i] = IF evs[i].seq <= t THEN Applied(g[i - 1], evs[i]) ELSE g[i - 1]
      BY <1>2, <1>3, ShowsStep
    <2> QED
      BY <2>1, <2>2, Zenon
  <1> DEFINE T == { i \in Nat : i <= s => f[i] = g[i] }
             U == { i \in Nat : t + i <= n => f[t + i] = f[s] /\ g[t + i] = g[t] }
  <1>5. 0 \in T
    <2>1. 0 \in 0 .. n
      OBVIOUS
    <2>2. f[0] = Blank /\ g[0] = Blank
      BY <1>2, <1>3, <2>1, Zenon DEF Shows
    <2> QED
      BY <2>2
  <1>6. ASSUME NEW i \in Nat, i \in T PROVE i + 1 \in T
    <2>1. PICK j \in Nat : j = i + 1
      OBVIOUS
    <2>2. ASSUME j <= s PROVE f[j] = g[j]
      <3>1. j \in 1 .. n /\ j - 1 = i /\ j <= t /\ f[i] = g[i]
        BY <1>1, <1>6, <2>1, <2>2
      <3> QED
        BY <1>4, <2>2, <3>1, Zenon
    <2> QED
      BY <2>1, <2>2
  <1>7. f[s] = g[s]
    <2>1. s \in T
      <3> HIDE DEF T
      <3> QED
        BY <1>5, <1>6, NumberInduction
    <2> QED
      BY <2>1
  <1>8. f[t] = f[s] /\ g[t] = Applied(g[s], evs[t])
    <2>1. t \in 1 .. n /\ t - 1 = s /\ ~ (t <= s) /\ t <= t
      BY <1>1
    <2> QED
      BY <1>4, <2>1, Zenon
  <1>9. 0 \in U
    <2>1. t + 0 = t
      OBVIOUS
    <2> QED
      BY <1>8, <2>1
  <1>10. ASSUME NEW i \in Nat, i \in U PROVE i + 1 \in U
    <2>1. PICK j \in Nat, k \in Nat : j = t + (i + 1) /\ k = t + i
      OBVIOUS
    <2>2. ASSUME j <= n PROVE f[j] = f[s] /\ g[j] = g[t]
      <3>1. j \in 1 .. n /\ j - 1 = k /\ ~ (j <= t) /\ ~ (j <= s) /\ f[k] = f[s] /\ g[k] = g[t]
        BY <1>1, <1>10, <2>1, <2>2
      <3> QED
        BY <1>4, <3>1, Zenon
    <2> QED
      BY <2>1, <2>2
  <1>11. f[n] = f[s] /\ g[n] = g[t]
    <2>1. PICK k \in Nat : t + k = n
      <3>1. n - t \in Nat /\ t + (n - t) = n
        BY <1>1
      <3> QED
        BY <3>1
    <2>2. k \in U
      <3> HIDE DEF U
      <3> QED
        BY <1>9, <1>10, NumberInduction
    <2>3. t + k <= n
      BY <2>1
    <2> QED
      BY <2>1, <2>2, <2>3
  <1> HIDE DEF T, U
  <1>12. g[n] = Applied(f[n], evs[t])
    BY <1>7, <1>8, <1>11, Zenon
  <1> QED
    BY <1>1, <1>2, <1>3, <1>12, Zenon

-----------------------------------------------------------------------------
(* What a recording shows.                                                 *)

LEMMA FilmNumbered ==
  ASSUME NEW r \in Recordings
  PROVE  Numbered(FilmOf(r))
  <1>1. PICK film0 : film0 = FilmOf(r)
    OBVIOUS
  <1>2. \A i \in DOMAIN film0 : film0[i].seq = i /\ i \in Nat
    BY <1>1, FilmIsNumbered
  <1>3. \E n \in Nat : DOMAIN film0 = 1 .. n /\ film0 = [i \in 1 .. n |-> film0[i]]
    <2>1. PICK evs \in Seq(Frame) :
             FilmOf(r) = [i \in DOMAIN evs |-> [k \in DOMAIN evs[i] \cup {"seq"} |-> IF k = "seq" THEN i ELSE evs[i][k]]]
      BY FilmShape
    <2>2. PICK n \in Nat : DOMAIN evs = 1 .. n
      BY LenProperties
    <2>3. DOMAIN film0 = 1 .. n
      BY <1>1, <2>1, <2>2, Zenon
    <2>4. film0 = [i \in DOMAIN evs |-> film0[i]]
      BY <1>1, <2>1, Zenon
    <2> QED
      BY <2>2, <2>3, <2>4
  <1>4. PICK n \in Nat : DOMAIN film0 = 1 .. n /\ film0 = [i \in 1 .. n |-> film0[i]]
    BY <1>3
  <1>5. PICK S : S = { film0[i] : i \in 1 .. n }
    OBVIOUS
  <1>6. film0 \in [1 .. n -> S]
    BY <1>4, <1>5
  <1>7. film0 \in Seq(S)
    BY <1>6, SeqDef
  <1>8. Len(film0) \in Nat /\ DOMAIN film0 = 1 .. Len(film0)
    BY <1>7, LenProperties
  <1> QED
    BY <1>1, <1>2, <1>8 DEF Numbered

(* The next timer is for the next event.                                   *)
LEMMA ScheduleNext ==
  ASSUME NEW ts, NEW seq \in Nat, Schedule(ts, None, seq), Numbered(film)
  PROVE  last' = None \/ (last' = seq + 1 /\ seq + 1 <= Len(film))
  <1> DEFINE later == { film[i].seq : i \in { j \in DOMAIN film : film[j].seq > seq } }
             next == CHOOSE s \in later : \A t \in later : s <= t
  <1>1. CASE later = {}
    <2>1. last' = None
      BY <1>1, Zenon DEF Schedule
    <2> QED
      BY <2>1
  <1>2. CASE later # {}
    <2>1. later = { i \in DOMAIN film : i > seq }
      BY DEF Numbered
    <2>2. \A s \in later : s \in Nat /\ seq + 1 <= s /\ s <= Len(film)
      BY <2>1 DEF Numbered
    <2>3. seq + 1 \in later
      BY <1>2, <2>1, <2>2 DEF Numbered
    <2>4. next = seq + 1 /\ seq + 1 <= Len(film)
      <3> HIDE DEF later
      <3>1. seq + 1 \in later /\ \A t \in later : seq + 1 <= t
        BY <2>2, <2>3
      <3>2. next \in later /\ \A t \in later : next <= t
        BY <3>1
      <3>3. next <= seq + 1 /\ seq + 1 <= next /\ next \in Nat
        BY <2>2, <2>3, <3>2
      <3> QED
        BY <2>2, <2>3, <3>3
    <2>5. last' = next
      BY <1>2, Zenon DEF Schedule
    <2> QED
      BY <2>4, <2>5
  <1> QED
    BY <1>1, <1>2

(* What is shown is what the events up to the position come to, and the    *)
(* timer that is pending is for the next one.                              *)
Reeled ==
  /\ host = "player" =>
       /\ Numbered(film)
       /\ cinema.cur \in Nat
       /\ last # None => last \in 1 .. Len(film)
       /\ cinema.active /\ ~ astray =>
            /\ cinema.view = Upto(film, cinema.cur)
            /\ cinema.done = Ended(film, cinema.cur)
            /\ last # None => last = cinema.cur + 1

LEMMA EndedNext ==
  ASSUME NEW evs, Numbered(evs), NEW s \in Nat, NEW t, t = s + 1, t <= Len(evs)
  PROVE  Ended(evs, t) <=> Ended(evs, s) \/ evs[t].kind = "ended"
  BY DEF Ended, Numbered

LEMMA PlayerKeepsReeled ==
  ASSUME ChainInv, Reeled, host = "player", host' = host, ReplayNext
  PROVE  Reeled'
  <1>1. /\ Chain /\ DOMAIN cinema = Hook /\ Numbered(film) /\ cinema.cur \in Nat
        /\ \A i \in DOMAIN film : film[i].seq \in Nat
    BY DEF ChainInv, Reel, Reeled
  <1>2. ASSUME LoadReplay PROVE Reeled'
    <2>1. PICK r \in Recordings : film' = FilmOf(r) /\ cinema' = [Active("replay") EXCEPT !.total = Len(film')]
      BY <1>2 DEF LoadReplay
    <2>2. Numbered(film')
      BY <2>1, FilmNumbered
    <2>3. cinema'.cur = 0 /\ cinema'.view = Blank /\ cinema'.done = FALSE
      BY <2>1 DEF Active, Off
    <2>4. last' = None
      BY <1>1, <1>2 DEF LoadReplay, Chain
    <2>5. PICK f : f = film'
      OBVIOUS
    <2>6. Upto(f, 0) = Blank /\ Ended(f, 0) = FALSE
      <3>1. Numbered(f)
        BY <2>2, <2>5
      <3>2. \A i \in DOMAIN f : ~ (f[i].seq <= 0)
        BY <3>1 DEF Numbered
      <3> QED
        BY <3>1, <3>2, UptoNone DEF Ended
    <2>7. cinema'.view = Upto(film', cinema'.cur)
      BY <2>3, <2>5, <2>6, Zenon
    <2>8. cinema'.done = Ended(film', cinema'.cur)
      BY <2>3, <2>5, <2>6, Zenon
    <2>9. cinema'.cur \in Nat /\ host' # "builder"
      BY <2>3
    <2> QED
      BY <2>2, <2>4, <2>7, <2>8, <2>9, Zenon DEF Reeled
  <1>3. ASSUME Pause PROVE Reeled'
    <2>1. last' = None /\ film' = film /\ astray' = astray /\ cinema' = [cinema EXCEPT !.playback = "paused"]
      BY <1>1, <1>3, CancelEnds DEF Pause
    <2>2. /\ cinema'.cur = cinema.cur /\ cinema'.view = cinema.view /\ cinema'.done = cinema.done
          /\ cinema'.active = cinema.active
      BY <1>1, <2>1 DEF Hook
    <2> QED
      BY <2>1, <2>2 DEF Reeled
  <1>4. ASSUME Reset PROVE Reeled'
    <2>1. last' = None /\ film' = film /\ cinema' = Rewound(cinema)
      BY <1>1, <1>4, CancelEnds DEF Reset
    <2>2. cinema'.cur = 0 /\ cinema'.view = Blank /\ cinema'.done = FALSE
      BY <1>1, <2>1 DEF Rewound, Hook
    <2>3. Upto(film, 0) = Blank /\ Ended(film, 0) = FALSE
      <3>1. \A i \in DOMAIN film : ~ (film[i].seq <= 0)
        BY <1>1 DEF Numbered
      <3> QED
        BY <1>1, <3>1, UptoNone DEF Ended
    <2>4. cinema'.view = Upto(film', cinema'.cur)
      BY <2>1, <2>2, <2>3, Zenon
    <2>5. cinema'.done = Ended(film', cinema'.cur)
      BY <2>1, <2>2, <2>3, Zenon
    <2>6. cinema'.cur \in Nat /\ host' # "builder" /\ Numbered(film')
      BY <1>1, <2>1, <2>2
    <2> QED
      BY <2>1, <2>4, <2>5, <2>6, Zenon DEF Reeled
  <1>5. ASSUME Deactivate PROVE Reeled'
    <2>1. film' = << >> /\ cinema' = Off /\ last' = None
      BY <1>1, <1>5, CancelEnds DEF Deactivate
    <2>2. cinema'.cur = 0 /\ cinema'.active = FALSE
      BY <2>1 DEF Off
    <2>3. Numbered(<< >>)
      BY EmptySeq, LenProperties DEF Numbered
    <2> QED
      BY <2>1, <2>2, <2>3 DEF Reeled
  <1>6. ASSUME Play PROVE Reeled'
    <2>1. cinema.active /\ cinema.playback # "playing" /\ cinema' = [cinema EXCEPT !.playback = "playing"]
          /\ film' = film /\ astray' = astray
      BY <1>6 DEF Play
    <2>2. /\ cinema'.cur = cinema.cur /\ cinema'.view = cinema.view /\ cinema'.done = cinema.done
          /\ cinema'.active = cinema.active
      BY <1>1, <2>1 DEF Hook
    <2>3. last = None
      BY <1>1, <2>1 DEF Chain
    <2>4. Schedule(timers, None, cinema.cur)
      BY <1>6, <2>3 DEF Play
    <2>5. PICK at \in Nat : at = cinema.cur
      BY <1>1
    <2>6. last' = None \/ (last' = at + 1 /\ at + 1 <= Len(film))
      BY <1>1, <2>4, <2>5, ScheduleNext
    <2> QED
      BY <1>1, <2>1, <2>2, <2>5, <2>6 DEF Reeled
  <1>7. ASSUME NEW seq, Seek(seq) PROVE Reeled'
    <2>1. /\ film' = film /\ last' = last /\ cinema' = Sought(cinema, seq) /\ seq \in 0 .. cinema.total /\ cinema.active
          /\ astray' = (astray \/ cinema.playback = "playing" \/ cinema.mode = "live")
      BY <1>7 DEF Seek
    <2>2. PICK view, done : view = Upto(film, seq) /\ done = Ended(film, seq)
      OBVIOUS
    <2>3. cinema' = [cinema EXCEPT !.cur = seq, !.view = view, !.done = done]
      BY <2>1, <2>2, Zenon DEF Sought
    <2>4. cinema'.cur = seq /\ cinema'.view = view /\ cinema'.done = done
      BY <1>1, <2>3 DEF Hook
    <2>5. ~ astray' => last = None
      BY <1>1, <2>1 DEF Chain
    <2>6. seq \in Nat
      BY <2>1
    <2> QED
      BY <1>1, <2>1, <2>2, <2>4, <2>5, <2>6 DEF Reeled
  <1>8. ASSUME NEW s, Fire(s) PROVE Reeled'
    <2>1. s = last /\ last # None /\ DOMAIN timers = {s} /\ timers[s] = 1 /\ cinema.active
      <3>1. s \in DOMAIN timers
        BY <1>8 DEF Fire, Pending
      <3> QED
        BY <1>1, <3>1 DEF Chain
    <2>2. PICK e : e = film[CHOOSE i \in DOMAIN film : film[i].seq = s]
      OBVIOUS
    <2>3. cinema' = Processed(cinema, e) /\ film' = film /\ astray' = astray
      BY <1>8, <2>2, Zenon DEF Fire
    <2>4. PICK cur, total, view, done :
            /\ cur = e.seq /\ view = Applied(cinema.view, e)
            /\ done = (cinema.done \/ e.kind = "ended")
            /\ cinema' = [cinema EXCEPT !.cur = cur, !.total = total, !.view = view, !.done = done]
      BY <2>1, <2>3, Zenon DEF Processed
    <2>5. cinema'.cur = cur /\ cinema'.view = view /\ cinema'.done = done /\ cinema'.active = cinema.active
      BY <1>1, <2>4 DEF Hook
    <2>6. PICK rest : rest = Minus(timers, s)
      OBVIOUS
    <2>7. Schedule(rest, None, s) \/ (timers' = rest /\ last' = None)
      BY <1>8, <2>1, <2>6, Zenon DEF Fire
    <2>9. PICK n \in Nat : n = s /\ n \in 1 .. Len(film)
      BY <1>1, <2>1 DEF Reeled, Numbered
    <2>10. e = film[n] /\ cur = n
      <3>1. n \in DOMAIN film /\ film[n].seq = n /\ \A i \in DOMAIN film : film[i].seq = n => i = n
        BY <1>1, <2>9 DEF Numbered
      <3> QED
        BY <2>2, <2>4, <2>9, <3>1
    <2>11. last' = None \/ (last' = n + 1 /\ n + 1 <= Len(film))
      BY <1>1, <2>7, <2>9, ScheduleNext
    <2>8. ASSUME ~ astray
          PROVE  /\ cinema'.view = Upto(film, n)
                 /\ cinema'.done = Ended(film, n)
      <3>1. PICK at \in Nat : at = cinema.cur
        BY <1>1
      <3>2. n = at + 1
        BY <2>1, <2>8, <2>9, <3>1 DEF Reeled
      <3>3. n <= Len(film)
        BY <2>9
      <3>6. view = Upto(film, n)
        <4>1. Upto(film, at + 1) = Applied(Upto(film, at), film[at + 1])
          BY <1>1, <3>2, <3>3, UptoNext
        <4>2. cinema.view = Upto(film, at)
          BY <2>1, <2>8, <3>1 DEF Reeled
        <4> QED
          BY <2>4, <2>10, <3>2, <4>1, <4>2, Zenon
      <3>7. done = Ended(film, n)
        <4>1. Ended(film, n) <=> Ended(film, at) \/ film[n].kind = "ended"
          BY <1>1, <3>2, <3>3, EndedNext
        <4>2. cinema.done = Ended(film, at)
          BY <2>1, <2>8, <3>1 DEF Reeled
        <4>3. Ended(film, n) \in BOOLEAN /\ Ended(film, at) \in BOOLEAN
          BY DEF Ended
        <4> QED
          BY <2>4, <2>10, <4>1, <4>2, <4>3
      <3> QED
        BY <2>5, <3>6, <3>7
    <2> QED
      BY <1>1, <2>3, <2>5, <2>8, <2>9, <2>10, <2>11 DEF Reeled
  <1> QED
    BY <1>2, <1>3, <1>4, <1>5, <1>6, <1>7, <1>8 DEF ReplayNext

-----------------------------------------------------------------------------
(* Events shown as they arrive.                                            *)

Follows(f, c, evs, n) ==
  f = [i \in 0 .. n |-> IF i = 0 THEN c ELSE Processed(f[i - 1], evs[i])]

LEMMA FollowsStep ==
  ASSUME NEW f, NEW c, NEW evs, NEW n \in Nat, Follows(f, c, evs, n)
  PROVE  f[0] = c /\ \A i \in 1 .. n : f[i] = Processed(f[i - 1], evs[i])
  <1>1. f = [j \in 0 .. n |-> IF j = 0 THEN c ELSE Processed(f[j - 1], evs[j])]
    BY DEF Follows
  <1>2. 0 \in 0 .. n /\ \A i \in 1 .. n : i \in 0 .. n /\ i # 0
    OBVIOUS
  <1> QED
    BY <1>1, <1>2, Zenon

LEMMA FollowsExists ==
  ASSUME NEW c, NEW evs, NEW n \in Nat
  PROVE  \E f : Follows(f, c, evs, n)
  <1> DEFINE T == { m \in Nat : \E f : Follows(f, c, evs, m) }
  <1>1. 0 \in T
    <2>1. PICK f : f = [i \in 0 .. 0 |-> c]
      OBVIOUS
    <2>2. f = [i \in 0 .. 0 |-> IF i = 0 THEN c ELSE Processed(f[i - 1], evs[i])]
      BY <2>1
    <2> QED
      BY <2>2 DEF Follows
  <1>2. ASSUME NEW m \in Nat, m \in T PROVE m + 1 \in T
    <2>1. PICK f : Follows(f, c, evs, m)
      BY <1>2
    <2>2. PICK g : g = [i \in 0 .. m + 1 |-> IF i <= m THEN f[i] ELSE Processed(f[i - 1], evs[i])]
      OBVIOUS
    <2>3. DOMAIN g = 0 .. m + 1 /\ g = [i \in 0 .. m + 1 |-> g[i]]
      BY <2>2
    <2>4. ASSUME NEW i \in 0 .. m + 1
          PROVE  g[i] = IF i = 0 THEN c ELSE Processed(g[i - 1], evs[i])
      <3>1. CASE i = 0
        <4>1. g[i] = f[i] /\ f[0] = c
          BY <2>1, <2>2, <3>1, FollowsStep
        <4> QED
          BY <3>1, <4>1
      <3>2. CASE i # 0 /\ i <= m
        <4>1. g[i] = f[i] /\ g[i - 1] = f[i - 1] /\ i \in 1 .. m
          BY <2>2, <3>2
        <4>2. f[i] = Processed(f[i - 1], evs[i])
          BY <2>1, <4>1, FollowsStep
        <4> QED
          BY <3>2, <4>1, <4>2, Zenon
      <3>3. CASE i = m + 1
        <4>1. g[i - 1] = f[i - 1] /\ ~ (i <= m) /\ i # 0
          BY <2>2, <3>3
        <4>2. g[i] = Processed(f[i - 1], evs[i])
          BY <2>2, <4>1, Zenon
        <4> QED
          BY <4>1, <4>2, Zenon
      <3> QED
        BY <3>1, <3>2, <3>3
    <2>5. Follows(g, c, evs, m + 1)
      BY <2>3, <2>4, Zenon DEF Follows
    <2> QED
      BY <2>5
  <1> HIDE DEF T
  <1>3. n \in T
    BY <1>1, <1>2, NumberInduction
  <1> QED
    BY <1>3 DEF T

LEMMA AllProcessedIs ==
  ASSUME NEW c, NEW evs, Len(evs) \in Nat
  PROVE  \E f : /\ f[0] = c
                /\ \A i \in 1 .. Len(evs) : f[i] = Processed(f[i - 1], evs[i])
                /\ AllProcessed(c, evs) = f[Len(evs)]
  <1> DEFINE f == CHOOSE f : Follows(f, c, evs, Len(evs))
  <1>1. Follows(f, c, evs, Len(evs))
    BY FollowsExists
  <1>2. AllProcessed(c, evs) = f[Len(evs)]
    BY DEF AllProcessed, Follows
  <1> HIDE DEF f
  <1>3. f[0] = c /\ \A i \in 1 .. Len(evs) : f[i] = Processed(f[i - 1], evs[i])
    BY <1>1, FollowsStep
  <1> QED
    BY <1>2, <1>3

LEMMA ProcessedFields ==
  ASSUME NEW c, DOMAIN c = Hook, NEW e, NEW new, new = Processed(c, e)
  PROVE  /\ DOMAIN new = Hook /\ new.active = c.active /\ new.mode = c.mode
         /\ c.active => /\ new.view = Applied(c.view, e)
                        /\ new.done = (c.done \/ e.kind = "ended")
  <1>1. CASE ~ c.active
    BY <1>1 DEF Processed
  <1>2. CASE c.active
    <2>1. PICK cur, total, view, done :
            /\ view = Applied(c.view, e) /\ done = (c.done \/ e.kind = "ended")
            /\ new = [c EXCEPT !.cur = cur, !.total = total, !.view = view, !.done = done]
      BY <1>2, Zenon DEF Processed
    <2> QED
      BY <2>1 DEF Hook
  <1> QED
    BY <1>1, <1>2

(* Whatever arrives, the mode stays as it is.                              *)
LEMMA AllProcessedStays ==
  ASSUME NEW c, DOMAIN c = Hook, NEW evs, Len(evs) \in Nat, NEW new, new = AllProcessed(c, evs)
  PROVE  DOMAIN new = Hook /\ new.active = c.active /\ new.mode = c.mode
  <1>1. PICK n \in Nat : n = Len(evs)
    OBVIOUS
  <1>2. PICK f : f[0] = c /\ (\A i \in 1 .. n : f[i] = Processed(f[i - 1], evs[i])) /\ new = f[n]
    BY <1>1, AllProcessedIs
  <1> DEFINE T == { i \in Nat : i <= n => DOMAIN f[i] = Hook /\ f[i].active = c.active /\ f[i].mode = c.mode }
  <1>3. 0 \in T
    BY <1>2
  <1>4. ASSUME NEW i \in Nat, i \in T PROVE i + 1 \in T
    <2>1. PICK j \in Nat : j = i + 1
      OBVIOUS
    <2>2. ASSUME j <= n PROVE DOMAIN f[j] = Hook /\ f[j].active = c.active /\ f[j].mode = c.mode
      <3>1. j \in 1 .. n /\ j - 1 = i /\ i <= n
        BY <2>1, <2>2
      <3>2. f[j] = Processed(f[i], evs[j])
        BY <1>2, <3>1, Zenon
      <3>3. PICK a, b : a = f[i] /\ b = f[j]
        OBVIOUS
      <3>4. DOMAIN a = Hook /\ a.active = c.active /\ a.mode = c.mode
        BY <1>4, <3>1, <3>3
      <3>5. b = Processed(a, evs[j])
        BY <3>2, <3>3
      <3>6. DOMAIN b = Hook /\ b.active = a.active /\ b.mode = a.mode
        BY <3>4, <3>5, ProcessedFields
      <3> QED
        BY <3>3, <3>4, <3>6
    <2> QED
      BY <2>1, <2>2
  <1>5. n \in T
    <2> HIDE DEF T
    <2> QED
      BY <1>3, <1>4, NumberInduction
  <1> QED
    BY <1>2, <1>5

-----------------------------------------------------------------------------
(* What the status of a step has come to after n events.                   *)

Kinds == {"started", "asserted", "extracted", "completed", "ended"}

WellMade(e) ==
  /\ e.kind \in Kinds
  /\ e.kind # "ended" => e.step \in Steps
  /\ e.kind = "completed" => e.status \in Statuses

Matters(e, i) == e.kind \in {"started", "completed"} /\ e.step = i

Sets(e) == IF e.kind = "started" THEN "running" ELSE e.status

(* The last of them that set it did so, or none has.                       *)
Came(evs, i, n, s) ==
  \/ s = "waiting" /\ \A j \in 1 .. n : ~ Matters(evs[j], i)
  \/ \E j \in 1 .. n : /\ Matters(evs[j], i) /\ s = Sets(evs[j])
                       /\ \A k \in j + 1 .. n : ~ Matters(evs[k], i)

LEMMA CameFirst ==
  ASSUME NEW evs, NEW i
  PROVE  Came(evs, i, 0, "waiting")
  BY DEF Came

LEMMA CameNext ==
  ASSUME NEW evs, NEW i, NEW n \in Nat, NEW s, NEW t, NEW m, m = n + 1,
         IF Matters(evs[m], i) THEN t = Sets(evs[m]) ELSE t = s /\ Came(evs, i, n, s)
  PROVE  Came(evs, i, m, t)
  <1>1. CASE Matters(evs[m], i)
    <2>1. m \in 1 .. m /\ \A k \in m + 1 .. m : FALSE
      OBVIOUS
    <2> QED
      BY <1>1, <2>1 DEF Came
  <1>2. CASE ~ Matters(evs[m], i)
    <2>1. t = s /\ Came(evs, i, n, s)
      BY <1>2
    <2>2. 1 .. n \subseteq 1 .. m /\ \A k \in 1 .. m : k = m \/ k \in 1 .. n
      OBVIOUS
    <2>3. CASE s = "waiting" /\ \A j \in 1 .. n : ~ Matters(evs[j], i)
      BY <1>2, <2>1, <2>2, <2>3 DEF Came
    <2>4. ASSUME NEW j \in 1 .. n, Matters(evs[j], i), s = Sets(evs[j]), \A k \in j + 1 .. n : ~ Matters(evs[k], i)
          PROVE  Came(evs, i, m, t)
      <3>1. \A k \in j + 1 .. m : k = m \/ k \in j + 1 .. n
        OBVIOUS
      <3>2. \A k \in j + 1 .. m : ~ Matters(evs[k], i)
        BY <1>2, <2>4, <3>1
      <3> QED
        BY <2>1, <2>2, <2>4, <3>2 DEF Came
    <2> QED
      BY <2>1, <2>3, <2>4 DEF Came
  <1> QED
    BY <1>1, <1>2

Shapes == [status : {"waiting", "running"} \cup Statuses, checks : Nat, extracts : Nat]
Views == [Steps -> Shapes]

LEMMA BlankView ==
  /\ Blank \in Views
  /\ \A i \in Steps : Blank[i].status = "waiting"
  BY DEF Blank, Views, Shapes

(* An event sets the status of its step, if it sets one.                   *)
LEMMA AppliedIs ==
  ASSUME NEW view \in Views, NEW e, WellMade(e), NEW new, new = Applied(view, e)
  PROVE  /\ new \in Views
         /\ \A i \in Steps : new[i].status = IF Matters(e, i) THEN Sets(e) ELSE view[i].status
  <1>1. CASE e.kind = "ended"
    BY <1>1 DEF Applied, Matters
  <1>2. CASE e.kind # "ended"
    <2>1. PICK s \in Steps : s = e.step
      BY <1>2 DEF WellMade
    <2>2. PICK old \in Shapes : old = view[s]
      BY DEF Views
    <2>3. PICK status, checks, extracts :
            /\ status = IF e.kind = "started" THEN "running" ELSE IF e.kind = "completed" THEN e.status ELSE old.status
            /\ checks = IF e.kind = "asserted" THEN old.checks + 1 ELSE old.checks
            /\ extracts = IF e.kind = "extracted" THEN old.extracts + 1 ELSE old.extracts
      OBVIOUS
    <2>4. PICK cell : cell = [status |-> status, checks |-> checks, extracts |-> extracts]
      OBVIOUS
    <2>5. new = [view EXCEPT ![s] = cell]
      BY <1>2, <2>1, <2>2, <2>3, <2>4 DEF Applied
    <2>6. status \in {"waiting", "running"} \cup Statuses
      BY <2>2, <2>3 DEF WellMade, Shapes
    <2>7. checks \in Nat /\ extracts \in Nat
      BY <2>2, <2>3 DEF Shapes
    <2>8. cell \in Shapes
      BY <2>4, <2>6, <2>7 DEF Shapes
    <2>9. new \in Views /\ \A i \in Steps : new[i] = IF i = s THEN cell ELSE view[i]
      BY <2>5, <2>8 DEF Views
    <2>10. cell.status = IF Matters(e, s) THEN Sets(e) ELSE old.status
      BY <2>1, <2>3, <2>4 DEF Matters, Sets
    <2>11. \A i \in Steps : i # s => ~ Matters(e, i)
      BY <2>1 DEF Matters
    <2> QED
      BY <2>2, <2>9, <2>10, <2>11
  <1> QED
    BY <1>1, <1>2

(* One event says of kind, step and status what another does.              *)
Alike(e, d) ==
  /\ e.kind = d.kind
  /\ e.kind # "ended" => e.step = d.step
  /\ e.kind = "completed" => e.status = d.status

LEMMA AlikeSame ==
  ASSUME NEW e, NEW d, Alike(e, d)
  PROVE  /\ \A i : Matters(e, i) = Matters(d, i)
         /\ \A i : Matters(e, i) => Sets(e) = Sets(d)
         /\ WellMade(d) => WellMade(e)
  BY DEF Alike, Matters, Sets, WellMade

(* A view after p events, shown the next ones, is the view after them all. *)
LEMMA Catches ==
  ASSUME NEW c, DOMAIN c = Hook, c.active, c.view \in Views,
         NEW evs, \A j \in 1 .. Len(evs) : WellMade(evs[j]), Len(evs) \in Nat,
         NEW p \in Nat, \A i \in Steps : Came(evs, i, p, c.view[i].status),
         NEW s, Len(s) \in Nat, p + Len(s) <= Len(evs),
         \A j \in 1 .. Len(s) : Alike(s[j], evs[p + j]),
         NEW new, new = AllProcessed(c, s)
  PROVE  /\ new.view \in Views
         /\ \A i \in Steps : Came(evs, i, p + Len(s), new.view[i].status)
         /\ c.done => new.done
         /\ \A j \in 1 .. Len(s) : evs[p + j].kind = "ended" => new.done
  <1>1. PICK n \in Nat : n = Len(s)
    OBVIOUS
  <1>2. PICK f : f[0] = c /\ (\A i \in 1 .. n : f[i] = Processed(f[i - 1], s[i])) /\ new = f[n]
    <2>1. \E f : /\ f[0] = c
                 /\ \A i \in 1 .. Len(s) : f[i] = Processed(f[i - 1], s[i])
                 /\ AllProcessed(c, s) = f[Len(s)]
      BY AllProcessedIs
    <2> QED
      BY <1>1, <2>1, Zenon
  <1> DEFINE Good(m) ==
               /\ DOMAIN f[m] = Hook /\ f[m].active /\ f[m].view \in Views
               /\ \A i \in Steps : Came(evs, i, p + m, f[m].view[i].status)
               /\ c.done => f[m].done
               /\ \A j \in 1 .. m : evs[p + j].kind = "ended" => f[m].done
             T == { m \in Nat : m <= n => Good(m) }
  <1>3. 0 \in T
    <2>1. p + 0 = p /\ \A j \in 1 .. 0 : FALSE
      OBVIOUS
    <2>2. \A i \in Steps : Came(evs, i, p + 0, f[0].view[i].status)
      BY <1>2, <2>1
    <2> QED
      BY <1>2, <2>1, <2>2
  <1>4. ASSUME NEW m \in Nat, m \in T PROVE m + 1 \in T
    <2>1. PICK k \in Nat : k = m + 1
      OBVIOUS
    <2>2. ASSUME k <= n PROVE Good(k)
      <3>1. k \in 1 .. n /\ k - 1 = m /\ m <= n
        BY <2>1, <2>2
      <3>2. Good(m)
        BY <1>4, <3>1
      <3>3. PICK a, b, e, d : a = f[m] /\ b = f[k] /\ e = s[k] /\ d = evs[p + k]
        OBVIOUS
      <3>4. b = Processed(a, e)
        BY <1>2, <3>1, <3>3, Zenon
      <3>5. DOMAIN a = Hook /\ a.active /\ a.view \in Views
        BY <3>2, <3>3
      <3>6. DOMAIN b = Hook /\ b.active /\ b.view = Applied(a.view, e) /\ b.done = (a.done \/ e.kind = "ended")
        BY <3>4, <3>5, ProcessedFields
      <3>7. Alike(e, d) /\ WellMade(d)
        <4>1. p + k \in 1 .. Len(evs)
          BY <1>1, <3>1
        <4> QED
          BY <1>1, <3>1, <3>3, <4>1
      <3>8. WellMade(e)
        BY <3>7, AlikeSame
      <3>9. b.view \in Views /\ \A i \in Steps : b.view[i].status = IF Matters(e, i) THEN Sets(e) ELSE a.view[i].status
        <4>0. PICK view \in Views : view = a.view
          BY <3>5
        <4>1. PICK next : view = a.view /\ next = b.view
          BY <4>0
        <4>2. next = Applied(view, e)
          BY <3>6, <4>1
        <4>3. next \in Views /\ \A i \in Steps : next[i].status = IF Matters(e, i) THEN Sets(e) ELSE view[i].status
          BY <3>8, <4>2, AppliedIs
        <4> QED
          BY <4>1, <4>3
      <3>10. ASSUME NEW i \in Steps PROVE Came(evs, i, p + k, b.view[i].status)
        <4>1. PICK at \in Nat, to \in Nat : at = p + m /\ to = p + k
          OBVIOUS
        <4>2. to = at + 1 /\ d = evs[to]
          BY <2>1, <3>3, <4>1
        <4>3. PICK was, is : was = a.view[i].status /\ is = b.view[i].status
          OBVIOUS
        <4>4. Came(evs, i, at, was)
          BY <3>2, <3>3, <4>1, <4>3
        <4>5. is = IF Matters(e, i) THEN Sets(e) ELSE was
          BY <3>9, <4>3
        <4>6. IF Matters(evs[to], i) THEN is = Sets(evs[to]) ELSE is = was /\ Came(evs, i, at, was)
          BY <3>7, <4>2, <4>4, <4>5, AlikeSame
        <4>7. Came(evs, i, to, is)
          BY <4>2, <4>6, CameNext
        <4> QED
          BY <4>1, <4>3, <4>7
      <3>11. (c.done => b.done) /\ \A j \in 1 .. k : evs[p + j].kind = "ended" => b.done
        <4>1. \A j \in 1 .. k : j = k \/ j \in 1 .. m
          BY <2>1
        <4>2. evs[p + k].kind = "ended" => e.kind = "ended"
          BY <3>3, <3>7 DEF Alike
        <4>3. (c.done => a.done) /\ \A j \in 1 .. m : evs[p + j].kind = "ended" => a.done
          BY <3>2, <3>3
        <4> QED
          BY <3>6, <4>1, <4>2, <4>3
      <3> QED
        BY <3>3, <3>6, <3>9, <3>10, <3>11
    <2> HIDE DEF Good
    <2> QED
      BY <2>1, <2>2
  <1>5. n \in T
    <2> HIDE DEF T
    <2> QED
      BY <1>3, <1>4, NumberInduction
  <1>6. Good(n)
    <2> HIDE DEF Good
    <2>1. n <= n
      OBVIOUS
    <2> QED
      BY <1>5, <2>1
  <1> QED
    BY <1>1, <1>2, <1>6

(* Dropping those of the first places leaves the others in their order.    *)
LEMMA FilterTail ==
  ASSUME NEW S, NEW s \in Seq(S), NEW keep, NEW p \in 0 .. Len(s),
         \A i \in 1 .. Len(s) : s[i] \in keep <=> i > p
  PROVE  /\ Len(Filter(s, keep)) = Len(s) - p
         /\ \A i \in 1 .. Len(s) - p : Filter(s, keep)[i] = s[p + i]
  <1>1. PICK n \in Nat : n = Len(s) /\ (\A i \in 1 .. n : s[i] \in S) /\ p \in Nat /\ p <= n
    BY LenProperties, ElementOfSeq
  <1>2. PICK f : Filters(f, s, keep, n) /\ Filter(s, keep) = f[n]
    BY <1>1, FilterIs
  <1> DEFINE T == { i \in Nat : i <= p => f[i] = << >> }
             Good(k) == f[p + k] \in Seq(S) /\ Len(f[p + k]) = k /\ \A i \in 1 .. k : f[p + k][i] = s[p + i]
             U == { k \in Nat : p + k <= n => Good(k) }
  <1>3. 0 \in T
    <2>1. 0 \in 0 .. n
      OBVIOUS
    <2>2. f[0] = << >>
      BY <1>2, <2>1, Zenon DEF Filters
    <2> QED
      BY <2>2
  <1>4. ASSUME NEW i \in Nat, i \in T PROVE i + 1 \in T
    <2>1. PICK j \in Nat : j = i + 1
      OBVIOUS
    <2>2. ASSUME j <= p PROVE f[j] = << >>
      <3>1. j \in 1 .. n /\ j - 1 = i /\ ~ (j > p) /\ f[i] = << >>
        BY <1>1, <1>4, <2>1, <2>2
      <3>2. s[j] \notin keep
        BY <1>1, <3>1
      <3>3. f[j] = IF s[j] \in keep THEN Append(f[j - 1], s[j]) ELSE f[j - 1]
        BY <1>2, <3>1, FiltersStep
      <3> QED
        BY <3>1, <3>2, <3>3, Zenon
    <2> QED
      BY <2>1, <2>2
  <1>5. f[p] = << >>
    <2>1. p \in T
      <3> HIDE DEF T
      <3> QED
        BY <1>1, <1>3, <1>4, NumberInduction
    <2> QED
      BY <1>1, <2>1
  <1>6. 0 \in U
    <2>1. p + 0 = p
      BY <1>1
    <2>2. f[p + 0] = << >>
      BY <1>5, <2>1
    <2>3. << >> \in Seq(S) /\ Len(<< >>) = 0
      BY EmptySeq
    <2>4. \A i \in 1 .. 0 : FALSE
      OBVIOUS
    <2>5. Good(0)
      BY <2>2, <2>3, <2>4
    <2> HIDE DEF Good
    <2> QED
      BY <2>5
  <1>7. ASSUME NEW k \in Nat, k \in U PROVE k + 1 \in U
    <2>1. PICK j \in Nat : j = k + 1
      OBVIOUS
    <2>2. ASSUME p + j <= n PROVE Good(j)
      <3>1. PICK at \in Nat, to \in Nat : at = p + k /\ to = p + j
        BY <1>1
      <3>2. to \in 1 .. n /\ to - 1 = at /\ to > p /\ p + k <= n
        BY <1>1, <2>1, <2>2, <3>1
      <3>3. Good(k)
        BY <1>7, <3>2
      <3>4. s[to] \in keep /\ s[to] \in S
        BY <1>1, <3>2
      <3>5. f[to] = IF s[to] \in keep THEN Append(f[to - 1], s[to]) ELSE f[to - 1]
        BY <1>2, <3>2, FiltersStep
      <3>6. PICK a \in Seq(S), e \in S : a = f[at] /\ e = s[to]
        BY <3>1, <3>3, <3>4
      <3>7. f[to] = Append(a, e)
        BY <3>2, <3>4, <3>5, <3>6, Zenon
      <3>8. Len(a) = k /\ \A i \in 1 .. k : a[i] = s[p + i]
        BY <3>1, <3>3, <3>6
      <3>9. PICK b : b = f[to] /\ b = Append(a, e)
        BY <3>7
      <3>10. b \in Seq(S) /\ Len(b) = j /\ (\A i \in 1 .. k : b[i] = a[i]) /\ b[j] = e
        BY <2>1, <3>8, <3>9, AppendProperties
      <3>11. \A i \in 1 .. j : b[i] = s[p + i]
        <4>1. \A i \in 1 .. j : i = j \/ i \in 1 .. k
          BY <2>1
        <4>2. b[j] = s[p + j]
          BY <3>1, <3>6, <3>10
        <4> QED
          BY <3>8, <3>10, <4>1, <4>2
      <3> QED
        BY <3>1, <3>9, <3>10, <3>11
    <2> HIDE DEF Good
    <2> QED
      BY <2>1, <2>2
  <1>8. PICK m \in Nat : p + m = n /\ m = n - p
    <2>1. n - p \in Nat /\ p + (n - p) = n
      BY <1>1
    <2> QED
      BY <2>1
  <1>9. Good(m)
    <2>1. m \in U
      <3> HIDE DEF U
      <3> QED
        BY <1>6, <1>7, NumberInduction
    <2>2. p + m <= n
      BY <1>8
    <2> HIDE DEF Good
    <2> QED
      BY <2>1, <2>2
  <1> QED
    BY <1>1, <1>2, <1>8, <1>9

-----------------------------------------------------------------------------
(* How far a viewer of the events `evs', of which `log' are out, has come: *)
(* its view, whether it knows of the end, its subscription s, and the      *)
(* numbers it saw.  What was buffered is shown at once, and what was       *)
(* emitted meanwhile is delivered again.                                   *)
Follow(evs, log, view, done, s, saw) ==
  /\ view \in Views
  /\ \A j \in saw : evs[j].kind = "ended" => done
  /\ s.state # "open" =>
       \E p \in 0 .. log : saw = 1 .. p /\ \A i \in Steps : Came(evs, i, p, view[i].status)
  /\ s.state = "open" =>
       /\ saw = 1 .. (IF s.upto < s.buffered THEN s.buffered ELSE s.upto)
       /\ \A i \in Steps : \/ Came(evs, i, s.upto, view[i].status)
                           \/ s.upto < s.buffered /\ Came(evs, i, s.buffered, view[i].status)

LEMMA FollowGrows ==
  ASSUME NEW evs, NEW log \in Nat, NEW view, NEW done, NEW s, NEW saw, Follow(evs, log, view, done, s, saw),
         NEW more \in Nat, log <= more
  PROVE  Follow(evs, more, view, done, s, saw)
  <1>1. 0 .. log \subseteq 0 .. more
    OBVIOUS
  <1> QED
    BY <1>1 DEF Follow

LEMMA FollowStart ==
  ASSUME NEW evs, NEW log \in Nat, NEW done, NEW s, s.state = "closed"
  PROVE  Follow(evs, log, Blank, done, s, {})
  <1>1. 0 \in 0 .. log /\ {} = 1 .. 0
    OBVIOUS
  <1>2. \A i \in Steps : Came(evs, i, 0, Blank[i].status)
    BY CameFirst, BlankView
  <1> QED
    BY <1>1, <1>2, BlankView DEF Follow

LEMMA FollowConnect ==
  ASSUME NEW evs, NEW log, NEW view, NEW done, NEW s, NEW saw, Follow(evs, log, view, done, s, saw),
         s.state # "open", NEW t, t.state # "open"
  PROVE  Follow(evs, log, view, done, t, saw)
  BY DEF Follow

LEMMA FollowDrop ==
  ASSUME NEW evs, NEW log \in Nat, NEW view, NEW done, NEW s, NEW saw, Follow(evs, log, view, done, s, saw),
         s.upto \in 0 .. log, s.buffered \in Nat, ~ (s.upto < s.buffered), NEW t, t.state # "open"
  PROVE  Follow(evs, log, view, done, t, saw)
  <1>1. CASE s.state # "open"
    BY <1>1, FollowConnect
  <1>2. CASE s.state = "open"
    <2>1. saw = 1 .. s.upto /\ \A i \in Steps : Came(evs, i, s.upto, view[i].status)
      BY <1>2 DEF Follow
    <2> QED
      BY <2>1 DEF Follow
  <1> QED
    BY <1>1, <1>2

(* The buffered events that were not seen bring the view up to date.       *)
LEMMA FollowOpen ==
  ASSUME NEW evs, \A j \in 1 .. Len(evs) : WellMade(evs[j]), Len(evs) \in Nat,
         NEW log \in 0 .. Len(evs), NEW c, DOMAIN c = Hook, c.active,
         NEW s, s.state # "open", NEW saw, Follow(evs, log, c.view, c.done, s, saw),
         NEW told, Len(told) = log, NEW S, told \in Seq(S),
         \A j \in 1 .. log : Alike(told[j], evs[j]) /\ told[j].seq = j,
         NEW keep, \A j \in 1 .. log : told[j] \in keep <=> told[j].seq \notin saw,
         NEW new, new = AllProcessed(c, Filter(told, keep)),
         NEW t, t.state = "open", t.buffered = log, t.upto \in 0 .. log
  PROVE  Follow(evs, log, new.view, new.done, t, saw \cup 1 .. log)
  <1>1. PICK p \in 0 .. log : saw = 1 .. p /\ \A i \in Steps : Came(evs, i, p, c.view[i].status)
    BY DEF Follow
  <1>2. \A j \in 1 .. Len(told) : told[j] \in keep <=> j > p
    BY <1>1
  <1>3. PICK rest : rest = Filter(told, keep)
    OBVIOUS
  <1>4. Len(rest) = log - p /\ \A i \in 1 .. log - p : rest[i] = told[p + i]
    <2>1. p \in 0 .. Len(told)
      OBVIOUS
    <2>2. /\ Len(Filter(told, keep)) = Len(told) - p
          /\ \A i \in 1 .. Len(told) - p : Filter(told, keep)[i] = told[p + i]
      BY <1>2, <2>1, FilterTail
    <2> QED
      BY <1>3, <2>2
  <1>5. PICK n \in Nat : n = Len(rest) /\ p + n = log /\ p \in Nat /\ p + n <= Len(evs)
    <2>1. log - p \in Nat /\ p + (log - p) = log
      OBVIOUS
    <2> QED
      BY <1>4, <2>1
  <1>6. \A j \in 1 .. n : Alike(rest[j], evs[p + j])
    <2> SUFFICES ASSUME NEW j \in 1 .. n PROVE Alike(rest[j], evs[p + j])
      OBVIOUS
    <2>1. PICK k \in 1 .. log : k = p + j
      BY <1>5
    <2>2. rest[j] = told[k]
      BY <1>4, <1>5, <2>1
    <2> QED
      BY <2>1, <2>2
  <1>7. c.view \in Views
    BY DEF Follow
  <1>8. new = AllProcessed(c, rest)
    BY <1>3
  <1>9. /\ new.view \in Views
        /\ \A i \in Steps : Came(evs, i, p + Len(rest), new.view[i].status)
        /\ c.done => new.done
        /\ \A j \in 1 .. Len(rest) : evs[p + j].kind = "ended" => new.done
    <2>1. \A j \in 1 .. Len(rest) : Alike(rest[j], evs[p + j])
      BY <1>5, <1>6
    <2>2. Len(rest) \in Nat /\ p + Len(rest) <= Len(evs) /\ p \in Nat
      BY <1>5
    <2>3. \A i \in Steps : Came(evs, i, p, c.view[i].status)
      BY <1>1
    <2> QED
      BY <1>7, <1>8, <2>1, <2>2, <2>3, Catches, ZenonT(60)
  <1>10. \A i \in Steps : Came(evs, i, log, new.view[i].status)
    BY <1>5, <1>9
  <1>11. \A j \in 1 .. log : evs[j].kind = "ended" => new.done
    <2> SUFFICES ASSUME NEW j \in 1 .. log, evs[j].kind = "ended" PROVE new.done
      OBVIOUS
    <2>1. CASE j <= p
      <3>1. j \in saw
        BY <1>1, <2>1
      <3>2. c.done
        BY <3>1 DEF Follow
      <3> QED
        BY <1>9, <3>2
    <2>2. CASE j > p
      <3>1. PICK k \in 1 .. n : j = p + k
        <4>1. j - p \in 1 .. n /\ j = p + (j - p)
          BY <1>5, <2>2
        <4> QED
          BY <4>1
      <3> QED
        BY <1>5, <1>9, <3>1
    <2> QED
      BY <2>1, <2>2
  <1>12. saw \cup 1 .. log = 1 .. log
    BY <1>1
  <1>13. \/ t.upto < t.buffered
         \/ t.upto = log
    OBVIOUS
  <1>14. (IF t.upto < t.buffered THEN t.buffered ELSE t.upto) = log
    BY <1>13
  <1> QED
    BY <1>9, <1>10, <1>11, <1>12, <1>13, <1>14 DEF Follow

(* An event delivered brings the view on, or says what is buffered again.  *)
LEMMA FollowDeliver ==
  ASSUME NEW evs, \A j \in 1 .. Len(evs) : WellMade(evs[j]), Len(evs) \in Nat,
         NEW log \in 0 .. Len(evs), NEW c, DOMAIN c = Hook, c.active,
         NEW s, s.state = "open", s.upto \in Nat, s.buffered \in 0 .. log,
         NEW n \in Nat, n = s.upto + 1, n <= log,
         NEW saw, Follow(evs, log, c.view, c.done, s, saw),
         NEW e, Alike(e, evs[n]), NEW new, new = Processed(c, e),
         NEW t, t.state = "open", t.buffered = s.buffered, t.upto = n
  PROVE  Follow(evs, log, new.view, new.done, t, saw \cup {n})
  <1>1. WellMade(evs[n])
    OBVIOUS
  <1>2. PICK view \in Views : view = c.view
    BY DEF Follow
  <1>3. new.view = Applied(view, e) /\ new.done = (c.done \/ e.kind = "ended")
    BY <1>2, ProcessedFields
  <1>4. PICK next : next = new.view
    OBVIOUS
  <1>5. next \in Views /\ \A i \in Steps : next[i].status = IF Matters(e, i) THEN Sets(e) ELSE view[i].status
    <2>1. WellMade(e)
      BY <1>1, AlikeSame
    <2>2. next = Applied(view, e)
      BY <1>3, <1>4
    <2> QED
      BY <2>1, <2>2, AppliedIs
  <1>6. PICK at \in Nat, b \in Nat : at = s.upto /\ b = s.buffered
    OBVIOUS
  <1>7. saw = 1 .. (IF at < b THEN b ELSE at)
    BY <1>6 DEF Follow
  <1>8. saw \cup {n} = 1 .. (IF n < b THEN b ELSE n)
    <2>1. CASE at < b
      <3>1. saw = 1 .. b /\ n \in 1 .. b /\ (IF n < b THEN b ELSE n) = b
        BY <1>6, <1>7, <2>1
      <3> QED
        BY <3>1
    <2>2. CASE ~ (at < b)
      <3>1. saw = 1 .. at /\ n = at + 1 /\ (IF n < b THEN b ELSE n) = n
        BY <1>6, <1>7, <2>2
      <3> QED
        BY <3>1
    <2> QED
      BY <2>1, <2>2
  <1>9. ASSUME NEW i \in Steps
        PROVE  Came(evs, i, n, next[i].status) \/ (n < b /\ Came(evs, i, b, next[i].status))
    <2>1. PICK was, is : was = view[i].status /\ is = next[i].status
      OBVIOUS
    <2>2. is = IF Matters(e, i) THEN Sets(e) ELSE was
      BY <1>5, <2>1
    <2>3. Came(evs, i, at, was) \/ (at < b /\ Came(evs, i, b, was))
      BY <1>2, <1>6, <2>1 DEF Follow
    <2>4. CASE Matters(e, i) \/ Came(evs, i, at, was)
      <3>1. IF Matters(evs[n], i) THEN is = Sets(evs[n]) ELSE is = was /\ Came(evs, i, at, was)
        BY <2>2, <2>4, AlikeSame
      <3>2. n = at + 1
        BY <1>6
      <3> QED
        BY <2>1, <3>1, <3>2, CameNext
    <2>5. CASE ~ Matters(e, i) /\ at < b /\ Came(evs, i, b, was)
      <3>1. is = was /\ (n = b \/ n < b)
        BY <1>6, <2>2, <2>5
      <3> QED
        BY <2>1, <2>5, <3>1
    <2> QED
      BY <2>3, <2>4, <2>5
  <1>10. \A j \in saw \cup {n} : evs[j].kind = "ended" => new.done
    <2>1. \A j \in saw : evs[j].kind = "ended" => c.done
      BY DEF Follow
    <2>2. evs[n].kind = "ended" => e.kind = "ended"
      BY DEF Alike
    <2> QED
      BY <1>3, <2>1, <2>2
  <1> QED
    BY <1>4, <1>5, <1>6, <1>8, <1>9, <1>10 DEF Follow

(* All delivered, the view says what each step came to.                    *)
LEMMA FollowSettles ==
  ASSUME NEW evs, Len(evs) \in Nat, NEW view, NEW done, NEW s, NEW saw,
         Follow(evs, Len(evs), view, done, s, saw),
         s.state = "open", s.upto = Len(evs), s.buffered \in 0 .. Len(evs),
         \A i, j \in 1 .. Len(evs) :
           i < j /\ evs[i].kind = "completed" /\ evs[j].kind \in {"started", "completed"} => evs[i].step # evs[j].step
  PROVE  /\ \A j \in 1 .. Len(evs) : evs[j].kind = "ended" => done
         /\ \A j \in 1 .. Len(evs) : evs[j].kind = "completed" /\ evs[j].step \in Steps
              => view[evs[j].step].status = evs[j].status
  <1>1. PICK n \in Nat : n = Len(evs)
    OBVIOUS
  <1>2. saw = 1 .. n /\ \A i \in Steps : Came(evs, i, n, view[i].status)
    <2>1. ~ (s.upto < s.buffered)
      BY <1>1
    <2> QED
      BY <1>1, <2>1 DEF Follow
  <1>3. \A j \in 1 .. n : evs[j].kind = "ended" => done
    BY <1>2 DEF Follow
  <1>4. ASSUME NEW j \in 1 .. n, evs[j].kind = "completed", evs[j].step \in Steps
        PROVE  view[evs[j].step].status = evs[j].status
    <2>1. PICK i \in Steps : i = evs[j].step
      BY <1>4
    <2>2. PICK is : is = view[i].status
      OBVIOUS
    <2>3. Came(evs, i, n, is)
      BY <1>2, <2>2
    <2>4. Matters(evs[j], i) /\ Sets(evs[j]) = evs[j].status
      BY <1>4, <2>1 DEF Matters, Sets
    <2>5. PICK k \in 1 .. n : Matters(evs[k], i) /\ is = Sets(evs[k]) /\ \A l \in k + 1 .. n : ~ Matters(evs[l], i)
      BY <2>3, <2>4 DEF Came
    <2>6. ~ (k < j)
      <3>1. k < j => j \in k + 1 .. n
        OBVIOUS
      <3> QED
        BY <2>4, <2>5, <3>1
    <2>7. ~ (j < k)
      BY <1>1, <1>4, <2>1, <2>5 DEF Matters
    <2>8. j = k
      BY <2>6, <2>7
    <2> QED
      BY <2>1, <2>2, <2>4, <2>5, <2>8
  <1> QED
    BY <1>1, <1>3, <1>4

-----------------------------------------------------------------------------
(* The builder's live mode.                                                *)

Script(r) == Scripts[runs[r].verdict]

LEMMA ScriptOf ==
  ASSUME Truth, NEW r \in DOMAIN runs
  PROVE  /\ Len(Script(r)) \in Nat /\ Length(r) = Len(Script(r))
         /\ \A j \in 1 .. Len(Script(r)) : /\ WellMade(Script(r)[j])
                                           /\ Alike(Event(r, j), Script(r)[j])
                                           /\ Event(r, j).seq = j
         /\ \E j \in 1 .. Len(Script(r)) : Script(r)[j].kind = "ended"
         /\ \A i, j \in 1 .. Len(Script(r)) :
              i < j /\ Script(r)[i].kind = "completed" /\ Script(r)[j].kind \in {"started", "completed"}
              => Script(r)[i].step # Script(r)[j].step
  <1> DEFINE Emitted == [kind : {"started", "asserted", "extracted"}, step : Steps]
                        \cup [kind : {"completed"}, step : Steps, status : Statuses] \cup [kind : {"ended"}]
  <1>1. runs[r].verdict \in Statuses
    <2>1. runs[r] \in Row
      BY ElementOfSeq, LenProperties DEF Truth
    <2> QED
      BY <2>1 DEF Row
  <1>2. PICK v \in Statuses : v = runs[r].verdict
    BY <1>1
  <1>3. PICK evs : evs = Scripts[v] /\ evs \in Seq(Emitted)
    BY BuilderRunAssumption
  <1>4. PICK n \in Nat : n = Len(evs) /\ DOMAIN evs = 1 .. n /\ \A j \in 1 .. n : evs[j] \in Emitted
    BY <1>3, LenProperties, ElementOfSeq
  <1>5. Script(r) = evs /\ Length(r) = n
    BY <1>2, <1>3, <1>4 DEF Script, Length
  <1>6. ASSUME NEW j \in 1 .. n
        PROVE  WellMade(evs[j]) /\ Alike(Event(r, j), evs[j]) /\ Event(r, j).seq = j
    <2>1. PICK e \in Emitted : e = evs[j]
      BY <1>4
    <2>2. PICK d : d = [k \in DOMAIN e \cup {"seq"} |-> IF k = "seq" THEN j ELSE e[k]]
      OBVIOUS
    <2>3. Event(r, j) = d
      BY <1>2, <1>3, <2>1, <2>2 DEF Event
    <2>4. d.seq = j
      BY <2>2
    <2>5. CASE e \in [kind : {"started", "asserted", "extracted"}, step : Steps]
      <3>1. d.kind = e.kind /\ d.step = e.step
        BY <2>2, <2>5
      <3> QED
        BY <2>1, <2>3, <2>4, <2>5, <3>1 DEF WellMade, Alike, Kinds
    <2>6. CASE e \in [kind : {"completed"}, step : Steps, status : Statuses]
      <3>1. d.kind = e.kind /\ d.step = e.step /\ d.status = e.status
        BY <2>2, <2>6
      <3> QED
        BY <2>1, <2>3, <2>4, <2>6, <3>1 DEF WellMade, Alike, Kinds
    <2>7. CASE e \in [kind : {"ended"}]
      <3>1. d.kind = e.kind
        BY <2>2, <2>7
      <3> QED
        BY <2>1, <2>3, <2>4, <2>7, <3>1 DEF WellMade, Alike, Kinds
    <2> QED
      BY <2>5, <2>6, <2>7
  <1>7. /\ \E j \in 1 .. n : evs[j].kind = "ended"
        /\ \A i, j \in 1 .. n :
             i < j /\ evs[i].kind = "completed" /\ evs[j].kind \in {"started", "completed"} => evs[i].step # evs[j].step
    <2>1. /\ \E i \in DOMAIN Scripts[v] : Scripts[v][i].kind = "ended"
          /\ \A i, j \in DOMAIN Scripts[v] :
                i < j /\ Scripts[v][i].kind = "completed" /\ Scripts[v][j].kind \in {"started", "completed"}
                => Scripts[v][i].step # Scripts[v][j].step
      BY BuilderRunAssumption, Zenon
    <2> QED
      BY <1>3, <1>4, <2>1
  <1> QED
    BY <1>4, <1>5, <1>6, <1>7

(* The subscription is to the run that is watched, while Live is on; and   *)
(* before the first, nothing has been seen.                                *)
Watching ==
  /\ DOMAIN cinema = Hook /\ cinema.mode = "live"
  /\ \A r \in DOMAIN runs : runs[r].log \in 0 .. Len(Script(r))
  /\ sub = None => seen = {} /\ (cinema.active /\ ~ astray => cinema.view = Blank)
  /\ sub # None =>
       /\ live /\ sub.run = cinemaRun
       /\ sub \in [run : DOMAIN runs, state : {"closed", "connecting", "open"}, buffered : Nat, upto : Nat]
       /\ sub.buffered <= runs[sub.run].log /\ sub.upto <= runs[sub.run].log

(* The view has come as far as the subscription.                           *)
Following ==
  sub # None /\ cinema.active /\ ~ astray /\ ~ spoiled
  => Follow(Script(sub.run), runs[sub.run].log, cinema.view, cinema.done, sub, seen)

(* An answer that tells of a new run tells of another one than all before. *)
Begun ==
  /\ \A c, d \in calls : c.kind = "begun" /\ d.kind = "begun" /\ c.run = d.run => c = d
  /\ \A c \in calls : c.kind = "begun" => c.run # cinemaRun

(* Runs keep their scripts and go on with them.                            *)
Longer ==
  /\ \A r \in DOMAIN runs : r \in DOMAIN runs' /\ Script(r)' = Script(r) /\ runs[r].log <= runs'[r].log
  /\ \A r \in DOMAIN runs' : runs'[r].log \in 0 .. Len(Script(r)')

LEMMA StayingLonger ==
  ASSUME Truth, Watching, runs' = runs
  PROVE  Longer
  <1>1. ASSUME NEW r \in DOMAIN runs
        PROVE  /\ r \in DOMAIN runs' /\ Script(r)' = Script(r) /\ runs[r].log <= runs'[r].log
               /\ runs'[r].log \in 0 .. Len(Script(r)')
    <2>1. runs[r].log \in 0 .. Len(Script(r))
      BY DEF Watching
    <2>2. runs[r].log <= runs[r].log
      BY <2>1
    <2>3. Script(r)' = Script(r)
      BY DEF Script
    <2> QED
      BY <2>1, <2>2, <2>3
  <1> QED
    BY <1>1 DEF Longer

LEMMA NewRunLonger ==
  ASSUME Truth, Watching, NewRun
  PROVE  Longer /\ Len(runs') \notin DOMAIN runs
  <1>0. PICK v \in Statuses : runs' = Append(runs, [verdict |-> v, log |-> 0, row |-> "running"])
    BY DEF NewRun
  <1>1. PICK row : row = [verdict |-> v, log |-> 0, row |-> "running"] /\ runs' = Append(runs, row)
    BY <1>0
  <1>2. row \in Row /\ row.log = 0
    BY <1>1 DEF Row
  <1>3. PICK n \in Nat : runs \in Seq(Row) /\ n = Len(runs) /\ DOMAIN runs = 1 .. n /\ \A r \in 1 .. n : runs[r] \in Row
    BY LenProperties, ElementOfSeq DEF Truth
  <1>4. PICK new : new = runs'
    OBVIOUS
  <1>5. /\ new \in Seq(Row) /\ Len(new) = n + 1 /\ DOMAIN new = 1 .. n + 1
        /\ new[n + 1] = row /\ \A r \in 1 .. n : new[r] = runs[r]
    BY <1>1, <1>2, <1>3, <1>4, AppendProperties, LenProperties
  <1>6. \A r \in 1 .. n + 1 : r \in 1 .. n \/ r = n + 1
    BY <1>3
  <1>7. ASSUME NEW r \in 1 .. n PROVE r \in DOMAIN new /\ Script(r)' = Script(r) /\ runs[r].log <= new[r].log
                                       /\ new[r].log \in 0 .. Len(Script(r)')
    <2>1. runs[r].log \in Nat /\ new[r] = runs[r] /\ r \in 1 .. n + 1
      BY <1>3, <1>5 DEF Row
    <2>2. Script(r)' = Script(r)
      BY <1>4, <2>1 DEF Script
    <2>3. runs[r].log \in 0 .. Len(Script(r))
      BY <1>3 DEF Watching
    <2>4. runs[r].log <= runs[r].log
      BY <2>1
    <2> QED
      BY <1>5, <2>1, <2>2, <2>3, <2>4
  <1>8. new[n + 1].log = 0 /\ Len(Script(n + 1)') \in Nat
    <2>1. Script(n + 1)' = Scripts[v]
      BY <1>1, <1>4, <1>5 DEF Script
    <2>2. Len(Scripts[v]) \in Nat
      BY BuilderRunAssumption, LenProperties
    <2> QED
      BY <1>2, <1>5, <2>1, <2>2
  <1>9. \A r \in DOMAIN new : new[r].log \in 0 .. Len(Script(r)')
    <2> SUFFICES ASSUME NEW r \in DOMAIN new PROVE new[r].log \in 0 .. Len(Script(r)')
      OBVIOUS
    <2>1. CASE r \in 1 .. n
      BY <1>7, <2>1
    <2>2. CASE r = n + 1
      <3>1. PICK len \in Nat : len = Len(Script(n + 1)')
        BY <1>8
      <3>2. 0 \in 0 .. len
        OBVIOUS
      <3> QED
        BY <1>8, <2>2, <3>1, <3>2
    <2> QED
      BY <1>5, <1>6, <2>1, <2>2
  <1>10. Len(runs') \notin DOMAIN runs
    BY <1>3, <1>4, <1>5
  <1> QED
    BY <1>3, <1>4, <1>7, <1>9, <1>10 DEF Longer

LEMMA ProgressLonger ==
  ASSUME Truth, Watching, NEW r \in DOMAIN runs, Progress(r)
  PROVE  Longer
  <1>1. PICK n \in Nat : runs \in Seq(Row) /\ DOMAIN runs = 1 .. n /\ runs \in [1 .. n -> Row]
    BY LenProperties, ElementOfSeq DEF Truth
  <1>2. PICK old \in Row : old = runs[r]
    BY <1>1
  <1>3. PICK len \in Nat : len = Len(Script(r)) /\ len = Length(r)
    BY ScriptOf
  <1>4. PICK at \in 0 .. len : at = old.log
    BY <1>2, <1>3 DEF Watching
  <1>5. PICK new \in Row : runs' = [runs EXCEPT ![r] = new] /\ new.verdict = old.verdict /\ new.log \in 0 .. len /\ at <= new.log
    <2>1. CASE at < len
      <3>1. runs' = [runs EXCEPT ![r] = [old EXCEPT !.log = at + 1]]
        BY <1>2, <1>3, <1>4, <2>1 DEF Progress
      <3>2. PICK new : new = [old EXCEPT !.log = at + 1]
        OBVIOUS
      <3>3. new \in Row /\ new.verdict = old.verdict /\ new.log = at + 1
        BY <3>2 DEF Row
      <3>4. at + 1 \in 0 .. len /\ at <= at + 1
        BY <2>1
      <3> QED
        BY <3>1, <3>2, <3>3, <3>4
    <2>2. CASE ~ (at < len)
      <3>1. runs' = [runs EXCEPT ![r] = [old EXCEPT !.row = old.verdict]]
        BY <1>2, <1>3, <1>4, <2>2 DEF Progress
      <3>2. PICK new : new = [old EXCEPT !.row = old.verdict]
        OBVIOUS
      <3>3. new \in Row /\ new.verdict = old.verdict /\ new.log = at
        BY <1>4, <3>2 DEF Row
      <3>4. at \in 0 .. len /\ at <= at
        OBVIOUS
      <3> QED
        BY <3>1, <3>2, <3>3, <3>4
    <2> QED
      BY <2>1, <2>2
  <1>6. PICK next : next = runs'
    OBVIOUS
  <1>7. DOMAIN next = 1 .. n /\ next[r] = new /\ \A d \in 1 .. n : d # r => next[d] = runs[d]
    BY <1>1, <1>5, <1>6
  <1>8. \A d \in 1 .. n : Script(d)' = Script(d)
    BY <1>2, <1>5, <1>6, <1>7 DEF Script
  <1>9. ASSUME NEW d \in 1 .. n PROVE runs[d].log <= next[d].log /\ next[d].log \in 0 .. Len(Script(d))
    <2>1. CASE d = r
      BY <1>2, <1>3, <1>4, <1>5, <1>7, <2>1
    <2>2. CASE d # r
      <3>1. runs[d].log \in Nat
        BY <1>1 DEF Row
      <3> QED
        BY <1>1, <1>7, <2>2, <3>1 DEF Watching
    <2> QED
      BY <2>1, <2>2
  <1> QED
    BY <1>1, <1>6, <1>7, <1>8, <1>9 DEF Longer

(* While the subscription is left alone, the view stays or is given up.    *)
LEMMA SteadyFollows ==
  ASSUME Truth, Watching, Following, Longer, UNCHANGED <<live, cinemaRun, sub, seen, spoiled>>,
         DOMAIN cinema' = Hook, cinema'.mode = "live",
         cinema'.active /\ ~ astray' =>
           cinema.active /\ ~ astray /\ cinema'.view = cinema.view /\ cinema'.done = cinema.done
  PROVE  Watching' /\ Following'
  <1>1. CASE sub = None
    BY <1>1 DEF Watching, Following, Longer
  <1>2. CASE sub # None
    <2>1. PICK r \in DOMAIN runs : r = sub.run
      BY <1>2 DEF Watching
    <2>2. PICK log \in Nat, more \in Nat : log = runs[r].log /\ more = runs'[r].log /\ log <= more
      <3>1. runs[r].log \in 0 .. Len(Script(r)) /\ r \in DOMAIN runs' /\ runs[r].log <= runs'[r].log
        BY DEF Watching, Longer
      <3>2. runs'[r].log \in 0 .. Len(Script(r)')
        BY <3>1 DEF Longer
      <3> QED
        BY <3>1, <3>2
    <2>3. Script(r)' = Script(r) /\ DOMAIN runs \subseteq DOMAIN runs'
      BY DEF Longer
    <2>4. Watching'
      <3>1. sub' = sub /\ live' = live /\ cinemaRun' = cinemaRun /\ seen' = seen
        OBVIOUS
      <3>2. sub.buffered \in Nat /\ sub.upto \in Nat /\ sub.buffered <= log /\ sub.upto <= log
        BY <1>2, <2>1, <2>2 DEF Watching
      <3>3. sub.buffered <= more /\ sub.upto <= more
        BY <2>2, <3>2
      <3>4. sub \in [run : DOMAIN runs', state : {"closed", "connecting", "open"}, buffered : Nat, upto : Nat]
        BY <1>2, <2>3 DEF Watching
      <3>5. live /\ sub.run = cinemaRun
        BY <1>2 DEF Watching
      <3>6. \A d \in DOMAIN runs' : runs'[d].log \in 0 .. Len(Script(d)')
        BY DEF Longer
      <3> QED
        BY <1>2, <2>1, <2>2, <3>1, <3>3, <3>4, <3>5, <3>6 DEF Watching
    <2>5. ASSUME cinema'.active, ~ astray', ~ spoiled'
          PROVE  Follow(Script(r)', runs'[r].log, cinema'.view, cinema'.done, sub, seen)
      <3>1. Follow(Script(r), log, cinema.view, cinema.done, sub, seen)
        BY <1>2, <2>1, <2>2, <2>5 DEF Following
      <3>2. Follow(Script(r), more, cinema.view, cinema.done, sub, seen)
        BY <2>2, <3>1, FollowGrows
      <3> QED
        BY <2>2, <2>3, <2>5, <3>2
    <2>6. Following'
      BY <2>1, <2>5 DEF Following
    <2> QED
      BY <2>4, <2>6
  <1> QED
    BY <1>1, <1>2

(* What holds of the builder while a run is watched.                       *)
Viewed == Watching /\ Following /\ Begun

LEMMA BegunStays ==
  ASSUME Begun, cinemaRun' = cinemaRun, \A c \in calls' : c.kind = "begun" => c \in calls
  PROVE  Begun'
  BY DEF Begun

Subs == [run : DOMAIN runs, state : {"closed", "connecting", "open"}, buffered : Nat, upto : Nat]

LEMMA SubIsThere ==
  ASSUME Truth
  PROVE  \A s \in Subs : s # None
  <1>1. DOMAIN runs \subseteq Nat
    BY LenProperties DEF Truth
  <1>2. \A s \in Subs : s \in [run : Nat, state : {"closed", "connecting", "open"}, buffered : Nat, upto : Nat]
    BY <1>1 DEF Subs
  <1> QED
    BY <1>2, BuilderRunAssumption

(* What is to be shown of the subscription when the runs are as before.    *)
LEMMA StillWatching ==
  ASSUME Truth, Watching, runs' = runs, DOMAIN cinema' = Hook, cinema'.mode = "live",
         sub' = None => seen' = {} /\ (cinema'.active /\ ~ astray' => cinema'.view = Blank),
         sub' # None =>
           /\ live' /\ sub'.run = cinemaRun'
           /\ sub' \in Subs
           /\ sub'.buffered <= runs[sub'.run].log /\ sub'.upto <= runs[sub'.run].log
  PROVE  Watching'
  <1>1. \A r \in DOMAIN runs' : runs'[r].log \in 0 .. Len(Script(r)')
    BY StayingLonger DEF Longer
  <1> QED
    BY <1>1 DEF Watching, Subs

(* A subscription that is new to the view follows it from the start.       *)
LEMMA StillFollowing ==
  ASSUME Truth, Watching, runs' = runs,
         NEW r \in DOMAIN runs, sub' # None => sub'.run = r,
         NEW s, s = sub', NEW view, view = cinema'.view, NEW done, done = cinema'.done, NEW saw, saw = seen',
         sub' # None /\ cinema'.active /\ ~ astray' /\ ~ spoiled' => Follow(Script(r), runs[r].log, view, done, s, saw)
  PROVE  Following'
  <1>1. Script(r)' = Script(r)
    BY DEF Script
  <1> QED
    BY <1>1 DEF Following

LEMMA ScrubFollows ==
  ASSUME Truth, Viewed, Scrub
  PROVE  Viewed'
  <1>1. UNCHANGED <<live, cinemaRun, sub, seen, spoiled, runs, calls>>
    BY DEF Scrub, liveVars
  <1>2. DOMAIN cinema = Hook /\ cinema.mode = "live"
    BY DEF Viewed, Watching
  <1>3. /\ DOMAIN cinema' = Hook /\ cinema'.mode = "live"
        /\ cinema'.active /\ ~ astray' =>
             cinema.active /\ ~ astray /\ cinema'.view = cinema.view /\ cinema'.done = cinema.done
    <2>1. CASE Pause \/ Play
      <3>1. PICK p : cinema' = [cinema EXCEPT !.playback = p] /\ astray' = astray
        BY <2>1 DEF Pause, Play
      <3> QED
        BY <1>2, <3>1 DEF Hook
    <2>2. CASE Reset
      <3>1. cinema' = Rewound(cinema) /\ astray'
        BY <1>2, <2>2 DEF Reset
      <3> QED
        BY <1>2, <3>1 DEF Rewound, Hook
    <2>3. CASE Seek(cinema.total)
      <3>1. cinema' = Sought(cinema, cinema.total) /\ astray'
        BY <1>2, <2>3 DEF Seek
      <3>2. PICK seq, view, done : cinema' = [cinema EXCEPT !.cur = seq, !.view = view, !.done = done]
        BY <3>1, Zenon DEF Sought
      <3> QED
        BY <1>2, <3>1, <3>2 DEF Hook
    <2> QED
      BY <2>1, <2>2, <2>3 DEF Scrub
  <1>4. Begun'
    BY <1>1, BegunStays DEF Viewed
  <1> QED
    BY <1>1, <1>3, <1>4, StayingLonger, SteadyFollows DEF Viewed

LEMMA ToggleFollows ==
  ASSUME Truth, Viewed, ToggleLive
  PROVE  Viewed'
  <1>1. UNCHANGED <<cinemaRun, runs, calls, astray>> /\ live' = ~ live /\ Subscribe(cinemaRun, ~ live)
    BY DEF ToggleLive
  <1>2. Begun'
    BY <1>1, BegunStays DEF Viewed
  <1>3. CASE live
    <2>1. cinema' = Off
      BY <1>3 DEF ToggleLive
    <2>2. DOMAIN cinema' = Hook /\ cinema'.mode = "live" /\ ~ cinema'.active
      BY <2>1 DEF Off, Hook
    <2>3. sub' = None /\ seen' = {}
      BY <1>1, <1>3 DEF Subscribe
    <2>4. Watching'
      BY <1>1, <2>2, <2>3, StillWatching DEF Viewed
    <2>5. Following'
      BY <2>3 DEF Following
    <2> QED
      BY <1>2, <2>4, <2>5 DEF Viewed
  <1>4. CASE ~ live
    <2>1. cinema' = cinema
      BY <1>4 DEF ToggleLive
    <2>2. /\ DOMAIN cinema' = Hook /\ cinema'.mode = "live"
          /\ sub = None /\ seen = {} /\ (cinema.active /\ ~ astray => cinema.view = Blank)
      BY <1>4, <2>1 DEF Viewed, Watching
    <2>3. CASE cinemaRun = None
      <3>1. sub' = None /\ seen' = {}
        BY <1>1, <2>3 DEF Subscribe
      <3>2. Watching'
        BY <1>1, <2>1, <2>2, <3>1, StillWatching DEF Viewed
      <3>3. Following'
        BY <3>1 DEF Following
      <3> QED
        BY <1>2, <3>2, <3>3 DEF Viewed
    <2>4. CASE cinemaRun # None
      <3>1. PICK s : s = [run |-> cinemaRun, state |-> "closed", buffered |-> 0, upto |-> 0]
        OBVIOUS
      <3>2. sub' = s /\ seen' = {}
        BY <1>1, <1>4, <2>2, <2>4, <3>1 DEF Subscribe
      <3>3. PICK r \in DOMAIN runs : r = cinemaRun
        BY <2>4 DEF Truth
      <3>4. PICK log \in Nat : log = runs[r].log
        BY ScriptOf DEF Viewed, Watching
      <3>5. Watching'
        <4>1. /\ s.run = cinemaRun /\ s.buffered <= runs[s.run].log /\ s.upto <= runs[s.run].log
              /\ s \in Subs
          BY <3>1, <3>3, <3>4 DEF Subs
        <4>2. live'
          BY <1>1, <1>4
        <4> QED
          BY <1>1, <1>4, <2>1, <2>2, <3>2, <4>1, <4>2, StillWatching DEF Viewed
      <3>6. Following'
        <4>1. PICK view, done : view = cinema'.view /\ done = cinema'.done
          OBVIOUS
        <4>2. cinema'.active /\ ~ astray' => view = Blank
          BY <1>1, <2>1, <2>2, <4>1
        <4>3. cinema'.active /\ ~ astray' => Follow(Script(r), log, view, done, s, {})
          BY <3>1, <4>2, FollowStart
        <4> QED
          BY <1>1, <3>1, <3>2, <3>3, <3>4, <4>1, <4>3, StillFollowing DEF Viewed
      <3> QED
        BY <1>2, <3>5, <3>6 DEF Viewed
    <2> QED
      BY <2>3, <2>4
  <1> QED
    BY <1>3, <1>4

LEMMA ConnectFollows ==
  ASSUME Truth, Viewed, Connect \/ Drop
  PROVE  Viewed'
  <1>1. /\ UNCHANGED <<live, cinemaRun, seen, runs, calls, cinema, astray>> /\ sub # None /\ live
        /\ spoiled => spoiled'
    <2>1. UNCHANGED <<live, cinemaRun, seen, runs, calls, cinema, astray>> /\ sub # None /\ live
      BY DEF Connect, Drop, cinemaVars, Viewed, Watching
    <2>2. spoiled => spoiled'
      BY Zenon DEF Connect, Drop
    <2> QED
      BY <2>1, <2>2
  <1>2. Begun'
    BY <1>1, BegunStays DEF Viewed
  <1>3. PICK r \in DOMAIN runs : r = sub.run /\ sub \in Subs /\ r = cinemaRun
    BY <1>1 DEF Viewed, Watching, Subs
  <1>4. PICK s \in Subs : s = sub /\ s.run = r /\ s.upto \in Nat /\ s.buffered \in Nat
    BY <1>3 DEF Subs
  <1>5. PICK log \in Nat : log = runs[r].log /\ s.upto <= log /\ s.buffered <= log
    BY <1>1, <1>3, <1>4, ScriptOf DEF Viewed, Watching
  <1>6. PICK t \in Subs : /\ t = sub' /\ t.run = r /\ t.state \in {"closed", "connecting"} /\ t.buffered <= log /\ t.upto <= log
                          /\ s.state # "closed" /\ s.upto < s.buffered => spoiled'
    <2>1. CASE Connect
      <3>1. s.state = "closed" /\ sub' = [s EXCEPT !.state = "connecting", !.buffered = 0, !.upto = log]
        BY <1>3, <1>4, <1>5, <2>1 DEF Connect
      <3>2. PICK t : t = [s EXCEPT !.state = "connecting", !.buffered = 0, !.upto = log]
        OBVIOUS
      <3>3. t \in Subs /\ t.run = r /\ t.state = "connecting" /\ t.buffered = 0 /\ t.upto = log
        BY <1>4, <3>2 DEF Subs
      <3>4. t = sub' /\ t.buffered <= log /\ t.upto <= log
        BY <1>5, <3>1, <3>2, <3>3
      <3>5. s.state # "closed" /\ s.upto < s.buffered => spoiled'
        BY <3>1
      <3> QED
        BY <3>3, <3>4, <3>5, Zenon
    <2>2. CASE Drop
      <3>1. s.state # "closed" /\ sub' = [s EXCEPT !.state = "closed"] /\ (s.upto < s.buffered => spoiled')
        <4>1. sub.state # "closed" /\ sub' = [sub EXCEPT !.state = "closed"]
          BY <2>2 DEF Drop
        <4>2. sub.upto < sub.buffered => spoiled'
          BY <2>2, Zenon DEF Drop
        <4> QED
          BY <1>4, <4>1, <4>2
      <3>2. PICK t : t = [s EXCEPT !.state = "closed"]
        OBVIOUS
      <3>3. t \in Subs /\ t.run = r /\ t.state = "closed" /\ t.buffered = s.buffered /\ t.upto = s.upto
        BY <1>4, <3>2 DEF Subs
      <3> QED
        <4>1. t = sub' /\ t.buffered <= log /\ t.upto <= log
          BY <1>5, <3>1, <3>2, <3>3
        <4> QED
          BY <3>1, <3>3, <4>1
    <2> QED
      BY <2>1, <2>2
  <1>7. Watching'
    <2>1. sub' # None
      BY <1>6, SubIsThere
    <2>2. DOMAIN cinema' = Hook /\ cinema'.mode = "live"
      BY <1>1 DEF Viewed, Watching
    <2> QED
      BY <1>1, <1>3, <1>5, <1>6, <2>1, <2>2, StillWatching DEF Viewed
  <1>8. Following'
    <2>1. PICK view, done, saw : view = cinema.view /\ done = cinema.done /\ saw = seen
      OBVIOUS
    <2>2. ASSUME cinema.active, ~ astray, ~ spoiled'
          PROVE  Follow(Script(r), log, view, done, t, saw)
      <3>1. ~ spoiled
        BY <1>1, <2>2
      <3>2. Follow(Script(r), log, view, done, s, saw)
        BY <1>1, <1>3, <1>4, <1>5, <2>1, <2>2, <3>1 DEF Viewed, Following
      <3>3. CASE s.state # "open"
        BY <1>6, <3>2, <3>3, FollowConnect
      <3>4. CASE s.state = "open"
        <4>1. ~ (s.upto < s.buffered) /\ s.upto \in 0 .. log
          BY <1>4, <1>5, <1>6, <2>2, <3>4
        <4> QED
          BY <1>4, <1>6, <3>2, <4>1, FollowDrop
      <3> QED
        BY <3>3, <3>4
    <2>3. view = cinema'.view /\ done = cinema'.done /\ saw = seen'
      BY <1>1, <2>1
    <2> QED
      BY <1>1, <1>5, <1>6, <2>2, <2>3, StillFollowing DEF Viewed
  <1> QED
    BY <1>2, <1>7, <1>8 DEF Viewed

(* The subscription to a run that Live was on for.                         *)
LEMMA LiveFollows ==
  ASSUME Truth, Viewed, NEW c \in calls, StartArrives(c), c.live
  PROVE  Viewed'
  <1>1. /\ c.kind = "begun" /\ cinemaRun' = c.run /\ cinema' = Active("live") /\ astray' = FALSE
        /\ Subscribe(c.run, live) /\ live' = live /\ runs' = runs /\ calls' = calls \ {c}
    BY DEF StartArrives
  <1>2. PICK r \in DOMAIN runs : r = c.run /\ r # cinemaRun
    BY <1>1 DEF Truth, CallOf, Viewed, Begun
  <1>3. r # None
    BY LenProperties, CinemaAssumption DEF Truth
  <1>4. DOMAIN cinema' = Hook /\ cinema'.mode = "live" /\ cinema'.view = Blank
    BY <1>1 DEF Active, Off, Hook
  <1>5. Begun'
    BY <1>1 DEF Viewed, Begun
  <1>6. CASE ~ live
    <2>1. sub' = None /\ seen' = {}
      BY <1>1, <1>6 DEF Subscribe
    <2>2. Watching'
      BY <1>1, <1>4, <2>1, StillWatching DEF Viewed
    <2>3. Following'
      BY <2>1 DEF Following
    <2> QED
      BY <1>5, <2>2, <2>3 DEF Viewed
  <1>7. CASE live
    <2>1. PICK s : s = [run |-> r, state |-> "closed", buffered |-> 0, upto |-> 0]
      OBVIOUS
    <2>2. sub' = s /\ seen' = seen /\ spoiled' = (seen # {})
      <3>1. ~ (sub # None /\ sub.run = c.run)
        BY <1>2 DEF Viewed, Watching
      <3> QED
        BY <1>1, <1>2, <1>3, <1>7, <2>1, <3>1 DEF Subscribe
    <2>3. PICK log \in Nat : log = runs[r].log
      BY ScriptOf DEF Viewed, Watching
    <2>4. s \in Subs /\ s.run = r /\ s.state = "closed" /\ s.buffered <= log /\ s.upto <= log
      BY <2>1, <2>3 DEF Subs
    <2>5. s # None
      BY <2>4, SubIsThere
    <2>6. Watching'
      BY <1>1, <1>2, <1>4, <1>7, <2>2, <2>3, <2>4, <2>5, StillWatching DEF Viewed
    <2>7. Following'
      <3>1. PICK view, done, saw : view = cinema'.view /\ done = cinema'.done /\ saw = seen'
        OBVIOUS
      <3>2. ASSUME ~ spoiled' PROVE Follow(Script(r), log, view, done, s, saw)
        <4>1. saw = {} /\ view = Blank
          BY <1>4, <2>2, <3>1, <3>2
        <4> QED
          BY <2>4, <4>1, FollowStart
      <3> QED
        BY <1>1, <2>2, <2>3, <2>4, <3>1, <3>2, StillFollowing DEF Viewed
    <2> QED
      BY <1>5, <2>6, <2>7 DEF Viewed
  <1> QED
    BY <1>6, <1>7

LEMMA StartFollows ==
  ASSUME Truth, Viewed, NEW c \in calls, StartServed(c)
  PROVE  Viewed'
  <1>1. NewRun /\ UNCHANGED <<liveVars, cinemaVars>>
    BY DEF StartServed
  <1>2. PICK new : new = [kind |-> "begun", run |-> Len(runs'), live |-> c.live] /\ calls' = (calls \ {c}) \cup {new}
    BY DEF StartServed
  <1>3. Longer /\ Len(runs') \notin DOMAIN runs
    BY <1>1, NewRunLonger DEF Viewed
  <1>4. new.run # cinemaRun
    <2>1. Len(runs') \in Nat
      BY <1>1, NewRunGrows, LenProperties DEF Grows
    <2> QED
      BY <1>2, <1>3, <2>1, CinemaAssumption DEF Truth
  <1>5. \A d \in calls : d.kind = "begun" => d.run # new.run
    BY <1>2, <1>3 DEF Truth, CallOf
  <1>6. Begun'
    BY <1>1, <1>2, <1>4, <1>5 DEF Viewed, Begun, liveVars
  <1>7. Watching' /\ Following'
    <2>1. UNCHANGED <<live, cinemaRun, sub, seen, spoiled>> /\ cinema' = cinema /\ astray' = astray
      BY <1>1 DEF liveVars, cinemaVars
    <2>2. DOMAIN cinema' = Hook /\ cinema'.mode = "live"
      BY <2>1 DEF Viewed, Watching
    <2> QED
      BY <1>3, <2>1, <2>2, SteadyFollows DEF Viewed
  <1> QED
    BY <1>6, <1>7 DEF Viewed

LEMMA RerunFollows ==
  ASSUME Truth, Viewed, NEW c \in calls, RerunArrives(c)
  PROVE  Viewed'
  <1>1. NewRun /\ UNCHANGED <<live, cinemaRun, sub, seen, spoiled>> /\ calls' = calls \ {c}
    BY DEF RerunArrives, liveVars
  <1>2. Longer
    BY <1>1, NewRunLonger DEF Viewed
  <1>3. Begun'
    BY <1>1, BegunStays DEF Viewed
  <1>4. \/ cinema' = Active("live") /\ astray'
        \/ cinema' = cinema /\ astray' = astray
    BY DEF RerunArrives, cinemaVars
  <1>5. DOMAIN cinema' = Hook /\ cinema'.mode = "live"
    BY <1>4 DEF Active, Off, Hook, Viewed, Watching
  <1>6. Watching' /\ Following'
    BY <1>1, <1>2, <1>4, <1>5, SteadyFollows DEF Viewed
  <1> QED
    BY <1>3, <1>6 DEF Viewed

(* Whatever touches neither the subscription nor the view.                 *)
LEMMA QuietFollows ==
  ASSUME Truth, Viewed, Longer, UNCHANGED <<liveVars, cinemaVars>>, \A c \in calls' : c.kind = "begun" => c \in calls
  PROVE  Viewed'
  <1>1. UNCHANGED <<live, cinemaRun, sub, seen, spoiled>> /\ cinema' = cinema /\ astray' = astray
    BY DEF liveVars, cinemaVars
  <1>2. DOMAIN cinema' = Hook /\ cinema'.mode = "live"
    BY <1>1 DEF Viewed, Watching
  <1>3. Begun'
    BY <1>1, BegunStays DEF Viewed
  <1>4. Watching' /\ Following'
    BY <1>1, <1>2, SteadyFollows DEF Viewed
  <1> QED
    BY <1>3, <1>4 DEF Viewed

LEMMA LogIs ==
  ASSUME Truth, NEW r \in DOMAIN runs, NEW log \in 0 .. Len(Script(r)), log = runs[r].log, NEW told, told = Log(r)
  PROVE  /\ \E S : told \in Seq(S)
         /\ Len(told) = log /\ DOMAIN told = 1 .. log
         /\ \A j \in 1 .. log : told[j] = Event(r, j) /\ Alike(told[j], Script(r)[j]) /\ told[j].seq = j
         /\ \A j \in 1 .. log : told[j] \in Range(told)
  <1>1. told = [i \in 1 .. log |-> Event(r, i)] /\ log \in Nat
    BY ScriptOf DEF Log
  <1>2. PICK S : S = { Event(r, i) : i \in 1 .. log }
    OBVIOUS
  <1>3. told \in [1 .. log -> S]
    BY <1>1, <1>2
  <1>4. told \in Seq(S)
    BY <1>1, <1>3, SeqDef
  <1>5. DOMAIN told = 1 .. log /\ Len(told) = log
    BY <1>1, <1>4, LenProperties
  <1>6. \A j \in 1 .. log : told[j] = Event(r, j)
    BY <1>1
  <1>7. \A j \in 1 .. log : j \in 1 .. Len(Script(r))
    BY ScriptOf
  <1>8. \A j \in 1 .. log : Alike(told[j], Script(r)[j]) /\ told[j].seq = j
    BY <1>6, <1>7, ScriptOf
  <1>9. \A j \in 1 .. log : told[j] \in Range(told)
    BY <1>5 DEF Range
  <1> QED
    BY <1>4, <1>5, <1>6, <1>8, <1>9

LEMMA OpenFollows ==
  ASSUME Truth, Viewed, Open
  PROVE  Viewed'
  <1>1. /\ UNCHANGED <<live, cinemaRun, spoiled, runs, astray>> /\ sub # None /\ sub.state = "connecting" /\ live
        /\ \A c \in calls' : c.kind = "begun" => c \in calls
    <2>1. UNCHANGED <<live, cinemaRun, spoiled, runs, astray>> /\ sub # None /\ sub.state = "connecting"
      BY DEF Open, Handle
    <2>2. live
      BY <2>1 DEF Viewed, Watching
    <2>3. calls' = calls \/ calls' = calls \cup {[kind |-> "get", by |-> "live", run |-> cinemaRun]}
      BY Zenon DEF Open, Handle
    <2> QED
      BY <2>1, <2>2, <2>3
  <1>2. Begun'
    BY <1>1, BegunStays DEF Viewed
  <1>3. PICK r \in DOMAIN runs : r = sub.run /\ sub \in Subs /\ r = cinemaRun
    BY <1>1 DEF Viewed, Watching, Subs
  <1>4. PICK s \in Subs : s = sub /\ s.run = r /\ s.upto \in Nat /\ s.state = "connecting"
    BY <1>1, <1>3 DEF Subs
  <1>5. PICK log \in 0 .. Len(Script(r)) : log = runs[r].log
    BY DEF Viewed, Watching
  <1>6. log \in Nat /\ s.upto \in 0 .. log
    BY <1>1, <1>3, <1>4, <1>5, ScriptOf DEF Viewed, Watching
  <1>7. PICK t \in Subs : t = sub' /\ t.run = r /\ t.state = "open" /\ t.buffered = log /\ t.upto = s.upto
    <2>1. sub' = [s EXCEPT !.state = "open", !.buffered = log]
      BY <1>3, <1>4, <1>5 DEF Open
    <2>2. PICK t : t = [s EXCEPT !.state = "open", !.buffered = log]
      OBVIOUS
    <2>3. t \in Subs /\ t.run = r /\ t.state = "open" /\ t.buffered = log /\ t.upto = s.upto
      BY <1>4, <1>6, <2>2 DEF Subs
    <2> QED
      BY <2>1, <2>2, <2>3
  <1>8. PICK told : told = Log(r)
    OBVIOUS
  <1>9. PICK S : told \in Seq(S)
    BY <1>5, <1>8, LogIs
  <1>10. PICK saw, keep : saw = seen /\ keep = { e \in Range(told) : e.seq \notin saw }
    OBVIOUS
  <1>11. PICK c, new : c = cinema /\ new = AllProcessed(c, Filter(told, keep)) /\ new = cinema'
    <2>1. cinema' = AllProcessed(cinema, Filter(told, keep))
      BY <1>3, <1>8, <1>10 DEF Open, Handle
    <2> QED
      BY <2>1
  <1>12. DOMAIN c = Hook /\ c.mode = "live"
    BY <1>11 DEF Viewed, Watching
  <1>13. DOMAIN new = Hook /\ new.active = c.active /\ new.mode = "live"
    <2>1. Len(Filter(told, keep)) \in Nat
      BY <1>9, FilterType, LenProperties
    <2>2. DOMAIN new = Hook /\ new.active = c.active /\ new.mode = c.mode
      <3>1. PICK evs : evs = Filter(told, keep) /\ Len(evs) \in Nat
        BY <2>1
      <3>2. new = AllProcessed(c, evs) /\ DOMAIN c = Hook
        BY <1>11, <1>12, <3>1
      <3> QED
        BY <3>1, <3>2, AllProcessedStays
    <2> QED
      BY <1>12, <2>2, Zenon
  <1>14. seen' = saw \cup 1 .. log
    BY <1>3, <1>5, <1>10 DEF Open
  <1>15. t # None
    BY SubIsThere
  <1>16. Watching'
    <2>1. t.buffered <= log /\ t.upto <= log
      BY <1>6, <1>7
    <2> QED
      BY <1>1, <1>3, <1>5, <1>7, <1>11, <1>13, <1>15, <2>1, StillWatching DEF Viewed
  <1>17. Following'
    <2>1. ASSUME new.active, ~ astray, ~ spoiled
          PROVE  Follow(Script(r), log, new.view, new.done, t, saw \cup 1 .. log)
      <3>1. Follow(Script(r), log, c.view, c.done, s, saw)
        BY <1>1, <1>3, <1>4, <1>5, <1>10, <1>11, <1>13, <2>1 DEF Viewed, Following
      <3>2. PICK evs : evs = Script(r)
        OBVIOUS
      <3>3. Len(evs) \in Nat /\ \A j \in 1 .. Len(evs) : WellMade(evs[j])
        BY <3>2, ScriptOf
      <3>4. /\ Len(told) = log
            /\ \A j \in 1 .. log : Alike(told[j], evs[j]) /\ told[j].seq = j
            /\ \A j \in 1 .. log : told[j] \in keep <=> told[j].seq \notin saw
        BY <1>5, <1>8, <1>10, <3>2, LogIs
      <3>5. Follow(evs, log, c.view, c.done, s, saw) /\ log \in 0 .. Len(evs) /\ c.active
        BY <1>5, <1>13, <2>1, <3>1, <3>2
      <3>6. s.state # "open" /\ t.upto \in 0 .. log
        BY <1>4, <1>6, <1>7
      <3>7. Follow(evs, log, new.view, new.done, t, saw \cup 1 .. log)
        <4>1. /\ DOMAIN c = Hook /\ new = AllProcessed(c, Filter(told, keep)) /\ told \in Seq(S)
              /\ t.state = "open" /\ t.buffered = log
          BY <1>7, <1>9, <1>11, <1>12
        <4> QED
          BY <3>3, <3>4, <3>5, <3>6, <4>1, FollowOpen, ZenonT(60)
      <3> QED
        BY <3>2, <3>7
    <2>2. PICK view, done, sees : view = new.view /\ done = new.done /\ sees = saw \cup 1 .. log
      OBVIOUS
    <2>3. view = cinema'.view /\ done = cinema'.done /\ sees = seen'
      BY <1>11, <1>14, <2>2
    <2>4. sub' # None /\ cinema'.active /\ ~ astray' /\ ~ spoiled' => Follow(Script(r), log, view, done, t, sees)
      BY <1>1, <1>11, <2>1, <2>2, Zenon
    <2> QED
      BY <1>1, <1>5, <1>7, <2>3, <2>4, StillFollowing DEF Viewed
  <1> QED
    BY <1>2, <1>16, <1>17 DEF Viewed

LEMMA OneProcessed ==
  ASSUME NEW c, NEW e
  PROVE  AllProcessed(c, <<e>>) = Processed(c, e)
  <1>1. PICK s : s = <<e>>
    OBVIOUS
  <1>2. Len(s) = 1 /\ s[1] = e
    BY <1>1
  <1>3. PICK f : f[0] = c /\ (\A i \in 1 .. Len(s) : f[i] = Processed(f[i - 1], s[i])) /\ AllProcessed(c, s) = f[Len(s)]
    BY <1>2, AllProcessedIs
  <1>4. f[1] = Processed(f[0], s[1])
    <2>1. 1 \in 1 .. Len(s) /\ 1 - 1 = 0
      BY <1>2
    <2>2. f[1] = Processed(f[1 - 1], s[1])
      BY <1>3, <2>1, Zenon
    <2> QED
      BY <2>1, <2>2, Zenon
  <1> QED
    BY <1>1, <1>2, <1>3, <1>4, Zenon

LEMMA DeliverFollows ==
  ASSUME Truth, Viewed, Deliver
  PROVE  Viewed'
  <1>1. /\ UNCHANGED <<live, cinemaRun, spoiled, runs, astray>> /\ sub # None /\ sub.state = "open" /\ live
        /\ \A c \in calls' : c.kind = "begun" => c \in calls
    BY DEF Deliver, Handle, Viewed, Watching
  <1>2. Begun'
    BY <1>1, BegunStays DEF Viewed
  <1>3. PICK r \in DOMAIN runs : r = sub.run /\ sub \in Subs /\ r = cinemaRun
    BY <1>1 DEF Viewed, Watching, Subs
  <1>4. PICK s \in Subs : s = sub /\ s.run = r /\ s.upto \in Nat /\ s.buffered \in Nat /\ s.state = "open"
    BY <1>1, <1>3 DEF Subs
  <1>5. PICK log \in 0 .. Len(Script(r)) : log = runs[r].log
    BY DEF Viewed, Watching
  <1>6. PICK n \in Nat : n = s.upto + 1 /\ n <= log /\ log \in Nat /\ s.buffered \in 0 .. log
    <2>1. log \in Nat /\ s.upto < log /\ s.buffered <= log
      BY <1>1, <1>3, <1>4, <1>5, ScriptOf DEF Viewed, Watching, Deliver
    <2> QED
      BY <1>4, <2>1
  <1>7. PICK t \in Subs : t = sub' /\ t.run = r /\ t.state = "open" /\ t.buffered = s.buffered /\ t.upto = n
    <2>1. sub' = [s EXCEPT !.upto = n]
      BY <1>4, <1>6 DEF Deliver
    <2>2. PICK t : t = [s EXCEPT !.upto = n]
      OBVIOUS
    <2>3. t \in Subs /\ t.run = r /\ t.state = "open" /\ t.buffered = s.buffered /\ t.upto = n
      BY <1>4, <1>6, <2>2 DEF Subs
    <2> QED
      BY <2>1, <2>2, <2>3
  <1>8. PICK e : e = Event(r, n)
    OBVIOUS
  <1>9. PICK c, new : c = cinema /\ new = Processed(c, e) /\ new = cinema'
    <2>1. cinema' = AllProcessed(cinema, <<e>>)
      BY <1>3, <1>4, <1>6, <1>8 DEF Deliver, Handle
    <2> QED
      BY <2>1, OneProcessed
  <1>10. DOMAIN c = Hook /\ c.mode = "live"
    BY <1>9 DEF Viewed, Watching
  <1>11. DOMAIN new = Hook /\ new.active = c.active /\ new.mode = "live"
    <2>1. DOMAIN new = Hook /\ new.active = c.active /\ new.mode = c.mode
      <3>1. new = Processed(c, e) /\ DOMAIN c = Hook
        BY <1>9, <1>10
      <3> QED
        BY <3>1, ProcessedFields
    <2> QED
      BY <1>10, <2>1, Zenon
  <1>12. PICK saw : saw = seen /\ seen' = saw \cup {n}
    BY <1>4, <1>6 DEF Deliver
  <1>13. t # None
    BY SubIsThere
  <1>14. Watching'
    <2>1. t.buffered <= log /\ t.upto <= log
      BY <1>6, <1>7
    <2> QED
      BY <1>1, <1>3, <1>5, <1>7, <1>9, <1>11, <1>13, <2>1, StillWatching DEF Viewed
  <1>15. Following'
    <2>1. ASSUME new.active, ~ astray, ~ spoiled
          PROVE  Follow(Script(r), log, new.view, new.done, t, saw \cup {n})
      <3>1. Follow(Script(r), log, c.view, c.done, s, saw)
        BY <1>1, <1>3, <1>4, <1>5, <1>9, <1>11, <1>12, <2>1 DEF Viewed, Following
      <3>2. PICK evs : evs = Script(r)
        OBVIOUS
      <3>3. Len(evs) \in Nat /\ \A j \in 1 .. Len(evs) : WellMade(evs[j])
        BY <3>2, ScriptOf
      <3>4. Alike(e, evs[n])
        <4>1. n \in 1 .. Len(evs)
          <5>1. PICK len \in Nat : len = Len(evs) /\ len = Len(Script(r))
            BY <3>2, <3>3
          <5>2. log <= len /\ 1 <= n /\ n <= log
            BY <1>4, <1>5, <1>6, <5>1
          <5>3. n \in 1 .. len
            BY <1>6, <5>1, <5>2
          <5> QED
            BY <5>1, <5>3
        <4> QED
          BY <1>8, <3>2, <4>1, ScriptOf
      <3>5. Follow(evs, log, c.view, c.done, s, saw) /\ log \in 0 .. Len(evs) /\ c.active
        BY <1>5, <1>11, <2>1, <3>1, <3>2
      <3>6. Follow(evs, log, new.view, new.done, t, saw \cup {n})
        BY <1>4, <1>6, <1>7, <1>9, <1>10, <3>3, <3>4, <3>5, FollowDeliver, ZenonT(60)
      <3> QED
        BY <3>2, <3>6
    <2>2. PICK view, done, sees : view = new.view /\ done = new.done /\ sees = saw \cup {n}
      OBVIOUS
    <2>3. view = cinema'.view /\ done = cinema'.done /\ sees = seen'
      BY <1>9, <1>12, <2>2
    <2>4. sub' # None /\ cinema'.active /\ ~ astray' /\ ~ spoiled' => Follow(Script(r), log, view, done, t, sees)
      BY <1>1, <1>9, <2>1, <2>2, Zenon
    <2> QED
      BY <1>1, <1>5, <1>7, <2>3, <2>4, StillFollowing DEF Viewed
  <1> QED
    BY <1>2, <1>14, <1>15 DEF Viewed

LEMMA StepFollows ==
  ASSUME Truth, Viewed, Builder
  PROVE  Viewed'
  <1>1. CASE ClickRun \/ ClickRerun \/ ClearRunResults \/ Tick
    <2>1. runs' = runs /\ UNCHANGED <<liveVars, cinemaVars>> /\ \A c \in calls' : c.kind = "begun" => c \in calls
      BY <1>1 DEF ClickRun, ClickRerun, ClearRunResults, Tick
    <2> QED
      BY <2>1, StayingLonger, QuietFollows DEF Viewed
  <1>2. ASSUME NEW c \in calls, Respond(c) PROVE Viewed'
    <2>1. CASE Serve(c) \/ SaveArrives(c) \/ StartFails(c) \/ PollArrives(c) \/ PollFails(c) \/ DetailArrives(c)
               \/ DebugArrives(c) \/ (StartArrives(c) /\ ~ c.live)
      <3>1. runs' = runs /\ UNCHANGED <<liveVars, cinemaVars>>
        BY <2>1 DEF Serve, SaveArrives, StartFails, PollArrives, PollFails, DetailArrives, DebugArrives, StartArrives
      <3>2. \A d \in calls' : d.kind = "begun" => d \in calls
        <4>1. CASE SaveArrives(c)
          <5>1. PICK new : new = [c EXCEPT !.kind = "start"]
            OBVIOUS
          <5>2. new.kind = "start"
            BY <5>1 DEF Truth, CallOf
          <5> QED
            BY <4>1, <5>1, <5>2 DEF SaveArrives
        <4>2. CASE ~ SaveArrives(c)
          BY <2>1, <4>2 DEF Serve, StartFails, PollArrives, PollFails, DetailArrives, DebugArrives, StartArrives
        <4> QED
          BY <4>1, <4>2
      <3> QED
        BY <3>1, <3>2, StayingLonger, QuietFollows DEF Viewed
    <2> QED
      BY <1>2, <2>1, LiveFollows, StartFollows, RerunFollows DEF Respond
  <1>3. ASSUME NEW r \in DOMAIN runs, Progress(r) PROVE Viewed'
    <2>1. UNCHANGED <<liveVars, cinemaVars>> /\ calls' = calls
      BY <1>3 DEF Progress
    <2> QED
      BY <1>3, <2>1, ProgressLonger, QuietFollows DEF Viewed
  <1> QED
    BY <1>1, <1>2, <1>3, ToggleFollows, ConnectFollows, OpenFollows, DeliverFollows, ScrubFollows DEF Builder

-----------------------------------------------------------------------------
(* The badges of the nodes, without Live.                                  *)

(* Each step has one result at most.                                       *)
Decided(results) ==
  /\ results \subseteq Steps \X Statuses
  /\ \A i \in Steps, s, t \in Statuses : <<i, s>> \in results /\ <<i, t>> \in results => s = t

BadgesShow == detail # None /\ runStatus \in Statuses => \A r \in detail.results : badges[r[1]] = r[2]

(* Every answer under way decides its steps; and as long as nothing was    *)
(* followed live, the nodes show the run whose verdict is shown.           *)
Polling ==
  /\ \A c \in calls : c.kind = "got" => Decided(c.answer.results)
  /\ cinemaRun = None =>
       /\ \A c \in calls : c.kind \in {"get", "got"} => c.by = "poll"
       /\ ~ astray => ~ cinema.active /\ BadgesShow

LEMMA ResultsDecided ==
  ASSUME Truth, NEW r \in DOMAIN runs, NEW n \in 0 .. Len(Script(r))
  PROVE  Decided(Results(r, n))
  <1>1. PICK evs : evs = Script(r)
    OBVIOUS
  <1>2. PICK len \in Nat : len = Len(evs) /\ n \in 0 .. len
    BY <1>1, ScriptOf
  <1>3. ASSUME NEW j \in 1 .. n, Event(r, j).kind = "completed"
        PROVE  /\ j \in 1 .. len /\ evs[j].kind = "completed"
               /\ evs[j].step = Event(r, j).step /\ evs[j].status = Event(r, j).status
               /\ evs[j].step \in Steps /\ evs[j].status \in Statuses
    <2>1. j \in 1 .. len
      BY <1>2
    <2>2. WellMade(evs[j]) /\ Alike(Event(r, j), evs[j])
      BY <1>1, <1>2, <2>1, ScriptOf
    <2> QED
      BY <1>3, <2>1, <2>2 DEF WellMade, Alike
  <1>4. \A i, j \in 1 .. len :
          i < j /\ evs[i].kind = "completed" /\ evs[j].kind \in {"started", "completed"} => evs[i].step # evs[j].step
    BY <1>1, <1>2, ScriptOf
  <1>5. PICK results : results = Results(r, n)
    OBVIOUS
  <1>6. \A x \in results : \E j \in 1 .. n : Event(r, j).kind = "completed" /\ x = <<Event(r, j).step, Event(r, j).status>>
    BY <1>5 DEF Results
  <1>7. \A x \in results : \E j \in 1 .. len : /\ evs[j].kind = "completed" /\ x = <<evs[j].step, evs[j].status>>
                                               /\ evs[j].step \in Steps /\ evs[j].status \in Statuses
    BY <1>3, <1>6, Zenon
  <1>8. results \subseteq Steps \X Statuses
    BY <1>7
  <1>9. ASSUME NEW i \in Steps, NEW s \in Statuses, NEW t \in Statuses, <<i, s>> \in results, <<i, t>> \in results
        PROVE  s = t
    <2>1. PICK j \in 1 .. len : evs[j].kind = "completed" /\ <<i, s>> = <<evs[j].step, evs[j].status>>
      BY <1>7, <1>9, Zenon
    <2>2. PICK k \in 1 .. len : evs[k].kind = "completed" /\ <<i, t>> = <<evs[k].step, evs[k].status>>
      BY <1>7, <1>9, Zenon
    <2>3. evs[j].step = i /\ evs[j].status = s /\ evs[k].step = i /\ evs[k].status = t
      BY <2>1, <2>2
    <2>4. ~ (j < k) /\ ~ (k < j)
      BY <1>4, <2>1, <2>2, <2>3
    <2>5. j = k
      BY <1>2, <2>4
    <2> QED
      BY <2>3, <2>5
  <1> QED
    BY <1>5, <1>8, <1>9 DEF Decided

(* A result sets the badge of its node.                                    *)
LEMMA ResultsShow ==
  ASSUME NEW results, Decided(results), NEW old, NEW new, new = WithResults(old, results)
  PROVE  \A r \in results : new[r[1]] = r[2]
  <1> SUFFICES ASSUME NEW r \in results PROVE new[r[1]] = r[2]
    OBVIOUS
  <1>1. PICK i \in Steps, s \in Statuses : r = <<i, s>>
    BY DEF Decided
  <1>2. \E t \in Statuses : <<i, t>> \in results
    BY <1>1
  <1>3. PICK t : t = CHOOSE u \in Statuses : <<i, u>> \in results
    OBVIOUS
  <1>4. t \in Statuses /\ <<i, t>> \in results
    BY <1>2, <1>3
  <1>5. t = s
    BY <1>1, <1>4 DEF Decided
  <1>6. new[i] = t
    BY <1>2, <1>3 DEF WithResults
  <1> QED
    BY <1>1, <1>5, <1>6

LEMMA KeepsPolling ==
  ASSUME Polling, cinemaRun' = None => cinemaRun = None,
         \A c \in calls' :
           \/ c \in calls
           \/ c.kind \notin {"get", "got"}
           \/ (c.by = "poll" \/ cinemaRun' # None) /\ (c.kind = "got" => Decided(c.answer.results)),
         cinemaRun' = None /\ ~ astray' => ~ astray /\ (cinema'.active => cinema.active) /\ (BadgesShow => BadgesShow')
  PROVE  Polling'
  BY DEF Polling

LEMMA StepPolls ==
  ASSUME Truth, Viewed, Polling, Builder
  PROVE  Polling'
  <1>1. CASE ClickRun \/ ClearRunResults
    <2>1. UNCHANGED <<liveVars, cinemaVars>> /\ detail' = None
      BY <1>1 DEF ClickRun, ClearRunResults, liveVars
    <2>2. \A c \in calls' : c \in calls \/ c.kind \notin {"get", "got"}
      BY <1>1 DEF ClickRun, ClearRunResults
    <2> QED
      BY <2>1, <2>2, KeepsPolling DEF liveVars, cinemaVars, BadgesShow
  <1>2. CASE ClickRerun \/ Tick
    <2>1. UNCHANGED <<pageVars, liveVars, cinemaVars>>
      BY <1>2 DEF ClickRerun, Tick
    <2>2. \A c \in calls' : c \in calls \/ c.kind \notin {"get", "got"} \/ (c.kind = "get" /\ c.by = "poll")
      BY <1>2 DEF ClickRerun, Tick
    <2> QED
      BY <2>1, <2>2, KeepsPolling DEF pageVars, liveVars, cinemaVars, BadgesShow
  <1>3. CASE ToggleLive
    <2>1. UNCHANGED <<cinemaRun, astray, pageVars, calls>> /\ (cinema' = Off \/ cinema' = cinema)
      BY <1>3 DEF ToggleLive
    <2>2. cinema'.active => cinema.active
      BY <2>1 DEF Off
    <2> QED
      BY <2>1, <2>2, KeepsPolling DEF pageVars, BadgesShow
  <1>4. CASE Connect \/ Drop
    <2>1. UNCHANGED <<cinemaRun, pageVars, calls, cinemaVars>>
      BY <1>4 DEF Connect, Drop
    <2> QED
      BY <2>1, KeepsPolling DEF pageVars, cinemaVars, BadgesShow
  <1>5. CASE Open \/ Deliver
    <2>1. cinemaRun' = cinemaRun /\ cinemaRun # None
      BY <1>5 DEF Open, Deliver, Truth
    <2>2. calls' = calls \/ calls' = calls \cup {[kind |-> "get", by |-> "live", run |-> cinemaRun]}
      BY <1>5, Zenon DEF Open, Deliver, Handle
    <2>3. \A c \in calls' : c \in calls \/ c.kind = "get"
      BY <2>2
    <2> QED
      BY <2>1, <2>3, KeepsPolling
  <1>6. CASE Scrub
    <2>1. UNCHANGED <<cinemaRun, runStatus, detail, calls>>
      BY <1>6 DEF Scrub, liveVars
    <2>2. CASE Pause \/ Play
      <3>1. cinema.active /\ astray' = astray /\ (cinemaRun = None => astray)
        BY <2>2 DEF Pause, Play, Polling
      <3> QED
        BY <2>1, <3>1, KeepsPolling
    <2>3. CASE Reset \/ Seek(cinema.total)
      <3>1. cinema.mode = "live"
        BY DEF Viewed, Watching
      <3>2. astray'
        BY <2>3, <3>1 DEF Reset, Seek
      <3> QED
        BY <2>1, <3>2, KeepsPolling
    <2> QED
      BY <1>6, <2>2, <2>3 DEF Scrub
  <1>7. ASSUME NEW c \in calls, Respond(c) PROVE Polling'
    <2>1. CallOf(c)
      BY DEF Truth
    <2>2. CASE Serve(c)
      <3>1. UNCHANGED <<pageVars, liveVars, cinemaVars>> /\ c.kind = "get"
        BY <2>2 DEF Serve
      <3>2. PICK answer, new : /\ answer = Answer(c.run)
                               /\ new = [kind |-> "got", by |-> c.by, answer |-> answer]
        OBVIOUS
      <3>3. calls' = (calls \ {c}) \cup {new}
        BY <2>2, <3>2 DEF Serve
      <3>4. PICK r \in DOMAIN runs : r = c.run
        BY <2>1, <3>1 DEF CallOf
      <3>5. PICK n \in 0 .. Len(Script(r)) : n = runs[r].log
        BY DEF Viewed, Watching
      <3>6. answer.results = Results(r, n)
        BY <3>2, <3>4, <3>5 DEF Answer
      <3>7. new.kind = "got" /\ new.by = c.by /\ Decided(new.answer.results)
        BY <3>2, <3>6, ResultsDecided
      <3>8. new.by = "poll" \/ cinemaRun # None
        BY <3>1, <3>7 DEF Polling
      <3>9. cinemaRun' = cinemaRun /\ astray' = astray /\ cinema' = cinema /\ (BadgesShow => BadgesShow')
        BY <3>1 DEF pageVars, liveVars, cinemaVars, BadgesShow
      <3>10. \A d \in calls' : d \in calls \/ ((d.by = "poll" \/ cinemaRun' # None) /\ Decided(d.answer.results))
        BY <3>3, <3>7, <3>8, <3>9
      <3> QED
        BY <3>9, <3>10, KeepsPolling
    <2>3. CASE SaveArrives(c)
      <3>1. UNCHANGED <<liveVars, cinemaVars>> /\ runStatus' \in {"running", "error"}
        BY <2>3 DEF SaveArrives
      <3>2. PICK new : new = [c EXCEPT !.kind = "start"]
        OBVIOUS
      <3>3. calls' = calls \ {c} \/ calls' = (calls \ {c}) \cup {new}
        BY <2>3, <3>2 DEF SaveArrives
      <3>4. new.kind = "start"
        BY <2>1, <3>2 DEF CallOf
      <3>5. BadgesShow'
        BY <3>1 DEF BadgesShow, Statuses
      <3> QED
        BY <3>1, <3>3, <3>4, <3>5, KeepsPolling DEF liveVars, cinemaVars
    <2>4. CASE StartServed(c)
      <3>1. UNCHANGED <<pageVars, liveVars, cinemaVars>>
        BY <2>4 DEF StartServed
      <3>2. \A d \in calls' : d \in calls \/ d.kind = "begun"
        BY <2>4 DEF StartServed
      <3> QED
        BY <3>1, <3>2, KeepsPolling DEF pageVars, liveVars, cinemaVars, BadgesShow
    <2>5. CASE StartArrives(c)
      <3>1. calls' = calls \ {c} /\ c.run # None
        <4>1. c.kind = "begun" /\ calls' = calls \ {c}
          BY <2>5 DEF StartArrives
        <4> QED
          BY <2>1, <4>1, LenProperties, CinemaAssumption DEF CallOf, Truth
      <3>2. cinemaRun' = c.run \/ UNCHANGED <<runStatus, detail, badges, cinemaRun, cinema, astray>>
        BY <2>5 DEF StartArrives, liveVars, cinemaVars
      <3> QED
        BY <3>1, <3>2, KeepsPolling DEF BadgesShow
    <2>6. CASE StartFails(c) \/ PollFails(c)
      <3>1. UNCHANGED <<liveVars, cinemaVars>> /\ runStatus' = "error" /\ calls' = calls \ {c}
        BY <2>6 DEF StartFails, PollFails
      <3>2. BadgesShow'
        BY <3>1 DEF BadgesShow, Statuses
      <3> QED
        BY <3>1, <3>2, KeepsPolling DEF liveVars, cinemaVars
    <2>7. CASE PollArrives(c)
      <3>1. /\ UNCHANGED <<liveVars, cinemaVars>> /\ calls' = calls \ {c} /\ c.kind = "got"
            /\ detail' = c.answer /\ badges' = WithResults(badges, c.answer.results)
        BY <2>7 DEF PollArrives
      <3>2. PICK results : results = c.answer.results /\ Decided(results)
        BY <3>1 DEF Polling
      <3>3. PICK new : new = badges' /\ new = WithResults(badges, results)
        BY <3>1, <3>2
      <3>4. \A r \in results : new[r[1]] = r[2]
        BY <3>2, <3>3, ResultsShow
      <3>5. BadgesShow'
        BY <3>1, <3>2, <3>3, <3>4 DEF BadgesShow
      <3> QED
        BY <3>1, <3>5, KeepsPolling DEF liveVars, cinemaVars
    <2>8. CASE DetailArrives(c)
      <3>1. UNCHANGED <<liveVars, cinemaVars>> /\ calls' = calls \ {c} /\ c.kind = "got" /\ c.by = "live"
        BY <2>8 DEF DetailArrives
      <3>2. cinemaRun # None
        BY <3>1 DEF Polling
      <3> QED
        BY <3>1, <3>2, KeepsPolling DEF liveVars
    <2>9. CASE DebugArrives(c)
      <3>1. UNCHANGED <<liveVars, cinemaVars>> /\ calls' = calls \ {c} /\ detail'.results = {}
        BY <2>9 DEF DebugArrives
      <3>2. BadgesShow'
        BY <3>1 DEF BadgesShow
      <3> QED
        BY <3>1, <3>2, KeepsPolling DEF liveVars, cinemaVars
    <2>10. CASE RerunArrives(c)
      <3>1. UNCHANGED <<runStatus, detail, liveVars>> /\ calls' = calls \ {c}
        BY <2>10 DEF RerunArrives
      <3>2. astray' \/ UNCHANGED <<badges, cinema, astray>>
        BY <2>10 DEF RerunArrives, cinemaVars
      <3> QED
        BY <3>1, <3>2, KeepsPolling DEF liveVars, BadgesShow
    <2> QED
      BY <1>7, <2>2, <2>3, <2>4, <2>5, <2>6, <2>7, <2>8, <2>9, <2>10 DEF Respond
  <1>8. ASSUME NEW r \in DOMAIN runs, Progress(r) PROVE Polling'
    <2>1. UNCHANGED <<pageVars, liveVars, calls, cinemaVars>>
      BY <1>8 DEF Progress
    <2> QED
      BY <2>1, KeepsPolling DEF pageVars, liveVars, cinemaVars, BadgesShow
  <1> QED
    BY <1>1, <1>2, <1>3, <1>4, <1>5, <1>6, <1>7, <1>8 DEF Builder

-----------------------------------------------------------------------------
(* In each of the ways a run is shown.                                     *)

DiagramInv ==
  /\ Reeled
  /\ host = "player" => sub = None /\ detail = None
  /\ host = "builder" => Viewed /\ Polling

LEMMA SettledShows ==
  ASSUME Truth, Viewed
  PROVE  LiveSettles
  <1> SUFFICES ASSUME ~ spoiled, cinema.active, ~ astray, sub # None, sub.run = cinemaRun, Settled(sub)
               PROVE  /\ cinema.done
                      /\ \A x \in Results(sub.run, Length(sub.run)) : cinema.view[x[1]].status = x[2]
    BY DEF LiveSettles, ShowsAll
  <1>1. PICK r \in DOMAIN runs : r = sub.run
    BY DEF Viewed, Watching
  <1>2. PICK n \in Nat : n = Len(Script(r)) /\ n = Length(r)
    BY ScriptOf
  <1>3. PICK evs, s, view, done, saw : evs = Script(r) /\ s = sub /\ view = cinema.view /\ done = cinema.done /\ saw = seen
    OBVIOUS
  <1>4. s.state = "open" /\ runs[r].log = n /\ s.upto = n /\ s.buffered \in 0 .. n
    <2>1. s.state = "open" /\ runs[r].log = n /\ s.upto = n
      BY <1>1, <1>2, <1>3 DEF Settled
    <2>2. s.buffered \in Nat /\ s.buffered <= runs[r].log
      BY <1>1, <1>3 DEF Viewed, Watching
    <2> QED
      BY <2>1, <2>2
  <1>5. Follow(evs, n, view, done, s, saw)
    BY <1>1, <1>3, <1>4 DEF Viewed, Following
  <1>6. /\ \A j \in 1 .. n : evs[j].kind = "ended" => done
        /\ \A j \in 1 .. n : evs[j].kind = "completed" /\ evs[j].step \in Steps => view[evs[j].step].status = evs[j].status
    <2>1. \A i, j \in 1 .. Len(evs) :
            i < j /\ evs[i].kind = "completed" /\ evs[j].kind \in {"started", "completed"} => evs[i].step # evs[j].step
      BY <1>3, ScriptOf
    <2>2. n = Len(evs)
      BY <1>2, <1>3
    <2> QED
      BY <1>4, <1>5, <2>1, <2>2, FollowSettles
  <1>7. cinema.done
    <2>1. \E j \in 1 .. n : evs[j].kind = "ended"
      BY <1>2, <1>3, ScriptOf
    <2> QED
      BY <1>3, <1>6, <2>1
  <1>8. ASSUME NEW x \in Results(sub.run, Length(sub.run))
        PROVE  cinema.view[x[1]].status = x[2]
    <2>1. PICK j \in 1 .. n : Event(r, j).kind = "completed" /\ x = <<Event(r, j).step, Event(r, j).status>>
      BY <1>1, <1>2, <1>8 DEF Results
    <2>2. WellMade(evs[j]) /\ Alike(Event(r, j), evs[j])
      BY <1>2, <1>3, ScriptOf
    <2>3. evs[j].kind = "completed" /\ evs[j].step \in Steps /\ evs[j].step = x[1] /\ evs[j].status = x[2]
      BY <2>1, <2>2 DEF WellMade, Alike
    <2> QED
      BY <1>3, <1>6, <2>3
  <1> QED
    BY <1>7, <1>8

LEMMA DiagramStays == BRSpec => []DiagramInv
  <1>1. BRInit => DiagramInv
    <2> SUFFICES ASSUME BRInit PROVE DiagramInv
      OBVIOUS
    <2>1. /\ cinema = Off /\ film = << >> /\ last = None /\ astray = FALSE /\ detail = None /\ sub = None /\ seen = {}
          /\ runs = << >> /\ cinemaRun = None
      BY DEF BRInit, CinemaInit
    <2>2. DOMAIN cinema = Hook /\ cinema.mode = "live" /\ ~ cinema.active /\ cinema.cur = 0
      BY <2>1 DEF Off, Hook
    <2>3. Numbered(film)
      BY <2>1, EmptySeq, LenProperties DEF Numbered
    <2>4. Reeled
      BY <2>1, <2>2, <2>3 DEF Reeled
    <2>5. \A c \in calls : c = [kind |-> "debug"]
      BY BuilderRunAssumption DEF BRInit
    <2>6. Viewed
      BY <2>1, <2>2, <2>5 DEF Viewed, Watching, Following, Begun
    <2>7. Polling
      BY <2>1, <2>2, <2>5 DEF Polling, BadgesShow
    <2> QED
      BY <2>1, <2>4, <2>6, <2>7 DEF DiagramInv
  <1>2. ChainInv /\ Truth /\ DiagramInv /\ [BRNext]_brVars => DiagramInv'
    <2> SUFFICES ASSUME ChainInv, Truth, DiagramInv, [BRNext]_brVars PROVE DiagramInv'
      OBVIOUS
    <2>1. CASE host = "builder" /\ Builder
      <3>1. host' = host
        BY <2>1 DEF Builder, ClickRun, ClickRerun, ClearRunResults, Tick, Connect, Drop, Open, Deliver, ToggleLive, Scrub,
                    Respond, Serve, SaveArrives, StartServed, StartArrives, StartFails, PollArrives, PollFails,
                    DetailArrives, DebugArrives, RerunArrives, Progress, worldVars
      <3>2. Viewed' /\ Polling'
        BY <2>1, StepFollows, StepPolls DEF DiagramInv
      <3> QED
        BY <2>1, <3>1, <3>2 DEF DiagramInv, Reeled
    <2>2. CASE host = "player" /\ Player
      <3>1. host' = host /\ sub' = sub /\ detail' = detail /\ ReplayNext
        BY <2>2 DEF Player, worldVars, pageVars, liveVars
      <3>2. Reeled'
        BY <2>2, <3>1, PlayerKeepsReeled DEF DiagramInv
      <3> QED
        BY <2>2, <3>1, <3>2 DEF DiagramInv
    <2>3. CASE UNCHANGED brVars
      <3>1. UNCHANGED <<host, film, cinema, last, astray, sub, detail, seen, spoiled, live, cinemaRun, calls, runs, runStatus, badges>>
        BY <2>3 DEF brVars, pageVars, liveVars, worldVars, cinemaVars
      <3>2. Reeled'
        BY <3>1 DEF DiagramInv, Reeled
      <3>3. host = "builder" => Viewed' /\ Polling'
        <4> SUFFICES ASSUME host = "builder" PROVE Viewed' /\ Polling'
          OBVIOUS
        <4>1. Viewed /\ Polling
          BY DEF DiagramInv
        <4>2. Viewed'
          <5>1. UNCHANGED <<liveVars, cinemaVars>> /\ runs' = runs /\ calls' = calls
            BY <2>3 DEF brVars
          <5>2. Longer
            BY <4>1, <5>1, StayingLonger DEF Viewed
          <5> QED
            BY <4>1, <5>1, <5>2, QuietFollows
        <4>3. Polling'
          BY <3>1, <4>1, KeepsPolling DEF BadgesShow
        <4> QED
          BY <4>2, <4>3
      <3> QED
        BY <3>1, <3>2, <3>3 DEF DiagramInv
    <2> QED
      BY <2>1, <2>2, <2>3 DEF BRNext
  <1> QED
    BY <1>1, <1>2, ChainStays, TruthStays, PTL DEF BRSpec

(* Played from a recording, watched live, or polled: the diagram shows     *)
(* what the run's steps came to, however its events, the answers and the   *)
(* clicks follow each other, with the exceptions each of the three has.    *)
THEOREM DiagramIsTrue == BRSpec => []DiagramShowsRun
  <1>1. ChainInv /\ Truth /\ DiagramInv => DiagramShowsRun
    <2> SUFFICES ASSUME ChainInv, Truth, DiagramInv PROVE DiagramShowsRun
      OBVIOUS
    <2>1. host \in {"builder", "player"}
      BY DEF ChainInv, Reel
    <2>2. CASE host = "builder"
      <3>1. Viewed /\ Polling
        BY <2>2 DEF DiagramInv
      <3>2. ShowsPrefix
        BY <3>1 DEF ShowsPrefix, Viewed, Watching
      <3>3. LiveSettles
        BY <3>1, SettledShows
      <3>4. BadgesMatch
        BY <3>1 DEF BadgesMatch, Polling, BadgesShow
      <3> QED
        BY <3>2, <3>3, <3>4 DEF DiagramShowsRun
    <2>3. CASE host = "player"
      <3>1. Reeled /\ sub = None /\ detail = None
        BY <2>3 DEF DiagramInv
      <3>2. ShowsPrefix
        BY <2>3, <3>1 DEF ShowsPrefix, Reeled
      <3>3. LiveSettles /\ BadgesMatch
        BY <3>1 DEF LiveSettles, ShowsAll, BadgesMatch
      <3> QED
        BY <3>2, <3>3 DEF DiagramShowsRun
    <2> QED
      BY <2>1, <2>2, <2>3
  <1> QED
    BY <1>1, ChainStays, TruthStays, DiagramStays, PTL

=============================================================================
