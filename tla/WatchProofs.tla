---------------------------- MODULE WatchProofs -----------------------------
(***************************************************************************)
(* What TLAPS proves of the pages that watch over the tests, and of what   *)
(* stores what they show.                                                  *)
(* Alerts, for any rules, any number of runs that end and evaluations      *)
(* under way at once, and any changes meanwhile: a rule has one open       *)
(* incident at most, no failed run passes a rule by, and no stored rule    *)
(* can never fire.  Gates, for any tests, any number of evaluations that   *)
(* overlap and any breaks: no candidate stays "evaluating" without an      *)
(* evaluation, and no results are a mixture of two.  Schedules, for any    *)
(* schedules, any number of requests whose handlers interleave and any     *)
(* restarts: the cron manager has the jobs the table asks for.  Their      *)
(* pages and the pages about runs, for any requests that overlap or fail:  *)
(* what is shown at rest is what is stored.  The confidence score, for any *)
(* signals: it is theirs, and no better than a blocker allows.             *)
(***************************************************************************)
EXTENDS MCConsole, MCRunPages, SeqFilterProofs, SequenceTheorems, FiniteSetTheorems, FunctionTheorems, TLAPS

(***************************************************************************)
(* Alerts                                                                  *)
(***************************************************************************)

(* Incidents are rows of one shape.                                        *)
AltShapes ==
  \A i \in altIncidents : i \in [run : DOMAIN AltRuns, rule : AltIds, acked : BOOLEAN]

(* What an evaluation still has to do concerns rules it started with.      *)
EvalOf(x) ==
  /\ DOMAIN Eval(x) = {"todo", "now", "start", "seen", "gone"}
  /\ Eval(x) = [f \in DOMAIN Eval(x) |-> Eval(x)[f]]
  /\ Eval(x).todo \subseteq DOMAIN Eval(x).start
  /\ Eval(x).now \in DOMAIN Eval(x).start \cup {None}
  /\ DOMAIN Eval(x).start \subseteq AltIds

(* Its history is up to date: of the open incidents, of the rules deleted. *)
SeenOf(x) ==
  /\ \A r \in AltIds : Open(altIncidents, r) => r \in Eval(x).seen
  /\ \A r \in DOMAIN Eval(x).start : r \notin DOMAIN altRules => r \in Eval(x).gone

Fires(x, r) ==
  /\ AltRuns[x].failed
  /\ Eval(x).start[r].cond = "run_failed"
  /\ ScopeMatches(Eval(x).start[r], AltRuns[x])

(* A rule the run fires is still to be looked at, or is accounted for.     *)
DueOf(x) ==
  \A r \in DOMAIN Eval(x).start : Fires(x, r) =>
    r \in Eval(x).todo \cup {Eval(x).now} \cup Eval(x).seen \cup Eval(x).gone

Evaluations ==
  /\ DOMAIN altEvals = DOMAIN AltRuns
  /\ altEvals = [x \in DOMAIN altEvals |-> altEvals[x]]
  /\ \A x \in DOMAIN AltRuns : Eval(x) # None => EvalOf(x) /\ SeenOf(x) /\ DueOf(x)

(* Rules are stored, and sent to be stored, complete.                      *)
Whole(r) ==
  {"cond", "threshold", "scope", "value"} \subseteq DOMAIN r /\ Complete(r)

Saves ==
  /\ DOMAIN altRules \subseteq AltIds
  /\ \A r \in DOMAIN altRules : Whole(altRules[r])
  /\ \A c \in altCalls :
       /\ DOMAIN c = {"kind", "id", "run", "data", "step", "n"}
       /\ c.kind \in {"create", "update"} => Whole(c.data)

AltIInv == AltShapes /\ OneOpenIncident /\ Evaluations /\ Saves

-----------------------------------------------------------------------------

LEMMA AltInitIInv == AltInit => AltIInv
  <1> SUFFICES ASSUME AltInit PROVE AltIInv
    OBVIOUS
  <1>1. AltShapes /\ OneOpenIncident
    BY DEF AltInit, AltShapes, OneOpenIncident
  <1>2. Evaluations
    BY DEF AltInit, Evaluations, Eval
  <1>3. Saves
    BY AlertsAssumption DEF AltInit, Saves, Whole, Rules
  <1> QED
    BY <1>1, <1>2, <1>3 DEF AltIInv

(* The form sends complete rules only.                                     *)
LEMMA CleanedIsWhole ==
  ASSUME NEW f \in Forms, Complete(f)
  PROVE  Whole(Cleaned(f))
  BY DEF Forms, Rules, Cleaned, Complete, Whole

-----------------------------------------------------------------------------
(* The page adds requests and takes answers; the tables and the            *)
(* evaluations are the server's.                                           *)

AltElsewhere ==
  /\ UNCHANGED <<altRules, altIncidents, altEvals>>
  /\ \A c \in altCalls' \ altCalls :
       /\ DOMAIN c = {"kind", "id", "run", "data", "step", "n"}
       /\ c.kind \in {"create", "update"} => Whole(c.data)

LEMMA AskedElsewhere ==
  ASSUME NEW kind, NEW r, NEW x, NEW data, AltAsk(kind, r, x, data),
         kind \in {"create", "update"} => Whole(data)
  PROVE  AltElsewhere
  BY DEF AltAsk, AltElsewhere

LEMMA UserElsewhere ==
  ASSUME AltUser
  PROVE  AltElsewhere
  <1>1. CASE AltRefresh
    BY <1>1 DEF AltRefresh, AltElsewhere
  <1>2. CASE AltSubmit
    <2>1. PICK f \in Forms :
            /\ Complete(f)
            /\ AltAsk(IF altPage.dialog.of = None THEN "create" ELSE "update",
                      altPage.dialog.of, None, Cleaned(f))
      BY <1>2 DEF AltSubmit
    <2> QED
      BY <2>1, CleanedIsWhole, AskedElsewhere
  <1>3. CASE AltClose
    BY <1>3 DEF AltClose, AltElsewhere
  <1>4. ASSUME NEW r, AltOpen(r) PROVE AltElsewhere
    BY <1>4 DEF AltOpen, AltElsewhere
  <1>5. ASSUME NEW r, AltToggle(r) PROVE AltElsewhere
    BY <1>5, AskedElsewhere DEF AltToggle
  <1>6. ASSUME NEW r, AltDelete(r) PROVE AltElsewhere
    BY <1>6, AskedElsewhere DEF AltDelete
  <1>7. ASSUME NEW i, AltAck(i) PROVE AltElsewhere
    BY <1>7, AskedElsewhere DEF AltAck
  <1> QED
    BY <1>1, <1>2, <1>3, <1>4, <1>5, <1>6, <1>7 DEF AltUser

LEMMA ArriveElsewhere ==
  ASSUME AltArrive \/ (\E i \in DOMAIN altLists : AltServeList(i)) \/ UNCHANGED altVars
  PROVE  AltElsewhere
  BY DEF AltArrive, AltListArrives, AltListFails, AltChanged, AltFails,
         AltServeList, altVars, AltElsewhere

LEMMA Cases ==
  ASSUME [AltNext]_altVars
  PROVE  \/ \E c \in altCalls : AltStore(c) \/ AltRefuse(c)
         \/ /\ UNCHANGED altCalls
            /\ \E x \in DOMAIN AltRuns :
                 \/ AltCreate(x) \/ AltRunEnds(x)
                 \/ \E r \in AltIds : AltCheck(x, r)
         \/ AltElsewhere
  BY UserElsewhere, ArriveElsewhere DEF AltNext, AltProgress, AltServer

(* Once nothing is stored, the invariant stands.                           *)
LEMMA ElsewhereStep ==
  ASSUME AltIInv, AltElsewhere
  PROVE  AltIInv'
  <1>1. (AltShapes /\ OneOpenIncident)'
    BY DEF AltIInv, AltShapes, OneOpenIncident, AltElsewhere
  <1>2. Evaluations'
    BY DEF AltIInv, Evaluations, EvalOf, SeenOf, DueOf, Fires, Eval, Open, AltElsewhere
  <1>3. Saves'
    BY DEF AltIInv, Saves, AltElsewhere
  <1> QED
    BY <1>1, <1>2, <1>3 DEF AltIInv

-----------------------------------------------------------------------------
(* What the handlers store.                                                *)

(* Moving a request to its next step changes nothing else of it.           *)
LEMMA ToKeepsSaves ==
  ASSUME Saves, NEW c \in altCalls, NEW step, AltTo(c, step), NEW d \in altCalls'
  PROVE  /\ DOMAIN d = {"kind", "id", "run", "data", "step", "n"}
         /\ d.kind \in {"create", "update"} => Whole(d.data)
  BY DEF Saves, AltTo

LEMMA RulesStep ==
  ASSUME Saves, NEW c \in altCalls, AltStore(c)
  PROVE  /\ DOMAIN altRules' \subseteq AltIds
         /\ \A r \in DOMAIN altRules' : Whole(altRules'[r])
  <1>1. CASE c.kind = "toggle"
    <2>1. altRules' = [s \in DOMAIN altRules |->
              IF s = c.id THEN [altRules[s] EXCEPT !.on = c.data.on] ELSE altRules[s]]
      BY <1>1 DEF AltStore
    <2>2. ASSUME NEW r \in DOMAIN altRules PROVE Whole(altRules'[r])
      BY <2>1, <2>2 DEF Saves, Whole, Complete
    <2> QED
      BY <2>1, <2>2 DEF Saves
  <1>2. CASE c.kind # "toggle"
    BY <1>2 DEF AltStore, Saves
  <1> QED
    BY <1>1, <1>2

(* An incident is acknowledged or goes with its rule, and none is opened.  *)
LEMMA IncidentsStep ==
  ASSUME AltShapes, OneOpenIncident, NEW c \in altCalls, AltStore(c)
  PROVE  /\ AltShapes' /\ OneOpenIncident'
         /\ \A r : Open(altIncidents', r) => Open(altIncidents, r)
  <1>1. CASE c.kind = "ack"
    <2> DEFINE Acked(i) == IF i.run = c.run /\ i.rule = c.id
                           THEN [i EXCEPT !.acked = TRUE] ELSE i
    <2>1. altIncidents' = {Acked(i) : i \in altIncidents}
      BY <1>1 DEF AltStore
    <2>2. ASSUME NEW i \in altIncidents
          PROVE  /\ Acked(i) \in [run : DOMAIN AltRuns, rule : AltIds, acked : BOOLEAN]
                 /\ ~ Acked(i).acked => Acked(i) = i
      BY <2>2 DEF AltShapes
    <2> HIDE DEF Acked
    <2>3. \A i \in altIncidents' : ~ i.acked => i \in altIncidents
      BY <2>1, <2>2
    <2> QED
      BY <2>1, <2>2, <2>3 DEF AltShapes, OneOpenIncident, Open
  <1>2. CASE c.kind # "ack"
    <2>1. altIncidents' \subseteq altIncidents
      BY <1>2 DEF AltStore
    <2> QED
      BY <2>1 DEF AltShapes, OneOpenIncident, Open
  <1> QED
    BY <1>1, <1>2

(* A deletion is recorded by the evaluations under way; nothing else the   *)
(* handlers store concerns them.                                           *)
LEMMA StoredEvaluations ==
  ASSUME AltIInv, NEW c \in altCalls, AltStore(c)
  PROVE  Evaluations'
  <1>1. \A r : Open(altIncidents', r) => Open(altIncidents, r)
    BY IncidentsStep DEF AltIInv
  <1>2. CASE c.kind = "delete"
    <2>1. /\ DOMAIN altRules' = DOMAIN altRules \ {c.id}
          /\ altEvals' = [x \in DOMAIN altEvals |->
                IF Eval(x) = None THEN None ELSE [Eval(x) EXCEPT !.gone = @ \cup {c.id}]]
      BY <1>2 DEF AltStore
    <2>2. ASSUME NEW x \in DOMAIN AltRuns, Eval(x)' # None
          PROVE  (EvalOf(x) /\ SeenOf(x) /\ DueOf(x))'
      <3>1. Eval(x) # None /\ EvalOf(x) /\ SeenOf(x) /\ DueOf(x)
        BY <2>1, <2>2 DEF AltIInv, Evaluations, Eval
      <3>2. Eval(x)' = [Eval(x) EXCEPT !.gone = @ \cup {c.id}]
        BY <2>1, <3>1 DEF AltIInv, Evaluations, Eval
      <3>3. EvalOf(x)'
        BY <3>1, <3>2 DEF EvalOf
      <3>4. SeenOf(x)'
        BY <1>1, <2>1, <3>1, <3>2 DEF SeenOf, EvalOf
      <3>5. DueOf(x)'
        BY <3>1, <3>2 DEF DueOf, Fires, EvalOf
      <3> QED
        BY <3>3, <3>4, <3>5
    <2>3. DOMAIN altEvals' = DOMAIN AltRuns /\ altEvals' = [x \in DOMAIN altEvals' |-> altEvals'[x]]
      BY <2>1 DEF AltIInv, Evaluations
    <2> QED
      BY <2>2, <2>3 DEF Evaluations
  <1>3. CASE c.kind # "delete"
    <2>1. UNCHANGED altEvals /\ DOMAIN altRules \subseteq DOMAIN altRules'
      BY <1>3 DEF AltStore
    <2>2. ASSUME NEW x \in DOMAIN AltRuns, Eval(x) # None PROVE SeenOf(x)'
      BY <1>1, <2>1, <2>2 DEF AltIInv, Evaluations, SeenOf, Eval
    <2> QED
      BY <2>1, <2>2 DEF AltIInv, Evaluations, EvalOf, DueOf, Fires, Eval
  <1> QED
    BY <1>2, <1>3

LEMMA HandlerStep ==
  ASSUME AltIInv, NEW c \in altCalls, AltStore(c) \/ AltRefuse(c)
  PROVE  AltIInv'
  <1>1. CASE AltStore(c)
    <2>1. AltTo(c, "done")
      BY <1>1 DEF AltStore
    <2>2. Saves'
      BY <1>1, <2>1, RulesStep, ToKeepsSaves DEF AltIInv, Saves
    <2> QED
      BY <1>1, <2>2, IncidentsStep, StoredEvaluations DEF AltIInv
  <1>2. CASE AltRefuse(c)
    <2>1. AltTo(c, "failed") /\ UNCHANGED <<altRules, altIncidents, altEvals>>
      BY <1>2 DEF AltRefuse
    <2>2. Saves'
      BY <2>1, ToKeepsSaves DEF AltIInv, Saves
    <2>3. Evaluations'
      BY <2>1 DEF AltIInv, Evaluations, EvalOf, SeenOf, DueOf, Fires, Eval, Open
    <2> QED
      BY <2>1, <2>2, <2>3 DEF AltIInv, AltShapes, OneOpenIncident
  <1> QED
    BY <1>1, <1>2
-----------------------------------------------------------------------------
(* What the evaluations do.                                                *)

LEMMA RunEndsStep ==
  ASSUME AltIInv, NEW x \in DOMAIN AltRuns, AltRunEnds(x), UNCHANGED altCalls
  PROVE  AltIInv'
  <1> DEFINE todo == {r \in DOMAIN altRules : altRules[r].on}
             new == [todo |-> todo, now |-> None, start |-> [r \in todo |-> altRules[r]],
                     seen |-> {r \in AltIds : Open(altIncidents, r)}, gone |-> {}]
  <1>1. altEvals' = [altEvals EXCEPT ![x] = new] /\ UNCHANGED <<altRules, altIncidents>>
    BY DEF AltRunEnds
  <1>2. Eval(x)' = new
    BY <1>1 DEF AltIInv, Evaluations, Eval
  <1>3. (EvalOf(x) /\ SeenOf(x) /\ DueOf(x))'
    <2>a. /\ DOMAIN new = {"todo", "now", "start", "seen", "gone"}
          /\ new = [f \in DOMAIN new |-> new[f]]
      OBVIOUS
    <2>b. /\ new.todo = todo /\ new.now = None
          /\ DOMAIN new.start = todo /\ todo \subseteq AltIds
      BY DEF AltIInv, Saves
    <2>1. EvalOf(x)'
      BY <1>2, <2>a, <2>b DEF EvalOf
    <2>2. SeenOf(x)'
      BY <1>1, <1>2 DEF SeenOf, Open
    <2>3. DueOf(x)'
      BY <1>2 DEF DueOf
    <2> QED
      BY <2>1, <2>2, <2>3
  <1>4. ASSUME NEW y \in DOMAIN AltRuns, y # x, Eval(y)' # None
        PROVE  (EvalOf(y) /\ SeenOf(y) /\ DueOf(y))'
    <2>1. Eval(y)' = Eval(y)
      BY <1>1, <1>4 DEF AltIInv, Evaluations, Eval
    <2> QED
      BY <1>1, <1>4, <2>1 DEF AltIInv, Evaluations, EvalOf, SeenOf, DueOf, Fires, Open
  <1>5. Evaluations'
    BY <1>1, <1>3, <1>4 DEF AltIInv, Evaluations
  <1> QED
    BY <1>1, <1>5 DEF AltIInv, AltShapes, OneOpenIncident, Saves

(* A rule leaves the list of those to look at accounted for: what the run  *)
(* fires is open already, is about to be opened, or failed to be.          *)
LEMMA CheckStep ==
  ASSUME AltIInv, NEW x \in DOMAIN AltRuns, NEW r \in AltIds, AltCheck(x, r), UNCHANGED altCalls
  PROVE  AltIInv'
  <1> USE DEF AltIInv
  <1>1. /\ Eval(x) # None /\ r \in Eval(x).todo /\ Eval(x).now = None
        /\ EvalOf(x) /\ SeenOf(x) /\ DueOf(x)
        /\ UNCHANGED <<altRules, altIncidents>>
    BY DEF AltCheck, Evaluations
  <1>2. PICK now \in {None, r}, gone \in {{}, {r}} :
          /\ altEvals' = [altEvals EXCEPT ![x] =
                [Eval(x) EXCEPT !.todo = @ \ {r}, !.now = now, !.gone = @ \cup gone]]
          /\ Fires(x, r) => now = r \/ r \in gone \/ Open(altIncidents, r)
    <2> DEFINE rule == Eval(x).start[r]
               skip(gone) == altEvals' = [altEvals EXCEPT ![x].todo = @ \ {r}, ![x].gone = @ \cup gone]
    <2>0. /\ Eval(x) = [Eval(x) EXCEPT !.now = None]
          /\ Eval(x) = [Eval(x) EXCEPT !.gone = @ \cup {}]
      BY <1>1 DEF EvalOf
    <2>1. ASSUME NEW gone, skip(gone)
          PROVE  altEvals' = [altEvals EXCEPT ![x] =
                   [Eval(x) EXCEPT !.todo = @ \ {r}, !.now = None, !.gone = @ \cup gone]]
      <3>1. DOMAIN altEvals = DOMAIN AltRuns /\ altEvals = [y \in DOMAIN altEvals |-> altEvals[y]]
        BY DEF Evaluations
      <3>2. DOMAIN altEvals[x] = {"todo", "now", "start", "seen", "gone"} /\ altEvals[x].now = None
            /\ altEvals[x] = [f \in DOMAIN altEvals[x] |-> altEvals[x][f]]
        BY <1>1 DEF EvalOf, Eval
      <3>3. [altEvals[x] EXCEPT !.todo = @ \ {r}, !.now = None, !.gone = @ \cup gone]
            = [altEvals[x] EXCEPT !.todo = @ \ {r}, !.gone = @ \cup gone]
        BY <3>2
      <3> HIDE DEF AltIInv
      <3> QED
        BY <2>1, <3>1, <3>3 DEF Eval
    <2>2. CASE ~ ScopeMatches(rule, AltRuns[x]) /\ skip({})
      BY <2>1, <2>2 DEF Fires
    <2>3. ASSUME NEW fired \in Outcomes(rule, AltRuns[x]), ~ fired, skip({})
          PROVE  \E now \in {None, r}, gone \in {{}, {r}} :
            /\ altEvals' = [altEvals EXCEPT ![x] =
                  [Eval(x) EXCEPT !.todo = @ \ {r}, !.now = now, !.gone = @ \cup gone]]
            /\ Fires(x, r) => now = r \/ r \in gone \/ Open(altIncidents, r)
      BY <2>1, <2>3 DEF Fires, Outcomes
    <2>4. CASE skip({r})
      BY <2>1, <2>4
    <2>5. CASE Open(altIncidents, r) /\ skip({})
      BY <2>1, <2>5
    <2>6. CASE altEvals' = [altEvals EXCEPT ![x].todo = @ \ {r}, ![x].now = r]
      <3>1. altEvals' = [altEvals EXCEPT ![x] =
               [Eval(x) EXCEPT !.todo = @ \ {r}, !.now = r, !.gone = @ \cup {}]]
        <4>1. DOMAIN altEvals = DOMAIN AltRuns /\ altEvals = [y \in DOMAIN altEvals |-> altEvals[y]]
          BY DEF Evaluations
        <4>2. DOMAIN altEvals[x] = {"todo", "now", "start", "seen", "gone"}
              /\ altEvals[x] = [f \in DOMAIN altEvals[x] |-> altEvals[x][f]]
          BY <1>1 DEF EvalOf, Eval
        <4>3. [altEvals[x] EXCEPT !.todo = @ \ {r}, !.now = r, !.gone = @ \cup {}]
              = [altEvals[x] EXCEPT !.todo = @ \ {r}, !.now = r]
          BY <4>2
        <4> HIDE DEF AltIInv
        <4> QED
          BY <2>6, <4>1, <4>3 DEF Eval
      <3> QED
        BY <3>1
    <2> QED
      BY <2>2, <2>3, <2>4, <2>5, <2>6 DEF AltCheck
  <1>3. Eval(x)' = [Eval(x) EXCEPT !.todo = @ \ {r}, !.now = now, !.gone = @ \cup gone]
    BY <1>2 DEF Evaluations, Eval
  <1>4. (EvalOf(x) /\ SeenOf(x) /\ DueOf(x))'
    <2>1. EvalOf(x)'
      <3> DEFINE old == Eval(x)
                 new == Eval(x)'
      <3>1. DOMAIN old = {"todo", "now", "start", "seen", "gone"}
        BY <1>1 DEF EvalOf
      <3>2. /\ DOMAIN new = DOMAIN old /\ new = [f \in DOMAIN new |-> new[f]]
            /\ new.todo = old.todo \ {r} /\ new.now = now /\ new.start = old.start
        BY <1>3, <3>1
      <3>3. r \in DOMAIN old.start
        BY <1>1 DEF EvalOf
      <3> HIDE DEF AltIInv, old, new
      <3>4. EvalOf(x) <=>
              /\ DOMAIN old = {"todo", "now", "start", "seen", "gone"}
              /\ old = [f \in DOMAIN old |-> old[f]]
              /\ old.todo \subseteq DOMAIN old.start
              /\ old.now \in DOMAIN old.start \cup {None}
              /\ DOMAIN old.start \subseteq AltIds
        BY DEF EvalOf, old
      <3>5. /\ DOMAIN new = {"todo", "now", "start", "seen", "gone"}
            /\ new.todo \subseteq DOMAIN new.start
            /\ new.now \in DOMAIN new.start \cup {None}
            /\ DOMAIN new.start \subseteq AltIds
        BY <1>1, <3>1, <3>2, <3>3, <3>4
      <3> QED
        BY <3>2, <3>5 DEF EvalOf, new
    <2>2. SeenOf(x)'
      BY <1>1, <1>3 DEF SeenOf, EvalOf, Open
    <2>3. DueOf(x)'
      <3> SUFFICES ASSUME NEW s \in DOMAIN Eval(x).start, Fires(x, s)
                   PROVE  s \in (Eval(x).todo \cup {Eval(x).now} \cup Eval(x).seen \cup Eval(x).gone)'
        BY <1>1, <1>3 DEF DueOf, Fires, EvalOf
      <3>1. CASE s = r
        BY <1>1, <1>2, <1>3, <3>1 DEF EvalOf, SeenOf
      <3>2. CASE s # r
        <4>1. s # None
          BY <1>1, AlertsAssumption DEF EvalOf
        <4> QED
          BY <1>1, <1>3, <3>2, <4>1 DEF EvalOf, DueOf
      <3> QED
        BY <3>1, <3>2
    <2> QED
      BY <2>1, <2>2, <2>3
  <1>5. ASSUME NEW y \in DOMAIN AltRuns, y # x, Eval(y)' # None
        PROVE  (EvalOf(y) /\ SeenOf(y) /\ DueOf(y))'
    <2>1. Eval(y)' = Eval(y)
      BY <1>2, <1>5 DEF Evaluations, Eval
    <2> QED
      BY <1>1, <1>5, <2>1 DEF Evaluations, EvalOf, SeenOf, DueOf, Fires, Open
  <1>6. Evaluations'
    BY <1>2, <1>4, <1>5 DEF Evaluations
  <1> QED
    BY <1>1, <1>6 DEF AltShapes, OneOpenIncident, Saves

(* The insert that two evaluations of a rule race for succeeds once; the   *)
(* one that loses finds the incident open, or the rule gone.               *)
LEMMA CreateStep ==
  ASSUME AltIInv, NEW x \in DOMAIN AltRuns, AltCreate(x), UNCHANGED altCalls
  PROVE  AltIInv'
  <1> USE DEF AltIInv
  <1> DEFINE n == Eval(x).now
             new == [run |-> x, rule |-> n, acked |-> FALSE]
  <1>1. /\ Eval(x) # None /\ n # None /\ EvalOf(x)
        /\ altIncidents' = Inserted(altIncidents, altRules, x, n)
        /\ UNCHANGED altRules
    BY DEF AltCreate, Evaluations
  <1>2. n \in AltIds
    BY <1>1 DEF EvalOf
  <1>2a. /\ new \in [run : DOMAIN AltRuns, rule : AltIds, acked : BOOLEAN]
         /\ new.rule = n /\ ~ new.acked
    BY <1>2
  <1>2b. Inserted(altIncidents, altRules, x, n) =
          IF n \notin DOMAIN altRules \/ Open(altIncidents, n) THEN altIncidents
          ELSE altIncidents \cup {new}
    BY DEF Inserted
  <1> HIDE DEF new
  <1>3. /\ altIncidents' \in {altIncidents, altIncidents \cup {new}}
        /\ altIncidents' # altIncidents => ~ Open(altIncidents, n)
        /\ n \in DOMAIN altRules => Open(altIncidents', n)
    <2>1. CASE n \notin DOMAIN altRules \/ Open(altIncidents, n)
      BY <1>1, <1>2b, <2>1
    <2>2. CASE n \in DOMAIN altRules /\ ~ Open(altIncidents, n)
      BY <1>1, <1>2a, <1>2b, <2>2 DEF Open
    <2> QED
      BY <2>1, <2>2
  <1>4. AltShapes' /\ OneOpenIncident'
    BY <1>2a, <1>3 DEF AltShapes, OneOpenIncident, Open
  <1>5. ASSUME NEW y \in DOMAIN AltRuns, Eval(y)' # None
        PROVE  (EvalOf(y) /\ SeenOf(y) /\ DueOf(y))'
    <2>1. Eval(y) # None /\ EvalOf(y) /\ SeenOf(y) /\ DueOf(y)
      BY <1>5 DEF AltCreate, Evaluations, Eval
    <2>2. Eval(y)' = [Eval(y) EXCEPT !.seen = @ \cup {r \in AltIds : Open(altIncidents', r)},
                                     !.now = IF y = x THEN None ELSE @]
      BY <2>1 DEF AltCreate, Evaluations, Eval
    <2>3. EvalOf(y)'
      BY <2>1, <2>2 DEF EvalOf
    <2>4. SeenOf(y)'
      BY <1>1, <2>1, <2>2 DEF SeenOf, EvalOf
    <2>5. DueOf(y)'
      <3> SUFFICES ASSUME NEW s \in DOMAIN Eval(y).start, Fires(y, s)
                   PROVE  s \in (Eval(y).todo \cup {Eval(y).now} \cup Eval(y).seen \cup Eval(y).gone)'
        BY <2>1, <2>2 DEF DueOf, Fires, EvalOf
      <3>1. CASE y = x /\ s = n
        BY <1>1, <1>2, <1>3, <2>1, <2>2, <3>1 DEF SeenOf, EvalOf
      <3>2. CASE ~ (y = x /\ s = n)
        BY <2>1, <2>2, <3>2 DEF DueOf, EvalOf
      <3> QED
        BY <3>1, <3>2
    <2> QED
      BY <2>3, <2>4, <2>5
  <1>6. Evaluations'
    BY <1>5 DEF AltCreate, Evaluations
  <1> QED
    BY <1>1, <1>4, <1>6 DEF Saves

LEMMA AltStep == AltIInv /\ [AltNext]_altVars => AltIInv'
  BY Cases, ElsewhereStep, HandlerStep, RunEndsStep, CheckStep, CreateStep

LEMMA AltInvariance == AltSpec => []AltIInv
  BY AltInitIInv, AltStep, PTL DEF AltSpec

-----------------------------------------------------------------------------

(* Evaluations check for an open incident and insert in two steps; the     *)
(* unique index keeps a rule at one open incident, for any number of them. *)
THEOREM OneOpen == AltSpec => []OneOpenIncident
  <1>1. AltIInv => OneOpenIncident
    BY DEF AltIInv
  <1> QED
    BY <1>1, AltInvariance, PTL

(* And none of them passes a rule by: what loses the race for the insert   *)
(* has found the incident open.                                            *)
THEOREM NoneMissed == AltSpec => []NoFailureMissed
  <1>1. ASSUME AltIInv, NEW x \in DOMAIN AltRuns,
               Eval(x) # None, Eval(x).todo = {}, Eval(x).now = None,
               NEW r \in DOMAIN Eval(x).start, Fires(x, r)
        PROVE  r \in Eval(x).seen \cup Eval(x).gone
    <2>1. r # None
      BY <1>1, AlertsAssumption DEF AltIInv, Evaluations, EvalOf
    <2> QED
      BY <1>1, <2>1 DEF AltIInv, Evaluations, DueOf
  <1>2. AltIInv => NoFailureMissed
    BY <1>1 DEF NoFailureMissed, Fires
  <1> QED
    BY <1>2, AltInvariance, PTL

(* Whatever the dialogs and switches of the page send, together and in any *)
(* order, leaves every stored rule with what its condition needs.          *)
THEOREM EveryRuleCanFire == AltSpec => []RulesCanFire
  <1>1. AltIInv => RulesCanFire
    BY DEF AltIInv, Saves, Whole, RulesCanFire
  <1> QED
    BY <1>1, AltInvariance, PTL

-----------------------------------------------------------------------------
(***************************************************************************)
(* Release gates                                                           *)
(***************************************************************************)

OfOne == gatProduced \cup {NoResults}
Cand == [status : {"draft", "evaluating", "ready", "blocked"}, results : OfOne]

(* What a page knows of the gate names a candidate there is, or none.      *)
Shown == [status : {"not_configured", "evaluating", "no_baseline", "blocked", "ready"},
          cand : 0 .. Len(gatCands), evaluated : BOOLEAN]
Gate == {None} \cup Shown
Load == [gate : Gate, late : BOOLEAN, releases : BOOLEAN]

PageOf(page) == DOMAIN page = {"at", "gate", "loading", "busy", "modal"} /\ page.gate \in Gate

GatShapes ==
  /\ gatCands \in Seq(Cand)
  /\ gatLoads \in Seq(Load)
  /\ PageOf(gatPage)

(* A request is about a candidate there is, and what an evaluation read of *)
(* it to write it back is of one evaluation too.                           *)
CallOf(c) ==
  /\ DOMAIN c = {"kind", "cand", "from", "after", "step", "todo", "results", "old", "n"}
  /\ c.step \in {"read", "running"} => c.kind = "eval"
  /\ c.kind \in {"eval", "mark"} \/ c.step = "done" => c.cand \in 1 .. Len(gatCands)
  /\ c.old \in OfOne

GatIInv == GatShapes /\ (\A c \in gatCalls : CallOf(c)) /\ EvaluationsApart

-----------------------------------------------------------------------------

LEMMA LoadIsLoad ==
  ASSUME NEW releases \in BOOLEAN
  PROVE  GatLoad(releases) \in Load
  BY DEF GatLoad, Load, Gate

LEMMA OneLoad == <<GatLoad(FALSE)>> \in Seq(Load)
  <1>1. PICK load : load = GatLoad(FALSE)
    OBVIOUS
  <1>2. load \in Load
    BY <1>1, LoadIsLoad
  <1>3. <<load>> \in [1 .. 1 -> Load]
    BY <1>2
  <1>4. [1 .. 1 -> Load] \subseteq Seq(Load)
    BY SeqDef
  <1> QED
    BY <1>1, <1>3, <1>4

LEMMA MountShape ==
  ASSUME NEW place
  PROVE  PageOf(Mount(place))
  BY DEF PageOf, Mount, Gate

LEMMA GatInitIInv == GatInit => GatIInv
  <1> SUFFICES ASSUME GatInit PROVE GatIInv
    OBVIOUS
  <1>1. GatShapes
    <2>1. gatCands = <<>> /\ gatLoads = <<GatLoad(FALSE)>> /\ gatPage = Mount("landing")
      BY DEF GatInit
    <2>2. <<>> \in Seq(Cand)
      BY EmptySeq
    <2> QED
      BY <2>1, <2>2, OneLoad, MountShape DEF GatShapes
  <1>2. (\A c \in gatCalls : CallOf(c)) /\ EvaluationsApart
    BY DEF GatInit, EvaluationsApart, EvaluatingIsTrue, ResultsOfOneEvaluation
  <1> QED
    BY <1>1, <1>2 DEF GatIInv

(* Candidates and results are only added, so what was right remains so.    *)
Grown ==
  /\ gatCands' \in Seq(Cand)' /\ Len(gatCands) <= Len(gatCands')
  /\ gatProduced \subseteq gatProduced'

LEMMA GateStays ==
  ASSUME GatShapes, Grown
  PROVE  Gate \subseteq Gate' /\ Load \subseteq Load' /\ Seq(Load) \subseteq Seq(Load')
  <1>1. Len(gatCands) \in Nat /\ Len(gatCands') \in Nat
    BY DEF GatShapes, Grown
  <1>2. 0 .. Len(gatCands) \subseteq 0 .. Len(gatCands')
    BY <1>1 DEF Grown
  <1>3. Gate \subseteq Gate'
    BY <1>2 DEF Gate, Shown
  <1>4. Load \subseteq Load'
    BY <1>3 DEF Load
  <1> QED
    BY <1>3, <1>4

LEMMA CallStays ==
  ASSUME GatShapes, Grown, NEW c, CallOf(c)
  PROVE  CallOf(c)'
  <1>1. 1 .. Len(gatCands) \subseteq 1 .. Len(gatCands')
    BY DEF GatShapes, Grown
  <1>2. OfOne \subseteq OfOne'
    BY DEF Grown, OfOne
  <1> QED
    BY <1>1, <1>2 DEF CallOf

(* An evaluation that runs is still there afterwards, unless its candidate *)
(* is not evaluating any more or was cut off.                              *)
LEMMA StillEvaluating ==
  ASSUME EvaluatingIsTrue, UNCHANGED <<gatCands, gatLost>>,
         \A c \in gatCalls : Handled(c) => \E d \in gatCalls' : Handled(d) /\ d.cand = c.cand
  PROVE  EvaluatingIsTrue'
  BY DEF EvaluatingIsTrue

Typed ==
  /\ DOMAIN gatCands = 1 .. Len(gatCands) /\ Len(gatCands) \in Nat
  /\ \A i \in DOMAIN gatCands : gatCands[i].results \in OfOne

LEMMA ResultsTyped == GatShapes => Typed
  <1> SUFFICES ASSUME GatShapes PROVE Typed
    OBVIOUS
  <1>1. DOMAIN gatCands = 1 .. Len(gatCands) /\ Len(gatCands) \in Nat
    BY LenProperties DEF GatShapes
  <1>2. ASSUME NEW i \in DOMAIN gatCands PROVE gatCands[i].results \in OfOne
    <2>1. gatCands[i] \in Cand
      BY <1>1, <1>2, ElementOfSeq DEF GatShapes
    <2> QED
      BY <2>1 DEF Cand
  <1> QED
    BY <1>1, <1>2 DEF Typed

(* What an evaluation or a mark is about.                                  *)
LEMMA TargetThere ==
  ASSUME GatShapes, NEW c, CallOf(c), c.kind \in {"eval", "mark"} \/ c.step \in {"read", "running"}
  PROVE  c.cand \in 1 .. Len(gatCands) /\ gatCands[c.cand].results \in OfOne
  BY ResultsTyped DEF CallOf, Typed

-----------------------------------------------------------------------------
(* The service.                                                              *)

LEMMA Replaced ==
  ASSUME GatIInv, NEW c \in gatCalls, NEW d, gatCalls' = (gatCalls \ {c}) \cup {d}, CallOf(d)', Grown,
         UNCHANGED <<gatPage, gatLoads>>, EvaluatingIsTrue', gatBase' # None => gatBase' \in gatProduced'
  PROVE  GatIInv'
  <1>1. GatShapes'
    BY GateStays DEF GatIInv, GatShapes, Grown, PageOf
  <1>2. \A e \in gatCalls' : CallOf(e)'
    BY CallStays DEF GatIInv
  <1>3. Typed'
    BY <1>1, ResultsTyped, PTL
  <1> QED
    BY <1>1, <1>2, <1>3 DEF GatIInv, EvaluationsApart, ResultsOfOneEvaluation, Typed, OfOne

LEMMA ServeStep ==
  ASSUME GatIInv, NEW c \in gatCalls, GatServe(c)
  PROVE  GatIInv'
  <1> USE DEF GatIInv
  <1>0. /\ CallOf(c) /\ GatShapes /\ EvaluatingIsTrue
        /\ gatBase # None => gatBase \in gatProduced
        /\ UNCHANGED <<gatPage, gatLoads>>
    BY DEF GatServe, EvaluationsApart, ResultsOfOneEvaluation
  <1>1. CASE GatCreated(c)
    <2>1. PICK new : new = [status |-> "draft", results |-> NoResults]
      OBVIOUS
    <2>2. new \in Cand /\ new.status = "draft"
      BY <2>1 DEF Cand, OfOne
    <2>3. gatCands' = Append(gatCands, new) /\ UNCHANGED <<gatBase, gatLost, gatProduced>>
      BY <1>1, <2>1 DEF GatCreated
    <2>4. /\ gatCands' \in Seq(Cand) /\ Len(gatCands') = Len(gatCands) + 1
          /\ \A i \in DOMAIN gatCands : i \in DOMAIN gatCands' /\ gatCands'[i] = gatCands[i]
          /\ \A i \in DOMAIN gatCands' : i \notin DOMAIN gatCands => gatCands'[i] = new
      BY <1>0, <2>2, <2>3 DEF GatShapes
    <2>5. Grown
      BY <1>0, <2>3, <2>4 DEF Grown, Cand, OfOne, GatShapes
    <2>6. PICK d : d = [c EXCEPT !.step = "done", !.cand = Len(gatCands')]
      OBVIOUS
    <2>7. gatCalls' = (gatCalls \ {c}) \cup {d} /\ c.kind = "create"
      BY <1>1, <2>6 DEF GatCreated, GatTo
    <2>8. d.step = "done" /\ d.cand = Len(gatCands') /\ d.old = c.old /\ DOMAIN d = DOMAIN c
      BY <1>0, <2>6 DEF CallOf
    <2>9. CallOf(d)'
      BY <1>0, <2>3, <2>4, <2>8 DEF CallOf, OfOne, GatShapes
    <2>10. EvaluatingIsTrue'
      <3>1. ASSUME NEW e \in gatCalls, Handled(e) PROVE e \in gatCalls'
        BY <2>7, <3>1 DEF Handled
      <3> QED
        BY <1>0, <2>2, <2>3, <2>4, <3>1 DEF EvaluatingIsTrue
    <2> QED
      BY <1>0, <2>3, <2>5, <2>7, <2>9, <2>10, Replaced
  <1>2. CASE GatRead(c)
    <2>1. PICK d : d = [c EXCEPT !.step = "read", !.old = gatCands[c.cand].results]
      OBVIOUS
    <2>2. /\ gatCalls' = (gatCalls \ {c}) \cup {d} /\ c.kind = "eval" /\ c.step = "sent"
          /\ UNCHANGED <<gatCands, gatBase, gatLost, gatProduced>>
      BY <1>2, <2>1 DEF GatRead, GatTo
    <2>3. gatCands[c.cand].results \in OfOne
      BY <1>0, <2>2, TargetThere
    <2>4. d.step = "read" /\ d.old = gatCands[c.cand].results /\ d.kind = c.kind /\ d.cand = c.cand
          /\ DOMAIN d = DOMAIN c
      BY <1>0, <2>1 DEF CallOf
    <2>5. CallOf(d)'
      BY <1>0, <2>2, <2>3, <2>4 DEF CallOf, OfOne
    <2>6. EvaluatingIsTrue'
      BY <1>0, <2>2, StillEvaluating DEF Handled
    <2>7. Grown
      BY <1>0, <2>2 DEF Grown, GatShapes, Cand, OfOne
    <2> QED
      BY <1>0, <2>2, <2>5, <2>6, <2>7, Replaced
  <1>3. CASE GatBegin(c)
    <2>1. PICK d : d = [c EXCEPT !.step = "running", !.todo = GatTests]
      OBVIOUS
    <2>2. PICK new : new = [status |-> "evaluating", results |-> c.old]
      OBVIOUS
    <2>3. /\ gatCalls' = (gatCalls \ {c}) \cup {d} /\ c.kind = "eval" /\ c.step = "read"
          /\ gatCands' = [gatCands EXCEPT ![c.cand] = new] /\ UNCHANGED <<gatBase, gatLost, gatProduced>>
      BY <1>3, <2>1, <2>2 DEF GatBegin, GatTo
    <2>4. new \in Cand
      BY <1>0, <2>2 DEF Cand, CallOf
    <2>5. d.step = "running" /\ d.old = c.old /\ d.kind = c.kind /\ d.cand = c.cand /\ DOMAIN d = DOMAIN c
      BY <1>0, <2>1 DEF CallOf
    <2>6. /\ gatCands' \in Seq(Cand) /\ Len(gatCands') = Len(gatCands)
          /\ \A i \in DOMAIN gatCands' : i \in DOMAIN gatCands /\ (i # c.cand => gatCands'[i] = gatCands[i])
      BY <1>0, <2>3, <2>4, TargetThere, ExceptSeq, LenProperties DEF GatShapes
    <2>7. Grown
      BY <1>0, <2>3, <2>6 DEF Grown, Cand, OfOne, GatShapes
    <2>8. CallOf(d)'
      BY <1>0, <2>3, <2>5, <2>6 DEF CallOf, OfOne
    <2>9. EvaluatingIsTrue'
      <3>1. ASSUME NEW e \in gatCalls, Handled(e) PROVE e \in gatCalls'
        BY <2>3, <3>1 DEF Handled
      <3>2. d \in gatCalls' /\ Handled(d) /\ d.cand = c.cand
        BY <2>3, <2>5 DEF Handled
      <3> QED
        BY <1>0, <2>3, <2>6, <3>1, <3>2 DEF EvaluatingIsTrue
    <2> QED
      BY <1>0, <2>3, <2>7, <2>8, <2>9, Replaced
  <1>4. CASE GatRunTest(c)
    <2>1. PICK d :
            /\ gatCalls' = (gatCalls \ {c}) \cup {d}
            /\ d.step = c.step /\ d.old = c.old /\ d.kind = c.kind /\ d.cand = c.cand /\ DOMAIN d = DOMAIN c
      <3>1. PICK rest, results :
              \/ GatTo(c, [c EXCEPT !.todo = rest])
              \/ GatTo(c, [c EXCEPT !.todo = rest, !.results = results])
        BY <1>4 DEF GatRunTest
      <3>2. PICK d1, d2 : d1 = [c EXCEPT !.todo = rest] /\ d2 = [c EXCEPT !.todo = rest, !.results = results]
        OBVIOUS
      <3>3. ASSUME NEW d \in {d1, d2}
            PROVE  d.step = c.step /\ d.old = c.old /\ d.kind = c.kind /\ d.cand = c.cand /\ DOMAIN d = DOMAIN c
        BY <1>0, <3>2 DEF CallOf
      <3>4. \E d \in {d1, d2} : gatCalls' = (gatCalls \ {c}) \cup {d}
        BY <3>1, <3>2 DEF GatTo
      <3> QED
        BY <3>3, <3>4
    <2>2. UNCHANGED <<gatCands, gatBase, gatLost, gatProduced>>
      BY <1>4 DEF GatRunTest
    <2>3. CallOf(d)'
      BY <1>0, <2>1, <2>2 DEF CallOf, OfOne
    <2>4. EvaluatingIsTrue'
      BY <1>0, <2>1, <2>2, StillEvaluating DEF Handled
    <2>5. Grown
      BY <1>0, <2>2 DEF Grown, GatShapes, Cand, OfOne
    <2> QED
      BY <1>0, <2>1, <2>2, <2>3, <2>4, <2>5, Replaced
  <1>5. CASE GatFinish(c)
    <2>1. PICK d : d = [c EXCEPT !.step = "done"]
      OBVIOUS
    <2>2. PICK status \in {"blocked", "ready"} :
            gatCands' = [gatCands EXCEPT ![c.cand] = [status |-> status, results |-> c.results]]
      <3>1. PICK status : status = IF Regressions(gatBase, c.results) # {} THEN "blocked" ELSE "ready"
        OBVIOUS
      <3> QED
        BY <1>5, <3>1 DEF GatFinish
    <2>3. PICK new : new = [status |-> status, results |-> c.results]
      OBVIOUS
    <2>4. /\ gatCalls' = (gatCalls \ {c}) \cup {d} /\ c.step = "running"
          /\ gatCands' = [gatCands EXCEPT ![c.cand] = new]
          /\ gatProduced' = gatProduced \cup {c.results} /\ UNCHANGED <<gatBase, gatLost>>
      BY <1>5, <2>1, <2>2, <2>3 DEF GatFinish, GatTo
    <2>5. new \in Cand' /\ new.status # "evaluating" /\ Cand \subseteq Cand' /\ OfOne \subseteq OfOne'
      BY <2>3, <2>4 DEF Cand, OfOne
    <2>6. d.step = "done" /\ d.old = c.old /\ d.kind = c.kind /\ d.cand = c.cand /\ DOMAIN d = DOMAIN c
      BY <1>0, <2>1 DEF CallOf
    <2>7. gatCands \in Seq(Cand')
      BY <1>0, <2>5 DEF GatShapes
    <2>8. /\ gatCands' \in Seq(Cand') /\ Len(gatCands') = Len(gatCands)
          /\ \A i \in DOMAIN gatCands' :
               i \in DOMAIN gatCands /\ gatCands'[i] = IF i = c.cand THEN new ELSE gatCands[i]
      BY <1>0, <2>4, <2>5, <2>7, TargetThere, ExceptSeq, LenProperties
    <2>9. Grown
      BY <1>0, <2>4, <2>8 DEF Grown, GatShapes
    <2>10. CallOf(d)'
      BY <1>0, <2>4, <2>5, <2>6, <2>8 DEF CallOf
    <2>11. EvaluatingIsTrue'
      <3>1. ASSUME NEW e \in gatCalls, e.cand # c.cand PROVE e \in gatCalls'
        BY <2>4, <3>1
      <3> QED
        BY <1>0, <2>4, <2>5, <2>8, <3>1 DEF EvaluatingIsTrue
    <2> QED
      BY <1>0, <2>4, <2>9, <2>10, <2>11, Replaced
  <1>6. CASE GatMarked(c)
    <2>1. PICK step \in {"done", "failed"} : GatTo(c, [c EXCEPT !.step = step])
      BY <1>6 DEF GatMarked
    <2>2. PICK d : d = [c EXCEPT !.step = step]
      OBVIOUS
    <2>3. /\ gatCalls' = (gatCalls \ {c}) \cup {d} /\ c.step = "sent" /\ c.kind = "mark"
          /\ UNCHANGED <<gatCands, gatLost, gatProduced>>
      BY <1>6, <2>1, <2>2 DEF GatMarked, GatTo
    <2>4. d.step = step /\ d.old = c.old /\ d.kind = c.kind /\ d.cand = c.cand /\ DOMAIN d = DOMAIN c
      BY <1>0, <2>2 DEF CallOf
    <2>5. CallOf(d)'
      BY <1>0, <2>3, <2>4 DEF CallOf, OfOne
    <2>6. gatBase' # None => gatBase' \in gatProduced'
      <3>1. CASE UNCHANGED gatBase
        BY <1>0, <2>3, <3>1
      <3>2. CASE Evaluated(gatCands[c.cand]) /\ gatBase' = gatCands[c.cand].results
        <4>1. gatCands[c.cand].results \in OfOne
          BY <1>0, <2>3, TargetThere
        <4>2. DOMAIN gatCands[c.cand].results # {}
          BY <3>2 DEF Evaluated
        <4> QED
          BY <2>3, <3>2, <4>1, <4>2 DEF OfOne, NoResults
      <3> QED
        BY <1>6, <3>1, <3>2 DEF GatMarked
    <2>7. EvaluatingIsTrue'
      BY <1>0, <2>3, StillEvaluating DEF Handled
    <2>8. Grown
      BY <1>0, <2>3 DEF Grown, GatShapes, Cand, OfOne
    <2> QED
      BY <1>0, <2>3, <2>5, <2>6, <2>7, <2>8, Replaced
  <1>7. CASE GatRefused(c)
    <2>1. PICK d : d = [c EXCEPT !.step = "failed"]
      OBVIOUS
    <2>2. /\ gatCalls' = (gatCalls \ {c}) \cup {d} /\ c.step = "sent"
          /\ UNCHANGED <<gatCands, gatBase, gatLost, gatProduced>>
      BY <1>7, <2>1 DEF GatRefused, GatTo
    <2>3. d.step = "failed" /\ d.old = c.old /\ d.kind = c.kind /\ d.cand = c.cand /\ DOMAIN d = DOMAIN c
      BY <1>0, <2>1 DEF CallOf
    <2>4. CallOf(d)'
      BY <1>0, <2>2, <2>3 DEF CallOf, OfOne
    <2>5. EvaluatingIsTrue'
      BY <1>0, <2>2, StillEvaluating DEF Handled
    <2>6. Grown
      BY <1>0, <2>2 DEF Grown, GatShapes, Cand, OfOne
    <2> QED
      BY <1>0, <2>2, <2>4, <2>5, <2>6, Replaced
  <1> QED
    BY <1>1, <1>2, <1>3, <1>4, <1>5, <1>6, <1>7 DEF GatServe

-----------------------------------------------------------------------------
(* The pages and the loads.                                                  *)

(* What neither stores anything nor cuts an evaluation off.                *)
LEMMA GatElsewhere ==
  ASSUME GatIInv, UNCHANGED <<gatCands, gatBase, gatProduced>>, PageOf(gatPage'), gatLoads' \in Seq(Load),
         \A d \in gatCalls' : CallOf(d), EvaluatingIsTrue'
  PROVE  GatIInv'
  <1>1. GatShapes'
    BY DEF GatIInv, GatShapes, PageOf, Cand, OfOne, Load, Gate, Shown
  <1>2. \A d \in gatCalls' : CallOf(d)'
    BY DEF CallOf, OfOne
  <1> QED
    BY <1>1, <1>2 DEF GatIInv, EvaluationsApart, ResultsOfOneEvaluation

LEMMA AskedCall ==
  ASSUME NEW kind, NEW cand, NEW from, NEW after, kind \in {"eval", "mark"} => cand \in 1 .. Len(gatCands)
  PROVE  CallOf(GatCall(kind, cand, from, after))
  BY DEF GatCall, CallOf, OfOne

LEMMA MoreLoads ==
  ASSUME GatShapes, NEW releases \in BOOLEAN
  PROVE  Append(gatLoads, GatLoad(releases)) \in Seq(Load)
  BY LoadIsLoad, AppendProperties DEF GatShapes

LEMMA LateLoads ==
  ASSUME GatShapes, NEW upto
  PROVE  GatLate(upto) \in Seq(Load) /\ Len(GatLate(upto)) = Len(gatLoads)
  <1>1. /\ DOMAIN gatLoads = 1 .. Len(gatLoads) /\ Len(gatLoads) \in Nat
        /\ \A i \in DOMAIN gatLoads : gatLoads[i] \in Load
    BY ElementOfSeq, LenProperties DEF GatShapes
  <1>2. ASSUME NEW i \in DOMAIN gatLoads
        PROVE  (IF i < upto THEN [gatLoads[i] EXCEPT !.late = TRUE] ELSE gatLoads[i]) \in Load
    <2>1. [gatLoads[i] EXCEPT !.late = TRUE] \in Load
      BY <1>1, <1>2 DEF Load
    <2> QED
      BY <1>1, <1>2, <2>1
  <1>3. GatLate(upto) \in [1 .. Len(gatLoads) -> Load]
    BY <1>1, <1>2 DEF GatLate
  <1>4. [1 .. Len(gatLoads) -> Load] \subseteq Seq(Load)
    BY <1>1, SeqDef
  <1> QED
    BY <1>1, <1>3, <1>4, LenProperties

LEMMA LoadingShape ==
  ASSUME NEW page, PageOf(page)
  PROVE  PageOf(GatLoading(page))
  BY DEF PageOf, GatLoading

LEMMA UserStep ==
  ASSUME GatIInv, GatUser
  PROVE  GatIInv'
  <1> USE DEF GatIInv
  <1>0. /\ GatShapes /\ PageOf(gatPage) /\ gatLoads \in Seq(Load) /\ EvaluatingIsTrue
        /\ UNCHANGED <<gatCands, gatBase, gatLost, gatProduced>>
    BY DEF GatUser, GatShapes, EvaluationsApart
  <1>1. ASSUME NEW call, CallOf(call), Ask(call), PageOf(gatPage') PROVE GatIInv'
    <2>1. gatCalls' = gatCalls \cup {call} /\ UNCHANGED gatLoads
      BY <1>1 DEF Ask
    <2>2. EvaluatingIsTrue'
      BY <1>0, <2>1, StillEvaluating
    <2>3. \A d \in gatCalls' : CallOf(d)
      BY <1>1, <2>1
    <2> QED
      BY <1>0, <1>1, <2>1, <2>2, <2>3, GatElsewhere
  <1>2. ASSUME UNCHANGED gatCalls, PageOf(gatPage'), gatLoads' \in Seq(Load) PROVE GatIInv'
    <2>1. EvaluatingIsTrue'
      BY <1>0, <1>2, StillEvaluating
    <2> QED
      BY <1>0, <1>2, <2>1, GatElsewhere
  <1>3. HasCand => gatPage.gate.cand \in 1 .. Len(gatCands)
    BY <1>0, ResultsTyped DEF HasCand, PageOf, Gate, Shown, Typed
  <1>4. CASE GatRunGate
    <2>1. HasCand
      BY <1>4 DEF GatRunGate, Primary
    <2>2. PageOf(gatPage')
      BY <1>0, <1>4 DEF GatRunGate, PageOf
    <2> QED
      BY <1>1, <1>3, <1>4, <2>1, <2>2, AskedCall DEF GatRunGate
  <1>5. CASE GatMarkBaseline
    <2>1. HasCand
      BY <1>5 DEF GatMarkBaseline, Primary
    <2>2. PageOf(gatPage')
      BY <1>0, <1>5 DEF GatMarkBaseline, PageOf
    <2> QED
      BY <1>1, <1>3, <1>5, <2>1, <2>2, AskedCall DEF GatMarkBaseline
  <1>6. CASE GatNewRelease
    BY <1>0, <1>2, <1>6 DEF GatNewRelease, PageOf
  <1>7. CASE GatSubmit
    <2>1. PageOf(gatPage')
      BY <1>0, <1>7 DEF GatSubmit, PageOf
    <2> QED
      BY <1>1, <1>7, <2>1, AskedCall DEF GatSubmit
  <1>8. CASE GatCloseModal
    <2>1. PICK page : page = [gatPage EXCEPT !.modal = None]
      OBVIOUS
    <2>2. PageOf(page) /\ PageOf(GatLoading(page))
      BY <1>0, <2>1, LoadingShape DEF PageOf
    <2>3. UNCHANGED gatCalls /\ PageOf(gatPage') /\ gatLoads' \in Seq(Load)
      BY <1>0, <1>8, <2>1, <2>2, MoreLoads DEF GatCloseModal
    <2> QED
      BY <1>2, <2>3
  <1>9. CASE GatOpenPage
    <2>1. PageOf(gatPage') /\ gatLoads' \in Seq(Load)
      BY <1>9, MountShape, OneLoad DEF GatOpenPage
    <2> DEFINE gone(c) == [c EXCEPT !.from = IF @ = "page" THEN "gone"
                                             ELSE IF @ = "modal" THEN "gone modal" ELSE @]
    <2>2. ASSUME NEW c \in gatCalls
          PROVE  /\ gone(c).kind = c.kind /\ gone(c).step = c.step /\ gone(c).cand = c.cand
                 /\ gone(c).old = c.old /\ DOMAIN gone(c) = DOMAIN c
      BY <2>2 DEF CallOf
    <2>3. gatCalls' = { gone(c) : c \in gatCalls }
      BY <1>9 DEF GatOpenPage
    <2> HIDE DEF gone
    <2>4. \A d \in gatCalls' : CallOf(d)
      BY <2>2, <2>3 DEF CallOf
    <2>5. EvaluatingIsTrue'
      <3>1. ASSUME NEW c \in gatCalls, Handled(c) PROVE \E d \in gatCalls' : Handled(d) /\ d.cand = c.cand
        BY <2>2, <2>3, <3>1 DEF Handled
      <3> QED
        BY <1>0, <3>1, StillEvaluating
    <2> QED
      BY <1>0, <2>1, <2>4, <2>5, GatElsewhere
  <1> QED
    BY <1>4, <1>5, <1>6, <1>7, <1>8, <1>9 DEF GatUser

LEMMA AnswerStep ==
  ASSUME GatIInv, GatAnswer
  PROVE  GatIInv'
  <1> USE DEF GatIInv
  <1>0. /\ GatShapes /\ PageOf(gatPage) /\ gatLoads \in Seq(Load) /\ EvaluatingIsTrue
        /\ UNCHANGED <<gatCands, gatBase, gatLost, gatProduced>>
    BY DEF GatAnswer, GatShapes, EvaluationsApart
  <1>1. PICK c \in gatCalls : GatPageAnswer(c) \/ GatGoneAnswer(c) \/ GatModalAnswer(c)
    BY DEF GatAnswer
  <1>2. GatAnswered(c) /\ ~ Handled(c) /\ CallOf(c)
    BY <1>1 DEF GatPageAnswer, GatGoneAnswer, GatModalAnswer, GatAnswered, Handled
  <1>3. /\ PageOf(GatLoading(gatPage)) /\ PageOf([gatPage EXCEPT !.busy = None])
        /\ PageOf([gatPage EXCEPT !.modal.n = None]) /\ PageOf([gatPage EXCEPT !.modal = None])
    BY <1>0, LoadingShape DEF PageOf
  <1>4. ASSUME Lost PROVE gatLoads' \in Seq(Load)
    BY <1>0, <1>4, LateLoads DEF Lost
  <1>5. CASE gatCalls' = gatCalls \ {c} /\ PageOf(gatPage') /\ gatLoads' \in Seq(Load)
    <2>1. EvaluatingIsTrue'
      BY <1>0, <1>2, <1>5, StillEvaluating
    <2> QED
      BY <1>0, <1>5, <2>1, GatElsewhere
  <1>6. CASE /\ GatTo(c, [c EXCEPT !.kind = "eval", !.step = "sent"]) /\ c.step = "done"
             /\ UNCHANGED <<gatPage, gatLoads>>
    <2>1. PICK d : d = [c EXCEPT !.kind = "eval", !.step = "sent"]
      OBVIOUS
    <2>2. d.kind = "eval" /\ d.step = "sent" /\ d.cand = c.cand /\ d.old = c.old /\ DOMAIN d = DOMAIN c
      BY <1>2, <2>1 DEF CallOf
    <2>3. CallOf(d)
      BY <1>2, <1>6, <2>2 DEF CallOf
    <2>4. gatCalls' = (gatCalls \ {c}) \cup {d}
      BY <1>6, <2>1 DEF GatTo
    <2>5. EvaluatingIsTrue'
      BY <1>0, <1>2, <2>4, StillEvaluating
    <2> QED
      BY <1>0, <1>6, <2>3, <2>4, <2>5, GatElsewhere
  <1>7. CASE GatPageAnswer(c)
    BY <1>0, <1>3, <1>4, <1>5, <1>7, MoreLoads DEF GatPageAnswer
  <1>8. CASE GatGoneAnswer(c)
    BY <1>0, <1>4, <1>5, <1>8 DEF GatGoneAnswer
  <1>9. CASE GatModalAnswer(c)
    <2>1. PICK page : page = [gatPage EXCEPT !.modal = None]
      OBVIOUS
    <2>2. PageOf(GatLoading(page)) /\ PageOf(Mount("detail"))
      BY <1>3, <2>1, LoadingShape, MountShape
    <2> QED
      BY <1>0, <1>3, <1>4, <1>5, <1>6, <1>9, <2>1, <2>2, MoreLoads, OneLoad DEF GatModalAnswer
  <1> QED
    BY <1>1, <1>7, <1>8, <1>9

LEMMA LoadStep ==
  ASSUME GatIInv, NEW i \in DOMAIN gatLoads, GatServeLoad(i) \/ GatLoadAnswer(i)
  PROVE  GatIInv'
  <1> USE DEF GatIInv
  <1>0. /\ GatShapes /\ PageOf(gatPage) /\ gatLoads \in Seq(Load) /\ EvaluatingIsTrue
        /\ UNCHANGED <<gatCands, gatBase, gatCalls, gatLost, gatProduced>>
    BY DEF GatServeLoad, GatLoadAnswer, GatLoadArrives, GatShapes, EvaluationsApart
  <1>1. i \in 1 .. Len(gatLoads) /\ gatLoads[i] \in Load /\ Len(gatLoads) \in Nat
    BY <1>0, LenProperties, ElementOfSeq
  <1>2. EvaluatingIsTrue'
    BY <1>0, StillEvaluating
  <1>3. CASE GatServeLoad(i)
    <2>1. Summary(gatCands, gatBase) \in Gate
      <3>1. Status(Latest(gatCands), gatBase) \in {"not_configured", "evaluating", "no_baseline", "blocked", "ready"}
        BY DEF Status
      <3>2. Evaluated(Latest(gatCands)) \in BOOLEAN
        BY DEF Evaluated
      <3>3. Len(gatCands) \in 0 .. Len(gatCands)
        BY <1>0, ResultsTyped DEF Typed
      <3> QED
        BY <3>1, <3>2, <3>3 DEF Summary, Gate, Shown
    <2>2. PICK load : load = [gatLoads[i] EXCEPT !.gate = Summary(gatCands, gatBase)]
      OBVIOUS
    <2>3. load \in Load
      BY <1>1, <2>1, <2>2 DEF Load
    <2>4. gatLoads' = [gatLoads EXCEPT ![i] = load] /\ UNCHANGED gatPage
      BY <1>3, <2>2 DEF GatServeLoad
    <2>5. gatLoads' \in Seq(Load)
      BY <1>0, <1>1, <2>3, <2>4, ExceptSeq
    <2> QED
      BY <1>0, <1>2, <2>4, <2>5, GatElsewhere
  <1>4. CASE GatLoadAnswer(i)
    <2>1. PICK failed \in BOOLEAN :
            /\ gatPage' = [gatPage EXCEPT !.gate = IF failed THEN None ELSE gatLoads[i].gate, !.loading = FALSE,
                                          !.busy = IF gatLoads[i].releases THEN None ELSE @]
            /\ gatLoads' = RemoveAt(GatLate(i), i)
      BY <1>4 DEF GatLoadAnswer, GatLoadArrives
    <2>2. PICK gate, busy : gate = (IF failed THEN None ELSE gatLoads[i].gate)
                            /\ busy = (IF gatLoads[i].releases THEN None ELSE gatPage.busy)
      OBVIOUS
    <2>3. gate \in Gate
      BY <1>1, <2>2 DEF Load, Gate
    <2>4. gatPage' = [gatPage EXCEPT !.gate = gate, !.loading = FALSE, !.busy = busy]
      BY <2>1, <2>2
    <2>5. PageOf(gatPage')
      BY <1>0, <2>3, <2>4 DEF PageOf
    <2>6. gatLoads' \in Seq(Load)
      <3>1. PICK late \in Seq(Load) : late = GatLate(i) /\ Len(late) = Len(gatLoads)
        BY <1>0, LateLoads
      <3>2. \A j \in 1 .. Len(late) : late[j] \in Load
        BY <3>1, ElementOfSeq
      <3>3. SubSeq(late, 1, i - 1) \in Seq(Load)
        BY <1>1, <3>1, <3>2, SubSeqProperties
      <3>4. SubSeq(late, i + 1, Len(late)) \in Seq(Load)
        BY <1>1, <3>1, <3>2, SubSeqProperties
      <3> QED
        BY <2>1, <3>1, <3>3, <3>4, ConcatProperties DEF RemoveAt
    <2> QED
      BY <1>0, <1>2, <2>5, <2>6, GatElsewhere
  <1> QED
    BY <1>3, <1>4

(* A restart and a leave end evaluations, and their candidates are lost.   *)
LEMMA BreakStep ==
  ASSUME GatIInv, GatRestart \/ GatLeave
  PROVE  GatIInv'
  <1> USE DEF GatIInv
  <1>0. /\ GatShapes /\ PageOf(gatPage) /\ gatLoads \in Seq(Load) /\ EvaluatingIsTrue
        /\ UNCHANGED <<gatCands, gatBase, gatProduced>> /\ gatLost' = gatLost \cup CutOff
    BY DEF GatRestart, GatLeave, GatShapes, EvaluationsApart
  <1>1. EvaluatingIsTrue'
    BY <1>0 DEF EvaluatingIsTrue, CutOff
  <1>2. CASE GatRestart
    <2> DEFINE ended(c) == IF c.step \in {"read", "running"} THEN [c EXCEPT !.step = "failed"] ELSE c
    <2>1. ASSUME NEW c \in gatCalls PROVE CallOf(ended(c))
      <3>1. PICK d : d = [c EXCEPT !.step = "failed"]
        OBVIOUS
      <3>2. CASE c.step \in {"read", "running"}
        <4>1. d.step = "failed" /\ d.kind = c.kind /\ d.cand = c.cand /\ d.old = c.old /\ DOMAIN d = DOMAIN c
          BY <2>1, <3>1 DEF CallOf
        <4>2. CallOf(d)
          BY <2>1, <3>2, <4>1 DEF CallOf
        <4> QED
          BY <3>1, <3>2, <4>2
      <3> QED
        BY <2>1, <3>2
    <2>2. gatCalls' = { ended(c) : c \in gatCalls } /\ UNCHANGED <<gatPage, gatLoads>>
      BY <1>2 DEF GatRestart
    <2> HIDE DEF ended
    <2> QED
      BY <1>0, <1>1, <2>1, <2>2, GatElsewhere
  <1>3. CASE GatLeave
    BY <1>0, <1>1, <1>3, GatElsewhere, OneLoad, MountShape DEF GatLeave
  <1> QED
    BY <1>2, <1>3

-----------------------------------------------------------------------------

LEMMA GatStutterIInv ==
  ASSUME GatIInv, UNCHANGED gatVars
  PROVE  GatIInv'
  BY DEF gatVars, GatIInv, GatShapes, PageOf, Cand, OfOne, Load, Gate, Shown, CallOf,
         EvaluationsApart, EvaluatingIsTrue, Handled, ResultsOfOneEvaluation

LEMMA GatStep == GatIInv /\ [GatNext]_gatVars => GatIInv'
  <1> SUFFICES ASSUME GatIInv, [GatNext]_gatVars PROVE GatIInv'
    OBVIOUS
  <1>1. CASE GatNext
    BY <1>1, UserStep, ServeStep, AnswerStep, BreakStep, LoadStep DEF GatNext, GatServer
  <1>2. CASE UNCHANGED gatVars
    BY <1>2, GatStutterIInv
  <1> QED
    BY <1>1, <1>2

LEMMA GatInvariant == GatSpec => []GatIInv
  BY GatInitIInv, GatStep, PTL DEF GatSpec

(* Whichever evaluations of a candidate overlap, it does not stay          *)
(* "evaluating" when none runs, and its results, and those of a baseline   *)
(* made of it, are those of one of them (EvaluateCandidate, MarkBaseline). *)
THEOREM OneEvaluationEach == GatSpec => []EvaluationsApart
  <1>1. GatIInv => EvaluationsApart
    BY DEF GatIInv
  <1> QED
    BY <1>1, GatInvariant, PTL

-----------------------------------------------------------------------------
(***************************************************************************)
(* Schedules                                                               *)
(***************************************************************************)

IsJob(j) == j = Job(j.id, j.row, j.tracked) /\ j.tracked \in BOOLEAN

(* Requests and jobs are records, and only changes are handled in steps.   *)
SchShapes ==
  /\ \A c \in schCalls :
       /\ DOMAIN c = {"kind", "id", "data", "form", "step", "row", "at", "n"}
       /\ c = [f \in DOMAIN c |-> c[f]]
       /\ Handling(c) => c.kind \in {"create", "update", "delete"}
  /\ \A j \in schJobs : IsJob(j)

Handlers(s) == { c \in schCalls : c.id = s /\ Handling(c) }
JobsOf(s) == { j \in schJobs : j.id = s }
Wanted(s) == IF s \in DOMAIN schRows /\ schRows[s]["on"] THEN {Job(s, schRows[s], TRUE)} ELSE {}

(* What a handler that is between two of its steps can rely on: the jobs   *)
(* it will remove are those the manager knows, what it read is what is     *)
(* stored, and when it adds a job there is none.                           *)
Stage(c) ==
  /\ c.step \in {"stored", "read"} => \A j \in JobsOf(c.id) : j.tracked
  /\ c.step = "stored" /\ c.kind = "delete" => c.id \notin DOMAIN schRows
  /\ c.step = "stored" /\ c.kind = "update" /\ c.id \notin DOMAIN schRows => JobsOf(c.id) = {}
  /\ c.step \in {"read", "removed"} => c.id \in DOMAIN schRows /\ c.row = schRows[c.id]
  /\ c.step = "removed" => JobsOf(c.id) = {}

(* A schedule only one handler at a time works on.                         *)
Kept(s) ==
  /\ \A c, d \in Handlers(s) : c = d
  /\ \A c \in Handlers(s) : Stage(c)
  /\ Handlers(s) = {} => JobsOf(s) = Wanted(s)

SchIInv == SchShapes /\ \A s \in Schedules \ schLoose : Kept(s)

-----------------------------------------------------------------------------

LEMMA JobFields ==
  ASSUME NEW s, NEW row, NEW tracked \in BOOLEAN
  PROVE  /\ IsJob(Job(s, row, tracked))
         /\ Job(s, row, tracked).id = s /\ Job(s, row, tracked).tracked = tracked
  BY DEF IsJob, Job

LEMMA SchInitIInv == SchInit => SchIInv
  <1> SUFFICES ASSUME SchInit PROVE SchIInv
    OBVIOUS
  <1>1. ASSUME NEW c \in schCalls
        PROVE  /\ DOMAIN c = {"kind", "id", "data", "form", "step", "row", "at", "n"}
               /\ c = [f \in DOMAIN c |-> c[f]] /\ ~ Handling(c)
    BY <1>1 DEF SchInit, List, SchCall, Handling
  <1>2. \A j \in schJobs : IsJob(j)
    <2> SUFFICES ASSUME NEW j \in schJobs PROVE IsJob(j)
      OBVIOUS
    <2>1. PICK s : j = Job(s, schRows[s], TRUE)
      BY DEF SchInit
    <2> QED
      BY <2>1, JobFields
  <1>3. ASSUME NEW s \in Schedules PROVE Kept(s)
    <2>1. Handlers(s) = {}
      BY <1>1 DEF Handlers
    <2>2. JobsOf(s) = Wanted(s)
      BY DEF SchInit, JobsOf, Wanted, Job
    <2> QED
      BY <2>1, <2>2 DEF Kept
  <1> QED
    BY <1>1, <1>2, <1>3 DEF SchIInv, SchShapes

(* A schedule is kept as long as nothing that is said of it changes.       *)
LEMMA Frame ==
  ASSUME NEW s, Kept(s), Handlers(s)' = Handlers(s), JobsOf(s)' = JobsOf(s),
         s \in DOMAIN schRows' <=> s \in DOMAIN schRows,
         s \in DOMAIN schRows => schRows'[s] = schRows[s]
  PROVE  Kept(s)'
  <1>1. Wanted(s)' = Wanted(s)
    BY DEF Wanted
  <1>2. ASSUME NEW c \in Handlers(s) PROVE Stage(c)'
    <2>1. c.id = s /\ Stage(c)
      BY <1>2 DEF Handlers, Kept
    <2> QED
      BY <2>1 DEF Stage
  <1> QED
    BY <1>1, <1>2 DEF Kept

(* One request takes the place of another, about the same schedule unless  *)
(* neither is being handled.                                               *)
LEMMA SchReplaced ==
  ASSUME NEW c \in schCalls, NEW d, schCalls' = (schCalls \ {c}) \cup {d}, NEW s
  PROVE  /\ (c.id = s => ~ Handling(c)) /\ (d.id = s => ~ Handling(d)) => Handlers(s)' = Handlers(s)
         /\ Handlers(s) \subseteq {c} /\ d.id = s =>
              Handlers(s)' = IF Handling(d) THEN {d} ELSE {}
  BY DEF Handlers

(* The step of a request is all that a handler's step changes of it.       *)
LEMMA Moved ==
  ASSUME SchShapes, NEW c \in schCalls, NEW step
  PROVE  LET d == [c EXCEPT !.step = step]
         IN  /\ d.step = step /\ d.kind = c.kind /\ d.id = c.id /\ d.row = c.row
             /\ DOMAIN d = {"kind", "id", "data", "form", "step", "row", "at", "n"}
             /\ d = [f \in DOMAIN d |-> d[f]]
  BY DEF SchShapes

LEMMA MovedShapes ==
  ASSUME SchShapes, NEW c \in schCalls, NEW step, SchTo(c, step),
         step \in {"stored", "read", "removed"} => c.kind \in {"create", "update", "delete"},
         \A j \in schJobs' : IsJob(j)
  PROVE  SchShapes'
  <1>1. schCalls' = (schCalls \ {c}) \cup {[c EXCEPT !.step = step]}
    BY DEF SchTo
  <1> QED
    BY <1>1, Moved DEF SchShapes, Handling

-----------------------------------------------------------------------------
(* The handlers.                                                             *)

LEMMA SchCreateStep ==
  ASSUME SchIInv, NEW c \in schCalls, SchCreateStored(c)
  PROVE  SchIInv'
  <1> USE DEF SchIInv
  <1> DEFINE row == Merged([f \in Fields |-> f = "on"], c.data)
  <1>0. PICK s \in Schedules \ DOMAIN schRows :
          /\ \A e \in schCalls : e.id # s
          /\ schRows' = [t \in DOMAIN schRows \cup {s} |-> IF t = s THEN row ELSE schRows[t]]
          /\ schCalls' = (schCalls \ {c}) \cup {[c EXCEPT !.step = "removed", !.id = s, !.row = row]}
    BY Zenon DEF SchCreateStored
  <1> HIDE DEF row
  <1>0a. PICK d : d = [c EXCEPT !.step = "removed", !.id = s, !.row = row]
    OBVIOUS
  <1>1. schCalls' = (schCalls \ {c}) \cup {d}
    BY <1>0, <1>0a
  <1>1a. c.kind = "create"
    BY DEF SchCreateStored
  <1>2. /\ DOMAIN d = {"kind", "id", "data", "form", "step", "row", "at", "n"}
        /\ d = [f \in DOMAIN d |-> d[f]]
        /\ d.step = "removed" /\ d.id = s /\ d.row = row /\ d.kind = "create"
    <2>1. DOMAIN c = {"kind", "id", "data", "form", "step", "row", "at", "n"}
          /\ c = [f \in DOMAIN c |-> c[f]]
      BY DEF SchShapes
    <2>2. DOMAIN d = DOMAIN c /\ d = [f \in DOMAIN d |-> d[f]]
      BY <1>0a, <2>1
    <2>3. d.step = "removed" /\ d.id = s /\ d.row = row
      BY <1>0a, <2>1
    <2>4. d.kind = c.kind
      BY <1>0a, <2>1
    <2> QED
      BY <1>1a, <2>1, <2>2, <2>3, <2>4
  <1>3. c.step = "sent" /\ UNCHANGED <<schJobs, schLoose>>
    BY DEF SchCreateStored
  <1>4. SchShapes'
    BY <1>1, <1>2, <1>3 DEF SchShapes
  <1>5. ASSUME NEW t \in Schedules \ schLoose' PROVE Kept(t)'
    <2>1. Kept(t)
      BY <1>3, <1>5
    <2>2. CASE t = s
      <3>1. Handlers(s) = {} /\ JobsOf(s) = {}
        BY <1>0, <2>1, <2>2 DEF Handlers, Kept, Wanted
      <3>2. Handlers(s)' = {d} /\ JobsOf(s)' = {}
        BY <1>1, <1>2, <1>3, <3>1, SchReplaced DEF Handling, JobsOf
      <3>3. Stage(d)'
        BY <1>0, <1>2, <3>2 DEF Stage
      <3> QED
        BY <2>2, <3>2, <3>3 DEF Kept
    <2>3. CASE t # s
      <3>1. Handlers(t)' = Handlers(t)
        BY <1>1, <1>2, <1>3, <2>3, SchReplaced DEF Handling
      <3> QED
        BY <1>0, <1>3, <2>1, <2>3, <3>1, Frame DEF JobsOf
    <2> QED
      BY <2>2, <2>3
  <1> QED
    BY <1>4, <1>5

(* A handler that stores while another is at work spoils the schedule;     *)
(* without one the jobs are what the row, as it was, asked for.            *)
LEMMA StoreStep ==
  ASSUME SchIInv, NEW c \in schCalls, c.step = "sent", c.kind \in {"update", "delete"}, SchTo(c, "stored"),
         \A s : s # c.id => (s \in DOMAIN schRows' <=> s \in DOMAIN schRows),
         \A s \in DOMAIN schRows : s # c.id => schRows'[s] = schRows[s],
         c.kind = "delete" => c.id \notin DOMAIN schRows',
         c.kind = "update" => DOMAIN schRows' = DOMAIN schRows,
         schLoose' = IF Contended(c.id) THEN schLoose \cup {c.id} ELSE schLoose,
         UNCHANGED schJobs
  PROVE  SchIInv'
  <1> USE DEF SchIInv
  <1>1. PICK d : d = [c EXCEPT !.step = "stored"]
    OBVIOUS
  <1>2. schCalls' = (schCalls \ {c}) \cup {d} /\ d.step = "stored" /\ d.kind = c.kind /\ d.id = c.id
    BY <1>1, Moved DEF SchTo
  <1>3. SchShapes'
    BY MovedShapes DEF SchShapes
  <1>4. ASSUME NEW s \in Schedules \ schLoose' PROVE Kept(s)'
    <2>1. Kept(s)
      BY <1>4
    <2>2. CASE s = c.id
      <3>1. Handlers(s) = {} /\ JobsOf(s) = Wanted(s)
        BY <1>4, <2>1, <2>2 DEF Contended, Handlers, Kept
      <3>2. Handlers(s)' = {d} /\ JobsOf(s)' = JobsOf(s)
        BY <1>2, <2>2, <3>1, SchReplaced DEF Handling, JobsOf
      <3>3. \A j \in JobsOf(s) : j.tracked
        BY <3>1 DEF Wanted, Job
      <3>4. s \notin DOMAIN schRows => JobsOf(s) = {}
        BY <3>1 DEF Wanted
      <3>5. Stage(d)'
        BY <1>2, <2>2, <3>2, <3>3, <3>4 DEF Stage
      <3> QED
        BY <3>2, <3>5 DEF Kept
    <2>3. CASE s # c.id
      <3>1. Handlers(s)' = Handlers(s)
        BY <1>2, <2>3, SchReplaced
      <3> QED
        BY <2>1, <2>3, <3>1, Frame DEF JobsOf
    <2> QED
      BY <2>2, <2>3
  <1> QED
    BY <1>3, <1>4

(* The only handler of a schedule takes another of its steps.              *)
LEMMA OnlyHandler ==
  ASSUME NEW c \in schCalls, Handling(c), Kept(c.id), NEW d, d.id = c.id,
         schCalls' = (schCalls \ {c}) \cup {d}
  PROVE  /\ Stage(c) /\ Handlers(c.id)' = IF Handling(d) THEN {d} ELSE {}
         /\ \A s : s # c.id => Handlers(s)' = Handlers(s)
  <1>1. c \in Handlers(c.id)
    BY DEF Handlers
  <1>2. Handlers(c.id) \subseteq {c} /\ Stage(c)
    BY <1>1 DEF Kept
  <1> QED
    BY <1>2, SchReplaced

LEMMA ReadStep ==
  ASSUME SchIInv, NEW c \in schCalls, SchUpdateRead(c)
  PROVE  SchIInv'
  <1> USE DEF SchIInv
  <1>1. c.kind = "update" /\ c.step = "stored" /\ UNCHANGED <<schRows, schJobs>>
    BY DEF SchUpdateRead
  <1>2. Handling(c)
    BY <1>1 DEF Handling
  <1>3. CASE /\ c.id \in DOMAIN schRows /\ UNCHANGED schLoose
             /\ schCalls' = (schCalls \ {c}) \cup {[c EXCEPT !.step = "read", !.row = schRows[c.id]]}
    <2>1. PICK d : d = [c EXCEPT !.step = "read", !.row = schRows[c.id]]
      OBVIOUS
    <2>2. /\ DOMAIN d = {"kind", "id", "data", "form", "step", "row", "at", "n"}
          /\ d = [f \in DOMAIN d |-> d[f]]
          /\ d.step = "read" /\ d.id = c.id /\ d.row = schRows[c.id] /\ d.kind = c.kind
      BY <2>1 DEF SchShapes
    <2>3. schCalls' = (schCalls \ {c}) \cup {d}
      BY <1>3, <2>1
    <2>4. SchShapes'
      BY <1>1, <2>2, <2>3 DEF SchShapes
    <2>5. ASSUME NEW s \in Schedules \ schLoose' PROVE Kept(s)'
      <3>1. Kept(s)
        BY <1>3, <2>5
      <3>2. CASE s = c.id
        <4>1. Stage(c) /\ Handlers(s)' = {d}
          BY <1>2, <2>2, <2>3, <3>1, <3>2, OnlyHandler DEF Handling
        <4>2. Stage(d)'
          BY <1>1, <1>3, <2>2, <4>1 DEF Stage, JobsOf
        <4> QED
          BY <4>1, <4>2 DEF Kept
      <3>3. CASE s # c.id
        <4>1. Handlers(s)' = Handlers(s)
          BY <2>2, <2>3, <3>3, SchReplaced
        <4> QED
          BY <1>1, <3>1, <4>1, Frame DEF JobsOf
      <3> QED
        BY <3>2, <3>3
    <2> QED
      BY <2>4, <2>5
  <1>4. CASE /\ SchTo(c, "done")
             /\ schLoose' = IF c.id \in DOMAIN schRows THEN schLoose \cup {c.id} ELSE schLoose
    <2>1. PICK d : d = [c EXCEPT !.step = "done"]
      OBVIOUS
    <2>2. schCalls' = (schCalls \ {c}) \cup {d} /\ d.step = "done" /\ d.id = c.id
      BY <1>4, <2>1, Moved DEF SchTo
    <2>3. SchShapes'
      BY <1>1, <1>4, MovedShapes DEF SchShapes
    <2>4. ASSUME NEW s \in Schedules \ schLoose' PROVE Kept(s)'
      <3>1. Kept(s)
        BY <1>4, <2>4
      <3>2. CASE s = c.id
        <4>1. Stage(c) /\ Handlers(s)' = {}
          BY <1>2, <2>2, <3>1, <3>2, OnlyHandler DEF Handling
        <4>2. s \notin DOMAIN schRows /\ JobsOf(s) = {}
          BY <1>1, <1>4, <2>4, <3>2, <4>1 DEF Stage
        <4>3. JobsOf(s)' = Wanted(s)'
          BY <1>1, <4>2 DEF JobsOf, Wanted
        <4> QED
          BY <4>1, <4>3 DEF Kept
      <3>3. CASE s # c.id
        <4>1. Handlers(s)' = Handlers(s)
          BY <2>2, <3>3, SchReplaced
        <4> QED
          BY <1>1, <3>1, <4>1, Frame DEF JobsOf
      <3> QED
        BY <3>2, <3>3
    <2> QED
      BY <2>3, <2>4
  <1> QED
    BY <1>3, <1>4 DEF SchUpdateRead

(* Removing forgets no job that could not be found, and touches no other   *)
(* schedule's.                                                             *)
LEMMA RemovedJobs ==
  ASSUME SchShapes, NEW s, schJobs' = Removed(schJobs, s)
  PROVE  /\ (\A j \in JobsOf(s) : j.tracked) => JobsOf(s)' = {}
         /\ \A t : t # s => JobsOf(t)' = JobsOf(t)
         /\ \A j \in schJobs' : IsJob(j)
  BY DEF SchShapes, Removed, JobsOf

LEMMA AddedJobs ==
  ASSUME SchShapes, NEW s, NEW row, schJobs' = Added(schJobs, s, row)
  PROVE  /\ JobsOf(s) = {} => JobsOf(s)' = IF row["on"] THEN {Job(s, row, TRUE)} ELSE {}
         /\ \A t : t # s => JobsOf(t)' = JobsOf(t)
         /\ \A j \in schJobs' : IsJob(j)
  <1>1. CASE ~ row["on"]
    BY <1>1 DEF Added, JobsOf, SchShapes
  <1>2. CASE row["on"]
    <2> DEFINE kept(j) == Job(j.id, j.row, j.tracked /\ j.id # s)
    <2>1. ASSUME NEW j \in schJobs
          PROVE  IsJob(kept(j)) /\ kept(j).id = j.id /\ (j.id # s => kept(j) = j)
      <3>1. PICK t \in BOOLEAN : t = (j.tracked /\ j.id # s)
        OBVIOUS
      <3>2. IsJob(kept(j)) /\ kept(j).id = j.id
        BY <3>1, JobFields
      <3>3. j.id # s => kept(j) = j
        BY <2>1 DEF SchShapes, IsJob
      <3> QED
        BY <3>2, <3>3
    <2>2. PICK new : new = Job(s, row, TRUE)
      OBVIOUS
    <2>3. new.id = s /\ IsJob(new)
      BY <2>2, JobFields
    <2>4. schJobs' = { kept(j) : j \in schJobs } \cup {new}
      BY <1>2, <2>2 DEF Added
    <2> HIDE DEF kept
    <2>5. ASSUME JobsOf(s) = {} PROVE JobsOf(s)' = {new}
      <3>1. \A j \in schJobs : kept(j).id # s
        BY <2>1, <2>5 DEF JobsOf
      <3> QED
        BY <2>3, <2>4, <3>1 DEF JobsOf
    <2>6. ASSUME NEW t, t # s PROVE JobsOf(t)' = JobsOf(t)
      <3>1. \A j \in schJobs : kept(j).id = t => kept(j) = j
        BY <2>1, <2>6
      <3>2. JobsOf(t)' \subseteq JobsOf(t)
        BY <2>1, <2>3, <2>4, <2>6, <3>1 DEF JobsOf
      <3>3. ASSUME NEW j \in JobsOf(t) PROVE j \in JobsOf(t)'
        <4>1. j \in schJobs /\ j.id = t /\ kept(j) = j
          BY <2>1, <2>6, <3>3 DEF JobsOf
        <4> QED
          BY <2>4, <4>1 DEF JobsOf
      <3> QED
        BY <3>2, <3>3
    <2>7. \A j \in schJobs' : IsJob(j)
      BY <2>1, <2>3, <2>4
    <2> QED
      BY <1>2, <2>2, <2>5, <2>6, <2>7
  <1> QED
    BY <1>1, <1>2

(* The steps that tell the cron manager.                                   *)
LEMMA JobsStep ==
  ASSUME SchIInv, NEW c \in schCalls, SchJobRemoved(c) \/ SchDeleteDone(c) \/ SchJobAdded(c)
  PROVE  SchIInv'
  <1> USE DEF SchIInv
  <1>1. /\ Handling(c) /\ UNCHANGED <<schRows, schLoose>>
        /\ c.kind \in {"create", "update", "delete"}
    BY DEF SchJobRemoved, SchDeleteDone, SchJobAdded, Handling, SchShapes
  <1>2. CASE SchJobRemoved(c) \/ SchDeleteDone(c)
    <2>1. PICK step, d :
            /\ IF c.step = "read" THEN step = "removed" ELSE step = "done" /\ c.kind = "delete" /\ c.step = "stored"
            /\ d = [c EXCEPT !.step = step] /\ SchTo(c, step) /\ schJobs' = Removed(schJobs, c.id)
      BY <1>2 DEF SchJobRemoved, SchDeleteDone
    <2>2. schCalls' = (schCalls \ {c}) \cup {d} /\ d.step = step /\ d.id = c.id /\ d.row = c.row
      BY <2>1, Moved DEF SchTo
    <2>3. SchShapes'
      BY <1>1, <2>1, RemovedJobs, MovedShapes
    <2>4. ASSUME NEW s \in Schedules \ schLoose' PROVE Kept(s)'
      <3>1. Kept(s)
        BY <1>1, <2>4
      <3>2. CASE s = c.id
        <4>1. Stage(c) /\ Handlers(s)' = IF Handling(d) THEN {d} ELSE {}
          BY <1>1, <2>2, <3>1, <3>2, OnlyHandler
        <4>2. JobsOf(s)' = {}
          BY <2>1, <3>2, <4>1, RemovedJobs DEF Stage
        <4>3. CASE c.step = "read"
          <5>1. Handlers(s)' = {d} /\ d.step = "removed"
            BY <2>1, <2>2, <4>1, <4>3 DEF Handling
          <5>2. Stage(d)'
            BY <1>1, <2>2, <3>2, <4>1, <4>2, <4>3, <5>1 DEF Stage
          <5> QED
            BY <5>1, <5>2 DEF Kept
        <4>4. CASE c.step # "read"
          <5>1. Handlers(s)' = {}
            BY <2>1, <2>2, <4>1, <4>4 DEF Handling
          <5>2. s \notin DOMAIN schRows'
            BY <1>1, <2>1, <3>2, <4>1, <4>4 DEF Stage
          <5> QED
            BY <4>2, <5>1, <5>2 DEF Kept, Wanted
        <4> QED
          BY <4>3, <4>4
      <3>3. CASE s # c.id
        <4>1. Handlers(s)' = Handlers(s)
          BY <2>2, <3>3, SchReplaced
        <4>2. JobsOf(s)' = JobsOf(s)
          BY <2>1, <3>3, RemovedJobs
        <4> QED
          BY <1>1, <3>1, <4>1, <4>2, Frame
      <3> QED
        BY <3>2, <3>3
    <2> QED
      BY <2>3, <2>4
  <1>3. CASE SchJobAdded(c)
    <2>1. PICK d : d = [c EXCEPT !.step = "done"]
      OBVIOUS
    <2>2. schCalls' = (schCalls \ {c}) \cup {d} /\ d.step = "done" /\ d.id = c.id
      BY <1>3, <2>1, Moved DEF SchTo, SchJobAdded
    <2>3. c.step = "removed" /\ SchTo(c, "done") /\ schJobs' = Added(schJobs, c.id, c.row)
      BY <1>3 DEF SchJobAdded
    <2>5. SchShapes'
      BY <1>1, <2>3, AddedJobs, MovedShapes
    <2>6. \A t : t # c.id => JobsOf(t)' = JobsOf(t)
      BY <2>3, AddedJobs
    <2>7. ASSUME NEW s \in Schedules \ schLoose' PROVE Kept(s)'
      <3>1. Kept(s)
        BY <1>1, <2>7
      <3>2. CASE s = c.id
        <4>1. Stage(c) /\ Handlers(s)' = {}
          BY <1>1, <2>2, <3>1, <3>2, OnlyHandler DEF Handling
        <4>2. JobsOf(s) = {} /\ s \in DOMAIN schRows /\ c.row = schRows[s]
          BY <2>3, <3>2, <4>1 DEF Stage
        <4>3. JobsOf(s)' = Wanted(s)'
          BY <1>1, <2>3, <3>2, <4>2, AddedJobs DEF Wanted
        <4> QED
          BY <4>1, <4>3 DEF Kept
      <3>3. CASE s # c.id
        <4>1. Handlers(s)' = Handlers(s)
          BY <2>2, <3>3, SchReplaced
        <4> QED
          BY <1>1, <2>6, <3>1, <3>3, <4>1, Frame
      <3> QED
        BY <3>2, <3>3
    <2> QED
      BY <2>5, <2>7
  <1> QED
    BY <1>2, <1>3

-----------------------------------------------------------------------------
(* What is not being handled: requests that are sent, answered or taken back.*)

SchElsewhere ==
  /\ UNCHANGED <<schRows, schJobs, schLoose>>
  /\ SchShapes'
  /\ \A s : Handlers(s)' = Handlers(s)

LEMMA SchElsewhereStep ==
  ASSUME SchIInv, SchElsewhere
  PROVE  SchIInv'
  <1>1. ASSUME NEW s \in Schedules \ schLoose' PROVE Kept(s)'
    BY <1>1, Frame DEF SchIInv, SchElsewhere, JobsOf
  <1> QED
    BY <1>1 DEF SchIInv, SchElsewhere

LEMMA SchAskedElsewhere ==
  ASSUME SchShapes, NEW kind, NEW s, NEW data, NEW form, SchAsk(SchCall(kind, s, data, form))
  PROVE  SchElsewhere
  <1>1. PICK c : c = SchCall(kind, s, data, form)
    OBVIOUS
  <1>2. /\ DOMAIN c = {"kind", "id", "data", "form", "step", "row", "at", "n"}
        /\ c = [f \in DOMAIN c |-> c[f]] /\ ~ Handling(c)
    BY <1>1 DEF SchCall, Handling
  <1>3. schCalls' = schCalls \cup {c} /\ UNCHANGED <<schRows, schJobs, schLoose>>
    BY <1>1 DEF SchAsk
  <1> QED
    BY <1>2, <1>3 DEF SchElsewhere, SchShapes, Handlers

LEMMA SchUserElsewhere ==
  ASSUME SchShapes, SchUser
  PROVE  SchElsewhere
  <1>1. CASE SchRefresh
    BY <1>1, SchAskedElsewhere DEF SchRefresh, List
  <1>2. CASE SchFill
    BY <1>2 DEF SchFill, SchElsewhere, SchShapes, Handlers
  <1>3. CASE SchSubmit
    BY <1>3, SchAskedElsewhere DEF SchSubmit
  <1>4. CASE SchCancel
    BY <1>4 DEF SchCancel, SchElsewhere, SchShapes, Handlers
  <1>5. ASSUME NEW s \in Schedules \cup {None}, SchOpen(s) PROVE SchElsewhere
    BY <1>5 DEF SchOpen, SchElsewhere, SchShapes, Handlers
  <1>6. ASSUME NEW s \in Schedules, SchToggle(s) PROVE SchElsewhere
    BY <1>6, SchAskedElsewhere DEF SchToggle
  <1>7. ASSUME NEW s \in Schedules, SchDelete(s) PROVE SchElsewhere
    BY <1>7, SchAskedElsewhere DEF SchDelete
  <1>8. ASSUME NEW s \in Schedules, SchTrigger(s) PROVE SchElsewhere
    BY <1>8, SchAskedElsewhere DEF SchTrigger
  <1> QED
    BY <1>1, <1>2, <1>3, <1>4, <1>5, <1>6, <1>7, <1>8 DEF SchUser

(* A request that is not being handled gives way to another, or is over.   *)
LEMMA ExchangedElsewhere ==
  ASSUME SchShapes, NEW c \in schCalls, ~ Handling(c), UNCHANGED <<schRows, schJobs, schLoose>>,
         NEW d, ~ Handling(d),
         DOMAIN d = {"kind", "id", "data", "form", "step", "row", "at", "n"},
         d = [f \in DOMAIN d |-> d[f]],
         schCalls' = (schCalls \ {c}) \cup {d}
  PROVE  SchElsewhere
  BY DEF SchElsewhere, SchShapes, Handlers

LEMMA OverElsewhere ==
  ASSUME SchShapes, NEW c \in schCalls, ~ Handling(c), UNCHANGED <<schRows, schJobs, schLoose>>,
         schCalls' = schCalls \ {c}
  PROVE  SchElsewhere
  BY DEF SchElsewhere, SchShapes, Handlers

LEMMA SchArriveElsewhere ==
  ASSUME SchShapes, NEW c \in schCalls, SchArrive(c)
  PROVE  SchElsewhere
  <1>1. UNCHANGED <<schRows, schJobs, schLoose>>
    BY DEF SchArrive
  <1>2. PICK l : l = List
    OBVIOUS
  <1>3. /\ DOMAIN l = {"kind", "id", "data", "form", "step", "row", "at", "n"}
        /\ l = [f \in DOMAIN l |-> l[f]] /\ l.step = "sent"
    BY <1>2 DEF List, SchCall
  <1>4. CASE SchListArrives(c) \/ SchFails(c)
    <2>1. ~ Handling(c) /\ schCalls' = schCalls \ {c}
      BY <1>4 DEF SchListArrives, SchFails, SchAnswered, Handling
    <2> QED
      BY <1>1, <2>1, OverElsewhere
  <1>5. CASE SchChanged(c)
    <2>1. ~ Handling(c) /\ schCalls' = (schCalls \ {c}) \cup {[l EXCEPT !.n = c.n]}
      BY <1>2, <1>5 DEF SchChanged, Handling
    <2>2. PICK d : d = [l EXCEPT !.n = c.n]
      OBVIOUS
    <2>3. /\ DOMAIN d = {"kind", "id", "data", "form", "step", "row", "at", "n"}
          /\ d = [f \in DOMAIN d |-> d[f]] /\ ~ Handling(d)
      BY <1>3, <2>2 DEF Handling
    <2> QED
      BY <1>1, <2>1, <2>2, <2>3, ExchangedElsewhere
  <1>6. CASE SchTriggerDone(c)
    <2>1. ~ Handling(c) /\ schCalls' = (schCalls \ {c}) \cup {[l EXCEPT !.n = c.n, !.kind = "timer"]}
      BY <1>2, <1>6 DEF SchTriggerDone, Handling
    <2>2. PICK d : d = [l EXCEPT !.n = c.n, !.kind = "timer"]
      OBVIOUS
    <2>3. /\ DOMAIN d = {"kind", "id", "data", "form", "step", "row", "at", "n"}
          /\ d = [f \in DOMAIN d |-> d[f]] /\ ~ Handling(d)
      BY <1>3, <2>2 DEF Handling
    <2> QED
      BY <1>1, <2>1, <2>2, <2>3, ExchangedElsewhere
  <1>7. CASE SchTimer(c)
    <2>1. ~ Handling(c) /\ schCalls' = (schCalls \ {c}) \cup {[c EXCEPT !.kind = "list"]}
      BY <1>7 DEF SchTimer, SchShapes
    <2>2. PICK d : d = [c EXCEPT !.kind = "list"]
      OBVIOUS
    <2>3. /\ DOMAIN d = {"kind", "id", "data", "form", "step", "row", "at", "n"}
          /\ d = [f \in DOMAIN d |-> d[f]] /\ ~ Handling(d)
      BY <2>1, <2>2 DEF SchShapes, Handling
    <2> QED
      BY <1>1, <2>1, <2>2, <2>3, ExchangedElsewhere
  <1> QED
    BY <1>4, <1>5, <1>6, <1>7 DEF SchArrive

LEMMA ServedElsewhere ==
  ASSUME SchShapes, NEW c \in schCalls, SchTriggered(c) \/ SchRefused(c) \/ SchListServed(c)
  PROVE  SchElsewhere
  <1>1. UNCHANGED <<schRows, schJobs, schLoose>> /\ ~ Handling(c)
    BY DEF SchTriggered, SchRefused, SchListServed, Handling
  <1>2. PICK d :
          /\ schCalls' = (schCalls \ {c}) \cup {d}
          /\ \/ \E step \in {"done", "failed"} : d = [c EXCEPT !.step = step]
             \/ d = [c EXCEPT !.step = "done", !.row = schRows, !.at = schServed + 1]
    BY DEF SchTriggered, SchRefused, SchListServed, SchTo
  <1>3. /\ DOMAIN d = {"kind", "id", "data", "form", "step", "row", "at", "n"}
        /\ d = [f \in DOMAIN d |-> d[f]] /\ d.step \in {"done", "failed"}
    <2>1. ASSUME NEW step \in {"done", "failed"}, d = [c EXCEPT !.step = step]
          PROVE  <1>3!:
      BY <2>1, Moved
    <2>2. CASE d = [c EXCEPT !.step = "done", !.row = schRows, !.at = schServed + 1]
      BY <2>2 DEF SchShapes
    <2> QED
      BY <1>2, <2>1, <2>2
  <1> QED
    BY <1>1, <1>2, <1>3, ExchangedElsewhere DEF Handling

-----------------------------------------------------------------------------

LEMMA SchServeStep ==
  ASSUME SchIInv, NEW c \in schCalls, SchServe(c)
  PROVE  SchIInv'
  <1>1. CASE SchCreateStored(c)
    BY <1>1, SchCreateStep
  <1>2. CASE SchUpdateStored(c)
    BY <1>2, StoreStep DEF SchUpdateStored
  <1>3. CASE SchDeleteStored(c)
    BY <1>3, StoreStep DEF SchDeleteStored
  <1>4. CASE SchUpdateRead(c)
    BY <1>4, ReadStep
  <1>5. CASE SchJobRemoved(c) \/ SchDeleteDone(c) \/ SchJobAdded(c)
    BY <1>5, JobsStep
  <1>6. CASE SchTriggered(c) \/ SchRefused(c)
    BY <1>6, ServedElsewhere, SchElsewhereStep DEF SchIInv
  <1> QED
    BY <1>1, <1>2, <1>3, <1>4, <1>5, <1>6 DEF SchServe

(* Init of the cron manager starts from the table, whatever was going on.  *)
LEMMA RestartStep ==
  ASSUME SchIInv, SchRestart
  PROVE  SchIInv'
  <1>1. ASSUME NEW d \in schCalls'
        PROVE  /\ DOMAIN d = {"kind", "id", "data", "form", "step", "row", "at", "n"}
               /\ d = [f \in DOMAIN d |-> d[f]] /\ ~ Handling(d)
    <2>1. PICK c \in schCalls : d = IF Handling(c) THEN [c EXCEPT !.step = "failed"] ELSE c
      BY <1>1 DEF SchRestart
    <2> QED
      BY <2>1, Moved DEF SchIInv, SchShapes, Handling
  <1>2. schRows' = schRows
        /\ schJobs' = { Job(s, schRows[s], TRUE) : s \in { t \in DOMAIN schRows : schRows[t]["on"] } }
    BY DEF SchRestart
  <1>3. SchShapes'
    <2>1. ASSUME NEW j \in schJobs' PROVE IsJob(j)
      <3>1. PICK s : j = Job(s, schRows[s], TRUE)
        BY <1>2
      <3> QED
        BY <3>1, JobFields
    <2> QED
      BY <1>1, <2>1 DEF SchShapes
  <1>4. ASSUME NEW s \in Schedules PROVE Kept(s)'
    <2>1. Handlers(s)' = {}
      BY <1>1 DEF Handlers
    <2>2. JobsOf(s)' = Wanted(s)'
      BY <1>2 DEF JobsOf, Wanted, Job
    <2> QED
      BY <2>1, <2>2 DEF Kept
  <1> QED
    BY <1>3, <1>4 DEF SchIInv

LEMMA SchStep == SchIInv /\ [SchNext]_schVars => SchIInv'
  <1> SUFFICES ASSUME SchIInv, [SchNext]_schVars PROVE SchIInv'
    OBVIOUS
  <1>1. CASE SchUser
    BY <1>1, SchUserElsewhere, SchElsewhereStep DEF SchIInv
  <1>2. ASSUME NEW c \in schCalls, SchServe(c) PROVE SchIInv'
    BY <1>2, SchServeStep
  <1>3. ASSUME NEW c \in schCalls, SchListServed(c) \/ SchArrive(c) PROVE SchIInv'
    BY <1>3, ServedElsewhere, SchArriveElsewhere, SchElsewhereStep DEF SchIInv
  <1>4. CASE SchRestart
    BY <1>4, RestartStep
  <1>5. CASE UNCHANGED schVars
    BY <1>5, SchElsewhereStep DEF SchIInv, schVars, SchElsewhere, SchShapes, Handlers
  <1> QED
    BY <1>1, <1>2, <1>3, <1>4, <1>5 DEF SchNext, SchProgress

LEMMA SchInvariance == SchSpec => []SchIInv
  BY SchInitIInv, SchStep, PTL DEF SchSpec

(* Whatever handlers interleave and wherever the server restarts, a        *)
(* schedule nobody works on has a job exactly if it is stored and enabled, *)
(* one, and with what is stored; but for those two handlers worked on at   *)
(* the same time, or of which one could not read the row back.             *)
THEOREM JobsFollow == SchSpec => []JobsFollowRows
  <1>1. SchIInv => JobsFollowRows
    <2> SUFFICES ASSUME SchIInv, NEW s \in Schedules \ schLoose,
                        \A c \in schCalls : c.id = s => ~ Handling(c)
                 PROVE  JobsOf(s) = Wanted(s)
      BY DEF JobsFollowRows, JobsOf, Wanted
    <2> QED
      BY DEF SchIInv, Kept, Handlers
  <1> QED
    BY <1>1, SchInvariance, PTL
-----------------------------------------------------------------------------
(***************************************************************************)
(* Schedules: the page                                                     *)
(***************************************************************************)

(* Changes, each followed by a load, and loads that are not answered yet.  *)
SchComing(c) ==
  \/ c.kind \in {"create", "update", "delete"}
  \/ c.kind = "list" /\ c.step \in {"sent", "failed"}

(* An answer on its way that no other list was served after.               *)
SchLatest(c) == c.kind = "list" /\ c.step = "done" /\ c.at = schServed

SchTimes ==
  /\ schServed \in Nat /\ schPage.at \in 0 .. schServed
  /\ DOMAIN schPage = {"shown", "loading", "dialog", "at"}
  /\ \A c \in schCalls : c.at \in 0 .. schServed /\ (c.kind = "timer" => c.step \in {"sent", "failed"})

(* Unless a load is still to come, whatever was served last is what is     *)
(* stored, and it is on its way or on the page.                            *)
SchCurrent ==
  /\ \A c \in schCalls : SchLatest(c) => c.row = schRows
  /\ schPage.at = schServed => schPage.shown = schRows
  /\ schPage.at = schServed \/ \E c \in schCalls : SchLatest(c)

SchTold == schSpoilt \/ (\E c \in schCalls : SchComing(c)) \/ SchCurrent

SchPageInv == SchIInv /\ SchTimes /\ SchTold

-----------------------------------------------------------------------------

LEMMA SchInitTold == SchInit => SchTimes /\ SchTold
  <1> SUFFICES ASSUME SchInit PROVE SchTimes /\ SchTold
    OBVIOUS
  <1>1. /\ List \in schCalls /\ List.kind = "list" /\ List.step = "sent"
        /\ \A c \in schCalls : c.at = 0 /\ c.kind # "timer"
    BY DEF SchInit, List, SchCall
  <1>2. schServed = 0 /\ schPage.at = 0 /\ DOMAIN schPage = {"shown", "loading", "dialog", "at"}
    BY DEF SchInit
  <1> QED
    BY <1>1, <1>2 DEF SchTimes, SchTold, SchComing

(* What the user does sends requests, and shows nothing else.              *)
SchNothingNew ==
  /\ UNCHANGED <<schRows, schServed, schSpoilt>>
  /\ schPage'.at = schPage.at /\ schPage'.shown = schPage.shown
  /\ DOMAIN schPage' = DOMAIN schPage
  /\ schCalls \subseteq schCalls'
  /\ \A c \in schCalls' \ schCalls : c.step = "sent" /\ c.at = 0

LEMMA SchNothingNewStep ==
  ASSUME SchTimes, SchTold, SchNothingNew
  PROVE  SchTimes' /\ SchTold'
  <1>1. SchTimes'
    BY DEF SchTimes, SchNothingNew
  <1>2. CASE schSpoilt \/ \E c \in schCalls : SchComing(c)
    BY <1>1, <1>2 DEF SchTold, SchNothingNew, SchComing
  <1>3. CASE SchCurrent
    <2>1. SchCurrent'
      BY <1>3 DEF SchCurrent, SchNothingNew, SchLatest
    <2> QED
      BY <1>1, <2>1 DEF SchTold
  <1> QED
    BY <1>1, <1>2, <1>3 DEF SchTold

LEMMA SchAskNothingNew ==
  ASSUME NEW kind, NEW s, NEW data, NEW form, SchAsk(SchCall(kind, s, data, form)),
         \/ UNCHANGED schPage
         \/ \E f \in {"loading", "dialog"} : \E x : schPage' = [schPage EXCEPT ![f] = x],
         SchTimes
  PROVE  SchNothingNew
  <1>1. PICK c : c = SchCall(kind, s, data, form)
    OBVIOUS
  <1>2. c.step = "sent" /\ c.at = 0
    BY <1>1 DEF SchCall
  <1> QED
    BY <1>1, <1>2 DEF SchAsk, SchNothingNew, SchTimes

LEMMA SchUserNothingNew ==
  ASSUME SchTimes, SchUser
  PROVE  SchNothingNew
  <1>1. CASE SchRefresh
    BY <1>1, SchAskNothingNew DEF SchRefresh, List, SchLoading
  <1>2. CASE SchFill
    BY <1>2 DEF SchFill, SchNothingNew, SchTimes
  <1>3. CASE SchSubmit
    <2>1. schPage' = [schPage EXCEPT !.dialog = [@ EXCEPT !.n = schAsked]]
      BY <1>3 DEF SchSubmit
    <2> QED
      BY <1>3, <2>1, SchAskNothingNew DEF SchSubmit
  <1>4. CASE SchCancel
    BY <1>4 DEF SchCancel, SchNothingNew, SchTimes
  <1>5. ASSUME NEW s \in Schedules \cup {None}, SchOpen(s) PROVE SchNothingNew
    BY <1>5 DEF SchOpen, SchNothingNew, SchTimes
  <1>6. ASSUME NEW s \in Schedules, SchToggle(s) PROVE SchNothingNew
    BY <1>6, SchAskNothingNew DEF SchToggle
  <1>7. ASSUME NEW s \in Schedules, SchDelete(s) PROVE SchNothingNew
    BY <1>7, SchAskNothingNew DEF SchDelete
  <1>8. ASSUME NEW s \in Schedules, SchTrigger(s) PROVE SchNothingNew
    BY <1>8, SchAskNothingNew DEF SchTrigger
  <1> QED
    BY <1>1, <1>2, <1>3, <1>4, <1>5, <1>6, <1>7, <1>8 DEF SchUser

-----------------------------------------------------------------------------
(* The server: what is stored changes only while a load is still to come.  *)

LEMMA SchServeTold ==
  ASSUME SchShapes, SchTimes, SchTold, NEW c \in schCalls, SchServe(c)
  PROVE  SchTimes' /\ SchTold'
  <1>0. UNCHANGED <<schPage, schServed, schSpoilt>>
    BY DEF SchServe
  <1> DEFINE Exchanged ==
        \E d : /\ schCalls' = (schCalls \ {c}) \cup {d}
               /\ d.kind = c.kind /\ d.at = c.at /\ ~ SchLatest(c) /\ ~ SchLatest(d)
               /\ SchComing(c) => SchComing(d)
               /\ c.kind = "timer" => d.step = "failed"
               /\ ~ SchComing(c) => UNCHANGED schRows
  <1>a. Exchanged
    <2>1. CASE SchCreateStored(c)
      <3>1. PICK s, row : schCalls' = (schCalls \ {c}) \cup {[c EXCEPT !.step = "removed", !.id = s, !.row = row]}
        BY <2>1 DEF SchCreateStored
      <3>2. PICK d : d = [c EXCEPT !.step = "removed", !.id = s, !.row = row]
        OBVIOUS
      <3>3. d.kind = c.kind /\ d.at = c.at /\ d.step = "removed" /\ c.kind = "create"
        BY <2>1, <3>2 DEF SchShapes, SchCreateStored
      <3> QED
        BY <3>1, <3>2, <3>3 DEF SchLatest, SchComing
    <2>2. CASE SchUpdateRead(c) /\ schCalls' = (schCalls \ {c}) \cup {[c EXCEPT !.step = "read", !.row = schRows[c.id]]}
      <3>2. PICK d : d = [c EXCEPT !.step = "read", !.row = schRows[c.id]]
        OBVIOUS
      <3>3. d.kind = c.kind /\ d.at = c.at /\ d.step = "read" /\ c.kind = "update"
        BY <2>2, <3>2 DEF SchShapes, SchUpdateRead
      <3> QED
        BY <2>2, <3>2, <3>3 DEF SchLatest, SchComing
    <2>3. ASSUME NEW step, SchTo(c, step), c.step # "done", step \in {"stored", "removed", "failed"} \/ c.kind # "list",
                 \/ c.kind \in {"create", "update", "delete"}
                 \/ c.kind = "trigger" /\ UNCHANGED schRows
                 \/ step = "failed" /\ UNCHANGED schRows
          PROVE  Exchanged
      <3>2. PICK d : d = [c EXCEPT !.step = step]
        OBVIOUS
      <3>3. d.kind = c.kind /\ d.at = c.at /\ d.step = step
        BY <3>2 DEF SchShapes
      <3> QED
        BY <2>3, <3>2, <3>3 DEF SchLatest, SchComing, SchTo
    <2>4. SchJobAdded(c) => c.kind \in {"create", "update", "delete"}
      BY DEF SchShapes, SchJobAdded, Handling
    <2> QED
      <3> HIDE DEF Exchanged
      <3> QED
      BY <2>1, <2>2, <2>3, <2>4 DEF SchServe, SchUpdateStored, SchUpdateRead, SchJobRemoved, SchJobAdded,
         SchDeleteStored, SchDeleteDone, SchTriggered, SchRefused
  <1>1. PICK d :
          /\ schCalls' = (schCalls \ {c}) \cup {d}
          /\ d.kind = c.kind /\ d.at = c.at /\ ~ SchLatest(c) /\ ~ SchLatest(d)
          /\ SchComing(c) => SchComing(d)
          /\ c.kind = "timer" => d.step = "failed"
          /\ ~ SchComing(c) => UNCHANGED schRows
    BY <1>a
  <1>2. SchTimes'
    BY <1>0, <1>1 DEF SchTimes
  <1>3. CASE schSpoilt \/ \E e \in schCalls : SchComing(e)
    BY <1>0, <1>1, <1>2, <1>3 DEF SchTold, SchComing
  <1>4. CASE SchCurrent /\ ~ \E e \in schCalls : SchComing(e)
    <2> QED
      BY <1>0, <1>1, <1>2, <1>4 DEF SchTold, SchCurrent, SchLatest
  <1> QED
    BY <1>2, <1>3, <1>4 DEF SchTold

(* A list that is served is the latest.                                    *)
LEMMA SchListTold ==
  ASSUME SchShapes, SchTimes, SchTold, NEW c \in schCalls, SchListServed(c)
  PROVE  SchTimes' /\ SchTold'
  <1>1. PICK d : d = [c EXCEPT !.step = "done", !.row = schRows, !.at = schServed + 1]
    OBVIOUS
  <1>2. d.kind = "list" /\ d.step = "done" /\ d.row = schRows /\ d.at = schServed + 1
    BY <1>1 DEF SchShapes, SchListServed
  <1>3. /\ schCalls' = (schCalls \ {c}) \cup {d} /\ schServed' = schServed + 1
        /\ UNCHANGED <<schRows, schPage, schSpoilt>>
    BY <1>1 DEF SchListServed
  <1>4. \A e \in schCalls : e.at # schServed'
    BY <1>3 DEF SchTimes
  <1>5. SchTimes'
    BY <1>2, <1>3 DEF SchTimes
  <1>6. schPage.at # schServed'
    BY <1>3 DEF SchTimes
  <1>7. SchCurrent'
    BY <1>2, <1>3, <1>4, <1>6 DEF SchCurrent, SchLatest
  <1> QED
    BY <1>5, <1>7 DEF SchTold

LEMMA SchRestartTold ==
  ASSUME SchShapes, SchTimes, SchTold, SchRestart
  PROVE  SchTimes' /\ SchTold'
  <1>0. UNCHANGED <<schRows, schPage, schServed, schSpoilt>>
    BY DEF SchRestart
  <1>1. ASSUME NEW d \in schCalls'
        PROVE  d \in schCalls \/ \E c \in schCalls : d.kind \in {"create", "update", "delete"} /\ d.at = c.at
    BY <1>1 DEF SchRestart, SchShapes
  <1>2. ASSUME NEW c \in schCalls
        PROVE  c \in schCalls' \/ (c.kind # "list" /\ \E d \in schCalls' : d.kind = c.kind)
    <2>1. CASE ~ Handling(c)
      BY <2>1 DEF SchRestart
    <2>2. CASE Handling(c)
      <3>1. PICK d : d = [c EXCEPT !.step = "failed"]
        OBVIOUS
      <3>2. d.kind = c.kind /\ c.kind # "list"
        BY <2>2, <3>1 DEF SchShapes
      <3>3. d \in schCalls'
        BY <2>2, <3>1 DEF SchRestart
      <3> QED
        BY <3>2, <3>3
    <2> QED
      BY <2>1, <2>2
  <1>3. SchTimes'
    BY <1>0, <1>1 DEF SchTimes
  <1>4. ASSUME NEW c \in schCalls, SchComing(c) PROVE \E d \in schCalls' : SchComing(d)
    BY <1>2, <1>4 DEF SchComing
  <1>5. SchCurrent => SchCurrent'
    BY <1>0, <1>1, <1>2 DEF SchCurrent, SchLatest
  <1> QED
    BY <1>0, <1>3, <1>4, <1>5 DEF SchTold, SchComing

-----------------------------------------------------------------------------
(* Answers.                                                                  *)

(* A list that arrives after a later one spoils what is shown.             *)
LEMMA SchListArrivesTold ==
  ASSUME SchShapes, SchTimes, SchTold, NEW c \in schCalls, SchListArrives(c), UNCHANGED <<schRows, schServed>>
  PROVE  SchTimes' /\ SchTold'
  <1>1. CASE c.step # "done"
    <2>1. schSpoilt' /\ schPage'.at = schPage.at /\ DOMAIN schPage' = DOMAIN schPage
      BY <1>1 DEF SchListArrives, SchAnswered, SchTimes
    <2> QED
      BY <2>1 DEF SchTold, SchTimes, SchListArrives
  <1>2. CASE c.step = "done"
    <2>1. /\ schPage'.at = c.at /\ schPage'.shown = c.row /\ DOMAIN schPage' = DOMAIN schPage
          /\ schCalls' = schCalls \ {c} /\ c.kind = "list"
      BY <1>2 DEF SchListArrives, SchTimes
    <2>2. schSpoilt \/ c.at < schPage.at => schSpoilt'
      BY DEF SchListArrives
    <2>3. SchTimes'
      BY <2>1 DEF SchTimes
    <2>4. CASE \E e \in schCalls : SchComing(e)
      <3>1. ~ SchComing(c)
        BY <1>2, <2>1 DEF SchComing
      <3> QED
        BY <2>1, <2>3, <2>4, <3>1 DEF SchTold, SchComing
    <2>5. CASE SchCurrent /\ ~ c.at < schPage.at
      <3>1. SchLatest(c) => c.row = schRows
        BY <2>5 DEF SchCurrent
      <3>2. c.at = schServed \/ schPage.at # schServed
        BY <2>5 DEF SchTimes
      <3>3. SchCurrent'
        BY <1>2, <2>1, <2>5, <3>1, <3>2 DEF SchCurrent, SchLatest
      <3> QED
        BY <2>3, <3>3 DEF SchTold
    <2> QED
      BY <2>2, <2>3, <2>4, <2>5 DEF SchTold
  <1> QED
    BY <1>1, <1>2

LEMMA SchArriveTold ==
  ASSUME SchShapes, SchTimes, SchTold, NEW c \in schCalls, SchArrive(c), schServed' = schServed
  PROVE  SchTimes' /\ SchTold'
  <1>0. UNCHANGED schRows
    BY DEF SchArrive
  <1>1. CASE SchListArrives(c)
    BY <1>0, <1>1, SchListArrivesTold
  <1>2. CASE SchFails(c)
    <2>1. schSpoilt' /\ schCalls' = schCalls \ {c} /\ schPage'.at = schPage.at /\ DOMAIN schPage' = DOMAIN schPage
      BY <1>2 DEF SchFails, SchTimes
    <2> QED
      BY <2>1 DEF SchTold, SchTimes
  <1>3. PICK l : l = List
    OBVIOUS
  <1>4. l.kind = "list" /\ l.step = "sent" /\ l.at = 0
        /\ DOMAIN l = {"kind", "id", "data", "form", "step", "row", "at", "n"}
    BY <1>3 DEF List, SchCall
  <1>5. CASE SchChanged(c)
    <2>1. PICK d : d = [l EXCEPT !.n = c.n]
      OBVIOUS
    <2>2. d.at = 0 /\ SchComing(d)
      BY <1>4, <2>1 DEF SchComing
    <2>3. schCalls' = (schCalls \ {c}) \cup {d} /\ schPage'.at = schPage.at /\ DOMAIN schPage' = DOMAIN schPage
      BY <1>3, <1>5, <2>1 DEF SchChanged, SchLoading, SchTimes
    <2> QED
      BY <2>2, <2>3 DEF SchTold, SchTimes, SchComing
  <1>6. CASE SchTriggerDone(c)
    <2>1. PICK d : d = [l EXCEPT !.n = c.n, !.kind = "timer"]
      OBVIOUS
    <2>2. d.at = 0 /\ d.kind = "timer" /\ d.step = "sent" /\ c.kind = "trigger"
      BY <1>4, <1>6, <2>1 DEF SchTriggerDone
    <2>3. schCalls' = (schCalls \ {c}) \cup {d} /\ UNCHANGED <<schPage, schSpoilt>>
      BY <1>3, <1>6, <2>1 DEF SchTriggerDone
    <2>4. SchTimes'
      BY <2>2, <2>3 DEF SchTimes
    <2>5. ~ SchComing(c) /\ ~ SchLatest(c) /\ ~ SchLatest(d)
      BY <2>2 DEF SchComing, SchLatest
    <2>6. SchCurrent => SchCurrent'
      BY <1>0, <2>3, <2>5 DEF SchCurrent, SchLatest
    <2> QED
      BY <2>3, <2>4, <2>5, <2>6 DEF SchTold, SchComing
  <1>7. CASE SchTimer(c)
    <2>1. PICK d : d = [c EXCEPT !.kind = "list"]
      OBVIOUS
    <2>2. d.at = c.at /\ d.kind = "list" /\ d.step = c.step /\ c.kind = "timer"
      BY <1>7, <2>1 DEF SchTimer, SchShapes
    <2>3. /\ schCalls' = (schCalls \ {c}) \cup {d} /\ UNCHANGED schSpoilt
          /\ schPage'.at = schPage.at /\ schPage'.shown = schPage.shown /\ DOMAIN schPage' = DOMAIN schPage
      BY <1>7, <2>1 DEF SchTimer, SchLoading, SchTimes
    <2>4. SchTimes'
      BY <2>2, <2>3 DEF SchTimes
    <2> QED
      BY <2>2, <2>3, <2>4 DEF SchTold, SchComing, SchTimes
  <1> QED
    BY <1>1, <1>2, <1>5, <1>6, <1>7 DEF SchArrive

LEMMA SchToldStep ==
  ASSUME SchShapes, SchTimes, SchTold, [SchNext]_schVars
  PROVE  SchTimes' /\ SchTold'
  <1>1. CASE SchUser
    BY <1>1, SchUserNothingNew, SchNothingNewStep
  <1>2. ASSUME NEW c \in schCalls, SchServe(c) PROVE SchTimes' /\ SchTold'
    BY <1>2, SchServeTold
  <1>3. ASSUME NEW c \in schCalls, SchListServed(c) PROVE SchTimes' /\ SchTold'
    BY <1>3, SchListTold
  <1>4. ASSUME NEW c \in schCalls, SchArrive(c) PROVE SchTimes' /\ SchTold'
    BY <1>4, SchArriveTold DEF SchArrive
  <1>5. CASE SchRestart
    BY <1>5, SchRestartTold
  <1>6. CASE UNCHANGED schVars
    BY <1>6, SchNothingNewStep DEF schVars, SchNothingNew
  <1> QED
    BY <1>1, <1>2, <1>3, <1>4, <1>5, <1>6 DEF SchNext, SchProgress

LEMMA SchPageInit == SchInit => SchPageInv
  BY SchInitIInv, SchInitTold DEF SchPageInv

LEMMA SchPageStep == SchPageInv /\ [SchNext]_schVars => SchPageInv'
  BY SchStep, SchToldStep DEF SchPageInv, SchIInv

(* With no request left there is no load to come and no answer on its way: *)
(* what the page shows is what was served last, and that is what is stored. *)
LEMMA SchPageFresh == SchPageInv => SchFreshAtRest
  BY DEF SchPageInv, SchTold, SchCurrent, SchFreshAtRest
-----------------------------------------------------------------------------
(***************************************************************************)
(* Loads under way, in the order they were sent (alerts, release gates)    *)
(***************************************************************************)

(* One of them is over.                                                    *)
LEMMA OneLoadOver ==
  ASSUME NEW S, NEW loads \in Seq(S), NEW i \in 1 .. Len(loads), NEW rest, rest = RemoveAt(loads, i)
  PROVE  /\ rest \in Seq(S) /\ Len(rest) = Len(loads) - 1
         /\ i < Len(loads) => rest[Len(rest)] = loads[Len(loads)]
         /\ i = Len(loads) /\ Len(rest) > 0 => rest[Len(rest)] = loads[Len(rest)]
  <1>1. Len(loads) \in Nat /\ i \in Nat /\ \A j \in 1 .. Len(loads) : loads[j] \in S
    BY LenProperties, ElementOfSeq
  <1>2. PICK a, b : a = SubSeq(loads, 1, i - 1) /\ b = SubSeq(loads, i + 1, Len(loads))
    OBVIOUS
  <1>3. a \in Seq(S) /\ Len(a) = i - 1 /\ \A j \in 1 .. i - 1 : a[j] = loads[j]
    BY <1>1, <1>2, SubSeqProperties
  <1>4. b \in Seq(S) /\ Len(b) = Len(loads) - i /\ \A j \in 1 .. Len(loads) - i : b[j] = loads[i + j]
    BY <1>1, <1>2, SubSeqProperties
  <1>5. rest = a \o b
    BY <1>2 DEF RemoveAt
  <1>6. rest \in Seq(S) /\ Len(rest) = Len(loads) - 1
    <2>1. a \o b \in Seq(S) /\ Len(a \o b) = Len(a) + Len(b)
      BY <1>3, <1>4, ConcatProperties
    <2> QED
      BY <1>1, <1>3, <1>4, <1>5, <2>1
  <1>7. \A j \in 1 .. Len(rest) : rest[j] = IF j <= i - 1 THEN a[j] ELSE b[j - (i - 1)]
    BY <1>1, <1>3, <1>4, <1>5, <1>6, ConcatProperties
  <1>8. ASSUME i < Len(loads) PROVE rest[Len(rest)] = loads[Len(loads)]
    <2>1. Len(rest) \in 1 .. Len(rest) /\ ~ Len(rest) <= i - 1 /\ Len(rest) - (i - 1) = Len(loads) - i
          /\ Len(loads) - i \in 1 .. Len(loads) - i /\ i + (Len(loads) - i) = Len(loads)
      BY <1>1, <1>6, <1>8
    <2> QED
      BY <1>4, <1>7, <2>1
  <1>9. ASSUME i = Len(loads), Len(rest) > 0 PROVE rest[Len(rest)] = loads[Len(rest)]
    BY <1>1, <1>3, <1>6, <1>7, <1>9
  <1> QED
    BY <1>6, <1>8, <1>9

(***************************************************************************)
(* Alerts: the page                                                        *)
(***************************************************************************)

AltLoadsOf(lists) == \E S : lists \in Seq(S) /\ \A l \in S : DOMAIN l = {"rules", "events", "late"}

AltPageOf(page) == DOMAIN page = {"rules", "events", "loading", "dialog"}

(* Rules and incidents as the page shows them at rest: rules that are      *)
(* stored, and incidents of which none was deleted or acknowledged since.  *)
AltUpToDate(rules, events) == rules = altRules /\ events \subseteq altIncidents

(* A load whose answers, so far as they were given, are up to date.        *)
AltGood(l) == (l.rules = None \/ l.rules = altRules) /\ (l.events = None \/ l.events \subseteq altIncidents)

(* Unless a change is under way, the load sent last will bring what is     *)
(* stored, or was overtaken; where none is left, the page shows it.        *)
AltTold ==
  altCalls = {} =>
    /\ altLists = <<>> => altSpoilt \/ AltUpToDate(altPage.rules, altPage.events)
    /\ altLists # <<>> => altLists[Len(altLists)].late \/ AltGood(altLists[Len(altLists)])

AltPageInv == AltIInv /\ AltLoadsOf(altLists) /\ AltPageOf(altPage) /\ AltTold

-----------------------------------------------------------------------------

LEMMA AltNewLoadGood ==
  ASSUME NEW l, l = AltNewLoad
  PROVE  DOMAIN l = {"rules", "events", "late"} /\ AltGood(l) /\ AltGood(l)'
  BY DEF AltNewLoad, AltGood

LEMMA AltAnotherLoad ==
  ASSUME AltLoadsOf(altLists), NEW l, DOMAIN l = {"rules", "events", "late"}, NEW lists, lists = Append(altLists, l)
  PROVE  /\ AltLoadsOf(lists) /\ lists # <<>> /\ lists[Len(lists)] = l
  <1>1. PICK S : altLists \in Seq(S) /\ \A k \in S : DOMAIN k = {"rules", "events", "late"}
    BY DEF AltLoadsOf
  <1>2. PICK T : T = S \cup {l}
    OBVIOUS
  <1>3. altLists \in Seq(T)
    <2>1. \A j \in 1 .. Len(altLists) : altLists[j] \in T
      BY <1>1, <1>2, ElementOfSeq
    <2>2. Len(altLists) \in Nat /\ altLists \in [1 .. Len(altLists) -> S]
      BY <1>1, LenProperties
    <2>3. altLists \in [1 .. Len(altLists) -> T]
      BY <1>2, <2>2
    <2> QED
      BY <2>2, <2>3, SeqDef
  <1>4. lists \in Seq(T) /\ Len(lists) = Len(altLists) + 1 /\ lists[Len(altLists) + 1] = l
    BY <1>2, <1>3, AppendProperties
  <1>5. lists # <<>>
    BY <1>3, <1>4, LenProperties, EmptySeq
  <1> QED
    BY <1>1, <1>2, <1>4, <1>5 DEF AltLoadsOf

LEMMA AltLateLoads ==
  ASSUME AltLoadsOf(altLists), NEW upto, NEW lists, lists = AltLate(altLists, upto)
  PROVE  /\ AltLoadsOf(lists) /\ Len(lists) = Len(altLists) /\ Len(lists) \in Nat
         /\ \A j \in 1 .. Len(lists) : j < upto => lists[j].late
         /\ \A j \in 1 .. Len(lists) : ~ j < upto => lists[j] = altLists[j]
  <1>1. PICK S : altLists \in Seq(S) /\ \A k \in S : DOMAIN k = {"rules", "events", "late"}
    BY DEF AltLoadsOf
  <1>2. /\ DOMAIN altLists = 1 .. Len(altLists) /\ Len(altLists) \in Nat
        /\ \A j \in 1 .. Len(altLists) : altLists[j] \in S
    BY <1>1, ElementOfSeq, LenProperties
  <1>3. PICK T : T = S \cup { [l EXCEPT !.late = TRUE] : l \in S }
    OBVIOUS
  <1>4. \A k \in T : DOMAIN k = {"rules", "events", "late"}
    BY <1>1, <1>3
  <1>5. lists = [j \in 1 .. Len(altLists) |-> IF j < upto THEN [altLists[j] EXCEPT !.late = TRUE] ELSE altLists[j]]
    BY <1>2 DEF AltLate
  <1>6. lists \in [1 .. Len(altLists) -> T]
    BY <1>2, <1>3, <1>5
  <1>7. lists \in Seq(T) /\ Len(lists) = Len(altLists)
    BY <1>2, <1>6, SeqDef, LenProperties
  <1>8. ASSUME NEW j \in 1 .. Len(lists), j < upto PROVE lists[j].late
    <2>1. lists[j] = [altLists[j] EXCEPT !.late = TRUE]
      BY <1>5, <1>7, <1>8
    <2> QED
      BY <1>1, <1>2, <1>7, <2>1
  <1> QED
    BY <1>2, <1>4, <1>5, <1>7, <1>8 DEF AltLoadsOf

LEMMA AltLoadOver ==
  ASSUME AltLoadsOf(altLists), NEW i \in DOMAIN altLists, NEW rest, rest = RemoveAt(AltLate(altLists, i), i)
  PROVE  /\ AltLoadsOf(rest)
         /\ i < Len(altLists) => rest # <<>> /\ rest[Len(rest)] = altLists[Len(altLists)]
         /\ i = Len(altLists) /\ rest # <<>> => rest[Len(rest)].late
         /\ i \in 1 .. Len(altLists)
  <1>1. PICK lists : lists = AltLate(altLists, i)
    OBVIOUS
  <1>2. /\ AltLoadsOf(lists) /\ Len(lists) = Len(altLists) /\ Len(lists) \in Nat
        /\ \A j \in 1 .. Len(lists) : j < i => lists[j].late
        /\ \A j \in 1 .. Len(lists) : ~ j < i => lists[j] = altLists[j]
    BY <1>1, AltLateLoads
  <1>3. PICK S : lists \in Seq(S) /\ \A k \in S : DOMAIN k = {"rules", "events", "late"}
    BY <1>2 DEF AltLoadsOf
  <1>4. i \in 1 .. Len(altLists)
    BY LenProperties DEF AltLoadsOf
  <1>5. /\ rest \in Seq(S) /\ Len(rest) = Len(lists) - 1
        /\ i < Len(lists) => rest[Len(rest)] = lists[Len(lists)]
        /\ i = Len(lists) /\ Len(rest) > 0 => rest[Len(rest)] = lists[Len(rest)]
    BY <1>1, <1>2, <1>3, <1>4, OneLoadOver
  <1>6. (rest = <<>> => Len(rest) = 0) /\ (rest # <<>> => Len(rest) > 0)
    BY <1>5, EmptySeq
  <1>7. CASE i < Len(altLists)
    BY <1>2, <1>3, <1>4, <1>5, <1>6, <1>7 DEF AltLoadsOf
  <1>8. CASE i = Len(altLists)
    BY <1>2, <1>3, <1>4, <1>5, <1>6, <1>8 DEF AltLoadsOf
  <1> QED
    BY <1>2, <1>4, <1>7, <1>8

-----------------------------------------------------------------------------

LEMMA AltInitTold == AltInit => AltLoadsOf(altLists) /\ AltPageOf(altPage) /\ AltTold
  <1> SUFFICES ASSUME AltInit PROVE AltLoadsOf(altLists) /\ AltPageOf(altPage) /\ AltTold
    OBVIOUS
  <1>1. PICK l : l = AltNewLoad
    OBVIOUS
  <1>2. DOMAIN l = {"rules", "events", "late"} /\ AltGood(l)
    BY <1>1, AltNewLoadGood
  <1>3. altLists = <<l>>
    BY <1>1 DEF AltInit
  <1>4. altLists \in Seq({l}) /\ Len(altLists) = 1 /\ altLists[1] = l /\ altLists # <<>>
    BY <1>3
  <1>5. AltLoadsOf(altLists)
    BY <1>2, <1>4 DEF AltLoadsOf
  <1>6. AltTold
    BY <1>2, <1>4 DEF AltTold
  <1>7. AltPageOf(altPage)
    BY DEF AltInit, AltPageOf
  <1> QED
    BY <1>5, <1>6, <1>7

(* While a change is under way, or where nothing the page shows or will    *)
(* show changes, only the shapes are at stake.                             *)
LEMMA AltSameLoads ==
  ASSUME AltLoadsOf(altLists), AltPageOf(altPage), AltTold, altLists' = altLists, AltPageOf(altPage'),
         \/ altCalls' # {}
         \/ /\ altCalls' = altCalls /\ altSpoilt' = altSpoilt /\ altRules' = altRules
            /\ altIncidents \subseteq altIncidents'
            /\ altPage'.rules = altPage.rules /\ altPage'.events = altPage.events
  PROVE  (AltLoadsOf(altLists) /\ AltPageOf(altPage) /\ AltTold)'
  <1>1. AltTold'
    BY DEF AltTold, AltGood, AltUpToDate
  <1> QED
    BY <1>1

(* A load that is sent when nothing else is under way brings what is       *)
(* stored.                                                                 *)
LEMMA AltReload ==
  ASSUME AltLoadsOf(altLists), NEW page, AltPageOf(page), AltLoad(page)
  PROVE  (AltLoadsOf(altLists) /\ AltPageOf(altPage) /\ AltTold)'
  <1>1. PICK l : l = AltNewLoad
    OBVIOUS
  <1>2. DOMAIN l = {"rules", "events", "late"} /\ AltGood(l)'
    BY <1>1, AltNewLoadGood
  <1>3. altLists' = Append(altLists, l) /\ altPage' = [page EXCEPT !.loading = TRUE]
    BY <1>1 DEF AltLoad
  <1>4. AltLoadsOf(altLists') /\ altLists' # <<>> /\ altLists'[Len(altLists')] = l
    BY <1>2, <1>3, AltAnotherLoad
  <1>5. AltPageOf(altPage')
    BY <1>3 DEF AltPageOf
  <1> QED
    BY <1>2, <1>4, <1>5 DEF AltTold

LEMMA AltUserTold ==
  ASSUME AltLoadsOf(altLists), AltPageOf(altPage), AltTold, AltUser
  PROVE  (AltLoadsOf(altLists) /\ AltPageOf(altPage) /\ AltTold)'
  <1>0. UNCHANGED <<altRules, altIncidents, altSpoilt>>
    BY DEF AltUser, AltRefresh, AltSubmit, AltClose, AltOpen, AltToggle, AltDelete, AltAck, AltAsk
  <1>1. CASE AltRefresh
    BY <1>1, AltReload DEF AltRefresh
  <1>2. ASSUME NEW kind, NEW r, NEW x, NEW data, AltAsk(kind, r, x, data), AltPageOf(altPage')
        PROVE  (AltLoadsOf(altLists) /\ AltPageOf(altPage) /\ AltTold)'
    <2>1. altCalls' # {} /\ altLists' = altLists
      BY <1>2 DEF AltAsk
    <2> QED
      BY <1>2, <2>1, AltSameLoads
  <1>3. CASE AltSubmit
    <2>1. AltPageOf(altPage')
      BY <1>3 DEF AltSubmit, AltPageOf
    <2> QED
      BY <1>2, <1>3, <2>1 DEF AltSubmit
  <1>4. CASE altLists' = altLists /\ altCalls' = altCalls /\ \E d : altPage' = [altPage EXCEPT !.dialog = d]
    <2>1. AltPageOf(altPage') /\ altPage'.rules = altPage.rules /\ altPage'.events = altPage.events
      BY <1>4 DEF AltPageOf
    <2> QED
      BY <1>0, <1>4, <2>1, AltSameLoads
  <1>5. CASE AltClose \/ \E r : AltOpen(r)
    BY <1>4, <1>5 DEF AltClose, AltOpen
  <1>6. CASE (\E r : AltToggle(r) \/ AltDelete(r)) \/ \E i : AltAck(i)
    BY <1>2, <1>6 DEF AltToggle, AltDelete, AltAck
  <1> QED
    BY <1>1, <1>3, <1>5, <1>6 DEF AltUser

LEMMA AltServerTold ==
  ASSUME AltLoadsOf(altLists), AltPageOf(altPage), AltTold, AltServer
  PROVE  (AltLoadsOf(altLists) /\ AltPageOf(altPage) /\ AltTold)'
  <1>0. UNCHANGED <<altPage, altLists, altSpoilt>>
    BY DEF AltServer
  <1>1. CASE \E c \in altCalls : AltStore(c) \/ AltRefuse(c)
    <2>1. altCalls' # {}
      BY <1>1 DEF AltStore, AltRefuse, AltTo
    <2> QED
      BY <1>0, <2>1, AltSameLoads
  <1>2. CASE UNCHANGED <<altCalls, altRules>> /\ altIncidents \subseteq altIncidents'
    BY <1>0, <1>2, AltSameLoads
  <1>3. ASSUME NEW x, UNCHANGED altCalls, AltCreate(x) PROVE altRules' = altRules /\ altIncidents \subseteq altIncidents'
    BY <1>3 DEF AltCreate, Inserted
  <1>4. ASSUME NEW x, UNCHANGED altCalls, AltRunEnds(x) \/ \E r : AltCheck(x, r)
        PROVE  altRules' = altRules /\ altIncidents \subseteq altIncidents'
    BY <1>4 DEF AltRunEnds, AltCheck
  <1> QED
    BY <1>1, <1>2, <1>3, <1>4 DEF AltServer

(* What a load is answered is what is stored then.                         *)
LEMMA AltServeTold ==
  ASSUME AltLoadsOf(altLists), AltPageOf(altPage), AltTold, NEW i \in DOMAIN altLists, AltServeList(i)
  PROVE  (AltLoadsOf(altLists) /\ AltPageOf(altPage) /\ AltTold)'
  <1>1. PICK S : altLists \in Seq(S) /\ \A k \in S : DOMAIN k = {"rules", "events", "late"}
    BY DEF AltLoadsOf
  <1>2. i \in 1 .. Len(altLists) /\ altLists[i] \in S /\ Len(altLists) \in Nat
    BY <1>1, LenProperties, ElementOfSeq
  <1>3. PICK l : /\ altLists' = [altLists EXCEPT ![i] = l]
                 /\ \/ l = [altLists[i] EXCEPT !.rules = altRules]
                    \/ l = [altLists[i] EXCEPT !.events = altIncidents]
    BY DEF AltServeList
  <1>4. /\ DOMAIN l = {"rules", "events", "late"} /\ l.late = altLists[i].late
        /\ AltGood(altLists[i]) => AltGood(l)
    BY <1>1, <1>2, <1>3 DEF AltGood
  <1>5. PICK T : T = S \cup {l}
    OBVIOUS
  <1>6. altLists \in Seq(T)
    <2>1. altLists \in [1 .. Len(altLists) -> S]
      BY <1>1, LenProperties
    <2>2. altLists \in [1 .. Len(altLists) -> T]
      BY <1>5, <2>1
    <2> QED
      BY <1>2, <2>2, SeqDef
  <1>7. /\ altLists' \in Seq(T) /\ Len(altLists') = Len(altLists)
        /\ \A j \in 1 .. Len(altLists) : altLists'[j] = IF j = i THEN l ELSE altLists[j]
    BY <1>2, <1>3, <1>5, <1>6, ExceptSeq
  <1>8. AltLoadsOf(altLists')
    BY <1>1, <1>4, <1>5, <1>7 DEF AltLoadsOf
  <1>9. UNCHANGED <<altRules, altIncidents, altCalls, altPage, altSpoilt>>
    BY DEF AltServeList
  <1>10. altLists # <<>> /\ altLists' # <<>> /\ Len(altLists) \in 1 .. Len(altLists)
    BY <1>2, <1>7
  <1>11. AltTold'
    BY <1>4, <1>7, <1>9, <1>10 DEF AltTold, AltGood
  <1> QED
    BY <1>8, <1>9, <1>11 DEF AltPageOf

LEMMA AltArriveTold ==
  ASSUME AltLoadsOf(altLists), AltPageOf(altPage), AltTold, AltArrive
  PROVE  (AltLoadsOf(altLists) /\ AltPageOf(altPage) /\ AltTold)'
  <1>0. UNCHANGED <<altRules, altIncidents>>
    BY DEF AltArrive
  <1>1. ASSUME NEW i \in DOMAIN altLists, AltListArrives(i) \/ AltListFails(i)
        PROVE  (AltLoadsOf(altLists) /\ AltPageOf(altPage) /\ AltTold)'
    <2>1. PICK rest : rest = RemoveAt(AltLate(altLists, i), i)
      OBVIOUS
    <2>2. /\ AltLoadsOf(rest) /\ i \in 1 .. Len(altLists)
          /\ i < Len(altLists) => rest # <<>> /\ rest[Len(rest)] = altLists[Len(altLists)]
          /\ i = Len(altLists) /\ rest # <<>> => rest[Len(rest)].late
      BY <2>1, AltLoadOver
    <2>3. altLists' = rest /\ UNCHANGED altCalls
      BY <1>1, <2>1 DEF AltListArrives, AltListFails
    <2>4. AltPageOf(altPage')
      BY <1>1 DEF AltListArrives, AltListFails, AltPageOf
    <2>5. altLists # <<>>
      BY <2>2
    <2>6. CASE i < Len(altLists)
      BY <1>0, <2>2, <2>3, <2>4, <2>5, <2>6 DEF AltTold, AltGood
    <2>7. CASE i = Len(altLists) /\ AltListFails(i)
      <3>1. altSpoilt'
        BY <2>7 DEF AltListFails
      <3> QED
        BY <2>2, <2>3, <2>4, <2>7, <3>1 DEF AltTold
    <2>8. CASE i = Len(altLists) /\ AltListArrives(i)
      <3>1. /\ altPage'.rules = altLists[i].rules /\ altPage'.events = altLists[i].events
            /\ altLists[i].rules # None /\ altLists[i].events # None
            /\ altSpoilt' = altLists[i].late
        BY <2>8 DEF AltListArrives, AltPageOf
      <3>2. AltTold'
        BY <1>0, <2>2, <2>3, <2>5, <2>8, <3>1 DEF AltTold, AltGood, AltUpToDate
      <3> QED
        BY <2>2, <2>3, <2>4, <3>2
    <2> QED
      BY <1>1, <2>2, <2>6, <2>7, <2>8 DEF AltLoadsOf
  <1>2. ASSUME NEW c \in altCalls, AltChanged(c)
        PROVE  (AltLoadsOf(altLists) /\ AltPageOf(altPage) /\ AltTold)'
    <2>1. PICK page : page = IF c.kind \in {"create", "update"} THEN [altPage EXCEPT !.dialog = None] ELSE altPage
      OBVIOUS
    <2>2. AltPageOf(page) /\ AltLoad(page)
      BY <1>2, <2>1 DEF AltChanged, AltPageOf
    <2> QED
      BY <2>2, AltReload
  <1>3. ASSUME NEW c \in altCalls, AltFails(c)
        PROVE  (AltLoadsOf(altLists) /\ AltPageOf(altPage) /\ AltTold)'
    <2>1. AltPageOf(altPage') /\ altSpoilt' /\ altLists' = AltLate(altLists, Len(altLists) + 1)
      BY <1>3 DEF AltFails, AltPageOf
    <2>2. /\ AltLoadsOf(altLists') /\ Len(altLists') = Len(altLists) /\ Len(altLists') \in Nat
          /\ \A j \in 1 .. Len(altLists') : j < Len(altLists) + 1 => altLists'[j].late
      BY <2>1, AltLateLoads
    <2>3. altLists' # <<>> => altLists'[Len(altLists')].late
      <3>1. altLists' # <<>> => Len(altLists') # 0
        BY <2>2, EmptySeq DEF AltLoadsOf
      <3> QED
        BY <2>2, <3>1
    <2> QED
      BY <2>1, <2>2, <2>3 DEF AltTold
  <1> QED
    BY <1>1, <1>2, <1>3 DEF AltArrive

-----------------------------------------------------------------------------

LEMMA AltPageInit == AltInit => AltPageInv
  BY AltInitIInv, AltInitTold DEF AltPageInv

LEMMA AltPageStep == AltPageInv /\ [AltNext]_altVars => AltPageInv'
  <1> SUFFICES ASSUME AltPageInv, [AltNext]_altVars PROVE AltPageInv'
    OBVIOUS
  <1>1. AltIInv'
    BY AltStep DEF AltPageInv
  <1>2. CASE AltUser
    BY <1>1, <1>2, AltUserTold DEF AltPageInv
  <1>3. CASE AltServer
    BY <1>1, <1>3, AltServerTold DEF AltPageInv
  <1>4. CASE AltArrive
    BY <1>1, <1>4, AltArriveTold DEF AltPageInv
  <1>5. CASE \E i \in DOMAIN altLists : AltServeList(i)
    BY <1>1, <1>5, AltServeTold DEF AltPageInv
  <1>6. CASE UNCHANGED altVars
    BY <1>1, <1>6, AltSameLoads DEF AltPageInv, altVars
  <1> QED
    BY <1>2, <1>3, <1>4, <1>5, <1>6 DEF AltNext, AltProgress

(* With nothing under way the load sent last has arrived last, or what it  *)
(* brought was spoilt.                                                     *)
LEMMA AltPageFresh == AltPageInv => AltFreshAtRest
  BY DEF AltPageInv, AltTold, AltUpToDate, AltFreshAtRest
-----------------------------------------------------------------------------
(***************************************************************************)
(* Release gates: the page                                                 *)
(***************************************************************************)

(* Results are of tests that protect the service.                          *)
GatResults ==
  /\ gatProduced \subseteq ResultSets
  /\ \A c \in gatCalls : c.results \in ResultSets /\ c.todo \subseteq GatTests

GatNow == Summary(gatCands, gatBase)

(* As for the alerts: unless a request is under way, the load sent last    *)
(* will bring what the service says now, or was overtaken.                 *)
GatTold ==
  gatCalls = {} =>
    /\ gatLoads = <<>> => gatSpoilt \/ gatPage.gate = GatNow
    /\ gatLoads # <<>> => gatLoads[Len(gatLoads)].late \/ gatLoads[Len(gatLoads)].gate \in {None, GatNow}

GatPageInv == GatIInv /\ GatResults /\ GatTold

-----------------------------------------------------------------------------
(* Results.                                                                  *)

LEMMA NoResultsTyped == NoResults \in ResultSets
  <1>1. NoResults \in [{} -> {"passed", "failed"}] /\ {} \in SUBSET GatTests
    BY DEF NoResults
  <1> QED
    BY <1>1 DEF ResultSets

LEMMA GatAskedResults ==
  ASSUME GatResults, NEW kind, NEW cand, NEW from, NEW after, Ask(GatCall(kind, cand, from, after)),
         UNCHANGED gatProduced
  PROVE  GatResults'
  <1>1. PICK c : c = GatCall(kind, cand, from, after)
    OBVIOUS
  <1>2. c.results = NoResults /\ c.todo = {}
    BY <1>1 DEF GatCall
  <1>3. gatCalls' = gatCalls \cup {c}
    BY <1>1 DEF Ask
  <1> QED
    BY <1>2, <1>3, NoResultsTyped DEF GatResults

LEMMA GatServeResults ==
  ASSUME GatIInv, GatResults, NEW c \in gatCalls, GatServe(c)
  PROVE  GatResults'
  <1>1. DOMAIN c = {"kind", "cand", "from", "after", "step", "todo", "results", "old", "n"}
    BY DEF GatIInv, CallOf
  <1>2. ASSUME NEW d, GatTo(c, d), d.results \in ResultSets, d.todo \subseteq GatTests, UNCHANGED gatProduced
        PROVE  GatResults'
    BY <1>2 DEF GatResults, GatTo
  <1>3. ASSUME NEW d, GatTo(c, d), d.results = c.results, d.todo = c.todo,
               gatProduced' \subseteq gatProduced \cup {c.results}
        PROVE  GatResults'
    BY <1>3 DEF GatResults, GatTo
  <1>4. CASE GatCreated(c)
    <2>1. PICK d : d = [c EXCEPT !.step = "done", !.cand = Len(gatCands')]
      OBVIOUS
    <2>2. d.results = c.results /\ d.todo = c.todo
      BY <1>1, <2>1
    <2> QED
      BY <1>3, <1>4, <2>1, <2>2 DEF GatCreated
  <1>5. CASE GatRead(c)
    <2>1. PICK d : d = [c EXCEPT !.step = "read", !.old = gatCands[c.cand].results]
      OBVIOUS
    <2>2. d.results = c.results /\ d.todo = c.todo
      BY <1>1, <2>1
    <2> QED
      BY <1>3, <1>5, <2>1, <2>2 DEF GatRead
  <1>6. CASE GatBegin(c)
    <2>1. PICK d : d = [c EXCEPT !.step = "running", !.todo = GatTests]
      OBVIOUS
    <2>2. d.results = c.results /\ d.todo = GatTests /\ c.results \in ResultSets
      BY <1>1, <2>1 DEF GatResults
    <2> QED
      BY <1>2, <1>6, <2>1, <2>2 DEF GatBegin
  <1>7. CASE GatRunTest(c)
    <2>1. PICK test, rest : test = (CHOOSE t \in c.todo : TRUE) /\ rest = c.todo \ {test}
      OBVIOUS
    <2>2. test \in GatTests /\ rest \subseteq GatTests /\ c.results \in ResultSets
      BY <1>7, <2>1 DEF GatRunTest, GatResults
    <2>3. CASE GatTo(c, [c EXCEPT !.todo = rest])
      <3>1. PICK d : d = [c EXCEPT !.todo = rest]
        OBVIOUS
      <3>2. d.results = c.results /\ d.todo = rest
        BY <1>1, <3>1
      <3> QED
        BY <1>2, <1>7, <2>2, <2>3, <3>1, <3>2 DEF GatRunTest
    <2>4. ASSUME NEW o \in {"passed", "failed"}, NEW results,
                 results = [u \in DOMAIN c.results \cup {test} |-> IF u = test THEN o ELSE c.results[u]],
                 GatTo(c, [c EXCEPT !.todo = rest, !.results = results])
          PROVE  GatResults'
      <3>1. PICK d : d = [c EXCEPT !.todo = rest, !.results = results]
        OBVIOUS
      <3>2. d.results = results /\ d.todo = rest
        BY <1>1, <3>1
      <3>3. PICK T \in SUBSET GatTests : c.results \in [T -> {"passed", "failed"}]
        BY <2>2 DEF ResultSets
      <3>4. T \cup {test} \in SUBSET GatTests /\ results \in [T \cup {test} -> {"passed", "failed"}]
        BY <2>2, <2>4, <3>3
      <3>5. results \in ResultSets
        BY <3>4 DEF ResultSets
      <3> QED
        BY <1>2, <1>7, <2>2, <2>4, <3>1, <3>2, <3>5 DEF GatRunTest
    <2> QED
      BY <1>7, <2>1, <2>3, <2>4 DEF GatRunTest
  <1>8. CASE GatFinish(c)
    <2>1. PICK d : d = [c EXCEPT !.step = "done"]
      OBVIOUS
    <2>2. d.results = c.results /\ d.todo = c.todo
      BY <1>1, <2>1
    <2> QED
      BY <1>3, <1>8, <2>1, <2>2 DEF GatFinish
  <1>9. ASSUME NEW step, GatTo(c, [c EXCEPT !.step = step]), UNCHANGED gatProduced PROVE GatResults'
    <2>1. PICK d : d = [c EXCEPT !.step = step]
      OBVIOUS
    <2>2. d.results = c.results /\ d.todo = c.todo
      BY <1>1, <2>1
    <2> QED
      BY <1>3, <1>9, <2>1, <2>2
  <1>10. CASE GatMarked(c) \/ GatRefused(c)
    BY <1>9, <1>10 DEF GatMarked, GatRefused
  <1> QED
    BY <1>4, <1>5, <1>6, <1>7, <1>8, <1>10 DEF GatServe

(* Elsewhere no request gets results or tests to run.                      *)
LEMMA GatSameResults ==
  ASSUME GatResults, UNCHANGED gatProduced,
         \A d \in gatCalls' : \E c \in gatCalls : d.results = c.results /\ d.todo = c.todo
  PROVE  GatResults'
  BY DEF GatResults

LEMMA GatOtherResults ==
  ASSUME GatIInv, GatResults, GatUser \/ GatAnswer \/ GatLeave \/ GatRestart
                              \/ (\E i \in DOMAIN gatLoads : GatServeLoad(i) \/ GatLoadAnswer(i))
                              \/ UNCHANGED gatVars
  PROVE  GatResults'
  <1>1. \A c \in gatCalls : DOMAIN c = {"kind", "cand", "from", "after", "step", "todo", "results", "old", "n"}
    BY DEF GatIInv, CallOf
  <1>2. CASE GatOpenPage /\ GatUser
    <2>1. \A d \in gatCalls' : \E c \in gatCalls : d.results = c.results /\ d.todo = c.todo
      BY <1>1, <1>2 DEF GatOpenPage
    <2> QED
      BY <1>2, <2>1, GatSameResults DEF GatUser
  <1>3. CASE GatUser /\ ~ GatOpenPage
    BY <1>3, GatAskedResults, GatSameResults
       DEF GatUser, GatRunGate, GatMarkBaseline, GatNewRelease, GatSubmit, GatCloseModal
  <1>4. CASE GatAnswer
    <2>1. PICK c \in gatCalls : GatPageAnswer(c) \/ GatGoneAnswer(c) \/ GatModalAnswer(c)
      BY <1>4 DEF GatAnswer
    <2>2. CASE gatCalls' \subseteq gatCalls
      BY <1>4, <2>2, GatSameResults DEF GatAnswer
    <2>3. CASE GatTo(c, [c EXCEPT !.kind = "eval", !.step = "sent"])
      <3>1. \A d \in gatCalls' : \E e \in gatCalls : d.results = e.results /\ d.todo = e.todo
        BY <1>1, <2>3 DEF GatTo
      <3> QED
        BY <1>4, <3>1, GatSameResults DEF GatAnswer
    <2> QED
      BY <2>1, <2>2, <2>3 DEF GatPageAnswer, GatGoneAnswer, GatModalAnswer
  <1>5. CASE GatLeave
    BY <1>5, GatSameResults DEF GatLeave
  <1>6. CASE GatRestart
    <2>1. \A d \in gatCalls' : \E c \in gatCalls : d.results = c.results /\ d.todo = c.todo
      BY <1>1, <1>6 DEF GatRestart
    <2> QED
      BY <1>6, <2>1, GatSameResults DEF GatRestart
  <1>7. CASE (\E i \in DOMAIN gatLoads : GatServeLoad(i) \/ GatLoadAnswer(i)) \/ UNCHANGED gatVars
    <2>1. UNCHANGED <<gatCalls, gatProduced>>
      BY <1>7 DEF GatServeLoad, GatLoadAnswer, GatLoadArrives, gatVars
    <2> QED
      BY <2>1, GatSameResults
  <1> QED
    BY <1>2, <1>3, <1>4, <1>5, <1>6, <1>7

-----------------------------------------------------------------------------
(* The verdict.                                                              *)

(* "Blocked" is what the service says exactly when a test of the latest    *)
(* candidate failed that passed in the baseline.                           *)
LEMMA BlockedIsRegression ==
  ASSUME GatShapes, GatResults, EvaluationsApart
  PROVE  GatNow.status = "blocked" <=>
           /\ gatCands # <<>> /\ gatBase # None /\ Last(gatCands).status # "evaluating"
           /\ \E t \in DOMAIN Last(gatCands).results \cap DOMAIN gatBase :
                gatBase[t] = "passed" /\ Last(gatCands).results[t] = "failed"
  <1>1. GatNow.status = Status(Latest(gatCands), gatBase)
    BY DEF GatNow, Summary
  <1>2. CASE gatCands = <<>>
    BY <1>1, <1>2 DEF Status, Latest, Evaluated
  <1>3. CASE gatCands # <<>>
    <2>1. PICK cand : cand = Last(gatCands)
      OBVIOUS
    <2>2. cand \in Cand
      <3>1. Len(gatCands) \in 1 .. Len(gatCands)
        BY <1>3, EmptySeq DEF GatShapes
      <3> QED
        BY <2>1, <3>1, ElementOfSeq DEF GatShapes, Last
    <2>3. cand.results \in ResultSets
      BY <2>2, NoResultsTyped DEF Cand, OfOne, GatResults
    <2>4. gatBase # None => gatBase \in ResultSets
      BY DEF EvaluationsApart, ResultsOfOneEvaluation, GatResults
    <2>5. Latest(gatCands) = cand
      BY <1>3, <2>1 DEF Latest
    <2>6. cand # None
      BY <2>2, <2>3, GatesAssumption DEF Cand, Candidates
    <2>7. ASSUME gatBase # None
          PROVE  Regressions(gatBase, cand.results) =
                 { t \in DOMAIN cand.results \cap DOMAIN gatBase :
                     gatBase[t] = "passed" /\ cand.results[t] = "failed" }
      <3>1. \A t \in DOMAIN gatBase : gatBase[t] \in {"passed", "failed"}
        BY <2>4, <2>7 DEF ResultSets
      <3> QED
        BY <2>7, <3>1 DEF Regressions, Diffs, Type
    <2>8. DOMAIN cand.results \subseteq GatTests
      BY <2>3 DEF ResultSets
    <2> QED
      BY <1>1, <1>3, <2>1, <2>5, <2>6, <2>7, <2>8 DEF Status, Evaluated
  <1> QED
    BY <1>2, <1>3

LEMMA GatPageHonest == GatPageInv => VerdictHonest
  BY BlockedIsRegression DEF GatPageInv, GatIInv, GatTold, VerdictHonest

(* A load that was just sent brings what the service says when it is served. *)
LEMMA GatFreshLoad ==
  ASSUME GatShapes, NEW releases \in BOOLEAN,
         gatLoads' = Append(gatLoads, GatLoad(releases)) \/ gatLoads' = <<GatLoad(releases)>>
  PROVE  GatTold'
  <1>1. PICK load : load = GatLoad(releases)
    OBVIOUS
  <1>2. load \in Load /\ load.gate = None
    BY <1>1, LoadIsLoad DEF GatLoad
  <1>3. CASE gatLoads' = Append(gatLoads, load)
    <2>1. Len(gatLoads') = Len(gatLoads) + 1 /\ gatLoads'[Len(gatLoads) + 1] = load
      BY <1>2, <1>3, AppendProperties DEF GatShapes
    <2>2. gatLoads' # <<>>
      BY <1>2, <1>3, <2>1, AppendProperties, LenProperties, EmptySeq DEF GatShapes
    <2> QED
      BY <1>2, <2>1, <2>2 DEF GatTold
  <1>4. CASE gatLoads' = <<load>>
    <2>1. Len(gatLoads') = 1 /\ gatLoads'[1] = load /\ gatLoads' # <<>>
      BY <1>4
    <2> QED
      BY <1>2, <2>1 DEF GatTold
  <1> QED
    BY <1>1, <1>3, <1>4

(* A change the page will not load again after: every load under way, and    *)
(* the page if there is none, may miss it.                                   *)
LEMMA GatLostTold ==
  ASSUME GatShapes, Lost
  PROVE  GatTold'
  <1>1. PICK upto : upto = Len(gatLoads) + 1
    OBVIOUS
  <1>2. /\ gatLoads' = GatLate(upto) /\ gatSpoilt'
        /\ gatLoads' \in Seq(Load) /\ Len(gatLoads') = Len(gatLoads) /\ Len(gatLoads) \in Nat
    BY <1>1, LateLoads, LenProperties DEF Lost, GatShapes
  <1>3. CASE gatLoads' = <<>>
    BY <1>2, <1>3 DEF GatTold
  <1>4. CASE gatLoads' # <<>>
    <2>1. Len(gatLoads) \in 1 .. Len(gatLoads) /\ DOMAIN gatLoads = 1 .. Len(gatLoads)
          /\ Len(gatLoads) < upto
      BY <1>1, <1>2, <1>4, EmptySeq, LenProperties DEF GatShapes
    <2>2. gatLoads'[Len(gatLoads)] = [gatLoads[Len(gatLoads)] EXCEPT !.late = TRUE]
      BY <1>2, <2>1 DEF GatLate
    <2>3. gatLoads[Len(gatLoads)] \in Load
      BY <2>1, ElementOfSeq DEF GatShapes
    <2>4. gatLoads'[Len(gatLoads')].late
      BY <1>2, <2>2, <2>3 DEF Load
    <2> QED
      BY <1>4, <2>4 DEF GatTold
  <1> QED
    BY <1>3, <1>4

(* While a request is under way, or where neither the service nor what the   *)
(* page shows of it changes.                                                 *)
LEMMA GatSameTold ==
  ASSUME GatTold,
         \/ gatCalls' # {}
         \/ /\ gatCalls' = {} => gatCalls = {}
            /\ UNCHANGED <<gatCands, gatBase, gatLoads, gatSpoilt>> /\ gatPage'.gate = gatPage.gate
  PROVE  GatTold'
  BY DEF GatTold, GatNow

LEMMA GatInitTold == GatInit => GatResults /\ GatTold
  <1> SUFFICES ASSUME GatInit PROVE GatResults /\ GatTold
    OBVIOUS
  <1>1. GatResults
    BY DEF GatInit, GatResults
  <1>2. PICK load : load = GatLoad(FALSE)
    OBVIOUS
  <1>3. load.gate = None /\ gatLoads = <<load>>
    BY <1>2 DEF GatLoad, GatInit
  <1>4. Len(gatLoads) = 1 /\ gatLoads[1] = load /\ gatLoads # <<>>
    BY <1>3
  <1>5. GatTold
    BY <1>3, <1>4 DEF GatTold
  <1> QED
    BY <1>1, <1>5

LEMMA GatUserTold ==
  ASSUME GatShapes, GatTold, GatUser
  PROVE  GatTold'
  <1>0. UNCHANGED <<gatCands, gatBase, gatSpoilt>>
    BY DEF GatUser
  <1>1. CASE GatRunGate \/ GatMarkBaseline \/ GatSubmit
    <2>1. gatCalls' # {}
      BY <1>1 DEF GatRunGate, GatMarkBaseline, GatSubmit, Ask
    <2> QED
      BY <2>1, GatSameTold
  <1>2. CASE GatNewRelease
    <2>1. UNCHANGED <<gatCalls, gatLoads>> /\ gatPage'.gate = gatPage.gate
      BY <1>2 DEF GatNewRelease, GatShapes, PageOf
    <2> QED
      BY <1>0, <2>1, GatSameTold
  <1>3. CASE GatCloseModal /\ gatPage.at = "detail"
    BY <1>3, GatFreshLoad DEF GatCloseModal
  <1>4. CASE GatCloseModal /\ gatPage.at # "detail"
    <2>1. UNCHANGED <<gatCalls, gatLoads>> /\ gatPage'.gate = gatPage.gate
      BY <1>4 DEF GatCloseModal, GatShapes, PageOf
    <2> QED
      BY <1>0, <2>1, GatSameTold
  <1>5. CASE GatOpenPage
    BY <1>5, GatFreshLoad DEF GatOpenPage
  <1> QED
    BY <1>1, <1>2, <1>3, <1>4, <1>5 DEF GatUser

LEMMA GatServerTold ==
  ASSUME GatTold, GatServer
  PROVE  GatTold'
  <1>1. PICK c \in gatCalls : GatServe(c)
    BY DEF GatServer
  <1>2. ASSUME NEW d, GatTo(c, d) PROVE GatTold'
    BY <1>2, GatSameTold DEF GatTo
  <1> QED
    BY <1>1, <1>2
       DEF GatServe, GatCreated, GatRead, GatBegin, GatRunTest, GatFinish, GatMarked, GatRefused

LEMMA GatAnswerTold ==
  ASSUME GatShapes, GatTold, GatAnswer
  PROVE  GatTold'
  <1>1. PICK c \in gatCalls : GatPageAnswer(c) \/ GatGoneAnswer(c) \/ GatModalAnswer(c)
    BY DEF GatAnswer
  <1>2. CASE Lost
    BY <1>2, GatLostTold
  <1>3. CASE \E releases \in BOOLEAN :
               gatLoads' = Append(gatLoads, GatLoad(releases)) \/ gatLoads' = <<GatLoad(releases)>>
    BY <1>3, GatFreshLoad
  <1>4. CASE \E d : GatTo(c, d)
    BY <1>4, GatSameTold DEF GatTo
  <1> QED
    BY <1>1, <1>2, <1>3, <1>4 DEF GatPageAnswer, GatGoneAnswer, GatModalAnswer

(* The answers of a load that is over leave the load sent last as it was, or, *)
(* when that was the one, only loads it overtook.                            *)
LEMMA GatLoadOver ==
  ASSUME GatShapes, NEW i \in DOMAIN gatLoads, NEW rest, rest = RemoveAt(GatLate(i), i)
  PROVE  /\ i \in 1 .. Len(gatLoads) /\ Len(gatLoads) \in Nat
         /\ i < Len(gatLoads) => rest # <<>> /\ rest[Len(rest)] = gatLoads[Len(gatLoads)]
         /\ i = Len(gatLoads) /\ rest # <<>> => rest[Len(rest)].late
  <1>1. /\ DOMAIN gatLoads = 1 .. Len(gatLoads) /\ Len(gatLoads) \in Nat
        /\ \A j \in 1 .. Len(gatLoads) : gatLoads[j] \in Load
    BY LenProperties, ElementOfSeq DEF GatShapes
  <1>2. PICK late : late = GatLate(i)
    OBVIOUS
  <1>3. late \in Seq(Load) /\ Len(late) = Len(gatLoads)
    BY <1>2, LateLoads
  <1>4. \A j \in 1 .. Len(gatLoads) :
          late[j] = IF j < i THEN [gatLoads[j] EXCEPT !.late = TRUE] ELSE gatLoads[j]
    BY <1>1, <1>2 DEF GatLate
  <1>5. /\ rest \in Seq(Load) /\ Len(rest) = Len(late) - 1
        /\ i < Len(late) => rest[Len(rest)] = late[Len(late)]
        /\ i = Len(late) /\ Len(rest) > 0 => rest[Len(rest)] = late[Len(rest)]
    <2>1. PICK S : S = Load
      OBVIOUS
    <2>2. late \in Seq(S) /\ i \in 1 .. Len(late) /\ rest = RemoveAt(late, i)
      BY <1>1, <1>2, <1>3, <2>1
    <2>3. /\ rest \in Seq(S) /\ Len(rest) = Len(late) - 1
          /\ i < Len(late) => rest[Len(rest)] = late[Len(late)]
          /\ i = Len(late) /\ Len(rest) > 0 => rest[Len(rest)] = late[Len(rest)]
      BY <2>2, OneLoadOver
    <2> QED
      BY <2>1, <2>3
  <1>6. (rest = <<>> => Len(rest) = 0) /\ (rest # <<>> => Len(rest) > 0)
    BY <1>5, <1>3, <1>1, EmptySeq, LenProperties
  <1>7. ASSUME i < Len(gatLoads) PROVE rest # <<>> /\ rest[Len(rest)] = gatLoads[Len(gatLoads)]
    <2>1. Len(gatLoads) \in 1 .. Len(gatLoads) /\ ~ Len(gatLoads) < i /\ Len(rest) # 0
      BY <1>1, <1>3, <1>5, <1>7
    <2>2. late[Len(gatLoads)] = gatLoads[Len(gatLoads)]
      BY <1>4, <2>1
    <2> QED
      BY <1>3, <1>5, <1>6, <1>7, <2>1, <2>2
  <1>8. ASSUME i = Len(gatLoads), rest # <<>> PROVE rest[Len(rest)].late
    <2>1. Len(rest) \in 1 .. Len(gatLoads) /\ Len(rest) < i
      BY <1>1, <1>3, <1>5, <1>6, <1>8
    <2>2. rest[Len(rest)] = [gatLoads[Len(rest)] EXCEPT !.late = TRUE]
      BY <1>3, <1>4, <1>5, <1>6, <1>8, <2>1
    <2>3. gatLoads[Len(rest)] \in Load
      BY <1>1, <2>1
    <2> QED
      BY <2>2, <2>3 DEF Load
  <1> QED
    BY <1>1, <1>7, <1>8

LEMMA GatLoadTold ==
  ASSUME GatShapes, GatTold, NEW i \in DOMAIN gatLoads, GatServeLoad(i) \/ GatLoadAnswer(i)
  PROVE  GatTold'
  <1>0. UNCHANGED <<gatCands, gatBase, gatCalls>>
    BY DEF GatServeLoad, GatLoadAnswer, GatLoadArrives
  <1>1. /\ DOMAIN gatLoads = 1 .. Len(gatLoads) /\ Len(gatLoads) \in Nat /\ i \in 1 .. Len(gatLoads)
        /\ \A j \in 1 .. Len(gatLoads) : gatLoads[j] \in Load
    BY LenProperties, ElementOfSeq DEF GatShapes
  <1>2. gatLoads # <<>> /\ Len(gatLoads) \in 1 .. Len(gatLoads)
    BY <1>1
  <1>3. CASE GatServeLoad(i)
    <2>1. PICK load : load = [gatLoads[i] EXCEPT !.gate = GatNow]
      OBVIOUS
    <2>2. load.gate = GatNow /\ load.late = gatLoads[i].late
      BY <1>1, <2>1 DEF Load
    <2>3. gatLoads' = [gatLoads EXCEPT ![i] = load]
      BY <1>3, <2>1 DEF GatServeLoad, GatNow
    <2>4. Len(gatLoads') = Len(gatLoads) /\ gatLoads' # <<>>
          /\ gatLoads'[Len(gatLoads)] = IF i = Len(gatLoads) THEN load ELSE gatLoads[Len(gatLoads)]
      <3>1. DOMAIN gatLoads' = 1 .. Len(gatLoads)
            /\ gatLoads'[Len(gatLoads)] = IF i = Len(gatLoads) THEN load ELSE gatLoads[Len(gatLoads)]
        BY <1>1, <1>2, <2>3
      <3>2. \E S : gatLoads' \in Seq(S)
        <4>1. PICK S : S = Load \cup {load}
          OBVIOUS
        <4>2. gatLoads' \in [1 .. Len(gatLoads) -> S]
          BY <1>1, <2>3, <4>1, LenProperties DEF GatShapes
        <4> QED
          BY <1>1, <4>2, SeqDef
      <3>3. Len(gatLoads') = Len(gatLoads)
        BY <1>1, <3>1, <3>2, LenProperties
      <3> QED
        BY <1>2, <3>1, <3>3
    <2>5. GatNow' = GatNow
      BY <1>0 DEF GatNow
    <2> QED
      BY <1>0, <1>2, <2>2, <2>4, <2>5 DEF GatTold
  <1>4. CASE GatLoadAnswer(i)
    <2>1. PICK rest : rest = RemoveAt(GatLate(i), i)
      OBVIOUS
    <2>2. /\ i < Len(gatLoads) => rest # <<>> /\ rest[Len(rest)] = gatLoads[Len(gatLoads)]
          /\ i = Len(gatLoads) /\ rest # <<>> => rest[Len(rest)].late
      BY <2>1, GatLoadOver
    <2>3. gatLoads' = rest
      BY <1>4, <2>1 DEF GatLoadAnswer, GatLoadArrives
    <2>4. GatNow' = GatNow
      BY <1>0 DEF GatNow
    <2>5. CASE i < Len(gatLoads)
      BY <1>0, <1>2, <2>2, <2>3, <2>4, <2>5 DEF GatTold
    <2>6. CASE i = Len(gatLoads)
      <3>1. PICK failed \in BOOLEAN :
              /\ failed \/ gatLoads[i].gate # None
              /\ gatPage' = [gatPage EXCEPT !.gate = IF failed THEN None ELSE gatLoads[i].gate, !.loading = FALSE,
                                            !.busy = IF gatLoads[i].releases THEN None ELSE @]
              /\ gatSpoilt' = (failed \/ gatLoads[i].late)
        BY <1>4 DEF GatLoadAnswer, GatLoadArrives
      <3>2. PICK gate, busy : gate = (IF failed THEN None ELSE gatLoads[i].gate)
                              /\ busy = (IF gatLoads[i].releases THEN None ELSE gatPage.busy)
        OBVIOUS
      <3>3. gatPage' = [gatPage EXCEPT !.gate = gate, !.loading = FALSE, !.busy = busy]
        BY <3>1, <3>2
      <3>4. gatPage'.gate = gate
        BY <3>3 DEF GatShapes, PageOf
      <3>5. gatCalls' = {} => gatSpoilt' \/ gatPage'.gate = GatNow'
        BY <1>0, <1>2, <2>4, <2>6, <3>1, <3>2, <3>4 DEF GatTold
      <3> QED
        BY <2>2, <2>3, <2>6, <3>5 DEF GatTold
    <2> QED
      BY <1>1, <2>5, <2>6
  <1> QED
    BY <1>3, <1>4

LEMMA GatBreakTold ==
  ASSUME GatShapes, GatTold, GatLeave \/ GatRestart
  PROVE  GatTold'
  <1>1. CASE GatLeave
    BY <1>1, GatFreshLoad DEF GatLeave
  <1>2. CASE GatRestart
    <2>1. gatCalls' = {} => gatCalls = {}
      BY <1>2 DEF GatRestart
    <2> QED
      BY <1>2, <2>1, GatSameTold DEF GatRestart
  <1> QED
    BY <1>1, <1>2

-----------------------------------------------------------------------------

LEMMA GatPageInit == GatInit => GatPageInv
  BY GatInitIInv, GatInitTold DEF GatPageInv

LEMMA GatPageStep == GatPageInv /\ [GatNext]_gatVars => GatPageInv'
  <1> SUFFICES ASSUME GatPageInv, [GatNext]_gatVars PROVE GatPageInv'
    OBVIOUS
  <1>0. GatIInv' /\ GatShapes
    BY GatStep DEF GatPageInv, GatIInv
  <1>1. GatResults'
    <2>1. CASE GatServer
      BY <2>1, GatServeResults DEF GatServer, GatPageInv
    <2>2. CASE GatUser \/ GatAnswer \/ GatLeave \/ GatRestart
               \/ (\E i \in DOMAIN gatLoads : GatServeLoad(i) \/ GatLoadAnswer(i)) \/ UNCHANGED gatVars
      BY <2>2, GatOtherResults DEF GatPageInv
    <2> QED
      BY <2>1, <2>2 DEF GatNext
  <1>2. GatTold'
    <2>1. CASE UNCHANGED gatVars
      BY <2>1, GatSameTold DEF gatVars, GatPageInv
    <2> QED
      BY <1>0, <2>1, GatUserTold, GatServerTold, GatAnswerTold, GatLoadTold, GatBreakTold DEF GatNext, GatPageInv
  <1> QED
    BY <1>0, <1>1, <1>2 DEF GatPageInv
-----------------------------------------------------------------------------
(***************************************************************************)
(* The pages together                                                      *)
(***************************************************************************)

ConsoleInv == SchPageInv /\ AltPageInv /\ GatPageInv

LEMMA ConsoleInit == MCInit => ConsoleInv
  BY SchPageInit, AltPageInit, GatPageInit DEF MCInit, ConsoleInv

(* A step of one page is a stutter of the others.                          *)
LEMMA ConsoleStep == ConsoleInv /\ [MCNext]_all => ConsoleInv'
  <1> SUFFICES ASSUME ConsoleInv, [MCNext]_all PROVE ConsoleInv'
    OBVIOUS
  <1>1. [SchNext]_schVars /\ [AltNext]_altVars /\ [GatNext]_gatVars
    BY DEF MCNext, InSchedules, InAlerts, InGates, InConfidence, all
  <1> QED
    BY <1>1, SchPageStep, AltPageStep, GatPageStep DEF ConsoleInv

(* When nothing is under way each page shows what is stored, whichever     *)
(* requests overlap, fail or are answered out of order (the load() of the  *)
(* schedules, alerts and release gate pages), for any schedules, rules,    *)
(* incidents, tests and bounds.                                            *)
THEOREM ConsoleTrue == MCSpec => []ConsoleShowsStored
  <1>1. ConsoleInv => ConsoleShowsStored
    BY SchPageFresh, AltPageFresh, GatPageHonest DEF ConsoleInv, ConsoleShowsStored
  <1> QED
    BY <1>1, ConsoleInit, ConsoleStep, PTL DEF MCSpec
-----------------------------------------------------------------------------
(***************************************************************************)
(* The confidence score: numbers                                           *)
(***************************************************************************)

LEMMA Products ==
  ASSUME NEW a \in Nat, NEW b \in Nat, NEW c \in Nat
  PROVE  /\ a * b \in Nat /\ a * b = b * a /\ a * (b * c) = (a * b) * c /\ a * (b + c) = a * b + a * c
         /\ a <= b => a * c <= b * c
         /\ c > 0 /\ a * c <= b * c => a <= b
  <1>1. a * b \in Nat /\ a * b = b * a /\ a * (b * c) = (a * b) * c /\ a * (b + c) = a * b + a * c
    OBVIOUS
  <1>2. ASSUME a <= b PROVE a * c <= b * c
    BY <1>2
  <1>3. ASSUME c > 0, a * c <= b * c PROVE a <= b
    BY <1>3
  <1> QED
    BY <1>1, <1>2, <1>3

LEMMA Positive ==
  ASSUME NEW a \in Nat, NEW b \in Nat, a > 0, b > 0
  PROVE  a * b > 0
  OBVIOUS

LEMMA Halves ==
  ASSUME NEW a \in Nat, NEW b \in Nat, b > 0
  PROVE  /\ a \div b \in Nat /\ b * (a \div b) <= a /\ a < b * ((a \div b) + 1)
  OBVIOUS

(* Rounding a larger fraction does not give less.                          *)
LEMMA PercentMonotone ==
  ASSUME NEW n \in Nat, NEW d \in Nat, NEW m \in Nat, NEW e \in Nat, d > 0, e > 0, n * e <= m * d
  PROVE  Percent(n, d) \in Nat /\ Percent(m, e) \in Nat /\ Percent(n, d) <= Percent(m, e)
  <1>1. PICK p, q : p = Percent(n, d) /\ q = Percent(m, e)
    OBVIOUS
  <1>2. p \in Nat /\ 2 * d * p <= 200 * n + d
    BY <1>1, Halves DEF Percent
  <1>3. q \in Nat /\ 200 * m + e < 2 * e * (q + 1)
    BY <1>1, Halves DEF Percent
  <1>4. SUFFICES ASSUME q + 1 <= p PROVE FALSE
    BY <1>1, <1>2, <1>3
  <1>5. 2 * d * (q + 1) <= 200 * n + d
    BY <1>2, <1>3, <1>4
  <1>6. (2 * d * (q + 1)) * e <= (200 * n + d) * e
    BY <1>3, <1>5
  <1>7. (200 * m + e) * d < (2 * e * (q + 1)) * d
    BY <1>3
  <1>8. (200 * n + d) * e = 200 * (n * e) + d * e /\ (200 * m + e) * d = 200 * (m * d) + d * e
    OBVIOUS
  <1>9. (2 * d * (q + 1)) * e = (2 * e * (q + 1)) * d
    BY <1>3
  <1> QED
    BY <1>3, <1>6, <1>7, <1>8, <1>9

(* The mean num / (den * weight) of the signals so far, and n / d, of      *)
(* weight w, that is added.  What is not above both is not above the new   *)
(* mean, and what is not below both is not below it.                       *)
LEMMA MeanBetween ==
  ASSUME NEW num \in Nat, NEW den \in Nat, NEW weight \in Nat, NEW n \in Nat, NEW d \in Nat, NEW w \in Nat,
         NEW p \in Nat, NEW q \in Nat
  PROVE  /\ p * (den * weight) <= q * num /\ p * d <= q * n
              => p * ((den * d) * (weight + w)) <= q * (num * d + w * n * den)
         /\ q * num <= p * (den * weight) /\ q * n <= p * d
              => q * (num * d + w * n * den) <= p * ((den * d) * (weight + w))
  <1>1. p * ((den * d) * (weight + w)) = (p * (den * weight)) * d + (p * d) * (den * w)
    OBVIOUS
  <1>2. q * (num * d + w * n * den) = (q * num) * d + (q * n) * (den * w)
    OBVIOUS
  <1>3. PICK a, b, c, e, u : a = p * (den * weight) /\ b = q * num /\ c = p * d /\ e = q * n /\ u = den * w
    OBVIOUS
  <1>4. a \in Nat /\ b \in Nat /\ c \in Nat /\ e \in Nat /\ u \in Nat
    BY <1>3, Products
  <1>5. /\ p * ((den * d) * (weight + w)) = a * d + c * u
        /\ q * (num * d + w * n * den) = b * d + e * u
    BY <1>1, <1>2, <1>3
  <1>6. a * d \in Nat /\ c * u \in Nat /\ b * d \in Nat /\ e * u \in Nat
    BY <1>4, Products
  <1>7. ASSUME a <= b, c <= e PROVE a * d <= b * d /\ c * u <= e * u
    BY <1>4, <1>7, Products
  <1>8. ASSUME b <= a, e <= c PROVE b * d <= a * d /\ e * u <= c * u
    BY <1>4, <1>8, Products
  <1> QED
    BY <1>3, <1>5, <1>6, <1>7, <1>8

(* Fractions are compared with one between them.                           *)
LEMMA Between ==
  ASSUME NEW a \in Nat, NEW b \in Nat, NEW n \in Nat, NEW d \in Nat, NEW p \in Nat, NEW q \in Nat,
         b > 0, p * b <= q * a, a * d <= b * n
  PROVE  p * d <= q * n
  <1>1. (p * b) * d <= (q * a) * d
    BY Products
  <1>2. (q * a) * d = q * (a * d) /\ q * (a * d) <= q * (b * n)
    BY Products
  <1>3. (p * b) * d = (p * d) * b /\ q * (b * n) = (q * n) * b
    OBVIOUS
  <1>4. (p * d) * b <= (q * n) * b
    BY <1>1, <1>2, <1>3, Products
  <1> QED
    BY <1>4, Products
-----------------------------------------------------------------------------
(***************************************************************************)
(* The confidence score                                                    *)
(***************************************************************************)

(* Each input is one of its values, or not there.                          *)
ConTypeOK ==
  /\ DOMAIN conInput = {"tests", "coverage", "catalog", "incidents", "schedules"}
  /\ \A k \in DOMAIN conInput : conInput[k] \in Values[k] \cup {None}

LEMMA ConInitTyped == ConInit => ConTypeOK
  BY DEF ConInit, ConTypeOK

LEMMA ConStepTyped == ConTypeOK /\ [ConNext]_conInput => ConTypeOK'
  <1> SUFFICES ASSUME ConTypeOK, [ConNext]_conInput PROVE ConTypeOK'
    OBVIOUS
  <1>1. ASSUME NEW k \in DOMAIN conInput, NEW v \in Values[k] \cup {None},
               conInput' = [conInput EXCEPT ![k] = v]
        PROVE  ConTypeOK'
    BY <1>1 DEF ConTypeOK
  <1>2. CASE \E k \in DOMAIN conInput : ConFetch(k) \/ ConMiss(k)
    BY <1>1, <1>2 DEF ConFetch, ConMiss
  <1>3. CASE conInput.tests # None /\ \E t \in DOMAIN conInput.tests :
               conInput.tests[t] = "failed" /\ conInput' = [conInput EXCEPT !.tests[t] = "passed"]
    <2>1. PICK t \in DOMAIN conInput.tests :
            conInput.tests[t] = "failed" /\ conInput' = [conInput EXCEPT !.tests[t] = "passed"]
      BY <1>3
    <2>2. PICK v : v = [conInput.tests EXCEPT ![t] = "passed"]
      OBVIOUS
    <2>3. conInput.tests \in Values.tests
      BY <1>3 DEF ConTypeOK
    <2>4. v \in Values.tests
      BY <2>2, <2>3 DEF Values
    <2>5. conInput' = [conInput EXCEPT !["tests"] = v]
      BY <2>1, <2>2
    <2> QED
      BY <1>1, <2>4, <2>5 DEF ConTypeOK
  <1>4. CASE /\ conInput.coverage # None /\ conInput.coverage.covered < conInput.coverage.total
             /\ conInput' = [conInput EXCEPT !.coverage.covered = @ + 1]
    <2>1. PICK v : v = [conInput.coverage EXCEPT !.covered = conInput.coverage.covered + 1]
      OBVIOUS
    <2>2. conInput.coverage \in Values.coverage
      BY <1>4 DEF ConTypeOK
    <2>3. v \in Values.coverage
      BY <1>4, <2>1, <2>2, ConfidenceAssumption DEF Values
    <2>4. conInput' = [conInput EXCEPT !["coverage"] = v]
      BY <1>4, <2>1
    <2> QED
      BY <1>1, <2>3, <2>4 DEF ConTypeOK
  <1>5. CASE conInput.catalog # None /\ \E s \in ConServices :
               conInput.catalog[s] # "healthy" /\ conInput' = [conInput EXCEPT !.catalog[s] = "healthy"]
    <2>1. PICK s \in ConServices : conInput' = [conInput EXCEPT !.catalog[s] = "healthy"]
      BY <1>5
    <2>2. PICK v : v = [conInput.catalog EXCEPT ![s] = "healthy"]
      OBVIOUS
    <2>3. conInput.catalog \in Values.catalog
      BY <1>5 DEF ConTypeOK
    <2>4. v \in Values.catalog
      BY <2>2, <2>3 DEF Values
    <2>5. conInput' = [conInput EXCEPT !["catalog"] = v]
      BY <2>1, <2>2
    <2> QED
      BY <1>1, <2>4, <2>5 DEF ConTypeOK
  <1>6. CASE conInput.incidents \notin {None, 0} /\ conInput' = [conInput EXCEPT !.incidents = @ - 1]
    <2>1. PICK v : v = conInput.incidents - 1
      OBVIOUS
    <2>2. conInput.incidents \in Values.incidents
      BY <1>6 DEF ConTypeOK
    <2>3. v \in Values.incidents
      BY <1>6, <2>1, <2>2, ConfidenceAssumption DEF Values
    <2>4. conInput' = [conInput EXCEPT !["incidents"] = v]
      BY <1>6, <2>1
    <2> QED
      BY <1>1, <2>3, <2>4 DEF ConTypeOK
  <1>7. CASE conInput.schedules = FALSE /\ conInput' = [conInput EXCEPT !.schedules = TRUE]
    BY <1>1, <1>7 DEF ConTypeOK, Values
  <1>8. CASE UNCHANGED conInput
    BY <1>8 DEF ConTypeOK
  <1> QED
    BY <1>2, <1>3, <1>4, <1>5, <1>6, <1>7, <1>8 DEF ConNext, ConFix

-----------------------------------------------------------------------------
(* Counts and fractions.                                                   *)

LEMMA CountBounds ==
  ASSUME NEW S, IsFiniteSet(S), NEW f, DOMAIN f = S, NEW v
  PROVE  /\ Count(f, v) \in Nat /\ Cardinality(S) \in Nat /\ Count(f, v) <= Cardinality(S)
         /\ Count(f, v) = 0 <=> \A x \in S : f[x] # v
  <1>1. PICK T : T = { x \in S : f[x] = v }
    OBVIOUS
  <1>2. IsFiniteSet(T) /\ Cardinality(T) <= Cardinality(S)
    BY <1>1, FS_Subset
  <1>3. Cardinality(T) \in Nat /\ Cardinality(S) \in Nat /\ (Cardinality(T) = 0 <=> T = {})
    BY <1>2, FS_CardinalityType, FS_EmptySet
  <1> QED
    BY <1>1, <1>2, <1>3 DEF Count

LEMMA InputCounts ==
  ASSUME ConTypeOK
  PROVE  /\ conInput.tests # None =>
              /\ IsFiniteSet(DOMAIN conInput.tests)
              /\ Failing(conInput) \in Nat /\ Cardinality(DOMAIN conInput.tests) \in Nat
              /\ Failing(conInput) <= Cardinality(DOMAIN conInput.tests)
              /\ Failing(conInput) = 0 <=> \A t \in DOMAIN conInput.tests : conInput.tests[t] # "failed"
         /\ conInput.catalog # None =>
              /\ Count(conInput.catalog, "healthy") \in Nat /\ Count(conInput.catalog, "unreachable") \in Nat
         /\ Unreachable(conInput) \in Nat
         /\ conInput.coverage # None => conInput.coverage.covered \in Nat /\ conInput.coverage.total \in Nat
         /\ conInput.incidents # None => conInput.incidents \in Nat
         /\ conInput.schedules # None => conInput.schedules \in BOOLEAN
  <1>1. ASSUME conInput.tests # None
        PROVE  IsFiniteSet(DOMAIN conInput.tests)
    <2>1. conInput.tests \in Values.tests
      BY <1>1 DEF ConTypeOK
    <2>2. DOMAIN conInput.tests = ConTests \/ DOMAIN conInput.tests = {}
      BY <2>1 DEF Values
    <2> QED
      BY <2>2, ConfidenceAssumption, FS_EmptySet
  <1>2. ASSUME conInput.catalog # None
        PROVE  DOMAIN conInput.catalog = ConServices
    <2>1. conInput.catalog \in Values.catalog
      BY <1>2 DEF ConTypeOK
    <2> QED
      BY <2>1 DEF Values
  <1>3. ASSUME conInput.catalog # None
        PROVE  Count(conInput.catalog, "healthy") \in Nat /\ Count(conInput.catalog, "unreachable") \in Nat
    BY <1>2, <1>3, ConfidenceAssumption, CountBounds
  <1>4. Unreachable(conInput) \in Nat
    BY <1>3 DEF Unreachable
  <1>5. ASSUME conInput.coverage # None
        PROVE  conInput.coverage.covered \in Nat /\ conInput.coverage.total \in Nat
    <2>1. conInput.coverage \in Values.coverage
      BY <1>5 DEF ConTypeOK
    <2> QED
      BY <2>1, ConfidenceAssumption DEF Values
  <1>6. ASSUME conInput.incidents # None PROVE conInput.incidents \in Nat
    BY <1>6, ConfidenceAssumption DEF ConTypeOK, Values
  <1>7. ASSUME conInput.schedules # None PROVE conInput.schedules \in BOOLEAN
    BY <1>7 DEF ConTypeOK, Values
  <1>8. ASSUME conInput.tests # None
        PROVE  /\ Failing(conInput) \in Nat /\ Cardinality(DOMAIN conInput.tests) \in Nat
               /\ Failing(conInput) <= Cardinality(DOMAIN conInput.tests)
               /\ Failing(conInput) = 0 <=> \A t \in DOMAIN conInput.tests : conInput.tests[t] # "failed"
    BY <1>1, <1>8, CountBounds DEF Failing
  <1> QED
    BY <1>1, <1>3, <1>4, <1>5, <1>6, <1>7, <1>8

Fraction(f) == \E n \in Nat, d \in Nat \ {0} : f = <<n, d>>

LEMMA RatioFraction ==
  ASSUME NEW n \in Nat, NEW d \in Nat
  PROVE  /\ Ratio(n, d) = None \/ Fraction(Ratio(n, d))
         /\ Ratio(n, d) = None <=> d = 0
  <1>1. <<n, d>> # None
    BY ConfidenceAssumption
  <1> QED
    BY <1>1 DEF Ratio, Fraction

LEMMA FractionsTyped ==
  ASSUME ConTypeOK, NEW k \in Signals
  PROVE  Fractions(conInput)[k] = None \/ Fraction(Fractions(conInput)[k])
  <1>1. Coverage(conInput) = None \/ Fraction(Coverage(conInput))
    BY InputCounts, RatioFraction DEF Coverage
  <1>2. Health(conInput) = None \/ Fraction(Health(conInput))
    <2>1. CASE conInput.catalog = None
      BY <2>1 DEF Health
    <2>2. CASE conInput.catalog # None
      <3>1. PICK h, u : h = Count(conInput.catalog, "healthy") /\ u = Count(conInput.catalog, "unreachable")
        OBVIOUS
      <3>2. h \in Nat /\ h + u \in Nat
        BY <2>2, <3>1, InputCounts
      <3> QED
        BY <2>2, <3>1, <3>2, RatioFraction DEF Health
    <2> QED
      BY <2>1, <2>2
  <1>3. ASSUME conInput.tests # None
        PROVE  LET n == Cardinality(DOMAIN conInput.tests)
               IN  Ratio(n - Failing(conInput), n) = None \/ Fraction(Ratio(n - Failing(conInput), n))
    <2>1. PICK n, m : n = Cardinality(DOMAIN conInput.tests) /\ m = n - Failing(conInput)
      OBVIOUS
    <2>2. n \in Nat /\ m \in Nat
      BY <1>3, <2>1, InputCounts
    <2> QED
      BY <2>1, <2>2, RatioFraction
  <1>4. Fraction(<<0, 1>>) /\ Fraction(<<1, 1>>)
    BY DEF Fraction
  <1> QED
    BY <1>1, <1>2, <1>3, <1>4 DEF Fractions, Signals
-----------------------------------------------------------------------------
(***************************************************************************)
(* The score lies between the signals there are.                           *)
(***************************************************************************)

FractionOf(k) == Fractions(conInput)[k]

(* The mean of the sum so far is at least one of the fractions, and at     *)
(* most one of them.                                                       *)
AtLeast(sum, k) == FractionOf(k)[1] * (sum.den * sum.weight) <= FractionOf(k)[2] * sum.num
AtMost(sum, k) == FractionOf(k)[2] * sum.num <= FractionOf(k)[1] * (sum.den * sum.weight)

SumOf(sum, S) ==
  /\ sum.num \in Nat /\ sum.den \in Nat /\ sum.den > 0 /\ sum.weight \in Nat
  /\ sum.weight = 0 <=> S \cap Available(conInput) = {}
  /\ sum.weight = 0 => sum.num = 0
  /\ sum.weight > 0 => /\ \E k \in S \cap Available(conInput) : AtLeast(sum, k)
                       /\ \E k \in S \cap Available(conInput) : AtMost(sum, k)

LEMMA WeightPositive == \A k \in Signals : Weight[k] \in Nat /\ Weight[k] > 0
  BY DEF Weight, Signals

LEMMA PlusSignal ==
  ASSUME ConTypeOK, NEW S \in SUBSET Signals, NEW k \in Signals, NEW sum, SumOf(sum, S)
  PROVE  SumOf(Plus(sum, conInput, k), S \cup {k})
  <1>1. CASE FractionOf(k) = None
    <2>1. (S \cup {k}) \cap Available(conInput) = S \cap Available(conInput)
      BY <1>1 DEF Available, FractionOf
    <2>2. Plus(sum, conInput, k) = sum
      BY <1>1 DEF Plus, FractionOf
    <2> QED
      BY <2>1, <2>2 DEF SumOf
  <1>2. CASE FractionOf(k) # None
    <2>1. PICK n \in Nat, d \in Nat \ {0} : FractionOf(k) = <<n, d>>
      BY <1>2, FractionsTyped DEF Fraction, FractionOf
    <2>2. PICK w : w = Weight[k]
      OBVIOUS
    <2>3. w \in Nat /\ w > 0
      BY <2>2, WeightPositive
    <2>4. PICK num, den, weight : num = sum.num /\ den = sum.den /\ weight = sum.weight
      OBVIOUS
    <2>5. num \in Nat /\ den \in Nat /\ den > 0 /\ weight \in Nat
      BY <2>4 DEF SumOf
    <2>6. PICK new : new = Plus(sum, conInput, k)
      OBVIOUS
    <2>7. new = [num |-> num * d + w * n * den, den |-> den * d, weight |-> weight + w]
      BY <1>2, <2>1, <2>2, <2>4, <2>6 DEF Plus, FractionOf
    <2>8. new.num = num * d + w * n * den /\ new.den = den * d /\ new.weight = weight + w
      BY <2>7
    <2>9. new.num \in Nat /\ new.den \in Nat /\ new.den > 0 /\ new.weight \in Nat /\ new.weight > 0
      <3>1. num * d \in Nat /\ w * n * den \in Nat /\ den * d \in Nat
        BY <2>1, <2>3, <2>5
      <3>2. den * d > 0
        BY <2>1, <2>5, Positive
      <3> QED
        BY <2>3, <2>5, <2>8, <3>1, <3>2
    <2>10. k \in Available(conInput)
      BY <1>2 DEF Available, FractionOf
    <2>11. ASSUME NEW j \in Available(conInput), NEW p \in Nat, NEW q \in Nat, FractionOf(j) = <<p, q>>
           PROVE  /\ p * (den * weight) <= q * num /\ p * d <= q * n => AtLeast(new, j)
                  /\ q * num <= p * (den * weight) /\ q * n <= p * d => AtMost(new, j)
      <3>1. /\ p * (den * weight) <= q * num /\ p * d <= q * n
                 => p * ((den * d) * (weight + w)) <= q * (num * d + w * n * den)
            /\ q * num <= p * (den * weight) /\ q * n <= p * d
                 => q * (num * d + w * n * den) <= p * ((den * d) * (weight + w))
        BY <2>1, <2>3, <2>5, MeanBetween
      <3> QED
        BY <2>8, <2>11, <3>1 DEF AtLeast, AtMost
    <2>12. /\ n * (den * weight) <= d * num => AtLeast(new, k)
           /\ d * num <= n * (den * weight) => AtMost(new, k)
      <3>1. n * d <= d * n /\ d * n <= n * d
        BY <2>1
      <3> QED
        BY <2>1, <2>10, <2>11, <3>1
    <2>13. CASE weight = 0
      <3>1. num = 0
        BY <2>4, <2>13 DEF SumOf
      <3>2. n * (den * weight) = 0 /\ d * num = 0
        BY <2>1, <2>5, <2>13, <3>1
      <3> QED
        BY <2>6, <2>9, <2>10, <2>12, <3>2 DEF SumOf
    <2>14. CASE weight > 0
      <3>1. PICK b : b = den * weight
        OBVIOUS
      <3>2. b \in Nat /\ b > 0
        BY <2>5, <2>14, <3>1, Positive
      <3>3. n * b \in Nat /\ d * num \in Nat
        BY <2>1, <2>5, <3>2
      <3>4. PICK j \in S \cap Available(conInput) : AtLeast(sum, j)
        BY <2>4, <2>14 DEF SumOf
      <3>5. PICK i \in S \cap Available(conInput) : AtMost(sum, i)
        BY <2>4, <2>14 DEF SumOf
      <3>6. PICK p \in Nat, q \in Nat : FractionOf(j) = <<p, q>>
        BY <3>4, FractionsTyped DEF Fraction, FractionOf, Available
      <3>7. PICK r \in Nat, s \in Nat : FractionOf(i) = <<r, s>>
        BY <3>5, FractionsTyped DEF Fraction, FractionOf, Available
      <3>8. p * b <= q * num /\ s * num <= r * b
        BY <2>4, <3>1, <3>4, <3>5, <3>6, <3>7 DEF AtLeast, AtMost
      <3>9. \E l \in (S \cup {k}) \cap Available(conInput) : AtLeast(new, l)
        <4>1. CASE n * b <= d * num
          BY <2>10, <2>12, <3>1, <4>1
        <4>2. CASE d * num <= n * b
          <5>1. num * d <= b * n
            BY <2>1, <2>5, <3>2, <4>2, Products
          <5>2. p * d <= q * n
            BY <2>1, <2>5, <3>2, <3>6, <3>8, <5>1, Between
          <5> QED
            BY <2>11, <3>1, <3>4, <3>6, <3>8, <5>2
        <4> QED
          BY <3>3, <4>1, <4>2
      <3>10. \E l \in (S \cup {k}) \cap Available(conInput) : AtMost(new, l)
        <4>1. CASE d * num <= n * b
          BY <2>10, <2>12, <3>1, <4>1
        <4>2. CASE n * b <= d * num
          (* s * num <= r * b and n * b <= d * num: s / r is the fraction     *)
          (* upside down.                                                    *)
          <5>1. s * n <= r * d
            <6>1. (s * num) * d <= (r * b) * d
              BY <2>1, <2>5, <3>2, <3>7, <3>8, Products
            <6>2. s * (n * b) <= s * (d * num)
              BY <2>1, <2>5, <3>2, <3>3, <3>7, <4>2, Products
            <6>3. (s * num) * d = s * (d * num) /\ s * (n * b) = (s * n) * b /\ (r * b) * d = (r * d) * b
              BY <2>1, <2>5, <3>2, <3>7
            <6>4. s * n \in Nat /\ r * d \in Nat /\ (s * n) * b <= (r * d) * b
              BY <2>1, <2>5, <3>2, <3>7, <6>1, <6>2, <6>3
            <6> QED
              BY <3>2, <6>4, Products
          <5> QED
            BY <2>11, <3>1, <3>5, <3>7, <3>8, <5>1
        <4> QED
          BY <3>3, <4>1, <4>2
      <3> QED
        BY <2>6, <2>9, <2>10, <3>9, <3>10 DEF SumOf
    <2> QED
      BY <2>5, <2>13, <2>14
  <1> QED
    BY <1>1, <1>2

LEMMA SumIsSum ==
  ASSUME ConTypeOK
  PROVE  SumOf(Sum(conInput), Signals)
  <1>1. PICK s0 : s0 = Nothing
    OBVIOUS
  <1>2. SumOf(s0, {})
    BY <1>1 DEF SumOf, Nothing
  <1>3. PICK s1 : s1 = Plus(s0, conInput, "coverage")
    OBVIOUS
  <1>4. SumOf(s1, {"coverage"})
    <2>1. SumOf(s1, {} \cup {"coverage"})
      BY <1>2, <1>3, PlusSignal DEF Signals
    <2> QED
      BY <2>1
  <1>5. PICK s2 : s2 = Plus(s1, conInput, "failingTests")
    OBVIOUS
  <1>6. SumOf(s2, {"coverage", "failingTests"})
    <2>1. SumOf(s2, {"coverage"} \cup {"failingTests"})
      BY <1>4, <1>5, PlusSignal DEF Signals
    <2> QED
      BY <2>1
  <1>7. PICK s3 : s3 = Plus(s2, conInput, "serviceHealth")
    OBVIOUS
  <1>8. SumOf(s3, {"coverage", "failingTests", "serviceHealth"})
    <2>1. SumOf(s3, {"coverage", "failingTests"} \cup {"serviceHealth"})
      BY <1>6, <1>7, PlusSignal DEF Signals
    <2> QED
      BY <2>1
  <1>9. PICK s4 : s4 = Plus(s3, conInput, "incidents")
    OBVIOUS
  <1>10. SumOf(s4, {"coverage", "failingTests", "serviceHealth", "incidents"})
    <2>1. SumOf(s4, {"coverage", "failingTests", "serviceHealth"} \cup {"incidents"})
      BY <1>8, <1>9, PlusSignal DEF Signals
    <2> QED
      BY <2>1
  <1>11. PICK s5 : s5 = Plus(s4, conInput, "schedules")
    OBVIOUS
  <1>12. SumOf(s5, Signals)
    <2>1. SumOf(s5, {"coverage", "failingTests", "serviceHealth", "incidents"} \cup {"schedules"})
      BY <1>10, <1>11, PlusSignal DEF Signals
    <2>2. {"coverage", "failingTests", "serviceHealth", "incidents"} \cup {"schedules"} = Signals
      BY DEF Signals
    <2> QED
      BY <2>1, <2>2
  <1> QED
    BY <1>1, <1>3, <1>5, <1>7, <1>9, <1>11, <1>12 DEF Sum

LEMMA ScoreBetween == ConTypeOK => ScoreHonest
  <1> SUFFICES ASSUME ConTypeOK PROVE ScoreHonest
    OBVIOUS
  <1>1. PICK sum : sum = Sum(conInput)
    OBVIOUS
  <1>2. SumOf(sum, Signals) /\ Signals \cap Available(conInput) = Available(conInput)
    BY <1>1, SumIsSum DEF Available
  <1>3. CASE Available(conInput) = {}
    <2>1. Score(conInput) = None
      BY <1>1, <1>2, <1>3 DEF Score, SumOf
    <2> QED
      BY <1>3, <2>1 DEF ScoreHonest, StatusFromScore
  <1>4. CASE Available(conInput) # {}
    <2>1. sum.num \in Nat /\ sum.den \in Nat /\ sum.weight \in Nat /\ sum.den > 0 /\ sum.weight > 0
      BY <1>2, <1>4 DEF SumOf
    <2>2. PICK b : b = sum.den * sum.weight
      OBVIOUS
    <2>3. b \in Nat /\ b > 0
      BY <2>1, <2>2, Positive
    <2>4. Score(conInput) = Percent(sum.num, b)
      BY <1>1, <2>1, <2>2 DEF Score
    <2>5. PICK j \in Available(conInput) : AtLeast(sum, j)
      BY <1>2, <2>1 DEF SumOf
    <2>6. PICK i \in Available(conInput) : AtMost(sum, i)
      BY <1>2, <2>1 DEF SumOf
    <2>7. PICK p \in Nat, q \in Nat \ {0} : FractionOf(j) = <<p, q>>
      BY <2>5, FractionsTyped DEF Fraction, FractionOf, Available
    <2>8. PICK r \in Nat, s \in Nat \ {0} : FractionOf(i) = <<r, s>>
      BY <2>6, FractionsTyped DEF Fraction, FractionOf, Available
    <2>9. p * b <= sum.num * q /\ sum.num * s <= r * b
      BY <2>1, <2>2, <2>3, <2>5, <2>6, <2>7, <2>8 DEF AtLeast, AtMost
    <2>10. PICK num : num = sum.num
      OBVIOUS
    <2>11. num \in Nat /\ q \in Nat /\ q > 0 /\ s \in Nat /\ s > 0 /\ p * b <= num * q /\ num * s <= r * b
      BY <2>1, <2>9, <2>10
    <2>12. Percent(p, q) <= Percent(num, b)
      BY <2>3, <2>11, PercentMonotone
    <2>13. Percent(num, b) <= Percent(r, s)
      BY <2>3, <2>11, PercentMonotone
    <2>14. Percent(p, q) \in { Percent(FractionOf(k)[1], FractionOf(k)[2]) : k \in Available(conInput) }
      BY <2>7
    <2>15. Percent(r, s) \in { Percent(FractionOf(k)[1], FractionOf(k)[2]) : k \in Available(conInput) }
      BY <2>8
    <2> QED
      BY <1>4, <2>4, <2>10, <2>12, <2>13, <2>14, <2>15 DEF ScoreHonest, FractionOf
  <1> QED
    BY <1>3, <1>4
-----------------------------------------------------------------------------
(***************************************************************************)
(* The card, the blockers and the checks of the gate                       *)
(***************************************************************************)

Failed(id) == Checks(conInput)[id] = "fail"
Unknown(id) == Checks(conInput)[id] = "unknown"
Blocks(b) == b \in Blockers(conInput)

Ids == {"critical-tests", "no-failing", "coverage-threshold", "services-reachable",
        "no-critical-incidents", "smoke-scheduled"}

LEMMA ChecksAre ==
  LET critical == IF conInput.tests = None THEN {} ELSE DOMAIN conInput.tests \cap ConCritical
  IN  /\ DOMAIN Checks(conInput) = Ids
      /\ Checks(conInput)["critical-tests"] =
           Check(critical # {}, \A t \in critical : conInput.tests[t] # "failed")
      /\ Checks(conInput)["no-failing"] = Check(conInput.tests # None, Failing(conInput) = 0)
      /\ Checks(conInput)["coverage-threshold"] =
           Check(CoveragePercent(conInput) # None, CoveragePercent(conInput) >= ConThreshold)
      /\ Checks(conInput)["services-reachable"] = Check(Health(conInput) # None, Unreachable(conInput) = 0)
      /\ Checks(conInput)["no-critical-incidents"] = Check(conInput.incidents # None, conInput.incidents = 0)
      /\ Checks(conInput)["smoke-scheduled"] = Check(conInput.schedules # None, conInput.schedules)
  BY DEF Checks, Ids

(* What is said of the coverage and the services is said of a signal.      *)
LEMMA CoverageKnown ==
  ASSUME ConTypeOK
  PROVE  /\ CoveragePercent(conInput) # None => CoveragePercent(conInput) \in Nat
         /\ CoveragePercent(conInput) # None <=> "coverage" \in Available(conInput)
  <1>1. Coverage(conInput) = None \/ Fraction(Coverage(conInput))
    BY InputCounts, RatioFraction DEF Coverage
  <1>2. "coverage" \in Available(conInput) <=> Coverage(conInput) # None
    BY DEF Available, Fractions, Signals
  <1>3. CASE Coverage(conInput) = None
    BY <1>2, <1>3 DEF CoveragePercent
  <1>4. CASE Coverage(conInput) # None
    <2>1. PICK n \in Nat, d \in Nat \ {0} : Coverage(conInput) = <<n, d>>
      BY <1>1, <1>4 DEF Fraction
    <2>2. n * d <= n * d /\ d > 0
      BY <2>1
    <2>3. Percent(n, d) \in Nat
      BY <2>1, <2>2, PercentMonotone
    <2>4. CoveragePercent(conInput) = Percent(n, d)
      BY <1>4, <2>1 DEF CoveragePercent
    <2> QED
      BY <1>2, <1>4, <2>3, <2>4, ConfidenceAssumption
  <1> QED
    BY <1>3, <1>4

LEMMA HealthKnown ==
  ASSUME ConTypeOK
  PROVE  /\ Unreachable(conInput) > 0 => Health(conInput) # None
         /\ Health(conInput) # None <=> "serviceHealth" \in Available(conInput)
  <1>1. Health(conInput) # None <=> "serviceHealth" \in Available(conInput)
    BY DEF Available, Fractions, Signals
  <1>2. ASSUME Unreachable(conInput) > 0 PROVE Health(conInput) # None
    <2>1. conInput.catalog # None
      BY <1>2 DEF Unreachable
    <2>2. PICK h, u : h = Count(conInput.catalog, "healthy") /\ u = Count(conInput.catalog, "unreachable")
      OBVIOUS
    <2>3. h \in Nat /\ h + u \in Nat /\ h + u # 0
      BY <1>2, <2>1, <2>2, InputCounts DEF Unreachable
    <2> QED
      BY <2>1, <2>2, <2>3, RatioFraction DEF Health
  <1> QED
    BY <1>1, <1>2

LEMMA OthersKnown ==
  ASSUME ConTypeOK
  PROVE  /\ "failingTests" \in Available(conInput) => conInput.tests # None
         /\ conInput.tests # None /\ Failing(conInput) > 0 => "failingTests" \in Available(conInput)
         /\ "incidents" \in Available(conInput) <=> conInput.incidents # None
         /\ "schedules" \in Available(conInput) <=> conInput.schedules # None
  <1>1. /\ "incidents" \in Available(conInput) <=> conInput.incidents # None
        /\ "schedules" \in Available(conInput) <=> conInput.schedules # None
    <2>1. <<0, 1>> # None /\ <<1, 1>> # None
      BY ConfidenceAssumption
    <2> QED
      BY <2>1 DEF Available, Fractions, Signals
  <1>2. "failingTests" \in Available(conInput) => conInput.tests # None
    BY DEF Available, Fractions, Signals
  <1>3. ASSUME conInput.tests # None, Failing(conInput) > 0 PROVE "failingTests" \in Available(conInput)
    <2>1. PICK n, m : n = Cardinality(DOMAIN conInput.tests) /\ m = n - Failing(conInput)
      OBVIOUS
    <2>2. n \in Nat /\ m \in Nat /\ n # 0
      BY <1>3, <2>1, InputCounts
    <2>3. Ratio(m, n) # None
      BY <2>2, RatioFraction
    <2> QED
      BY <1>3, <2>1, <2>3 DEF Available, Fractions, Signals
  <1> QED
    BY <1>1, <1>2, <1>3

-----------------------------------------------------------------------------

(* Each blocker stands for a check that failed.                            *)
LEMMA BlocksFails ==
  ASSUME ConTypeOK
  PROVE  /\ Blocks("CRITICAL_INCIDENTS") <=> Failed("no-critical-incidents")
         /\ Blocks("FAILING_TESTS") <=> Failed("no-failing")
         /\ Blocks("UNREACHABLE_SERVICES") <=> Failed("services-reachable")
         /\ Blocks("LOW_COVERAGE") <=> Failed("coverage-threshold")
         /\ Blocks("NO_SCHEDULE") <=> Failed("smoke-scheduled")
         /\ Failed("critical-tests") => Failed("no-failing")
  <1>1. Blocks("CRITICAL_INCIDENTS") <=> Failed("no-critical-incidents")
    BY ChecksAre, InputCounts DEF Blocks, Failed, Blockers, Check
  <1>2. Blocks("FAILING_TESTS") <=> Failed("no-failing")
    BY ChecksAre, InputCounts DEF Blocks, Failed, Blockers, Check
  <1>3. Blocks("UNREACHABLE_SERVICES") <=> Failed("services-reachable")
    BY ChecksAre, InputCounts, HealthKnown DEF Blocks, Failed, Blockers, Check
  <1>4. Blocks("LOW_COVERAGE") <=> Failed("coverage-threshold")
    BY ChecksAre, CoverageKnown, ConfidenceAssumption DEF Blocks, Failed, Blockers, Check
  <1>5. Blocks("NO_SCHEDULE") <=> Failed("smoke-scheduled")
    <2>1. conInput.schedules \in BOOLEAN \cup {None}
      BY InputCounts
    <2>2. Blocks("NO_SCHEDULE") <=> conInput.schedules = FALSE
      BY DEF Blocks, Blockers
    <2>3. Failed("smoke-scheduled") <=> conInput.schedules # None /\ ~ conInput.schedules
      BY ChecksAre DEF Failed, Check
    <2>4. ASSUME conInput.schedules = FALSE PROVE conInput.schedules # None /\ ~ conInput.schedules
      BY <2>4, ConfidenceAssumption
    <2> QED
      BY <2>1, <2>2, <2>3, <2>4
  <1>6. Failed("critical-tests") => Failed("no-failing")
    <2>1. ASSUME Failed("critical-tests")
          PROVE  conInput.tests # None /\ \E t \in DOMAIN conInput.tests : conInput.tests[t] = "failed"
      BY <2>1, ChecksAre DEF Failed, Check
    <2>2. ASSUME conInput.tests # None, \E t \in DOMAIN conInput.tests : conInput.tests[t] = "failed"
          PROVE  Failed("no-failing")
      BY <2>2, ChecksAre, InputCounts DEF Failed, Check
    <2> QED
      BY <2>1, <2>2
  <1> QED
    BY <1>1, <1>2, <1>3, <1>4, <1>5, <1>6

LEMMA GateOf ==
  /\ (\A id \in Ids : Unknown(id)) => GateStatus(Checks(conInput)) = "unknown"
  /\ ~ (\A id \in Ids : Unknown(id)) /\ (\A id \in Ids : ~ Failed(id))
       => GateStatus(Checks(conInput)) = "ready"
  /\ (\E id \in Ids : Failed(id)) => GateStatus(Checks(conInput)) \in {"blocked", "risky", "watch"}
  <1>1. DOMAIN Checks(conInput) = Ids
    BY ChecksAre
  <1>2. PICK failed : failed = { Severity(id) : id \in { i \in DOMAIN Checks(conInput) : Checks(conInput)[i] = "fail" } }
    OBVIOUS
  <1>3. GateStatus(Checks(conInput)) =
          IF \A id \in DOMAIN Checks(conInput) : Checks(conInput)[id] = "unknown" THEN "unknown"
          ELSE IF "critical" \in failed THEN "blocked" ELSE IF "warning" \in failed THEN "risky"
          ELSE IF "info" \in failed THEN "watch" ELSE "ready"
    BY <1>2 DEF GateStatus
  <1>4. ASSUME NEW id \in Ids, Failed(id) PROVE ~ Unknown(id) /\ Severity(id) \in failed
    BY <1>1, <1>2, <1>4 DEF Failed, Unknown
  <1>5. ASSUME \A id \in Ids : ~ Failed(id) PROVE failed = {}
    BY <1>1, <1>2, <1>5 DEF Failed
  <1>6. \A id \in Ids : Severity(id) \in {"critical", "warning", "info"}
    BY DEF Severity
  <1> QED
    BY <1>1, <1>3, <1>4, <1>5, <1>6 DEF Unknown

(* Where a signal is there a check is known.                               *)
LEMMA SignalKnown ==
  ASSUME ConTypeOK, Available(conInput) # {}
  PROVE  \E id \in Ids : ~ Unknown(id)
  <1>1. PICK k \in Signals : k \in Available(conInput)
    BY DEF Available
  <1>3. CASE k = "coverage"
    BY <1>1, <1>3, ChecksAre, CoverageKnown DEF Unknown, Check, Ids
  <1>4. CASE k = "failingTests"
    BY <1>1, <1>4, ChecksAre, OthersKnown DEF Unknown, Check, Ids
  <1>5. CASE k = "serviceHealth"
    BY <1>1, <1>5, ChecksAre, HealthKnown DEF Unknown, Check, Ids
  <1>6. CASE k = "incidents"
    BY <1>1, <1>6, ChecksAre, OthersKnown DEF Unknown, Check, Ids
  <1>7. CASE k = "schedules"
    BY <1>1, <1>7, ChecksAre, OthersKnown DEF Unknown, Check, Ids
  <1> QED
    BY <1>1, <1>3, <1>4, <1>5, <1>6, <1>7 DEF Signals

LEMMA SomeBlocks == Blockers(conInput) # {} <=>
                      \/ Blocks("CRITICAL_INCIDENTS") \/ Blocks("FAILING_TESTS") \/ Blocks("UNREACHABLE_SERVICES")
                      \/ Blocks("LOW_COVERAGE") \/ Blocks("NO_SCHEDULE")
  BY DEF Blocks, Blockers

(* What blocks is a signal.                                                *)
LEMMA BlocksAvailable ==
  ASSUME ConTypeOK, Blockers(conInput) # {}
  PROVE  Available(conInput) # {}
  <1>1. ASSUME Blocks("CRITICAL_INCIDENTS") PROVE "incidents" \in Available(conInput)
    BY <1>1, OthersKnown DEF Blocks, Blockers
  <1>2. ASSUME Blocks("FAILING_TESTS") PROVE "failingTests" \in Available(conInput)
    BY <1>2, OthersKnown DEF Blocks, Blockers
  <1>3. ASSUME Blocks("UNREACHABLE_SERVICES") PROVE "serviceHealth" \in Available(conInput)
    BY <1>3, HealthKnown DEF Blocks, Blockers
  <1>4. ASSUME Blocks("LOW_COVERAGE") PROVE "coverage" \in Available(conInput)
    BY <1>4, CoverageKnown DEF Blocks, Blockers
  <1>5. ASSUME Blocks("NO_SCHEDULE") PROVE "schedules" \in Available(conInput)
    BY <1>5, OthersKnown, ConfidenceAssumption DEF Blocks, Blockers
  <1> QED
    BY <1>1, <1>2, <1>3, <1>4, <1>5, SomeBlocks

LEMMA BlockersAgree == ConTypeOK => BlockersMatchChecks
  <1> SUFFICES ASSUME ConTypeOK PROVE BlockersMatchChecks
    OBVIOUS
  <1>1. Blockers(conInput) # {} <=> \E id \in Ids : Failed(id)
    BY BlocksFails, SomeBlocks DEF Ids
  <1>2. ASSUME Card(conInput) = "clear"
        PROVE  GateStatus(Checks(conInput)) = "ready" /\ NextSteps(conInput) = "clear"
    <2>1. Available(conInput) # {} /\ Blockers(conInput) = {}
      BY <1>2 DEF Card
    <2>2. NextSteps(conInput) = "clear"
      BY <2>1 DEF NextSteps
    <2> QED
      BY <1>1, <2>1, <2>2, SignalKnown, GateOf
  <1>3. Card(conInput) = "blockers" <=> Blockers(conInput) # {}
    BY BlocksAvailable DEF Card
  <1>4. GateStatus(Checks(conInput)) \in {"blocked", "risky", "watch"} <=> \E id \in Ids : Failed(id)
    BY GateOf
  <1> QED
    BY <1>1, <1>2, <1>3, <1>4, BlocksFails DEF BlockersMatchChecks, Blocks, Failed

-----------------------------------------------------------------------------

LEMMA ConTyped == ConSpec => []ConTypeOK
  BY ConInitTyped, ConStepTyped, PTL DEF ConSpec

(* Whichever inputs are missing, the score lies between the worst and the  *)
(* best of the signals that are there (computeConfidence), and the score's *)
(* blockers, the release-gate checks and the two cards agree, for any      *)
(* tests, services, incidents and threshold.                               *)
THEOREM ConfidenceTrue == ConSpec => []ConfidenceHonest
  <1>1. ConTypeOK => ConfidenceHonest
    BY ScoreBetween, BlockersAgree DEF ConfidenceHonest
  <1> QED
    BY <1>1, ConTyped, PTL


(***************************************************************************)
(* The list of runs                                                        *)
(***************************************************************************)

RlFields == {"what", "id", "n", "filter", "page", "size", "total", "rows"}

RlShapes ==
  /\ rlRuns \in Seq(RlRun) /\ rlAsked \in Nat /\ rlLast \in Nat
  /\ DOMAIN rlPage = {"filter", "page", "size", "rows", "total", "loading"}
  /\ rlPage.page \in Nat /\ rlPage.size \in Nat \ {0}

(* A request about what is chosen now.                                     *)
RlChosen(c) == c.filter = rlPage.filter /\ c.page = rlPage.page /\ c.size = rlPage.size

(* The last request is about what is chosen, and so is each that a         *)
(* deletion made since the user did anything; what a request has been told *)
(* is what is stored, unless it counts no more (its number is 0).          *)
RlCallOf(c) ==
  /\ DOMAIN c = RlFields /\ c.n \in Nat
  /\ c.what = "list" =>
       /\ c.rows # None => c.total # None
       /\ c.n <= 2 * rlAsked + 1
       /\ c.n = 2 * rlAsked + 1 \/ (c.n = rlLast /\ c.n # 0) => RlChosen(c)
       /\ c.n # 0 => /\ c.total # None => c.total = Len(RlMatching(rlRuns, c.filter))
                     /\ c.rows # None => c.rows = RlRowsOf(rlRuns, c)

RlTold ==
  rlFresh => rlPage.rows = RlRowsOf(rlRuns, rlPage) /\ rlPage.total = Len(RlMatching(rlRuns, rlPage.filter))

(* The page is not past the end of what the filter finds.                  *)
RlInRange ==
  ~ rlMoved => rlPage.page = 0 \/ rlPage.page * rlPage.size < Len(RlMatching(rlRuns, rlPage.filter))

RlIInv == RlShapes /\ (\A c \in rlCalls : RlCallOf(c)) /\ RlTold /\ RlInRange

-----------------------------------------------------------------------------

LEMMA MatchingType ==
  ASSUME NEW runs \in Seq(RlRun), NEW filter
  PROVE  RlMatching(runs, filter) \in Seq(RlRun) /\ Len(RlMatching(runs, filter)) \in Nat
  <1>1. RlMatching(runs, filter) \in Seq(RlRun)
    BY FilterType DEF RlMatching
  <1> QED
    BY <1>1, LenProperties

(* Rows depend on the filter, the page and the size only.                  *)
LEMMA RowsSame ==
  ASSUME NEW runs, NEW c, NEW d, c.filter = d.filter, c.page = d.page, c.size = d.size
  PROVE  RlRowsOf(runs, c) = RlRowsOf(runs, d)
  BY DEF RlRowsOf

LEMMA RlInitIInv == RlInit => RlIInv
  <1> SUFFICES ASSUME RlInit PROVE RlIInv
    OBVIOUS
  <1>1. RlShapes
    BY RlAssumption DEF RlInit, RlShapes
  <1>2. ASSUME NEW c \in rlCalls PROVE RlCallOf(c)
    BY <1>2 DEF RlInit, RlCallOf, RlFields, RlChosen
  <1>3. RlTold /\ RlInRange
    BY DEF RlInit, RlTold, RlInRange
  <1> QED
    BY <1>1, <1>2, <1>3 DEF RlIInv

(* Runs are changed: what was read of them counts no more.                 *)
LEMMA TouchedCalls ==
  ASSUME RlIInv, NEW calls \in SUBSET rlCalls, NEW c \in RlTouched(calls),
         UNCHANGED <<rlPage, rlLast>>, rlAsked' \in Nat, rlAsked' >= rlAsked
  PROVE  RlCallOf(c)'
  <1>1. PICK d \in calls : c = IF d.what = "list" /\ d.total # None THEN [d EXCEPT !.n = 0] ELSE d
    BY DEF RlTouched
  <1>2. RlCallOf(d) /\ rlAsked \in Nat
    BY <1>1 DEF RlIInv, RlShapes
  <1>3. CASE d.what = "list" /\ d.total # None
    <2>1. DOMAIN c = RlFields /\ c.n = 0 /\ c.what = "list" /\ c.rows = d.rows /\ c.total = d.total
      BY <1>1, <1>2, <1>3 DEF RlCallOf, RlFields
    <2>2. PICK n \in Nat : n = rlAsked'
      OBVIOUS
    <2>3. 0 # 2 * n + 1 /\ 0 <= 2 * n + 1
      OBVIOUS
    <2>4. c.rows # None => c.total # None
      BY <1>2, <1>3, <2>1 DEF RlCallOf
    <2>5. c.n # 2 * rlAsked' + 1 /\ c.n <= 2 * rlAsked' + 1
      BY <2>1, <2>2, <2>3
    <2>6. c.n = 0 /\ c.n \in Nat /\ DOMAIN c = RlFields
      BY <2>1
    <2>7. c.n = 2 * rlAsked' + 1 \/ (c.n = rlLast' /\ c.n # 0) => RlChosen(c)'
      BY <2>5, <2>6
    <2>8. c.n # 0 => /\ c.total # None => c.total = Len(RlMatching(rlRuns', c.filter))
                     /\ c.rows # None => c.rows = RlRowsOf(rlRuns', c)
      BY <2>6
    <2> QED
      BY <2>4, <2>5, <2>6, <2>7, <2>8 DEF RlCallOf
  <1>4. CASE ~ (d.what = "list" /\ d.total # None)
    <2>1. c = d
      BY <1>1, <1>4
    <2>2. ASSUME c.what = "list" PROVE c.total = None /\ c.rows = None
      BY <1>2, <1>4, <2>1, <2>2 DEF RlCallOf
    <2>3. ASSUME c.what = "list"
          PROVE  /\ c.n <= 2 * rlAsked' + 1
                 /\ c.n = 2 * rlAsked' + 1 => c.n = 2 * rlAsked + 1
      BY <1>2, <2>1, <2>3 DEF RlCallOf
    <2> QED
      BY <1>2, <2>1, <2>2, <2>3 DEF RlCallOf, RlChosen
  <1> QED
    BY <1>3, <1>4

LEMMA RlServeStep ==
  ASSUME RlIInv, NEW c \in rlCalls, RlServe(c)
  PROVE  RlIInv'
  <1>0. /\ RlCallOf(c) /\ RlShapes /\ UNCHANGED <<rlPage, rlAsked, rlLast>>
        /\ rlFresh' = (rlFresh /\ rlRuns' = rlRuns) /\ rlMoved' = (rlMoved \/ rlRuns' # rlRuns)
    BY DEF RlIInv, RlServe
  <1>1. ASSUME NEW d, rlCalls' = (rlCalls \ {c}) \cup {d}, RlCallOf(d), UNCHANGED rlRuns
        PROVE  RlIInv'
    BY <1>0, <1>1 DEF RlIInv, RlShapes, RlCallOf, RlChosen, RlTold, RlInRange
  <1>2. CASE RlCount(c)
    <2>1. PICK total : total = Len(RlMatching(rlRuns, c.filter))
      OBVIOUS
    <2>2. PICK d : d = [c EXCEPT !.total = total]
      OBVIOUS
    <2>3. /\ DOMAIN d = RlFields /\ d.what = c.what /\ d.n = c.n /\ d.filter = c.filter /\ d.page = c.page
          /\ d.size = c.size /\ d.total = total /\ d.rows = c.rows
      BY <1>0, <2>2 DEF RlCallOf, RlFields
    <2>4. c.what = "list" /\ c.rows = None
      BY <1>0, <1>2 DEF RlCount, RlCallOf
    <2>5. RlCallOf(d)
      BY <1>0, <2>1, <2>3, <2>4 DEF RlCallOf, RlChosen
    <2> QED
      BY <1>1, <1>2, <2>1, <2>2, <2>5 DEF RlCount
  <1>3. CASE RlSelect(c)
    <2>1. PICK rows : rows = RlRowsOf(rlRuns, c)
      OBVIOUS
    <2>2. PICK d : d = [c EXCEPT !.rows = rows]
      OBVIOUS
    <2>3. /\ DOMAIN d = RlFields /\ d.what = c.what /\ d.n = c.n /\ d.filter = c.filter /\ d.page = c.page
          /\ d.size = c.size /\ d.total = c.total /\ d.rows = rows
      BY <1>0, <2>2 DEF RlCallOf, RlFields
    <2>4. rows = RlRowsOf(rlRuns, d)
      BY <2>1, <2>3, RowsSame
    <2>5. RlCallOf(d)
      BY <1>0, <1>3, <2>3, <2>4 DEF RlCallOf, RlChosen, RlSelect
    <2> QED
      BY <1>1, <1>3, <2>1, <2>2, <2>5 DEF RlSelect
  <1>4. CASE RlDeleteRow(c)
    <2>1. rlRuns' \in Seq(RlRun)
      BY <1>0, <1>4, FilterType DEF RlDeleteRow, RlShapes
    <2>2. PICK e : e = [c EXCEPT !.what = "deleted"]
      OBVIOUS
    <2>3. DOMAIN e = RlFields /\ e.n \in Nat /\ e.what = "deleted"
      BY <1>0, <2>2 DEF RlCallOf, RlFields
    <2>4. rlCalls' = RlTouched(rlCalls \ {c}) \cup {e}
      BY <1>4, <2>2 DEF RlDeleteRow
    <2>5. ASSUME NEW d \in rlCalls' PROVE RlCallOf(d)'
      <3>1. CASE d = e
        BY <2>3, <3>1 DEF RlCallOf
      <3>2. CASE d \in RlTouched(rlCalls \ {c})
        <4>1. rlAsked' \in Nat /\ rlAsked' >= rlAsked /\ rlCalls \ {c} \in SUBSET rlCalls
          BY <1>0 DEF RlShapes
        <4> QED
          BY <1>0, <3>2, <4>1, TouchedCalls
      <3> QED
        BY <2>4, <2>5, <3>1, <3>2
    <2>6. RlTold' /\ RlInRange'
      <3>1. CASE rlRuns' = rlRuns
        BY <1>0, <3>1 DEF RlIInv, RlTold, RlInRange
      <3>2. CASE rlRuns' # rlRuns
        BY <1>0, <3>2 DEF RlTold, RlInRange
      <3> QED
        BY <3>1, <3>2
    <2> QED
      BY <1>0, <2>1, <2>5, <2>6 DEF RlIInv, RlShapes
  <1> QED
    BY <1>2, <1>3, <1>4 DEF RlServe

LEMMA RlChangeStep ==
  ASSUME RlIInv, RlChange
  PROVE  RlIInv'
  <1>0. rlAsked' = rlAsked + 1 /\ RlShapes /\ UNCHANGED <<rlPage, rlLast>> /\ ~ rlFresh' /\ rlMoved'
    BY DEF RlIInv, RlChange
  <1>1. rlRuns' \in Seq(RlRun)
    <2>1. PICK i \in DOMAIN rlRuns, k \in RlClasses : rlRuns' = [rlRuns EXCEPT ![i].class = k]
      BY DEF RlChange
    <2>2. i \in 1 .. Len(rlRuns) /\ rlRuns[i] \in RlRun
      BY <1>0, LenProperties, ElementOfSeq DEF RlShapes
    <2>3. PICK run : run = [rlRuns[i] EXCEPT !.class = k]
      OBVIOUS
    <2>4. run \in RlRun
      BY <2>2, <2>3 DEF RlRun
    <2>5. rlRuns' = [rlRuns EXCEPT ![i] = run]
      BY <2>1, <2>3
    <2> QED
      BY <1>0, <2>2, <2>4, <2>5, ExceptSeq DEF RlShapes
  <1>2. ASSUME NEW d \in rlCalls' PROVE RlCallOf(d)'
    <2>1. rlAsked' \in Nat /\ rlAsked' >= rlAsked /\ d \in RlTouched(rlCalls)
      BY <1>0, <1>2 DEF RlShapes, RlChange
    <2> QED
      BY <1>0, <2>1, TouchedCalls
  <1> QED
    BY <1>0, <1>1, <1>2 DEF RlIInv, RlShapes, RlTold, RlInRange


(* A request that is sent for what is chosen, after the user did something. *)
LEMMA AnotherRequest ==
  ASSUME RlIInv, NEW asked, asked = rlAsked + 1, rlAsked' = asked, NEW p, RlLoad(p, 2 * rlAsked + 2, rlCalls),
         NEW d \in rlCalls', UNCHANGED rlRuns, RlChosen(p)', p.page \in Nat
  PROVE  RlCallOf(d)'
  <1>1. rlAsked \in Nat /\ asked \in Nat
    BY DEF RlIInv, RlShapes
  <1>2. PICK n \in Nat : n = 2 * rlAsked + 2
    BY <1>1
  <1>3. rlLast' = n /\ n = 2 * asked /\ n # 0
    BY <1>1, <1>2 DEF RlLoad
  <1>4. CASE d \in rlCalls
    <2>1. RlCallOf(d)
      BY <1>4 DEF RlIInv
    <2>2. ASSUME d.what = "list"
          PROVE  d.n <= 2 * asked + 1 /\ d.n # 2 * asked + 1 /\ d.n # n
      BY <1>1, <1>2, <2>1, <2>2 DEF RlCallOf
    <2> QED
      BY <1>3, <2>1, <2>2 DEF RlCallOf
  <1>5. CASE d \notin rlCalls
    <2>1. d = [what |-> "list", id |-> 0, n |-> n, filter |-> p.filter, page |-> p.page, size |-> p.size,
               total |-> None, rows |-> None]
      BY <1>2, <1>5 DEF RlLoad
    <2>2. /\ DOMAIN d = RlFields /\ d.n = n /\ d.what = "list" /\ d.total = None /\ d.rows = None
          /\ d.filter = p.filter /\ d.page = p.page /\ d.size = p.size
      BY <2>1 DEF RlFields
    <2>3. n <= 2 * asked + 1
      BY <1>1, <1>3
    <2> QED
      BY <2>2, <2>3 DEF RlCallOf, RlChosen
  <1> QED
    BY <1>4, <1>5

LEMMA ChooseStep ==
  ASSUME RlIInv, NEW page \in Nat, NEW size \in Nat \ {0}, NEW p, p.page = page, p.size = size, RlChoose(p),
         rlAsked' = rlAsked + 1, UNCHANGED rlRuns
  PROVE  /\ RlShapes' /\ (\A d \in rlCalls' : RlCallOf(d)') /\ RlTold'
         /\ rlPage'.page = page /\ rlPage'.size = size /\ rlPage'.filter = p.filter
  <1>1. PICK q : q = [rlPage EXCEPT !.filter = p.filter, !.page = p.page, !.size = p.size]
    OBVIOUS
  <1>2. rlPage' = [q EXCEPT !.loading = TRUE] /\ RlLoad(q, 2 * rlAsked + 2, rlCalls)
    BY <1>1 DEF RlChoose
  <1>3. RlShapes
    BY DEF RlIInv
  <1>4. /\ DOMAIN q = {"filter", "page", "size", "rows", "total", "loading"}
        /\ q.filter = p.filter /\ q.page = page /\ q.size = size
    BY <1>1, <1>3 DEF RlShapes
  <1>5. /\ DOMAIN rlPage' = {"filter", "page", "size", "rows", "total", "loading"}
        /\ rlPage'.filter = p.filter /\ rlPage'.page = page /\ rlPage'.size = size
    BY <1>2, <1>4
  <1>6. RlChosen(q)'
    BY <1>4, <1>5 DEF RlChosen
  <1>7. PICK asked : asked = rlAsked + 1
    OBVIOUS
  <1>8. \A d \in rlCalls' : RlCallOf(d)'
    BY <1>2, <1>4, <1>6, <1>7, AnotherRequest
  <1>9. ~ rlFresh' /\ rlLast' = 2 * rlAsked + 2
    BY <1>2 DEF RlLoad
  <1>10. RlShapes'
    BY <1>3, <1>5, <1>9 DEF RlShapes
  <1> QED
    BY <1>5, <1>8, <1>9, <1>10 DEF RlTold

LEMMA RlUserStep ==
  ASSUME RlIInv, RlUser
  PROVE  RlIInv'
  <1>0. /\ rlAsked' = rlAsked + 1 /\ UNCHANGED rlRuns /\ RlShapes /\ rlAsked \in Nat
        /\ rlPage.page \in Nat /\ rlPage.size \in Nat \ {0}
        /\ DOMAIN rlPage = {"filter", "page", "size", "rows", "total", "loading"}
    BY DEF RlUser, RlIInv, RlShapes
  <1>1. CASE RlFilter
    <2>1. PICK f : RlChoose([rlPage EXCEPT !.filter = f, !.page = 0])
      BY <1>1 DEF RlFilter
    <2>2. PICK p : p = [rlPage EXCEPT !.filter = f, !.page = 0]
      OBVIOUS
    <2>3. p.page = 0 /\ p.size = rlPage.size /\ RlChoose(p) /\ 0 \in Nat
      BY <1>0, <2>1, <2>2
    <2>4. RlShapes' /\ (\A d \in rlCalls' : RlCallOf(d)') /\ RlTold' /\ rlPage'.page = 0
      BY <1>0, <2>3, ChooseStep
    <2> QED
      BY <2>4 DEF RlIInv, RlInRange
  <1>2. CASE RlResize
    <2>1. PICK s \in RlSizes : RlChoose([rlPage EXCEPT !.size = s, !.page = 0])
      BY <1>2 DEF RlResize
    <2>2. PICK p : p = [rlPage EXCEPT !.size = s, !.page = 0]
      OBVIOUS
    <2>3. p.page = 0 /\ p.size = s /\ RlChoose(p) /\ 0 \in Nat /\ s \in Nat \ {0}
      BY <1>0, <2>1, <2>2, RlAssumption
    <2>4. RlShapes' /\ (\A d \in rlCalls' : RlCallOf(d)') /\ RlTold' /\ rlPage'.page = 0
      BY <1>0, <2>3, ChooseStep
    <2> QED
      BY <2>4 DEF RlIInv, RlInRange
  <1>3. CASE RlTurn
    <2>1. PICK page \in Nat : RlChoose([rlPage EXCEPT !.page = page])
      <3>1. CASE rlPage.page > 0 /\ RlChoose([rlPage EXCEPT !.page = @ - 1])
        <4>1. PICK page \in Nat : page = rlPage.page - 1
          BY <1>0, <3>1
        <4>2. RlChoose([rlPage EXCEPT !.page = page])
          BY <3>1, <4>1
        <4> QED
          BY <4>2
      <3>2. CASE RlChoose([rlPage EXCEPT !.page = @ + 1])
        <4>1. PICK page \in Nat : page = rlPage.page + 1
          BY <1>0
        <4>2. RlChoose([rlPage EXCEPT !.page = page])
          BY <3>2, <4>1
        <4> QED
          BY <4>2
      <3> QED
        BY <1>3, <3>1, <3>2 DEF RlTurn
    <2>2. PICK p : p = [rlPage EXCEPT !.page = page]
      OBVIOUS
    <2>3. p.page = page /\ p.size = rlPage.size /\ p.filter = rlPage.filter /\ RlChoose(p)
      BY <1>0, <2>1, <2>2
    <2>4. /\ RlShapes' /\ (\A d \in rlCalls' : RlCallOf(d)') /\ RlTold'
          /\ rlPage'.page = page /\ rlPage'.size = rlPage.size /\ rlPage'.filter = rlPage.filter
      BY <1>0, <2>3, ChooseStep
    <2>5. RlInRange'
      <3>1. SUFFICES ASSUME ~ rlMoved' PROVE rlPage'.page * rlPage'.size < Len(RlMatching(rlRuns, rlPage'.filter))
        BY <1>0 DEF RlInRange
      <3>2. rlFresh /\ page * rlPage.size < rlPage.total
        BY <1>3, <2>4, <3>1 DEF RlTurn
      <3>3. rlPage.total = Len(RlMatching(rlRuns, rlPage.filter))
        BY <3>2 DEF RlIInv, RlTold
      <3> QED
        BY <2>4, <3>2, <3>3
    <2> QED
      BY <2>4, <2>5 DEF RlIInv
  <1>4. CASE RlRefresh
    <2>1. rlPage' = [rlPage EXCEPT !.loading = TRUE] /\ RlLoad(rlPage, 2 * rlAsked + 2, rlCalls) /\ UNCHANGED rlMoved
      BY <1>4 DEF RlRefresh
    <2>2. /\ DOMAIN rlPage' = {"filter", "page", "size", "rows", "total", "loading"}
          /\ rlPage'.filter = rlPage.filter /\ rlPage'.page = rlPage.page /\ rlPage'.size = rlPage.size
      BY <1>0, <2>1
    <2>3. PICK asked, p : asked = rlAsked + 1 /\ p = rlPage
      OBVIOUS
    <2>4. RlChosen(p)' /\ RlLoad(p, 2 * rlAsked + 2, rlCalls) /\ p.page \in Nat
      BY <1>0, <2>1, <2>2, <2>3 DEF RlChosen
    <2>5. \A d \in rlCalls' : RlCallOf(d)'
      BY <1>0, <2>3, <2>4, AnotherRequest
    <2>6. ~ rlFresh' /\ rlLast' = 2 * rlAsked + 2
      BY <2>1 DEF RlLoad
    <2>7. RlShapes' /\ RlTold' /\ RlInRange'
      BY <1>0, <2>1, <2>2, <2>6 DEF RlShapes, RlTold, RlInRange, RlIInv
    <2> QED
      BY <2>5, <2>7 DEF RlIInv
  <1>5. CASE RlDelete
    <2>1. PICK d : /\ rlCalls' = rlCalls \cup {d}
                   /\ \E id : d = [what |-> "delete", id |-> id, n |-> 0, filter |-> rlPage.filter, page |-> rlPage.page,
                                   size |-> rlPage.size, total |-> None, rows |-> None]
      BY <1>5 DEF RlDelete
    <2>2. DOMAIN d = RlFields /\ d.n \in Nat /\ d.what = "delete"
      BY <2>1 DEF RlFields
    <2>3. PICK asked : asked = rlAsked + 1
      OBVIOUS
    <2>4. ASSUME NEW c \in rlCalls PROVE RlCallOf(c)'
      <3>1. RlCallOf(c) /\ UNCHANGED <<rlPage, rlLast, rlRuns>> /\ rlAsked' = asked
        BY <1>0, <1>5, <2>3 DEF RlDelete, RlIInv
      <3>2. ASSUME c.what = "list" PROVE c.n <= 2 * asked + 1 /\ c.n # 2 * asked + 1
        BY <1>0, <2>3, <3>1, <3>2 DEF RlCallOf
      <3> QED
        BY <3>1, <3>2 DEF RlCallOf, RlChosen
    <2>5. RlCallOf(d)'
      BY <2>2 DEF RlCallOf
    <2>6. RlShapes' /\ RlTold' /\ RlInRange'
      BY <1>0, <1>5 DEF RlDelete, RlShapes, RlTold, RlInRange, RlIInv
    <2> QED
      BY <2>1, <2>4, <2>5, <2>6 DEF RlIInv
  <1> QED
    BY <1>1, <1>2, <1>3, <1>4, <1>5 DEF RlUser

LEMMA RlAnswerStep ==
  ASSUME RlIInv, NEW c \in rlCalls, RlAnswer(c)
  PROVE  RlIInv'
  <1>0. /\ RlCallOf(c) /\ RlShapes /\ UNCHANGED <<rlRuns, rlMoved>> /\ rlAsked \in Nat
        /\ DOMAIN rlPage = {"filter", "page", "size", "rows", "total", "loading"}
    BY DEF RlIInv, RlAnswer, RlShapes
  <1>1. ASSUME rlPage'.filter = rlPage.filter, rlPage'.page = rlPage.page, rlPage'.size = rlPage.size
        PROVE  RlInRange'
    BY <1>0, <1>1 DEF RlIInv, RlInRange
  <1>2. CASE RlArrives(c)
    <2>1. /\ rlPage' = [rlPage EXCEPT !.rows = c.rows, !.total = c.total, !.loading = FALSE]
          /\ rlCalls' = rlCalls \ {c} /\ UNCHANGED <<rlAsked, rlLast>> /\ c.what = "list" /\ c.rows # None
          /\ rlFresh' = (c.n # 0 /\ c.n = rlLast)
      BY <1>2 DEF RlArrives
    <2>2. /\ DOMAIN rlPage' = {"filter", "page", "size", "rows", "total", "loading"}
          /\ rlPage'.filter = rlPage.filter /\ rlPage'.page = rlPage.page /\ rlPage'.size = rlPage.size
          /\ rlPage'.rows = c.rows /\ rlPage'.total = c.total
      BY <1>0, <2>1
    <2>3. RlTold'
      <3>1. SUFFICES ASSUME c.n # 0, c.n = rlLast
                     PROVE  /\ c.rows = RlRowsOf(rlRuns, rlPage')
                            /\ c.total = Len(RlMatching(rlRuns, rlPage'.filter))
        BY <1>0, <2>1, <2>2 DEF RlTold
      <3>2. /\ RlChosen(c) /\ c.total # None /\ c.total = Len(RlMatching(rlRuns, c.filter))
            /\ c.rows = RlRowsOf(rlRuns, c)
        BY <1>0, <2>1, <3>1 DEF RlCallOf
      <3>3. c.filter = rlPage'.filter /\ c.page = rlPage'.page /\ c.size = rlPage'.size
        BY <2>2, <3>2 DEF RlChosen
      <3> QED
        BY <3>2, <3>3 DEF RlRowsOf
    <2>4. \A d \in rlCalls' : RlCallOf(d)'
      BY <1>0, <2>1, <2>2 DEF RlIInv, RlCallOf, RlChosen
    <2>5. RlShapes'
      BY <1>0, <2>1, <2>2 DEF RlShapes
    <2> QED
      BY <1>1, <2>2, <2>3, <2>4, <2>5 DEF RlIInv
  <1>3. CASE RlDeleted(c)
    <2>1. PICK n : n = IF <<c.filter, c.page, c.size>> = <<rlPage.filter, rlPage.page, rlPage.size>>
                       THEN 2 * rlAsked + 1 ELSE 0
      OBVIOUS
    <2>2. /\ RlLoad(c, n, rlCalls \ {c}) /\ rlPage' = [rlPage EXCEPT !.loading = TRUE] /\ UNCHANGED rlAsked
      BY <1>3, <2>1 DEF RlDeleted
    <2>3. n \in Nat /\ n <= 2 * rlAsked + 1 /\ (n # 0 => n = 2 * rlAsked + 1)
          /\ (n # 0 => RlChosen(c)) /\ 2 * rlAsked + 1 # 0
      BY <1>0, <2>1 DEF RlChosen
    <2>4. /\ DOMAIN rlPage' = {"filter", "page", "size", "rows", "total", "loading"}
          /\ rlPage'.filter = rlPage.filter /\ rlPage'.page = rlPage.page /\ rlPage'.size = rlPage.size
      BY <1>0, <2>2
    <2>5. rlLast' = n /\ ~ rlFresh'
      BY <2>2 DEF RlLoad
    <2>6. PICK e : e = [what |-> "list", id |-> 0, n |-> n, filter |-> c.filter, page |-> c.page, size |-> c.size,
                        total |-> None, rows |-> None]
      OBVIOUS
    <2>7. /\ DOMAIN e = RlFields /\ e.n = n /\ e.what = "list" /\ e.total = None /\ e.rows = None
          /\ e.filter = c.filter /\ e.page = c.page /\ e.size = c.size
      BY <2>6 DEF RlFields
    <2>8. rlCalls' = (rlCalls \ {c}) \cup {e}
      BY <2>2, <2>6 DEF RlLoad
    <2>9. RlCallOf(e)'
      <3>1. e.n = 2 * rlAsked + 1 => RlChosen(c)
        BY <2>3, <2>7
      <3> QED
        BY <2>2, <2>3, <2>4, <2>5, <2>7, <3>1 DEF RlCallOf, RlChosen
    <2>10. ASSUME NEW d \in rlCalls PROVE RlCallOf(d)'
      <3>1. RlCallOf(d)
        BY <2>10 DEF RlIInv
      <3>2. ASSUME d.what = "list", d.n = 2 * rlAsked + 1 \/ (d.n = n /\ d.n # 0) PROVE RlChosen(d)
        BY <2>3, <3>1, <3>2 DEF RlCallOf
      <3> QED
        BY <1>0, <2>2, <2>4, <2>5, <3>1, <3>2 DEF RlCallOf, RlChosen
    <2>11. RlShapes'
      BY <1>0, <2>2, <2>3, <2>4, <2>5 DEF RlShapes
    <2>12. RlTold'
      BY <2>5 DEF RlTold
    <2> QED
      BY <1>1, <2>4, <2>8, <2>9, <2>10, <2>11, <2>12 DEF RlIInv
  <1>4. CASE RlFails(c)
    <2>1. PICK asked : asked = rlAsked + 1
      OBVIOUS
    <2>2. rlAsked' = asked /\ rlCalls' = rlCalls \ {c} /\ ~ rlFresh' /\ UNCHANGED rlLast
      BY <1>4, <2>1 DEF RlFails
    <2>3. /\ DOMAIN rlPage' = {"filter", "page", "size", "rows", "total", "loading"}
          /\ rlPage'.filter = rlPage.filter /\ rlPage'.page = rlPage.page /\ rlPage'.size = rlPage.size
      BY <1>0, <1>4 DEF RlFails
    <2>4. ASSUME NEW d \in rlCalls PROVE RlCallOf(d)'
      <3>1. RlCallOf(d)
        BY <2>4 DEF RlIInv
      <3>2. ASSUME d.what = "list" PROVE d.n <= 2 * asked + 1 /\ d.n # 2 * asked + 1
        BY <1>0, <2>1, <3>1, <3>2 DEF RlCallOf
      <3> QED
        BY <1>0, <2>2, <2>3, <3>1, <3>2 DEF RlCallOf, RlChosen
    <2>5. RlShapes'
      BY <1>0, <2>1, <2>2, <2>3 DEF RlShapes
    <2>6. RlTold'
      BY <2>2 DEF RlTold
    <2> QED
      BY <1>1, <2>2, <2>3, <2>4, <2>5, <2>6 DEF RlIInv
  <1> QED
    BY <1>2, <1>3, <1>4 DEF RlAnswer

LEMMA RlStep == RlIInv /\ [RlNext]_rlVars => RlIInv'
  <1> SUFFICES ASSUME RlIInv, [RlNext]_rlVars PROVE RlIInv'
    OBVIOUS
  <1>1. CASE UNCHANGED rlVars
    BY <1>1 DEF rlVars, RlIInv, RlShapes, RlCallOf, RlChosen, RlTold, RlInRange
  <1> QED
    BY <1>1, RlUserStep, RlChangeStep, RlServeStep, RlAnswerStep DEF RlNext, RlProgress

-----------------------------------------------------------------------------

(* A page within the runs that the filter finds has rows.                  *)
LEMMA RowsThere ==
  ASSUME NEW runs \in Seq(RlRun), NEW c, c.page \in Nat, c.size \in Nat \ {0},
         c.page = 0 \/ c.page * c.size < Len(RlMatching(runs, c.filter)), RlRowsOf(runs, c) = <<>>
  PROVE  RlMatching(runs, c.filter) = <<>>
  <1>1. PICK m : m = RlMatching(runs, c.filter)
    OBVIOUS
  <1>2. m \in Seq(RlRun) /\ Len(m) \in Nat
    BY <1>1, MatchingType
  <1>3. PICK first : first = c.page * c.size
    OBVIOUS
  <1>4. PICK last : last = IF Len(m) < (c.page + 1) * c.size THEN Len(m) ELSE (c.page + 1) * c.size
    OBVIOUS
  <1>5. first \in Nat /\ (c.page + 1) * c.size = first + c.size
    BY <1>3
  <1>6. RlRowsOf(runs, c) = SubSeq(m, first + 1, last)
    BY <1>1, <1>3, <1>4 DEF RlRowsOf
  <1>7. c.page = 0 => first = 0
    BY <1>3
  <1>8. SUFFICES ASSUME Len(m) > 0 PROVE FALSE
    BY <1>1, <1>2, EmptySeq
  <1>9. last \in Nat /\ last <= Len(m) /\ first + 1 <= last
    BY <1>1, <1>2, <1>3, <1>4, <1>5, <1>7, <1>8
  <1>10. Len(SubSeq(m, first + 1, last)) = last - first
    <2>1. \A i \in first + 1 .. last : m[i] \in RlRun
      BY <1>2, <1>5, <1>9, ElementOfSeq
    <2> QED
      BY <1>2, <1>5, <1>9, <2>1, SubSeqProperties
  <1> QED
    BY <1>5, <1>6, <1>9, <1>10, EmptySeq

LEMMA RlTrue == RlIInv => RlShowsFilter /\ RlEmptyIsTrue
  <1> SUFFICES ASSUME RlIInv PROVE RlShowsFilter /\ RlEmptyIsTrue
    OBVIOUS
  <1>1. RlShowsFilter
    BY DEF RlIInv, RlTold, RlShowsFilter, RlAtRest
  <1>2. ASSUME RlAtRest, ~ rlMoved, rlPage.rows = <<>> PROVE RlMatching(rlRuns, rlPage.filter) = <<>>
    <2>1. RlRowsOf(rlRuns, rlPage) = <<>>
      BY <1>1, <1>2 DEF RlShowsFilter
    <2>2. PICK c : c = rlPage
      OBVIOUS
    <2>3. /\ rlRuns \in Seq(RlRun) /\ c.page \in Nat /\ c.size \in Nat \ {0} /\ RlRowsOf(rlRuns, c) = <<>>
          /\ c.page = 0 \/ c.page * c.size < Len(RlMatching(rlRuns, c.filter))
      BY <1>2, <2>1, <2>2 DEF RlIInv, RlShapes, RlInRange
    <2> QED
      BY <2>2, <2>3, RowsThere
  <1> QED
    BY <1>1, <1>2 DEF RlEmptyIsTrue


(***************************************************************************)
(* The notes of a run                                                      *)
(***************************************************************************)

RnFields == {"kind", "note", "done", "got", "stale"}

Known(notes) == notes \subseteq { n \in Nat : n < rnNext }

(* A change that is stored, whose answer the page has still to get, and    *)
(* that a list of notes does not have.                                     *)
Missed(d, n, notes) ==
  /\ d.done /\ d.note = n
  /\ (d.kind = "create" /\ n \notin notes) \/ (d.kind = "delete" /\ n \in notes)

(* Notes that are what is stored, but for such changes.                    *)
Agree(notes) == \A n : (n \in notes) # (n \in rnStored) => \E d \in rnCalls : Missed(d, n, notes)

RnCallOf(c) ==
  /\ DOMAIN c = RnFields /\ c.done \in BOOLEAN /\ c.stale \in BOOLEAN /\ c.kind \in {"create", "delete", "list"}
  /\ c.kind = "delete" => c.note \in Nat /\ c.note < rnNext /\ (c.done => c.note \notin rnStored)
  /\ c.kind = "list" /\ c.done => Known(c.got) /\ (~ c.stale => Agree(c.got))

RnShapes ==
  /\ rnNext \in Nat /\ Known(rnStored) /\ rnSpoilt \in BOOLEAN
  /\ DOMAIN rnPage = {"notes", "typed", "sending", "loading"} /\ Known(rnPage.notes)

(* What is shown, when no list of notes is under way.                      *)
RnShown == (\A c \in rnCalls : c.kind # "list") /\ ~ rnSpoilt => Agree(rnPage.notes)

RnIInv == RnShapes /\ (\A c \in rnCalls : RnCallOf(c)) /\ RnShown

-----------------------------------------------------------------------------

LEMMA RnInitIInv == RnInit => RnIInv
  <1> SUFFICES ASSUME RnInit PROVE RnIInv
    OBVIOUS
  <1>1. RnNotes0 \in Nat
    BY RnAssumption
  <1>2. RnShapes
    <2>1. RnNotes0 + 1 \in Nat /\ \A n \in 1 .. RnNotes0 : n \in Nat /\ n < RnNotes0 + 1
      BY <1>1
    <2>2. rnNext = RnNotes0 + 1 /\ rnStored = 1 .. RnNotes0
      BY DEF RnInit
    <2>3. Known(rnStored) /\ rnNext \in Nat
      BY <2>1, <2>2 DEF Known
    <2> QED
      BY <2>3 DEF RnInit, RnShapes, Known
  <1>3. PICK d : d = RnList(0)
    OBVIOUS
  <1>4. rnCalls = {d} /\ d.kind = "list" /\ DOMAIN d = RnFields /\ d.done = FALSE /\ d.stale = FALSE
    BY <1>3 DEF RnInit, RnList, RnCall, RnFields
  <1> QED
    BY <1>2, <1>4 DEF RnIInv, RnShown, RnCallOf

(* Agreement is kept while what is stored stays and no change is answered. *)
LEMMA AgreeKept ==
  ASSUME NEW notes, Agree(notes), UNCHANGED rnStored, \A d \in rnCalls : d.done /\ d.kind # "list" => d \in rnCalls'
  PROVE  \A n : (n \in notes) # (n \in rnStored') => \E d \in rnCalls' : Missed(d, n, notes)
  <1> SUFFICES ASSUME NEW n, (n \in notes) # (n \in rnStored) PROVE \E d \in rnCalls' : Missed(d, n, notes)
    OBVIOUS
  <1>1. PICK d \in rnCalls : Missed(d, n, notes)
    BY DEF Agree
  <1>2. d \in rnCalls'
    BY <1>1 DEF Missed
  <1> QED
    BY <1>1, <1>2

(* A change is answered that the notes have.                               *)
LEMMA AgreeAnswered ==
  ASSUME NEW c, NEW notes, Agree(notes), UNCHANGED rnStored, ~ Missed(c, c.note, notes),
         \A d \in rnCalls \ {c} : d.done /\ d.kind # "list" => d \in rnCalls'
  PROVE  \A n : (n \in notes) # (n \in rnStored') => \E d \in rnCalls' : Missed(d, n, notes)
  <1> SUFFICES ASSUME NEW n, (n \in notes) # (n \in rnStored) PROVE \E d \in rnCalls' : Missed(d, n, notes)
    OBVIOUS
  <1>1. PICK d \in rnCalls : Missed(d, n, notes)
    BY DEF Agree
  <1>2. d # c /\ d.done /\ d.kind # "list"
    BY <1>1 DEF Missed
  <1> QED
    BY <1>1, <1>2

(* A call stays what it is while what is stored stays.                     *)
LEMMA CallKept ==
  ASSUME RnIInv, NEW d, RnCallOf(d), UNCHANGED <<rnStored, rnNext>>,
         d.kind = "list" /\ d.done /\ ~ d.stale => Agree(d.got)'
  PROVE  RnCallOf(d)'
  BY DEF RnCallOf, Known

LEMMA RnServeStep ==
  ASSUME RnIInv, NEW c \in rnCalls, RnServe(c)
  PROVE  RnIInv'
  <1>0. ~ c.done /\ RnCallOf(c) /\ UNCHANGED <<rnPage, rnSpoilt>> /\ rnNext \in Nat
    BY DEF RnServe, RnIInv, RnShapes
  <1>1. CASE RnServeCreate(c)
    <2>1. PICK e : e = [c EXCEPT !.done = TRUE, !.note = rnNext]
      OBVIOUS
    <2>2. /\ DOMAIN e = RnFields /\ e.kind = "create" /\ e.done = TRUE /\ e.stale \in BOOLEAN /\ e.note = rnNext
          /\ c.kind = "create"
      BY <1>0, <1>1, <2>1 DEF RnCallOf, RnFields, RnServeCreate
    <2>3. /\ rnStored' = rnStored \cup {rnNext} /\ rnNext' = rnNext + 1 /\ rnCalls' = (rnCalls \ {c}) \cup {e}
      BY <1>1, <2>1 DEF RnServeCreate
    <2>4. ASSUME NEW notes, Known(notes)
          PROVE  /\ notes \subseteq { n \in Nat : n < rnNext' }
                 /\ rnNext \notin notes
      BY <1>0, <2>3, <2>4 DEF Known
    <2>5. ASSUME NEW notes, Known(notes), Agree(notes)
          PROVE  \A n : (n \in notes) # (n \in rnStored') => \E d \in rnCalls' : Missed(d, n, notes)
      <3> SUFFICES ASSUME NEW n, (n \in notes) # (n \in rnStored') PROVE \E d \in rnCalls' : Missed(d, n, notes)
        OBVIOUS
      <3>1. CASE n = rnNext
        <4>1. e \in rnCalls' /\ n \notin notes
          BY <2>3, <2>4, <2>5, <3>1
        <4>2. Missed(e, n, notes)
          BY <2>2, <3>1, <4>1 DEF Missed
        <4> QED
          BY <4>1, <4>2
      <3>2. CASE n # rnNext
        <4>1. PICK d \in rnCalls : Missed(d, n, notes)
          BY <2>3, <2>5, <3>2 DEF Agree
        <4>2. d # c
          BY <1>0, <4>1 DEF Missed
        <4> QED
          BY <2>3, <4>1, <4>2
      <3> QED
        BY <3>1, <3>2
    <2>6. ASSUME NEW d \in rnCalls PROVE RnCallOf(d)'
      <3>1. RnCallOf(d)
        BY <2>6 DEF RnIInv
      <3>2. d.kind = "delete" => d.note < rnNext' /\ (d.done => d.note \notin rnStored')
        BY <1>0, <2>3, <3>1 DEF RnCallOf
      <3>3. ASSUME d.kind = "list", d.done PROVE Known(d.got)' /\ (~ d.stale => Agree(d.got)')
        <4>1. Known(d.got) /\ (~ d.stale => Agree(d.got))
          BY <3>1, <3>3 DEF RnCallOf
        <4>2. Known(d.got)'
          BY <2>4, <4>1 DEF Known
        <4>3. ~ d.stale => Agree(d.got)'
          BY <2>5, <4>1 DEF Agree
        <4> QED
          BY <4>2, <4>3
      <3> QED
        BY <3>1, <3>2, <3>3 DEF RnCallOf
    <2>7. RnCallOf(e)'
      BY <2>2 DEF RnCallOf
    <2>8. RnShapes'
      BY <1>0, <2>3, <2>4 DEF RnShapes, RnIInv, Known
    <2>9. RnShown'
      <3>1. SUFFICES ASSUME \A d \in rnCalls' : d.kind # "list", ~ rnSpoilt PROVE Agree(rnPage.notes)'
        BY <1>0 DEF RnShown
      <3>2. Agree(rnPage.notes) /\ Known(rnPage.notes)
        BY <2>2, <2>3, <3>1 DEF RnIInv, RnShown, RnShapes
      <3>3. PICK notes : notes = rnPage.notes
        OBVIOUS
      <3>4. \A n : (n \in notes) # (n \in rnStored') => \E d \in rnCalls' : Missed(d, n, notes)
        BY <2>5, <3>2, <3>3
      <3> QED
        BY <1>0, <3>3, <3>4 DEF Agree
    <2> QED
      BY <2>3, <2>6, <2>7, <2>8, <2>9 DEF RnIInv
  <1>2. CASE RnServeDelete(c)
    <2>1. PICK e : e = [c EXCEPT !.done = TRUE]
      OBVIOUS
    <2>2. /\ DOMAIN e = RnFields /\ e.kind = "delete" /\ e.done = TRUE /\ e.stale \in BOOLEAN /\ e.note = c.note
          /\ c.kind = "delete" /\ c.note \in Nat /\ c.note < rnNext
      BY <1>0, <1>2, <2>1 DEF RnCallOf, RnFields, RnServeDelete
    <2>3. /\ rnStored' = rnStored \ {c.note} /\ UNCHANGED rnNext /\ rnCalls' = (rnCalls \ {c}) \cup {e}
      BY <1>2, <2>1 DEF RnServeDelete
    <2>5. ASSUME NEW notes, Agree(notes)
          PROVE  \A n : (n \in notes) # (n \in rnStored') => \E d \in rnCalls' : Missed(d, n, notes)
      <3> SUFFICES ASSUME NEW n, (n \in notes) # (n \in rnStored') PROVE \E d \in rnCalls' : Missed(d, n, notes)
        OBVIOUS
      <3>1. CASE n = c.note
        BY <2>2, <2>3, <3>1 DEF Missed
      <3>2. CASE n # c.note
        <4>1. PICK d \in rnCalls : Missed(d, n, notes)
          BY <2>3, <2>5, <3>2 DEF Agree
        <4>2. d # c
          BY <1>0, <4>1 DEF Missed
        <4> QED
          BY <2>3, <4>1, <4>2
      <3> QED
        BY <3>1, <3>2
    <2>6. ASSUME NEW d \in rnCalls PROVE RnCallOf(d)'
      <3>1. RnCallOf(d)
        BY <2>6 DEF RnIInv
      <3>2. ASSUME d.kind = "list", d.done, ~ d.stale PROVE Agree(d.got)'
        <4>1. Agree(d.got)
          BY <3>1, <3>2 DEF RnCallOf
        <4> QED
          BY <2>5, <4>1 DEF Agree
      <3> QED
        BY <2>3, <3>1, <3>2 DEF RnCallOf, Known
    <2>7. RnCallOf(e)'
      BY <2>2, <2>3 DEF RnCallOf
    <2>8. RnShapes'
      BY <1>0, <2>3 DEF RnShapes, RnIInv, Known
    <2>9. RnShown'
      <3>1. SUFFICES ASSUME \A d \in rnCalls' : d.kind # "list", ~ rnSpoilt PROVE Agree(rnPage.notes)'
        BY <1>0 DEF RnShown
      <3>2. Agree(rnPage.notes)
        BY <2>2, <2>3, <3>1 DEF RnIInv, RnShown
      <3>3. PICK notes : notes = rnPage.notes
        OBVIOUS
      <3>4. \A n : (n \in notes) # (n \in rnStored') => \E d \in rnCalls' : Missed(d, n, notes)
        BY <2>5, <3>2, <3>3
      <3> QED
        BY <1>0, <3>3, <3>4 DEF Agree
    <2> QED
      BY <2>3, <2>6, <2>7, <2>8, <2>9 DEF RnIInv
  <1>3. CASE RnServeList(c)
    <2>1. PICK e : e = [c EXCEPT !.done = TRUE, !.got = rnStored]
      OBVIOUS
    <2>2. /\ DOMAIN e = RnFields /\ e.kind = "list" /\ e.done = TRUE /\ e.stale \in BOOLEAN /\ e.got = rnStored
          /\ c.kind = "list"
      BY <1>0, <1>3, <2>1 DEF RnCallOf, RnFields, RnServeList
    <2>3. /\ UNCHANGED <<rnStored, rnNext>> /\ rnCalls' = (rnCalls \ {c}) \cup {e}
      BY <1>3, <2>1 DEF RnServeList
    <2>4. \A d \in rnCalls : d.done /\ d.kind # "list" => d \in rnCalls'
      BY <2>2, <2>3
    <2>5. ASSUME NEW d \in rnCalls PROVE RnCallOf(d)'
      <3>1. RnCallOf(d)
        BY <2>5 DEF RnIInv
      <3>2. ASSUME d.kind = "list", d.done, ~ d.stale PROVE Agree(d.got)'
        <4>1. Agree(d.got)
          BY <3>1, <3>2 DEF RnCallOf
        <4> QED
          BY <2>3, <2>4, <4>1, AgreeKept DEF Agree
      <3> QED
        BY <2>3, <3>1, <3>2, CallKept
    <2>6. RnCallOf(e)'
      <3>1. Agree(e.got)'
        BY <2>2, <2>3 DEF Agree
      <3> QED
        BY <2>2, <2>3, <3>1 DEF RnCallOf, RnIInv, RnShapes, Known
    <2>7. RnShapes' /\ RnShown'
      BY <1>0, <2>2, <2>3 DEF RnShapes, RnIInv, Known, RnShown
    <2> QED
      BY <2>3, <2>5, <2>6, <2>7 DEF RnIInv
  <1> QED
    BY <1>1, <1>2, <1>3 DEF RnServe

LEMMA RnUserStep ==
  ASSUME RnIInv, RnUser
  PROVE  RnIInv'
  <1>0. /\ UNCHANGED <<rnStored, rnNext, rnSpoilt>> /\ RnShapes
    BY DEF RnUser, RnIInv
  <1>1. ASSUME NEW sent, rnCalls' = rnCalls \cup sent,
               \A d \in sent : RnCallOf(d) /\ ~ d.done,
               rnPage'.notes = rnPage.notes, DOMAIN rnPage' = {"notes", "typed", "sending", "loading"}
        PROVE  RnIInv'
    <2>1. \A d \in rnCalls : d.done /\ d.kind # "list" => d \in rnCalls'
      BY <1>1
    <2>2. ASSUME NEW d \in rnCalls' PROVE RnCallOf(d)'
      <3>1. RnCallOf(d)
        BY <1>1, <2>2 DEF RnIInv
      <3>2. ASSUME d.kind = "list", d.done, ~ d.stale PROVE Agree(d.got)'
        <4>1. Agree(d.got)
          BY <3>1, <3>2 DEF RnCallOf
        <4> QED
          BY <1>0, <2>1, <4>1, AgreeKept DEF Agree
      <3> QED
        BY <1>0, <3>1, <3>2, CallKept
    <2>3. RnShapes'
      BY <1>0, <1>1 DEF RnShapes, Known
    <2>4. RnShown'
      <3>1. SUFFICES ASSUME \A d \in rnCalls' : d.kind # "list", ~ rnSpoilt PROVE Agree(rnPage.notes)'
        BY <1>0 DEF RnShown
      <3>2. Agree(rnPage.notes)
        BY <1>1, <3>1 DEF RnIInv, RnShown
      <3>3. PICK notes : notes = rnPage.notes
        OBVIOUS
      <3>4. \A n : (n \in notes) # (n \in rnStored') => \E d \in rnCalls' : Missed(d, n, notes)
        BY <1>0, <2>1, <3>2, <3>3, AgreeKept
      <3> QED
        BY <1>1, <3>3, <3>4 DEF Agree
    <2> QED
      BY <2>2, <2>3, <2>4 DEF RnIInv
  <1>2. CASE RnType
    <2>1. PICK sent : sent = {}
      OBVIOUS
    <2>2. /\ rnCalls' = rnCalls \cup sent /\ rnPage'.notes = rnPage.notes
          /\ DOMAIN rnPage' = {"notes", "typed", "sending", "loading"}
      BY <1>0, <1>2, <2>1 DEF RnType, RnShapes
    <2> QED
      BY <1>1, <2>1, <2>2
  <1>3. CASE RnSubmit
    <2>1. PICK d : d = RnCall("create", 0)
      OBVIOUS
    <2>2. DOMAIN d = RnFields /\ d.kind = "create" /\ d.done = FALSE /\ d.stale = FALSE
      BY <2>1 DEF RnCall, RnFields
    <2>3. RnCallOf(d) /\ ~ d.done
      BY <2>2 DEF RnCallOf
    <2>4. PICK sent : sent = {d}
      OBVIOUS
    <2>5. /\ rnCalls' = rnCalls \cup sent /\ rnPage'.notes = rnPage.notes
          /\ DOMAIN rnPage' = {"notes", "typed", "sending", "loading"}
      BY <1>0, <1>3, <2>1, <2>4 DEF RnSubmit, RnShapes
    <2> QED
      BY <1>1, <2>3, <2>4, <2>5
  <1>4. CASE RnDelete
    <2>1. PICK n \in rnPage.notes : rnCalls' = rnCalls \cup {RnCall("delete", n)}
      BY <1>4 DEF RnDelete
    <2>2. PICK d : d = RnCall("delete", n)
      OBVIOUS
    <2>3. DOMAIN d = RnFields /\ d.kind = "delete" /\ d.done = FALSE /\ d.stale = FALSE /\ d.note = n
      BY <2>2 DEF RnCall, RnFields
    <2>4. n \in Nat /\ n < rnNext
      BY <1>0, <2>1 DEF RnShapes, Known
    <2>5. RnCallOf(d) /\ ~ d.done
      BY <2>3, <2>4 DEF RnCallOf
    <2>6. PICK sent : sent = {d}
      OBVIOUS
    <2>7. /\ rnCalls' = rnCalls \cup sent /\ rnPage'.notes = rnPage.notes
          /\ DOMAIN rnPage' = {"notes", "typed", "sending", "loading"}
      BY <1>0, <1>4, <2>1, <2>2, <2>6 DEF RnDelete, RnShapes
    <2> QED
      BY <1>1, <2>5, <2>6, <2>7
  <1> QED
    BY <1>2, <1>3, <1>4 DEF RnUser

(* A change is answered, or its answer is lost: lists without it are stale. *)
LEMMA OutdatedCalls ==
  ASSUME RnIInv, NEW c \in rnCalls, c.done, c.kind # "list", UNCHANGED <<rnStored, rnNext>>,
         RnOutdated(rnCalls \ {c}, c) \subseteq rnCalls',
         NEW e \in RnOutdated(rnCalls \ {c}, c)
  PROVE  RnCallOf(e)' /\ (e.kind = "list" => \E d \in rnCalls : d.kind = "list")
  <1>1. PICK d \in rnCalls \ {c} :
           e = IF d.kind = "list" /\ d.done /\ (c.note \in d.got) = (c.kind = "delete") THEN [d EXCEPT !.stale = TRUE] ELSE d
    BY DEF RnOutdated
  <1>2. RnCallOf(d) /\ RnCallOf(c)
    BY <1>1 DEF RnIInv
  <1>3. \A other \in rnCalls \ {c} : other.done /\ other.kind # "list" => other \in rnCalls'
    BY DEF RnOutdated
  <1>4. CASE d.kind = "list" /\ d.done /\ (c.note \in d.got) = (c.kind = "delete")
    <2>1. DOMAIN e = RnFields /\ e.kind = "list" /\ e.done = d.done /\ e.stale = TRUE /\ e.got = d.got
      BY <1>1, <1>2, <1>4 DEF RnCallOf, RnFields
    <2> QED
      BY <1>1, <1>2, <1>4, <2>1 DEF RnCallOf, Known
  <1>5. CASE ~ (d.kind = "list" /\ d.done /\ (c.note \in d.got) = (c.kind = "delete"))
    <2>1. e = d
      BY <1>1, <1>5
    <2>2. ASSUME d.kind = "list", d.done, ~ d.stale PROVE Agree(d.got)'
      <3>1. Agree(d.got)
        BY <1>2, <2>2 DEF RnCallOf
      <3>2. ~ Missed(c, c.note, d.got)
        BY <1>2, <1>5, <2>2 DEF Missed, RnCallOf
      <3>3. PICK notes : notes = d.got
        OBVIOUS
      <3>4. \A n : (n \in notes) # (n \in rnStored') => \E other \in rnCalls' : Missed(other, n, notes)
        BY <1>3, <3>1, <3>2, <3>3, AgreeAnswered
      <3> QED
        BY <3>3, <3>4 DEF Agree
    <2> QED
      BY <1>1, <1>2, <2>1, <2>2, CallKept
  <1> QED
    BY <1>4, <1>5

(* Calls are over; what changes were made and are not answered is the same. *)
LEMMA FewerCalls ==
  ASSUME RnIInv, NEW c \in rnCalls, ~ c.done \/ c.kind = "list", rnCalls' = rnCalls \ {c},
         UNCHANGED <<rnStored, rnNext>>
  PROVE  /\ \A d \in rnCalls' : RnCallOf(d)'
         /\ \A notes : Agree(notes) => \A n : (n \in notes) # (n \in rnStored') => \E d \in rnCalls' : Missed(d, n, notes)
  <1>1. ASSUME NEW notes, Agree(notes)
        PROVE  \A n : (n \in notes) # (n \in rnStored') => \E d \in rnCalls' : Missed(d, n, notes)
    <2>1. \A d \in rnCalls : d.done /\ d.kind # "list" => d \in rnCalls'
      OBVIOUS
    <2> QED
      BY <1>1, <2>1, AgreeKept
  <1>2. ASSUME NEW d \in rnCalls' PROVE RnCallOf(d)'
    <2>1. RnCallOf(d)
      BY <1>2 DEF RnIInv
    <2>2. ASSUME d.kind = "list", d.done, ~ d.stale PROVE Agree(d.got)'
      <3>1. Agree(d.got)
        BY <2>1, <2>2 DEF RnCallOf
      <3> QED
        BY <1>1, <3>1 DEF Agree
    <2> QED
      BY <2>1, <2>2, CallKept
  <1> QED
    BY <1>1, <1>2

LEMMA RnAnswerStep ==
  ASSUME RnIInv, NEW c \in rnCalls, RnAnswer(c)
  PROVE  RnIInv'
  <1>0. /\ RnCallOf(c) /\ RnShapes /\ UNCHANGED <<rnStored, rnNext>>
        /\ DOMAIN rnPage = {"notes", "typed", "sending", "loading"}
    BY DEF RnIInv, RnAnswer, RnShapes
  <1>1. CASE c.done /\ RnCreated(c)
    <2>1. PICK e : e = RnList(c.note)
      OBVIOUS
    <2>2. DOMAIN e = RnFields /\ e.kind = "list" /\ e.done = FALSE /\ e.stale = FALSE
      BY <2>1 DEF RnList, RnCall, RnFields
    <2>3. /\ rnCalls' = RnOutdated(rnCalls \ {c}, c) \cup {e} /\ rnPage' = [rnPage EXCEPT !.typed = FALSE]
          /\ c.done /\ c.kind # "list" /\ UNCHANGED rnSpoilt
      BY <1>1, <2>1 DEF RnCreated
    <2>4. RnCallOf(e)'
      BY <2>2 DEF RnCallOf
    <2>5. \A d \in rnCalls' : RnCallOf(d)'
      BY <1>0, <2>3, <2>4, OutdatedCalls
    <2>6. RnShapes' /\ RnShown'
      BY <1>0, <2>2, <2>3 DEF RnShapes, RnShown, Known
    <2> QED
      BY <2>5, <2>6 DEF RnIInv
  <1>2. CASE c.done /\ RnDeleted(c)
    <2>1. /\ rnCalls' = RnOutdated(rnCalls \ {c}, c) /\ rnPage' = [rnPage EXCEPT !.notes = @ \ {c.note}]
          /\ c.done /\ c.kind = "delete" /\ UNCHANGED rnSpoilt
      BY <1>2 DEF RnDeleted
    <2>2. \A d \in rnCalls' : RnCallOf(d)'
      BY <1>0, <2>1, OutdatedCalls
    <2>3. rnPage'.notes = rnPage.notes \ {c.note} /\ DOMAIN rnPage' = {"notes", "typed", "sending", "loading"}
      BY <1>0, <2>1
    <2>4. RnShapes'
      BY <1>0, <2>1, <2>3 DEF RnShapes, Known
    <2>5. RnShown'
      <3>1. SUFFICES ASSUME \A d \in rnCalls' : d.kind # "list", ~ rnSpoilt PROVE Agree(rnPage.notes)'
        BY <2>1 DEF RnShown
      <3>2. ASSUME NEW d \in rnCalls, d.kind = "list" PROVE FALSE
        <4>1. PICK e \in RnOutdated(rnCalls \ {c}, c) :
                 e = IF d.kind = "list" /\ d.done /\ (c.note \in d.got) = (c.kind = "delete")
                     THEN [d EXCEPT !.stale = TRUE] ELSE d
          BY <2>1, <3>2 DEF RnOutdated
        <4>2. DOMAIN d = RnFields
          BY DEF RnIInv, RnCallOf
        <4>3. e.kind = "list"
          BY <3>2, <4>1, <4>2 DEF RnFields
        <4> QED
          BY <2>1, <3>1, <4>1, <4>3
      <3>3. Agree(rnPage.notes)
        BY <2>1, <3>1, <3>2 DEF RnIInv, RnShown
      <3>4. PICK notes : notes = rnPage.notes \ {c.note}
        OBVIOUS
      <3>5. ASSUME NEW n, (n \in notes) # (n \in rnStored') PROVE \E d \in rnCalls' : Missed(d, n, notes)
        <4>1. c.note \notin rnStored /\ n # c.note
          BY <1>0, <2>1, <3>4, <3>5 DEF RnCallOf
        <4>2. PICK d \in rnCalls : Missed(d, n, rnPage.notes)
          BY <1>0, <3>3, <3>4, <3>5, <4>1 DEF Agree
        <4>3. d # c /\ d.kind # "list" /\ Missed(d, n, notes)
          BY <3>4, <4>1, <4>2 DEF Missed
        <4>4. d \in rnCalls'
          BY <2>1, <4>3 DEF RnOutdated
        <4> QED
          BY <4>3, <4>4
      <3> QED
        BY <2>3, <3>4, <3>5 DEF Agree
    <2> QED
      BY <2>2, <2>4, <2>5 DEF RnIInv
  <1>3. CASE c.done /\ RnListed(c)
    <2>1. /\ rnCalls' = rnCalls \ {c} /\ c.done /\ c.kind = "list" /\ rnSpoilt' = c.stale
          /\ rnPage' = [rnPage EXCEPT !.notes = c.got, !.loading = FALSE, !.sending = @ /\ c.note = 0]
      BY <1>3 DEF RnListed
    <2>2. rnPage'.notes = c.got /\ DOMAIN rnPage' = {"notes", "typed", "sending", "loading"}
      BY <1>0, <2>1
    <2>3. \A d \in rnCalls' : RnCallOf(d)'
      BY <1>0, <2>1, FewerCalls
    <2>4. RnShapes'
      BY <1>0, <2>1, <2>2 DEF RnShapes, Known, RnCallOf
    <2>5. RnShown'
      <3>1. SUFFICES ASSUME ~ c.stale PROVE Agree(rnPage.notes)'
        BY <2>1 DEF RnShown
      <3>2. Agree(c.got)
        BY <1>0, <2>1, <3>1 DEF RnCallOf
      <3>3. PICK notes : notes = c.got
        OBVIOUS
      <3>4. \A n : (n \in notes) # (n \in rnStored') => \E d \in rnCalls' : Missed(d, n, notes)
        BY <1>0, <2>1, <3>2, <3>3, FewerCalls
      <3> QED
        BY <2>2, <3>3, <3>4 DEF Agree
    <2> QED
      BY <2>3, <2>4, <2>5 DEF RnIInv
  <1>4. CASE RnFails(c)
    <2>1. /\ rnSpoilt' = TRUE
          /\ rnCalls' = IF c.done /\ c.kind # "list" THEN RnOutdated(rnCalls \ {c}, c) ELSE rnCalls \ {c}
      BY <1>4 DEF RnFails
    <2>2. rnPage'.notes = rnPage.notes /\ DOMAIN rnPage' = {"notes", "typed", "sending", "loading"}
      BY <1>0, <1>4 DEF RnFails, RnCallOf
    <2>3. \A d \in rnCalls' : RnCallOf(d)'
      <3>1. CASE c.done /\ c.kind # "list"
        BY <1>0, <2>1, <3>1, OutdatedCalls
      <3>2. CASE ~ c.done \/ c.kind = "list"
        <4>1. rnCalls' = rnCalls \ {c}
          BY <2>1, <3>2
        <4> QED
          BY <1>0, <3>2, <4>1, FewerCalls
      <3> QED
        BY <1>0, <3>1, <3>2 DEF RnCallOf
    <2>4. RnShapes' /\ RnShown'
      BY <1>0, <2>1, <2>2 DEF RnShapes, Known, RnShown
    <2> QED
      BY <2>3, <2>4 DEF RnIInv
  <1> QED
    BY <1>1, <1>2, <1>3, <1>4 DEF RnAnswer

LEMMA RnStep == RnIInv /\ [RnNext]_rnVars => RnIInv'
  <1> SUFFICES ASSUME RnIInv, [RnNext]_rnVars PROVE RnIInv'
    OBVIOUS
  <1>1. CASE UNCHANGED rnVars
    BY <1>1 DEF rnVars, RnIInv, RnShapes, RnCallOf, Agree, Known, RnShown
  <1> QED
    BY <1>1, RnUserStep, RnServeStep, RnAnswerStep DEF RnNext, RnProgress

LEMMA RnTrue == RnIInv => RnShowsStored
  <1> SUFFICES ASSUME RnIInv, rnCalls = {}, ~ rnSpoilt PROVE rnPage.notes = rnStored
    BY DEF RnShowsStored
  <1>1. Agree(rnPage.notes)
    BY DEF RnIInv, RnShown
  <1>2. ASSUME NEW n PROVE n \in rnPage.notes <=> n \in rnStored
    BY <1>1 DEF Agree
  <1>3. rnPage.notes \subseteq rnStored /\ rnStored \subseteq rnPage.notes
    BY <1>2
  <1> QED
    BY <1>3


(***************************************************************************)
(* The page of a session                                                   *)
(***************************************************************************)

SeFields == {"kind", "n", "tests", "step", "runs", "summary", "missed"}

(* The runs as they were before: none of them that had ended has changed.  *)
Past(before, runs) ==
  /\ before \in Seq(SeRun) /\ runs \in Seq(SeRun) /\ Len(before) <= Len(runs)
  /\ \A i \in 1 .. Len(before) :
       /\ before[i].test = runs[i].test
       /\ before[i].status \in {"passed", "failed"} => before[i].status = runs[i].status

(* A summary of the runs as they were after they were read.                *)
SumsUp(runs, summary) == \E after : summary = SeSummary(after) /\ Past(runs, after) /\ Past(after, seRuns)

SeCallOf(c) ==
  /\ DOMAIN c = SeFields /\ c.tests \subseteq SeTests
  /\ c.kind = "start" => c.step \in {"sent", "failed"}
  /\ c.kind = "load" /\ c.step # "sent" => Past(c.runs, seRuns) /\ (~ c.missed => Len(c.runs) = Len(seRuns))
  /\ c.kind = "load" /\ c.step = "done" => SumsUp(c.runs, c.summary)

PanelOf(panel) == panel # None => DOMAIN panel = {"n", "selected", "running"} /\ panel.selected \subseteq SeTests

SeShapes ==
  /\ seRuns \in Seq(SeRun) /\ DOMAIN sePage = {"shown", "loading", "error", "panel", "mounts"}
  /\ PanelOf(sePage.panel)

SeShown == sePage.shown # None => Past(sePage.shown.runs, seRuns) /\ SumsUp(sePage.shown.runs, sePage.shown.summary)

(* What will load the page again.                                          *)
Reloads(c) == (c.kind = "start" /\ c.step = "sent") \/ c.kind \in {"ran", "reload", "load"}

(* Without such a call the page knows every run, or else that one is       *)
(* missing is known.                                                       *)
SeKnows ==
  sePage.shown # None /\ ~ seMissed /\ (\A c \in seCalls : ~ Reloads(c)) => Len(sePage.shown.runs) = Len(seRuns)

SeIInv == SeShapes /\ (\A c \in seCalls : SeCallOf(c)) /\ SeShown /\ SeKnows

-----------------------------------------------------------------------------

(* A request that has just been made.                                      *)
LEMMA NewCall ==
  ASSUME NEW kind, NEW n, NEW tests \in SUBSET SeTests, NEW c, c = SeCall(kind, n, tests)
  PROVE  SeCallOf(c) /\ SeCallOf(c)'
  <1>0. DOMAIN c = SeFields /\ c.kind = kind /\ c.tests = tests /\ c.step = "sent"
    BY DEF SeCall, SeFields
  <1>1. DOMAIN c = SeFields /\ c.tests \subseteq SeTests /\ c.step = "sent"
    BY <1>0
  <1>2. c.step \in {"sent", "failed"} /\ c.step # "done"
    BY <1>1
  <1> QED
    BY <1>1, <1>2 DEF SeCallOf

LEMMA PastItself ==
  ASSUME NEW runs \in Seq(SeRun)
  PROVE  Past(runs, runs)
  <1>1. Len(runs) \in Nat
    BY LenProperties
  <1> QED
    BY <1>1 DEF Past

LEMMA PastOfPast ==
  ASSUME NEW r, NEW s, NEW t, Past(r, s), Past(s, t)
  PROVE  Past(r, t)
  <1>1. Len(r) \in Nat /\ Len(s) \in Nat /\ Len(t) \in Nat
    BY LenProperties DEF Past
  <1>2. Len(r) <= Len(t) /\ 1 .. Len(r) \subseteq 1 .. Len(s)
    BY <1>1 DEF Past
  <1> QED
    BY <1>2 DEF Past

LEMMA SeInitIInv == SeInit => SeIInv
  <1> SUFFICES ASSUME SeInit PROVE SeIInv
    OBVIOUS
  <1>1. seRuns \in Seq(SeRun)
    BY SeAssumption DEF SeInit
  <1>2. PICK c : c = SeCall("load", 0, {})
    OBVIOUS
  <1>3. seCalls = {c} /\ SeCallOf(c)
    BY <1>2, NewCall DEF SeInit
  <1>4. /\ DOMAIN sePage = {"shown", "loading", "error", "panel", "mounts"}
        /\ sePage.shown = None /\ sePage.panel = None
    BY DEF SeInit
  <1> QED
    BY <1>1, <1>3, <1>4 DEF SeIInv, SeShapes, SeShown, SeKnows, PanelOf

(* What is stored stays.                                                   *)
LEMMA SameCall ==
  ASSUME NEW c, SeCallOf(c), UNCHANGED seRuns
  PROVE  SeCallOf(c)'
  BY DEF SeCallOf, SumsUp

(* Runs are stored or go on: what a call has read is still their past.     *)
LEMMA LaterCall ==
  ASSUME NEW c, SeCallOf(c), Past(seRuns, seRuns'), Len(seRuns') = Len(seRuns) \/ c.kind # "load" \/ c.step = "sent"
  PROVE  SeCallOf(c)'
  <1>1. ASSUME c.kind = "load", c.step # "sent" PROVE Past(c.runs, seRuns')
    BY <1>1, PastOfPast DEF SeCallOf
  <1>2. ASSUME c.kind = "load", c.step = "done" PROVE SumsUp(c.runs, c.summary)'
    <2>1. PICK after : c.summary = SeSummary(after) /\ Past(c.runs, after) /\ Past(after, seRuns)
      BY <1>2 DEF SeCallOf, SumsUp
    <2>2. Past(after, seRuns')
      BY <2>1, PastOfPast
    <2> QED
      BY <2>1, <2>2 DEF SumsUp
  <1> QED
    BY <1>1, <1>2 DEF SeCallOf

LEMMA LaterShown ==
  ASSUME SeShown, Past(seRuns, seRuns'), UNCHANGED sePage
  PROVE  SeShown'
  <1> SUFFICES ASSUME sePage.shown # None
               PROVE  Past(sePage.shown.runs, seRuns') /\ SumsUp(sePage.shown.runs, sePage.shown.summary)'
    BY DEF SeShown
  <1>1. PICK runs, summary : runs = sePage.shown.runs /\ summary = sePage.shown.summary
    OBVIOUS
  <1>2. Past(runs, seRuns')
    BY <1>1, PastOfPast DEF SeShown
  <1>3. PICK after : summary = SeSummary(after) /\ Past(runs, after) /\ Past(after, seRuns)
    BY <1>1 DEF SeShown, SumsUp
  <1>4. Past(after, seRuns')
    BY <1>3, PastOfPast
  <1> QED
    BY <1>1, <1>2, <1>3, <1>4 DEF SumsUp

LEMMA SameShown ==
  ASSUME SeShown, UNCHANGED seRuns, sePage'.shown = sePage.shown
  PROVE  SeShown'
  BY DEF SeShown, SumsUp

LEMMA SameKnows ==
  ASSUME SeKnows, UNCHANGED seRuns, sePage'.shown = sePage.shown, seMissed => seMissed',
         (\E c \in seCalls : Reloads(c)) => \E c \in seCalls' : Reloads(c)
  PROVE  SeKnows'
  BY DEF SeKnows

-----------------------------------------------------------------------------

LEMMA SeServeStep ==
  ASSUME SeIInv, NEW c \in seCalls, SeServe(c)
  PROVE  SeIInv'
  <1>0. SeCallOf(c) /\ UNCHANGED sePage /\ seRuns \in Seq(SeRun)
    BY DEF SeIInv, SeServe, SeShapes
  <1>1. CASE SeServeLoad(c)
    <2>1. c.kind = "load" /\ UNCHANGED <<seRuns, seMissed>>
      BY <1>1 DEF SeServeLoad
    <2>2. PICK d : /\ seCalls' = (seCalls \ {c}) \cup {d} /\ d.kind = "load" /\ SeCallOf(d)
      <3>1. CASE c.step = "sent" /\ seCalls' = (seCalls \ {c}) \cup {[c EXCEPT !.step = "read", !.runs = seRuns]}
        <4>1. PICK d : d = [c EXCEPT !.step = "read", !.runs = seRuns]
          OBVIOUS
        <4>2. /\ DOMAIN d = SeFields /\ d.tests = c.tests /\ d.kind = "load" /\ d.step = "read" /\ d.runs = seRuns
          BY <1>0, <2>1, <4>1 DEF SeCallOf, SeFields
        <4>3. SeCallOf(d)
          BY <1>0, <4>2, PastItself DEF SeCallOf
        <4> QED
          BY <3>1, <4>1, <4>2, <4>3
      <3>2. CASE c.step = "read" /\ seCalls' = (seCalls \ {c}) \cup {[c EXCEPT !.step = "done", !.summary = SeSummary(seRuns)]}
        <4>1. PICK summary : summary = SeSummary(seRuns)
          OBVIOUS
        <4>2. PICK d : d = [c EXCEPT !.step = "done", !.summary = summary]
          OBVIOUS
        <4>3. /\ DOMAIN d = SeFields /\ d.tests = c.tests /\ d.kind = "load" /\ d.step = "done" /\ d.runs = c.runs
              /\ d.summary = summary /\ d.missed = c.missed
          BY <1>0, <2>1, <4>2 DEF SeCallOf, SeFields
        <4>4. Past(c.runs, seRuns) /\ (~ c.missed => Len(c.runs) = Len(seRuns))
          BY <1>0, <2>1, <3>2 DEF SeCallOf
        <4>5. SumsUp(d.runs, d.summary)
          BY <1>0, <4>1, <4>3, <4>4, PastItself DEF SumsUp
        <4>6. SeCallOf(d)
          BY <1>0, <4>3, <4>4, <4>5 DEF SeCallOf
        <4> QED
          BY <3>2, <4>1, <4>2, <4>3, <4>6
      <3> QED
        BY <1>1, <3>1, <3>2 DEF SeServeLoad
    <2>3. \A e \in seCalls' : SeCallOf(e)'
      BY <2>1, <2>2, SameCall DEF SeIInv
    <2>4. SeKnows'
      BY <2>2 DEF SeKnows, Reloads
    <2>5. SeShapes' /\ SeShown'
      BY <1>0, <2>1, SameShown DEF SeIInv, SeShapes
    <2> QED
      BY <2>3, <2>4, <2>5 DEF SeIInv
  <1>2. CASE SeServeStart(c)
    <2>1. PICK t \in c.tests :
            /\ seRuns' = Append(seRuns, [test |-> t, status |-> "pending"])
            /\ seCalls' = { IF d.kind = "load" /\ d.step # "sent" THEN [d EXCEPT !.missed = TRUE] ELSE d :
                            d \in seCalls \ {c} } \cup {[c EXCEPT !.tests = @ \ {t}]}
      BY <1>2 DEF SeServeStart
    <2>2. c.kind = "start" /\ seMissed' = (seMissed \/ c.step = "failed") /\ c.step \in {"sent", "failed"}
      BY <1>0, <1>2 DEF SeServeStart, SeCallOf
    <2>3. PICK run : run = [test |-> t, status |-> "pending"]
      OBVIOUS
    <2>4. run \in SeRun
      BY <1>0, <2>1, <2>3 DEF SeRun, SeCallOf
    <2>5. PICK runs : runs = Append(seRuns, run)
      OBVIOUS
    <2>6. /\ runs \in Seq(SeRun) /\ Len(runs) = Len(seRuns) + 1 /\ Len(seRuns) \in Nat
          /\ \A i \in 1 .. Len(seRuns) : runs[i] = seRuns[i]
      BY <1>0, <2>4, <2>5, AppendProperties, LenProperties
    <2>7. seRuns' = runs /\ Past(seRuns, runs)
      BY <1>0, <2>1, <2>3, <2>5, <2>6 DEF Past
    <2>8. PICK e : e = [c EXCEPT !.tests = @ \ {t}]
      OBVIOUS
    <2>9. /\ DOMAIN e = SeFields /\ e.kind = "start" /\ e.tests = c.tests \ {t} /\ e.step = c.step
      BY <1>0, <2>2, <2>8 DEF SeCallOf, SeFields
    <2>10. SeCallOf(e)'
      BY <1>0, <2>2, <2>9 DEF SeCallOf
    <2>11. ASSUME NEW d \in seCalls
           PROVE  SeCallOf(IF d.kind = "load" /\ d.step # "sent" THEN [d EXCEPT !.missed = TRUE] ELSE d)'
      <3>1. SeCallOf(d)
        BY <2>11 DEF SeIInv
      <3>2. CASE d.kind = "load" /\ d.step # "sent"
        <4>1. PICK f : f = [d EXCEPT !.missed = TRUE]
          OBVIOUS
        <4>2. PICK g : g = [d EXCEPT !.missed = TRUE]
          OBVIOUS
        <4>3. /\ DOMAIN f = SeFields /\ f.kind = "load" /\ f.step = d.step /\ f.tests = d.tests /\ f.runs = d.runs
              /\ f.summary = d.summary /\ f.missed = TRUE
          BY <3>1, <3>2, <4>1 DEF SeCallOf, SeFields
        <4>4. Past(d.runs, seRuns')
          BY <2>7, <3>1, <3>2, PastOfPast DEF SeCallOf
        <4>5. ASSUME d.step = "done" PROVE SumsUp(d.runs, d.summary)'
          <5>1. PICK after : d.summary = SeSummary(after) /\ Past(d.runs, after) /\ Past(after, seRuns)
            BY <3>1, <3>2, <4>5 DEF SeCallOf, SumsUp
          <5>2. Past(after, seRuns')
            BY <2>7, <5>1, PastOfPast
          <5> QED
            BY <5>1, <5>2 DEF SumsUp
        <4>6. SeCallOf(f)'
          BY <3>1, <4>3, <4>4, <4>5 DEF SeCallOf
        <4> QED
          BY <3>2, <4>1, <4>6
      <3>3. CASE ~ (d.kind = "load" /\ d.step # "sent")
        <4>1. SeCallOf(d)'
          BY <2>7, <3>1, <3>3, LaterCall
        <4> QED
          BY <3>3, <4>1
      <3> QED
        BY <3>2, <3>3
    <2>12. \A d \in seCalls' : SeCallOf(d)'
      BY <2>1, <2>8, <2>10, <2>11
    <2>13. SeShapes' /\ SeShown'
      BY <1>0, <2>6, <2>7, LaterShown DEF SeIInv, SeShapes
    <2>14. SeKnows'
      <3>1. CASE c.step = "failed"
        BY <2>2, <3>1 DEF SeKnows
      <3>2. CASE c.step = "sent"
        <4>1. e \in seCalls' /\ Reloads(e)
          BY <2>1, <2>8, <2>9, <3>2 DEF Reloads
        <4> QED
          BY <4>1 DEF SeKnows
      <3> QED
        BY <2>2, <3>1, <3>2
    <2> QED
      BY <2>12, <2>13, <2>14 DEF SeIInv
  <1> QED
    BY <1>1, <1>2 DEF SeServe

LEMMA SeRunStep ==
  ASSUME SeIInv, SeRunGoesOn
  PROVE  SeIInv'
  <1>0. seRuns \in Seq(SeRun) /\ UNCHANGED <<sePage, seCalls, seMissed>> /\ Len(seRuns) \in Nat
    BY LenProperties DEF SeIInv, SeShapes, SeRunGoesOn
  <1>1. PICK i \in DOMAIN seRuns, status \in {"running", "passed", "failed"} :
          seRuns[i].status \in {"pending", "running"} /\ seRuns' = [seRuns EXCEPT ![i].status = status]
    <2>1. PICK i \in DOMAIN seRuns :
            \/ seRuns[i].status = "pending" /\ seRuns' = [seRuns EXCEPT ![i].status = "running"]
            \/ seRuns[i].status = "running" /\ seRuns' = [seRuns EXCEPT ![i].status = SeEnds[seRuns[i].test]]
      BY DEF SeRunGoesOn
    <2>2. i \in 1 .. Len(seRuns)
      BY <1>0, <2>1, LenProperties
    <2>3. seRuns[i].test \in SeTests
      <3>1. seRuns[i] \in SeRun
        BY <1>0, <2>2, ElementOfSeq
      <3> QED
        BY <3>1 DEF SeRun
    <2>4. PICK ends : ends = SeEnds[seRuns[i].test]
      OBVIOUS
    <2>5. ends \in {"passed", "failed"}
      BY <2>3, <2>4, SeAssumption
    <2>6. CASE seRuns[i].status = "pending" /\ seRuns' = [seRuns EXCEPT ![i].status = "running"]
      BY <2>1, <2>6
    <2>7. CASE seRuns[i].status = "running" /\ seRuns' = [seRuns EXCEPT ![i].status = SeEnds[seRuns[i].test]]
      <3>1. seRuns' = [seRuns EXCEPT ![i].status = ends]
        BY <2>4, <2>7
      <3>2. ends \in {"running", "passed", "failed"} /\ seRuns[i].status \in {"pending", "running"}
        BY <2>5, <2>7
      <3> QED
        BY <2>1, <3>1, <3>2
    <2> QED
      BY <2>1, <2>6, <2>7
  <1>2. i \in 1 .. Len(seRuns)
    BY <1>0, <1>1, LenProperties
  <1>3. seRuns[i] \in SeRun
    BY <1>0, <1>2, ElementOfSeq
  <1>4. PICK run : run = [seRuns[i] EXCEPT !.status = status]
    OBVIOUS
  <1>5. run \in SeRun /\ run.test = seRuns[i].test
    BY <1>1, <1>3, <1>4 DEF SeRun
  <1>6. PICK runs : runs = [seRuns EXCEPT ![i] = run]
    OBVIOUS
  <1>7. runs \in Seq(SeRun) /\ Len(runs) = Len(seRuns) /\ \A j \in 1 .. Len(seRuns) : runs[j] = IF j = i THEN run ELSE seRuns[j]
    BY <1>0, <1>2, <1>5, <1>6, ExceptSeq
  <1>8. seRuns' = runs
    BY <1>1, <1>4, <1>6
  <1>9. Past(seRuns, runs)
    <2>1. ASSUME NEW j \in 1 .. Len(seRuns)
          PROVE  /\ seRuns[j].test = runs[j].test
                 /\ seRuns[j].status \in {"passed", "failed"} => seRuns[j].status = runs[j].status
      <3>1. CASE j = i
        BY <1>1, <1>5, <1>7, <3>1
      <3>2. CASE j # i
        BY <1>7, <3>2
      <3> QED
        BY <3>1, <3>2
    <2> QED
      BY <1>0, <1>7, <2>1 DEF Past
  <1>10. \A c \in seCalls' : SeCallOf(c)'
    BY <1>0, <1>7, <1>8, <1>9, LaterCall DEF SeIInv
  <1>11. SeShown' /\ SeShapes' /\ SeKnows'
    BY <1>0, <1>7, <1>8, <1>9, LaterShown DEF SeIInv, SeShapes, SeKnows
  <1> QED
    BY <1>10, <1>11 DEF SeIInv

-----------------------------------------------------------------------------

(* Only the page and its calls change.                                     *)
LEMMA SePageStep ==
  ASSUME SeIInv, UNCHANGED <<seRuns, seMissed>>, sePage'.shown = sePage.shown,
         DOMAIN sePage' = {"shown", "loading", "error", "panel", "mounts"}, PanelOf(sePage'.panel),
         \A c \in seCalls' : SeCallOf(c),
         (\E c \in seCalls : Reloads(c)) => \E c \in seCalls' : Reloads(c)
  PROVE  SeIInv'
  <1>1. \A c \in seCalls' : SeCallOf(c)'
    BY SameCall
  <1>2. SeShown' /\ SeKnows'
    BY SameShown, SameKnows DEF SeIInv
  <1> QED
    BY <1>1, <1>2 DEF SeIInv, SeShapes

LEMMA PanelIs ==
  ASSUME NEW n
  PROVE  PanelOf(SePanel(n))
  BY DEF PanelOf, SePanel

LEMMA PanelStops ==
  ASSUME NEW panel, PanelOf(panel), panel # None
  PROVE  PanelOf([panel EXCEPT !.running = FALSE])
  BY DEF PanelOf

(* A load replaces a call that it makes up for, or none.                   *)
LEMMA SeLoadStep ==
  ASSUME SeIInv, NEW n, NEW calls \in SUBSET seCalls, SeLoad(sePage, calls, n), UNCHANGED <<seRuns, seMissed>>
  PROVE  SeIInv'
  <1>0. DOMAIN sePage = {"shown", "loading", "error", "panel", "mounts"} /\ PanelOf(sePage.panel)
    BY DEF SeIInv, SeShapes
  <1>1. PICK panel, mounts :
          /\ panel = IF sePage.error /\ sePage.panel # None THEN SePanel(sePage.mounts + 1) ELSE sePage.panel
          /\ mounts = IF sePage.error /\ sePage.panel # None THEN sePage.mounts + 1 ELSE sePage.mounts
    OBVIOUS
  <1>2. sePage' = [sePage EXCEPT !.loading = TRUE, !.error = FALSE, !.panel = panel, !.mounts = mounts]
    BY <1>1 DEF SeLoad
  <1>3. /\ DOMAIN sePage' = {"shown", "loading", "error", "panel", "mounts"}
        /\ sePage'.shown = sePage.shown /\ sePage'.panel = panel
    BY <1>0, <1>2
  <1>4. PanelOf(panel)
    BY <1>0, <1>1, PanelIs
  <1>5. PICK c : c = SeCall("load", n, {})
    OBVIOUS
  <1>6. SeCallOf(c) /\ Reloads(c) /\ seCalls' = calls \cup {c}
    <2>1. SeCallOf(c)
      BY <1>5, NewCall
    <2>2. c.kind = "load"
      BY <1>5 DEF SeCall
    <2> QED
      BY <1>5, <2>1, <2>2 DEF Reloads, SeLoad
  <1>7. \A d \in seCalls' : SeCallOf(d)
    BY <1>6 DEF SeIInv
  <1> QED
    BY <1>3, <1>4, <1>6, <1>7, SePageStep

LEMMA SeTickStep ==
  ASSUME SeIInv, SeTick
  PROVE  SeIInv'
  <1>1. PICK n : SeLoad(sePage, seCalls, n) /\ UNCHANGED <<seRuns, seMissed>>
    BY DEF SeTick
  <1> QED
    BY <1>1, SeLoadStep

LEMMA SeUserStep ==
  ASSUME SeIInv, SeUser
  PROVE  SeIInv'
  <1>0. /\ UNCHANGED <<seRuns, seMissed>> /\ DOMAIN sePage = {"shown", "loading", "error", "panel", "mounts"}
        /\ PanelOf(sePage.panel) /\ \A c \in seCalls : SeCallOf(c)
    BY DEF SeIInv, SeShapes, SeUser
  <1>1. CASE SeRefresh
    <2>1. PICK n : SeLoad(sePage, seCalls, n)
      BY <1>1 DEF SeRefresh
    <2> QED
      BY <1>0, <2>1, SeLoadStep
  <1>2. CASE SeToggle /\ UNCHANGED seCalls
    <2>1. CASE sePage.panel = None
      <3>1. PICK panel, mounts : panel = SePanel(sePage.mounts + 1) /\ mounts = sePage.mounts + 1
        OBVIOUS
      <3>2. sePage' = [sePage EXCEPT !.panel = panel, !.mounts = mounts]
        BY <1>2, <2>1, <3>1 DEF SeToggle
      <3>3. /\ DOMAIN sePage' = {"shown", "loading", "error", "panel", "mounts"}
            /\ sePage'.shown = sePage.shown /\ sePage'.panel = panel
        BY <1>0, <3>2
      <3>4. PanelOf(panel)
        BY <3>1, PanelIs
      <3> QED
        BY <1>0, <1>2, <3>3, <3>4, SePageStep
    <2>2. CASE sePage.panel # None
      <3>1. sePage' = [sePage EXCEPT !.panel = None]
        BY <1>2, <2>2 DEF SeToggle
      <3>2. /\ DOMAIN sePage' = {"shown", "loading", "error", "panel", "mounts"}
            /\ sePage'.shown = sePage.shown /\ sePage'.panel = None
        BY <1>0, <3>1
      <3>3. PanelOf(sePage'.panel)
        BY <3>2 DEF PanelOf
      <3> QED
        BY <1>0, <1>2, <3>2, <3>3, SePageStep
    <2> QED
      BY <2>1, <2>2
  <1>3. CASE (SeSelect \/ SeSelectAll) /\ UNCHANGED seCalls
    <2>1. sePage.panel # None /\ DOMAIN sePage.panel = {"n", "selected", "running"} /\ sePage.panel.selected \subseteq SeTests
      BY <1>0, <1>3 DEF SeSelect, SeSelectAll, SePanelOffered, PanelOf
    <2>2. PICK tests \in SUBSET SeTests : sePage' = [sePage EXCEPT !.panel.selected = tests]
      <3>1. CASE SeSelect
        <4>1. PICK t \in SeTests :
                sePage' = [sePage EXCEPT !.panel.selected = IF t \in @ THEN @ \ {t} ELSE @ \cup {t}]
          BY <3>1 DEF SeSelect
        <4>2. PICK tests : tests = IF t \in sePage.panel.selected THEN sePage.panel.selected \ {t}
                                   ELSE sePage.panel.selected \cup {t}
          OBVIOUS
        <4>3. tests \in SUBSET SeTests
          BY <2>1, <4>1, <4>2
        <4>4. sePage' = [sePage EXCEPT !.panel.selected = tests]
          BY <4>1, <4>2
        <4> QED
          BY <4>3, <4>4
      <3>2. CASE SeSelectAll
        <4>1. PICK found \in SUBSET SeTests :
                sePage' = [sePage EXCEPT !.panel.selected = IF Cardinality(@) = Cardinality(found) THEN {} ELSE found]
          BY <3>2 DEF SeSelectAll
        <4>2. PICK tests : tests = IF Cardinality(sePage.panel.selected) = Cardinality(found) THEN {} ELSE found
          OBVIOUS
        <4>3. tests \in SUBSET SeTests
          BY <4>1, <4>2
        <4>4. sePage' = [sePage EXCEPT !.panel.selected = tests]
          BY <4>1, <4>2
        <4> QED
          BY <4>3, <4>4
      <3> QED
        BY <1>3, <3>1, <3>2
    <2>3. PICK panel : panel = [sePage.panel EXCEPT !.selected = tests]
      OBVIOUS
    <2>4. sePage' = [sePage EXCEPT !.panel = panel]
      BY <2>2, <2>3
    <2>5. /\ DOMAIN sePage' = {"shown", "loading", "error", "panel", "mounts"}
          /\ sePage'.shown = sePage.shown /\ sePage'.panel = panel
      BY <1>0, <2>4
    <2>6. PanelOf(panel)
      BY <2>1, <2>2, <2>3 DEF PanelOf
    <2> QED
      BY <1>0, <1>3, <2>5, <2>6, SePageStep
  <1>4. CASE SeStart
    <2>1. /\ sePage.panel # None /\ sePage' = [sePage EXCEPT !.panel.running = TRUE]
          /\ seCalls' = seCalls \cup {SeCall("start", sePage.panel.n, sePage.panel.selected)}
      BY <1>4 DEF SeStart, SePanelOffered
    <2>2. DOMAIN sePage.panel = {"n", "selected", "running"} /\ sePage.panel.selected \subseteq SeTests
      BY <1>0, <2>1 DEF PanelOf
    <2>3. PICK panel : panel = [sePage.panel EXCEPT !.running = TRUE]
      OBVIOUS
    <2>4. sePage' = [sePage EXCEPT !.panel = panel]
      BY <2>1, <2>3
    <2>5. /\ DOMAIN sePage' = {"shown", "loading", "error", "panel", "mounts"}
          /\ sePage'.shown = sePage.shown /\ sePage'.panel = panel
      BY <1>0, <2>4
    <2>6. PanelOf(panel)
      BY <2>2, <2>3 DEF PanelOf
    <2>7. PICK n, tests : n = sePage.panel.n /\ tests = sePage.panel.selected
      OBVIOUS
    <2>8. PICK c : c = SeCall("start", n, tests)
      OBVIOUS
    <2>9. SeCallOf(c) /\ seCalls' = seCalls \cup {c}
      BY <2>1, <2>2, <2>7, <2>8, NewCall
    <2>10. \A d \in seCalls' : SeCallOf(d)
      BY <1>0, <2>9
    <2> QED
      BY <1>0, <2>5, <2>6, <2>9, <2>10, SePageStep
  <1> QED
    BY <1>1, <1>2, <1>3, <1>4 DEF SeUser

LEMMA SeArriveStep ==
  ASSUME SeIInv, NEW c \in seCalls, SeArrive(c)
  PROVE  SeIInv'
  <1>0. /\ UNCHANGED seRuns /\ DOMAIN sePage = {"shown", "loading", "error", "panel", "mounts"}
        /\ PanelOf(sePage.panel) /\ SeCallOf(c) /\ \A d \in seCalls : SeCallOf(d)
    BY DEF SeIInv, SeShapes, SeArrive
  <1>1. CASE SeLoaded(c)
    <2>1. /\ c.kind = "load" /\ c.step = "done" /\ seCalls' = seCalls \ {c} /\ seMissed' = c.missed
          /\ sePage' = [sePage EXCEPT !.shown = [runs |-> c.runs, summary |-> c.summary], !.loading = FALSE]
      BY <1>1 DEF SeLoaded
    <2>2. /\ DOMAIN sePage' = {"shown", "loading", "error", "panel", "mounts"} /\ sePage'.panel = sePage.panel
          /\ sePage'.shown.runs = c.runs /\ sePage'.shown.summary = c.summary
      BY <1>0, <2>1
    <2>3. Past(c.runs, seRuns) /\ (~ c.missed => Len(c.runs) = Len(seRuns)) /\ SumsUp(c.runs, c.summary)
      BY <1>0, <2>1 DEF SeCallOf
    <2>4. SeShown'
      <3>1. PICK runs, summary : runs = c.runs /\ summary = c.summary
        OBVIOUS
      <3>2. SumsUp(runs, summary)'
        BY <1>0, <2>3, <3>1 DEF SumsUp
      <3>3. sePage'.shown.runs = runs /\ sePage'.shown.summary = summary /\ Past(runs, seRuns')
        BY <1>0, <2>2, <2>3, <3>1
      <3> QED
        BY <3>2, <3>3 DEF SeShown, SumsUp
    <2>5. SeKnows'
      BY <1>0, <2>1, <2>2, <2>3 DEF SeKnows
    <2>6. SeShapes' /\ \A d \in seCalls' : SeCallOf(d)'
      BY <1>0, <2>1, <2>2, SameCall DEF SeShapes, SeIInv
    <2> QED
      BY <2>4, <2>5, <2>6 DEF SeIInv
  <1>2. CASE SeLoadFails(c)
    <2>1. PICK panel : panel = IF sePage.panel = None THEN None ELSE SePanel(0)
      OBVIOUS
    <2>2. /\ seCalls' = seCalls \ {c} /\ seMissed'
          /\ sePage' = [sePage EXCEPT !.error = TRUE, !.loading = FALSE, !.panel = panel]
      BY <1>2, <2>1 DEF SeLoadFails
    <2>3. /\ DOMAIN sePage' = {"shown", "loading", "error", "panel", "mounts"} /\ sePage'.panel = panel
          /\ sePage'.shown = sePage.shown
      BY <1>0, <2>2
    <2>4. PanelOf(panel)
      BY <2>1, PanelIs DEF PanelOf
    <2>5. SeShown' /\ SeKnows'
      BY <1>0, <2>2, <2>3, SameShown DEF SeIInv, SeKnows
    <2>6. SeShapes' /\ \A d \in seCalls' : SeCallOf(d)'
      BY <1>0, <2>2, <2>3, <2>4, SameCall DEF SeShapes, SeIInv
    <2> QED
      BY <2>5, <2>6 DEF SeIInv
  <1>3. CASE SeStarted(c)
    <2>1. c.kind = "start" /\ c.tests = {} /\ UNCHANGED seMissed
      BY <1>3 DEF SeStarted
    <2>2. CASE c.step = "failed"
      <3>1. seCalls' = seCalls \ {c} /\ UNCHANGED sePage
        BY <1>3, <2>2 DEF SeStarted
      <3>2. ~ Reloads(c)
        BY <2>1, <2>2 DEF Reloads
      <3> QED
        BY <1>0, <2>1, <3>1, <3>2, SePageStep
    <2>3. CASE c.step # "failed"
      <3>1. PICK n, panel : n = c.n /\ panel = SeIn(c, [sePage.panel EXCEPT !.running = FALSE])
        OBVIOUS
      <3>2. PICK d : d = SeCall("ran", n, {})
        OBVIOUS
      <3>3. seCalls' = (seCalls \ {c}) \cup {d} /\ sePage' = [sePage EXCEPT !.panel = panel]
        BY <1>3, <2>3, <3>1, <3>2 DEF SeStarted
      <3>4. SeCallOf(d) /\ Reloads(d)
        <4>1. SeCallOf(d)
          BY <3>2, NewCall
        <4>2. d.kind = "ran"
          BY <3>2 DEF SeCall
        <4> QED
          BY <4>1, <4>2 DEF Reloads
      <3>5. /\ DOMAIN sePage' = {"shown", "loading", "error", "panel", "mounts"} /\ sePage'.panel = panel
            /\ sePage'.shown = sePage.shown
        BY <1>0, <3>3
      <3>6. PanelOf(panel)
        BY <1>0, <3>1, PanelStops DEF SeIn
      <3>7. \A e \in seCalls' : SeCallOf(e)
        BY <1>0, <3>3, <3>4
      <3> QED
        BY <1>0, <2>1, <3>3, <3>4, <3>5, <3>6, <3>7, SePageStep
    <2> QED
      BY <2>2, <2>3
  <1>4. CASE SeStartFails(c)
    <2>1. PICK t : seCalls' = (seCalls \ {c}) \cup {[c EXCEPT !.step = "failed", !.tests = @ \ {t}]}
      BY <1>4 DEF SeStartFails
    <2>2. PICK d, panel : /\ d = [c EXCEPT !.step = "failed", !.tests = @ \ {t}]
                          /\ panel = SeIn(c, [sePage.panel EXCEPT !.running = FALSE])
      OBVIOUS
    <2>3. c.kind = "start" /\ seMissed' /\ sePage' = [sePage EXCEPT !.panel = panel]
      BY <1>4, <2>2 DEF SeStartFails
    <2>4. DOMAIN d = SeFields /\ d.kind = "start" /\ d.step = "failed" /\ d.tests = c.tests \ {t}
      BY <1>0, <2>2, <2>3 DEF SeCallOf, SeFields
    <2>5. SeCallOf(d)
      BY <1>0, <2>4 DEF SeCallOf
    <2>6. /\ DOMAIN sePage' = {"shown", "loading", "error", "panel", "mounts"} /\ sePage'.panel = panel
          /\ sePage'.shown = sePage.shown
      BY <1>0, <2>3
    <2>7. PanelOf(panel)
      BY <1>0, <2>2, PanelStops DEF SeIn
    <2>8. SeShown' /\ SeKnows'
      BY <1>0, <2>3, <2>6, SameShown DEF SeIInv, SeKnows
    <2>9. \A e \in seCalls' : SeCallOf(e)'
      BY <1>0, <2>1, <2>2, <2>5, SameCall
    <2>10. SeShapes'
      BY <1>0, <2>6, <2>7 DEF SeShapes, SeIInv
    <2> QED
      BY <2>8, <2>9, <2>10 DEF SeIInv
  <1>5. CASE SeRan(c)
    <2>1. PICK d : d = [c EXCEPT !.kind = "reload"]
      OBVIOUS
    <2>2. /\ c.kind = "ran" /\ seCalls' = (seCalls \ {c}) \cup {d} /\ UNCHANGED seMissed
          /\ sePage' = [sePage EXCEPT !.panel = None]
      BY <1>5, <2>1 DEF SeRan
    <2>3. DOMAIN d = SeFields /\ d.kind = "reload" /\ d.tests = c.tests
      BY <1>0, <2>1 DEF SeCallOf, SeFields
    <2>4. SeCallOf(d) /\ Reloads(d)
      BY <1>0, <2>3 DEF SeCallOf, Reloads
    <2>5. /\ DOMAIN sePage' = {"shown", "loading", "error", "panel", "mounts"} /\ sePage'.panel = None
          /\ sePage'.shown = sePage.shown
      BY <1>0, <2>2
    <2>6. PanelOf(sePage'.panel)
      BY <2>5 DEF PanelOf
    <2>7. \A e \in seCalls' : SeCallOf(e)
      BY <1>0, <2>2, <2>4
    <2> QED
      BY <1>0, <2>2, <2>4, <2>5, <2>6, <2>7, SePageStep
  <1>6. CASE SeReload(c)
    <2>1. PICK n, calls : calls = seCalls \ {c} /\ SeLoad(sePage, calls, n) /\ UNCHANGED seMissed
      BY <1>6 DEF SeReload
    <2> QED
      BY <1>0, <2>1, SeLoadStep
  <1> QED
    BY <1>1, <1>2, <1>3, <1>4, <1>5, <1>6 DEF SeArrive

LEMMA SeStep == SeIInv /\ [SeNext]_seVars => SeIInv'
  <1> SUFFICES ASSUME SeIInv, [SeNext]_seVars PROVE SeIInv'
    OBVIOUS
  <1>1. CASE UNCHANGED seVars
    BY <1>1 DEF seVars, SeIInv, SeShapes, SeCallOf, SumsUp, SeShown, SeKnows
  <1>2. ASSUME NEW c \in seCalls, SeCallGoesOn(c) PROVE SeIInv'
    BY <1>2, SeServeStep, SeArriveStep DEF SeCallGoesOn
  <1> QED
    BY <1>1, <1>2, SeUserStep, SeRunStep, SeTickStep DEF SeNext, SeProgress, SePolling, SeLoading


(* The counters of the groups add up to the counter of the summary.        *)
LEMMA GroupsAddUp ==
  ASSUME NEW runs \in Seq(SeRun), NEW status, NEW counters,
         DOMAIN counters = { runs[i].test : i \in DOMAIN runs },
         \A t \in DOMAIN counters :
            counters[t] = Cardinality({ i \in DOMAIN runs : runs[i].test = t /\ runs[i].status = status })
  PROVE  SeTotal(counters) = SeWith(runs, {status})
  <1>1. PICK those : those = { i \in DOMAIN runs : runs[i].status = status }
    OBVIOUS
  <1>2. DOMAIN runs = 1 .. Len(runs) /\ IsFiniteSet(1 .. Len(runs))
    BY LenProperties, FS_Interval
  <1>3. IsFiniteSet(those)
    BY <1>1, <1>2, FS_Subset
  <1>4. PICK tests : tests = DOMAIN counters
    OBVIOUS
  <1>5. PICK of : of = [t \in tests |-> { i \in those : runs[i].test = t }]
    OBVIOUS
  <1>6. ASSUME NEW t \in tests
        PROVE  \E b : b \in Bijection(1 .. counters[t], of[t])
    <2>1. PICK part : part = { i \in those : runs[i].test = t }
      OBVIOUS
    <2>2. part = { i \in DOMAIN runs : runs[i].test = t /\ runs[i].status = status }
      BY <1>1, <2>1
    <2>3. IsFiniteSet(part)
      BY <1>3, <2>1, FS_Subset
    <2>4. counters[t] = Cardinality(part)
      BY <1>4, <1>6, <2>2
    <2>5. ExistsBijection(1 .. Cardinality(part), part)
      BY <2>3, FS_CardinalityType
    <2>6. of[t] = part
      BY <1>5, <1>6, <2>1
    <2> QED
      BY <2>4, <2>5, <2>6 DEF ExistsBijection
  <1>7. PICK b : b = [t \in tests |-> CHOOSE f : f \in Bijection(1 .. counters[t], of[t])]
    OBVIOUS
  <1>8. \A t \in tests : b[t] \in Bijection(1 .. counters[t], of[t])
    BY <1>6, <1>7
  <1>9. PICK pairs : pairs = UNION { {t} \X (1 .. counters[t]) : t \in tests }
    OBVIOUS
  <1>10. ASSUME NEW p \in pairs
         PROVE  /\ p[1] \in tests /\ p[2] \in 1 .. counters[p[1]] /\ p = <<p[1], p[2]>>
                /\ b[p[1]][p[2]] \in those /\ runs[b[p[1]][p[2]]].test = p[1]
    <2>1. PICK t \in tests : p \in {t} \X (1 .. counters[t])
      BY <1>9, <1>10
    <2>2. p[1] = t /\ p[2] \in 1 .. counters[t] /\ p = <<p[1], p[2]>>
      BY <2>1
    <2>3. b[t] \in [1 .. counters[t] -> of[t]]
      BY <1>8, <2>1 DEF Bijection, Injection
    <2>4. b[t][p[2]] \in of[t]
      BY <2>2, <2>3
    <2>5. of[t] = { i \in those : runs[i].test = t }
      BY <1>5, <2>1
    <2> QED
      BY <2>1, <2>2, <2>4, <2>5
  <1>11. PICK g : g = [p \in pairs |-> b[p[1]][p[2]]]
    OBVIOUS
  <1>12. g \in [pairs -> those]
    BY <1>10, <1>11
  <1>13. ASSUME NEW p \in pairs, NEW q \in pairs, g[p] = g[q] PROVE p = q
    <2>1. b[p[1]][p[2]] = b[q[1]][q[2]]
      BY <1>11, <1>13
    <2>2. p[1] = q[1]
      BY <1>10, <1>13, <2>1
    <2>3. PICK t : t = p[1]
      OBVIOUS
    <2>4. t \in tests /\ p[2] \in 1 .. counters[t] /\ q[2] \in 1 .. counters[t]
      BY <1>10, <1>13, <2>2, <2>3
    <2>5. \A i, j \in 1 .. counters[t] : b[t][i] = b[t][j] => i = j
      BY <1>8, <2>4 DEF Bijection, Injection, IsInjective
    <2>6. p[2] = q[2]
      BY <2>1, <2>2, <2>3, <2>4, <2>5
    <2> QED
      BY <1>10, <1>13, <2>2, <2>6
  <1>14. ASSUME NEW i \in those PROVE \E p \in pairs : g[p] = i
    <2>1. PICK t : t = runs[i].test
      OBVIOUS
    <2>2. t \in tests /\ i \in of[t]
      BY <1>1, <1>4, <1>5, <1>14, <2>1
    <2>3. PICK n \in 1 .. counters[t] : b[t][n] = i
      BY <1>8, <2>2 DEF Bijection, Surjection
    <2>4. PICK p : p = <<t, n>>
      OBVIOUS
    <2>5. p \in {t} \X (1 .. counters[t])
      BY <2>3, <2>4
    <2>6. p \in pairs /\ p[1] = t /\ p[2] = n
      BY <1>9, <2>2, <2>4, <2>5
    <2>7. g[p] = b[p[1]][p[2]]
      BY <1>11, <2>6
    <2> QED
      BY <2>3, <2>6, <2>7
  <1>15. g \in Bijection(pairs, those)
    BY <1>12, <1>13, <1>14 DEF Bijection, Injection, Surjection, IsInjective
  <1>16. ExistsBijection(those, pairs)
    BY <1>15, Fun_ExistsBijSymmetric DEF ExistsBijection
  <1>17. Cardinality(pairs) = Cardinality(those)
    BY <1>3, <1>16, FS_Bijection
  <1>18. SeTotal(counters) = Cardinality(pairs)
    BY <1>4, <1>9 DEF SeTotal
  <1>19. those = { i \in DOMAIN runs : runs[i].status \in {status} }
    BY <1>1
  <1> QED
    BY <1>17, <1>18, <1>19 DEF SeWith

LEMMA SeTrue == SeIInv => SeAgrees
  <1> SUFFICES ASSUME SeIInv, seCalls = {}, sePage.shown # None, ~ SeGoing, ~ seMissed PROVE SeAgrees
    BY DEF SeAgrees
  <1>1. PICK runs, summary : runs = sePage.shown.runs /\ summary = sePage.shown.summary
    OBVIOUS
  <1>2. Past(runs, seRuns) /\ Len(runs) = Len(seRuns)
    BY <1>1 DEF SeIInv, SeShown, SeKnows
  <1>3. runs \in Seq(SeRun) /\ seRuns \in Seq(SeRun) /\ Len(runs) \in Nat /\ DOMAIN runs = 1 .. Len(runs)
    BY <1>2, LenProperties DEF Past
  <1>4. ASSUME NEW i \in DOMAIN runs PROVE runs[i] \in SeRun /\ runs[i].status \in {"passed", "failed"}
    <2>1. runs[i] \in SeRun
      BY <1>3, <1>4, ElementOfSeq
    <2>2. runs[i].status \notin {"pending", "running"}
      BY <1>1, <1>4 DEF SeGoing
    <2> QED
      BY <2>1, <2>2 DEF SeRun
  (* Runs that have all ended and are as many are the same ever after.     *)
  <1>5. ASSUME NEW after, Past(runs, after), Len(after) = Len(runs) PROVE after = runs
    <2>1. after \in Seq(SeRun)
      BY <1>5 DEF Past
    <2>2. ASSUME NEW i \in 1 .. Len(runs) PROVE runs[i] = after[i]
      <3>1. runs[i].test = after[i].test /\ runs[i].status = after[i].status
        BY <1>3, <1>4, <1>5, <2>2 DEF Past
      <3>2. runs[i] \in SeRun /\ after[i] \in SeRun
        BY <1>3, <1>4, <1>5, <2>1, <2>2, ElementOfSeq
      <3> QED
        BY <3>1, <3>2 DEF SeRun
    <2> QED
      BY <1>3, <1>5, <2>1, <2>2, SeqEqual
  <1>6. runs = seRuns
    BY <1>2, <1>5
  <1>7. PICK after : summary = SeSummary(after) /\ Past(runs, after) /\ Past(after, seRuns)
    BY <1>1 DEF SeIInv, SeShown, SumsUp
  <1>8. Len(after) = Len(runs)
    BY <1>2, <1>7, LenProperties DEF Past
  <1>9. summary = SeSummary(runs)
    BY <1>5, <1>7, <1>8
  <1>10. SeWith(runs, {"pending", "running"}) = 0
    <2>1. { i \in DOMAIN runs : runs[i].status \in {"pending", "running"} } = {}
      BY <1>4
    <2> QED
      BY <2>1, FS_EmptySet DEF SeWith
  <1>11. /\ summary.passed = SeWith(runs, {"passed"}) /\ summary.failed = SeWith(runs, {"failed"})
         /\ summary.going = 0
    BY <1>9, <1>10 DEF SeSummary
  <1>12. PICK groups : groups = SeGroups(runs)
    OBVIOUS
  <1>13. /\ DOMAIN groups = { runs[i].test : i \in DOMAIN runs }
         /\ \A t \in DOMAIN groups :
              /\ groups[t].passed = Cardinality({ i \in DOMAIN runs : runs[i].test = t /\ runs[i].status = "passed" })
              /\ groups[t].failed = Cardinality({ i \in DOMAIN runs : runs[i].test = t /\ runs[i].status = "failed" })
    BY <1>12 DEF SeGroups
  <1>14. SeTotal([t \in DOMAIN groups |-> groups[t].passed]) = summary.passed
    <2>1. PICK counters : counters = [t \in DOMAIN groups |-> groups[t].passed]
      OBVIOUS
    <2> QED
      BY <1>3, <1>11, <1>13, <2>1, GroupsAddUp
  <1>15. SeTotal([t \in DOMAIN groups |-> groups[t].failed]) = summary.failed
    <2>1. PICK counters : counters = [t \in DOMAIN groups |-> groups[t].failed]
      OBVIOUS
    <2> QED
      BY <1>3, <1>11, <1>13, <2>1, GroupsAddUp
  <1> QED
    BY <1>1, <1>6, <1>9, <1>11, <1>12, <1>14, <1>15 DEF SeAgrees


(***************************************************************************)
(* The pages about runs, one of them open                                  *)
(***************************************************************************)

RunPagesInv == RlIInv /\ RnIInv /\ SeIInv

LEMMA RunPagesInit == PagesInit => RunPagesInv
  BY RlInitIInv, RnInitIInv, SeInitIInv DEF PagesInit, RunPagesInv

(* A step of one page is none of the others.                               *)
LEMMA RunPagesStep == RunPagesInv /\ [PagesNext]_allPages => RunPagesInv'
  <1> SUFFICES ASSUME RunPagesInv, [PagesNext]_allPages PROVE RunPagesInv'
    OBVIOUS
  <1>1. [RlNext]_rlVars
    BY DEF PagesNext, allPages, InTests, InRuns, InRun, InNotes, InSession
  <1>2. [RnNext]_rnVars
    BY DEF PagesNext, allPages, InTests, InRuns, InRun, InNotes, InSession
  <1>3. [SeNext]_seVars
    BY DEF PagesNext, allPages, InTests, InRuns, InRun, InNotes, InSession
  <1> QED
    BY <1>1, <1>2, <1>3, RlStep, RnStep, SeStep DEF RunPagesInv

(* When nothing is under way each page about runs shows what is stored,    *)
(* however its requests, their failures and what changes meanwhile         *)
(* overlap: for any number of runs, tests, notes and requests.             *)
THEOREM RunPagesTrue == PagesSpec => []PagesShowStored
  <1>1. RunPagesInv => PagesShowStored
    BY RlTrue, RnTrue, SeTrue DEF RunPagesInv, PagesShowStored
  <1> QED
    BY <1>1, RunPagesInit, RunPagesStep, PTL DEF PagesSpec
=============================================================================
