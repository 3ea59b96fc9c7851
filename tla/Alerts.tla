------------------------------- MODULE Alerts -------------------------------
(* Alerts: the page of rules and incidents (web/src/app/alerts/page.tsx), the  *)
(* API's handlers, and the evaluation of the rules after a run                 *)
(* (alert_service.go), of which several may be under way at a time.            *)
EXTENDS Integers, Sequences, FiniteSets, SequencesExt, Absent

CONSTANTS AltIds,    \* ids of rules; those not stored at first are given to new rules
          AltRules0, \* rules stored when the page is opened
          AltRuns,   \* runs that end while the page is open: [failed, test]
          AltAsks,   \* bound: requests of the user
          AltEvents  \* bound: these and runs that end

\* cond: by the run's status, or by a figure against a threshold.  scope: every
\* run, or those of the test the rule names.
Rules == [on : BOOLEAN, cond : {"run_failed", "figure"}, threshold : BOOLEAN,
          scope : {"all", "test"}, value : BOOLEAN]

\* needsThreshold and canSave of the dialog.
Complete(r) == (r.cond = "figure" => r.threshold) /\ (r.scope = "test" => r.value)

ASSUME AlertsAssumption ==
    /\ DOMAIN AltRules0 \subseteq AltIds /\ None \notin AltIds
    /\ \A r \in DOMAIN AltRules0 : AltRules0[r] \in Rules /\ Complete(AltRules0[r])
    /\ \A x \in DOMAIN AltRuns : AltRuns[x] \in [failed : BOOLEAN, test : BOOLEAN]
    /\ AltAsks \in Nat /\ AltEvents \in Nat

VARIABLES
    altRules,     \* the table of rules
    altIncidents, \* the table of incidents: [run, rule, acked]
    altEvals,     \* evaluations: run -> [todo, now, start, seen, gone], or None before the run ends
    altPage,      \* the page: [rules, events, loading, dialog]
    altCalls,     \* changes under way
    altLists,     \* loads under way, in the order they were sent
    altAsked,     \* requests of the user so far
    altSpoilt     \* history: what the page shows was overtaken, or its reload was lost

altVars == <<altRules, altIncidents, altEvals, altPage, altCalls, altLists, altAsked, altSpoilt>>

-----------------------------------------------------------------------------
(* The evaluation of a run that ended.                                       *)

Open(incidents, r) == \E i \in incidents : i.rule = r /\ ~i.acked

ScopeMatches(rule, run) == rule.scope = "all" \/ (rule.value /\ run.test)

\* A figure is computed from the last runs, which are not modelled.
Outcomes(rule, run) == IF rule.cond = "run_failed" THEN {run.failed}
                       ELSE IF rule.threshold THEN BOOLEAN ELSE {FALSE}

Eval(x) == altEvals[x]

Room == altAsked + Cardinality({ x \in DOMAIN altEvals : Eval(x) # None }) < AltEvents
AltMayAsk == altAsked < AltAsks /\ Room

\* The run ends, and the enabled rules are listed; if that fails, nothing else
\* happens.
AltRunEnds(x) ==
    /\ Eval(x) = None /\ Room
    /\ LET todo == { r \in DOMAIN altRules : altRules[r].on }
       IN  altEvals' = [altEvals EXCEPT ![x] =
             [todo |-> todo, now |-> None, start |-> [r \in todo |-> altRules[r]],
              seen |-> { r \in AltIds : Open(altIncidents, r) }, gone |-> {}]]
    /\ UNCHANGED <<altRules, altIncidents>>

\* Mutant: an acknowledged incident counts as open.
AltCheck_everFired(x, r) ==
    /\ Eval(x) # None /\ r \in Eval(x).todo /\ Eval(x).now = None
    /\ LET rule == Eval(x).start[r]
           skip(gone) == altEvals' = [altEvals EXCEPT ![x].todo = @ \ {r}, ![x].gone = @ \cup gone]
       IN  \/ ~ScopeMatches(rule, AltRuns[x]) /\ skip({})
           \/ /\ ScopeMatches(rule, AltRuns[x])
              /\ \E fired \in Outcomes(rule, AltRuns[x]) :
                   \/ ~fired /\ skip({})
                   \/ fired /\ skip({r})
                   \/ fired /\ (\E i \in altIncidents : i.rule = r) /\ skip({})
                   \/ /\ fired /\ ~Open(altIncidents, r)
                      /\ altEvals' = [altEvals EXCEPT ![x].todo = @ \ {r}, ![x].now = r]
    /\ UNCHANGED <<altRules, altIncidents>>

\* HasOpenForRule, which may fail, comes after the condition.
AltCheck(x, r) ==
    /\ Eval(x) # None /\ r \in Eval(x).todo /\ Eval(x).now = None
    /\ LET rule == Eval(x).start[r]
           skip(gone) == altEvals' = [altEvals EXCEPT ![x].todo = @ \ {r}, ![x].gone = @ \cup gone]
       IN  \/ ~ScopeMatches(rule, AltRuns[x]) /\ skip({})
           \/ /\ ScopeMatches(rule, AltRuns[x])
              /\ \E fired \in Outcomes(rule, AltRuns[x]) :
                   \/ ~fired /\ skip({})
                   \/ fired /\ skip({r})
                   \/ fired /\ Open(altIncidents, r) /\ skip({})
                   \/ /\ fired /\ ~Open(altIncidents, r)
                      /\ altEvals' = [altEvals EXCEPT ![x].todo = @ \ {r}, ![x].now = r]
    /\ UNCHANGED <<altRules, altIncidents>>

\* Mutant: there is no unique index.
Inserted_again(incidents, rules, x, r) ==
    IF r \notin DOMAIN rules THEN incidents
    ELSE incidents \cup {[run |-> x, rule |-> r, acked |-> FALSE]}

\* The unique index refuses a second open incident, the foreign key an incident
\* of a rule that is gone; both are passed over.
Inserted(incidents, rules, x, r) ==
    IF r \notin DOMAIN rules \/ Open(incidents, r) THEN incidents
    ELSE incidents \cup {[run |-> x, rule |-> r, acked |-> FALSE]}

AltCreate(x) ==
    /\ Eval(x) # None /\ Eval(x).now # None
    /\ altIncidents' = Inserted(altIncidents, altRules, x, Eval(x).now)
    /\ altEvals' = [y \in DOMAIN altEvals |->
          IF Eval(y) = None THEN None
          ELSE [Eval(y) EXCEPT !.seen = @ \cup { r \in AltIds : Open(altIncidents', r) },
                               !.now = IF y = x THEN None ELSE @]]
    /\ UNCHANGED altRules

-----------------------------------------------------------------------------
(* The handlers.                                                             *)

AltTo(c, step) == altCalls' = (altCalls \ {c}) \cup {[c EXCEPT !.step = step]}

\* The update handler checks nothing.
AltStore(c) ==
    /\ c.step = "sent" /\ AltTo(c, "done")
    /\ \/ /\ c.kind = "create"
          /\ \E r \in AltIds \ DOMAIN altRules :
               altRules' = [s \in DOMAIN altRules \cup {r} |-> IF s = r THEN c.data ELSE altRules[s]]
          /\ UNCHANGED <<altIncidents, altEvals>>
       \/ /\ c.kind = "toggle" /\ UNCHANGED <<altIncidents, altEvals>>
          /\ altRules' = [s \in DOMAIN altRules |->
                             IF s = c.id THEN [altRules[s] EXCEPT !.on = c.data.on] ELSE altRules[s]]
       \/ /\ c.kind = "update" /\ UNCHANGED <<altIncidents, altEvals>>
          /\ altRules' = [s \in DOMAIN altRules |-> IF s = c.id THEN c.data ELSE altRules[s]]
       \/ /\ c.kind = "delete"
          /\ altRules' = [s \in DOMAIN altRules \ {c.id} |-> altRules[s]]
          /\ altIncidents' = { i \in altIncidents : i.rule # c.id }
          /\ altEvals' = [x \in DOMAIN altEvals |->
                IF Eval(x) = None THEN None ELSE [Eval(x) EXCEPT !.gone = @ \cup {c.id}]]
       \/ /\ c.kind = "ack" /\ UNCHANGED <<altRules, altEvals>>
          /\ altIncidents' = { IF i.run = c.run /\ i.rule = c.id
                               THEN [i EXCEPT !.acked = TRUE] ELSE i : i \in altIncidents }

AltRefuse(c) == c.step = "sent" /\ AltTo(c, "failed") /\ UNCHANGED <<altRules, altIncidents, altEvals>>

AltServer ==
    \/ /\ \/ \E c \in altCalls : AltStore(c) \/ AltRefuse(c)
          \/ /\ \E x \in DOMAIN AltRuns : AltCreate(x) \/ \E r \in AltIds : AltCheck(x, r)
             /\ UNCHANGED altCalls
       /\ UNCHANGED <<altPage, altLists, altAsked, altSpoilt>>
    \/ /\ \E x \in DOMAIN AltRuns : AltRunEnds(x)
       /\ UNCHANGED <<altPage, altCalls, altLists, altAsked, altSpoilt>>

\* A load asks for the rules and for the incidents, each answered on its own.
AltServeList(i) ==
    /\ \/ /\ altLists[i].rules = None
          /\ altLists' = [altLists EXCEPT ![i].rules = altRules]
       \/ /\ altLists[i].events = None
          /\ altLists' = [altLists EXCEPT ![i].events = altIncidents]
    /\ UNCHANGED <<altRules, altIncidents, altEvals, altPage, altCalls, altAsked, altSpoilt>>

-----------------------------------------------------------------------------
(* The page.                                                                 *)

AltNewLoad == [rules |-> None, events |-> None, late |-> FALSE]

\* load() hides the list behind a spinner.
AltLoad(page) == altPage' = [page EXCEPT !.loading = TRUE] /\ altLists' = Append(altLists, AltNewLoad)

AltAsk(kind, r, run, data) ==
    /\ AltMayAsk /\ altAsked' = altAsked + 1
    /\ altCalls' = altCalls \cup {[kind |-> kind, id |-> r, run |-> run, data |-> data,
                                step |-> "sent", n |-> altAsked]}
    /\ UNCHANGED <<altRules, altIncidents, altEvals, altLists, altSpoilt>>

AltRefresh ==
    /\ altPage.dialog = None /\ AltMayAsk /\ altAsked' = altAsked + 1
    /\ AltLoad(altPage)
    /\ UNCHANGED <<altRules, altIncidents, altEvals, altCalls, altSpoilt>>

\* The table of rules, and the list of incidents; nothing keeps the user from
\* going from one tab to the other.
RuleOffered(r) == altPage.dialog = None /\ ~altPage.loading /\ r \in DOMAIN altPage.rules
EventOffered(i) == altPage.dialog = None /\ ~altPage.loading /\ i \in altPage.events

AltToggle(r) == RuleOffered(r) /\ AltAsk("toggle", r, None, [altPage.rules[r] EXCEPT !.on = ~@]) /\ UNCHANGED altPage
AltDelete(r) == RuleOffered(r) /\ AltAsk("delete", r, None, None) /\ UNCHANGED altPage
AltAck(i) == EventOffered(i) /\ ~i.acked /\ AltAsk("ack", i.rule, i.run, None) /\ UNCHANGED altPage

AltOpen(r) ==
    /\ altPage.dialog = None /\ (r = None \/ RuleOffered(r)) /\ AltMayAsk
    /\ altPage' = [altPage EXCEPT !.dialog = [of |-> r, n |-> None]]
    /\ UNCHANGED <<altRules, altIncidents, altEvals, altCalls, altLists, altAsked, altSpoilt>>

\* What the dialog's fields can be made to hold; a change of scope empties the
\* value.
Forms == { f \in Rules : f.value => f.scope = "test" }

\* Mutant: the threshold is kept for the other condition.
Cleaned_swapped(f) == [f EXCEPT !.threshold = @ /\ f.cond = "run_failed", !.value = @ /\ f.scope = "test"]

\* What does not belong to the condition or the scope is sent as null.
Cleaned(f) == [f EXCEPT !.threshold = @ /\ f.cond = "figure", !.value = @ /\ f.scope = "test"]

\* Update or Create, which an incomplete form or a save under way disables.
AltSubmit ==
    /\ altPage.dialog # None /\ altPage.dialog.n = None
    /\ \E f \in Forms :
         /\ Complete(f)
         /\ AltAsk(IF altPage.dialog.of = None THEN "create" ELSE "update", altPage.dialog.of, None, Cleaned(f))
    /\ altPage' = [altPage EXCEPT !.dialog.n = altAsked]

AltClose ==
    /\ altPage.dialog # None /\ altPage' = [altPage EXCEPT !.dialog = None]
    /\ UNCHANGED <<altRules, altIncidents, altEvals, altCalls, altLists, altAsked, altSpoilt>>

AltUser ==
    \/ AltRefresh \/ AltSubmit \/ AltClose \/ AltOpen(None)
    \/ \E r \in AltIds : AltToggle(r) \/ AltDelete(r) \/ AltOpen(r)
    \/ \E i \in altPage.events : AltAck(i)

-----------------------------------------------------------------------------
(* Answers.                                                                  *)

AltLate(lists, upto) == [i \in DOMAIN lists |-> IF i < upto THEN [lists[i] EXCEPT !.late = TRUE] ELSE lists[i]]

\* A load whose two answers are there.
AltListArrives(i) ==
    /\ altLists[i].rules # None /\ altLists[i].events # None
    /\ altPage' = [altPage EXCEPT !.rules = altLists[i].rules, !.events = altLists[i].events, !.loading = FALSE]
    /\ altSpoilt' = altLists[i].late
    /\ altLists' = RemoveAt(AltLate(altLists, i), i)
    /\ UNCHANGED <<altCalls>>

AltListFails(i) ==
    /\ altPage' = [altPage EXCEPT !.loading = FALSE]
    /\ altLists' = RemoveAt(AltLate(altLists, i), i) /\ altSpoilt' = TRUE
    /\ UNCHANGED altCalls

\* Mutant: the lists are not loaded again.
AltChanged_noReload(c) ==
    /\ c.step = "done" /\ altCalls' = altCalls \ {c}
    /\ altPage' = IF c.kind \in {"create", "update"} THEN [altPage EXCEPT !.dialog = None] ELSE altPage
    /\ UNCHANGED <<altLists, altSpoilt>>

\* After a change both lists are loaded again; a save also closes the dialog.
AltChanged(c) ==
    /\ c.step = "done" /\ altCalls' = altCalls \ {c}
    /\ AltLoad(IF c.kind \in {"create", "update"} THEN [altPage EXCEPT !.dialog = None] ELSE altPage)
    /\ UNCHANGED altSpoilt

\* Nothing catches a failure; the dialog that sent it can be submitted again.
AltFails(c) ==
    /\ c.step \in {"done", "failed"} /\ altCalls' = altCalls \ {c}
    /\ altPage' = IF altPage.dialog # None /\ altPage.dialog.n = c.n
                  THEN [altPage EXCEPT !.dialog.n = None] ELSE altPage
    /\ altLists' = AltLate(altLists, Len(altLists) + 1) /\ altSpoilt' = TRUE

AltArrive ==
    /\ \/ \E i \in DOMAIN altLists : AltListArrives(i) \/ AltListFails(i)
       \/ \E c \in altCalls : AltChanged(c) \/ AltFails(c)
    /\ UNCHANGED <<altRules, altIncidents, altEvals, altAsked>>

-----------------------------------------------------------------------------

AltInit ==
    /\ altRules = AltRules0 /\ altIncidents = {}
    /\ altEvals = [x \in DOMAIN AltRuns |-> None]
    /\ altPage = [rules |-> [r \in {} |-> None], events |-> {}, loading |-> TRUE, dialog |-> None]
    /\ altCalls = {} /\ altLists = <<AltNewLoad>> /\ altAsked = 0 /\ altSpoilt = FALSE

AltProgress == AltServer \/ AltArrive \/ \E i \in DOMAIN altLists : AltServeList(i)

AltNext == AltUser \/ AltProgress

\* Requests are served and answered, and evaluations go on.
AltSpec == AltInit /\ [][AltNext]_altVars /\ WF_altVars(AltProgress)

-----------------------------------------------------------------------------
(* Properties.                                                               *)

\* Types of the variables of the page, the handlers and the evaluations.
AltTypeOK ==
    /\ DOMAIN altRules \subseteq AltIds /\ \A r \in DOMAIN altRules : altRules[r] \in Rules
    /\ altIncidents \subseteq [run : DOMAIN AltRuns, rule : DOMAIN altRules, acked : BOOLEAN]
    /\ altPage.loading \in BOOLEAN
    /\ altPage.dialog # None => altPage.dialog.n \in 0 .. AltAsks \cup {None}
    /\ \A c \in altCalls : c.step \in {"sent", "done", "failed"}
    /\ altAsked \in 0 .. AltAsks /\ altSpoilt \in BOOLEAN

\* However many evaluations run at once, a rule has one open incident at most
\* until it is acknowledged.
OneOpenIncident ==
    \A i, j \in altIncidents : i.rule = j.rule /\ ~i.acked /\ ~j.acked => i = j

\* An evaluation leaves out no rule: a rule that a failed run fires has had an
\* open incident at some time since the run ended, this run's or another's,
\* whatever is acknowledged meanwhile.  Exceptions: the rule was deleted, or the
\* database failed.
NoFailureMissed ==
    \A x \in DOMAIN AltRuns :
        Eval(x) # None /\ Eval(x).todo = {} /\ Eval(x).now = None
        => \A r \in DOMAIN Eval(x).start :
             LET rule == Eval(x).start[r]
             IN  AltRuns[x].failed /\ rule.cond = "run_failed" /\ ScopeMatches(rule, AltRuns[x])
                 => r \in Eval(x).seen \cup Eval(x).gone

\* The update handler checks nothing, so it is the dialog that keeps a rule from
\* losing the threshold or the target its condition and scope need: edits and
\* switches of several requests together leave no rule that can never fire.
RulesCanFire == \A r \in DOMAIN altRules : Complete(altRules[r])

\* When nothing is under way the page shows the rules that are stored, and no
\* incident that was deleted or acknowledged as one that is open, although rules
\* and incidents are read at different moments and reloads overlap.  Exceptions:
\* the last reload failed, or was overtaken by an older one.
AltFreshAtRest ==
    altCalls = {} /\ altLists = <<>> /\ ~altSpoilt
    => altPage.rules = altRules /\ altPage.events \subseteq altIncidents

\* The lists are hidden behind the spinner.
AltWaiting == altPage.loading
=============================================================================
