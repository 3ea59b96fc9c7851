------------------------------ MODULE Schedules ------------------------------
(* Schedules: the page that lists and edits them                               *)
(* (web/src/app/schedules/page.tsx), the API's handlers, and the cron manager  *)
(* that keeps a job for each enabled schedule.  A handler first stores and     *)
(* then tells the cron manager, in steps other requests may come between.      *)
EXTENDS Integers, FiniteSets, Absent

CONSTANTS Schedules,   \* ids; those not stored at first are given to new schedules
          SchRows0,    \* schedules stored when the page is opened
          SchAsks,     \* bound: requests of the user
          SchRestarts  \* bound: restarts of the server

\* What a schedule runs: a session's tests, chosen tests, or all by tags.
Fields == {"on", "tests", "session"}
Content == [Fields -> BOOLEAN]

ASSUME SchedulesAssumption ==
    /\ DOMAIN SchRows0 \subseteq Schedules /\ \A s \in DOMAIN SchRows0 : SchRows0[s] \in Content
    /\ SchAsks \in Nat /\ SchRestarts \in Nat /\ None \notin Schedules

VARIABLES
    schRows,   \* the table of schedules
    schJobs,   \* cron entries: [id, row, tracked]; those not tracked cannot be removed
    schPage,   \* the page: [shown, loading, dialog, at]
    schCalls,  \* requests and timers under way
    schAsked,  \* requests of the user so far
    schServed, \* lists served so far
    schLeft,   \* restarts left
    schLoose,  \* history: schedules two handlers worked on at a time, or of which one could not read the row back
    schSpoilt  \* history: an answer was lost or overtaken by a later one

schVars == <<schRows, schJobs, schPage, schCalls, schAsked, schServed, schLeft, schLoose, schSpoilt>>

-----------------------------------------------------------------------------
(* The server.                                                               *)

\* Only the columns that were sent are set.
Merged(row, data) == [f \in Fields |-> IF f \in DOMAIN data THEN data[f] ELSE row[f]]

Job(s, row, tracked) == [id |-> s, row |-> row, tracked |-> tracked]

\* AddJob: the map of jobs knows the new entry only.
Added(jobs, s, row) ==
    IF ~row["on"] THEN jobs
    ELSE { Job(j.id, j.row, j.tracked /\ j.id # s) : j \in jobs } \cup {Job(s, row, TRUE)}

\* RemoveJob: the entry the map knows.
Removed(jobs, s) == { j \in jobs : ~(j.id = s /\ j.tracked) }

SchTo(c, step) == schCalls' = (schCalls \ {c}) \cup {[c EXCEPT !.step = step]}

Handling(c) == c.step \in {"stored", "read", "removed"}
Contended(s) == \E d \in schCalls : d.id = s /\ Handling(d)

SchCreateStored(c) ==
    /\ c.kind = "create" /\ c.step = "sent"
    /\ \E s \in Schedules \ DOMAIN schRows :
         /\ \A d \in schCalls : d.id # s
         /\ LET row == Merged([f \in Fields |-> f = "on"], c.data)
            IN  /\ schRows' = [t \in DOMAIN schRows \cup {s} |-> IF t = s THEN row ELSE schRows[t]]
                /\ schCalls' = (schCalls \ {c}) \cup {[c EXCEPT !.step = "removed", !.id = s, !.row = row]}
    /\ UNCHANGED <<schJobs, schLoose>>

SchUpdateStored(c) ==
    /\ c.kind = "update" /\ c.step = "sent" /\ SchTo(c, "stored")
    /\ schRows' = [s \in DOMAIN schRows |-> IF s = c.id THEN Merged(schRows[s], c.data) ELSE schRows[s]]
    /\ schLoose' = IF Contended(c.id) THEN schLoose \cup {c.id} ELSE schLoose
    /\ UNCHANGED schJobs

\* The row is read back; if it cannot be, the job is left as it is.
SchUpdateRead(c) ==
    /\ c.kind = "update" /\ c.step = "stored"
    /\ \/ /\ c.id \in DOMAIN schRows
          /\ schCalls' = (schCalls \ {c}) \cup {[c EXCEPT !.step = "read", !.row = schRows[c.id]]}
          /\ UNCHANGED schLoose
       \/ /\ SchTo(c, "done")
          /\ schLoose' = IF c.id \in DOMAIN schRows THEN schLoose \cup {c.id} ELSE schLoose
    /\ UNCHANGED <<schRows, schJobs>>

SchJobRemoved(c) ==
    /\ c.kind = "update" /\ c.step = "read" /\ SchTo(c, "removed")
    /\ schJobs' = Removed(schJobs, c.id)
    /\ UNCHANGED <<schRows, schLoose>>

SchJobAdded(c) ==
    /\ c.step = "removed" /\ SchTo(c, "done")
    /\ schJobs' = Added(schJobs, c.id, c.row)
    /\ UNCHANGED <<schRows, schLoose>>

SchDeleteStored(c) ==
    /\ c.kind = "delete" /\ c.step = "sent" /\ SchTo(c, "stored")
    /\ schRows' = [s \in DOMAIN schRows \ {c.id} |-> schRows[s]]
    /\ schLoose' = IF Contended(c.id) THEN schLoose \cup {c.id} ELSE schLoose
    /\ UNCHANGED schJobs

\* Mutant: the job outlives the schedule.
SchDeleteDone_kept(c) ==
    /\ c.kind = "delete" /\ c.step = "stored" /\ SchTo(c, "done")
    /\ UNCHANGED schJobs
    /\ UNCHANGED <<schRows, schLoose>>

SchDeleteDone(c) ==
    /\ c.kind = "delete" /\ c.step = "stored" /\ SchTo(c, "done")
    /\ schJobs' = Removed(schJobs, c.id)
    /\ UNCHANGED <<schRows, schLoose>>

\* The run itself is not modelled; a trigger changes nothing else here.
SchTriggered(c) ==
    /\ c.kind = "trigger" /\ c.step = "sent"
    /\ SchTo(c, IF c.id \in DOMAIN schRows THEN "done" ELSE "failed")
    /\ UNCHANGED <<schRows, schJobs, schLoose>>

\* The request fails before anything is stored.
SchRefused(c) ==
    /\ c.step = "sent" /\ SchTo(c, "failed")
    /\ UNCHANGED <<schRows, schJobs, schLoose>>

SchServe(c) ==
    /\ \/ SchCreateStored(c) \/ SchUpdateStored(c) \/ SchUpdateRead(c) \/ SchJobRemoved(c)
       \/ SchJobAdded(c) \/ SchDeleteStored(c) \/ SchDeleteDone(c) \/ SchTriggered(c) \/ SchRefused(c)
    /\ UNCHANGED <<schPage, schAsked, schServed, schLeft, schSpoilt>>

SchListServed(c) ==
    /\ c.kind = "list" /\ c.step = "sent"
    /\ schServed' = schServed + 1
    /\ schCalls' = (schCalls \ {c}) \cup {[c EXCEPT !.step = "done", !.row = schRows, !.at = schServed + 1]}
    /\ UNCHANGED <<schRows, schJobs, schPage, schAsked, schLeft, schLoose, schSpoilt>>

\* Init of the cron manager: a job for each enabled schedule.  Requests that
\* were being handled are lost.
SchRestart ==
    /\ schLeft > 0 /\ schLeft' = schLeft - 1
    /\ schJobs' = { Job(s, schRows[s], TRUE) : s \in { t \in DOMAIN schRows : schRows[t]["on"] } }
    /\ schCalls' = { IF Handling(c) THEN [c EXCEPT !.step = "failed"] ELSE c : c \in schCalls }
    /\ schLoose' = {}
    /\ UNCHANGED <<schRows, schPage, schAsked, schServed, schSpoilt>>

-----------------------------------------------------------------------------
(* The page.                                                                 *)

SchCall(kind, s, data, form) == [kind |-> kind, id |-> s, data |-> data, form |-> form,
                              step |-> "sent", row |-> None, at |-> 0, n |-> schAsked]

\* load() marks the list as loading, which hides it.
NoData == [f \in {} |-> TRUE]
SchLoading(page) == [page EXCEPT !.loading = TRUE]
List == SchCall("list", None, NoData, None)

SchAsk(c) ==
    /\ schAsked < SchAsks /\ schAsked' = schAsked + 1
    /\ schCalls' = schCalls \cup {c}
    /\ UNCHANGED <<schRows, schJobs, schServed, schLeft, schLoose, schSpoilt>>

\* The rows of the table and their buttons.
SchOffered(s) == ~schPage.loading /\ s \in DOMAIN schPage.shown /\ schPage.dialog = None

SchRefresh == schPage.dialog = None /\ schPage' = SchLoading(schPage) /\ SchAsk(List)

\* The opposite of what the row shows is sent; nothing disables the button.
SchToggle(s) ==
    /\ SchOffered(s) /\ UNCHANGED schPage
    /\ SchAsk(SchCall("update", s, [f \in {"on"} |-> ~schPage.shown[s]["on"]], None))

SchDelete(s) == SchOffered(s) /\ UNCHANGED schPage /\ SchAsk(SchCall("delete", s, NoData, None))
SchTrigger(s) == SchOffered(s) /\ UNCHANGED schPage /\ SchAsk(SchCall("trigger", s, NoData, None))

\* The dialog starts from the row as it is shown.  Bound: a dialog is opened and
\* filled in only while a request is left to save it with.
SchOpen(s) ==
    /\ schAsked < SchAsks
    /\ schPage.dialog = None /\ (s = None \/ SchOffered(s))
    /\ LET form == IF s = None THEN [f \in Fields |-> f = "on"] ELSE schPage.shown[s]
       IN  schPage' = [schPage EXCEPT !.dialog =
                         [of |-> s, form |-> form, n |-> None,
                          target |-> IF form["session"] THEN "session" ELSE "tests"]]
    /\ UNCHANGED <<schRows, schJobs, schCalls, schAsked, schServed, schLeft, schLoose, schSpoilt>>

\* Choosing between tests and a session empties the other.
Switched(d) == IF d.target = "session" THEN [d EXCEPT !.target = "tests", !.form["session"] = FALSE]
               ELSE [d EXCEPT !.target = "session", !.form["tests"] = FALSE]

\* The dialog's fields: only those of the target are there.
SchFill ==
    /\ schPage.dialog # None /\ schAsked < SchAsks
    /\ LET d == schPage.dialog
       IN  \E e \in {Switched(d)} \cup { [d EXCEPT !.form[f] = ~@] : f \in {"on", d.target} } :
              schPage' = [schPage EXCEPT !.dialog = e]
    /\ UNCHANGED <<schRows, schJobs, schCalls, schAsked, schServed, schLeft, schLoose, schSpoilt>>

\* What is empty is undefined, and is not sent.
Sent(d) == LET sent == {"on"} \cup { f \in {d.target} \cap Fields : d.form[f] }
           IN  [f \in sent |-> d.form[f]]

\* Create or Update, which saving disables.
SchSubmit ==
    /\ schPage.dialog # None /\ schPage.dialog.n = None
    /\ schPage' = [schPage EXCEPT !.dialog.n = schAsked]
    /\ LET d == schPage.dialog
       IN  SchAsk(SchCall(IF d.of = None THEN "create" ELSE "update", d.of, Sent(d), d.form))

SchCancel ==
    /\ schPage.dialog # None /\ schPage' = [schPage EXCEPT !.dialog = None]
    /\ UNCHANGED <<schRows, schJobs, schCalls, schAsked, schServed, schLeft, schLoose, schSpoilt>>

-----------------------------------------------------------------------------
(* Answers.                                                                  *)

SchAnswered(c) == c.step \in {"done", "failed"}

\* Mutant: a failed load leaves the spinner.
SchListArrives_spins(c) ==
    /\ c.kind = "list" /\ SchAnswered(c) /\ schCalls' = schCalls \ {c}
    /\ schPage' = IF c.step = "done"
                  THEN [schPage EXCEPT !.shown = c.row, !.at = c.at, !.loading = FALSE]
                  ELSE schPage
    /\ schSpoilt' = (schSpoilt \/ c.step = "failed" \/ c.at < schPage.at)

\* The list is replaced by whichever answer comes last.
SchListArrives(c) ==
    /\ c.kind = "list" /\ SchAnswered(c) /\ schCalls' = schCalls \ {c}
    /\ schPage' = IF c.step = "done"
                  THEN [schPage EXCEPT !.shown = c.row, !.at = c.at, !.loading = FALSE]
                  ELSE [schPage EXCEPT !.loading = FALSE]
    /\ schSpoilt' = (schSpoilt \/ c.step = "failed" \/ c.at < schPage.at)

\* Mutant: the list is not loaded again.
SchChanged_noReload(c) ==
    /\ c.kind \in {"create", "update", "delete"} /\ c.step = "done"
    /\ schPage' = SchLoading(IF c.form = None THEN schPage ELSE [schPage EXCEPT !.dialog = None])
    /\ schCalls' = schCalls \ {c}
    /\ UNCHANGED schSpoilt

\* After a change the list is loaded again; a save closes the dialog that is
\* open then.
SchChanged(c) ==
    /\ c.kind \in {"create", "update", "delete"} /\ c.step = "done"
    /\ schPage' = SchLoading(IF c.form = None THEN schPage ELSE [schPage EXCEPT !.dialog = None])
    /\ schCalls' = (schCalls \ {c}) \cup {[List EXCEPT !.n = c.n]}
    /\ UNCHANGED schSpoilt

\* After a trigger a timer loads the list, two seconds later.
SchTriggerDone(c) ==
    /\ c.kind = "trigger" /\ c.step = "done" /\ schPage' = schPage
    /\ schCalls' = (schCalls \ {c}) \cup {[List EXCEPT !.n = c.n, !.kind = "timer"]}
    /\ UNCHANGED schSpoilt

SchTimer(c) ==
    /\ c.kind = "timer" /\ schPage' = SchLoading(schPage)
    /\ schCalls' = (schCalls \ {c}) \cup {[c EXCEPT !.kind = "list"]}
    /\ UNCHANGED schSpoilt

\* Mutant: the dialog goes on waiting.
SchFails_waits(c) ==
    /\ c.kind \notin {"list", "timer"} /\ SchAnswered(c) /\ schCalls' = schCalls \ {c}
    /\ schPage' = IF schPage.dialog # None /\ schPage.dialog.n = c.n
                  THEN schPage ELSE schPage
    /\ schSpoilt' = TRUE

\* A failure, or an answer that is lost: the dialog that sent it stays open.
SchFails(c) ==
    /\ c.kind \notin {"list", "timer"} /\ SchAnswered(c) /\ schCalls' = schCalls \ {c}
    /\ schPage' = IF schPage.dialog # None /\ schPage.dialog.n = c.n
                  THEN [schPage EXCEPT !.dialog.n = None] ELSE schPage
    /\ schSpoilt' = TRUE

SchArrive(c) ==
    /\ SchListArrives(c) \/ SchChanged(c) \/ SchTriggerDone(c) \/ SchTimer(c) \/ SchFails(c)
    /\ UNCHANGED <<schRows, schJobs, schAsked, schServed, schLeft, schLoose>>

-----------------------------------------------------------------------------

SchInit ==
    /\ schRows = SchRows0
    /\ schJobs = { Job(s, schRows[s], TRUE) : s \in { t \in DOMAIN schRows : schRows[t]["on"] } }
    /\ schPage = [shown |-> [s \in {} |-> None], loading |-> TRUE, dialog |-> None, at |-> 0]
    /\ schAsked = 0 /\ schCalls = {List}
    /\ schServed = 0 /\ schLeft = SchRestarts /\ schLoose = {} /\ schSpoilt = FALSE

SchUser ==
    \/ SchRefresh \/ SchFill \/ SchSubmit \/ SchCancel
    \/ \E s \in Schedules \cup {None} : SchOpen(s)
    \/ \E s \in Schedules : SchToggle(s) \/ SchDelete(s) \/ SchTrigger(s)

SchProgress == \E c \in schCalls : SchServe(c) \/ SchListServed(c) \/ SchArrive(c)

SchNext == SchUser \/ SchProgress \/ SchRestart

\* Requests are served and answered, and timers fire.
SchSpec == SchInit /\ [][SchNext]_schVars /\ WF_schVars(SchProgress)

-----------------------------------------------------------------------------
(* Properties.                                                               *)

SchTables == UNION { [S -> Content] : S \in SUBSET Schedules }

\* Types of the variables of the page, the handlers and the cron manager.
SchTypeOK ==
    /\ schRows \in SchTables
    /\ schJobs \subseteq [id : Schedules, row : Content, tracked : BOOLEAN]
    /\ schPage.shown \in SchTables /\ schPage.loading \in BOOLEAN /\ schPage.at \in 0 .. schServed
    /\ schPage.dialog \in {None} \cup [of : Schedules \cup {None}, form : Content, n : 0 .. SchAsks \cup {None},
                                       target : {"tests", "session"}]
    /\ \A c \in schCalls : c.form \in Content \cup {None} /\ c.n \in 0 .. SchAsks
    /\ schAsked \in 0 .. SchAsks /\ schLoose \subseteq Schedules /\ schSpoilt \in BOOLEAN

\* When no handler works on a schedule, the cron manager fires it exactly if it
\* is stored and enabled, once, and with what is stored: an edit, a deletion or
\* a restart leaves no old job behind.  Exceptions: two handlers worked on it at
\* the same time, or the row could not be read back.
JobsFollowRows ==
    \A s \in Schedules \ schLoose :
        (\A c \in schCalls : c.id = s => ~Handling(c))
        => { j \in schJobs : j.id = s } =
           IF s \in DOMAIN schRows /\ schRows[s]["on"] THEN {Job(s, schRows[s], TRUE)} ELSE {}

\* When nothing is under way the page shows what is stored, although changes,
\* timers and refreshes each load the list and their answers overlap.
\* Exceptions: an answer was lost, or overtook a later one.
SchFreshAtRest == schCalls = {} /\ ~schSpoilt => schPage.shown = schRows

\* The list is hidden behind the spinner, or the dialog's button is disabled.
SchWaiting == schPage.loading \/ (schPage.dialog # None /\ schPage.dialog.n # None)
=============================================================================
