------------------------------ MODULE RunNotes ------------------------------
(* The notes of a run (web/src/components/run-notes.tsx and the note handlers):*)
(* notes are sent, deleted and listed by requests that overlap.                *)
EXTENDS Integers, FiniteSets

CONSTANTS RnNotes0, \* number of notes when the page is opened
          RnAsks,   \* bound: notes the user sends and deletes
          RnFaults  \* bound: requests that fail

ASSUME RnAssumption == RnNotes0 \in Nat /\ RnAsks \in Nat /\ RnFaults \in Nat

VARIABLES
    rnStored, \* numbers of the notes that are stored
    rnNext,   \* number of the next one
    rnPage,   \* [notes, typed, sending, loading]: what is shown; typed: the input is not empty
    rnCalls,  \* requests under way: [kind, note, done, got, stale]
    rnAsked,  \* notes sent and deleted so far
    rnLeft,   \* faults left
    rnSpoilt  \* history: the list shown was out of date on arrival, or its answer was lost

rnVars == <<rnStored, rnNext, rnPage, rnCalls, rnAsked, rnLeft, rnSpoilt>>

RnCall(kind, note) == [kind |-> kind, note |-> note, done |-> FALSE, got |-> {}, stale |-> FALSE]
RnList(sender) == RnCall("list", sender)

-----------------------------------------------------------------------------
(* The server.                                                               *)

RnServeCreate(c) ==
    /\ c.kind = "create" /\ rnStored' = rnStored \cup {rnNext} /\ rnNext' = rnNext + 1
    /\ rnCalls' = (rnCalls \ {c}) \cup {[c EXCEPT !.done = TRUE, !.note = rnNext]}

RnServeDelete(c) ==
    /\ c.kind = "delete" /\ rnStored' = rnStored \ {c.note} /\ UNCHANGED rnNext
    /\ rnCalls' = (rnCalls \ {c}) \cup {[c EXCEPT !.done = TRUE]}

RnServeList(c) ==
    /\ c.kind = "list" /\ UNCHANGED <<rnStored, rnNext>>
    /\ rnCalls' = (rnCalls \ {c}) \cup {[c EXCEPT !.done = TRUE, !.got = rnStored]}

RnServe(c) ==
    /\ ~c.done /\ (RnServeCreate(c) \/ RnServeDelete(c) \/ RnServeList(c))
    /\ UNCHANGED <<rnPage, rnAsked, rnLeft, rnSpoilt>>

-----------------------------------------------------------------------------
(* The page.                                                                 *)

RnMayAsk == rnAsked < RnAsks /\ rnAsked' = rnAsked + 1

\* The input stays enabled while a note is sent.
RnType ==
    /\ ~rnPage.typed /\ rnAsked < RnAsks /\ rnPage' = [rnPage EXCEPT !.typed = TRUE]
    /\ UNCHANGED <<rnCalls, rnAsked>>

RnSubmit ==
    /\ rnPage.typed /\ ~rnPage.sending /\ RnMayAsk /\ rnPage' = [rnPage EXCEPT !.sending = TRUE]
    /\ rnCalls' = rnCalls \cup {RnCall("create", 0)}

\* The notes and their delete buttons are there once the first list is.
RnDelete ==
    /\ ~rnPage.loading /\ RnMayAsk /\ UNCHANGED rnPage
    /\ \E n \in rnPage.notes : rnCalls' = rnCalls \cup {RnCall("delete", n)}

RnUser == (RnType \/ RnSubmit \/ RnDelete) /\ UNCHANGED <<rnStored, rnNext, rnLeft, rnSpoilt>>

\* Lists read before a note came or went do not have it right.
RnOutdated(calls, c) ==
    { IF d.kind = "list" /\ d.done /\ (c.note \in d.got) = (c.kind = "delete") THEN [d EXCEPT !.stale = TRUE] ELSE d
      : d \in calls }

\* Mutant: the notes are not listed again.
RnCreated_noReload(c) ==
    /\ c.kind = "create" /\ rnPage' = [rnPage EXCEPT !.typed = FALSE]
    /\ rnCalls' = RnOutdated(rnCalls \ {c}, c) /\ UNCHANGED rnSpoilt

\* The note is stored: the input is emptied, whatever it holds by now, and the
\* notes are listed again.
RnCreated(c) ==
    /\ c.kind = "create" /\ rnPage' = [rnPage EXCEPT !.typed = FALSE]
    /\ rnCalls' = RnOutdated(rnCalls \ {c}, c) \cup {RnList(c.note)} /\ UNCHANGED rnSpoilt

RnDeleted(c) ==
    /\ c.kind = "delete" /\ rnPage' = [rnPage EXCEPT !.notes = @ \ {c.note}]
    /\ rnCalls' = RnOutdated(rnCalls \ {c}, c) /\ UNCHANGED rnSpoilt

\* The list asked for after a note has been sent ends the sending.
RnListed(c) ==
    /\ c.kind = "list" /\ rnCalls' = rnCalls \ {c} /\ rnSpoilt' = c.stale
    /\ rnPage' = [rnPage EXCEPT !.notes = c.got, !.loading = FALSE, !.sending = @ /\ c.note = 0]

\* A request fails, or its answer is lost; every failure is caught.
RnFails(c) ==
    /\ rnLeft > 0 /\ rnLeft' = rnLeft - 1 /\ rnSpoilt' = TRUE
    /\ rnCalls' = IF c.done /\ c.kind # "list" THEN RnOutdated(rnCalls \ {c}, c) ELSE rnCalls \ {c}
    /\ rnPage' = CASE c.kind = "create" -> [rnPage EXCEPT !.sending = FALSE]
                   [] c.kind = "list"   -> [rnPage EXCEPT !.loading = FALSE, !.sending = @ /\ c.note = 0]
                   [] c.kind = "delete" -> rnPage

RnAnswer(c) ==
    /\ \/ c.done /\ (RnCreated(c) \/ RnDeleted(c) \/ RnListed(c)) /\ UNCHANGED rnLeft
       \/ RnFails(c)
    /\ UNCHANGED <<rnStored, rnNext, rnAsked>>

-----------------------------------------------------------------------------

RnInit ==
    /\ rnStored = 1 .. RnNotes0 /\ rnNext = RnNotes0 + 1 /\ rnAsked = 0 /\ rnLeft = RnFaults /\ rnSpoilt = FALSE
    /\ rnPage = [notes |-> {}, typed |-> FALSE, sending |-> FALSE, loading |-> TRUE]
    /\ rnCalls = {RnList(0)}

RnProgress == \E c \in rnCalls : RnServe(c) \/ RnAnswer(c)
RnNext == RnUser \/ RnProgress

\* Requests are served and answered.
RnSpec == RnInit /\ [][RnNext]_rnVars /\ WF_rnVars(RnProgress)

-----------------------------------------------------------------------------
(* Properties.                                                               *)

\* When nothing is under way the notes shown are those stored, although a list
\* and a deletion each change what is shown.  Exceptions: a failure since the
\* last list, and a list that arrives after the answer to a change it missed.
RnShowsStored == rnCalls = {} /\ ~rnSpoilt => rnPage.notes = rnStored

\* A note is being sent, and the button that sends it disabled.
RnWaiting == rnPage.sending
=============================================================================
