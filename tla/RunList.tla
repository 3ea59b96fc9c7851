------------------------------ MODULE RunList ------------------------------
(* The list of runs (web/src/components/test-list.tsx, its runs tab): filters, *)
(* pages and deletion, over requests that are never cancelled, and the two     *)
(* queries of RunRepo.List that answer them.                                   *)
EXTENDS Integers, Sequences, Functions, SeqFilter, Absent

CONSTANTS RlRuns0,   \* the runs when the tab is opened, newest first: Seq([id, class])
          RlClasses, \* what a filter can ask for
          RlSizes,   \* page sizes
          RlSize0,   \* the one at first
          RlAsks,    \* bound: actions of the user, changes of the store and failures
          RlFaults   \* bound: requests that fail, each in place of an action

RlRun == [id : Nat, class : RlClasses]

ASSUME RlAssumption ==
    /\ RlSizes \subseteq Nat \ {0} /\ RlSize0 \in RlSizes /\ None \notin RlClasses
    /\ RlRuns0 \in Seq(RlRun)
    /\ RlAsks \in Nat /\ RlFaults \in Nat

VARIABLES
    rlRuns,  \* the runs that are stored, newest first
    rlPage,  \* [filter, page, size, rows, total, loading]: the tab; None filters nothing
    rlCalls, \* requests under way: [what, id, n, filter, page, size, total, rows]
    rlAsked, \* actions, changes and failures so far
    rlLeft,  \* faults left
    rlLast,  \* number of the last request for what is chosen
    rlFresh, \* history: what is shown answers the last request, and nothing changed since it was read
    rlMoved  \* history: the page was chosen by a pager out of date, or is past its end, or runs moved since

rlVars == <<rlRuns, rlPage, rlCalls, rlAsked, rlLeft, rlLast, rlFresh, rlMoved>>

RlMatching(runs, filter) == Filter(runs, { r \in Range(runs) : filter = None \/ r.class = filter })

\* LIMIT and OFFSET over ORDER BY created_at DESC.
RlRowsOf(runs, c) ==
    LET m == RlMatching(runs, c.filter)
    IN  SubSeq(m, c.page * c.size + 1, IF Len(m) < (c.page + 1) * c.size THEN Len(m) ELSE (c.page + 1) * c.size)

-----------------------------------------------------------------------------
(* The server.  A request counts the runs first and selects the page after.  *)

RlCount(c) ==
    /\ c.what = "list" /\ c.total = None
    /\ rlCalls' = (rlCalls \ {c}) \cup {[c EXCEPT !.total = Len(RlMatching(rlRuns, c.filter))]}
    /\ UNCHANGED rlRuns

RlSelect(c) ==
    /\ c.what = "list" /\ c.total # None /\ c.rows = None
    /\ rlCalls' = (rlCalls \ {c}) \cup {[c EXCEPT !.rows = RlRowsOf(rlRuns, c)]}
    /\ UNCHANGED rlRuns

\* What has been read before a change is no longer what is stored.
RlTouched(calls) == { IF c.what = "list" /\ c.total # None THEN [c EXCEPT !.n = 0] ELSE c : c \in calls }

RlDeleteRow(c) ==
    /\ c.what = "delete" /\ rlRuns' = Filter(rlRuns, { r \in Range(rlRuns) : r.id # c.id })
    /\ rlCalls' = RlTouched(rlCalls \ {c}) \cup {[c EXCEPT !.what = "deleted"]}

RlServe(c) ==
    /\ RlCount(c) \/ RlSelect(c) \/ RlDeleteRow(c)
    /\ rlFresh' = (rlFresh /\ rlRuns' = rlRuns) /\ rlMoved' = (rlMoved \/ rlRuns' # rlRuns)
    /\ UNCHANGED <<rlPage, rlAsked, rlLeft, rlLast>>

\* A run changes its status, so that another filter finds it.
RlChange ==
    /\ rlAsked < RlAsks /\ rlAsked' = rlAsked + 1
    /\ \E i \in DOMAIN rlRuns, k \in RlClasses : k # rlRuns[i].class /\ rlRuns' = [rlRuns EXCEPT ![i].class = k]
    /\ rlCalls' = RlTouched(rlCalls) /\ rlFresh' = FALSE /\ rlMoved' = TRUE
    /\ UNCHANGED <<rlPage, rlLeft, rlLast>>

-----------------------------------------------------------------------------
(* The tab.                                                                  *)

\* Mutant: the request is made for the filter before.
RlLoad_before(p, n, calls) ==
    /\ rlLast' = n /\ rlFresh' = FALSE
    /\ rlCalls' = calls \cup {[what |-> "list", id |-> 0, n |-> n, filter |-> rlPage.filter,
                               page |-> p.page, size |-> p.size,
                               total |-> None, rows |-> None]}

\* loadAllRuns, as it was made for a filter, a page and a size; n orders the
\* requests, and 0 is one that is not about what is chosen now.
RlLoad(p, n, calls) ==
    /\ rlLast' = n /\ rlFresh' = FALSE
    /\ rlCalls' = calls \cup {[what |-> "list", id |-> 0, n |-> n, filter |-> p.filter,
                               page |-> p.page, size |-> p.size,
                               total |-> None, rows |-> None]}

\* A filter, a page or a size is chosen: when it is another one, the effect loads.
RlChoose(p) ==
    LET q == [rlPage EXCEPT !.filter = p.filter, !.page = p.page, !.size = p.size]
    IN  /\ q # rlPage /\ rlPage' = [q EXCEPT !.loading = TRUE] /\ RlLoad(q, 2 * rlAsked + 2, rlCalls)

\* Mutant: a new filter keeps the page.
RlFilter_samePage ==
    /\ \E f \in RlClasses \cup {None} : RlChoose([rlPage EXCEPT !.filter = f])
    /\ rlMoved' = FALSE

RlFilter ==
    /\ \E f \in RlClasses \cup {None} : RlChoose([rlPage EXCEPT !.filter = f, !.page = 0])
    /\ rlMoved' = FALSE

\* The pager is only there when there is more than a page, of what has been
\* answered last.
RlPaged == rlPage.total > rlPage.size

RlResize == RlPaged /\ rlMoved' = FALSE /\ \E s \in RlSizes : RlChoose([rlPage EXCEPT !.size = s, !.page = 0])

RlTurn ==
    /\ RlPaged
    /\ \/ rlPage.page > 0 /\ RlChoose([rlPage EXCEPT !.page = @ - 1])
       \/ (rlPage.page + 1) * rlPage.size < rlPage.total /\ RlChoose([rlPage EXCEPT !.page = @ + 1])
    /\ rlMoved' = ~(rlFresh /\ rlPage'.page * rlPage.size < rlPage.total)

RlRefresh ==
    /\ rlPage' = [rlPage EXCEPT !.loading = TRUE] /\ RlLoad(rlPage, 2 * rlAsked + 2, rlCalls)
    /\ UNCHANGED rlMoved

\* The rows of the table with their delete buttons; the reload after it is the
\* one of the row's rendering.
RlDelete ==
    /\ ~rlPage.loading /\ UNCHANGED <<rlPage, rlLast, rlFresh, rlMoved>>
    /\ \E i \in DOMAIN rlPage.rows :
         rlCalls' = rlCalls \cup {[what |-> "delete", id |-> rlPage.rows[i].id, n |-> 0,
                                    filter |-> rlPage.filter, page |-> rlPage.page,
                                   size |-> rlPage.size, total |-> None, rows |-> None]}

RlUser ==
    /\ RlFilter \/ RlResize \/ RlTurn \/ RlRefresh \/ RlDelete
    /\ rlAsked < RlAsks /\ rlAsked' = rlAsked + 1 /\ UNCHANGED <<rlRuns, rlLeft>>

RlArrives(c) ==
    /\ c.what = "list" /\ c.rows # None /\ rlCalls' = rlCalls \ {c}
    /\ rlPage' = [rlPage EXCEPT !.rows = c.rows, !.total = c.total, !.loading = FALSE]
    /\ rlFresh' = (c.n # 0 /\ c.n = rlLast)
    /\ UNCHANGED <<rlAsked, rlLeft, rlLast>>

RlDeleted(c) ==
    /\ c.what = "deleted"
    /\ LET asked == <<c.filter, c.page, c.size>> = <<rlPage.filter, rlPage.page, rlPage.size>>
       IN  RlLoad(c, IF asked THEN 2 * rlAsked + 1 ELSE 0, rlCalls \ {c})
    /\ rlPage' = [rlPage EXCEPT !.loading = TRUE] /\ UNCHANGED <<rlAsked, rlLeft>>

\* A request fails, or its answer is lost.
RlFails(c) ==
    /\ rlLeft > 0 /\ rlLeft' = rlLeft - 1 /\ rlAsked < RlAsks /\ rlAsked' = rlAsked + 1
    /\ rlCalls' = rlCalls \ {c} /\ rlFresh' = FALSE
    /\ rlPage' = IF c.what = "list" THEN [rlPage EXCEPT !.loading = FALSE] ELSE rlPage
    /\ UNCHANGED rlLast

RlAnswer(c) == (RlArrives(c) \/ RlDeleted(c) \/ RlFails(c)) /\ UNCHANGED <<rlRuns, rlMoved>>

-----------------------------------------------------------------------------

RlInit ==
    /\ rlRuns = RlRuns0 /\ rlAsked = 0 /\ rlLeft = RlFaults /\ rlLast = 1 /\ rlFresh = FALSE /\ rlMoved = FALSE
    /\ rlPage = [filter |-> None, page |-> 0, size |-> RlSize0, rows |-> <<>>, total |-> 0, loading |-> TRUE]
    /\ rlCalls = {[what |-> "list", id |-> 0, n |-> 1, filter |-> None, page |-> 0, size |-> RlSize0,
                   total |-> None, rows |-> None]}

RlProgress == \E c \in rlCalls : RlServe(c) \/ RlAnswer(c)
RlNext == RlUser \/ RlChange \/ RlProgress

\* Requests are served and answered.
RlSpec == RlInit /\ [][RlNext]_rlVars /\ WF_rlVars(RlProgress)

-----------------------------------------------------------------------------
(* Properties.                                                               *)

RlAtRest == rlCalls = {} /\ rlFresh

\* When nothing is under way the table shows the page of the runs that the
\* filters above it ask for.  Exceptions: the last request failed or was
\* overtaken by one asked before it, as none is cancelled; a deletion reloaded
\* for the filters of before; or the store changed meanwhile.
RlShowsFilter ==
    RlAtRest => rlPage.rows = RlRowsOf(rlRuns, rlPage) /\ rlPage.total = Len(RlMatching(rlRuns, rlPage.filter))

\* "No runs found" is true.  Exceptions: runs went away while their page was
\* shown, or it was turned before the answer to a new filter was there: then the
\* page can be past the end, and with a single page left its pager is gone.
RlEmptyIsTrue ==
    RlAtRest /\ ~rlMoved /\ rlPage.rows = <<>> => RlMatching(rlRuns, rlPage.filter) = <<>>

\* There is a spinner in place of the table.
RlWaiting == rlPage.loading
=============================================================================
