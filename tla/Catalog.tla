------------------------------ MODULE Catalog -------------------------------
(* The service catalog: the page (web/src/components/service-catalog.tsx and   *)
(* catalog-detail-drawer.tsx) and the service behind it (catalog_service.go),  *)
(* which asks the hosts what they offer, stores it and compares it with what   *)
(* it was.  Health and latency are left out, and so is the coverage by tests:  *)
(* their requests are there, their numbers are not.                            *)
EXTENDS Integers, FiniteSets, Sequences, Functions, Absent

CONSTANTS CatGrpc,       \* the gRPC services, by name
          CatRest,       \* the REST services
          CatTargets,    \* hosts
          CatOps,        \* operations: methods and endpoints
          CatRows0,      \* the rows that are stored when the page is opened
          CatHosts0,     \* what the hosts offer then: [CatTargets -> [service -> operations or None]]
          CatOffers,     \* what a host may come to offer of a service
          CatAsks,       \* bound: actions of the user, and changes of the hosts
          CatFaults      \* bound: requests that fail and hosts that do not answer

CatServices == CatGrpc \cup CatRest
CatRow == [target : CatTargets, ops : {None} \cup SUBSET CatOps, error : BOOLEAN, drift : {"no", "more", "less"}]

ASSUME CatAssumption ==
    /\ IsFiniteSet(CatServices) /\ CatGrpc \cap CatRest = {}
    /\ None \notin CatServices \cup CatTargets \cup CatOps /\ None # {}
    /\ DOMAIN CatRows0 \subseteq CatServices /\ \A s \in DOMAIN CatRows0 : CatRows0[s] \in CatRow
    /\ CatHosts0 \in [CatTargets -> [CatServices -> {None} \cup SUBSET CatOps]]
    /\ CatOffers \subseteq {None} \cup SUBSET CatOps /\ CatAsks \in Nat /\ CatFaults \in Nat

VARIABLES
    catRows,   \* service_catalog: per service [target, ops, error, drift]; ops is None before the first sync
    catHosts,  \* what the hosts offer
    catCalls,  \* requests under way
    catPage,   \* [filter, search, rows, loading, syncing, checking, one, group, report]
    catForms,  \* [add, edit, busy, target, seen, import, importing]; seen is what was found at a host
    catDrawer, \* [id, op, sending, result]: the drawer, and the operation that is tried in it
    catAsked, catLeft,
    catNoted,  \* history: operations reported as removed
    catLost,   \* history: operations that a sync took out of a row nobody else wrote meanwhile
    catAstray  \* history: what is shown came from a request that failed, was for another filter or read too early

catServer == <<catRows, catHosts, catNoted, catLost>>
catVars == <<catServer, catCalls, catPage, catForms, catDrawer, catAsked, catLeft, catAstray>>

CatOf(rows, filter) ==
    Restrict(rows, DOMAIN rows \cap CASE filter = None -> CatServices [] filter = "grpc" -> CatGrpc [] OTHER -> CatRest)

-----------------------------------------------------------------------------
(* The server.                                                               *)

\* The other requests when the rows of some services have been written: lists
\* read before are out of date, syncs compare with what was there before, and
\* what is being deleted may be there again.
CatWritten(calls, ids) ==
    { IF c.what = "list" /\ c.rows # None THEN [c EXCEPT !.good = FALSE]
      ELSE IF c.what = "sync" /\ c.jobs # None
        THEN [c EXCEPT !.jobs = { [j EXCEPT !.alone = j.alone /\ j.id \notin ids] : j \in c.jobs }]
      ELSE IF c.what = "delete" THEN [c EXCEPT !.alone = c.alone /\ c.ids \cap ids = {}]
      ELSE c : c \in calls }

\* c becomes d, and the rows of ids are written.
CatWrites(c, d, ids) == catCalls' = CatWritten(catCalls \ {c}, ids) \cup {d}
CatBecomes(c, d) == catCalls' = (catCalls \ {c}) \cup {d}

\* UPDATE ... WHERE id: nothing, when the row has been deleted.
CatUpdated(id, change) ==
    [s \in DOMAIN catRows |->
        IF s # id THEN catRows[s]
        ELSE [f \in DOMAIN catRows[s] |-> IF f \in DOMAIN change THEN change[f] ELSE catRows[s][f]]]

\* Upsert leaves alone what was found.
CatUpserted(rows, id, target) ==
    [s \in DOMAIN rows \cup {id} |->
        IF s # id THEN rows[s]
        ELSE IF id \in DOMAIN rows THEN [rows[id] EXCEPT !.target = target]
        ELSE [target |-> target, ops |-> None, error |-> FALSE, drift |-> "no"]]

CatReadList(c) ==
    /\ c.what = "list" /\ c.rows = None
    /\ CatBecomes(c, [c EXCEPT !.rows = CatOf(catRows, c.filter), !.good = TRUE])
    /\ UNCHANGED catServer

CatJob(id) == [id |-> id, old |-> catRows[id].ops, target |-> catRows[id].target,
                found |-> None, step |-> "reach", alone |-> TRUE]

\* SyncAll lists the rows and begins its report, SyncOne gets its own.
CatReadRows(c) ==
    /\ c.what = "sync" /\ c.jobs = None
    /\ LET ids == IF c.id = None THEN DOMAIN catRows ELSE DOMAIN catRows \cap {c.id}
       IN  CatBecomes(c, [c EXCEPT !.jobs = { CatJob(i) : i \in ids }, !.failed = c.id # None /\ ids = {},
                                   !.report = [@ EXCEPT !.total = Cardinality(ids), !.synced = 0, !.failed = 0]])
    /\ UNCHANGED catServer

CatFound(j) ==
    LET offer == catHosts[j.target][j.id]
    IN  IF offer # None THEN [j EXCEPT !.found = offer, !.step = "found"]
        ELSE [j EXCEPT !.step = IF j.id \in CatGrpc THEN "missing" ELSE "error"]

\* One goroutine per host of gRPC services and one per REST service; a host is
\* reached, or not.
CatReach(c) ==
    /\ c.what = "sync" /\ c.jobs # None /\ UNCHANGED catServer
    /\ \E j \in c.jobs :
         LET group == IF j.id \in CatGrpc THEN { k \in c.jobs : k.id \in CatGrpc /\ k.target = j.target } ELSE {j}
         IN  /\ j.step = "reach"
             /\ \/ CatBecomes(c, [c EXCEPT !.jobs = (@ \ group) \cup { CatFound(k) : k \in group }])
                   /\ UNCHANGED catLeft
                \/ /\ catLeft > 0 /\ catLeft' = catLeft - 1
                   /\ CatBecomes(c, [c EXCEPT !.jobs = (@ \ group) \cup { [k EXCEPT !.step = "error"] : k \in group }])

\* The goroutines share the lock of the report.
CatLocked(c, j) == \A k \in c.jobs \ {j} : k.step # "noted"

\* Mutant: a service its host does not know is left out of the report.
CatRefuse_uncounted(c, j) ==
    /\ j.step \in {"error", "missing"} /\ CatLocked(c, j)
    /\ catRows' = CatUpdated(j.id, [error |-> TRUE])
    /\ CatWrites(c, [c EXCEPT !.jobs = @ \ {j}, !.report.failed = IF j.step = "error" THEN @ + 1 ELSE @,
                              !.failed = c.id # None /\ j.step = "error"], {j.id})
    /\ UNCHANGED <<catHosts, catNoted, catLost>>

\* UpdateSyncError; SyncOne answers with an error unless the host was there.
CatRefuse(c, j) ==
    /\ j.step \in {"error", "missing"} /\ CatLocked(c, j)
    /\ catRows' = CatUpdated(j.id, [error |-> TRUE])
    /\ CatWrites(c, [c EXCEPT !.jobs = @ \ {j}, !.report.failed = @ + 1,
                              !.failed = c.id # None /\ j.step = "error"], {j.id})
    /\ UNCHANGED <<catHosts, catNoted, catLost>>

\* Mutant: what counts is how many operations there are.
CatRemoved_fewer(j) ==
    IF j.old = None \/ Cardinality(j.found) >= Cardinality(j.old) THEN {} ELSE j.old \ j.found

CatRemoved(j) == IF j.old = None THEN {} ELSE j.old \ j.found

\* recordDrift and triggerDriftAlert.
CatNote(c, j) ==
    /\ j.step = "found" /\ CatLocked(c, j)
    /\ LET drift == IF CatRemoved(j) # {} THEN "less"
                    ELSE IF j.old \notin {None, {}} /\ j.found \ j.old # {} THEN "more" ELSE "no"
       IN  catRows' = CatUpdated(j.id, [drift |-> drift])
    /\ catNoted' = catNoted \cup ({j.id} \X CatRemoved(j))
    /\ CatWrites(c, [c EXCEPT !.jobs = (@ \ {j}) \cup {[j EXCEPT !.step = "noted"]}], {j.id})
    /\ UNCHANGED <<catHosts, catLost>>

\* UpdateCatalog.
CatStore(c, j) ==
    /\ j.step = "noted"
    /\ catRows' = CatUpdated(j.id, [ops |-> j.found, error |-> FALSE])
    /\ catLost' = IF j.alone /\ j.id \in DOMAIN catRows /\ catRows[j.id].ops # None
                    THEN catLost \cup ({j.id} \X (catRows[j.id].ops \ j.found)) ELSE catLost
    /\ CatWrites(c, [c EXCEPT !.jobs = @ \ {j}, !.report.synced = @ + 1], {j.id})
    /\ UNCHANGED <<catHosts, catNoted>>

CatSync(c) ==
    \/ CatReadRows(c) /\ UNCHANGED catLeft
    \/ CatReach(c)
    \/ /\ c.what = "sync" /\ c.jobs # None /\ UNCHANGED catLeft
       /\ \E j \in c.jobs : CatRefuse(c, j) \/ CatNote(c, j) \/ CatStore(c, j)

CatUpsert(c) ==
    /\ c.what = "save" /\ catRows' = CatUpserted(catRows, c.id, c.target)
    /\ CatWrites(c, [c EXCEPT !.what = "saved"], {c.id}) /\ UNCHANGED <<catHosts, catNoted, catLost>>

\* BulkUpsert: the other services of the protocol go.
CatBulkUpsert(c) ==
    /\ c.what = "import"
    /\ LET of == IF DOMAIN c.rows \subseteq CatGrpc THEN CatGrpc ELSE CatRest
           kept == Restrict(catRows, DOMAIN catRows \ (of \ DOMAIN c.rows))
       IN  /\ catRows' = [s \in DOMAIN kept \cup DOMAIN c.rows |->
                            IF s \in DOMAIN c.rows THEN CatUpserted(kept, s, c.rows[s])[s] ELSE kept[s]]
           /\ CatWrites(c, [c EXCEPT !.what = "imported"], of)
    /\ UNCHANGED <<catHosts, catNoted, catLost>>

CatReflect(c) ==
    /\ c.what = "discover"
    /\ LET there == { s \in CatGrpc : catHosts[c.target][s] # None }
       IN  CatBecomes(c, [c EXCEPT !.what = "found", !.failed = there = {},
                                   !.todo = { [id |-> s, ops |-> catHosts[c.target][s]] : s \in there \cap c.only }])
    /\ UNCHANGED catServer

\* Upsert and UpdateCatalog, without a look at what was there.
CatKeep(c) ==
    /\ c.what = "found"
    /\ \E s \in c.todo :
         /\ catRows' = [CatUpserted(catRows, s.id, c.target) EXCEPT ![s.id].ops = s.ops, ![s.id].error = FALSE]
         /\ CatWrites(c, [c EXCEPT !.todo = @ \ {s}], {s.id})
    /\ UNCHANGED <<catHosts, catNoted, catLost>>

CatDelete(c) ==
    /\ c.what = "delete"
    /\ \E s \in c.todo :
         /\ catRows' = Restrict(catRows, DOMAIN catRows \ {s})
         /\ CatWrites(c, [c EXCEPT !.todo = @ \ {s}], {s})
    /\ UNCHANGED <<catHosts, catNoted, catLost>>

CatServe(c) ==
    /\ \/ CatSync(c)
       \/ /\ CatReadList(c) \/ CatUpsert(c) \/ CatBulkUpsert(c) \/ CatReflect(c) \/ CatKeep(c) \/ CatDelete(c)
          /\ UNCHANGED catLeft
    /\ UNCHANGED <<catPage, catForms, catDrawer, catAsked, catAstray>>

CatHostChanges ==
    /\ catAsked < CatAsks /\ catAsked' = catAsked + 1
    /\ \E t \in CatTargets, s \in CatServices, o \in CatOffers :
         o # catHosts[t][s] /\ catHosts' = [catHosts EXCEPT ![t][s] = o]
    /\ UNCHANGED <<catRows, catNoted, catLost, catCalls, catPage, catForms, catDrawer, catLeft, catAstray>>

-----------------------------------------------------------------------------
(* The page.                                                                 *)

CatList(n, for, filter) ==
    [what |-> "list", n |-> n, for |-> for, filter |-> filter, rows |-> None, good |-> FALSE]

\* load, as the handler's page had it: for the filter that was chosen then.
CatLoad(c, p, calls) ==
    /\ catPage' = [p EXCEPT !.loading = TRUE]
    /\ catCalls' = calls \cup {CatList(c.n, c.for, c.filter)}

CatSyncCall(n, for, filter, id, rest) ==
    [what |-> "sync", n |-> n, for |-> for, filter |-> filter, id |-> id, rest |-> rest,
     jobs |-> None, failed |-> FALSE,
     report |-> [total |-> 0, synced |-> 0, failed |-> 0, n |-> IF catCalls = {} THEN n ELSE 0]]

\* The filter of the page has its effect.
CatFilter ==
    \E f \in {None, "grpc", "rest"} \ {catPage.filter} :
      CatLoad([n |-> catAsked, for |-> "effect", filter |-> f], [catPage EXCEPT !.filter = f], catCalls)

\* A search text finds some of the services.
CatSearch == \E S \in SUBSET CatServices : catPage' = [catPage EXCEPT !.search = S] /\ UNCHANGED catCalls

CatDismiss == catPage.report # None /\ catPage' = [catPage EXCEPT !.report = None] /\ UNCHANGED catCalls

CatAsk(p, c) == catPage' = p /\ catCalls' = catCalls \cup {c}

CatSyncAll ==
    /\ ~catPage.syncing /\ DOMAIN catPage.rows # {}
    /\ CatAsk([catPage EXCEPT !.syncing = TRUE, !.report = None],
              CatSyncCall(catAsked + 2, "all", catPage.filter, None, {}))

CatCheckHealth ==
    /\ ~catPage.checking /\ DOMAIN catPage.rows # {}
    /\ CatAsk([catPage EXCEPT !.checking = TRUE],
              [what |-> "health", n |-> catAsked, for |-> "health", filter |-> catPage.filter])

\* What the table shows; it is replaced by a skeleton while the page loads.
CatTable == IF catPage.loading THEN {} ELSE DOMAIN catPage.rows \cap catPage.search
CatGroup(t) == { s \in CatTable : catPage.rows[s].target = t }

CatSyncRow ==
    \E s \in CatTable \ {catPage.one} :
      CatAsk([catPage EXCEPT !.one = s], CatSyncCall(catAsked, "one", catPage.filter, s, {}))

CatSyncGroup ==
    \E t \in CatTargets \ {catPage.group}, s \in CatTable :
      /\ s \in CatGroup(t) /\ Cardinality(CatGroup(t)) > 1
      /\ CatAsk([catPage EXCEPT !.group = t], CatSyncCall(catAsked, "group", catPage.filter, s, CatGroup(t) \ {s}))

CatDeleteCall(ids, target) ==
    [what |-> "delete", n |-> catAsked, for |-> "delete", filter |-> catPage.filter, target |-> target,
     ids |-> ids, todo |-> ids, broken |-> FALSE, alone |-> TRUE]

CatDeletes ==
    \/ \E s \in CatTable : CatAsk(catPage, CatDeleteCall({s}, None))
    \/ \E t \in CatTargets : Cardinality(CatGroup(t)) > 1 /\ CatAsk(catPage, CatDeleteCall(CatGroup(t), t))

\* The form that is shown: of a service that is edited, of a new one, or none.
CatForm(f) == IF f.edit # None THEN f.edit ELSE IF f.add THEN "new" ELSE None

\* Another form starts empty, and what was asked in the one before no longer
\* changes it.
CatShow(f, calls) ==
    LET other == CatForm(f) # CatForm(catForms)
    IN  /\ catForms' = [f EXCEPT !.busy = @ /\ ~other, !.target = IF other THEN None ELSE @,
                                !.seen = IF other THEN None ELSE @,
                                !.importing = @ /\ f.import /\ catForms.import]
        /\ catCalls' = { IF \/ other /\ c.for = "form"
                            \/ c.for = "import" /\ ~(f.import /\ catForms.import)
                           THEN [c EXCEPT !.for = "none"] ELSE c : c \in calls }

CatForms ==
    /\ \/ CatShow([catForms EXCEPT !.add = TRUE, !.edit = None, !.import = FALSE], catCalls)
       \/ CatShow([catForms EXCEPT !.import = TRUE, !.add = FALSE], catCalls)
       \/ \E s \in CatTable : CatShow([catForms EXCEPT !.edit = s, !.add = FALSE, !.import = FALSE], catCalls)
       \/ CatForm(catForms) # None /\ CatShow([catForms EXCEPT !.edit = None, !.add = FALSE], catCalls)
       \/ catForms.import /\ CatShow([catForms EXCEPT !.import = FALSE], catCalls)
    /\ UNCHANGED catPage

CatFormCall(what, id, target, only) ==
    [what |-> what, n |-> catAsked, for |-> "form", filter |-> catPage.filter, id |-> id, target |-> target,
     edit |-> catForms.edit, only |-> only, todo |-> {}, failed |-> FALSE]

CatSend(c) ==
    /\ CatForm(catForms) # None /\ ~catForms.busy /\ catForms' = [catForms EXCEPT !.busy = TRUE, !.target = c.target]
    /\ catCalls' = catCalls \cup {c} /\ UNCHANGED catPage

\* A service that is edited, or a REST one, is saved; new gRPC ones are looked
\* for at their host, and those chosen of what was found there are kept.
CatSave ==
    \E t \in CatTargets, s \in IF catForms.edit # None THEN {catForms.edit} ELSE CatRest :
        CatSend(CatFormCall("save", s, t, {}))

CatPreview ==
    /\ catForms.edit = None /\ catForms.seen = None
    /\ \E t \in CatTargets : CatSend(CatFormCall("preview", None, t, {}))

CatDiscover ==
    /\ catForms.edit = None /\ catForms.seen # None
    /\ \E S \in (SUBSET catForms.seen) \ {{}} : CatSend(CatFormCall("discover", None, catForms.target, S))

\* Another host is typed: what was found at the one before goes, unless it is
\* still being asked.
CatRetype ==
    /\ CatForm(catForms) = "new" /\ catForms.target # None /\ UNCHANGED <<catPage, catCalls>>
    /\ \E t \in CatTargets \ {catForms.target} : catForms' = [catForms EXCEPT !.target = t, !.seen = None]

CatImport ==
    /\ catForms.import /\ ~catForms.importing /\ UNCHANGED catPage
    /\ catForms' = [catForms EXCEPT !.importing = TRUE]
    /\ \E t \in CatTargets, S \in ((SUBSET CatGrpc) \cup (SUBSET CatRest)) \ {{}} :
         catCalls' = catCalls \cup {[what |-> "import", n |-> catAsked, for |-> "import", filter |-> catPage.filter,
                                    rows |-> [s \in S |-> t]]}

-----------------------------------------------------------------------------
(* The drawer.                                                               *)

\* The operation of the drawer is shown, to be tried.
CatTries(d, rows) == d.id \in DOMAIN rows /\ rows[d.id].ops # None /\ d.op \in rows[d.id].ops

\* The drawer becomes d over rows.  Without its service it is not shown and
\* forgets its operation; another operation starts over, and an answer to the
\* one before is for nobody.
CatDraw(d, rows, calls) ==
    LET e == IF d.id \in DOMAIN rows THEN d ELSE [d EXCEPT !.op = None]
        goesOn == /\ CatTries(catDrawer, catPage.rows) /\ CatTries(e, rows)
                  /\ <<e.id, e.op>> = <<catDrawer.id, catDrawer.op>>
    IN  /\ catDrawer' = IF goesOn THEN e ELSE [e EXCEPT !.sending = FALSE, !.result = None]
        /\ catCalls' = IF goesOn THEN calls
                       ELSE { IF c.for = "try" THEN [c EXCEPT !.for = "none"] ELSE c : c \in calls }

\* Mutant: another service keeps the operation that was chosen.
CatOpen_keepsOp ==
    \E s \in DOMAIN catPage.rows \ {catDrawer.id} : catDrawer' = [catDrawer EXCEPT !.id = s] /\ UNCHANGED catCalls

\* From a row or, also while another is open, from the palette.
CatOpen ==
    \E s \in DOMAIN catPage.rows \ {catDrawer.id} :
        CatDraw([catDrawer EXCEPT !.id = s, !.op = None], catPage.rows, catCalls)

CatClose == catDrawer.id # None /\ CatDraw([catDrawer EXCEPT !.id = None], catPage.rows, catCalls)

CatSelect ==
    /\ catDrawer.id \in DOMAIN catPage.rows /\ ~CatTries(catDrawer, catPage.rows)
    /\ catPage.rows[catDrawer.id].ops # None
    /\ \E o \in catPage.rows[catDrawer.id].ops : CatDraw([catDrawer EXCEPT !.op = o], catPage.rows, catCalls)

CatBack == CatTries(catDrawer, catPage.rows) /\ CatDraw([catDrawer EXCEPT !.op = None], catPage.rows, catCalls)

CatTry ==
    /\ CatTries(catDrawer, catPage.rows) /\ ~catDrawer.sending
    /\ catDrawer' = [catDrawer EXCEPT !.sending = TRUE, !.result = None]
    /\ catCalls' = catCalls \cup {[what |-> "invoke", n |-> catAsked, for |-> "try",
                                id |-> catDrawer.id, op |-> catDrawer.op]}

CatDrawer == (CatOpen \/ CatClose \/ CatSelect \/ CatBack \/ CatTry) /\ UNCHANGED <<catPage, catForms>>

\* What changes something at the server counts twice against the bound, as a
\* load does, the rest once.
CatUser ==
    /\ \/ /\ CatFilter \/ CatSyncAll \/ CatCheckHealth \/ CatSyncRow \/ CatSyncGroup \/ CatDeletes
          /\ catAsked' = catAsked + 2 /\ UNCHANGED <<catForms, catDrawer>>
       \/ (CatSave \/ CatDiscover \/ CatImport) /\ catAsked' = catAsked + 2 /\ UNCHANGED catDrawer
       \/ (CatSearch \/ CatDismiss) /\ catAsked' = catAsked + 1 /\ UNCHANGED <<catForms, catDrawer>>
       \/ (CatForms \/ CatPreview \/ CatRetype) /\ catAsked' = catAsked + 1 /\ UNCHANGED catDrawer
       \/ CatDrawer /\ catAsked' = catAsked + 1
    /\ catAsked' <= CatAsks /\ UNCHANGED <<catServer, catLeft, catAstray>>

-----------------------------------------------------------------------------
(* Answers.                                                                  *)

\* Mutant: only a load that was answered ends what it was for.
CatReleased_health(for) ==
    /\ catPage' = CASE for = "all" -> [catPage EXCEPT !.syncing = FALSE]
                     [] for = "one" -> [catPage EXCEPT !.one = None]
                     [] for = "group" -> [catPage EXCEPT !.group = None]
                     [] OTHER -> catPage
    /\ catForms' = [catForms EXCEPT !.busy = @ /\ for # "form", !.importing = @ /\ for # "import"]

\* The end of a handler: its button is enabled again.
CatReleased(for) ==
    /\ catPage' = CASE for = "all" -> [catPage EXCEPT !.syncing = FALSE]
                     [] for = "health" -> [catPage EXCEPT !.checking = FALSE]
                     [] for = "one" -> [catPage EXCEPT !.one = None]
                     [] for = "group" -> [catPage EXCEPT !.group = None]
                     [] OTHER -> catPage
    /\ catForms' = [catForms EXCEPT !.busy = @ /\ for # "form", !.importing = @ /\ for # "import"]

CatOver(c, astray) ==
    /\ CatReleased(c.for) /\ catCalls' = catCalls \ {c} /\ catAstray' = (catAstray \/ astray) /\ UNCHANGED catDrawer

\* The rows are answered, or the request failed and there are none.
CatListed(c, rows, good) ==
    /\ catPage' = [catPage EXCEPT !.rows = rows, !.loading = FALSE]
    /\ CatDraw([catDrawer EXCEPT !.result = IF catDrawer.id \in CatRest THEN None ELSE @], rows,
               (catCalls \ {c}) \cup {[what |-> "coverage", n |-> c.n, for |-> c.for]})
    /\ catAstray' = ~(good /\ c.filter = catPage.filter) /\ UNCHANGED catForms

\* What follows a sync or a check: the next of the group, or a load.
CatGoesOn(c, p) ==
    /\ IF c.for = "group" /\ c.rest # {}
         THEN /\ catPage' = p
              /\ \E s \in c.rest :
                   catCalls' = (catCalls \ {c}) \cup {CatSyncCall(c.n, c.for, c.filter, s, c.rest \ {s})}
         ELSE CatLoad(c, p, catCalls \ {c})
    /\ UNCHANGED <<catForms, catDrawer, catAstray>>

\* Mutant: the sync of one service is not followed by a load.
CatSynced_noLoad(c) ==
    /\ c.what = "sync" /\ c.jobs = {}
    /\ IF c.for = "one" THEN CatOver(c, c.failed)
       ELSE CatGoesOn(c, IF c.for = "all" THEN [catPage EXCEPT !.report = c.report] ELSE catPage)

CatSynced(c) ==
    /\ c.what = "sync" /\ c.jobs = {}
    /\ IF c.for = "one" /\ c.failed THEN CatOver(c, TRUE)
       ELSE CatGoesOn(c, IF c.for = "all" THEN [catPage EXCEPT !.report = c.report] ELSE catPage)

\* Every form for services closes, whichever was saved; an edited one is synced.
CatClosed(c, f, calls) ==
    /\ CatShow(f, calls) /\ catPage' = [catPage EXCEPT !.loading = @ \/ \E d \in calls \ catCalls : d.what = "list"]
    /\ UNCHANGED <<catDrawer, catAstray>>

CatKept(c) ==
    LET load == CatList(c.n, "none", c.filter)
    IN  \/ /\ c.what = "saved"
           /\ CatClosed(c, [catForms EXCEPT !.add = FALSE, !.edit = None],
                (catCalls \ {c}) \cup {IF c.edit # None THEN CatSyncCall(c.n, "none", c.filter, c.edit, {}) ELSE load})
        \/ /\ c.what = "found" /\ c.todo = {} /\ ~c.failed
           /\ CatClosed(c, [catForms EXCEPT !.add = FALSE, !.edit = None], (catCalls \ {c}) \cup {load})
        \/ /\ c.what = "imported"
           /\ CatClosed(c, [catForms EXCEPT !.import = FALSE], (catCalls \ {c}) \cup {load})
        \/ c.what = "found" /\ c.todo = {} /\ c.failed /\ CatOver(c, FALSE)

CatPreviewed(c) ==
    /\ c.what = "preview" /\ catCalls' = catCalls \ {c} /\ UNCHANGED <<catPage, catDrawer, catAstray>>
    /\ LET there == { s \in CatGrpc : catHosts[c.target][s] # None }
       IN  catForms' = IF c.for # "form" THEN catForms
                       ELSE [catForms EXCEPT !.busy = FALSE,
                                             !.seen = IF there = {} THEN @ ELSE there]

\* Of a group, all rows of its host go from the page, found by the search or not.
CatDeleted(c) ==
    /\ c.what = "delete" /\ c.todo = {} /\ UNCHANGED catForms
    /\ LET gone == IF c.broken THEN {}
                   ELSE IF c.target = None THEN c.ids
                   ELSE { s \in DOMAIN catPage.rows : catPage.rows[s].target = c.target }
           rows == Restrict(catPage.rows, DOMAIN catPage.rows \ gone)
       IN  /\ catPage' = [catPage EXCEPT !.rows = rows] /\ CatDraw(catDrawer, rows, catCalls \ {c})
           /\ catAstray' = (\/ catAstray \/ c.broken \/ ~c.alone
                            \/ gone \cap DOMAIN catPage.rows # c.ids \cap DOMAIN catPage.rows)

CatInvoked(c) ==
    /\ c.what = "invoke" /\ catCalls' = catCalls \ {c} /\ UNCHANGED <<catPage, catForms, catAstray>>
    /\ catDrawer' = IF c.for = "try" THEN [catDrawer EXCEPT !.sending = FALSE, !.result = <<c.id, c.op>>] ELSE catDrawer

CatArrives(c) ==
    /\ \/ c.what = "list" /\ c.rows # None /\ CatListed(c, c.rows, c.good)
       \/ c.what = "coverage" /\ CatOver(c, FALSE)
       \/ c.what = "health" /\ CatGoesOn(c, catPage)
       \/ CatSynced(c) \/ CatKept(c) \/ CatPreviewed(c) \/ CatDeleted(c) \/ CatInvoked(c)
    /\ UNCHANGED catLeft

\* A request fails or its answer is lost.  A sync or a list ends with it; one of
\* the deletions of a group fails alone, and the first to fail loads the page.
CatFails(c) ==
    /\ catLeft > 0 /\ catLeft' = catLeft - 1
    /\ \/ c.what = "list" /\ CatListed(c, << >>, FALSE)
       \/ /\ c.what = "sync" /\ c.for = "all" /\ catForms' = catForms /\ UNCHANGED catDrawer
          /\ catPage' = [catPage EXCEPT !.syncing = FALSE,
                                              !.report = [total |-> 0, synced |-> 0, failed |-> 0, n |-> 0]]
          /\ catCalls' = catCalls \ {c} /\ catAstray' = TRUE
       \/ c.what = "sync" /\ c.for \in {"group", "none"} /\ CatGoesOn(c, catPage)
       \/ c.what = "sync" /\ c.for = "one" /\ CatOver(c, TRUE)
       \/ c.what \in {"health", "coverage", "preview"} /\ CatOver(c, FALSE)
       \/ c.what \in {"save", "saved", "import", "imported", "discover", "found"} /\ CatOver(c, TRUE)
       \/ /\ c.what = "delete" /\ UNCHANGED <<catForms, catDrawer, catAstray>>
          /\ \E s \in c.todo :
               LET d == [c EXCEPT !.todo = @ \ {s}, !.broken = TRUE]
               IN  IF c.target = None \/ c.broken THEN catPage' = catPage /\ CatBecomes(c, d)
                   ELSE CatLoad(c, catPage, (catCalls \ {c}) \cup {d})

CatAnswer(c) == (CatArrives(c) \/ CatFails(c)) /\ UNCHANGED <<catServer, catAsked>>

-----------------------------------------------------------------------------

CatInit ==
    /\ catRows = CatRows0 /\ catHosts = CatHosts0 /\ catNoted = {} /\ catLost = {}
    /\ catAsked = 0 /\ catLeft = CatFaults
    /\ catPage = [filter |-> None, search |-> CatServices, rows |-> << >>, loading |-> TRUE,
                syncing |-> FALSE, checking |-> FALSE,
                  one |-> None, group |-> None, report |-> None]
    /\ catForms = [add |-> FALSE, edit |-> None, busy |-> FALSE, target |-> None, seen |-> None,
                 import |-> FALSE, importing |-> FALSE]
    /\ catDrawer = [id |-> None, op |-> None, sending |-> FALSE, result |-> None]
    /\ catCalls = {CatList(0, "effect", None)} /\ catAstray = TRUE

CatProgress == \E c \in catCalls : CatServe(c) \/ CatAnswer(c)
CatNext == CatUser \/ CatHostChanges \/ CatProgress

CatSpec == CatInit /\ [][CatNext]_catVars

-----------------------------------------------------------------------------
(* Properties.                                                               *)

\* When nothing is under way the page shows the rows that are stored, those of
\* the chosen protocol: every change is followed by a load, or by a removal that
\* does what was done.  Exceptions: a request failed, among them the sync of one
\* service whose host does not answer, after which nothing is loaded; the list
\* that came last was read before a change or asked for another filter; a group
\* was deleted and the rows that the page then has at its host are others, hidden
\* by the search or moved meanwhile; or a service was stored again before the
\* answer to its deletion came.
CatShowsStored == catCalls = {} /\ ~catAstray => catPage.rows = CatOf(catRows, catPage.filter)

\* An operation that a sync takes out of a row has been reported as removed, also
\* when the sync is one of several, hosts change in between, or the row is
\* edited, fails and is found again.  Exception: somebody else wrote the row
\* between the sync's reading and its writing.
BreakingReported == catLost \subseteq catNoted

\* The report of a sync adds up, and as long as nothing else was asked for it
\* says how many of the stored rows have an error.
ReportTrue ==
    LET r == catPage.report
    IN  r # None =>
          /\ r.total = r.synced + r.failed
          /\ r.n = catAsked /\ catCalls = {} => r.failed = Cardinality({ s \in DOMAIN catRows : catRows[s].error })

\* What the drawer shows as the answer of an operation is the answer of the
\* operation and the service it is open at, however late it came.
ResultIsOfOperation == catDrawer.result # None => catDrawer.result = <<catDrawer.id, catDrawer.op>>

\* No page is left behind its skeleton and no button disabled: what it waits for
\* is under way, and its answer or failure will be noticed, whichever form was
\* closed and whichever request overtook another.
CatButtonsWait ==
    LET for(what) == \E c \in catCalls : c.for = what
    IN  /\ catPage.loading => \E c \in catCalls : c.what = "list"
        /\ (catPage.syncing => for("all")) /\ (catPage.checking => for("health"))
        /\ (catPage.one # None => for("one")) /\ (catPage.group # None => for("group"))
        /\ (catForms.busy => for("form")) /\ (catForms.importing => for("import")) /\ (catDrawer.sending => for("try"))

\* What the page says of the services is so: the rows, what changed in them, and
\* the report of the last sync.
CatalogTrue == CatShowsStored /\ BreakingReported /\ ReportTrue

\* An answer lands where it was asked from: it releases the button that waits for
\* it, and is not taken for that of another operation.
CatAnswersLand == CatButtonsWait /\ ResultIsOfOperation
=============================================================================
