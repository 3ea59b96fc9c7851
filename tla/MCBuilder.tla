------------------------------ MODULE MCBuilder ------------------------------
(* What is edited before anything runs: the diagram of a test, or the service  *)
(* catalog, one page open at a time.  There are two stored tests, one with     *)
(* parts the diagram does not carry and with a step of no stated dependency,   *)
(* the other with an edge; and two stored services, a gRPC one whose host      *)
(* offers what is stored and a REST one whose host offers something else.      *)
EXTENDS Builder, Catalog, TLC

VARIABLE at  \* the page that is open

all == <<at, vars, catVars>>

CONSTANTS t1, t2, t3, a, b, n

S(name, deps, extract) == [name |-> name, deps |-> deps, extract |-> extract, mapped |-> FALSE]

MCStored == (t1 :> [id |-> t1, extra |-> TRUE, steps |-> <<S(a, None, TRUE), S(b, None, FALSE)>>])
         @@ (t2 :> [id |-> t2, extra |-> FALSE, steps |-> <<S(b, {a}, FALSE), S(a, {}, FALSE)>>])

MCTyped == {[id |-> t3, extra |-> FALSE, steps |-> <<S(a, None, TRUE), S(n, {}, FALSE)>>]}
MCAnswers == {[id |-> t2, extra |-> FALSE, steps |-> <<S(n, None, FALSE)>>]}

MCLinks == {{}, {[kind |-> "load", test |-> t1]}, {[kind |-> "debug", test |-> t2]},
            {[kind |-> "catalog", name |-> n]}}

MCRows == [s \in {"g", "r"} |->
    [target |-> "h", ops |-> IF s = "g" THEN {"o"} ELSE {"p"}, error |-> FALSE, drift |-> "no"]]
MCHosts == [t \in CatTargets |-> [s \in CatServices |-> {"o"}]]
MCOffers == {None, {"p"}}

InBuilder(A) == at = "builder" /\ A /\ UNCHANGED <<at, catVars>>
InCatalog(A) == at = "catalog" /\ A /\ UNCHANGED <<at, vars>>

\* How the builder would have been opened makes no difference to the catalog.
MCInit == at \in {"builder", "catalog"} /\ Init /\ CatInit /\ (at = "catalog" => calls = {})
MCNext == InBuilder(Next) \/ InCatalog(CatNext)
MCSpec == MCInit /\ [][MCNext]_all
=============================================================================
