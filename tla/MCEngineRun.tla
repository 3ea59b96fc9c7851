---------------------------- MODULE MCEngineRun -----------------------------
(* Instances of EngineRun: the manifests and requests of each run.         *)
EXTENDS EngineRun

CONSTANTS k1, k2

MCKey == {k1, k2}
MCStepName == {"a", "b", "c", "s1", "s2", "t1"}

Call(name) == [name |-> name, kind |-> "call", dependsOn |-> {},
               when |-> FALSE, retries |-> 0, extract |-> {}]

SeqsUpTo(n, S(_)) ==
  UNION {{f \in [1 .. m -> UNION {S(i) : i \in 1 .. m}] :
            \A i \in 1 .. m : f[i] \in S(i)} : m \in 0 .. n}

-----------------------------------------------------------------------------
(* Phases: no dependencies; retries, conditions, extracts, all step types. *)

SetupStep(i) == LET c == Call(IF i = 1 THEN "s1" ELSE "s2")
                IN {[c EXCEPT !.extract = {k1}], [c EXCEPT !.when = TRUE]}

MainStep(i) == LET c == Call(IF i = 1 THEN "a" ELSE "b")
               IN {[c EXCEPT !.retries = 1, !.extract = {k1}],
                   [c EXCEPT !.kind = "browser", !.extract = {k2}],
                   [c EXCEPT !.kind = "assert", !.when = TRUE],
                   [c EXCEPT !.kind = "wait"],
                   [c EXCEPT !.kind = "unknown", !.retries = 1]}

TeardownStep(i) == {[Call("t1") EXCEPT !.extract = {k1}]}

PhaseManifests ==
  [setup : SeqsUpTo(2, SetupStep), main : SeqsUpTo(2, MainStep),
   teardown : SeqsUpTo(1, TeardownStep), retries : {0}]

FreshRequests == {[resume |-> FALSE, from |-> 0, preload |-> {}]}

-----------------------------------------------------------------------------
(* Dependencies: every graph over three steps with the names a, b and c,   *)
(* or with the name a twice; the second step may be skipped by `when`.     *)

NameLists == {<<"a", "b", "c">>, <<"a", "b", "a">>}

DagLists ==
  {[i \in 1 .. 3 |-> [Call(names[i]) EXCEPT !.dependsOn = deps[i],
                                            !.when = (i = 2)]] :
     names \in NameLists, deps \in [1 .. 3 -> SUBSET {"a", "b", "c"}]}

DagManifests ==
  [setup : {<< >>}, main : DagLists, teardown : {<<Call("t1")>>}, retries : {0}]

-----------------------------------------------------------------------------
(* Resume: from any point of a manifest with or without dependencies.      *)

ResumeLists ==
  {[i \in 1 .. 3 |-> [Call(<<"a", "b", "c">>[i]) EXCEPT
       !.dependsOn = IF i = 3 THEN deps ELSE {},
       !.retries = i % 2, !.when = (i = 2), !.extract = {k1}]] :
     deps \in SUBSET {"a", "b"}}

ResumeManifests ==
  [setup : {<<Call("s1")>>}, main : ResumeLists,
   teardown : {<<Call("t1")>>}, retries : {0}]

ResumeRequests == [resume : {TRUE}, from : 0 .. 3, preload : SUBSET {k1, k2}]

AllManifests == PhaseManifests \cup ResumeManifests \cup DagManifests
AllRequests == FreshRequests \cup ResumeRequests

\* The runs of all three; the manifests of the second are not resumed, those of
\* the third stand for them.
MCInit == Init /\ (manifest \in DagManifests => ~ req.resume)
MCSpec == MCInit /\ [][Next]_vars /\ WF_vars(Next)

-----------------------------------------------------------------------------
(* The manifests of the runs that compare the code with what is said of it.*)

OneStep(s, n) ==
  [setup : {<< >>}, main : {<<s>>}, teardown : {<< >>}, retries : n]

RetryManifests == OneStep([Call("a") EXCEPT !.retries = 2], {0})
=============================================================================
