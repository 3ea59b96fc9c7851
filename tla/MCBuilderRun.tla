---------------------------- MODULE MCBuilderRun ----------------------------
EXTENDS BuilderRun

E(k, s) == [kind |-> k, step |-> s]
C(s, v) == [kind |-> "completed", step |-> s, status |-> v]
End == [kind |-> "ended"]

MCScripts == [passed |-> <<E("started", 0), C(0, "passed"), End>>,
              failed |-> <<E("started", 0), C(0, "failed"), End>>]
MCRecordings == {<<[step |-> 0, checks |-> 1, status |-> "passed"], [step |-> 1, checks |-> 0, status |-> "failed"]>>}
MCDebugged == {{}, {[kind |-> "debug"]}}

B(r, p, d, t, s) == [runs |-> r, polls |-> p, drops |-> d, toggles |-> t, scrubs |-> s]
MCBounds == {B(2, 2, 0, 0, FALSE), B(1, 1, 1, 2, TRUE)}
MCTwoLive == {B(2, 1, 0, 1, FALSE)}
=============================================================================
