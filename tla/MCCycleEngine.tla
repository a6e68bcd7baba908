---------------------------- MODULE MCCycleEngine ----------------------------
(* Instances of CycleEngine for TLC: Planning, Implementation, Judge and one *)
(* browser validation.                                                       *)
EXTENDS CycleEngine

\* Deaths, blockers, one attempt and one extra.
Blocking == [browser |-> {4}, timed |-> {2, 4}, optional |-> {}, maxIterations |-> 1,
             maxExtra |-> 1, commands |-> {"die", "loop-back", "reopen-planning"}]

\* Reconfiguration, retries and the commands that end a cycle: two attempts
\* without ledgers, one attempt with a ledger of Implementation.
Reconfigured == [browser |-> {}, timed |-> {}, optional |-> {3}, maxIterations |-> 2,
                 maxExtra |-> 0,
                 commands |-> {"loop-back", "reopen-planning", "finish", "retry", "sync"}]
Retried == [browser |-> {}, timed |-> {2}, optional |-> {3}, maxIterations |-> 1,
            maxExtra |-> 0,
            commands |-> {"loop-back", "reopen-planning", "finish", "retry", "sync"}]

MCSnapshots == {Blocking, Reconfigured, Retried}

\* The smallest cycle whose Planning is reopened.
MCReopened == {[browser |-> {}, timed |-> {2}, optional |-> {}, maxIterations |-> 1,
                maxExtra |-> 1, commands |-> {"reopen-planning"}]}
=============================================================================
