--------------------------- MODULE MCChargeControl ---------------------------
(* Small instances of ChargeControl.                                       *)
EXTENDS ChargeControl

MCTasks == AllTasks
MCPhases == <<"charge", "discharge">>
MCOnePhase == <<"charge">>

\* The optimiser and a battery test, of which the user runs one at a time:
\* each then finds the limits of the user, not those of the other.
OneAtATime ==
    \/ ~limOn /\ \A t \in GridTasks : limPc[t] = "idle"
    \/ \A s \in Suites : tstPc[s] = "idle"
RestoresSpec == Init /\ [][Next /\ OneAtATime']_vars
=============================================================================
