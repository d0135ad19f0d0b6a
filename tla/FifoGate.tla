------------------------------ MODULE FifoGate ------------------------------
(***************************************************************************)
(* What RequestScheduler promises its callers: a gate that lets one task   *)
(* through at a time, in the order of arrival of those that did not give   *)
(* up.                                                                     *)
(***************************************************************************)
CONSTANT Tasks

VARIABLES inside,   \* the task let through, as a set of at most one
          waiting,  \* the tasks waiting outside
          before    \* the pairs of them of which the first was there first

vars == <<inside, waiting, before>>

Init == inside = {} /\ waiting = {} /\ before = {}

Arrive(t) ==
    /\ t \notin inside \cup waiting
    /\ waiting' = waiting \cup {t}
    /\ before' = before \cup (waiting \X {t})
    /\ UNCHANGED inside

\* Nobody inside and nobody waiting: straight through.
WalkIn(t) ==
    /\ inside = {} /\ waiting = {}
    /\ inside' = {t}
    /\ UNCHANGED <<waiting, before>>

\* t no longer waits.
Departs(t) ==
    /\ t \in waiting
    /\ waiting' = waiting \ {t}
    /\ before' = before \cap (waiting' \X waiting')

\* Nobody was there before t.
Admit(t) ==
    /\ inside = {}
    /\ \A u \in waiting : <<u, t>> \notin before
    /\ Departs(t)
    /\ inside' = {t}

GiveUp(t) == Departs(t) /\ UNCHANGED inside

Leave ==
    /\ inside # {}
    /\ inside' = {}
    /\ UNCHANGED <<waiting, before>>

Next ==
    \/ \E t \in Tasks : Arrive(t) \/ WalkIn(t) \/ Admit(t) \/ GiveUp(t)
    \/ Leave

Spec == Init /\ [][Next]_vars
=============================================================================
