-------------------------- MODULE GridFeedInLimiter --------------------------
(***************************************************************************)
(* "Grid Feed-In Optimizer": a control loop that keeps register 1038 at    *)
(* the surplus the grid may not take.  Switching it off cancels the loop   *)
(* and waits for it; removing the entity cancels it without waiting, and   *)
(* the loop's own `finally' restores the limit when nobody else does.      *)
(***************************************************************************)
EXTENDS ChargeLimitBus

CONSTANTS GridCalls,    \* service calls on the switch that can be under way
          GridLoops,    \* identities of control loops; bounds how many overlap
          GridSurplus   \* charge limits the loop can compute

\* A call is not a loop, neither is "nobody", and there is a loop to start.
ASSUME GridIdentities ==
    /\ GridCalls \cap GridLoops = {} /\ NoOne \notin GridLoops
    /\ GridCalls # {} => GridLoops # {}

VARIABLES
    limPc,       \* where each call and each loop is suspended
    limOn,       \* _is_on
    limSnap,     \* _original_charge_limit
    limHandled,  \* _restore_handled_in_turn_off
    limTask,     \* _task
    limJoin      \* the loop that async_turn_off awaits

limVars == <<limPc, limOn, limSnap, limHandled, limTask, limJoin>>

GridTasks == GridCalls \cup GridLoops

GridInit ==
    /\ limPc = [t \in GridTasks |-> "idle"]
    /\ limOn = FALSE
    /\ limSnap = NoWatts
    /\ limHandled = FALSE
    /\ limTask = NoOne
    /\ limJoin = [c \in GridCalls |-> NoOne]

GridTypeOK ==
    /\ limPc \in [GridTasks ->
                    {"idle", "snapshot", "join", "restore", "remove", "gone",
                     "read", "write", "sleep", "cancelled", "restoring", "aborted"}]
    /\ limOn \in BOOLEAN
    /\ limSnap \in Nat \cup {NoWatts}
    /\ limHandled \in BOOLEAN
    /\ limTask \in GridLoops \cup {NoOne}
    /\ limJoin \in [GridCalls -> GridLoops \cup {NoOne}]

GridMayCall(c, useful) ==
    /\ limPc[c] = "idle"
    /\ "overlap" \in Habits \/ \A d \in GridCalls : limPc[d] = "idle"
    /\ "redundant" \in Habits \/ useful

\* Loops that no call refers to any more.
FreeGridLoops ==
    {l \in GridLoops : limPc[l] = "idle" /\ \A c \in GridCalls : limJoin[c] # l}

\* Bound: a call that may start a loop is made only if an identity is left, so
\* that GridEngage finds one.
GridLoopLeft ==
    Cardinality(FreeGridLoops) > Cardinality({c \in GridCalls : limPc[c] = "snapshot"})

\* The loop in _task that _cancel_control cancels, if any.
RunningGridLoops == {l \in GridLoops : l = limTask /\ limPc[l] # "idle"}

\* limPc once _cancel_control has cancelled: the loop leaves its body, or the
\* restoring write of its `finally'.
GridCancelled ==
    [t \in GridTasks |->
        IF t \notin RunningGridLoops THEN limPc[t]
        ELSE IF limPc[t] = "restoring" THEN "aborted" ELSE "cancelled"]

-----------------------------------------------------------------------------
(* The service calls.                                                      *)

\* async_turn_on after the snapshot: acquire 1038 or raise and keep the
\* snapshot; cancel the old loop without waiting and start a new one, which
\* runs up to its first read at once.
GridEngage(c, snapshot) ==
    /\ limSnap' = snapshot
    /\ \/ /\ ~CanAcquire(OWNER_GRID_FEEDIN)
          /\ GoOn(c)
          /\ limPc' = [limPc EXCEPT ![c] = "idle"]
          /\ UNCHANGED <<owner, limOn, limTask>>
       \/ /\ CanAcquire(OWNER_GRID_FEEDIN) /\ FreeGridLoops # {}
          /\ owner' = OWNER_GRID_FEEDIN
          /\ limOn' = TRUE
          /\ LET l == CHOOSE x \in FreeGridLoops : TRUE
             IN /\ limTask' = l
                /\ limPc' = [GridCancelled EXCEPT ![c] = "idle", ![l] = "read"]
                /\ bus' = Append(DropFrom(bus, RunningGridLoops), ReadOf(l, "misc"))
          /\ backoff' = BackoffWithout(RunningGridLoops)
          /\ resp' = [t \in Tasks |->
                        IF t \in RunningGridLoops \cup {c} THEN Silence ELSE resp[t]]
          /\ UNCHANGED <<reg, closing>>
    /\ UNCHANGED limJoin

GridTurnOn(c) ==
    /\ GridMayCall(c, ~limOn) /\ GridLoopLeft
    /\ limHandled' = FALSE
    /\ \/ /\ limSnap # NoWatts
          /\ GridEngage(c, limSnap)
       \/ /\ limSnap = NoWatts
          /\ Await(c, ReadOf(c, "1038"))
          /\ limPc' = [limPc EXCEPT ![c] = "snapshot"]
          /\ UNCHANGED <<owner, limOn, limSnap, limTask, limJoin>>

GridSnapshot(c) ==
    /\ limPc[c] = "snapshot"
    /\ Replied(c)
    /\ GridEngage(c, IF Succeeded(c) THEN resp[c].val ELSE limSnap)
    /\ UNCHANGED limHandled

\* The frames of a cancelled loop are gone; call c awaits the restoring write.
GridRestore(c, pcs, to) ==
    /\ limPc' = [pcs EXCEPT ![c] = to]
    /\ bus' = Append(DropFrom(bus, RunningGridLoops),
                     WriteOf(c, "1038", LimitOr(limSnap, DeviceLimit)))
    /\ limSnap' = NoWatts

\* async_turn_off: the flag tells the loop's `finally' to stay out of it.
GridTurnOff(c) ==
    /\ GridMayCall(c, limOn)
    /\ limOn' = FALSE
    /\ limHandled' = TRUE
    /\ limTask' = NoOne
    /\ \/ /\ RunningGridLoops # {}
          /\ limPc' = [GridCancelled EXCEPT ![c] = "join"]
          /\ limJoin' = [limJoin EXCEPT ![c] = limTask]
          /\ bus' = DropFrom(bus, RunningGridLoops)
          /\ UNCHANGED limSnap
       \/ /\ RunningGridLoops = {}
          /\ GridRestore(c, limPc, "restore")
          /\ UNCHANGED limJoin
    /\ backoff' = BackoffWithout(RunningGridLoops)
    /\ resp' = [t \in Tasks |-> IF t \in RunningGridLoops THEN Silence ELSE resp[t]]
    /\ UNCHANGED <<owner, reg, closing>>

\* The cancelled loop has ended.
GridJoined(c) ==
    /\ limPc[c] = "join"
    /\ limPc[limJoin[c]] = "idle"
    /\ limJoin' = [limJoin EXCEPT ![c] = NoOne]
    /\ limPc' = [limPc EXCEPT ![c] = "restore"]
    /\ Await(c, WriteOf(c, "1038", LimitOr(limSnap, DeviceLimit)))
    /\ limSnap' = NoWatts
    /\ UNCHANGED <<owner, limOn, limHandled, limTask>>

\* The restoring write is answered; a failure is only logged.
GridTurnedOff(c) ==
    /\ limPc[c] \in {"restore", "remove"}
    /\ Replied(c)
    /\ owner' = AfterRelease(OWNER_GRID_FEEDIN)
    /\ GoOn(c)
    /\ limPc' = [limPc EXCEPT ![c] = IF @ = "restore" THEN "idle" ELSE "gone"]
    /\ UNCHANGED <<limOn, limSnap, limHandled, limTask, limJoin>>

\* async_will_remove_from_hass: cancel without waiting, restore if on.
GridRemove(c) ==
    /\ limPc[c] = "idle"
    /\ limTask' = NoOne
    /\ limOn' = FALSE
    /\ \/ /\ limOn
          /\ GridRestore(c, GridCancelled, "remove")
       \/ /\ ~limOn
          /\ limPc' = [GridCancelled EXCEPT ![c] = "gone"]
          /\ bus' = DropFrom(bus, RunningGridLoops)
          /\ UNCHANGED limSnap
    /\ backoff' = BackoffWithout(RunningGridLoops)
    /\ resp' = [t \in Tasks |-> IF t \in RunningGridLoops THEN Silence ELSE resp[t]]
    /\ UNCHANGED <<owner, reg, closing, limHandled, limJoin>>

-----------------------------------------------------------------------------
(* The control loop.                                                       *)

\* Both `finally' blocks are over: release 1038 unless async_turn_off will.
GridLoopEnd(l) ==
    /\ limHandled' = FALSE
    /\ owner' = IF limHandled THEN owner ELSE AfterRelease(OWNER_GRID_FEEDIN)
    /\ GoOn(l)
    /\ limPc' = [limPc EXCEPT ![l] = "idle"]

\* Mutant: the loop restores although async_turn_off will.
GridLoopFinallyTwice(l) ==
    /\ limOn' = FALSE
    /\ Await(l, WriteOf(l, "1038", LimitOr(limSnap, DeviceLimit)))
    /\ limSnap' = NoWatts
    /\ limPc' = [limPc EXCEPT ![l] = "restoring"]
    /\ UNCHANGED <<owner, limHandled, limTask, limJoin>>

\* The outer `finally': switch off, and restore unless async_turn_off does.
GridLoopFinally(l) ==
    /\ limOn' = FALSE
    /\ \/ /\ ~limHandled
          /\ Await(l, WriteOf(l, "1038", LimitOr(limSnap, DeviceLimit)))
          /\ limSnap' = NoWatts
          /\ limPc' = [limPc EXCEPT ![l] = "restoring"]
          /\ UNCHANGED <<owner, limHandled>>
       \/ /\ limHandled
          /\ GridLoopEnd(l)
          /\ UNCHANGED limSnap
    /\ UNCHANGED <<limTask, limJoin>>

\* Loop l sleeps until its next cycle.
GridSleep(l) ==
    /\ GoOn(l)
    /\ limPc' = [limPc EXCEPT ![l] = "sleep"]
    /\ UNCHANGED <<owner, limOn, limSnap, limHandled, limTask, limJoin>>

\* The telemetry is in: incomplete readings skip the cycle.
GridMeasured(l) ==
    /\ limPc[l] = "read"
    /\ Replied(l)
    /\ \/ GridSleep(l)
       \/ /\ Succeeded(l)
          /\ \E w \in GridSurplus : Await(l, WriteOf(l, "1038", w))
          /\ limPc' = [limPc EXCEPT ![l] = "write"]
          /\ UNCHANGED <<owner, limOn, limSnap, limHandled, limTask, limJoin>>

\* The new limit is written, or could not be; or publishing the state raises.
GridWritten(l) ==
    /\ limPc[l] = "write"
    /\ Replied(l)
    /\ \/ GridSleep(l)
       \/ "crash" \in Faults /\ GridLoopFinally(l)

GridTick(l) ==
    /\ limPc[l] = "sleep"
    /\ \/ /\ limOn
          /\ Await(l, ReadOf(l, "misc"))
          /\ limPc' = [limPc EXCEPT ![l] = "read"]
          /\ UNCHANGED <<owner, limOn, limSnap, limHandled, limTask, limJoin>>
       \/ /\ ~limOn
          /\ GridLoopFinally(l)

\* The CancelledError arrives in the loop's body.
GridLoopCancelled(l) ==
    /\ limPc[l] = "cancelled"
    /\ GridLoopFinally(l)

\* The restoring write of the `finally' is answered, or was cancelled.
GridLoopRestored(l) ==
    /\ \/ limPc[l] = "restoring" /\ Replied(l)
       \/ limPc[l] = "aborted"
    /\ GridLoopEnd(l)
    /\ UNCHANGED <<limOn, limSnap, limTask, limJoin>>

GridGone == \E c \in GridCalls : limPc[c] \in {"remove", "gone"}

\* Somebody calls the switch.
GridCall == \E c \in GridCalls : ~GridGone /\ (GridTurnOn(c) \/ GridTurnOff(c))

\* A coroutine of the switch goes on.
GridGoOn(t) ==
    \/ /\ t \in GridCalls
       /\ \/ GridSnapshot(t)
          \/ GridJoined(t)
          \/ GridTurnedOff(t)
    \/ /\ t \in GridLoops
       /\ \/ GridMeasured(t)
          \/ GridWritten(t)
          \/ GridTick(t)
          \/ GridLoopCancelled(t)
          \/ GridLoopRestored(t)

GridRemoval == \E c \in GridCalls : ~GridGone /\ GridRemove(c)

GridQuiet ==
    /\ \A c \in GridCalls : limPc[c] \in {"idle", "gone"}
    /\ \A l \in GridLoops : limPc[l] \in {"idle", "sleep"}
=============================================================================
