------------------------ MODULE BatterySocController ------------------------
(***************************************************************************)
(* The SoC controller: a loop that charges or discharges the battery until *)
(* it reaches the target state of charge, then restores automatic mode.    *)
(* Setting a target starts the loop, setting none stops and joins it.      *)
(*                                                                         *)
(* The target is abstracted to whether there is one, a reading of the SoC  *)
(* to its relation to the target.  A setpoint is -1 (charge), 0 or 1.      *)
(***************************************************************************)
EXTENDS ChargeLimitBus

CONSTANTS SocCalls,   \* set_target and stop calls that can be under way
          SocLoops,   \* identities of loops; bounds how many overlap
          MaxFails    \* MAX_CONSECUTIVE_FAILURES

ASSUME MaxFailsAssumption == MaxFails \in Nat \ {0}

\* A call is not a loop, neither is "nobody", and there is a loop to start.
ASSUME SocIdentities ==
    /\ SocCalls \cap SocLoops = {} /\ NoOne \notin SocCalls \cup SocLoops
    /\ SocCalls # {} => SocLoops # {}

VARIABLES
    socPc,      \* where each call and each loop is suspended
    socTarget,  \* _target_soc is not None
    socTask,    \* _task
    socLock,    \* the call that holds _task_lock
    socQueue,   \* the calls that wait for it
    socJoin,    \* the loop that the holder awaits
    socSnap,    \* _original_charge_limit and _original_discharge_limit
    socKept,    \* the limits a running _write_normal has picked
    socLoop     \* locals of each loop

socVars == <<socPc, socTarget, socTask, socLock, socQueue, socJoin, socSnap, socKept, socLoop>>

SocTasks == SocCalls \cup SocLoops

NoLimits == [charge |-> NoWatts, discharge |-> NoWatts]

\* was_charging, need_charge, the failure counters, and where the loop goes
\* after the _write_normal it runs.
FreshLoop ==
    [was |-> "none", need |-> "none", readFails |-> 0, writeFails |-> 0,
     after |-> "end"]

SocInit ==
    /\ socPc = [t \in SocTasks |-> "idle"]
    /\ socTarget = FALSE
    /\ socTask = NoOne
    /\ socLock = NoOne
    /\ socQueue = <<>>
    /\ socJoin = NoOne
    /\ socSnap = NoLimits
    /\ socKept = [t \in SocTasks |-> NoLimits]
    /\ socLoop = [l \in SocLoops |-> FreshLoop]

Limits == [charge : Nat \cup {NoWatts}, discharge : Nat \cup {NoWatts}]

\* Where a call or a loop can be suspended.
SocPlaces == {"idle", "start", "stop", "undo", "join",
              "normal34", "normal38", "normal40",
              "snap38", "snap40", "soc", "temp", "state",
              "drive34", "drive38", "sleep", "cancelled"}

LoopLocals ==
    [was : {"none", "charge", "discharge"}, need : {"none", "charge", "discharge"},
     readFails : 0 .. MaxFails, writeFails : 0 .. MaxFails, after : {"end", "sleep"}]

SocTypeOK ==
    /\ socPc \in [SocTasks -> SocPlaces]
    /\ socTarget \in BOOLEAN
    /\ socTask \in SocLoops \cup {NoOne}
    /\ socLock \in SocCalls \cup {NoOne}
    /\ socQueue \in Seq(SocCalls)
    /\ socJoin \in SocLoops \cup {NoOne}
    /\ socSnap \in Limits
    /\ socKept \in [SocTasks -> Limits]
    /\ socLoop \in [SocLoops -> LoopLocals]

\* The property `active' that the proxy, the bridge and the test look at.
SocActive == socTarget /\ socTask # NoOne

SocMayCall(c, useful) ==
    /\ socPc[c] = "idle"
    /\ "overlap" \in Habits \/ \A d \in SocCalls : socPc[d] = "idle"
    /\ "redundant" \in Habits \/ useful

SocGoto(t, pc) == socPc' = [socPc EXCEPT ![t] = pc]

-----------------------------------------------------------------------------
(* _write_normal: 1034, 1038 and 1040 one after the other, whatever each   *)
(* of them answers; then the snapshots are forgotten.                      *)

\* `closing or not connected': nothing is written and nothing forgotten.
NormalSkipped == closing \/ "falter" \in Faults

\* `snap' holds the snapshots at this moment.
NormalBegin(t, snap) ==
    /\ ~closing
    /\ Await(t, WriteOf(t, "1034", 0))
    /\ SocGoto(t, "normal34")
    /\ socKept' = [socKept EXCEPT ![t] =
            [charge |-> LimitOr(snap.charge, DeviceLimit),
             discharge |-> LimitOr(snap.discharge, DeviceLimit)]]

NormalNext(t) ==
    /\ Replied(t)
    /\ \/ /\ socPc[t] = "normal34"
          /\ Await(t, WriteOf(t, "1038", socKept[t].charge))
          /\ SocGoto(t, "normal38")
          /\ UNCHANGED socKept
       \/ /\ socPc[t] = "normal38"
          /\ Await(t, WriteOf(t, "1040", socKept[t].discharge))
          /\ SocGoto(t, "normal40")
          /\ socKept' = [socKept EXCEPT ![t] = NoLimits]
    /\ UNCHANGED <<owner, socTarget, socTask, socLock, socQueue, socJoin, socSnap, socLoop>>

NormalDone(t) == socPc[t] = "normal40" /\ Replied(t) /\ socSnap' = NoLimits

\* _write_normal and then release of 1038, the end of _stop and of _run_loop.
NormalThenRelease(t, snap) ==
    \/ /\ NormalBegin(t, snap)
       /\ UNCHANGED owner
    \/ /\ NormalSkipped
       /\ owner' = AfterRelease(OWNER_SOC_CONTROLLER)
       /\ GoOn(t)
       /\ SocGoto(t, "idle")
       /\ UNCHANGED socKept

-----------------------------------------------------------------------------
(* set_target and stop.                                                    *)

\* asyncio.Lock: taken at once if it is free and nobody waits, otherwise in
\* order of arrival.
LockAtOnce == socLock = NoOne /\ socQueue = <<>>
LockTurn(c) == socLock = NoOne /\ socQueue # <<>> /\ Head(socQueue) = c
LockWait(c) == socQueue' = Append(socQueue, c)

TaskRunning == socTask # NoOne /\ socPc[socTask] # "idle"

FreeSocLoops == {l \in SocLoops : socPc[l] = "idle"}

\* Bound: a call that may start a loop is made only if an identity is left.
SocLoopLeft ==
    Cardinality(FreeSocLoops) > Cardinality({c \in SocCalls : socPc[c] = "start"})

\* Mutant: a loop is started next to the one that runs.
StartLoopAnyway(c) ==
    LET l == CHOOSE x \in FreeSocLoops : TRUE
    IN /\ socTask' = l
       /\ socPc' = [socPc EXCEPT ![c] = "idle", ![l] = "snap38"]
       /\ socLoop' = [socLoop EXCEPT ![l] = FreshLoop]
       /\ bus' = Append(bus, ReadOf(l, "1038"))

\* Holding the lock: start a loop unless one runs.  It runs up to its first
\* read at once.
StartLoop(c) ==
    \/ /\ TaskRunning
       /\ SocGoto(c, "idle")
       /\ UNCHANGED <<bus, socTask, socLoop>>
    \/ /\ ~TaskRunning /\ FreeSocLoops # {}
       /\ LET l == CHOOSE x \in FreeSocLoops : TRUE
          IN /\ socTask' = l
             /\ socPc' = [socPc EXCEPT ![c] = "idle", ![l] = "snap38"]
             /\ socLoop' = [socLoop EXCEPT ![l] = FreshLoop]
             /\ bus' = Append(bus, ReadOf(l, "1038"))

\* set_target(soc): the target is set before 1038 is acquired and stays when
\* that raises.  A running battery test makes the call return at once.
SocSetTarget(c, testRunning) ==
    /\ SocMayCall(c, ~socTarget) /\ SocLoopLeft
    /\ ~testRunning
    /\ socTarget' = TRUE
    /\ \/ /\ ~CanAcquire(OWNER_SOC_CONTROLLER)
          /\ UNCHANGED <<owner, bus, socPc, socTask, socQueue, socLoop>>
       \/ /\ CanAcquire(OWNER_SOC_CONTROLLER)
          /\ owner' = OWNER_SOC_CONTROLLER
          /\ \/ LockAtOnce /\ StartLoop(c) /\ UNCHANGED socQueue
             \/ /\ ~LockAtOnce
                /\ LockWait(c)
                /\ SocGoto(c, "start")
                /\ UNCHANGED <<bus, socTask, socLoop>>
    /\ UNCHANGED <<backoff, resp, reg, closing, socLock, socJoin, socSnap, socKept>>

SocStart(c) ==
    /\ socPc[c] = "start"
    /\ LockTurn(c)
    /\ socQueue' = Tail(socQueue)
    /\ StartLoop(c)
    /\ UNCHANGED <<owner, backoff, resp, reg, closing,
                   socTarget, socLock, socJoin, socSnap, socKept>>

\* The call is cancelled while it waits for the lock; it takes the lock to
\* see whether a loop runs, and releases 1038 if none does.
SocInterrupt(c) ==
    /\ "cancel" \in Faults
    /\ socPc[c] = "start"
    /\ SocGoto(c, "undo")
    /\ socQueue' = Append(SelectSeq(socQueue, LAMBDA d : d # c), c)
    /\ UNCHANGED <<busVars, socTarget, socTask, socLock, socJoin, socSnap, socKept, socLoop>>

\* Mutant: the cancelled call leaves register 1038 taken.
SocUndoOwning(c) ==
    /\ socPc[c] = "undo"
    /\ LockTurn(c)
    /\ socQueue' = Tail(socQueue)
    /\ SocGoto(c, "idle")
    /\ UNCHANGED <<busVars, socTarget, socTask, socLock, socJoin, socSnap, socKept, socLoop>>

SocUndo(c) ==
    /\ socPc[c] = "undo"
    /\ LockTurn(c)
    /\ socQueue' = Tail(socQueue)
    /\ owner' = IF TaskRunning THEN owner ELSE AfterRelease(OWNER_SOC_CONTROLLER)
    /\ SocGoto(c, "idle")
    /\ UNCHANGED <<bus, backoff, resp, reg, closing,
                   socTarget, socTask, socLock, socJoin, socSnap, socKept, socLoop>>

\* _stop with the lock: cancel and await a running loop under the lock, or
\* reset at once.  A loop cancelled before its `try' just ends.
StopLoop(c) ==
    \/ /\ TaskRunning
       /\ socLock' = c
       /\ socJoin' = socTask
       /\ socPc' = [socPc EXCEPT ![c] = "join", ![socTask] =
                        IF @ \in {"snap38", "snap40"} THEN "idle" ELSE "cancelled"]
       /\ bus' = DropFrom(bus, {socTask})
       /\ backoff' = BackoffWithout({socTask})
       /\ resp' = [resp EXCEPT ![socTask] = Silence]
       /\ UNCHANGED <<owner, reg, closing, socTask, socKept>>
    \/ /\ ~TaskRunning
       /\ socTask' = NoOne
       /\ NormalThenRelease(c, socSnap)
       /\ UNCHANGED <<socLock, socJoin>>

\* set_target(None), or stop() when the entry is unloaded.
SocStop(c) ==
    /\ SocMayCall(c, socTarget)
    /\ socTarget' = FALSE
    /\ \/ LockAtOnce /\ StopLoop(c) /\ UNCHANGED socQueue
       \/ /\ ~LockAtOnce
          /\ LockWait(c)
          /\ SocGoto(c, "stop")
          /\ UNCHANGED <<busVars, socTask, socLock, socJoin, socKept>>
    /\ UNCHANGED <<socSnap, socLoop>>

SocStopLocked(c) ==
    /\ socPc[c] = "stop"
    /\ LockTurn(c)
    /\ socQueue' = Tail(socQueue)
    /\ StopLoop(c)
    /\ socTarget' = IF TaskRunning THEN socTarget ELSE FALSE
    /\ UNCHANGED <<socSnap, socLoop>>

\* Mutant: the lock stays taken after the join.
SocJoinedLocked(c) ==
    /\ socPc[c] = "join"
    /\ socPc[socJoin] = "idle"
    /\ socTask' = NoOne
    /\ socTarget' = FALSE
    /\ socJoin' = NoOne
    /\ NormalThenRelease(c, socSnap)
    /\ UNCHANGED <<socLock, socQueue, socSnap, socLoop>>

\* The cancelled loop has ended: the target is cleared once more.
SocJoined(c) ==
    /\ socPc[c] = "join"
    /\ socPc[socJoin] = "idle"
    /\ socTask' = NoOne
    /\ socTarget' = FALSE
    /\ socLock' = NoOne
    /\ socJoin' = NoOne
    /\ NormalThenRelease(c, socSnap)
    /\ UNCHANGED <<socQueue, socSnap, socLoop>>

SocStopped(c) ==
    /\ NormalDone(c)
    /\ owner' = AfterRelease(OWNER_SOC_CONTROLLER)
    /\ GoOn(c)
    /\ SocGoto(c, "idle")
    /\ UNCHANGED <<socTarget, socTask, socLock, socQueue, socJoin, socKept, socLoop>>

-----------------------------------------------------------------------------
(* _run_loop.                                                              *)

\* Mutant: the loop ends without going back to automatic mode.
LoopFinallyDriving(l, snap) ==
    /\ socTarget' = FALSE
    /\ socTask' = NoOne
    /\ owner' = AfterRelease(OWNER_SOC_CONTROLLER)
    /\ GoOn(l)
    /\ SocGoto(l, "idle")
    /\ socLoop' = [socLoop EXCEPT ![l] = FreshLoop]
    /\ UNCHANGED <<socLock, socQueue, socJoin, socKept>>

\* The `finally': no target, no task, automatic mode, release.
LoopFinally(l, snap) ==
    /\ socTarget' = FALSE
    /\ socTask' = NoOne
    /\ NormalThenRelease(l, snap)
    /\ socLoop' = [socLoop EXCEPT ![l] = FreshLoop]
    /\ UNCHANGED <<socLock, socQueue, socJoin>>

\* The loop awaits frame f, or sleeps, with its locals set to `locals'.
LoopAwait(l, pc, f, locals) ==
    /\ Await(l, f)
    /\ SocGoto(l, pc)
    /\ socLoop' = [socLoop EXCEPT ![l] = locals]
    /\ UNCHANGED <<owner, socTarget, socTask, socLock, socQueue, socJoin, socKept>>

LoopSleep(l, locals) ==
    /\ GoOn(l)
    /\ SocGoto(l, "sleep")
    /\ socLoop' = [socLoop EXCEPT ![l] = locals]
    /\ UNCHANGED <<owner, socTarget, socTask, socLock, socQueue, socJoin, socKept>>

\* `while self._target_soc is not None'.
LoopCycle(l, snap) ==
    \/ socTarget /\ LoopAwait(l, "soc", ReadOf(l, "misc"), socLoop[l])
    \/ ~socTarget /\ LoopFinally(l, snap)

\* _snapshot_limits, one register after the other; a failed read keeps what
\* an earlier session may have left.
LoopSnapshot(l) ==
    /\ Replied(l)
    /\ LET got(old) == IF Succeeded(l) THEN resp[l].val ELSE old
       IN \/ /\ socPc[l] = "snap38"
             /\ socSnap' = [socSnap EXCEPT !.charge = got(@)]
             /\ LoopAwait(l, "snap40", ReadOf(l, "1040"), socLoop[l])
          \/ /\ socPc[l] = "snap40"
             /\ socSnap' = [socSnap EXCEPT !.discharge = got(@)]
             /\ LoopCycle(l, [socSnap EXCEPT !.discharge = got(@)])

\* Mutant: only the exact value counts, however fast the SoC moves.
TargetHit(was, soc) == soc = "at" /\ was \in {"none", "charge", "discharge"}

\* target_reached: at the target, or past it in the direction of travel.
TargetReached(was, soc) ==
    \/ soc = "at"
    \/ was = "charge" /\ soc = "above"
    \/ was = "discharge" /\ soc = "below"

\* Mutant: a failed read is not counted.
LoopReadSocForever(l) ==
    /\ socPc[l] = "soc"
    /\ Replied(l)
    /\ \/ ~Succeeded(l) /\ LoopSleep(l, socLoop[l])
       \/ /\ Succeeded(l)
          /\ LoopFinally(l, socSnap)
    /\ UNCHANGED socSnap

\* The SoC is read.  A target cleared meanwhile makes the comparison raise.
LoopReadSoc(l) ==
    /\ socPc[l] = "soc"
    /\ Replied(l)
    /\ \/ /\ ~Succeeded(l)
          /\ LET n == socLoop[l].readFails + 1
             IN \/ n >= MaxFails /\ LoopFinally(l, socSnap)
                \/ n < MaxFails /\ LoopSleep(l, [socLoop[l] EXCEPT !.readFails = n])
       \/ /\ Succeeded(l)
          /\ \E soc \in {"below", "at", "above"} :
                \/ /\ ~socTarget \/ TargetReached(socLoop[l].was, soc)
                   /\ LoopFinally(l, socSnap)
                \/ /\ socTarget /\ ~TargetReached(socLoop[l].was, soc)
                   /\ LoopAwait(l, "temp", ReadOf(l, "misc"),
                                [socLoop[l] EXCEPT !.readFails = 0, !.need =
                                    IF soc = "below" THEN "charge" ELSE "discharge"])
    /\ UNCHANGED socSnap

\* The temperature is read: too hot resets to automatic mode and pauses.
LoopReadTemp(l) ==
    /\ socPc[l] = "temp"
    /\ Replied(l)
    /\ \/ LoopAwait(l, "state", ReadOf(l, "misc"), socLoop[l])
       \/ /\ Succeeded(l)
          /\ \/ /\ NormalBegin(l, socSnap)
                /\ socLoop' = [socLoop EXCEPT ![l].after = "sleep"]
                /\ UNCHANGED <<owner, socTarget, socTask, socLock, socQueue, socJoin>>
             \/ NormalSkipped /\ LoopSleep(l, socLoop[l])
    /\ UNCHANGED socSnap

\* The inverter state is read: off pauses, anything else drives the battery.
LoopReadState(l) ==
    /\ socPc[l] = "state"
    /\ Replied(l)
    /\ \/ Succeeded(l) /\ LoopSleep(l, socLoop[l])
       \/ LET need == socLoop[l].need
          IN LoopAwait(l, "drive34",
                       WriteOf(l, "1034", IF need = "charge" THEN -1 ELSE 1),
                       [socLoop[l] EXCEPT !.was = need])
    /\ UNCHANGED socSnap

\* The setpoint is written; to discharge, charging is blocked as well.
LoopDriven(l) ==
    /\ Replied(l)
    /\ \/ /\ socPc[l] = "drive34"
          /\ \/ /\ Succeeded(l) /\ socLoop[l].need = "charge"
                /\ LoopSleep(l, [socLoop[l] EXCEPT !.writeFails = 0])
             \/ /\ Succeeded(l) /\ socLoop[l].need = "discharge"
                /\ LoopAwait(l, "drive38", WriteOf(l, "1038", 0), socLoop[l])
             \/ /\ ~Succeeded(l)
                /\ LET n == socLoop[l].writeFails + 1
                   IN \/ n >= MaxFails /\ LoopFinally(l, socSnap)
                      \/ n < MaxFails /\ LoopSleep(l, [socLoop[l] EXCEPT !.writeFails = n])
       \/ /\ socPc[l] = "drive38"
          /\ LoopSleep(l, [socLoop[l] EXCEPT !.writeFails = 0])
    /\ UNCHANGED socSnap

LoopTick(l) ==
    /\ socPc[l] = "sleep"
    /\ LoopCycle(l, socSnap)
    /\ UNCHANGED socSnap

LoopCancelled(l) ==
    /\ socPc[l] = "cancelled"
    /\ LoopFinally(l, socSnap)
    /\ UNCHANGED socSnap

\* A _write_normal of the loop is over.
LoopNormalDone(l) ==
    /\ NormalDone(l)
    /\ \/ /\ socLoop[l].after = "end"
          /\ owner' = AfterRelease(OWNER_SOC_CONTROLLER)
          /\ GoOn(l)
          /\ SocGoto(l, "idle")
          /\ UNCHANGED <<socTarget, socTask, socLock, socQueue, socJoin, socKept, socLoop>>
       \/ /\ socLoop[l].after = "sleep"
          /\ LoopSleep(l, [socLoop[l] EXCEPT !.after = "end"])

\* Somebody sets or clears the target, or a waiting call is cancelled.
SocCall(testRunning) ==
    \E c \in SocCalls :
        \/ SocSetTarget(c, testRunning)
        \/ SocStop(c)
        \/ SocInterrupt(c)

\* A coroutine of the controller goes on.
SocGoOn(t) ==
    \/ /\ t \in SocCalls
       /\ \/ SocStart(t)
          \/ SocUndo(t)
          \/ SocStopLocked(t)
          \/ SocJoined(t)
          \/ SocStopped(t)
    \/ NormalNext(t)
    \/ /\ t \in SocLoops
       /\ \/ LoopSnapshot(t)
          \/ LoopReadSoc(t)
          \/ LoopReadTemp(t)
          \/ LoopReadState(t)
          \/ LoopDriven(t)
          \/ LoopTick(t)
          \/ LoopCancelled(t)
          \/ LoopNormalDone(t)

SocQuiet ==
    /\ \A c \in SocCalls : socPc[c] = "idle"
    /\ \A l \in SocLoops : socPc[l] \in {"idle", "sleep"}
=============================================================================
