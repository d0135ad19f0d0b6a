------------------------- MODULE ChargeControlProofs -------------------------
(***************************************************************************)
(* What is proved about the features that control the charging: one loop   *)
(* of the SoC controller at a time is outside its `finally', and a loop    *)
(* that has charged never discharges, nor the other way round; register    *)
(* 1038 is given back; one feature at a time drives it; writes from        *)
(* outside give way to the owner's; and the owner prevails.                *)
(***************************************************************************)
EXTENDS ChargeControl, FiniteSetTheorems, WellFoundedInduction, TLAPS

\* A loop that runs its body, or has been cancelled out of it.
Standing(l) ==
    /\ socPc[l] # "idle"
    /\ ~(socPc[l] \in {"normal34", "normal38", "normal40"} /\ socLoop[l].after = "end")

\* A loop outside its `finally' is the one in _task, and while a call awaits a
\* cancelled loop under _task_lock, _task is that loop or none.
TaskInv ==
    /\ \A l \in SocLoops : Standing(l) => socTask = l
    /\ socLock # NoOne => socTask \in {socJoin, NoOne}
    /\ \A c \in SocCalls : socPc[c] = "join" => socLock = c

\* Between reading the SoC and driving, the direction needed is not the
\* opposite of the one the loop has taken.
DirectionInv ==
    \A l \in SocLoops :
        socPc[l] \in {"temp", "state"} =>
            socLoop[l].need # "none" /\ socLoop[l].was \in {"none", socLoop[l].need}

\* The inductive invariant of the SoC controller.
SocInv ==
    /\ socPc \in [SocTasks -> SocPlaces]
    /\ socLoop \in [SocLoops -> LoopLocals]
    /\ TaskInv
    /\ DirectionInv

\* A step of which no loop turns round.
Forward ==
    \A l \in SocLoops :
        socLoop[l].was # "none" => socLoop'[l].was \in {socLoop[l].was, "none"}

-----------------------------------------------------------------------------

\* Steps of the other features.
LEMMA SocUntouched == SocInv /\ UNCHANGED socVars => SocInv' /\ Forward
  <1> SUFFICES ASSUME SocInv, UNCHANGED socVars PROVE SocInv' /\ Forward
    OBVIOUS
  <1> USE DEF socVars
  <1>1. SocInv'
    BY DEF SocInv, TaskInv, DirectionInv, Standing
  <1>2. Forward
    BY DEF Forward
  <1> QED
    BY <1>1, <1>2

\* A fresh loop is a record of locals.
LEMMA FreshIsLocals == FreshLoop \in LoopLocals
  BY MaxFailsAssumption DEF FreshLoop, LoopLocals

\* Loop l moves on to `pc' with locals r: it may take itself out of _task, and
\* only a loop in _task can be outside its `finally' afterwards.
LEMMA LoopMoves ==
  ASSUME SocInv, NEW l \in SocLoops, NEW pc \in SocPlaces, NEW r \in LoopLocals,
         socPc' = [socPc EXCEPT ![l] = pc],
         socLoop' = [socLoop EXCEPT ![l] = r],
         UNCHANGED <<socLock, socJoin>>,
         socTask' = socTask \/ (socTask' = NoOne /\ Standing(l)),
         \/ pc = "idle"
         \/ pc \in {"normal34", "normal38", "normal40"} /\ r.after = "end"
         \/ Standing(l) /\ socTask' = socTask,
         pc \in {"temp", "state"} => r.need # "none" /\ r.was \in {"none", r.need},
         socLoop[l].was # "none" => r.was \in {socLoop[l].was, "none"}
  PROVE  SocInv' /\ Forward
  <1>1. l \in SocTasks /\ l \notin SocCalls
    BY SocIdentities DEF SocTasks
  <1>2. socPc'[l] = pc /\ socLoop'[l] = r
    BY <1>1 DEF SocInv
  <1>3. \A t \in SocTasks : t # l => socPc'[t] = socPc[t]
    BY <1>1 DEF SocInv
  <1>4. \A k \in SocLoops : k # l => socLoop'[k] = socLoop[k]
    BY DEF SocInv
  <1>5. socPc' \in [SocTasks -> SocPlaces] /\ socLoop' \in [SocLoops -> LoopLocals]
    BY <1>1 DEF SocInv
  <1>6. ASSUME NEW k \in SocLoops, Standing(k)' PROVE socTask' = k
    <2>1. CASE k = l
      BY <2>1, <1>2, <1>6 DEF Standing, SocInv, TaskInv
    <2>2. CASE k # l
      <3>1. Standing(k)
        BY <2>2, <1>3, <1>4, <1>6 DEF Standing, SocTasks
      <3> QED
        BY <2>2, <3>1 DEF SocInv, TaskInv
    <2> QED
      BY <2>1, <2>2
  <1>7. socLock' # NoOne => socTask' \in {socJoin', NoOne}
    BY DEF SocInv, TaskInv
  <1>8. \A c \in SocCalls : socPc'[c] = "join" => socLock' = c
    BY <1>1, <1>3 DEF SocInv, TaskInv, SocTasks
  <1>9. DirectionInv'
    <2> SUFFICES ASSUME NEW k \in SocLoops, socPc'[k] \in {"temp", "state"}
                 PROVE  socLoop'[k].need # "none" /\ socLoop'[k].was \in {"none", socLoop'[k].need}
      BY DEF DirectionInv
    <2>1. CASE k = l
      BY <2>1, <1>2
    <2>2. CASE k # l
      BY <2>2, <1>3, <1>4 DEF SocInv, DirectionInv, SocTasks
    <2> QED
      BY <2>1, <2>2
  <1>10. SocInv'
    BY <1>5, <1>6, <1>7, <1>8, <1>9 DEF SocInv, TaskInv
  <1>11. Forward
    BY <1>2, <1>4 DEF Forward
  <1> QED
    BY <1>10, <1>11

\* A call goes to `pc', which is not the join.
LEMMA CallMoves ==
  ASSUME SocInv, NEW c \in SocCalls, NEW pc \in SocPlaces \ {"join"},
         socPc' = [socPc EXCEPT ![c] = pc],
         UNCHANGED <<socLoop, socJoin>>,
         socLock' \in {socLock, NoOne},
         \/ socTask' = socTask
         \/ socTask' = NoOne /\ \A l \in SocLoops : ~Standing(l),
         socLock' = socLock \/ \A d \in SocCalls : socPc[d] = "join" => d = c
  PROVE  SocInv' /\ Forward
  <1>1. c \in SocTasks /\ c \notin SocLoops
    BY SocIdentities DEF SocTasks
  <1>2. \A t \in SocTasks : t # c => socPc'[t] = socPc[t]
    BY <1>1 DEF SocInv
  <1>3. socPc'[c] = pc /\ socPc' \in [SocTasks -> SocPlaces]
    BY <1>1 DEF SocInv
  <1>4. \A l \in SocLoops : socPc'[l] = socPc[l]
    BY <1>1, <1>2 DEF SocTasks
  <1>5. \A l \in SocLoops : Standing(l)' <=> Standing(l)
    BY <1>4 DEF Standing
  <1>6. TaskInv'
    <2>1. \A l \in SocLoops : Standing(l)' => socTask' = l
      BY <1>5 DEF SocInv, TaskInv
    <2>2. socLock' # NoOne => socTask' \in {socJoin', NoOne}
      BY DEF SocInv, TaskInv
    <2>3. \A d \in SocCalls : socPc'[d] = "join" => socLock' = d
      BY <1>2, <1>3 DEF SocInv, TaskInv, SocTasks
    <2> QED
      BY <2>1, <2>2, <2>3 DEF TaskInv
  <1>7. DirectionInv'
    BY <1>4 DEF SocInv, DirectionInv
  <1>8. Forward
    BY DEF Forward
  <1> QED
    BY <1>3, <1>6, <1>7, <1>8 DEF SocInv

\* With _task_lock free, a call starts a loop unless one runs.
LEMMA LoopStarts ==
  ASSUME SocInv, NEW c \in SocCalls, socLock = NoOne, StartLoop(c),
         UNCHANGED <<socLock, socJoin>>
  PROVE  SocInv' /\ Forward
  <1>1. CASE TaskRunning /\ SocGoto(c, "idle") /\ UNCHANGED <<bus, socTask, socLoop>>
    BY <1>1, CallMoves DEF SocGoto, SocPlaces
  <1>2. CASE ~TaskRunning /\ ~(TaskRunning /\ SocGoto(c, "idle"))
    <2> DEFINE l == CHOOSE x \in FreeSocLoops : TRUE
    <2>1. /\ socTask' = l
          /\ socPc' = [socPc EXCEPT ![c] = "idle", ![l] = "snap38"]
          /\ socLoop' = [socLoop EXCEPT ![l] = FreshLoop]
      BY <1>2 DEF StartLoop
    <2> HIDE DEF l
    <2>2. c \in SocTasks /\ c \notin SocLoops
      BY SocIdentities DEF SocTasks
    <2>3. socPc' \in [SocTasks -> SocPlaces] /\ socLoop' \in [SocLoops -> LoopLocals]
      BY <2>1, FreshIsLocals DEF SocInv, SocPlaces
    <2>4. \A k \in SocLoops : k # l => socPc'[k] = socPc[k] /\ socLoop'[k] = socLoop[k]
      BY <2>1, <2>2 DEF SocInv, SocTasks
    <2>5. \A k \in SocLoops : socLoop'[k] \in {socLoop[k], FreshLoop}
      BY <2>1 DEF SocInv
    <2>6. \A k \in SocLoops : k = l => socPc'[k] = "snap38"
      BY <2>1, <2>2 DEF SocInv, SocTasks
    <2>7. \A k \in SocLoops : ~Standing(k)
      BY <1>2, SocIdentities DEF SocInv, TaskInv, Standing, TaskRunning
    <2>8. \A k \in SocLoops : Standing(k)' => socTask' = k
      BY <2>1, <2>4, <2>7 DEF Standing
    <2>9. \A d \in SocCalls : socPc'[d] # "join"
      BY <2>1, SocIdentities DEF SocInv, TaskInv, SocTasks
    <2>10. DirectionInv'
      BY <2>4, <2>6 DEF SocInv, DirectionInv
    <2>11. Forward
      BY <2>5 DEF Forward, FreshLoop
    <2>12. TaskInv'
      BY <2>8, <2>9 DEF TaskInv
    <2> QED
      BY <2>3, <2>10, <2>11, <2>12 DEF SocInv
  <1> QED
    BY <1>1, <1>2 DEF StartLoop

\* With _task_lock free, a call cancels the loop in _task, or resets at once.
LEMMA LoopStops ==
  ASSUME SocInv, NEW c \in SocCalls, socLock = NoOne, StopLoop(c), UNCHANGED socLoop
  PROVE  SocInv' /\ Forward
  <1>0. \A d \in SocCalls : socPc[d] # "join"
    BY SocIdentities DEF SocInv, TaskInv
  <1>1. CASE /\ TaskRunning /\ socLock' = c /\ socJoin' = socTask
             /\ socPc' = [socPc EXCEPT ![c] = "join", ![socTask] =
                              IF @ \in {"snap38", "snap40"} THEN "idle" ELSE "cancelled"]
             /\ UNCHANGED socTask
    <2>1. c \in SocTasks /\ c \notin SocLoops /\ c # NoOne
      BY SocIdentities DEF SocTasks
    <2>2. socPc' \in [SocTasks -> SocPlaces]
      BY <1>1 DEF SocInv, SocPlaces
    <2>3. \A t \in SocTasks : t \notin {c, socTask} => socPc'[t] = socPc[t]
      BY <1>1 DEF SocInv
    <2>4. \A k \in SocLoops : k # socTask => socPc'[k] = socPc[k]
      BY <2>1, <2>3 DEF SocTasks
    <2>5. \A k \in SocLoops : k = socTask => socPc'[k] \in {"idle", "cancelled"}
      BY <1>1, <2>1 DEF SocInv, SocTasks
    <2>6. \A k \in SocLoops : Standing(k)' => socTask' = k
      BY <1>1, <2>4 DEF SocInv, TaskInv, Standing
    <2>7. \A d \in SocCalls : socPc'[d] = "join" => socLock' = d
      BY <1>0, <1>1, <2>3 DEF SocInv, SocTasks
    <2>8. socTask' \in {socJoin', NoOne}
      BY <1>1
    <2>9. DirectionInv'
      BY <2>4, <2>5 DEF SocInv, DirectionInv
    <2>10. Forward
      BY DEF Forward
    <2>11. TaskInv'
      BY <2>6, <2>7, <2>8 DEF TaskInv
    <2> QED
      BY <2>2, <2>9, <2>10, <2>11 DEF SocInv
  <1>2. CASE /\ ~TaskRunning /\ socTask' = NoOne
             /\ NormalThenRelease(c, socSnap)
             /\ UNCHANGED <<socLock, socJoin>>
    <2>1. \A k \in SocLoops : ~Standing(k)
      BY <1>2, SocIdentities DEF SocInv, TaskInv, Standing, TaskRunning
    <2>2. PICK pc \in {"normal34", "idle"} : socPc' = [socPc EXCEPT ![c] = pc]
      BY <1>2 DEF NormalThenRelease, NormalBegin, SocGoto
    <2>3. pc \in SocPlaces \ {"join"}
      BY DEF SocPlaces
    <2> QED
      BY <1>2, <2>1, <2>2, <2>3, CallMoves
  <1> QED
    BY <1>1, <1>2 DEF StopLoop

\* The `finally' of loop l takes it out of _task.
LEMMA LoopEnds ==
  ASSUME SocInv, NEW l \in SocLoops, NEW snap, Standing(l), LoopFinally(l, snap)
  PROVE  SocInv' /\ Forward
  <1>1. PICK pc \in {"normal34", "idle"} : socPc' = [socPc EXCEPT ![l] = pc]
    BY DEF LoopFinally, NormalThenRelease, NormalBegin, SocGoto
  <1>2. pc \in SocPlaces /\ pc \notin {"temp", "state"}
    BY DEF SocPlaces
  <1>3. /\ socLoop' = [socLoop EXCEPT ![l] = FreshLoop]
        /\ socTask' = NoOne /\ UNCHANGED <<socLock, socJoin>>
    BY DEF LoopFinally
  <1>4. FreshLoop.was = "none" /\ FreshLoop.after = "end"
    BY DEF FreshLoop
  <1>5. pc = "idle" \/ (pc \in {"normal34", "normal38", "normal40"} /\ FreshLoop.after = "end")
    BY <1>4
  <1> QED
    BY <1>1, <1>2, <1>3, <1>4, <1>5, FreshIsLocals, LoopMoves

\* Loop l awaits an access or sleeps, and stays what it is.
LEMMA LoopWaits ==
  ASSUME SocInv, NEW l \in SocLoops, NEW pc \in SocPlaces, NEW r \in LoopLocals, Standing(l),
         \/ \E f : LoopAwait(l, pc, f, r)
         \/ pc = "sleep" /\ LoopSleep(l, r),
         pc \in {"temp", "state"} => r.need # "none" /\ r.was \in {"none", r.need},
         socLoop[l].was # "none" => r.was \in {socLoop[l].was, "none"}
  PROVE  SocInv' /\ Forward
  <1>1. /\ socPc' = [socPc EXCEPT ![l] = pc]
        /\ socLoop' = [socLoop EXCEPT ![l] = r]
        /\ UNCHANGED <<socTask, socLock, socJoin>>
    BY DEF LoopAwait, LoopSleep, SocGoto
  <1> QED
    BY <1>1, LoopMoves

\* The top of the loop: read the SoC, or leave.
LEMMA LoopTurns ==
  ASSUME SocInv, NEW l \in SocLoops, NEW snap, Standing(l), LoopCycle(l, snap)
  PROVE  SocInv' /\ Forward
  <1>0. socLoop[l] \in LoopLocals /\ "soc" \in SocPlaces
    BY DEF SocInv, SocPlaces
  <1>1. CASE LoopAwait(l, "soc", ReadOf(l, "misc"), socLoop[l])
    BY <1>0, <1>1, LoopWaits
  <1>2. CASE LoopFinally(l, snap)
    BY <1>2, LoopEnds
  <1> QED
    BY <1>1, <1>2 DEF LoopCycle

\* One register of a _write_normal after the other, by a call or a loop.
LEMMA NormalGoesOn ==
  ASSUME SocInv, NEW t \in SocTasks, NormalNext(t)
  PROVE  SocInv' /\ Forward
  <1>1. UNCHANGED <<socTask, socLock, socJoin, socLoop>>
    BY DEF NormalNext
  <1>2. PICK pc \in {"normal38", "normal40"} : socPc' = [socPc EXCEPT ![t] = pc]
    BY DEF NormalNext, SocGoto
  <1>3. pc \in SocPlaces \ {"join"}
    BY DEF SocPlaces
  <1>4. CASE t \in SocCalls
    BY <1>1, <1>2, <1>3, <1>4, CallMoves
  <1>5. CASE t \in SocLoops
    <2>1. socLoop[t] \in LoopLocals /\ socLoop' = [socLoop EXCEPT ![t] = socLoop[t]]
      BY <1>1, <1>5 DEF SocInv
    <2>2. socPc[t] \in {"normal34", "normal38"}
      BY DEF NormalNext
    <2>3. (pc \in {"normal34", "normal38", "normal40"} /\ socLoop[t].after = "end") \/ Standing(t)
      BY <2>2 DEF Standing
    <2> QED
      BY <1>1, <1>2, <1>3, <1>5, <2>1, <2>3, LoopMoves
  <1> QED
    BY <1>4, <1>5 DEF SocTasks

-----------------------------------------------------------------------------
(* The actions of the controller.                                          *)

\* set_target, stop and the cancellation of a waiting call.
LEMMA CallSteps ==
  ASSUME SocInv, NEW running, SocCall(running)
  PROVE  SocInv' /\ Forward
  <1> PICK c \in SocCalls : SocSetTarget(c, running) \/ SocStop(c) \/ SocInterrupt(c)
    BY DEF SocCall
  <1>0. {"start", "stop", "undo", "idle"} \subseteq SocPlaces \ {"join"}
    BY DEF SocPlaces
  <1>1. CASE SocSetTarget(c, running)
    <2>1. UNCHANGED <<socLock, socJoin>>
      BY <1>1 DEF SocSetTarget
    <2>2. CASE UNCHANGED <<socPc, socTask, socLoop>>
      <3>1. SocInv'
        BY <2>1, <2>2 DEF SocInv, TaskInv, DirectionInv, Standing
      <3>2. Forward
        BY <2>2 DEF Forward
      <3> QED
        BY <3>1, <3>2
    <2>3. CASE LockAtOnce /\ StartLoop(c)
      BY <2>1, <2>3, LoopStarts DEF LockAtOnce
    <2>4. CASE SocGoto(c, "start") /\ UNCHANGED <<socTask, socLoop>>
      BY <1>0, <2>1, <2>4, CallMoves DEF SocGoto
    <2> QED
      BY <1>1, <2>2, <2>3, <2>4 DEF SocSetTarget
  <1>2. CASE SocStop(c)
    <2>1. UNCHANGED socLoop
      BY <1>2 DEF SocStop
    <2>2. CASE LockAtOnce /\ StopLoop(c)
      BY <2>1, <2>2, LoopStops DEF LockAtOnce
    <2>3. CASE SocGoto(c, "stop") /\ UNCHANGED <<socTask, socLock, socJoin>>
      BY <1>0, <2>1, <2>3, CallMoves DEF SocGoto
    <2> QED
      BY <1>2, <2>2, <2>3 DEF SocStop
  <1>3. CASE SocInterrupt(c)
    <2>1. SocGoto(c, "undo") /\ UNCHANGED <<socTask, socLock, socJoin, socLoop>>
      BY <1>3 DEF SocInterrupt
    <2> QED
      BY <1>0, <2>1, CallMoves DEF SocGoto
  <1> QED
    BY <1>1, <1>2, <1>3

\* A call that waited goes on.
LEMMA CallGoesOn ==
  ASSUME SocInv, NEW c \in SocCalls,
         SocStart(c) \/ SocUndo(c) \/ SocStopLocked(c) \/ SocJoined(c) \/ SocStopped(c)
  PROVE  SocInv' /\ Forward
  <1>0. "idle" \in SocPlaces \ {"join"} /\ "normal34" \in SocPlaces \ {"join"}
    BY DEF SocPlaces
  <1>1. CASE SocStart(c)
    <2>1. socLock = NoOne /\ StartLoop(c) /\ UNCHANGED <<socLock, socJoin>>
      BY <1>1 DEF SocStart, LockTurn
    <2> QED
      BY <2>1, LoopStarts
  <1>2. CASE SocUndo(c)
    <2>1. SocGoto(c, "idle") /\ UNCHANGED <<socTask, socLock, socJoin, socLoop>>
      BY <1>2 DEF SocUndo
    <2> QED
      BY <1>0, <2>1, CallMoves DEF SocGoto
  <1>3. CASE SocStopLocked(c)
    <2>1. socLock = NoOne /\ StopLoop(c) /\ UNCHANGED socLoop
      BY <1>3 DEF SocStopLocked, LockTurn
    <2> QED
      BY <2>1, LoopStops
  <1>4. CASE SocJoined(c)
    <2>1. /\ socPc[c] = "join" /\ socPc[socJoin] = "idle"
          /\ socTask' = NoOne /\ socLock' = NoOne /\ socJoin' = NoOne /\ UNCHANGED socLoop
      BY <1>4 DEF SocJoined
    <2>2. socLock = c /\ c # NoOne
      BY <2>1, SocIdentities DEF SocInv, TaskInv
    <2>3. \A l \in SocLoops : ~Standing(l)
      BY <2>1, <2>2, SocIdentities DEF SocInv, TaskInv, Standing
    <2>4. PICK pc \in {"normal34", "idle"} : socPc' = [socPc EXCEPT ![c] = pc]
      BY <1>4 DEF SocJoined, NormalThenRelease, NormalBegin, SocGoto
    <2>5. c \in SocTasks /\ c \notin SocLoops
      BY SocIdentities DEF SocTasks
    <2>6. socPc' \in [SocTasks -> SocPlaces] /\ socPc'[c] = pc
      BY <1>0, <2>4, <2>5 DEF SocInv
    <2>7. \A t \in SocTasks : t # c => socPc'[t] = socPc[t]
      BY <2>4, <2>5 DEF SocInv
    <2>8. \A l \in SocLoops : socPc'[l] = socPc[l]
      BY <2>5, <2>7 DEF SocTasks
    <2>9. \A l \in SocLoops : ~Standing(l)'
      BY <2>1, <2>3, <2>8 DEF Standing
    <2>10. \A d \in SocCalls : socPc'[d] # "join"
      BY <2>2, <2>6, <2>7 DEF SocInv, TaskInv, SocTasks
    <2>11. TaskInv'
      BY <2>1, <2>9, <2>10 DEF TaskInv
    <2>12. DirectionInv'
      BY <2>1, <2>8 DEF SocInv, DirectionInv
    <2>13. Forward
      BY <2>1 DEF Forward
    <2> QED
      BY <2>1, <2>6, <2>11, <2>12, <2>13 DEF SocInv
  <1>5. CASE SocStopped(c)
    <2>1. SocGoto(c, "idle") /\ UNCHANGED <<socTask, socLock, socJoin, socLoop>>
      BY <1>5 DEF SocStopped
    <2> QED
      BY <1>0, <2>1, CallMoves DEF SocGoto
  <1> QED
    BY <1>1, <1>2, <1>3, <1>4, <1>5

\* A control loop goes on.
LEMMA LoopGoesOn ==
  ASSUME SocInv, NEW l \in SocLoops,
         \/ LoopSnapshot(l) \/ LoopReadSoc(l) \/ LoopReadTemp(l) \/ LoopReadState(l)
         \/ LoopDriven(l) \/ LoopTick(l) \/ LoopCancelled(l) \/ LoopNormalDone(l)
  PROVE  SocInv' /\ Forward
  <1> DEFINE me == socLoop[l]
  <1>0. me \in LoopLocals
    BY DEF SocInv
  <1>a. /\ {"snap40", "soc", "temp", "state", "drive34", "drive38", "sleep"} \subseteq SocPlaces
        /\ {"normal34", "idle"} \subseteq SocPlaces
    BY DEF SocPlaces
  <1>b. socPc[l] \in {"snap38", "snap40", "soc", "temp", "state", "drive34", "drive38",
                      "sleep", "cancelled"} => Standing(l)
    BY DEF Standing
  <1>1. CASE LoopSnapshot(l)
    <2>1. CASE socPc[l] = "snap38" /\ LoopAwait(l, "snap40", ReadOf(l, "1040"), me)
      BY <2>1, <1>0, <1>a, <1>b, LoopWaits
    <2>2. CASE socPc[l] = "snap40" /\ \E snap : LoopCycle(l, snap)
      BY <2>2, <1>b, LoopTurns
    <2> QED
      BY <1>1, <2>1, <2>2 DEF LoopSnapshot
  <1>2. CASE LoopReadSoc(l)
    <2>1. Standing(l)
      BY <1>2, <1>b DEF LoopReadSoc
    <2>2. CASE LoopFinally(l, socSnap)
      BY <2>1, <2>2, LoopEnds
    <2>3. CASE /\ me.readFails + 1 < MaxFails
               /\ LoopSleep(l, [me EXCEPT !.readFails = me.readFails + 1])
      <3> DEFINE r == [me EXCEPT !.readFails = me.readFails + 1]
      <3>1. r \in LoopLocals /\ r.was = me.was
        BY <1>0, <2>3, MaxFailsAssumption DEF LoopLocals
      <3>2. LoopSleep(l, r)
        BY <2>3
      <3> HIDE DEF r
      <3> QED
        BY <2>1, <3>1, <3>2, <1>a, LoopWaits
    <2>4. CASE \E soc \in {"below", "at", "above"} :
                   /\ ~TargetReached(me.was, soc)
                   /\ LoopAwait(l, "temp", ReadOf(l, "misc"),
                                [me EXCEPT !.readFails = 0, !.need =
                                    IF soc = "below" THEN "charge" ELSE "discharge"])
      <3> PICK soc \in {"below", "at", "above"} :
                   /\ ~TargetReached(me.was, soc)
                   /\ LoopAwait(l, "temp", ReadOf(l, "misc"),
                                [me EXCEPT !.readFails = 0, !.need =
                                    IF soc = "below" THEN "charge" ELSE "discharge"])
        BY <2>4
      <3> DEFINE need == IF soc = "below" THEN "charge" ELSE "discharge"
                 r == [me EXCEPT !.readFails = 0, !.need = need]
      <3>0. need \in {"charge", "discharge"} /\ me.was \in {"none", need}
        BY <1>0 DEF LoopLocals, TargetReached
      <3>3. LoopAwait(l, "temp", ReadOf(l, "misc"), r)
        OBVIOUS
      <3> HIDE DEF need
      <3>4. 0 \in 0 .. MaxFails
        BY MaxFailsAssumption
      <3>5. [me EXCEPT !.readFails = 0] \in LoopLocals
        BY <1>0, <3>4 DEF LoopLocals
      <3>6. r = [[me EXCEPT !.readFails = 0] EXCEPT !.need = need]
        OBVIOUS
      <3>7. [me EXCEPT !.readFails = 0].was = me.was
        BY <1>0 DEF LoopLocals
      <3>1. r \in LoopLocals /\ r.was = me.was /\ r.need = need
        BY <3>0, <3>5, <3>6, <3>7 DEF LoopLocals
      <3>2. r.need # "none" /\ r.was \in {"none", r.need}
        BY <3>0, <3>1
      <3> HIDE DEF r
      <3> QED
        BY <2>1, <3>1, <3>2, <3>3, <1>a, LoopWaits
    <2> QED
      BY <1>2, <2>2, <2>3, <2>4 DEF LoopReadSoc
  <1>3. CASE LoopReadTemp(l)
    <2>1. Standing(l) /\ me.need # "none" /\ me.was \in {"none", me.need}
      BY <1>3, <1>b DEF LoopReadTemp, SocInv, DirectionInv
    <2>2. CASE LoopAwait(l, "state", ReadOf(l, "misc"), me)
      BY <2>1, <2>2, <1>0, <1>a, LoopWaits
    <2>3. CASE LoopSleep(l, me)
      BY <2>1, <2>3, <1>0, <1>a, LoopWaits
    <2>4. CASE /\ NormalBegin(l, socSnap)
               /\ socLoop' = [socLoop EXCEPT ![l].after = "sleep"]
               /\ UNCHANGED <<socTask, socLock, socJoin>>
      <3> DEFINE r == [me EXCEPT !.after = "sleep"]
      <3>1. r \in LoopLocals /\ r.was = me.was
        BY <1>0 DEF LoopLocals
      <3>2. socLoop' = [socLoop EXCEPT ![l] = r]
        BY <2>4
      <3>3. socPc' = [socPc EXCEPT ![l] = "normal34"]
        BY <2>4 DEF NormalBegin, SocGoto
      <3> HIDE DEF r
      <3> QED
        BY <2>1, <2>4, <3>1, <3>2, <3>3, <1>a, LoopMoves
    <2> QED
      BY <1>3, <2>2, <2>3, <2>4 DEF LoopReadTemp
  <1>4. CASE LoopReadState(l)
    <2>1. Standing(l) /\ me.need # "none" /\ me.was \in {"none", me.need}
      BY <1>4, <1>b DEF LoopReadState, SocInv, DirectionInv
    <2>2. CASE LoopSleep(l, me)
      BY <2>1, <2>2, <1>0, <1>a, LoopWaits
    <2>3. CASE \E f : LoopAwait(l, "drive34", f, [me EXCEPT !.was = me.need])
      <3> DEFINE r == [me EXCEPT !.was = me.need]
      <3>1. r \in LoopLocals /\ r.was = me.need
        BY <1>0 DEF LoopLocals
      <3>2. me.was # "none" => r.was \in {me.was, "none"}
        BY <2>1, <3>1
      <3>3. \E f : LoopAwait(l, "drive34", f, r)
        BY <2>3
      <3> HIDE DEF r
      <3> QED
        BY <2>1, <3>1, <3>2, <3>3, <1>a, LoopWaits
    <2> QED
      BY <1>4, <2>2, <2>3 DEF LoopReadState
  <1>5. CASE LoopDriven(l)
    <2>1. Standing(l)
      BY <1>5, <1>b DEF LoopDriven
    <2>2. CASE LoopFinally(l, socSnap)
      BY <2>1, <2>2, LoopEnds
    <2>3. CASE LoopAwait(l, "drive38", WriteOf(l, "1038", 0), me)
      BY <2>1, <2>3, <1>0, <1>a, LoopWaits
    <2>4. CASE \E n \in 0 .. MaxFails : LoopSleep(l, [me EXCEPT !.writeFails = n])
      <3> PICK n \in 0 .. MaxFails : LoopSleep(l, [me EXCEPT !.writeFails = n])
        BY <2>4
      <3> DEFINE r == [me EXCEPT !.writeFails = n]
      <3>1. r \in LoopLocals /\ r.was = me.was
        BY <1>0 DEF LoopLocals
      <3>2. LoopSleep(l, r)
        OBVIOUS
      <3> HIDE DEF r
      <3> QED
        BY <2>1, <3>1, <3>2, <1>a, LoopWaits
    <2>5. 0 \in 0 .. MaxFails /\ (me.writeFails + 1 < MaxFails => me.writeFails + 1 \in 0 .. MaxFails)
      BY <1>0, MaxFailsAssumption DEF LoopLocals
    <2> QED
      BY <1>5, <2>2, <2>3, <2>4, <2>5 DEF LoopDriven
  <1>6. CASE LoopTick(l)
    BY <1>6, <1>b, LoopTurns DEF LoopTick
  <1>7. CASE LoopCancelled(l)
    BY <1>7, <1>b, LoopEnds DEF LoopCancelled
  <1>8. CASE LoopNormalDone(l)
    <2>0. socPc[l] = "normal40"
      BY <1>8 DEF LoopNormalDone, NormalDone
    <2>1. CASE SocGoto(l, "idle") /\ UNCHANGED <<socTask, socLock, socJoin, socLoop>>
      <3>1. socPc' = [socPc EXCEPT ![l] = "idle"] /\ socLoop' = [socLoop EXCEPT ![l] = me]
        BY <2>1 DEF SocGoto, SocInv
      <3> QED
        BY <2>1, <3>1, <1>0, <1>a, LoopMoves
    <2>2. CASE me.after = "sleep" /\ LoopSleep(l, [me EXCEPT !.after = "end"])
      <3> DEFINE r == [me EXCEPT !.after = "end"]
      <3>1. r \in LoopLocals /\ r.was = me.was
        BY <1>0 DEF LoopLocals
      <3>2. LoopSleep(l, r)
        BY <2>2
      <3>3. Standing(l)
        BY <2>0, <2>2 DEF Standing
      <3> HIDE DEF r
      <3> QED
        BY <3>1, <3>2, <3>3, <1>a, LoopWaits
    <2> QED
      BY <1>8, <2>1, <2>2 DEF LoopNormalDone
  <1> QED
    BY <1>1, <1>2, <1>3, <1>4, <1>5, <1>6, <1>7, <1>8

-----------------------------------------------------------------------------
(* The whole system.                                                       *)

\* Unloading the entry stops the controller like set_target(None) does.
LEMMA UnloadSteps ==
  ASSUME SocInv, UnloadBegin
  PROVE  SocInv' /\ Forward
  <1>1. CASE UNCHANGED socVars
    BY <1>1, SocUntouched
  <1>2. CASE \E c \in SocCalls :
                /\ \/ LockAtOnce /\ StopLoop(c)
                   \/ SocGoto(c, "stop") /\ UNCHANGED <<socTask, socLock, socJoin>>
                /\ UNCHANGED socLoop
    <2> PICK c \in SocCalls :
                /\ \/ LockAtOnce /\ StopLoop(c)
                   \/ SocGoto(c, "stop") /\ UNCHANGED <<socTask, socLock, socJoin>>
                /\ UNCHANGED socLoop
      BY <1>2
    <2>1. CASE LockAtOnce /\ StopLoop(c)
      BY <2>1, LoopStops DEF LockAtOnce
    <2>2. CASE SocGoto(c, "stop") /\ UNCHANGED <<socTask, socLock, socJoin>>
      BY <2>2, CallMoves DEF SocGoto, SocPlaces
    <2> QED
      BY <2>1, <2>2
  <1> QED
    BY <1>1, <1>2 DEF UnloadBegin

\* Every step of the system keeps the invariant and turns no loop round.
LEMMA SocInductive == SocInv /\ [Next]_vars => SocInv' /\ Forward
  <1> SUFFICES ASSUME SocInv, [Next]_vars PROVE SocInv' /\ Forward
    OBVIOUS
  <1>1. CASE UNCHANGED vars
    BY <1>1, SocUntouched DEF vars
  <1>2. CASE Inverter
    BY <1>2, SocUntouched DEF Inverter
  <1>3. CASE Request
    BY <1>3, SocUntouched, CallSteps DEF Request
  <1>4. CASE \E t \in Tasks : GoesOn(t)
    <2> PICK t \in Tasks : GoesOn(t)
      BY <1>4
    <2>1. CASE t \in SocTasks /\ SocGoOn(t)
      <3>1. CASE NormalNext(t)
        BY <2>1, <3>1, NormalGoesOn
      <3>2. CASE /\ t \in SocCalls
                 /\ \/ SocStart(t) \/ SocUndo(t) \/ SocStopLocked(t)
                    \/ SocJoined(t) \/ SocStopped(t)
        BY <3>2, CallGoesOn
      <3>3. CASE /\ t \in SocLoops
                 /\ \/ LoopSnapshot(t) \/ LoopReadSoc(t) \/ LoopReadTemp(t) \/ LoopReadState(t)
                    \/ LoopDriven(t) \/ LoopTick(t) \/ LoopCancelled(t) \/ LoopNormalDone(t)
        BY <3>3, LoopGoesOn
      <3> QED
        BY <2>1, <3>1, <3>2, <3>3 DEF SocGoOn
    <2>2. CASE UNCHANGED socVars
      BY <2>2, SocUntouched
    <2> QED
      BY <2>1, <2>2 DEF GoesOn
  <1>5. CASE Teardown
    <2>1. CASE UnloadBegin
      BY <2>1, UnloadSteps
    <2>2. CASE EntityRemoved \/ UnloadShut \/ UnloadRemove
      BY <2>2, SocUntouched DEF EntityRemoved, UnloadShut, UnloadRemove, RemoveEntity
    <2> QED
      BY <1>5, <2>1, <2>2 DEF Teardown
  <1> QED
    BY <1>1, <1>2, <1>3, <1>4, <1>5 DEF Next

\* At the start no loop runs.
LEMMA SocStarts == Init => SocInv
  <1> SUFFICES ASSUME Init PROVE SocInv
    OBVIOUS
  <1>1. /\ socPc = [t \in SocTasks |-> "idle"] /\ socLock = NoOne
        /\ socLoop = [l \in SocLoops |-> FreshLoop]
    BY DEF Init, SocInit
  <1>2. socPc \in [SocTasks -> SocPlaces] /\ socLoop \in [SocLoops -> LoopLocals]
    BY <1>1, FreshIsLocals DEF SocPlaces
  <1>3. TaskInv
    BY <1>1 DEF TaskInv, Standing, SocTasks
  <1>4. DirectionInv
    BY <1>1 DEF DirectionInv, SocTasks
  <1> QED
    BY <1>2, <1>3, <1>4 DEF SocInv

\* At most one control loop of the SoC controller is outside its `finally',
\* however many set_target and stop calls overlap and whichever is cancelled:
\* two loops would drive the setpoint 1034 against each other.
THEOREM OneLoopDrives == Spec => []OneSocLoop
  <1>1. SocInv => OneSocLoop
    BY DEF SocInv, TaskInv, Standing, OneSocLoop
  <1> QED
    BY <1>1, SocStarts, SocInductive, PTL DEF Spec

\* A session of the SoC controller never turns round: a loop that has charged
\* does not discharge before it has ended, and vice versa.
THEOREM LoopsNeverTurn == Spec => NoReversal
  <1>1. SocInv /\ [Next]_vars => [Forward]_vars
    BY SocInductive
  <1> QED
    BY <1>1, SocStarts, SocInductive, PTL DEF Spec, NoReversal, Forward

-----------------------------------------------------------------------------
(* Register 1038 is never left to a feature that is off.                   *)

\* What a step of feature o can do to the owner: nothing, or acquire it when it
\* is free and release it when it is its own.
Touches(o) == owner' = owner \/ (owner \in {NoOne, o} /\ owner' \in {NoOne, o})

BlockPlaces == {"idle", "snapshot", "block", "restore", "remove", "gone", "sleep", "rewrite"}
GridPlaces ==
    {"idle", "snapshot", "join", "restore", "remove", "gone", "read", "write", "sleep", "cancelled", "restoring", "aborted"}
TestPlaces ==
    {"idle", "dump", "snap38", "snap40", "try34", "try38", "try40", "state", "phase34", "phase38", "monitor", "keep34",
     "keep38", "sleep", "gap", "normal34", "normal38", "normal40", "flush"}

Places ==
    blkPc \in [BlockTasks -> BlockPlaces] /\ limPc \in [GridTasks -> GridPlaces] /\ tstPc \in [Suites -> TestPlaces]

\* The owner is a feature that is on, or one of whose coroutines will give 1038
\* back before it ends.
BlockHeld ==
    owner = OWNER_CHARGE_BLOCK =>
        blkOn \/ \E c \in BlockCalls : blkPc[c] \in {"block", "restore", "remove"}

GridHeld ==
    owner = OWNER_GRID_FEEDIN =>
        \/ limOn
        \/ \E c \in GridCalls : limPc[c] \in {"join", "restore", "remove"}
        \/ \E l \in GridLoops : limPc[l] \in {"cancelled", "restoring", "aborted"}

\* A loop that is told to leave the restoring to async_turn_off can rely on it.
GridTold ==
    /\ limHandled /\ owner = OWNER_GRID_FEEDIN => \E c \in GridCalls : limPc[c] \in {"join", "restore"}
    /\ \A c \in GridCalls : limPc[c] = "snapshot" => ~limHandled

SocHeld == owner = OWNER_SOC_CONTROLLER => \E t \in SocTasks : socPc[t] # "idle"

\* Suites between the acquisition of 1038 and their `finally'.
Testing(s) == tstPc[s] \notin {"idle", "normal34", "normal38", "normal40", "flush"}

TestHeld == owner = OWNER_BATTERY_TEST => \E s \in Suites : Testing(s)

HeldInv ==
    /\ owner \in Owners \cup {NoOne} /\ Places
    /\ socPc \in [SocTasks -> SocPlaces] /\ socTask \in SocLoops \cup {NoOne}
    /\ BlockHeld /\ GridHeld /\ GridTold /\ SocHeld /\ TestHeld

\* Calls of the optimiser's switch wait for each other.
GridCallsWait == "overlap" \notin Habits \/ \A c, d \in GridCalls : c = d

\* The charge block gives the register back, or goes on holding it.
LEMMA BlockKeepsHeld ==
    ASSUME HeldInv, BlockCall \/ BlockRemoval \/ \E t \in BlockTasks : BlockGoOn(t)
    PROVE  BlockHeld' /\ Touches(OWNER_CHARGE_BLOCK) /\ blkPc' \in [BlockTasks -> BlockPlaces]
<1> USE DEF Touches, HeldInv, Places, BlockPlaces, BlockHeld, BlockTasks, AfterRelease, NoOne, Owners, OWNER_CHARGE_BLOCK
<1>1. ASSUME NEW c \in BlockCalls, NEW snap, BlockEngage(c, snap), blkPc[c] \in {"idle", "snapshot"}
      PROVE  BlockHeld' /\ Touches(OWNER_CHARGE_BLOCK) /\ blkPc' \in [BlockTasks -> BlockPlaces]
    BY <1>1 DEF BlockEngage, CanAcquire
<1>2. ASSUME NEW c \in BlockCalls, BlockTurnOn(c)
      PROVE  BlockHeld' /\ Touches(OWNER_CHARGE_BLOCK) /\ blkPc' \in [BlockTasks -> BlockPlaces]
    BY <1>1, <1>2 DEF BlockTurnOn, BlockMayCall
<1>3. ASSUME NEW c \in BlockCalls, BlockSnapshot(c)
      PROVE  BlockHeld' /\ Touches(OWNER_CHARGE_BLOCK) /\ blkPc' \in [BlockTasks -> BlockPlaces]
    BY <1>1, <1>3 DEF BlockSnapshot
<1>4. ASSUME NEW c \in BlockCalls, BlockTurnOff(c) \/ BlockRemove(c)
      PROVE  BlockHeld' /\ Touches(OWNER_CHARGE_BLOCK) /\ blkPc' \in [BlockTasks -> BlockPlaces]
    BY <1>4, BlockIdentities DEF BlockTurnOff, BlockRemove, BlockRestore, BlockMayCall
<1>5. ASSUME NEW c \in BlockCalls, BlockFailed(c) \/ BlockStarted(c) \/ BlockTurnedOff(c) \/ BlockRemoved(c)
      PROVE  BlockHeld' /\ Touches(OWNER_CHARGE_BLOCK) /\ blkPc' \in [BlockTasks -> BlockPlaces]
    BY <1>5, BlockIdentities DEF BlockFailed, BlockStarted, BlockTurnedOff, BlockRemoved
<1>6. ASSUME BlockKeepaliveTick \/ BlockKeepaliveWritten
      PROVE  BlockHeld' /\ Touches(OWNER_CHARGE_BLOCK) /\ blkPc' \in [BlockTasks -> BlockPlaces]
    BY <1>6, BlockIdentities DEF BlockKeepaliveTick, BlockKeepaliveWritten
<1> QED BY <1>2, <1>3, <1>4, <1>5, <1>6 DEF BlockCall, BlockRemoval, BlockGoOn

\* So does the optimiser, as long as its calls wait for one another.
LEMMA GridKeepsHeld ==
    ASSUME HeldInv, GridCallsWait, GridCall \/ GridRemoval \/ \E t \in GridTasks : GridGoOn(t)
    PROVE  GridHeld' /\ GridTold' /\ Touches(OWNER_GRID_FEEDIN) /\ limPc' \in [GridTasks -> GridPlaces]
<1> USE DEF Touches, HeldInv, Places, GridPlaces, GridTasks, AfterRelease, NoOne, Owners, OWNER_GRID_FEEDIN
<1> DEFINE Kept == GridHeld' /\ GridTold' /\ Touches(OWNER_GRID_FEEDIN) /\ limPc' \in [GridTasks -> GridPlaces]
<1>1. /\ GridCancelled \in [GridTasks -> GridPlaces]
      /\ \A c \in GridCalls : GridCancelled[c] = limPc[c]
      /\ \A l \in GridLoops : limPc[l] \in {"cancelled", "restoring", "aborted"} =>
            GridCancelled[l] \in {"cancelled", "restoring", "aborted"}
    BY GridIdentities DEF GridCancelled, RunningGridLoops
<1>2. ASSUME NEW c \in GridCalls, NEW snap, GridEngage(c, snap), limPc[c] \in {"idle", "snapshot"}, ~limHandled'
      PROVE  Kept
    BY <1>1, <1>2 DEF GridEngage, CanAcquire, GridHeld, GridTold
<1>3. ASSUME NEW c \in GridCalls, GridTurnOn(c)
      PROVE  Kept
    BY <1>2, <1>3 DEF GridTurnOn, GridMayCall, GridHeld, GridTold
<1>4. ASSUME NEW c \in GridCalls, GridSnapshot(c)
      PROVE  Kept
    BY <1>2, <1>4 DEF GridSnapshot, GridTold
<1>5. ASSUME NEW c \in GridCalls, GridTurnOff(c)
      PROVE  Kept
  <2>1. \A d \in GridCalls : limPc[d] # "snapshot"
      BY <1>5 DEF GridTurnOff, GridMayCall, GridCallsWait
  <2>2. /\ limPc' \in [GridTasks -> GridPlaces] /\ limPc'[c] \in {"join", "restore"}
        /\ \A d \in GridCalls : d # c => limPc'[d] = limPc[d]
      BY <1>1, <1>5 DEF GridTurnOff, GridRestore
  <2> QED BY <1>5, <2>1, <2>2 DEF GridTurnOff, GridHeld, GridTold
<1>6. ASSUME NEW c \in GridCalls, GridJoined(c) \/ GridTurnedOff(c)
      PROVE  Kept
    BY <1>6, GridIdentities DEF GridJoined, GridTurnedOff, GridHeld, GridTold
<1>7. ASSUME NEW c \in GridCalls, GridRemove(c)
      PROVE  Kept
    BY <1>1, <1>7, GridIdentities DEF GridRemove, GridRestore, GridHeld, GridTold
<1>8. ASSUME NEW l \in GridLoops, GridLoopFinally(l)
      PROVE  Kept
    BY <1>8, GridIdentities DEF GridLoopFinally, GridLoopEnd, GridHeld, GridTold
<1>9. ASSUME NEW l \in GridLoops, GridLoopRestored(l)
      PROVE  Kept
    BY <1>9, GridIdentities DEF GridLoopRestored, GridLoopEnd, GridHeld, GridTold
<1>10. ASSUME NEW l \in GridLoops, NEW pc \in {"read", "write", "sleep"}, limPc[l] \in {"read", "write", "sleep"},
              limPc' = [limPc EXCEPT ![l] = pc], UNCHANGED <<owner, limOn, limHandled>>
       PROVE  Kept
    BY <1>10, GridIdentities DEF GridHeld, GridTold
<1>11. ASSUME NEW l \in GridLoops, GridMeasured(l) \/ GridWritten(l) \/ GridTick(l) \/ GridLoopCancelled(l)
       PROVE  Kept
    BY <1>8, <1>10, <1>11 DEF GridMeasured, GridWritten, GridTick, GridLoopCancelled, GridSleep
<1> QED BY <1>3, <1>4, <1>5, <1>6, <1>7, <1>9, <1>11 DEF GridCall, GridRemoval, GridGoOn

\* So does the SoC controller.
LEMMA SocKeepsHeld ==
    ASSUME HeldInv, SocCall(TestRunning) \/ UnloadBegin \/ \E t \in SocTasks : SocGoOn(t)
    PROVE  /\ SocHeld' /\ Touches(OWNER_SOC_CONTROLLER)
           /\ socPc' \in [SocTasks -> SocPlaces] /\ socTask' \in SocLoops \cup {NoOne}
<1> USE DEF Touches, HeldInv, SocHeld, SocTasks, AfterRelease, NoOne, Owners, OWNER_SOC_CONTROLLER
<1> DEFINE Kept == SocHeld' /\ Touches(OWNER_SOC_CONTROLLER) /\ socPc' \in [SocTasks -> SocPlaces]
           Task == socTask' \in SocLoops \cup {NoOne}
\* A coroutine goes on to a place where it still holds 1038 ...
<1>1. ASSUME NEW t \in SocTasks, NEW pc \in SocPlaces \ {"idle"}, SocGoto(t, pc),
             UNCHANGED owner \/ (CanAcquire(OWNER_SOC_CONTROLLER) /\ owner' = OWNER_SOC_CONTROLLER)
      PROVE  Kept
    BY <1>1 DEF SocGoto, CanAcquire
\* ... or ends and releases it.
<1>2. ASSUME NEW t \in SocTasks, SocGoto(t, "idle"), owner' = AfterRelease(OWNER_SOC_CONTROLLER)
      PROVE  Kept
    BY <1>2 DEF SocGoto, SocPlaces
<1>3. ASSUME NEW t \in SocTasks, NEW snap, NormalThenRelease(t, snap)
      PROVE  Kept
    BY <1>1, <1>2, <1>3 DEF NormalThenRelease, NormalBegin, SocPlaces
\* A call that finds a loop running, or starts one, leaves 1038 to the loop.
<1>4. ASSUME NEW c \in SocCalls, TaskRunning, SocGoto(c, "idle"),
             UNCHANGED owner \/ (CanAcquire(OWNER_SOC_CONTROLLER) /\ owner' = OWNER_SOC_CONTROLLER)
      PROVE  Kept
    BY <1>4, SocIdentities DEF TaskRunning, SocGoto, SocPlaces, CanAcquire
<1>5. ASSUME NEW c \in SocCalls, StartLoop(c),
             UNCHANGED owner \/ (CanAcquire(OWNER_SOC_CONTROLLER) /\ owner' = OWNER_SOC_CONTROLLER)
      PROVE  Kept /\ Task
  <2>1. CASE TaskRunning /\ SocGoto(c, "idle") /\ UNCHANGED socTask
      BY <1>4, <1>5, <2>1
  <2>2. ASSUME NEW l \in SocLoops, socTask' = l, socPc' = [socPc EXCEPT ![c] = "idle", ![l] = "snap38"]
        PROVE  Kept /\ Task
      BY <1>5, <2>2, SocIdentities DEF CanAcquire, SocPlaces
  <2> QED BY <1>5, <2>1, <2>2 DEF StartLoop, FreeSocLoops
<1>6. ASSUME NEW c \in SocCalls, StopLoop(c)
      PROVE  Kept /\ Task
  <2>1. CASE TaskRunning
      BY <1>6, <2>1, SocIdentities DEF StopLoop, TaskRunning, SocPlaces
  <2>2. CASE ~TaskRunning
      BY <1>3, <1>6, <2>2 DEF StopLoop
  <2> QED BY <2>1, <2>2
<1>7. ASSUME NEW c \in SocCalls, NEW running, SocSetTarget(c, running) \/ SocStop(c) \/ SocInterrupt(c)
      PROVE  Kept /\ Task
    BY <1>1, <1>5, <1>6, <1>7 DEF SocSetTarget, SocStop, SocInterrupt, LockWait, busVars, SocPlaces
<1>8. ASSUME NEW c \in SocCalls, SocStart(c) \/ SocUndo(c) \/ SocStopLocked(c) \/ SocJoined(c) \/ SocStopped(c)
      PROVE  Kept /\ Task
  <2>1. CASE SocUndo(c)
      BY <1>2, <1>4, <2>1 DEF SocUndo
  <2> QED BY <1>2, <1>3, <1>5, <1>6, <1>8, <2>1 DEF SocStart, SocStopLocked, SocJoined, SocStopped
<1>9. CASE UnloadBegin
    BY <1>1, <1>6, <1>9 DEF UnloadBegin, busVars, socVars, SocPlaces
<1>10. ASSUME NEW t \in SocTasks, NormalNext(t)
      PROVE  Kept /\ Task
    BY <1>1, <1>10 DEF NormalNext, SocPlaces
\* The loop: its steps are these three.
<1>11. ASSUME NEW l \in SocLoops, NEW pc \in SocPlaces \ {"idle"}, SocGoto(l, pc), UNCHANGED <<owner, socTask>>
       PROVE  Kept /\ Task
    BY <1>1, <1>11
<1>12. ASSUME NEW l \in SocLoops, NEW snap, LoopFinally(l, snap)
       PROVE  Kept /\ Task
    BY <1>3, <1>12 DEF LoopFinally
<1>13. ASSUME NEW l \in SocLoops, LoopNormalDone(l)
       PROVE  Kept /\ Task
    BY <1>2, <1>11, <1>13 DEF LoopNormalDone, LoopSleep, SocPlaces
<1>14. ASSUME NEW l \in SocLoops, NEW snap, LoopCycle(l, snap)
       PROVE  Kept /\ Task
    BY <1>11, <1>12, <1>14 DEF LoopCycle, LoopAwait, SocPlaces
<1>15. ASSUME NEW l \in SocLoops, LoopSnapshot(l) \/ LoopTick(l) \/ LoopCancelled(l)
       PROVE  Kept /\ Task
    BY <1>11, <1>12, <1>14, <1>15 DEF LoopSnapshot, LoopTick, LoopCancelled, LoopAwait, SocPlaces
<1>16. ASSUME NEW l \in SocLoops, LoopReadSoc(l) \/ LoopReadTemp(l) \/ LoopReadState(l) \/ LoopDriven(l)
       PROVE  Kept /\ Task
    BY <1>11, <1>12, <1>16
       DEF LoopReadSoc, LoopReadTemp, LoopReadState, LoopDriven, LoopAwait, LoopSleep, NormalBegin, SocPlaces
<1> QED BY <1>7, <1>8, <1>9, <1>10, <1>13, <1>15, <1>16 DEF SocCall, SocGoOn

\* So does a battery test.
LEMMA TestKeepsHeld ==
    ASSUME HeldInv, TestCall(SocActive) \/ \E s \in Suites : TestGoOn(s)
    PROVE  TestHeld' /\ Touches(OWNER_BATTERY_TEST) /\ tstPc' \in [Suites -> TestPlaces]
<1> USE DEF Touches, HeldInv, Places, TestHeld, Testing, AfterRelease, NoOne, Owners, OWNER_BATTERY_TEST
<1> DEFINE Kept == TestHeld' /\ Touches(OWNER_BATTERY_TEST) /\ tstPc' \in [Suites -> TestPlaces]
           Body == TestPlaces \ {"idle", "normal34", "normal38", "normal40", "flush"}
\* A suite goes on within its body, gives 1038 back, or goes on after that.
<1>1. ASSUME NEW s \in Suites, NEW pc \in Body, TestGoto(s, pc),
             UNCHANGED owner \/ (CanAcquire(OWNER_BATTERY_TEST) /\ owner' = OWNER_BATTERY_TEST)
      PROVE  Kept
    BY <1>1 DEF TestGoto, CanAcquire
<1>2. ASSUME NEW s \in Suites, TestFinally(s)
      PROVE  Kept
    BY <1>2 DEF TestFinally, TestGoto, TestPlaces
<1>3. ASSUME NEW s \in Suites, NEW pc \in TestPlaces, ~Testing(s), TestGoto(s, pc), UNCHANGED owner
      PROVE  Kept
    BY <1>3 DEF TestGoto
<1>4. ASSUME NEW s \in Suites, NEW active, TestPress(s, active)
      PROVE  Kept
    BY <1>1, <1>3, <1>4 DEF TestPress, busVars, TestPlaces
<1>5. ASSUME NEW s \in Suites, NEW i, TestPhase(s, i)
      PROVE  Kept
    BY <1>1, <1>2, <1>5 DEF TestPhase, TestPlaces
<1>6. ASSUME NEW s \in Suites, NEW ok, TestKept(s, ok)
      PROVE  Kept
    BY <1>1, <1>2, <1>6 DEF TestKept, TestPlaces
<1>7. ASSUME NEW s \in Suites, TestDumped(s) \/ TestSnapshot(s) \/ TestTried(s) \/ TestState(s)
      PROVE  Kept
    BY <1>1, <1>2, <1>5, <1>7 DEF TestDumped, TestSnapshot, TestTried, TestState, TestPlaces
<1>8. ASSUME NEW s \in Suites, TestPhase34(s) \/ TestPhase38(s) \/ TestTurn(s) \/ TestGap(s)
      PROVE  Kept
    BY <1>1, <1>2, <1>5, <1>8 DEF TestPhase34, TestPhase38, TestTurn, TestGap, TestPlaces
<1>9. ASSUME NEW s \in Suites, TestKeepalive(s) \/ TestSampled(s)
      PROVE  Kept
    BY <1>1, <1>2, <1>6, <1>9 DEF TestKeepalive, TestSampled, TestPlaces
<1>10. ASSUME NEW s \in Suites, TestNormal(s) \/ TestFlushed(s)
       PROVE  Kept
    BY <1>3, <1>10 DEF TestNormal, TestFlushed, TestPlaces
<1> QED BY <1>4, <1>7, <1>8, <1>9, <1>10 DEF TestCall, TestGoOn

\* A step of one feature, which leaves the others and their part of the owner.
LEMMA OthersKeepHeld ==
    ASSUME HeldInv, NEW o \in Owners \cup {NoOne}, Touches(o)
    PROVE  /\ owner' \in Owners \cup {NoOne}
           /\ o # OWNER_CHARGE_BLOCK /\ UNCHANGED blkVars => BlockHeld' /\ blkPc' \in [BlockTasks -> BlockPlaces]
           /\ o # OWNER_GRID_FEEDIN /\ UNCHANGED limVars =>
                GridHeld' /\ GridTold' /\ limPc' \in [GridTasks -> GridPlaces]
           /\ o # OWNER_SOC_CONTROLLER /\ UNCHANGED socVars =>
                SocHeld' /\ socPc' \in [SocTasks -> SocPlaces] /\ socTask' \in SocLoops \cup {NoOne}
           /\ o # OWNER_BATTERY_TEST /\ UNCHANGED tstVars => TestHeld' /\ tstPc' \in [Suites -> TestPlaces]
<1> USE DEF HeldInv, Places, Touches, Owners, NoOne, OWNER_CHARGE_BLOCK, OWNER_GRID_FEEDIN, OWNER_SOC_CONTROLLER,
            OWNER_BATTERY_TEST
<1>1. owner' \in Owners \cup {NoOne}
    OBVIOUS
<1>2. o # OWNER_CHARGE_BLOCK /\ UNCHANGED blkVars => BlockHeld' /\ blkPc' \in [BlockTasks -> BlockPlaces]
    BY DEF BlockHeld, blkVars
<1>3. o # OWNER_GRID_FEEDIN /\ UNCHANGED limVars => GridHeld' /\ GridTold' /\ limPc' \in [GridTasks -> GridPlaces]
    BY DEF GridHeld, GridTold, limVars
<1>4. o # OWNER_SOC_CONTROLLER /\ UNCHANGED socVars =>
                SocHeld' /\ socPc' \in [SocTasks -> SocPlaces] /\ socTask' \in SocLoops \cup {NoOne}
    BY DEF SocHeld, socVars
<1>5. o # OWNER_BATTERY_TEST /\ UNCHANGED tstVars => TestHeld' /\ tstPc' \in [Suites -> TestPlaces]
    BY DEF TestHeld, Testing, tstVars
<1> QED BY <1>1, <1>2, <1>3, <1>4, <1>5

\* No step leaves the register to a feature that is off.
LEMMA HeldInductive ==
    ASSUME HeldInv, GridCallsWait, [Next]_vars
    PROVE  HeldInv'
<1>1. ASSUME BlockCall \/ BlockRemoval \/ \E t \in BlockTasks : BlockGoOn(t), UNCHANGED <<limVars, socVars, tstVars>>
      PROVE  HeldInv'
    BY <1>1, BlockKeepsHeld, OthersKeepHeld
       DEF HeldInv, Places, Owners, OWNER_CHARGE_BLOCK, OWNER_GRID_FEEDIN, OWNER_SOC_CONTROLLER, OWNER_BATTERY_TEST
<1>2. ASSUME GridCall \/ GridRemoval \/ \E t \in GridTasks : GridGoOn(t), UNCHANGED <<blkVars, socVars, tstVars>>
      PROVE  HeldInv'
    BY <1>2, GridKeepsHeld, OthersKeepHeld
       DEF HeldInv, Places, Owners, OWNER_CHARGE_BLOCK, OWNER_GRID_FEEDIN, OWNER_SOC_CONTROLLER, OWNER_BATTERY_TEST
<1>3. ASSUME SocCall(TestRunning) \/ UnloadBegin \/ \E t \in SocTasks : SocGoOn(t),
             UNCHANGED <<blkVars, limVars, tstVars>>
      PROVE  HeldInv'
    BY <1>3, SocKeepsHeld, OthersKeepHeld
       DEF HeldInv, Places, Owners, OWNER_CHARGE_BLOCK, OWNER_GRID_FEEDIN, OWNER_SOC_CONTROLLER, OWNER_BATTERY_TEST
<1>4. ASSUME TestCall(SocActive) \/ \E s \in Suites : TestGoOn(s),
             UNCHANGED <<blkVars, limVars, socVars>>
      PROVE  HeldInv'
    BY <1>4, TestKeepsHeld, OthersKeepHeld
       DEF HeldInv, Places, Owners, OWNER_CHARGE_BLOCK, OWNER_GRID_FEEDIN, OWNER_SOC_CONTROLLER, OWNER_BATTERY_TEST
<1>5. ASSUME UNCHANGED <<owner, blkVars, limVars, socVars, tstVars>>
      PROVE  HeldInv'
    BY <1>5, OthersKeepHeld
       DEF HeldInv, Places, Touches, NoOne, OWNER_CHARGE_BLOCK, OWNER_GRID_FEEDIN, OWNER_SOC_CONTROLLER, OWNER_BATTERY_TEST
<1>6. CASE UNCHANGED vars
    BY <1>5, <1>6 DEF vars, busVars
<1>7. CASE Inverter
    BY <1>5, <1>7 DEF Inverter, BusNext, Answer, Refuse, Falter, Retry, Expire
<1>8. CASE Request
  <2>1. ASSUME ExtCall(SocActive) PROVE UNCHANGED owner
      BY <2>1 DEF ExtCall, ProxyWrite, ProxyTimeout, MqttCommand
  <2> QED BY <1>1, <1>2, <1>3, <1>4, <1>5, <1>8, <2>1 DEF Request
<1>9. ASSUME NEW t \in Tasks, GoesOn(t)
      PROVE  HeldInv'
  <2>1. ASSUME ExtGoOn(t) PROVE UNCHANGED owner
      BY <2>1 DEF ExtGoOn, ProxyAnswered, MqttTurn, MqttAnswered
  <2> QED BY <1>1, <1>2, <1>3, <1>4, <1>5, <1>9, <2>1 DEF GoesOn
<1>10. CASE Teardown
    BY <1>1, <1>2, <1>3, <1>5, <1>10
       DEF Teardown, EntityRemoved, UnloadBegin, UnloadShut, UnloadRemove, RemoveEntity
<1> QED BY <1>6, <1>7, <1>8, <1>9, <1>10 DEF Next

\* At the start nobody owns it.
LEMMA HeldInitially == Init => HeldInv
<1> SUFFICES ASSUME Init PROVE HeldInv
    OBVIOUS
<1>1. owner = NoOne /\ socTask = NoOne
    BY DEF Init, BusInit, SocInit
<1>2. Places /\ socPc \in [SocTasks -> SocPlaces]
    BY DEF Init, BlockInit, GridInit, SocInit, TestInit, Places, BlockPlaces, GridPlaces, TestPlaces, SocPlaces
<1>3. GridTold
    BY <1>1 DEF Init, GridInit, GridTold, NoOne, OWNER_GRID_FEEDIN
<1> QED BY <1>1, <1>2, <1>3 DEF HeldInv, BlockHeld, GridHeld, SocHeld, TestHeld, NoOne, OWNER_CHARGE_BLOCK,
           OWNER_GRID_FEEDIN, OWNER_SOC_CONTROLLER, OWNER_BATTERY_TEST

\* battery_reg_1038_owner.py: for any number of calls, loops and suites, any
\* faults of the bus, crashes of the loops and an unload, register 1038 stays
\* with no feature that is off once nothing is under way, so that no feature is
\* locked out of it for good.  Calls of the optimiser's switch must not overlap:
\* a turn-off between the steps of a turn-on leaves _restore_handled_in_turn_off
\* set, and then a loop that crashes keeps the register.
THEOREM RegisterIsGivenBack ==
    ASSUME GridCallsWait
    PROVE  Spec => []NoOrphanOwner
<1>1. HeldInv /\ [Next]_vars => HeldInv'
    BY HeldInductive
<1>2. HeldInv => NoOrphanOwner
  <2> SUFFICES ASSUME HeldInv, Quiet, owner # NoOne PROVE owner \in Driving
      BY DEF NoOrphanOwner
  <2> USE DEF HeldInv, Quiet, Driving
  <2>1. CASE owner = OWNER_CHARGE_BLOCK
      BY <2>1 DEF BlockHeld, BlockQuiet
  <2>2. CASE owner = OWNER_GRID_FEEDIN
      BY <2>2 DEF GridHeld, GridQuiet
  <2>3. CASE owner = OWNER_SOC_CONTROLLER
      BY <2>3 DEF SocHeld, SocQuiet, SocTasks
  <2>4. CASE owner = OWNER_BATTERY_TEST
      BY <2>4 DEF TestHeld, TestQuiet, Testing
  <2> QED BY <2>1, <2>2, <2>3, <2>4 DEF Owners
<1> QED BY <1>1, <1>2, HeldInitially, PTL DEF Spec

-----------------------------------------------------------------------------
(* A switch that is on, and a test that runs, owns register 1038.          *)

\* Nobody repeats a call or makes two at a time, no entity is removed, no loop
\* crashes, and the SoC controller is not used.
PlainUse == Habits = {} /\ "crash" \notin Faults /\ ~MayUnload /\ SocCalls = {}

\* The charge block: one call at a time, which knows whether the switch is on.
BlockOwns ==
    /\ blkPc \in [BlockTasks -> BlockPlaces]
    /\ \A c, d \in BlockCalls : blkPc[c] # "idle" /\ blkPc[d] # "idle" => c = d
    /\ \A c \in BlockCalls :
          /\ blkPc[c] \in {"block", "restore"} => owner = OWNER_CHARGE_BLOCK
          /\ blkPc[c] \in {"snapshot", "block"} => ~blkOn
          /\ blkPc[c] # "remove"
    /\ blkOn => owner = OWNER_CHARGE_BLOCK

\* The optimiser: a loop is the one in _task of a switch that is on, or it was
\* cancelled by the call that waits for it.
GridOwns ==
    /\ limPc \in [GridTasks -> GridPlaces] /\ limJoin \in [GridCalls -> GridLoops \cup {NoOne}]
    /\ \A c, d \in GridCalls : limPc[c] # "idle" /\ limPc[d] # "idle" => c = d
    /\ \A c \in GridCalls :
          /\ limJoin[c] # NoOne => limPc[c] = "join"
          /\ limPc[c] \in {"join", "restore"} => owner = OWNER_GRID_FEEDIN
          /\ limPc[c] \in {"snapshot", "join", "restore"} => ~limOn
          /\ limPc[c] # "remove"
    /\ limOn => owner = OWNER_GRID_FEEDIN
    /\ \A l \in GridLoops :
          /\ limPc[l] \in {"idle", "read", "write", "sleep", "cancelled"}
          /\ limPc[l] \in {"read", "write", "sleep"} => limOn /\ l = limTask
          /\ limPc[l] = "cancelled" => limHandled /\ \E c \in GridCalls : limPc[c] = "join" /\ limJoin[c] = l

\* The battery test: one suite at a time.
TestOwns ==
    /\ tstPc \in [Suites -> TestPlaces]
    /\ \A s, z \in Suites : tstPc[s] # "idle" /\ tstPc[z] # "idle" => s = z
    /\ \A s \in Suites : Testing(s) => owner = OWNER_BATTERY_TEST

OwnsInv ==
    /\ owner \in Owners \cup {NoOne} /\ unload = "loaded" /\ BlockOwns /\ GridOwns /\ TestOwns
    /\ \A l \in SocLoops : socPc[l] = "idle"

\* The charge block touches only its own claim on the register.
LEMMA BlockKeepsOwns ==
    ASSUME OwnsInv, PlainUse, BlockCall \/ \E t \in BlockTasks : BlockGoOn(t)
    PROVE  BlockOwns' /\ Touches(OWNER_CHARGE_BLOCK)
<1> USE DEF OwnsInv, BlockOwns, BlockPlaces, BlockTasks, Touches, AfterRelease, NoOne, OWNER_CHARGE_BLOCK
<1>1. ASSUME NEW c \in BlockCalls, NEW snap, BlockEngage(c, snap), blkPc[c] \in {"idle", "snapshot"}, ~blkOn,
             \A d \in BlockCalls : d # c => blkPc[d] = "idle"
      PROVE  BlockOwns' /\ Touches(OWNER_CHARGE_BLOCK)
    BY <1>1, BlockIdentities DEF BlockEngage, CanAcquire
<1>2. ASSUME NEW c \in BlockCalls, BlockTurnOn(c)
      PROVE  BlockOwns' /\ Touches(OWNER_CHARGE_BLOCK)
    BY <1>1, <1>2, BlockIdentities DEF BlockTurnOn, BlockMayCall, PlainUse
<1>3. ASSUME NEW c \in BlockCalls, BlockSnapshot(c)
      PROVE  BlockOwns' /\ Touches(OWNER_CHARGE_BLOCK)
    BY <1>1, <1>3 DEF BlockSnapshot
<1>4. ASSUME NEW c \in BlockCalls, BlockTurnOff(c)
      PROVE  BlockOwns' /\ Touches(OWNER_CHARGE_BLOCK)
    BY <1>4, BlockIdentities DEF BlockTurnOff, BlockRestore, BlockMayCall, PlainUse
<1>5. ASSUME NEW c \in BlockCalls, BlockFailed(c) \/ BlockStarted(c) \/ BlockTurnedOff(c) \/ BlockRemoved(c)
      PROVE  BlockOwns' /\ Touches(OWNER_CHARGE_BLOCK)
    BY <1>5, BlockIdentities DEF BlockFailed, BlockStarted, BlockTurnedOff, BlockRemoved
<1>6. ASSUME BlockKeepaliveTick \/ BlockKeepaliveWritten
      PROVE  BlockOwns' /\ Touches(OWNER_CHARGE_BLOCK)
    BY <1>6, BlockIdentities DEF BlockKeepaliveTick, BlockKeepaliveWritten
<1> QED BY <1>2, <1>3, <1>4, <1>5, <1>6 DEF BlockCall, BlockGoOn

\* So does the optimiser.
LEMMA GridKeepsOwns ==
    ASSUME OwnsInv, PlainUse, GridCall \/ \E t \in GridTasks : GridGoOn(t)
    PROVE  GridOwns' /\ Touches(OWNER_GRID_FEEDIN)
<1> USE DEF OwnsInv, GridPlaces, GridTasks, Touches, AfterRelease, NoOne, OWNER_GRID_FEEDIN
<1> DEFINE Kept == GridOwns' /\ Touches(OWNER_GRID_FEEDIN)
<1>1. ASSUME NEW c \in GridCalls, NEW snap, GridEngage(c, snap), limPc[c] \in {"idle", "snapshot"}, ~limOn,
             \A d \in GridCalls : d # c => limPc[d] = "idle"
      PROVE  Kept
  <2>1. \A l \in GridLoops : limPc[l] = "idle"
      BY <1>1 DEF GridOwns
  <2>2. \A d \in GridCalls : limPc[d] # "join"
      BY <1>1
  <2>3. CASE ~CanAcquire(OWNER_GRID_FEEDIN)
      BY <1>1, <2>1, <2>3, GridIdentities DEF GridEngage, GridOwns
  <2>4. CASE CanAcquire(OWNER_GRID_FEEDIN)
    <3>1. GridCancelled = limPc
        BY <2>1 DEF GridCancelled, RunningGridLoops, GridOwns
    <3>2. PICK l \in GridLoops : limTask' = l /\ limPc' = [limPc EXCEPT ![c] = "idle", ![l] = "read"]
      <4>1. FreeGridLoops # {}
          BY <1>1, <2>1, <2>2, GridIdentities DEF FreeGridLoops, GridOwns
      <4> QED BY <1>1, <2>4, <3>1, <4>1 DEF GridEngage, FreeGridLoops
    <3> QED BY <1>1, <2>1, <2>4, <3>2, GridIdentities DEF GridEngage, GridOwns, CanAcquire
  <2> QED BY <2>3, <2>4
<1>2. ASSUME NEW c \in GridCalls, GridTurnOn(c)
      PROVE  Kept
  <2>1. ~limOn /\ \A d \in GridCalls : limPc[d] = "idle"
      BY <1>2 DEF GridTurnOn, GridMayCall, PlainUse
  <2>2. \A l \in GridLoops : limPc[l] = "idle"
      BY <2>1 DEF GridOwns
  <2>3. CASE GridEngage(c, limSnap)
      BY <1>1, <2>1, <2>3
  <2>4. CASE limPc' = [limPc EXCEPT ![c] = "snapshot"] /\ UNCHANGED <<owner, limOn, limTask, limJoin>>
      BY <2>1, <2>2, <2>4, GridIdentities DEF GridOwns
  <2> QED BY <1>2, <2>3, <2>4 DEF GridTurnOn
<1>3. ASSUME NEW c \in GridCalls, GridSnapshot(c)
      PROVE  Kept
    BY <1>1, <1>3 DEF GridSnapshot, GridOwns
<1>4. ASSUME NEW c \in GridCalls, GridTurnOff(c)
      PROVE  Kept
  <2>1. limOn /\ \A d \in GridCalls : limPc[d] = "idle"
      BY <1>4 DEF GridTurnOff, GridMayCall, PlainUse
  <2>2. \A l \in GridLoops : limPc[l] \in {"idle", "read", "write", "sleep"}
      BY <2>1 DEF GridOwns
  <2>3. CASE RunningGridLoops = {}
    <3>1. \A l \in GridLoops : limPc[l] = "idle"
        BY <2>2, <2>3 DEF RunningGridLoops, GridOwns
    <3> QED BY <1>4, <2>1, <2>3, <3>1, GridIdentities DEF GridTurnOff, GridRestore, GridOwns
  <2>4. CASE RunningGridLoops # {}
    <3>1. limTask \in GridLoops /\ \A l \in GridLoops : l # limTask => limPc[l] = "idle"
        BY <2>2, <2>4 DEF RunningGridLoops, GridOwns
    <3>2. /\ limPc' \in [GridTasks -> GridPlaces] /\ limPc'[c] = "join" /\ limPc'[limTask] = "cancelled"
          /\ \A t \in GridTasks : t \notin {c, limTask} => limPc'[t] = limPc[t]
      <4>1. limPc' = [GridCancelled EXCEPT ![c] = "join"]
          BY <1>4, <2>4 DEF GridTurnOff
      <4>2. RunningGridLoops = {limTask} /\ limPc[limTask] # "restoring"
          BY <2>2, <2>4, <3>1 DEF RunningGridLoops
      <4>3. GridCancelled = [t \in GridTasks |-> IF t = limTask THEN "cancelled" ELSE limPc[t]]
          BY <4>2 DEF GridCancelled
      <4> QED BY <3>1, <4>1, <4>3, GridIdentities DEF GridOwns
    <3> QED BY <1>4, <2>1, <2>4, <3>1, <3>2, GridIdentities DEF GridTurnOff, GridOwns
  <2> QED BY <2>3, <2>4
<1>5. ASSUME NEW c \in GridCalls, GridJoined(c)
      PROVE  Kept
    BY <1>5, GridIdentities DEF GridJoined, GridOwns
<1>6. ASSUME NEW c \in GridCalls, GridTurnedOff(c)
      PROVE  Kept
    BY <1>6, GridIdentities DEF GridTurnedOff, GridOwns
<1>7. ASSUME NEW l \in GridLoops, NEW pc \in {"read", "write", "sleep"}, limPc[l] \in {"read", "write", "sleep"},
              limPc' = [limPc EXCEPT ![l] = pc], UNCHANGED <<owner, limOn, limHandled, limTask, limJoin>>
      PROVE  Kept
    BY <1>7, GridIdentities DEF GridOwns
<1>8. ASSUME NEW l \in GridLoops, GridMeasured(l) \/ GridWritten(l) \/ GridTick(l)
      PROVE  Kept
    BY <1>7, <1>8 DEF GridMeasured, GridWritten, GridTick, GridSleep, PlainUse, GridOwns
<1>9. ASSUME NEW l \in GridLoops, GridLoopCancelled(l) \/ GridLoopRestored(l)
      PROVE  Kept
  <2>1. PICK c \in GridCalls : limPc[c] = "join" /\ limJoin[c] = l /\ limPc[l] = "cancelled" /\ limHandled
      BY <1>9 DEF GridLoopCancelled, GridLoopRestored, GridOwns
  <2>2. \A k \in GridLoops : k # l => limPc[k] = "idle"
      BY <2>1 DEF GridOwns
  <2>3. UNCHANGED <<owner, limTask, limJoin>> /\ ~limOn /\ ~limOn' /\ limPc' = [limPc EXCEPT ![l] = "idle"]
      BY <1>9, <2>1 DEF GridLoopCancelled, GridLoopRestored, GridLoopFinally, GridLoopEnd, GridOwns
  <2> QED BY <2>1, <2>2, <2>3, GridIdentities DEF GridOwns
<1> QED BY <1>2, <1>3, <1>4, <1>5, <1>6, <1>8, <1>9 DEF GridCall, GridGoOn

\* So does a battery test.
LEMMA TestKeepsOwns ==
    ASSUME OwnsInv, PlainUse, TestCall(SocActive) \/ \E s \in Suites : TestGoOn(s)
    PROVE  TestOwns' /\ Touches(OWNER_BATTERY_TEST)
<1> USE DEF OwnsInv, Testing, TestPlaces, Touches, AfterRelease, NoOne, OWNER_BATTERY_TEST
<1> DEFINE Kept == TestOwns' /\ Touches(OWNER_BATTERY_TEST)
<1>1. ASSUME NEW s \in Suites, NEW pc \in TestPlaces, Testing(s), TestGoto(s, pc), UNCHANGED owner
      PROVE  Kept
    BY <1>1 DEF TestGoto, TestOwns
<1>2. ASSUME NEW s \in Suites, Testing(s), TestFinally(s)
      PROVE  Kept
    BY <1>2 DEF TestFinally, TestGoto, TestOwns
<1>3. ASSUME NEW s \in Suites, NEW pc \in {"normal34", "normal38", "normal40", "flush", "idle"}, ~Testing(s), tstPc[s] # "idle",
             TestGoto(s, pc), UNCHANGED owner
      PROVE  Kept
    BY <1>3 DEF TestGoto, TestOwns
<1>4. ASSUME NEW s \in Suites, TestPress(s, SocActive)
      PROVE  Kept
  <2>1. CASE UNCHANGED <<owner, tstPc>>
      BY <2>1 DEF TestOwns
  <2>2. CASE /\ \A z \in Suites : tstPc[z] = "idle"
             /\ \/ CanAcquire(OWNER_BATTERY_TEST) /\ owner' = OWNER_BATTERY_TEST /\ TestGoto(s, "dump")
                \/ UNCHANGED owner /\ TestGoto(s, "normal34")
      BY <2>2 DEF TestGoto, CanAcquire, TestOwns
  <2> QED BY <1>4, <2>1, <2>2 DEF TestPress, busVars, PlainUse
<1>5. ASSUME NEW s \in Suites, NEW i, Testing(s), TestPhase(s, i)
      PROVE  Kept
    BY <1>1, <1>2, <1>5 DEF TestPhase
<1>6. ASSUME NEW s \in Suites, NEW ok, Testing(s), TestKept(s, ok)
      PROVE  Kept
    BY <1>1, <1>2, <1>6 DEF TestKept
<1>7. ASSUME NEW s \in Suites, TestDumped(s) \/ TestSnapshot(s) \/ TestTried(s) \/ TestState(s)
      PROVE  Kept
    BY <1>1, <1>2, <1>5, <1>7 DEF TestDumped, TestSnapshot, TestTried, TestState
<1>8. ASSUME NEW s \in Suites, TestPhase34(s) \/ TestPhase38(s) \/ TestTurn(s) \/ TestGap(s)
      PROVE  Kept
    BY <1>1, <1>2, <1>5, <1>8 DEF TestPhase34, TestPhase38, TestTurn, TestGap
<1>9. ASSUME NEW s \in Suites, TestKeepalive(s) \/ TestSampled(s)
      PROVE  Kept
    BY <1>1, <1>2, <1>6, <1>9 DEF TestKeepalive, TestSampled
<1>10. ASSUME NEW s \in Suites, TestNormal(s) \/ TestFlushed(s)
       PROVE  Kept
    BY <1>3, <1>10 DEF TestNormal, TestFlushed
<1> QED BY <1>4, <1>7, <1>8, <1>9, <1>10 DEF TestCall, TestGoOn

\* A step of feature o leaves the others what they own.
LEMMA OthersOwn ==
    ASSUME OwnsInv, NEW o \in Owners \cup {NoOne}, Touches(o)
    PROVE  /\ owner' \in Owners \cup {NoOne}
           /\ o # OWNER_CHARGE_BLOCK /\ UNCHANGED blkVars => BlockOwns'
           /\ o # OWNER_GRID_FEEDIN /\ UNCHANGED limVars => GridOwns'
           /\ o # OWNER_BATTERY_TEST /\ UNCHANGED tstVars => TestOwns'
<1> USE DEF OwnsInv, Touches, Owners, NoOne, OWNER_CHARGE_BLOCK, OWNER_GRID_FEEDIN, OWNER_SOC_CONTROLLER,
            OWNER_BATTERY_TEST
<1>1. owner' \in Owners \cup {NoOne}
    OBVIOUS
<1>2. o # OWNER_CHARGE_BLOCK /\ UNCHANGED blkVars => BlockOwns'
    BY DEF BlockOwns, blkVars
<1>3. o # OWNER_GRID_FEEDIN /\ UNCHANGED limVars => GridOwns'
    BY DEF GridOwns, limVars
<1>4. o # OWNER_BATTERY_TEST /\ UNCHANGED tstVars => TestOwns'
    BY DEF TestOwns, Testing, tstVars
<1> QED BY <1>1, <1>2, <1>3, <1>4

\* No step separates driving the register from owning it.
LEMMA OwnsInductive ==
    ASSUME OwnsInv, PlainUse, [Next]_vars
    PROVE  OwnsInv'
<1> USE DEF Owners, NoOne, OWNER_CHARGE_BLOCK, OWNER_GRID_FEEDIN, OWNER_SOC_CONTROLLER, OWNER_BATTERY_TEST
<1>1. ASSUME BlockCall \/ \E t \in BlockTasks : BlockGoOn(t), UNCHANGED <<limVars, socVars, tstVars, unload>>
      PROVE  OwnsInv'
    BY <1>1, BlockKeepsOwns, OthersOwn DEF OwnsInv, socVars
<1>2. ASSUME GridCall \/ \E t \in GridTasks : GridGoOn(t), UNCHANGED <<blkVars, socVars, tstVars, unload>>
      PROVE  OwnsInv'
    BY <1>2, GridKeepsOwns, OthersOwn DEF OwnsInv, socVars
<1>3. ASSUME TestCall(SocActive) \/ \E s \in Suites : TestGoOn(s), UNCHANGED <<blkVars, limVars, socVars, unload>>
      PROVE  OwnsInv'
    BY <1>3, TestKeepsOwns, OthersOwn DEF OwnsInv, socVars
<1>4. ASSUME UNCHANGED <<owner, blkVars, limVars, socVars, tstVars, unload>>
      PROVE  OwnsInv'
    BY <1>4, OthersOwn DEF OwnsInv, socVars, Touches
<1>5. CASE UNCHANGED vars
    BY <1>4, <1>5 DEF vars, busVars
<1>6. CASE Inverter
    BY <1>4, <1>6 DEF Inverter, BusNext, Answer, Refuse, Falter, Retry, Expire
<1>7. CASE Request
  <2>1. ~SocCall(TestRunning)
      BY DEF SocCall, PlainUse
  <2>2. ASSUME ExtCall(SocActive) PROVE UNCHANGED owner
      BY <2>2 DEF ExtCall, ProxyWrite, ProxyTimeout, MqttCommand
  <2> QED BY <1>1, <1>2, <1>3, <1>4, <1>7, <2>1, <2>2 DEF Request
<1>8. ASSUME NEW t \in Tasks, GoesOn(t)
      PROVE  OwnsInv'
  <2>1. ~(t \in SocTasks /\ SocGoOn(t))
    <3>1. ASSUME t \in SocTasks PROVE socPc[t] = "idle" /\ t \notin SocCalls
        BY <3>1 DEF SocTasks, PlainUse, OwnsInv
    <3> QED BY <3>1 DEF SocGoOn, NormalNext, LoopSnapshot, LoopReadSoc, LoopReadTemp, LoopReadState, LoopDriven,
              LoopTick, LoopCancelled, LoopNormalDone, NormalDone
  <2>2. ASSUME ExtGoOn(t) PROVE UNCHANGED owner
      BY <2>2 DEF ExtGoOn, ProxyAnswered, MqttTurn, MqttAnswered
  <2> QED BY <1>1, <1>2, <1>3, <1>4, <1>8, <2>1, <2>2 DEF GoesOn
<1>9. ~Teardown
    BY DEF Teardown, EntityRemoved, UnloadBegin, UnloadShut, UnloadRemove, PlainUse, OwnsInv
<1> QED BY <1>5, <1>6, <1>7, <1>8, <1>9 DEF Next

\* At the start no feature drives.
LEMMA OwnsInitially == Init => OwnsInv
<1> SUFFICES ASSUME Init PROVE OwnsInv
    OBVIOUS
<1>1. owner = NoOne /\ unload = "loaded" /\ \A l \in SocLoops : socPc[l] = "idle"
    BY DEF Init, BusInit, SocInit, SocTasks
<1>2. BlockOwns
    BY DEF Init, BlockInit, BlockOwns, BlockPlaces, BlockTasks
<1>3. GridOwns
    BY DEF Init, GridInit, GridOwns, GridPlaces, GridTasks
<1>4. TestOwns
    BY DEF Init, TestInit, TestOwns, Testing, TestPlaces
<1> QED BY <1>1, <1>2, <1>3, <1>4 DEF OwnsInv

\* battery_reg_1038_owner.py: as long as nobody repeats or overlaps calls and no
\* loop crashes, the charge block, the optimiser and the battery test never drive
\* register 1038 side by side, and who drives it owns it, for any number of calls
\* and suites and with every fault of the bus, retry and timeout.
THEOREM OneFeatureDrives ==
    ASSUME PlainUse
    PROVE  Spec => []OneDriver
<1>1. OwnsInv /\ [Next]_vars => OwnsInv'
    BY OwnsInductive
<1>2. OwnsInv => OneDriver
    BY DEF OwnsInv, BlockOwns, GridOwns, TestOwns, Testing, OneDriver, Driving
<1> QED BY <1>1, <1>2, OwnsInitially, PTL DEF Spec

-----------------------------------------------------------------------------
(* Queues that lose some of their elements.                                *)

\* A sequence, of whatever.
IsQueue(q) == \E S : q \in Seq(S)

\* What is left of queue q, in its order, is in p.
PartOf(p, q) ==
    \E at \in [DOMAIN p -> DOMAIN q] :
        /\ \A i \in DOMAIN p : p[i] = q[at[i]]
        /\ \A i, j \in DOMAIN p : i < j => at[i] < at[j]

\* A set of natural numbers has a least element.
LEMMA LeastOf ==
    ASSUME NEW T, T \subseteq Nat, T # {}
    PROVE  \E x \in T : \A y \in T : x <= y
<1>1. PICK x \in T : \A y \in T : <<y, x>> \notin OpToRel(<, Nat)
    BY NatLessThanWellFounded, WFMin
<1>2. \A y \in T : ~(y < x)
    BY <1>1 DEF OpToRel
<1> QED BY <1>2

\* The n-th element of a finite set of natural numbers, for each n up to its size.
LEMMA NthOf ==
    ASSUME NEW K, K \subseteq Nat, IsFiniteSet(K), NEW n \in 1 .. Cardinality(K)
    PROVE  \E i \in K : Cardinality({j \in K : j <= i}) = n
<1> DEFINE UpTo(i) == {j \in K : j <= i}
           Missing == {m \in 1 .. Cardinality(K) : \A i \in K : Cardinality(UpTo(i)) # m}
<1> SUFFICES ASSUME Missing # {} PROVE FALSE
    OBVIOUS
<1>1. Cardinality(K) \in Nat /\ Missing \subseteq Nat
    BY FS_CardinalityType
<1>2. PICK m \in Missing : \A k \in Missing : m <= k
  <2> HIDE DEF Missing
  <2> QED BY <1>1, LeastOf
<1>3. m \in 1 .. Cardinality(K) /\ \A i \in K : Cardinality(UpTo(i)) # m
    BY <1>2
<1>4. PICK L : /\ L \subseteq K /\ IsFiniteSet(L) /\ Cardinality(L) = m - 1
               /\ \A i \in L, j \in K : j <= i => j \in L
  <2>1. CASE m = 1
      BY <2>1, FS_EmptySet
  <2>2. CASE m # 1
    <3>1. m - 1 \in 1 .. Cardinality(K) /\ m - 1 < m
        BY <1>1, <1>3, <2>2
    <3>2. m - 1 \notin Missing
        BY <1>2, <3>1
    <3>3. PICK i \in K : Cardinality(UpTo(i)) = m - 1
        BY <3>1, <3>2
    <3>4. IsFiniteSet(UpTo(i))
        BY FS_Subset
    <3>5. \A k \in UpTo(i), j \in K : j <= k => j \in UpTo(i)
        OBVIOUS
    <3> HIDE DEF UpTo
    <3>6. UpTo(i) \subseteq K
        BY DEF UpTo
    <3> QED BY <3>3, <3>4, <3>5, <3>6
  <2> QED BY <2>1, <2>2
<1>5. K \ L # {}
  <2>1. CASE L = K
      BY <1>1, <1>3, <1>4, <2>1
  <2> QED BY <1>4, <2>1
<1>6. PICK i \in K \ L : \A j \in K \ L : i <= j
  <2> DEFINE Rest == K \ L
  <2>1. Rest \subseteq Nat /\ Rest # {}
      BY <1>5
  <2> HIDE DEF Rest
  <2>2. \E x \in Rest : \A y \in Rest : x <= y
      BY <2>1, LeastOf
  <2> QED BY <2>2 DEF Rest
<1>7. UpTo(i) = L \cup {i}
  <2>1. \A j \in L : j <= i
      BY <1>4, <1>6
  <2>2. \A j \in K \ L : j <= i => j = i
      BY <1>6
  <2> QED BY <1>4, <1>6, <2>1, <2>2
<1>8. Cardinality(UpTo(i)) = m
  <2>1. Cardinality(L \cup {i}) = Cardinality(L) + 1
      BY <1>4, <1>6, FS_AddElement
  <2> HIDE DEF UpTo
  <2> QED BY <1>3, <1>4, <1>7, <2>1
<1> QED BY <1>3, <1>6, <1>8

\* Dropping frames keeps the order of the others, and drops all it should.
LEMMA DropFromIsPart ==
    ASSUME NEW q, IsQueue(q), NEW S
    PROVE  /\ IsQueue(DropFrom(q, S)) /\ PartOf(DropFrom(q, S), q)
           /\ \A i \in DOMAIN DropFrom(q, S) : DropFrom(q, S)[i].task \notin S
<1> DEFINE kept == {i \in DOMAIN q : q[i].task \notin S}
           UpTo(i) == {j \in kept : j <= i}
           nth(n) == CHOOSE i \in kept : Cardinality(UpTo(i)) = n
           size == Cardinality(kept)
           p == [n \in 1 .. size |-> q[nth(n)]]
<1>1. PICK V : q \in Seq(V)
    BY DEF IsQueue
<1>2. DropFrom(q, S) = p
    BY DEF DropFrom
<1>3. kept \subseteq DOMAIN q /\ kept \subseteq Nat /\ IsFiniteSet(kept) /\ size \in Nat
  <2>1. DOMAIN q = 1 .. Len(q) /\ Len(q) \in Nat
      BY <1>1
  <2>2. IsFiniteSet(1 .. Len(q))
      BY <2>1, FS_Interval
  <2>3. kept \subseteq 1 .. Len(q)
      BY <2>1
  <2>4. IsFiniteSet(kept)
      BY <2>2, <2>3, FS_Subset
  <2> QED BY <2>1, <2>3, <2>4, FS_CardinalityType
<1>4. \A i \in kept : IsFiniteSet(UpTo(i)) /\ Cardinality(UpTo(i)) \in Nat
  <2> HIDE DEF kept
  <2> QED BY <1>3, FS_Subset, FS_CardinalityType
<1>5. \A n \in 1 .. size : nth(n) \in kept /\ Cardinality(UpTo(nth(n))) = n
  <2> HIDE DEF kept
  <2> SUFFICES ASSUME NEW n \in 1 .. size PROVE \E i \in kept : Cardinality(UpTo(i)) = n
      OBVIOUS
  <2> QED BY <1>3, NthOf
<1>6. \A m, n \in 1 .. size : m < n => nth(m) < nth(n)
  <2> SUFFICES ASSUME NEW m \in 1 .. size, NEW n \in 1 .. size, m < n, ~(nth(m) < nth(n))
               PROVE  FALSE
      OBVIOUS
  <2>1. nth(n) <= nth(m) /\ nth(m) \in kept /\ nth(n) \in kept
    <3> HIDE DEF kept, nth, UpTo, size
    <3>1. nth(m) \in kept /\ nth(n) \in kept
        BY <1>5
    <3>2. nth(m) \in Nat /\ nth(n) \in Nat
        BY <1>3, <3>1
    <3> QED BY <3>1, <3>2
  <2>2. UpTo(nth(n)) \subseteq UpTo(nth(m))
    <3> HIDE DEF kept, nth
    <3> QED BY <1>3, <2>1
  <2>3. Cardinality(UpTo(nth(n))) <= Cardinality(UpTo(nth(m)))
    <3> HIDE DEF UpTo
    <3> QED BY <1>4, <2>1, <2>2, FS_Subset
  <2> HIDE DEF UpTo, nth
  <2> QED BY <1>3, <1>5, <2>3
<1> HIDE DEF nth
<1>7. \A n \in 1 .. size : nth(n) \in DOMAIN q /\ q[nth(n)] \in V /\ q[nth(n)].task \notin S
  <2> HIDE DEF UpTo, size
  <2>1. \A i \in kept : i \in DOMAIN q /\ q[i] \in V /\ q[i].task \notin S
      BY <1>1
  <2> HIDE DEF kept
  <2> QED BY <1>5, <2>1
<1> HIDE DEF kept, UpTo, size
<1>8. p \in Seq(V) /\ DOMAIN p = 1 .. size
    BY <1>3, <1>7 DEF size
<1>9. PartOf(p, q)
  <2> DEFINE at == [n \in DOMAIN p |-> nth(n)]
  <2>1. at \in [DOMAIN p -> DOMAIN q]
      BY <1>7, <1>8
  <2>2. /\ \A i \in DOMAIN p : p[i] = q[at[i]]
        /\ \A i, j \in DOMAIN p : i < j => at[i] < at[j]
      BY <1>6, <1>8
  <2> HIDE DEF at, p
  <2> QED BY <2>1, <2>2 DEF PartOf
<1>10. \A i \in DOMAIN p : p[i].task \notin S
    BY <1>7, <1>8
<1> HIDE DEF p
<1> QED BY <1>2, <1>8, <1>9, <1>10 DEF IsQueue

-----------------------------------------------------------------------------
(* A write from outside never overtakes, nor outlives, the owner's first.   *)

\* A frame is a record of its parts.
IsFrame(f) == f = Frame(f.task, f.op, f.reg, f.val, f.left, f.guarded)

\* An outside write that can still be sent again is sent under the guard; the
\* owner's accesses come after all outside writes, of which none is left on the
\* bus once one of the owner's has been served.
OutsideInv ==
    /\ IsQueue(bus) /\ (\A i \in DOMAIN bus : IsFrame(bus[i])) /\ (\A f \in backoff : IsFrame(f))
    /\ owner \in Owners \cup {NoOne} /\ own \subseteq TasksOf(owner)
    /\ \A i \in DOMAIN bus : bus[i].task \in ExtTasks => bus[i].guarded \/ bus[i].left = 0
    /\ \A f \in backoff : f.task \in ExtTasks => f.guarded
    /\ \A i, j \in DOMAIN bus : i < j /\ bus[i].task \in own => bus[j].task \notin ExtTasks
    /\ asserted => owner # NoOne /\ \A i \in DOMAIN bus : bus[i].task \notin ExtTasks

\* A queue is part of itself.
LEMMA WholeIsPart == \A q : IsQueue(q) => PartOf(q, q)
<1> SUFFICES ASSUME NEW q, IsQueue(q) PROVE PartOf(q, q)
    OBVIOUS
<1> DEFINE at == [i \in DOMAIN q |-> i]
<1>1. at \in [DOMAIN q -> DOMAIN q] /\ (\A i \in DOMAIN q : q[i] = q[at[i]])
      /\ \A i, j \in DOMAIN q : i < j => at[i] < at[j]
  <2>1. PICK V : q \in Seq(V)
      BY DEF IsQueue
  <2> QED BY <2>1
<1> HIDE DEF at
<1> QED BY <1>1 DEF PartOf

\* Queue q when its i-th frame has left it.
Without(q, i) == SubSeq(q, 1, i - 1) \o SubSeq(q, i + 1, Len(q))

\* What is where once the i-th frame has left.
LEMMA WithoutIs ==
    ASSUME NEW V, NEW q \in Seq(V), NEW i \in DOMAIN q
    PROVE  /\ Without(q, i) \in Seq(V) /\ Len(Without(q, i)) = Len(q) - 1 /\ DOMAIN Without(q, i) = 1 .. (Len(q) - 1)
           /\ \A k \in 1 .. (Len(q) - 1) : Without(q, i)[k] = IF k < i THEN q[k] ELSE q[k + 1]
<1> DEFINE l == SubSeq(q, 1, i - 1)
           r == SubSeq(q, i + 1, Len(q))
<1>1. i \in 1 .. Len(q) /\ Len(q) \in Nat
    OBVIOUS
<1>2. l \in Seq(V) /\ Len(l) = i - 1 /\ \A k \in 1 .. (i - 1) : l[k] = q[k]
    BY <1>1
<1>3. r \in Seq(V) /\ Len(r) = Len(q) - i /\ \A k \in 1 .. (Len(q) - i) : r[k] = q[k + i]
    BY <1>1
<1> HIDE DEF l, r
<1>4. l \o r \in Seq(V) /\ Len(l \o r) = Len(q) - 1 /\ DOMAIN (l \o r) = 1 .. (Len(q) - 1)
    BY <1>1, <1>2, <1>3
<1>5. \A k \in 1 .. (Len(q) - 1) : (l \o r)[k] = IF k < i THEN l[k] ELSE r[k - i + 1]
    BY <1>1, <1>2, <1>3
<1>6. \A k \in 1 .. (Len(q) - 1) : (l \o r)[k] = IF k < i THEN q[k] ELSE q[k + 1]
    BY <1>1, <1>2, <1>3, <1>5
<1> QED BY <1>4, <1>6 DEF Without, l, r

\* The rest is part of the queue, and comes from other places than the i-th.
LEMMA WithoutIsPart ==
    ASSUME NEW q, IsQueue(q), NEW i \in DOMAIN q
    PROVE  /\ IsQueue(Without(q, i)) /\ PartOf(Without(q, i), q)
           /\ \A k \in DOMAIN Without(q, i) : \E n \in DOMAIN q : n # i /\ Without(q, i)[k] = q[n]
<1> DEFINE b == Without(q, i)
           at == [k \in DOMAIN b |-> IF k < i THEN k ELSE k + 1]
<1>1. PICK V : q \in Seq(V)
    BY DEF IsQueue
<1>2. b \in Seq(V) /\ DOMAIN b = 1 .. (Len(q) - 1) /\ DOMAIN q = 1 .. Len(q) /\ Len(q) \in Nat /\ i \in 1 .. Len(q)
    BY <1>1, WithoutIs
<1>3. \A k \in DOMAIN b : b[k] = IF k < i THEN q[k] ELSE q[k + 1]
    BY <1>1, <1>2, WithoutIs
<1> HIDE DEF b
<1>4. /\ at \in [DOMAIN b -> DOMAIN q] /\ (\A k \in DOMAIN b : b[k] = q[at[k]] /\ at[k] # i)
      /\ \A k, n \in DOMAIN b : k < n => at[k] < at[n]
    BY <1>2, <1>3
<1> HIDE DEF at
<1>5. IsQueue(b) /\ PartOf(b, q)
    BY <1>2, <1>4 DEF IsQueue, PartOf
<1>6. \A k \in DOMAIN b : \E n \in DOMAIN q : n # i /\ b[k] = q[n]
    BY <1>4
<1> QED BY <1>5, <1>6 DEF b

\* The tail is the queue without its first frame.
LEMMA TailIsWithout ==
    ASSUME NEW q, IsQueue(q), q # <<>>
    PROVE  1 \in DOMAIN q /\ Head(q) = q[1] /\ Tail(q) = Without(q, 1)
<1>1. PICK V : q \in Seq(V)
    BY DEF IsQueue
<1>2. /\ Tail(q) \in Seq(V) /\ Len(Tail(q)) = Len(q) - 1 /\ \A k \in 1 .. (Len(q) - 1) : Tail(q)[k] = q[k + 1]
      /\ Len(q) \in Nat \ {0}
    BY <1>1
<1>3. /\ Without(q, 1) \in Seq(V) /\ Len(Without(q, 1)) = Len(q) - 1
      /\ \A k \in 1 .. (Len(q) - 1) : Without(q, 1)[k] = q[k + 1]
  <2>1. 1 \in DOMAIN q /\ \A k \in 1 .. (Len(q) - 1) : ~(k < 1)
      BY <1>1, <1>2
  <2>2. /\ Without(q, 1) \in Seq(V) /\ Len(Without(q, 1)) = Len(q) - 1
        /\ \A k \in 1 .. (Len(q) - 1) : Without(q, 1)[k] = IF k < 1 THEN q[k] ELSE q[k + 1]
      BY <1>1, <2>1, WithoutIs
  <2> QED BY <2>1, <2>2
<1>4. Tail(q) = Without(q, 1)
    BY <1>2, <1>3
<1> QED BY <1>1, <1>4

\* The bus loses some frames and may get one more at its end, which is not from
\* outside unless nobody is the owner.
LEMMA OutsideStep ==
    ASSUME OutsideInv, Remember, owner' \in Owners \cup {NoOne},
           NEW b, IsQueue(b), PartOf(b, bus), NEW f,
           \/ bus' = b
           \/ /\ bus' = Append(b, f) /\ IsFrame(f)
              /\ f.task \in ExtTasks => owner' = NoOne /\ (f.guarded \/ f.left = 0),
           \A e \in backoff' : IsFrame(e) /\ (e.task \in ExtTasks => e.guarded)
    PROVE  OutsideInv'
<1>1. PICK V : b \in Seq(V)
    BY DEF IsQueue
<1>2. PICK at \in [DOMAIN b -> DOMAIN bus] : /\ \A i \in DOMAIN b : b[i] = bus[at[i]]
                                             /\ \A i, j \in DOMAIN b : i < j => at[i] < at[j]
    BY DEF PartOf
<1>3. DOMAIN b = 1 .. Len(b) /\ Len(b) \in Nat
    BY <1>1
<1>4. /\ IsQueue(bus') /\ DOMAIN bus' \subseteq Nat
      /\ \A i \in DOMAIN bus' :
            \/ i \in DOMAIN b /\ bus'[i] = bus[at[i]]
            \/ /\ i = Len(b) + 1 /\ bus'[i] = f /\ IsFrame(f)
               /\ f.task \in ExtTasks => owner' = NoOne /\ (f.guarded \/ f.left = 0)
  <2>1. CASE bus' = b
      BY <1>2, <1>3, <2>1
  <2>2. CASE /\ bus' = Append(b, f) /\ IsFrame(f)
             /\ f.task \in ExtTasks => owner' = NoOne /\ (f.guarded \/ f.left = 0)
    <3>1. b \in Seq(V \cup {f}) /\ Append(b, f) \in Seq(V \cup {f})
        BY <1>1
    <3>2. /\ DOMAIN Append(b, f) = 1 .. (Len(b) + 1) /\ Append(b, f)[Len(b) + 1] = f
          /\ \A i \in 1 .. Len(b) : Append(b, f)[i] = b[i]
        BY <3>1
    <3>3. IsQueue(bus')
        BY <2>2, <3>1 DEF IsQueue
    <3>4. \A i \in DOMAIN bus' : i \in Nat /\ (i \in 1 .. Len(b) \/ i = Len(b) + 1)
      <4>1. DOMAIN bus' = 1 .. (Len(b) + 1)
          BY <2>2, <3>2
      <4> QED BY <1>3, <4>1
    <3>5. ASSUME NEW i \in DOMAIN bus', i \in 1 .. Len(b) PROVE i \in DOMAIN b /\ bus'[i] = bus[at[i]]
        BY <1>2, <1>3, <2>2, <3>2, <3>5
    <3>6. bus'[Len(b) + 1] = f
        BY <2>2, <3>2
    <3>7. IsFrame(f) /\ (f.task \in ExtTasks => owner' = NoOne /\ (f.guarded \/ f.left = 0))
        BY <2>2
    <3> QED BY <3>3, <3>4, <3>5, <3>6, <3>7
  <2> QED BY <2>1, <2>2
<1>5. own' \subseteq TasksOf(owner')
    BY DEF Remember
<1>6. TasksOf(NoOne) = {} /\ \A o \in Owners \cup {NoOne} : TasksOf(o) \cap ExtTasks = {}
    BY TaskKinds DEF TasksOf, Owners, NoOne, OWNER_CHARGE_BLOCK, OWNER_GRID_FEEDIN, OWNER_SOC_CONTROLLER,
                     OWNER_BATTERY_TEST
<1>7. \A i \in DOMAIN bus : bus[i].task \in own' => owner' = owner /\ bus[i].task \in own
    BY DEF Remember, Pending
<1>8. \A i, j \in DOMAIN bus' : i < j /\ bus'[i].task \in own' => bus'[j].task \notin ExtTasks
  <2> SUFFICES ASSUME NEW i \in DOMAIN bus', NEW j \in DOMAIN bus', i < j, bus'[i].task \in own', bus'[j].task \in ExtTasks
               PROVE  FALSE
      OBVIOUS
  <2>1. owner' # NoOne
      BY <1>5, <1>6
  <2>2. j \in DOMAIN b /\ bus'[j] = bus[at[j]]
      BY <1>4, <2>1
  <2>3. i \in DOMAIN b /\ bus'[i] = bus[at[i]]
      BY <1>3, <1>4, <2>2
  <2>4. at[i] \in DOMAIN bus /\ at[j] \in DOMAIN bus /\ at[i] < at[j]
      BY <1>2, <2>2, <2>3
  <2> QED BY <1>7, <2>2, <2>3, <2>4 DEF OutsideInv
<1>9. asserted' => owner' # NoOne /\ \A i \in DOMAIN bus' : bus'[i].task \notin ExtTasks
  <2> SUFFICES ASSUME asserted', NEW i \in DOMAIN bus', bus'[i].task \in ExtTasks PROVE FALSE
      BY DEF Remember
  <2>1. owner' # NoOne /\ owner' = owner
      BY DEF Remember
  <2>2. i \in DOMAIN b /\ bus'[i] = bus[at[i]] /\ at[i] \in DOMAIN bus
      BY <1>2, <1>4, <2>1
  <2>3. ~asserted
      BY <2>2 DEF OutsideInv
  <2>4. bus # <<>> /\ Head(bus).task \in own /\ bus' = Tail(bus)
      BY <2>3 DEF Remember
  <2>5. PICK W : bus \in Seq(W)
      BY DEF OutsideInv, IsQueue
  <2>6. i \in Nat /\ 1 \in DOMAIN bus /\ i + 1 \in DOMAIN bus /\ 1 < i + 1 /\ Head(bus) = bus[1] /\ bus'[i] = bus[i + 1]
      BY <2>4, <2>5
  <2> QED BY <2>4, <2>6 DEF OutsideInv
<1>10. /\ \A i \in DOMAIN bus' : IsFrame(bus'[i])
       /\ \A i \in DOMAIN bus' : bus'[i].task \in ExtTasks => bus'[i].guarded \/ bus'[i].left = 0
  <2>1. \A i \in DOMAIN b : at[i] \in DOMAIN bus
      BY <1>2
  <2> QED BY <1>4, <2>1 DEF OutsideInv
<1>11. asserted' => owner' # NoOne
    BY DEF Remember
<1> QED BY <1>4, <1>5, <1>8, <1>9, <1>10, <1>11 DEF OutsideInv
\* What a step of a feature with coroutines T does to the bus.
Moves(T) ==
    /\ owner' \in {owner, NoOne} \cup Owners
    /\ \A e \in backoff' : e \in backoff
    /\ \E S : \/ bus' \in {bus, DropFrom(bus, S)}
              \/ \E f : f.task \in T /\ IsFrame(f) /\ bus' \in {Append(bus, f), Append(DropFrom(bus, S), f)}

\* The accesses that features issue are frames of their own.
LEMMA FramesAreFrames ==
    \A t, r, v : /\ IsFrame(ReadOf(t, r)) /\ ReadOf(t, r).task = t
                 /\ IsFrame(WriteOf(t, r, v)) /\ WriteOf(t, r, v).task = t
    BY DEF IsFrame, ReadOf, WriteOf, Frame

\* A step like that lets no outside write overtake the owner.
LEMMA MovesAreSafe ==
    ASSUME OutsideInv, Remember, NEW T, T \cap ExtTasks = {}, Moves(T)
    PROVE  OutsideInv'
<1>1. owner' \in Owners \cup {NoOne} /\ \A e \in backoff' : IsFrame(e) /\ (e.task \in ExtTasks => e.guarded)
    BY DEF Moves, OutsideInv
<1>2. IsQueue(bus) /\ PartOf(bus, bus)
    BY WholeIsPart DEF OutsideInv
<1>3. ASSUME NEW b, IsQueue(b), PartOf(b, bus), bus' = b PROVE OutsideInv'
    BY <1>1, <1>3, OutsideStep
<1>4. ASSUME NEW b, IsQueue(b), PartOf(b, bus), NEW f, f.task \in T, IsFrame(f), bus' = Append(b, f) PROVE OutsideInv'
    BY <1>1, <1>4, OutsideStep
<1>5. \A S : IsQueue(DropFrom(bus, S)) /\ PartOf(DropFrom(bus, S), bus)
    BY <1>2, DropFromIsPart
<1> QED BY <1>2, <1>3, <1>4, <1>5 DEF Moves

\* A coroutine awaits its next access, or goes on without one.
LEMMA AwaitMoves ==
    ASSUME NEW T, NEW t \in T, NEW f, f.task = t, IsFrame(f), Await(t, f), owner' \in {owner, NoOne} \cup Owners
    PROVE  Moves(T)
<1>1. bus' = Append(bus, f) /\ backoff' = backoff
    BY DEF Await
<1> QED BY <1>1 DEF Moves

\* A coroutine that goes on without an access adds no frame.
LEMMA GoOnMoves ==
    ASSUME NEW T, NEW t, GoOn(t), owner' \in {owner, NoOne} \cup Owners
    PROVE  Moves(T)
    BY DEF GoOn, Moves

\* A coroutine's access joins the bus when those of S have been dropped.
LEMMA DropMoves ==
    ASSUME NEW T, NEW f, f.task \in T, IsFrame(f), NEW S, backoff' = BackoffWithout(S),
           bus' = Append(DropFrom(bus, S), f), owner' \in {owner, NoOne} \cup Owners
    PROVE  Moves(T)
    BY DEF Moves, BackoffWithout

\* Every step of the charge block is one.
LEMMA BlockMoves ==
    ASSUME BlockCall \/ BlockRemoval \/ \E t \in BlockTasks : BlockGoOn(t)
    PROVE  Moves(BlockTasks)
<1> USE FramesAreFrames, AwaitMoves, GoOnMoves, DropMoves DEF AfterRelease, Owners, BlockTasks
<1>1. ASSUME NEW c \in BlockCalls, NEW snap, BlockEngage(c, snap) PROVE Moves(BlockTasks)
    BY <1>1 DEF BlockEngage
<1>2. ASSUME NEW c \in BlockCalls, BlockTurnOn(c) \/ BlockSnapshot(c) PROVE Moves(BlockTasks)
    BY <1>1, <1>2 DEF BlockTurnOn, BlockSnapshot
<1>3. ASSUME NEW c \in BlockCalls, NEW to, BlockRestore(c, to) PROVE Moves(BlockTasks)
  <2> DEFINE f == WriteOf(c, "1038", LimitOr(blkSnap, DeviceLimit))
  <2>1. f.task \in BlockTasks /\ IsFrame(f)
      OBVIOUS
  <2>2. /\ bus' = Append(DropFrom(bus, {BlockKeepalive}), f)
        /\ backoff' = BackoffWithout({BlockKeepalive}) /\ owner' = owner
      BY <1>3 DEF BlockRestore
  <2> HIDE DEF f
  <2> QED BY <2>1, <2>2
<1>4. ASSUME NEW c \in BlockCalls, BlockTurnOff(c) \/ BlockRemove(c) PROVE Moves(BlockTasks)
    BY <1>3, <1>4 DEF BlockTurnOff, BlockRemove, Moves, BackoffWithout
<1>5. ASSUME NEW c \in BlockCalls, BlockStarted(c) PROVE Moves(BlockTasks)
    BY <1>5 DEF BlockStarted, Moves, BackoffWithout
<1>6. ASSUME NEW c \in BlockCalls, BlockFailed(c) \/ BlockTurnedOff(c) \/ BlockRemoved(c) PROVE Moves(BlockTasks)
    BY <1>6 DEF BlockFailed, BlockTurnedOff, BlockRemoved
<1>7. ASSUME BlockKeepaliveTick \/ BlockKeepaliveWritten PROVE Moves(BlockTasks)
    BY <1>7 DEF BlockKeepaliveTick, BlockKeepaliveWritten
<1> QED BY <1>2, <1>4, <1>5, <1>6, <1>7 DEF BlockCall, BlockRemoval, BlockGoOn

\* Every step of the optimiser is one.
LEMMA GridMoves ==
    ASSUME GridCall \/ GridRemoval \/ \E t \in GridTasks : GridGoOn(t)
    PROVE  Moves(GridTasks)
<1> USE FramesAreFrames, AwaitMoves, GoOnMoves, DropMoves DEF AfterRelease, Owners, GridTasks
<1>1. ASSUME NEW c \in GridCalls, NEW snap, GridEngage(c, snap) PROVE Moves(GridTasks)
  <2>1. CASE GoOn(c) /\ UNCHANGED owner
      BY <2>1
  <2>2. CASE FreeGridLoops # {} /\ ~(GoOn(c) /\ UNCHANGED owner)
    <3> DEFINE l == CHOOSE x \in FreeGridLoops : TRUE
    <3>1. l \in GridTasks
        BY <2>2 DEF FreeGridLoops
    <3>2. /\ bus' = Append(DropFrom(bus, RunningGridLoops), ReadOf(l, "misc"))
          /\ backoff' = BackoffWithout(RunningGridLoops) /\ owner' = OWNER_GRID_FEEDIN
        BY <1>1, <2>2 DEF GridEngage
    <3> HIDE DEF l
    <3> QED BY <3>1, <3>2
  <2> QED BY <1>1, <2>1, <2>2 DEF GridEngage
<1>2. ASSUME NEW c \in GridCalls, GridTurnOn(c) \/ GridSnapshot(c) PROVE Moves(GridTasks)
    BY <1>1, <1>2 DEF GridTurnOn, GridSnapshot
<1>3. ASSUME NEW c \in GridCalls, GridTurnOff(c) \/ GridRemove(c) PROVE Moves(GridTasks)
    BY <1>3 DEF GridTurnOff, GridRemove, GridRestore, Moves, BackoffWithout
<1>4. ASSUME NEW c \in GridCalls, GridJoined(c) \/ GridTurnedOff(c) PROVE Moves(GridTasks)
    BY <1>4 DEF GridJoined, GridTurnedOff
<1>5. ASSUME NEW l \in GridLoops, GridLoopFinally(l) PROVE Moves(GridTasks)
    BY <1>5 DEF GridLoopFinally, GridLoopEnd
<1>6. ASSUME NEW l \in GridLoops, GridMeasured(l) \/ GridWritten(l) \/ GridTick(l) PROVE Moves(GridTasks)
  <2>1. ASSUME GridSleep(l) PROVE Moves(GridTasks)
      BY <2>1 DEF GridSleep
  <2>2. ASSUME NEW w, Await(l, WriteOf(l, "1038", w)), UNCHANGED owner PROVE Moves(GridTasks)
      BY <2>2
  <2>3. ASSUME Await(l, ReadOf(l, "misc")), UNCHANGED owner PROVE Moves(GridTasks)
      BY <2>3
  <2> QED BY <1>5, <1>6, <2>1, <2>2, <2>3 DEF GridMeasured, GridWritten, GridTick
<1>7. ASSUME NEW l \in GridLoops, GridLoopCancelled(l) \/ GridLoopRestored(l) PROVE Moves(GridTasks)
    BY <1>5, <1>7 DEF GridLoopCancelled, GridLoopRestored, GridLoopEnd
<1> QED BY <1>2, <1>3, <1>4, <1>6, <1>7 DEF GridCall, GridRemoval, GridGoOn

\* Every step of the SoC controller is one, and so is its stop by an unload.
LEMMA SocMoves ==
    ASSUME NEW running, SocCall(running) \/ UnloadBegin \/ \E t \in SocTasks : SocGoOn(t)
    PROVE  Moves(SocTasks)
<1> USE FramesAreFrames, AwaitMoves, GoOnMoves DEF Owners, SocTasks, AfterRelease
<1>0. ASSUME NEW l \in SocLoops, NEW pc, NEW r, NEW f, f.task = l, IsFrame(f), LoopAwait(l, pc, f, r)
      PROVE  Moves(SocTasks)
    BY <1>0 DEF LoopAwait
<1>16. ASSUME NEW l \in SocLoops, NEW pc, NEW g, NEW v, NEW r, LoopAwait(l, pc, WriteOf(l, g, v), r)
       PROVE  Moves(SocTasks)
    BY <1>0, <1>16
<1>1. ASSUME UNCHANGED busVars PROVE Moves(SocTasks)
    BY <1>1 DEF busVars, Moves
<1>2. ASSUME NEW t \in SocTasks, NEW snap, NormalThenRelease(t, snap) PROVE Moves(SocTasks)
    BY <1>2 DEF NormalThenRelease, NormalBegin
<1>3. ASSUME NEW t \in SocTasks, NormalNext(t) PROVE Moves(SocTasks)
    BY <1>3 DEF NormalNext
<1>4. ASSUME NEW c \in SocCalls, StartLoop(c), owner' \in {owner} \cup Owners, UNCHANGED backoff PROVE Moves(SocTasks)
  <2>1. CASE UNCHANGED bus
      BY <1>4, <2>1 DEF Moves
  <2>2. CASE FreeSocLoops # {} /\ bus' = Append(bus, ReadOf(CHOOSE x \in FreeSocLoops : TRUE, "1038"))
    <3> DEFINE l == CHOOSE x \in FreeSocLoops : TRUE
    <3>1. l \in SocTasks
        BY <2>2 DEF FreeSocLoops
    <3>2. bus' = Append(bus, ReadOf(l, "1038"))
        BY <2>2
    <3> HIDE DEF l
    <3> QED BY <1>4, <3>1, <3>2 DEF Moves
  <2> QED BY <1>4, <2>1, <2>2 DEF StartLoop
<1>5. ASSUME NEW c \in SocCalls, StopLoop(c) PROVE Moves(SocTasks)
  <2>1. CASE NormalThenRelease(c, socSnap)
      BY <1>2, <2>1
  <2>2. CASE bus' = DropFrom(bus, {socTask}) /\ backoff' = BackoffWithout({socTask}) /\ UNCHANGED owner
      BY <2>2 DEF Moves, BackoffWithout
  <2> QED BY <1>5, <2>1, <2>2 DEF StopLoop
<1>6. ASSUME NEW c \in SocCalls, SocSetTarget(c, running) \/ SocStart(c) PROVE Moves(SocTasks)
    BY <1>4, <1>6 DEF SocSetTarget, SocStart, Moves
<1>7. ASSUME NEW c \in SocCalls, SocStop(c) \/ SocInterrupt(c) \/ SocUndo(c) \/ SocStopLocked(c) PROVE Moves(SocTasks)
    BY <1>1, <1>5, <1>7 DEF SocStop, SocInterrupt, SocUndo, SocStopLocked, Moves
<1>8. ASSUME NEW c \in SocCalls, SocJoined(c) \/ SocStopped(c) PROVE Moves(SocTasks)
    BY <1>2, <1>8 DEF SocJoined, SocStopped
<1>9. ASSUME NEW l \in SocLoops, NEW snap, LoopFinally(l, snap) \/ LoopCycle(l, snap) PROVE Moves(SocTasks)
    BY <1>2, <1>9 DEF LoopFinally, LoopCycle, LoopAwait
<1>10. ASSUME NEW l \in SocLoops, NEW r, LoopSleep(l, r) PROVE Moves(SocTasks)
    BY <1>10 DEF LoopSleep
<1>11. ASSUME NEW l \in SocLoops, LoopSnapshot(l) \/ LoopTick(l) \/ LoopCancelled(l) PROVE Moves(SocTasks)
    BY <1>9, <1>11 DEF LoopSnapshot, LoopTick, LoopCancelled, LoopAwait
<1>12. ASSUME NEW l \in SocLoops, LoopReadSoc(l) PROVE Moves(SocTasks)
    BY <1>9, <1>10, <1>12 DEF LoopReadSoc, LoopAwait
<1>13. ASSUME NEW l \in SocLoops, LoopReadTemp(l) \/ LoopReadState(l) PROVE Moves(SocTasks)
  <2>1. ASSUME LoopReadTemp(l) PROVE Moves(SocTasks)
    <3>1. ASSUME NormalBegin(l, socSnap), UNCHANGED owner PROVE Moves(SocTasks)
        BY <3>1 DEF NormalBegin
    <3> QED BY <1>0, <1>10, <2>1, <3>1 DEF LoopReadTemp
  <2>2. ASSUME LoopReadState(l) PROVE Moves(SocTasks)
      BY <1>10, <1>16, <2>2 DEF LoopReadState
  <2> QED BY <1>13, <2>1, <2>2
<1>14. ASSUME NEW l \in SocLoops, LoopDriven(l) \/ LoopNormalDone(l) PROVE Moves(SocTasks)
  <2>1. ASSUME LoopDriven(l) PROVE Moves(SocTasks)
      BY <1>9, <1>10, <1>16, <2>1 DEF LoopDriven
  <2>2. ASSUME LoopNormalDone(l) PROVE Moves(SocTasks)
      BY <1>10, <2>2 DEF LoopNormalDone
  <2> QED BY <1>14, <2>1, <2>2
<1>15. CASE UnloadBegin
    BY <1>1, <1>5, <1>15 DEF UnloadBegin
<1> QED BY <1>3, <1>6, <1>7, <1>8, <1>11, <1>12, <1>13, <1>14, <1>15 DEF SocCall, SocGoOn

\* Every step of a battery test is one.
LEMMA TestMoves ==
    ASSUME NEW active, TestCall(active) \/ \E s \in Suites : TestGoOn(s)
    PROVE  Moves(Suites)
<1> USE FramesAreFrames, AwaitMoves, GoOnMoves DEF Owners, AfterRelease
<1>1. ASSUME NEW s \in Suites, TestFinally(s) PROVE Moves(Suites)
    BY <1>1 DEF TestFinally
<1>2. ASSUME NEW s \in Suites, NEW i, TestPhase(s, i) PROVE Moves(Suites)
    BY <1>1, <1>2 DEF TestPhase
<1>3. ASSUME NEW s \in Suites, NEW ok, TestKept(s, ok) PROVE Moves(Suites)
    BY <1>1, <1>3 DEF TestKept
<1>4. ASSUME NEW s \in Suites, TestPress(s, active) PROVE Moves(Suites)
  <2>1. ASSUME UNCHANGED busVars PROVE Moves(Suites)
      BY <2>1 DEF busVars, Moves
  <2> QED BY <1>4, <2>1 DEF TestPress
<1>5. ASSUME NEW s \in Suites, TestDumped(s) \/ TestSnapshot(s) PROVE Moves(Suites)
    BY <1>5 DEF TestDumped, TestSnapshot
<1>6. ASSUME NEW s \in Suites, TestTried(s) \/ TestState(s) PROVE Moves(Suites)
    BY <1>1, <1>2, <1>6 DEF TestTried, TestState
<1>7. ASSUME NEW s \in Suites, TestPhase34(s) \/ TestPhase38(s) \/ TestTurn(s) \/ TestGap(s) PROVE Moves(Suites)
    BY <1>1, <1>2, <1>7 DEF TestPhase34, TestPhase38, TestTurn, TestGap
<1>8. ASSUME NEW s \in Suites, TestKeepalive(s) \/ TestSampled(s) PROVE Moves(Suites)
    BY <1>1, <1>3, <1>8 DEF TestKeepalive, TestSampled
<1>9. ASSUME NEW s \in Suites, TestNormal(s) \/ TestFlushed(s) PROVE Moves(Suites)
    BY <1>9 DEF TestNormal, TestFlushed
<1> QED BY <1>4, <1>5, <1>6, <1>7, <1>8, <1>9 DEF TestCall, TestGoOn

\* Outside clients are turned away while 1038 is owned, and drop only their own.
LEMMA OutsideWrites ==
    ASSUME OutsideInv, Remember, NEW active, ExtCall(active) \/ \E t \in ExtTasks : ExtGoOn(t)
    PROVE  OutsideInv'
<1>1. UNCHANGED owner /\ owner \in Owners \cup {NoOne} /\ IsQueue(bus) /\ PartOf(bus, bus)
    BY WholeIsPart DEF OutsideInv, ExtCall, ExtGoOn, ProxyWrite, ProxyTimeout, MqttCommand, ProxyAnswered, MqttTurn, MqttAnswered
<1>2. \A e \in backoff' : e \in backoff /\ IsFrame(e) /\ (e.task \in ExtTasks => e.guarded)
    BY DEF OutsideInv, ExtCall, ExtGoOn, ProxyWrite, ProxyTimeout, MqttCommand, ProxyAnswered, MqttTurn, MqttAnswered,
           Await, GoOn, BackoffWithout
<1>3. ASSUME UNCHANGED bus PROVE OutsideInv'
    BY <1>1, <1>2, <1>3, OutsideStep
<1>4. ASSUME owner = NoOne, NEW t, NEW w, bus' \in {Append(bus, GuardedWriteOf(t, "1038", w)), Append(bus, RawWriteOf(t, "1038", w))}
      PROVE  OutsideInv'
  <2>1. ASSUME NEW f, IsFrame(f), f.guarded \/ f.left = 0, bus' = Append(bus, f) PROVE OutsideInv'
      BY <1>1, <1>2, <1>4, <2>1, OutsideStep
  <2>2. LET g == GuardedWriteOf(t, "1038", w)
            r == RawWriteOf(t, "1038", w)
        IN IsFrame(g) /\ g.guarded /\ IsFrame(r) /\ r.left = 0
      BY DEF GuardedWriteOf, RawWriteOf, IsFrame, Frame
  <2> QED BY <1>4, <2>1, <2>2
<1>5. ASSUME NEW S, bus' = DropFrom(bus, S) PROVE OutsideInv'
    BY <1>1, <1>2, <1>5, DropFromIsPart, OutsideStep
<1>6. ASSUME NEW m, MqttLocked(m) PROVE OutsideInv'
    BY <1>3, <1>4, <1>6 DEF MqttLocked, Reg1038Locked
<1>7. ASSUME NEW p, ProxyWrite(p, active) PROVE OutsideInv'
    BY <1>4, <1>7 DEF ProxyWrite, Reg1038Locked, Await
<1>8. ASSUME NEW p, ProxyTimeout(p) PROVE OutsideInv'
    BY <1>5, <1>8 DEF ProxyTimeout
<1>9. ASSUME NEW m, MqttCommand(m, active) \/ MqttTurn(m) PROVE OutsideInv'
    BY <1>3, <1>6, <1>9 DEF MqttCommand, MqttTurn
<1>10. ASSUME NEW t, ProxyAnswered(t) \/ MqttAnswered(t) PROVE OutsideInv'
    BY <1>3, <1>10 DEF ProxyAnswered, MqttAnswered, GoOn
<1> QED BY <1>7, <1>8, <1>9, <1>10 DEF ExtCall, ExtGoOn

\* Whatever the inverter and the client do with the accesses under way.
LEMMA OutsideServed ==
    ASSUME OutsideInv, Remember, BusNext
    PROVE  OutsideInv'
<1>1. UNCHANGED owner /\ owner \in Owners \cup {NoOne} /\ IsQueue(bus) /\ PartOf(bus, bus)
    BY WholeIsPart DEF OutsideInv, BusNext, Answer, Refuse, Falter, Retry, Expire
<1>2. PICK V : bus \in Seq(V)
    BY <1>1 DEF IsQueue
<1>3. \A i \in DOMAIN bus : IsQueue(Without(bus, i)) /\ PartOf(Without(bus, i), bus)
    BY <1>1, WithoutIsPart
<1>4. bus # <<>> => 1 \in DOMAIN bus /\ Head(bus) = bus[1] /\ Tail(bus) = Without(bus, 1)
    BY <1>1, TailIsWithout
<1>5. \A e \in backoff : IsFrame(e) /\ (e.task \in ExtTasks => e.guarded)
    BY DEF OutsideInv
<1>6. CASE Answer \/ Refuse
    BY <1>1, <1>3, <1>4, <1>5, <1>6, OutsideStep DEF Answer, Refuse
<1>7. CASE Falter
  <2> DEFINE h == Head(bus)
             g == [h EXCEPT !.left = @ - 1]
  <2>1. bus # <<>> /\ 1 \in DOMAIN bus /\ h = bus[1]
      BY <1>2, <1>7 DEF Falter
  <2>2. IsFrame(h) /\ (h.task \in ExtTasks => h.guarded \/ h.left = 0)
      BY <2>1 DEF OutsideInv
  <2>3. IsFrame(g) /\ g.task = h.task /\ g.guarded = h.guarded
      BY <2>2 DEF IsFrame, Frame
  <2>4. bus' = Tail(bus) /\ (backoff' = backoff \/ (h.left > 0 /\ backoff' = backoff \cup {g}))
      BY <1>7 DEF Falter
  <2>5. h.left > 0 => h.left # 0
      OBVIOUS
  <2> HIDE DEF h, g
  <2> QED BY <1>1, <1>3, <1>4, <1>5, <2>1, <2>2, <2>3, <2>4, <2>5, OutsideStep
<1>8. ASSUME NEW f \in backoff, Retry(f) PROVE OutsideInv'
  <2>1. CASE UNCHANGED bus
      BY <1>1, <1>5, <1>8, <2>1, OutsideStep DEF Retry
  <2>2. CASE bus' = Append(bus, f) /\ ~(f.guarded /\ owner # NoOne)
      BY <1>1, <1>5, <1>8, <2>2, OutsideStep DEF Retry
  <2> QED BY <1>8, <2>1, <2>2 DEF Retry
<1>9. ASSUME NEW i \in DOMAIN bus, Expire(i) PROVE OutsideInv'
    BY <1>1, <1>3, <1>5, <1>9, OutsideStep DEF Expire, Without
<1> QED BY <1>6, <1>7, <1>8, <1>9 DEF BusNext

\* No step of the system breaks the order of outside writes and the owner's.
LEMMA OutsideInductive == OutsideInv /\ [Next]_vars => OutsideInv'
<1> SUFFICES ASSUME OutsideInv, [Next]_vars PROVE OutsideInv'
    OBVIOUS
<1>1. /\ BlockTasks \cap ExtTasks = {} /\ GridTasks \cap ExtTasks = {}
      /\ SocTasks \cap ExtTasks = {} /\ Suites \cap ExtTasks = {}
    BY TaskKinds
<1>2. CASE UNCHANGED vars
    BY <1>2 DEF vars, busVars, OutsideInv, TasksOf
<1>3. CASE Inverter
    BY <1>3, OutsideServed DEF Inverter
<1>4. CASE Request
    BY <1>1, <1>4, BlockMoves, GridMoves, SocMoves, TestMoves, MovesAreSafe, OutsideWrites DEF Request
<1>5. ASSUME NEW t \in Tasks, GoesOn(t) PROVE OutsideInv'
    BY <1>1, <1>5, BlockMoves, GridMoves, SocMoves, TestMoves, MovesAreSafe, OutsideWrites DEF GoesOn
<1>6. CASE Teardown
  <2>1. ASSUME UnloadShut PROVE Moves(SocTasks)
      BY <2>1 DEF UnloadShut, Moves, BackoffWithout
  <2>2. Moves(BlockTasks) \/ Moves(GridTasks) \/ Moves(SocTasks)
      BY <1>6, <2>1, BlockMoves, GridMoves, SocMoves DEF Teardown, EntityRemoved, UnloadRemove, RemoveEntity
  <2>3. Remember
      BY <1>6 DEF Teardown
  <2> QED BY <1>1, <2>2, <2>3, MovesAreSafe
<1> QED BY <1>2, <1>3, <1>4, <1>5, <1>6 DEF Next

\* At the start nothing is under way.
LEMMA OutsideInitially == Init => OutsideInv
<1> SUFFICES ASSUME Init PROVE OutsideInv
    OBVIOUS
<1>1. bus = <<>> /\ backoff = {} /\ owner = NoOne /\ own = {} /\ asserted = FALSE
    BY DEF Init, BusInit
<1>2. IsQueue(bus)
    BY <1>1 DEF IsQueue
<1>3. DOMAIN bus = {}
    BY <1>1
<1> QED BY <1>1, <1>2, <1>3 DEF OutsideInv

\* modbus_proxy.py, mqtt_bridge.py: once the owner of register 1038 has had an
\* access served, no write from outside follows to undo it, whatever features
\* are called, however calls overlap, and with every lost answer, retry, timeout,
\* crash and unload.
THEOREM OutsideGivesWay == Spec => []OutsideYields
<1>1. OutsideInv => OutsideYields
    BY DEF OutsideInv, OutsideYields
<1> QED BY <1>1, OutsideInductive, OutsideInitially, PTL DEF Spec

-----------------------------------------------------------------------------
(* A switch has one access under way at a time, and awaits it.             *)

Switches == BlockTasks \cup GridTasks

\* Where a coroutine of a switch is when it awaits an access of that kind.
Awaits(t, op) ==
    /\ t \in BlockCalls => blkPc[t] \in {"block", "restore"} \/ (blkPc[t] = "snapshot" /\ op = "read")
    /\ t = BlockKeepalive => blkPc[t] = "rewrite"
    /\ t \in GridCalls => limPc[t] = "restore" \/ (limPc[t] = "snapshot" /\ op = "read")
    /\ t \in GridLoops => limPc[t] = "write" \/ (limPc[t] = "read" /\ op = "read")

\* Coroutine t has an access of that kind under way.
Asked(t, op) ==
    \/ \E i \in DOMAIN bus : bus[i].task = t /\ bus[i].op = op
    \/ \E f \in backoff : f.task = t /\ f.op = op

\* Every access under way is one its coroutine awaits, and the only one of that
\* coroutine, which has no answer yet.
WaitInv ==
    /\ DOMAIN resp = Tasks
    /\ \A i \in DOMAIN bus : bus[i].task \in Switches \cup ExtTasks
    /\ \A f \in backoff : f.task \in Switches \cup ExtTasks
    /\ \A t \in Switches : \A op : Asked(t, op) => Awaits(t, op)
    /\ \A t \in Switches : Replied(t) => Awaits(t, "read") /\ t \notin Pending(bus, backoff)
    /\ \A i, j \in DOMAIN bus : bus[i].task \in Switches /\ bus[j].task = bus[i].task => i = j
    /\ \A f, g \in backoff : f.task \in Switches /\ g.task = f.task => f = g
    /\ \A i \in DOMAIN bus, f \in backoff : f.task \in Switches => bus[i].task # f.task

\* The keepalive runs while the block is on.
KeepaliveInv ==
    /\ blkPc[BlockKeepalive] \in {"idle", "sleep", "rewrite"}
    /\ blkPc[BlockKeepalive] # "idle" => blkOn
    /\ \A c \in BlockCalls : blkPc[c] = "restore" => blkPc[BlockKeepalive] = "idle"

\* A coroutine that has its answer, or awaits none, has no access under way.
LEMMA NothingPending ==
    ASSUME WaitInv, NEW t \in Switches, Replied(t) \/ \A op : ~Awaits(t, op)
    PROVE  t \notin Pending(bus, backoff) /\ (Replied(t) => Awaits(t, "read"))
    BY DEF WaitInv, Pending, Asked

\* What is under way on part of the bus is under way on the bus.
LEMMA PartIsPending ==
    ASSUME NEW b, PartOf(b, bus), \A e \in backoff' : e \in backoff
    PROVE  Pending(b, backoff') \subseteq Pending(bus, backoff)
    BY DEF PartOf, Pending

\* The coroutines of C go on, and one of them may await a new access.
LEMMA WaitStep ==
    ASSUME WaitInv, IsQueue(bus), NEW b, IsQueue(b), PartOf(b, bus), NEW f, NEW t, NEW op, f.task = t, f.op = op, NEW C,
           bus' = b \/ (bus' = Append(b, f) /\ ((t \in C /\ Awaits(t, op)') \/ t \in ExtTasks)),
           \A e \in backoff' : e \in backoff,
           DOMAIN resp' = Tasks,
           C \subseteq Switches, C \cap Pending(b, backoff') = {},
           \A c \in C : ~Replied(c)',
           \A u \in Switches : Replied(u)' => Replied(u),
           \A u \in Switches \ C : \A o : Awaits(u, o) => Awaits(u, o)'
    PROVE  WaitInv'
<1>1. PICK V : b \in Seq(V)
    BY DEF IsQueue
<1>2. PICK at \in [DOMAIN b -> DOMAIN bus] : /\ \A i \in DOMAIN b : b[i] = bus[at[i]]
                                             /\ \A i, j \in DOMAIN b : i < j => at[i] < at[j]
    BY DEF PartOf
<1>3. DOMAIN b = 1 .. Len(b) /\ Len(b) \in Nat
    BY <1>1
<1> DEFINE New(i) == i = Len(b) + 1 /\ bus'[i] = f /\ ((t \in C /\ Awaits(t, op)') \/ t \in ExtTasks)
           Old(i) == i \in DOMAIN b /\ bus'[i] = bus[at[i]] /\ at[i] \in DOMAIN bus /\ bus'[i].task \notin C
<1>4. \A i \in DOMAIN bus' : Old(i) \/ New(i)
  <2>0. \A i \in DOMAIN b : b[i].task \notin C
      BY DEF Pending
  <2>1. CASE bus' = b
      BY <1>2, <2>0, <2>1
  <2>2. CASE bus' = Append(b, f) /\ ((t \in C /\ Awaits(t, op)') \/ t \in ExtTasks)
    <3>1. b \in Seq(V \cup {f}) /\ Append(b, f) \in Seq(V \cup {f})
        BY <1>1
    <3>2. /\ DOMAIN Append(b, f) = 1 .. (Len(b) + 1) /\ Append(b, f)[Len(b) + 1] = f
          /\ \A i \in 1 .. Len(b) : Append(b, f)[i] = b[i]
        BY <3>1
    <3>3. \A i \in DOMAIN bus' : i \in 1 .. Len(b) \/ i = Len(b) + 1
      <4>1. DOMAIN bus' = 1 .. (Len(b) + 1)
          BY <2>2, <3>2
      <4> QED BY <1>3, <4>1
    <3>4. \A i \in 1 .. Len(b) : Old(i)
        BY <1>2, <1>3, <2>0, <2>2, <3>2
    <3>5. New(Len(b) + 1)
        BY <2>2, <3>2
    <3> HIDE DEF New, Old
    <3> QED BY <3>3, <3>4, <3>5
  <2> QED BY <2>1, <2>2
<1>5. Switches \cap ExtTasks = {}
    BY TaskKinds DEF Switches
<1>6. \A e \in backoff' : e.task \notin C
    BY DEF Pending
<1>7. \A u \in Switches : \A o : Asked(u, o)' => Awaits(u, o)'
  <2> SUFFICES ASSUME NEW u \in Switches, NEW o, Asked(u, o)' PROVE Awaits(u, o)'
      OBVIOUS
  <2>1. CASE \E i \in DOMAIN bus' : Old(i) /\ bus'[i].task = u /\ bus'[i].op = o
    <3>1. Asked(u, o) /\ u \notin C
        BY <2>1 DEF Asked
    <3> QED BY <3>1 DEF WaitInv
  <2>2. CASE \E i \in DOMAIN bus' : New(i) /\ bus'[i].task = u /\ bus'[i].op = o
      BY <1>5, <2>2
  <2>3. CASE \E e \in backoff' : e.task = u /\ e.op = o
    <3>1. Asked(u, o) /\ u \notin C
        BY <1>6, <2>3 DEF Asked
    <3> QED BY <3>1 DEF WaitInv
  <2> HIDE DEF New, Old
  <2> QED BY <1>4, <2>1, <2>2, <2>3 DEF Asked
<1>8. \A u \in Switches : Replied(u)' => Awaits(u, "read")' /\ u \notin Pending(bus', backoff')
  <2> SUFFICES ASSUME NEW u \in Switches, Replied(u)' PROVE Awaits(u, "read")' /\ u \notin Pending(bus', backoff')
      OBVIOUS
  <2>1. u \notin C /\ Awaits(u, "read") /\ u \notin Pending(bus, backoff)
      BY DEF WaitInv
  <2>2. \A i \in DOMAIN bus' : bus'[i].task # u
      BY <1>4, <1>5, <2>1 DEF Pending
  <2> QED BY <2>1, <2>2 DEF Pending
<1>9. \A i, j \in DOMAIN bus' : bus'[i].task \in Switches /\ bus'[j].task = bus'[i].task => i = j
  <2> SUFFICES ASSUME NEW i \in DOMAIN bus', NEW j \in DOMAIN bus', bus'[i].task \in Switches, bus'[j].task = bus'[i].task
               PROVE  i = j
      OBVIOUS
  <2>1. CASE Old(i) /\ Old(j)
    <3>1. at[i] = at[j]
        BY <2>1 DEF WaitInv
    <3>2. i \in Nat /\ j \in Nat /\ ~(at[i] < at[i])
      <4>1. PICK W : bus \in Seq(W)
          BY DEF IsQueue
      <4> QED BY <1>3, <2>1, <4>1
    <3> QED BY <1>2, <2>1, <3>1, <3>2
  <2>2. CASE New(i) /\ Old(j)
      BY <1>5, <2>2
  <2>3. CASE Old(i) /\ New(j)
      BY <1>5, <2>3
  <2>4. CASE New(i) /\ New(j)
      BY <2>4
  <2> HIDE DEF New, Old
  <2> QED BY <1>4, <2>1, <2>2, <2>3, <2>4
<1>10. \A i \in DOMAIN bus', e \in backoff' : e.task \in Switches => bus'[i].task # e.task
    BY <1>4, <1>5, <1>6 DEF WaitInv
<1>11. \A i \in DOMAIN bus' : bus'[i].task \in Switches \cup ExtTasks
    BY <1>4 DEF WaitInv
<1>12. /\ \A e \in backoff' : e.task \in Switches \cup ExtTasks
       /\ \A e, g \in backoff' : e.task \in Switches /\ g.task = e.task => e = g
    BY DEF WaitInv
<1> HIDE DEF New, Old
<1> QED BY <1>7, <1>8, <1>9, <1>10, <1>11, <1>12 DEF WaitInv

\* Coroutine t awaits its next access, or goes on without one.
LEMMA AwaitWaits ==
    ASSUME WaitInv, IsQueue(bus), NEW t \in Switches, NEW f, NEW op, f.task = t, f.op = op, Await(t, f),
           Replied(t) \/ \A o : ~Awaits(t, o),
           Awaits(t, op)',
           \A u \in Switches \ {t} : \A o : Awaits(u, o) => Awaits(u, o)'
    PROVE  WaitInv'
<1> DEFINE C == {t}
<1>1. bus' = Append(bus, f) /\ backoff' = backoff /\ PartOf(bus, bus)
    BY WholeIsPart DEF Await
<1>2. DOMAIN resp' = Tasks /\ (\A u \in C : ~Replied(u)') /\ \A u \in Switches : Replied(u)' => Replied(u)
  <2>1. Switches \subseteq Tasks
      BY TasksAssumption DEF Switches, AllTasks
  <2> QED BY <2>1 DEF WaitInv, Await, Replied, Silence
<1>3. C \cap Pending(bus, backoff') = {} /\ C \subseteq Switches
    BY <1>1, NothingPending
<1>4. \A u \in Switches \ C : \A o : Awaits(u, o) => Awaits(u, o)'
    OBVIOUS
<1>5. t \in C
    OBVIOUS
<1> HIDE DEF C
<1> QED BY <1>1, <1>2, <1>3, <1>4, <1>5, WaitStep

\* A coroutine that goes on without an access leaves none behind.
LEMMA GoOnWaits ==
    ASSUME WaitInv, IsQueue(bus), NEW t \in Switches, GoOn(t),
           Replied(t) \/ \A o : ~Awaits(t, o),
           \A u \in Switches \ {t} : \A o : Awaits(u, o) => Awaits(u, o)'
    PROVE  WaitInv'
<1> DEFINE C == {t}
           f == ReadOf(t, "misc")
<1>1. bus' = bus /\ backoff' = backoff /\ PartOf(bus, bus)
    BY WholeIsPart DEF GoOn
<1>2. DOMAIN resp' = Tasks /\ (\A u \in C : ~Replied(u)') /\ \A u \in Switches : Replied(u)' => Replied(u)
  <2>1. Switches \subseteq Tasks
      BY TasksAssumption DEF Switches, AllTasks
  <2> QED BY <2>1 DEF WaitInv, GoOn, Replied, Silence
<1>3. C \cap Pending(bus, backoff') = {} /\ C \subseteq Switches
    BY <1>1, NothingPending
<1>4. \A u \in Switches \ C : \A o : Awaits(u, o) => Awaits(u, o)'
    OBVIOUS
<1>5. f.task = t /\ f.op = "read"
    BY DEF ReadOf, Frame
<1> HIDE DEF C, f
<1> QED BY <1>1, <1>2, <1>3, <1>4, <1>5, WaitStep

\* The coroutines of S are cancelled, those of C go on, one of them with an
\* access f of its own if there is one to come.
LEMMA DropWaits ==
    ASSUME WaitInv, IsQueue(bus), NEW S, NEW C, C \subseteq Switches, NEW t, NEW f, NEW op, f.task = t, f.op = op,
           bus' = DropFrom(bus, S) \/ (bus' = Append(DropFrom(bus, S), f) /\ t \in C /\ Awaits(t, op)'),
           backoff' = BackoffWithout(S),
           \A c \in C : c \in S \/ Replied(c) \/ \A o : ~Awaits(c, o),
           DOMAIN resp' = Tasks,
           \A c \in C : ~Replied(c)',
           \A u \in Switches : Replied(u)' => Replied(u),
           \A u \in Switches \ C : \A o : Awaits(u, o) => Awaits(u, o)'
    PROVE  WaitInv'
<1> DEFINE b == DropFrom(bus, S)
<1>1. IsQueue(b) /\ PartOf(b, bus) /\ \A i \in DOMAIN b : b[i].task \notin S
    BY DropFromIsPart
<1>2. \A e \in backoff' : e \in backoff /\ e.task \notin S
    BY DEF BackoffWithout
<1>3. C \cap Pending(b, backoff') = {}
  <2> SUFFICES ASSUME NEW c \in C, c \in Pending(b, backoff') PROVE FALSE
      OBVIOUS
  <2> HIDE DEF b
  <2>1. c \notin S
      BY <1>1, <1>2 DEF Pending
  <2>2. c \in Pending(bus, backoff)
      BY <1>1, <1>2, PartIsPending
  <2> QED BY <2>1, <2>2, NothingPending
<1>4. bus' = b \/ (bus' = Append(b, f) /\ ((t \in C /\ Awaits(t, op)') \/ t \in ExtTasks))
    OBVIOUS
<1> HIDE DEF b
<1> QED BY <1>1, <1>2, <1>3, <1>4, WaitStep

\* The coroutines of the two switches are told apart.
LEMMA SwitchKinds ==
    /\ BlockTasks \cap GridTasks = {} /\ BlockKeepalive \notin BlockCalls /\ GridCalls \cap GridLoops = {}
    /\ Switches \subseteq Tasks /\ BlockTasks \subseteq Switches /\ GridTasks \subseteq Switches
    BY TaskKinds, TasksAssumption, BlockIdentities, GridIdentities DEF Switches, AllTasks

\* The charge block has no access under way but the one it awaits.
LEMMA BlockWaits ==
    ASSUME OwnsInv, PlainUse, WaitInv, KeepaliveInv, IsQueue(bus), UNCHANGED limPc,
           BlockCall \/ \E t \in BlockTasks : BlockGoOn(t)
    PROVE  WaitInv' /\ KeepaliveInv'
<1> USE SwitchKinds
<1>1. blkPc \in [BlockTasks -> BlockPlaces] /\ DOMAIN resp = Tasks /\ (\A c \in BlockCalls : c \in BlockTasks) /\ BlockKeepalive \in BlockTasks
    BY DEF OwnsInv, BlockOwns, WaitInv, BlockTasks
<1>2. ASSUME NEW t \in BlockTasks, NEW pc, blkPc' = [blkPc EXCEPT ![t] = pc]
      PROVE  blkPc'[t] = pc /\ \A u \in Switches \ {t} : \A o : Awaits(u, o) => Awaits(u, o)'
    BY <1>1, <1>2 DEF Awaits, Switches, BlockTasks, GridTasks
<1>3. \A f, t, r, v : /\ ReadOf(t, r).task = t /\ ReadOf(t, r).op = "read"
                      /\ WriteOf(t, r, v).task = t /\ WriteOf(t, r, v).op = "write"
    BY DEF ReadOf, WriteOf, Frame
<1>4. ASSUME NEW c \in BlockCalls, NEW snap, BlockEngage(c, snap), Replied(c) \/ blkPc[c] = "idle" PROVE WaitInv'
  <2>1. Replied(c) \/ \A o : ~Awaits(c, o)
      BY <1>4 DEF Awaits
  <2>2. CASE Await(c, WriteOf(c, "1038", 0)) /\ blkPc' = [blkPc EXCEPT ![c] = "block"]
    <3>1. Awaits(c, "write")' /\ \A u \in Switches \ {c} : \A o : Awaits(u, o) => Awaits(u, o)'
        BY <1>1, <1>2, <2>2 DEF Awaits, GridTasks
    <3> QED BY <1>1, <1>3, <2>1, <2>2, <3>1, AwaitWaits
  <2>3. CASE GoOn(c) /\ blkPc' = [blkPc EXCEPT ![c] = "idle"]
      BY <1>1, <1>2, <2>1, <2>3, GoOnWaits
  <2> QED BY <1>4, <2>2, <2>3 DEF BlockEngage
<1>5. ASSUME NEW c \in BlockCalls, BlockTurnOn(c) \/ BlockSnapshot(c) PROVE WaitInv' /\ KeepaliveInv'
  <2>1. WaitInv'
    <3>1. CASE /\ blkPc[c] = "idle" /\ Await(c, ReadOf(c, "1038"))
               /\ blkPc' = [blkPc EXCEPT ![c] = "snapshot"]
      <4>1. Awaits(c, "read")' /\ \A u \in Switches \ {c} : \A o : Awaits(u, o) => Awaits(u, o)'
          BY <1>1, <1>2, <3>1 DEF Awaits, GridTasks
      <4>2. \A o : ~Awaits(c, o)
          BY <3>1 DEF Awaits
      <4> QED BY <1>1, <1>3, <3>1, <4>1, <4>2, AwaitWaits
    <3> QED BY <1>4, <1>5, <3>1 DEF BlockTurnOn, BlockMayCall, BlockSnapshot
  <2>2. KeepaliveInv'
      BY <1>1, <1>5 DEF KeepaliveInv, BlockTurnOn, BlockSnapshot, BlockEngage
  <2> QED BY <2>1, <2>2
<1>6. ASSUME NEW c \in BlockCalls, BlockTurnOff(c) PROVE WaitInv' /\ KeepaliveInv'
  <2> DEFINE f == WriteOf(c, "1038", LimitOr(blkSnap, DeviceLimit))
             C == {c, BlockKeepalive}
  <2>1. /\ bus' = Append(DropFrom(bus, {BlockKeepalive}), f) /\ backoff' = BackoffWithout({BlockKeepalive})
        /\ blkPc' = [blkPc EXCEPT ![c] = "restore", ![BlockKeepalive] = "idle"] /\ blkPc[c] = "idle"
        /\ resp' = [resp EXCEPT ![c] = Silence, ![BlockKeepalive] = Silence]
      BY <1>6 DEF BlockTurnOff, BlockRestore, BlockMayCall
  <2>2. /\ DOMAIN resp' = Tasks /\ (\A u \in C : ~Replied(u)') /\ \A u \in Switches : Replied(u)' => Replied(u)
      BY <1>1, <2>1 DEF Replied, Silence
  <2>3. Awaits(c, "write")' /\ \A u \in Switches \ C : \A o : Awaits(u, o) => Awaits(u, o)'
      BY <1>1, <2>1 DEF Awaits, Switches, BlockTasks, GridTasks
  <2>4. \A u \in C : u \in {BlockKeepalive} \/ Replied(u) \/ \A o : ~Awaits(u, o)
      BY <2>1 DEF Awaits
  <2>5. f.task = c /\ f.op = "write" /\ c \in C /\ C \subseteq Switches
      BY <1>1, <1>3
  <2> HIDE DEF f, C
  <2>6. WaitInv'
      BY <2>1, <2>2, <2>3, <2>4, <2>5, DropWaits
  <2>7. KeepaliveInv'
      BY <1>1, <2>1 DEF KeepaliveInv
  <2> QED BY <2>6, <2>7
<1>7. ASSUME NEW c \in BlockCalls, BlockStarted(c) PROVE WaitInv' /\ KeepaliveInv'
  <2> DEFINE f == ReadOf(c, "misc")
             C == {c, BlockKeepalive}
  <2>1. /\ bus' = DropFrom(bus, {BlockKeepalive}) /\ backoff' = BackoffWithout({BlockKeepalive})
        /\ blkPc' = [blkPc EXCEPT ![c] = "idle", ![BlockKeepalive] = "sleep"] /\ Replied(c) /\ blkPc[c] = "block"
        /\ resp' = [resp EXCEPT ![c] = Silence, ![BlockKeepalive] = Silence] /\ blkOn'
      BY <1>7 DEF BlockStarted, Succeeded, Replied
  <2>2. /\ DOMAIN resp' = Tasks /\ (\A u \in C : ~Replied(u)') /\ \A u \in Switches : Replied(u)' => Replied(u)
      BY <1>1, <2>1 DEF Replied, Silence
  <2>3. \A u \in Switches \ C : \A o : Awaits(u, o) => Awaits(u, o)'
      BY <1>1, <2>1 DEF Awaits, Switches, BlockTasks, GridTasks
  <2>4. \A u \in C : u \in {BlockKeepalive} \/ Replied(u) \/ \A o : ~Awaits(u, o)
      BY <2>1
  <2>5. f.task = c /\ f.op = "read" /\ c \in C /\ C \subseteq Switches
      BY <1>1, <1>3
  <2> HIDE DEF f, C
  <2>6. WaitInv'
      BY <2>1, <2>2, <2>3, <2>4, <2>5, DropWaits
  <2>7. KeepaliveInv'
    <3>1. \A d \in BlockCalls : d # c => blkPc[d] = "idle"
        BY <2>1 DEF OwnsInv, BlockOwns
    <3> QED BY <1>1, <2>1, <3>1 DEF KeepaliveInv
  <2> QED BY <2>6, <2>7
<1>8. ASSUME NEW c \in BlockCalls, BlockFailed(c) \/ BlockTurnedOff(c) PROVE WaitInv' /\ KeepaliveInv'
  <2>1. Replied(c) /\ GoOn(c) /\ blkPc' = [blkPc EXCEPT ![c] = "idle"]
      BY <1>8 DEF BlockFailed, BlockTurnedOff
  <2>2. WaitInv'
      BY <1>1, <1>2, <2>1, GoOnWaits
  <2>3. KeepaliveInv'
      BY <1>1, <1>8 DEF KeepaliveInv, BlockFailed, BlockTurnedOff
  <2> QED BY <2>2, <2>3
<1>9. ASSUME NEW c \in BlockCalls, BlockRemoved(c) PROVE FALSE
    BY <1>9 DEF BlockRemoved, OwnsInv, BlockOwns
<1>10. ASSUME BlockKeepaliveTick \/ BlockKeepaliveWritten PROVE WaitInv' /\ KeepaliveInv'
  <2>1. KeepaliveInv'
      BY <1>1, <1>10 DEF BlockKeepaliveTick, BlockKeepaliveWritten, KeepaliveInv
  <2>2. Replied(BlockKeepalive) \/ \A o : ~Awaits(BlockKeepalive, o)
      BY <1>10 DEF BlockKeepaliveTick, BlockKeepaliveWritten, Awaits
  <2>3. CASE /\ Await(BlockKeepalive, WriteOf(BlockKeepalive, "1038", 0))
             /\ blkPc' = [blkPc EXCEPT ![BlockKeepalive] = "rewrite"]
    <3>1. Awaits(BlockKeepalive, "write")' /\ \A u \in Switches \ {BlockKeepalive} : \A o : Awaits(u, o) => Awaits(u, o)'
        BY <1>1, <1>2, <2>3 DEF Awaits, GridTasks
    <3> QED BY <1>1, <1>3, <2>1, <2>2, <2>3, <3>1, AwaitWaits
  <2>4. ASSUME NEW pc, GoOn(BlockKeepalive), blkPc' = [blkPc EXCEPT ![BlockKeepalive] = pc] PROVE WaitInv'
      BY <1>1, <1>2, <2>2, <2>4, GoOnWaits
  <2> QED BY <1>10, <2>1, <2>3, <2>4 DEF BlockKeepaliveTick, BlockKeepaliveWritten
<1> QED BY <1>5, <1>6, <1>7, <1>8, <1>9, <1>10 DEF BlockCall, BlockGoOn

\* Neither has the optimiser, nor its loops once they are cancelled.
LEMMA GridWaits ==
    ASSUME OwnsInv, PlainUse, WaitInv, KeepaliveInv, IsQueue(bus), UNCHANGED <<blkPc, blkOn>>,
           GridCall \/ \E t \in GridTasks : GridGoOn(t)
    PROVE  WaitInv' /\ KeepaliveInv'
<1> USE SwitchKinds
<1>1. limPc \in [GridTasks -> GridPlaces] /\ DOMAIN resp = Tasks /\ GridTasks = GridCalls \cup GridLoops
    BY DEF OwnsInv, GridOwns, WaitInv, GridTasks
<1>2. ASSUME NEW t \in GridTasks, NEW pc, limPc' = [limPc EXCEPT ![t] = pc]
      PROVE  limPc'[t] = pc /\ \A u \in Switches \ {t} : \A o : Awaits(u, o) => Awaits(u, o)'
    BY <1>1, <1>2 DEF Awaits, Switches, BlockTasks, GridTasks
<1>3. \A t, r, v : /\ ReadOf(t, r).task = t /\ ReadOf(t, r).op = "read"
                   /\ WriteOf(t, r, v).task = t /\ WriteOf(t, r, v).op = "write"
    BY DEF ReadOf, WriteOf, Frame
<1>4. KeepaliveInv'
    BY DEF KeepaliveInv
<1>5. ASSUME NEW t \in GridTasks, GoOn(t), NEW pc, limPc' = [limPc EXCEPT ![t] = pc],
             Replied(t) \/ limPc[t] \in {"idle", "sleep", "cancelled"}
      PROVE  WaitInv'
  <2>1. Replied(t) \/ \A o : ~Awaits(t, o)
      BY <1>1, <1>5 DEF Awaits, BlockTasks
  <2> QED BY <1>1, <1>2, <1>5, <2>1, GoOnWaits
<1>6. ASSUME NEW t \in GridTasks, NEW f, f.task = t, Await(t, f), NEW pc, limPc' = [limPc EXCEPT ![t] = pc],
             Replied(t) \/ limPc[t] \in {"idle", "join", "sleep"},
             \/ t \in GridCalls /\ (pc = "restore" \/ (pc = "snapshot" /\ f.op = "read"))
             \/ t \in GridLoops /\ (pc = "write" \/ (pc = "read" /\ f.op = "read"))
      PROVE  WaitInv'
  <2>1. Replied(t) \/ \A o : ~Awaits(t, o)
      BY <1>1, <1>6 DEF Awaits, BlockTasks
  <2>2. Awaits(t, f.op)'
      BY <1>1, <1>2, <1>6 DEF Awaits, BlockTasks
  <2> QED BY <1>1, <1>2, <1>6, <2>1, <2>2, AwaitWaits
<1>7. ASSUME NEW c \in GridCalls, NEW snap, GridEngage(c, snap), ~limOn, \A d \in GridCalls : d # c => limPc[d] = "idle",
             (limPc[c] = "snapshot" /\ Replied(c)) \/ limPc[c] = "idle"
      PROVE  WaitInv'
  <2>1. CASE GoOn(c) /\ limPc' = [limPc EXCEPT ![c] = "idle"]
      BY <1>1, <1>5, <1>7, <2>1
  <2>2. CASE FreeGridLoops # {} /\ ~(GoOn(c) /\ limPc' = [limPc EXCEPT ![c] = "idle"])
    <3>0. PICK l : l = CHOOSE x \in FreeGridLoops : TRUE
        OBVIOUS
    <3> DEFINE S == {}
               C == {c, l}
               f == ReadOf(l, "misc")
    <3>1. l \in GridLoops /\ l # c
        BY <2>2, <3>0 DEF FreeGridLoops
    <3>2. \A x \in GridLoops : limPc[x] = "idle"
        BY <1>7 DEF OwnsInv, GridOwns
    <3>3. RunningGridLoops = {} /\ GridCancelled = limPc
        BY <1>1, <3>2 DEF RunningGridLoops, GridCancelled
    <3>4. /\ limPc' = [limPc EXCEPT ![c] = "idle", ![l] = "read"] /\ bus' = Append(DropFrom(bus, S), f)
          /\ backoff' = BackoffWithout(S) /\ resp' = [t \in Tasks |-> IF t \in {c} THEN Silence ELSE resp[t]]
        BY <1>7, <2>2, <3>0, <3>3 DEF GridEngage
    <3>5. \A u \in C : u \in S \/ Replied(u) \/ \A o : ~Awaits(u, o)
        BY <1>1, <1>7, <3>1, <3>2 DEF Awaits, BlockTasks
    <3>6. f.task = l /\ f.op = "read" /\ C \subseteq Switches /\ l \in C
        BY <1>1, <1>3, <3>1
    <3>7. Awaits(l, "read")'
      <4>1. limPc'[l] = "read"
          BY <1>1, <3>1, <3>4
      <4> QED BY <1>1, <3>1, <4>1 DEF Awaits, BlockTasks
    <3>8. \A u \in Switches \ C : \A o : Awaits(u, o) => Awaits(u, o)'
      <4>1. \A u \in GridTasks : u \notin C => limPc'[u] = limPc[u]
          BY <1>1, <3>1, <3>4
      <4> QED BY <1>1, <4>1 DEF Awaits, Switches, BlockTasks
    <3>9. Replied(l) => FALSE
      <4>1. ~Awaits(l, "read")
          BY <1>1, <3>1, <3>2 DEF Awaits, BlockTasks
      <4> QED BY <1>1, <3>1, <4>1 DEF WaitInv
    <3>10. DOMAIN resp' = Tasks /\ (\A u \in C : ~Replied(u)') /\ \A u \in Switches : Replied(u)' => Replied(u)
      <4>1. \A u \in Switches : u # c => resp'[u] = resp[u]
          BY <3>4
      <4>2. ~Replied(c)'
          BY <1>1, <3>4 DEF Replied, Silence
      <4>3. Replied(c)' => Replied(c)
          BY <4>2
      <4>4. \A u \in Switches : u # c => (Replied(u)' <=> Replied(u))
          BY <4>1 DEF Replied
      <4> QED BY <1>1, <3>1, <3>4, <3>9, <4>2, <4>4
    <3> HIDE DEF C, f, S
    <3> QED BY <3>4, <3>5, <3>6, <3>7, <3>8, <3>10, DropWaits
  <2> QED BY <1>7, <2>1, <2>2 DEF GridEngage
<1>8. ASSUME NEW c \in GridCalls, GridTurnOn(c) \/ GridSnapshot(c) PROVE WaitInv'
  <2>1. /\ ~limOn /\ (\A d \in GridCalls : d # c => limPc[d] = "idle")
        /\ (limPc[c] = "snapshot" /\ Replied(c)) \/ limPc[c] = "idle"
      BY <1>8 DEF GridTurnOn, GridSnapshot, GridMayCall, PlainUse, OwnsInv, GridOwns
  <2>2. CASE \E snap : GridEngage(c, snap)
      BY <1>7, <2>1, <2>2
  <2>3. CASE limPc[c] = "idle" /\ Await(c, ReadOf(c, "1038")) /\ limPc' = [limPc EXCEPT ![c] = "snapshot"]
    <3> DEFINE f == ReadOf(c, "1038")
    <3>1. f.task = c /\ f.op = "read" /\ Await(c, f)
        BY <1>3, <2>3
    <3> HIDE DEF f
    <3> QED BY <1>1, <1>6, <2>3, <3>1
  <2> QED BY <1>8, <2>2, <2>3 DEF GridTurnOn, GridMayCall, GridSnapshot
<1>9. ASSUME NEW c \in GridCalls, GridTurnOff(c) PROVE WaitInv'
  <2>0. PICK S : S = RunningGridLoops
      OBVIOUS
  <2> DEFINE C == {c} \cup S
  <2>10. PICK f : f = WriteOf(c, "1038", LimitOr(limSnap, DeviceLimit))
      OBVIOUS
  <2>1. S \subseteq GridLoops /\ limPc[c] = "idle" /\ c \notin S
      BY <1>9, <2>0 DEF RunningGridLoops, GridTurnOff, GridMayCall
  <2>2. backoff' = BackoffWithout(S) /\ resp' = [t \in Tasks |-> IF t \in S THEN Silence ELSE resp[t]]
      BY <1>9, <2>0 DEF GridTurnOff
  <2>3. \/ limPc' = [GridCancelled EXCEPT ![c] = "join"] /\ bus' = DropFrom(bus, S)
        \/ limPc' = [limPc EXCEPT ![c] = "restore"] /\ bus' = Append(DropFrom(bus, S), f)
      BY <1>9, <2>0, <2>10 DEF GridTurnOff, GridRestore
  <2>4. DOMAIN GridCancelled = GridTasks /\ \A t \in GridTasks : t \notin S => GridCancelled[t] = limPc[t]
      BY <2>0 DEF GridCancelled
  <2>5. \A o : ~Awaits(c, o)
      BY <1>1, <2>1 DEF Awaits, BlockTasks
  <2>6. C \subseteq Switches /\ c \in C /\ f.task = c /\ f.op = "write" /\ \A u \in C : u \in S \/ Replied(u) \/ \A o : ~Awaits(u, o)
      BY <1>1, <1>3, <2>1, <2>5, <2>10
  <2>7. bus' = DropFrom(bus, S) \/ (bus' = Append(DropFrom(bus, S), f) /\ c \in C /\ Awaits(c, "write")')
    <3>1. limPc' = [limPc EXCEPT ![c] = "restore"] => Awaits(c, "write")'
        BY <1>1 DEF Awaits, BlockTasks
    <3> QED BY <2>3, <2>6, <3>1
  <2>8. \A u \in Switches \ C : \A o : Awaits(u, o) => Awaits(u, o)'
    <3>1. \A t \in GridTasks : t \notin C => limPc'[t] = limPc[t]
        BY <1>1, <2>3, <2>4
    <3> QED BY <1>1, <3>1 DEF Awaits, Switches, BlockTasks
  <2>9. DOMAIN resp' = Tasks /\ (\A u \in C : ~Replied(u)') /\ \A u \in Switches : Replied(u)' => Replied(u)
    <3>1. \A u \in Tasks : Replied(u)' => u \notin S /\ Replied(u)
        BY <2>2 DEF Replied, Silence
    <3>2. ~Replied(c)
        BY <1>1, <2>5 DEF WaitInv
    <3>3. C = {c} \cup S /\ C \subseteq Tasks
        BY <2>6
    <3> HIDE DEF C
    <3> QED BY <2>2, <3>1, <3>2, <3>3
  <2> HIDE DEF C
  <2>11. CASE bus' = DropFrom(bus, S)
    <3>1. backoff' = BackoffWithout(S) /\ C \subseteq Switches /\ f.task = c /\ f.op = "write"
        BY <2>2, <2>6
    <3>2. \A u \in C : u \in S \/ Replied(u) \/ \A o : ~Awaits(u, o)
        BY <2>6
    <3> QED BY <2>8, <2>9, <2>11, <3>1, <3>2, DropWaits
  <2>12. CASE bus' = Append(DropFrom(bus, S), f) /\ c \in C /\ Awaits(c, "write")'
      BY <2>2, <2>6, <2>8, <2>9, <2>12, DropWaits
  <2> QED BY <2>7, <2>11, <2>12
<1>10. ASSUME NEW c \in GridCalls, GridJoined(c) \/ GridTurnedOff(c) PROVE WaitInv'
  <2>1. CASE GridJoined(c)
    <3> DEFINE f == WriteOf(c, "1038", LimitOr(limSnap, DeviceLimit))
    <3>1. f.task = c /\ Await(c, f) /\ limPc[c] = "join" /\ limPc' = [limPc EXCEPT ![c] = "restore"]
        BY <1>3, <2>1 DEF GridJoined
    <3> HIDE DEF f
    <3> QED BY <1>1, <1>6, <3>1
  <2>2. CASE GridTurnedOff(c)
      BY <1>1, <1>5, <2>2 DEF GridTurnedOff
  <2> QED BY <1>10, <2>1, <2>2
<1>11. ASSUME NEW l \in GridLoops, GridSleep(l), Replied(l) PROVE WaitInv'
    BY <1>1, <1>5, <1>11 DEF GridSleep
<1>12. ASSUME NEW l \in GridLoops, GridMeasured(l) \/ GridWritten(l) PROVE WaitInv'
  <2>1. Replied(l)
      BY <1>12 DEF GridMeasured, GridWritten
  <2>2. ASSUME NEW w, Await(l, WriteOf(l, "1038", w)), limPc' = [limPc EXCEPT ![l] = "write"] PROVE WaitInv'
    <3> DEFINE f == WriteOf(l, "1038", w)
    <3>1. f.task = l /\ Await(l, f)
        BY <1>3, <2>2
    <3> HIDE DEF f
    <3> QED BY <1>1, <1>6, <2>1, <2>2, <3>1
  <2> QED BY <1>11, <1>12, <2>1, <2>2 DEF GridMeasured, GridWritten, PlainUse
<1>13. ASSUME NEW l \in GridLoops, GridTick(l) PROVE WaitInv'
  <2> DEFINE f == ReadOf(l, "misc")
  <2>1. limPc[l] = "sleep" /\ Await(l, f) /\ limPc' = [limPc EXCEPT ![l] = "read"]
      BY <1>13 DEF GridTick, OwnsInv, GridOwns
  <2>2. f.task = l /\ f.op = "read"
      BY <1>3
  <2> HIDE DEF f
  <2> QED BY <1>1, <1>6, <2>1, <2>2
<1>14. ASSUME NEW l \in GridLoops, GridLoopCancelled(l) PROVE WaitInv'
  <2>1. limPc[l] = "cancelled" /\ GoOn(l) /\ limPc' = [limPc EXCEPT ![l] = "idle"]
      BY <1>14 DEF GridLoopCancelled, GridLoopFinally, GridLoopEnd, OwnsInv, GridOwns
  <2> QED BY <1>1, <1>5, <2>1
<1>15. ASSUME NEW l \in GridLoops, GridLoopRestored(l) PROVE FALSE
    BY <1>15 DEF GridLoopRestored, OwnsInv, GridOwns
<1> QED BY <1>4, <1>8, <1>9, <1>10, <1>12, <1>13, <1>14, <1>15 DEF GridCall, GridGoOn

\* What is awaited depends on where the coroutines are.
LEMMA SameAwaits ==
    ASSUME UNCHANGED <<blkPc, limPc>>
    PROVE  \A t \in Switches : \A o : /\ Awaits(t, o) <=> Awaits(t, o)'
                                      /\ Awaits(t, o) => Awaits(t, "read")
    BY DEF Awaits

\* Outside clients come and go without the coroutines of the switches.
LEMMA OutsideWaits ==
    ASSUME WaitInv, IsQueue(bus), UNCHANGED <<blkPc, limPc>>, NEW active, ExtCall(active) \/ \E t \in ExtTasks : ExtGoOn(t)
    PROVE  WaitInv'
<1>1. DOMAIN resp = Tasks /\ ProxyRequests \subseteq ExtTasks /\ MqttCommands \subseteq ExtTasks /\ ExtTasks \subseteq Tasks
      /\ Switches \subseteq Tasks
    BY SwitchKinds, TasksAssumption DEF WaitInv, ExtTasks, AllTasks
<1>2. DOMAIN resp' = Tasks /\ \A u \in Switches : Replied(u)' => Replied(u)
  <2>1. resp' = resp \/ \E t : resp' = [resp EXCEPT ![t] = Silence]
      BY DEF ExtCall, ExtGoOn, ProxyWrite, ProxyTimeout, ProxyAnswered, MqttCommand, MqttTurn, MqttAnswered, Await, GoOn
  <2> QED BY <1>1, <2>1 DEF Replied, Silence
<1>3. \A e \in backoff' : e \in backoff
    BY DEF ExtCall, ExtGoOn, ProxyWrite, ProxyTimeout, ProxyAnswered, MqttCommand, MqttTurn, MqttAnswered, Await, GoOn,
           BackoffWithout
<1>4. ASSUME NEW b, IsQueue(b), PartOf(b, bus), NEW f, bus' = b \/ (bus' = Append(b, f) /\ f.task \in ExtTasks) PROVE WaitInv'
  <2> DEFINE C == {}
  <2>1. C \subseteq Switches /\ C \cap Pending(b, backoff') = {} /\ \A c \in C : ~Replied(c)'
      OBVIOUS
  <2>2. \A u \in Switches \ C : \A o : Awaits(u, o) => Awaits(u, o)'
      BY SameAwaits
  <2>3. bus' = b \/ (bus' = Append(b, f) /\ ((f.task \in C /\ Awaits(f.task, f.op)') \/ f.task \in ExtTasks))
      BY <1>4
  <2> HIDE DEF C
  <2> QED BY <1>2, <1>3, <1>4, <2>1, <2>2, <2>3, WaitStep
<1>5. IsQueue(bus) /\ PartOf(bus, bus) /\ \A S : IsQueue(DropFrom(bus, S)) /\ PartOf(DropFrom(bus, S), bus)
    BY WholeIsPart, DropFromIsPart
<1>6. \/ bus' = bus
      \/ \E S : bus' = DropFrom(bus, S)
      \/ \E t \in ExtTasks : \E w : bus' \in {Append(bus, GuardedWriteOf(t, "1038", w)), Append(bus, RawWriteOf(t, "1038", w))}
    BY <1>1 DEF ExtCall, ExtGoOn, ProxyWrite, ProxyTimeout, ProxyAnswered, MqttCommand, MqttTurn, MqttAnswered, MqttLocked,
           Await, GoOn
<1>7. \A t, w : GuardedWriteOf(t, "1038", w).task = t /\ RawWriteOf(t, "1038", w).task = t
    BY DEF GuardedWriteOf, RawWriteOf, Frame
<1> QED BY <1>4, <1>5, <1>6, <1>7

\* The access at place i leaves the bus: it is answered, or it backs off.
LEMMA LeaveWaits ==
    ASSUME WaitInv, IsQueue(bus), UNCHANGED <<blkPc, limPc>>, NEW i \in DOMAIN bus, bus' = Without(bus, i),
           NEW a, NEW g, g.task = bus[i].task, g.op = bus[i].op,
           \/ UNCHANGED backoff /\ resp' = [resp EXCEPT ![bus[i].task] = a]
           \/ UNCHANGED resp /\ backoff' = backoff \cup {g}
    PROVE  WaitInv'
<1>1. PICK V : bus \in Seq(V)
    BY DEF IsQueue
<1>2. /\ DOMAIN bus = 1 .. Len(bus) /\ Len(bus) \in Nat /\ DOMAIN bus' = 1 .. (Len(bus) - 1)
      /\ \A k \in DOMAIN bus' : bus'[k] = IF k < i THEN bus[k] ELSE bus[k + 1]
  <2>1. /\ DOMAIN Without(bus, i) = 1 .. (Len(bus) - 1)
        /\ \A k \in 1 .. (Len(bus) - 1) : Without(bus, i)[k] = IF k < i THEN bus[k] ELSE bus[k + 1]
      BY <1>1, WithoutIs
  <2>2. DOMAIN bus' = 1 .. (Len(bus) - 1)
      BY <2>1
  <2>3. DOMAIN bus = 1 .. Len(bus) /\ Len(bus) \in Nat
      BY <1>1
  <2> QED BY <2>1, <2>2, <2>3
<1> DEFINE at(k) == IF k < i THEN k ELSE k + 1
<1>3. /\ \A k \in DOMAIN bus' : at(k) \in DOMAIN bus /\ at(k) # i /\ bus'[k] = bus[at(k)]
      /\ \A k, n \in DOMAIN bus' : at(k) = at(n) => k = n
    BY <1>2
<1> HIDE DEF at
<1>4. \A k \in DOMAIN bus' : bus'[k].task \in Switches => bus'[k].task # bus[i].task
    BY <1>3 DEF WaitInv
<1>5. \A e \in backoff : bus[i].task \in Switches => e.task # bus[i].task
    BY DEF WaitInv
<1>6. \A u \in Switches : \A o : Asked(u, o)' => Asked(u, o)
    BY <1>3 DEF Asked
<1>7. DOMAIN resp' = Tasks /\ \A e \in backoff' : e \in backoff \/ (e = g /\ UNCHANGED resp)
    BY DEF WaitInv
<1>8. ASSUME NEW u \in Switches, Replied(u)'
      PROVE  Awaits(u, "read")' /\ u \notin Pending(bus', backoff')
  <2>1. CASE UNCHANGED backoff /\ resp' = [resp EXCEPT ![bus[i].task] = a] /\ u = bus[i].task
    <3>1. Asked(u, bus[i].op)
        BY <2>1 DEF Asked
    <3>2. Awaits(u, "read")'
        BY <3>1, SameAwaits DEF WaitInv
    <3> QED BY <1>4, <1>5, <2>1, <3>2 DEF Pending
  <2>2. CASE ~(UNCHANGED backoff /\ resp' = [resp EXCEPT ![bus[i].task] = a] /\ u = bus[i].task)
    <3>1. Replied(u)
      <4>1. resp'[u] = resp[u]
          BY <2>2, SwitchKinds DEF WaitInv
      <4> QED BY <1>8, <4>1 DEF Replied
    <3>2. Awaits(u, "read")' /\ u \notin Pending(bus, backoff)
        BY <3>1, SameAwaits DEF WaitInv
    <3>3. \A k \in DOMAIN bus : bus[k].task # u
        BY <3>2 DEF Pending
    <3>4. \A e \in backoff' : e.task # u
        BY <3>2, <3>3 DEF Pending
    <3> QED BY <1>3, <3>2, <3>3, <3>4 DEF Pending
  <2> QED BY <2>1, <2>2
<1>9. \A u \in Switches : \A o : Asked(u, o)' => Awaits(u, o)'
    BY <1>6, SameAwaits DEF WaitInv
<1>10. \A k \in DOMAIN bus' : bus'[k].task \in Switches \cup ExtTasks
    BY <1>3 DEF WaitInv
<1>11. \A e \in backoff' : e.task \in Switches \cup ExtTasks
    BY <1>7 DEF WaitInv
<1>12. \A k, n \in DOMAIN bus' : bus'[k].task \in Switches /\ bus'[n].task = bus'[k].task => k = n
    BY <1>3 DEF WaitInv
<1>13. \A e, f \in backoff' : e.task \in Switches /\ f.task = e.task => e = f
    BY <1>5, <1>7 DEF WaitInv
<1>14. \A k \in DOMAIN bus', e \in backoff' : e.task \in Switches => bus'[k].task # e.task
    BY <1>3, <1>4, <1>7 DEF WaitInv
<1> QED BY <1>7, <1>8, <1>9, <1>10, <1>11, <1>12, <1>13, <1>14 DEF WaitInv

\* The client's next attempt takes an access from backoff to the bus, or ends it.
LEMMA RetryWaits ==
    ASSUME WaitInv, IsQueue(bus), UNCHANGED <<blkPc, limPc>>, NEW f \in backoff, Retry(f)
    PROVE  WaitInv'
<1>1. backoff' = backoff \ {f} /\ \/ UNCHANGED bus /\ resp' = [resp EXCEPT ![f.task] = Failure]
                                  \/ UNCHANGED resp /\ bus' = Append(bus, f)
    BY DEF Retry
<1>2. PICK V : bus \in Seq(V)
    BY DEF IsQueue
<1>3. \A k \in DOMAIN bus' : \/ k \in DOMAIN bus /\ bus'[k] = bus[k]
                             \/ k = Len(bus) + 1 /\ bus'[k] = f /\ UNCHANGED resp
  <2>1. CASE bus' = Append(bus, f) /\ UNCHANGED resp
    <3>1. bus \in Seq(V \cup {f})
        BY <1>2
    <3>2. /\ DOMAIN Append(bus, f) = 1 .. (Len(bus) + 1) /\ Append(bus, f)[Len(bus) + 1] = f
          /\ DOMAIN bus = 1 .. Len(bus) /\ Len(bus) \in Nat
          /\ \A k \in 1 .. Len(bus) : Append(bus, f)[k] = bus[k]
        BY <3>1
    <3>3. \A k \in 1 .. (Len(bus) + 1) : k \in 1 .. Len(bus) \/ k = Len(bus) + 1
        BY <3>2
    <3> QED BY <2>1, <3>2, <3>3
  <2> QED BY <1>1, <2>1
<1>4. \A k \in DOMAIN bus : f.task \in Switches => bus[k].task # f.task
    BY DEF WaitInv
<1>5. \A e \in backoff' : e \in backoff /\ (f.task \in Switches => e.task # f.task)
    BY <1>1 DEF WaitInv
<1>6. \A u \in Switches : \A o : Asked(u, o)' => Asked(u, o)
    BY <1>3, <1>5 DEF Asked
<1>7. DOMAIN resp' = Tasks
    BY <1>1 DEF WaitInv
<1>8. ASSUME NEW u \in Switches, Replied(u)'
      PROVE  Awaits(u, "read")' /\ u \notin Pending(bus', backoff')
  <2>1. CASE UNCHANGED bus /\ u = f.task
    <3>1. Asked(u, f.op)
        BY <2>1 DEF Asked
    <3>2. Awaits(u, "read")'
        BY <3>1, SameAwaits DEF WaitInv
    <3> QED BY <1>4, <1>5, <2>1, <3>2 DEF Pending
  <2>2. CASE ~(UNCHANGED bus /\ u = f.task)
    <3>1. Replied(u)
      <4>1. resp'[u] = resp[u]
          BY <1>1, <2>2, SwitchKinds DEF WaitInv
      <4> QED BY <1>8, <4>1 DEF Replied
    <3>2. Awaits(u, "read")' /\ u \notin Pending(bus, backoff)
        BY <3>1, SameAwaits DEF WaitInv
    <3>3. (\A k \in DOMAIN bus : bus[k].task # u) /\ \A e \in backoff : e.task # u
        BY <3>2 DEF Pending
    <3> QED BY <1>3, <1>5, <3>2, <3>3 DEF Pending
  <2> QED BY <2>1, <2>2
<1>9. \A u \in Switches : \A o : Asked(u, o)' => Awaits(u, o)'
    BY <1>6, SameAwaits DEF WaitInv
<1>10. \A k \in DOMAIN bus' : bus'[k].task \in Switches \cup ExtTasks
    BY <1>3 DEF WaitInv
<1>11. \A e \in backoff' : e.task \in Switches \cup ExtTasks
    BY <1>5 DEF WaitInv
<1>12. \A k, n \in DOMAIN bus' : bus'[k].task \in Switches /\ bus'[n].task = bus'[k].task => k = n
    BY <1>3, <1>4 DEF WaitInv
<1>13. \A e, g \in backoff' : e.task \in Switches /\ g.task = e.task => e = g
    BY <1>5 DEF WaitInv
<1>14. \A k \in DOMAIN bus', e \in backoff' : e.task \in Switches => bus'[k].task # e.task
    BY <1>3, <1>5 DEF WaitInv
<1> QED BY <1>7, <1>8, <1>9, <1>10, <1>11, <1>12, <1>13, <1>14 DEF WaitInv

\* The inverter and the client answer an access once, or try it again.
LEMMA ServedWaits ==
    ASSUME WaitInv, OutsideInv, UNCHANGED <<blkPc, limPc>>, BusNext
    PROVE  WaitInv'
<1>1. IsQueue(bus)
    BY DEF OutsideInv
<1>2. bus # <<>> => 1 \in DOMAIN bus /\ Head(bus) = bus[1] /\ Tail(bus) = Without(bus, 1)
    BY <1>1, TailIsWithout
<1>3. ASSUME NEW i \in DOMAIN bus, bus' = Without(bus, i), UNCHANGED backoff, NEW a, resp' = [resp EXCEPT ![bus[i].task] = a]
      PROVE  WaitInv'
  <2>1. PICK g : g = bus[i]
      OBVIOUS
  <2> QED BY <1>1, <1>3, <2>1, LeaveWaits
<1>4. CASE Answer
  <2>1. PICK v : resp' = [resp EXCEPT ![Head(bus).task] = Success(v)]
      BY <1>4 DEF Answer
  <2> QED BY <1>2, <1>3, <1>4, <2>1 DEF Answer
<1>5. CASE Refuse
    BY <1>2, <1>3, <1>5 DEF Refuse
<1>6. CASE Falter
  <2>1. CASE UNCHANGED backoff /\ resp' = [resp EXCEPT ![Head(bus).task] = Failure]
      BY <1>2, <1>3, <1>6, <2>1 DEF Falter
  <2>2. CASE UNCHANGED resp /\ backoff' = backoff \cup {[Head(bus) EXCEPT !.left = @ - 1]}
    <3>1. bus # <<>> /\ bus' = Tail(bus)
        BY <1>6 DEF Falter
    <3>2. PICK g : g = [bus[1] EXCEPT !.left = @ - 1]
        OBVIOUS
    <3>3. IsFrame(bus[1])
        BY <1>2, <3>1 DEF OutsideInv
    <3>4. g.task = bus[1].task /\ g.op = bus[1].op
        BY <3>2, <3>3 DEF IsFrame, Frame
    <3>5. UNCHANGED resp /\ backoff' = backoff \cup {g}
        BY <1>2, <2>2, <3>1, <3>2
    <3> QED BY <1>1, <1>2, <3>1, <3>4, <3>5, LeaveWaits
  <2> QED BY <1>6, <2>1, <2>2 DEF Falter
<1>7. ASSUME NEW f \in backoff, Retry(f) PROVE WaitInv'
    BY <1>1, <1>7, RetryWaits
<1>8. ASSUME NEW i \in DOMAIN bus, Expire(i) PROVE WaitInv'
    BY <1>3, <1>8 DEF Expire, Without
<1> QED BY <1>4, <1>5, <1>6, <1>7, <1>8 DEF BusNext

\* What the switches await follows their state, while neither a battery test nor
\* the SoC controller drives the register.
LEMMA WaitInductive ==
    ASSUME PlainUse, Suites = {}, OwnsInv, OutsideInv, WaitInv, KeepaliveInv, [Next]_vars
    PROVE  WaitInv' /\ KeepaliveInv'
<1>1. IsQueue(bus)
    BY DEF OutsideInv
<1>2. ASSUME UNCHANGED blkVars PROVE KeepaliveInv'
    BY <1>2 DEF blkVars, KeepaliveInv
<1>3. CASE UNCHANGED vars
    BY <1>2, <1>3 DEF vars, busVars, blkVars, limVars, WaitInv, Asked, Awaits, Replied
<1>4. CASE Inverter
    BY <1>2, <1>4, ServedWaits DEF Inverter, blkVars, limVars
<1>5. CASE Request
  <2>1. ~SocCall(TestRunning) /\ ~TestCall(SocActive)
      BY DEF SocCall, TestCall, PlainUse
  <2>2. CASE BlockCall /\ UNCHANGED limVars
      BY <1>1, <2>2, BlockWaits DEF limVars
  <2>3. CASE GridCall /\ UNCHANGED blkVars
      BY <1>1, <2>3, GridWaits DEF blkVars
  <2>4. CASE ExtCall(SocActive) /\ UNCHANGED <<blkVars, limVars>>
      BY <1>1, <1>2, <2>4, OutsideWaits DEF blkVars, limVars
  <2> QED BY <1>5, <2>1, <2>2, <2>3, <2>4 DEF Request
<1>6. ASSUME NEW t \in Tasks, GoesOn(t) PROVE WaitInv' /\ KeepaliveInv'
  <2>1. ~(t \in SocTasks /\ SocGoOn(t)) /\ t \notin Suites
    <3>1. ASSUME t \in SocTasks PROVE socPc[t] = "idle" /\ t \notin SocCalls
        BY <3>1 DEF SocTasks, PlainUse, OwnsInv
    <3> QED BY <3>1 DEF SocGoOn, NormalNext, LoopSnapshot, LoopReadSoc, LoopReadTemp, LoopReadState, LoopDriven,
              LoopTick, LoopCancelled, LoopNormalDone, NormalDone
  <2>2. CASE t \in BlockTasks /\ BlockGoOn(t) /\ UNCHANGED limVars
      BY <1>1, <2>2, BlockWaits DEF limVars
  <2>3. CASE t \in GridTasks /\ GridGoOn(t) /\ UNCHANGED blkVars
      BY <1>1, <2>3, GridWaits DEF blkVars
  <2>4. CASE t \in ExtTasks /\ ExtGoOn(t) /\ UNCHANGED <<blkVars, limVars>>
      BY <1>1, <1>2, <2>4, OutsideWaits DEF blkVars, limVars
  <2> QED BY <1>6, <2>1, <2>2, <2>3, <2>4 DEF GoesOn
<1>7. ~Teardown
    BY DEF Teardown, EntityRemoved, UnloadBegin, UnloadShut, UnloadRemove, PlainUse, OwnsInv
<1> QED BY <1>3, <1>4, <1>5, <1>6, <1>7 DEF Next

\* At the start nothing is under way or awaited.
LEMMA WaitInitially == Init => WaitInv /\ KeepaliveInv
<1> SUFFICES ASSUME Init PROVE WaitInv /\ KeepaliveInv
    OBVIOUS
<1>1. bus = <<>> /\ backoff = {} /\ resp = [t \in Tasks |-> Silence]
    BY DEF Init, BusInit
<1>2. DOMAIN bus = {}
    BY <1>1
<1>3. \A t \in Switches : ~Replied(t)
    BY <1>1, SwitchKinds DEF Replied, Silence
<1>4. WaitInv
    BY <1>1, <1>2, <1>3 DEF WaitInv, Asked
<1>5. KeepaliveInv
    BY SwitchKinds DEF Init, BlockInit, KeepaliveInv, BlockTasks
<1> QED BY <1>4, <1>5

\* A write of a switch is under way only while its feature owns the register.
LEMMA WritersOwn ==
    ASSUME OwnsInv, WaitInv, KeepaliveInv
    PROVE  FeaturesYield
<1> USE DEF OwnsInv
<1> SUFFICES ASSUME NEW i \in DOMAIN bus, bus[i].op = "write", bus[i].task \notin ExtTasks
             PROVE  bus[i].task \in TasksOf(owner)
    BY DEF FeaturesYield
<1>1. bus[i].task \in Switches /\ Awaits(bus[i].task, "write")
    BY DEF WaitInv, Asked
<1>2. TasksOf(OWNER_CHARGE_BLOCK) = BlockTasks /\ TasksOf(OWNER_GRID_FEEDIN) = GridTasks
    BY DEF TasksOf, NoOne, OWNER_CHARGE_BLOCK, OWNER_GRID_FEEDIN, OWNER_SOC_CONTROLLER, OWNER_BATTERY_TEST
<1>3. CASE bus[i].task \in BlockTasks
  <2>1. owner = OWNER_CHARGE_BLOCK
      BY <1>1, <1>3 DEF Awaits, BlockTasks, BlockOwns, KeepaliveInv
  <2> QED BY <1>3, <1>2, <2>1
<1>4. CASE bus[i].task \in GridTasks
  <2>1. owner = OWNER_GRID_FEEDIN
      BY <1>1, <1>4 DEF Awaits, GridTasks, GridOwns
  <2> QED BY <1>4, <1>2, <2>1
<1> QED BY <1>1, <1>3, <1>4 DEF Switches

\* battery_reg_1038_owner.py, modbus_proxy.py, mqtt_bridge.py: once the charge
\* block or the optimiser has had an access served as the owner of register 1038,
\* nobody else's write follows to undo it, for any number of calls, loops and
\* outside writes and with every lost answer, retry and timeout.  A battery test
\* that was refused the register writes it all the same, so there is none.
THEOREM OwnerIsObeyed ==
    ASSUME PlainUse, Suites = {}
    PROVE  Spec => []OwnerPrevails
<1> DEFINE IInv == OwnsInv /\ OutsideInv /\ WaitInv /\ KeepaliveInv
<1>1. Init => IInv
    BY OwnsInitially, OutsideInitially, WaitInitially
<1>2. IInv /\ [Next]_vars => IInv'
    BY OwnsInductive, OutsideInductive, WaitInductive
<1>3. IInv => OwnerPrevails
    BY WritersOwn DEF OwnerPrevails, OutsideYields, OutsideInv
<1> QED BY <1>1, <1>2, <1>3, PTL DEF Spec
=============================================================================
