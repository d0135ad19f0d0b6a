---------------------------- MODULE ChargeControl ----------------------------
(***************************************************************************)
(* The features that drive register 1038 together, with the writes from    *)
(* outside, over one bus and one owner; and the unloading of the config    *)
(* entry, which stops them in a fixed order.                               *)
(***************************************************************************)
EXTENDS ChargeBlockSwitch, GridFeedInLimiter, BatterySocController,
        BatteryTest, ExternalWrites

CONSTANT MayUnload   \* whether the config entry can be unloaded

VARIABLES
    unload,    \* how far async_unload_entry is
    own,       \* history: tasks whose access was issued by the present owner
    asserted   \* history: an access of the present owner has been served

vars == <<busVars, blkVars, limVars, socVars, tstVars, extVars, unload, own, asserted>>

AllTasks == BlockTasks \cup GridTasks \cup SocTasks \cup Suites \cup ExtTasks

ASSUME TasksAssumption == Tasks = AllTasks

\* A coroutine belongs to one feature, or to the outside.
ASSUME TaskKinds ==
    /\ ExtTasks \cap (BlockTasks \cup GridTasks \cup SocTasks \cup Suites) = {}
    /\ BlockTasks \cap (GridTasks \cup SocTasks \cup Suites) = {}
    /\ GridTasks \cap (SocTasks \cup Suites) = {}
    /\ SocTasks \cap Suites = {}

TasksOf(o) == CASE o = OWNER_CHARGE_BLOCK -> BlockTasks
                [] o = OWNER_GRID_FEEDIN -> GridTasks
                [] o = OWNER_SOC_CONTROLLER -> SocTasks
                [] o = OWNER_BATTERY_TEST -> Suites
                [] o = NoOne -> {}

-----------------------------------------------------------------------------
(* What the history variables remember.                                    *)

\* The accesses under way: on the bus, or between two attempts.
Pending(queue, off) == {queue[i].task : i \in DOMAIN queue} \cup {f.task : f \in off}

\* An access counts as the owner's if it was issued while it was the owner.
\* The owner has asserted itself once one of them has left the bus's head.
Remember ==
    /\ own' = {t \in TasksOf(owner') \cap Pending(bus', backoff') :
                  (owner' = owner /\ t \in own) \/ t \notin Pending(bus, backoff)}
    /\ asserted' = /\ owner' # NoOne /\ owner' = owner
                   /\ \/ asserted
                      \/ /\ bus # <<>> /\ Head(bus).task \in own
                         /\ bus' = Tail(bus)

-----------------------------------------------------------------------------
(* async_unload_entry: the SoC controller is stopped, the outside doors    *)
(* are shut, the Modbus client is closed, then the entities are removed.   *)

\* soc_ctrl.stop(), unlike set_target(None), leaves the target to _stop.
UnloadBegin ==
    /\ MayUnload /\ unload = "loaded"
    /\ unload' = "soc"
    /\ \/ /\ SocCalls = {}
          /\ UNCHANGED <<busVars, socVars>>
       \/ \E c \in SocCalls :
             /\ socPc[c] = "idle"
             /\ \/ LockAtOnce /\ StopLoop(c) /\ UNCHANGED socQueue
                \/ /\ ~LockAtOnce
                   /\ LockWait(c)
                   /\ SocGoto(c, "stop")
                   /\ UNCHANGED <<busVars, socTask, socLock, socJoin, socKept>>
             /\ socTarget' = (socTarget /\ ~(LockAtOnce /\ ~TaskRunning))
             /\ UNCHANGED <<socSnap, socLoop>>
    /\ UNCHANGED <<blkVars, limVars, tstVars, extVars>>

\* The proxy cancels its clients, the bridge unsubscribes, the client closes.
UnloadShut ==
    /\ unload = "soc"
    /\ \A c \in SocCalls : socPc[c] = "idle"
    /\ unload' = "remove"
    /\ closing' = TRUE
    /\ bus' = DropFrom(bus, ProxyRequests)
    /\ backoff' = BackoffWithout(ProxyRequests)
    /\ resp' = [t \in Tasks |-> IF t \in ProxyRequests THEN Silence ELSE resp[t]]
    /\ extPc' = [t \in ExtTasks |-> IF t \in ProxyRequests THEN "idle" ELSE extPc[t]]
    /\ UNCHANGED <<owner, reg, extLock, blkVars, limVars, socVars, tstVars>>

RemoveEntity ==
    /\ \/ BlockRemoval /\ UNCHANGED limVars
       \/ GridRemoval /\ UNCHANGED blkVars
    /\ UNCHANGED <<unload, socVars, tstVars, extVars>>

UnloadRemove == unload = "remove" /\ RemoveEntity

\* An entity is deleted while the entry stays loaded.
EntityRemoved == "remove" \in Habits /\ unload = "loaded" /\ RemoveEntity

-----------------------------------------------------------------------------

Init ==
    /\ BusInit /\ BlockInit /\ GridInit /\ SocInit /\ TestInit /\ ExtInit
    /\ unload = "loaded" /\ own = {} /\ asserted = FALSE

\* No loop has a CancelledError coming: it arrives in the next turn of the
\* event loop, before anything can come from the network.
NoCancelPending ==
    /\ \A l \in GridLoops : limPc[l] \notin {"cancelled", "aborted"}
    /\ \A l \in SocLoops : socPc[l] # "cancelled"

\* The inverter, or the client in between, does something with an access.
Inverter ==
    NoCancelPending /\ BusNext /\ UNCHANGED <<blkVars, limVars, socVars, tstVars, extVars, unload>> /\ Remember

\* A user, an automation or an outside client asks for something.
Request ==
    /\ \/ BlockCall /\ UNCHANGED <<limVars, socVars, tstVars, extVars, unload>>
       \/ GridCall /\ UNCHANGED <<blkVars, socVars, tstVars, extVars, unload>>
       \/ SocCall(TestRunning) /\ UNCHANGED <<blkVars, limVars, tstVars, extVars, unload>>
       \/ TestCall(SocActive) /\ UNCHANGED <<blkVars, limVars, socVars, extVars, unload>>
       \/ /\ unload # "remove" /\ ExtCall(SocActive)
          /\ UNCHANGED <<blkVars, limVars, socVars, tstVars, unload>>
    /\ Remember

\* Coroutine t goes on.
GoesOn(t) ==
    /\ \/ /\ t \in BlockTasks /\ BlockGoOn(t)
          /\ UNCHANGED <<limVars, socVars, tstVars, extVars, unload>>
       \/ /\ t \in GridTasks /\ GridGoOn(t)
          /\ UNCHANGED <<blkVars, socVars, tstVars, extVars, unload>>
       \/ /\ t \in SocTasks /\ SocGoOn(t)
          /\ UNCHANGED <<blkVars, limVars, tstVars, extVars, unload>>
       \/ /\ t \in Suites /\ TestGoOn(t)
          /\ UNCHANGED <<blkVars, limVars, socVars, extVars, unload>>
       \/ /\ t \in ExtTasks /\ ExtGoOn(t)
          /\ UNCHANGED <<blkVars, limVars, socVars, tstVars, unload>>
    /\ Remember

\* Home Assistant removes an entity, or unloads the whole entry.
Teardown == (EntityRemoved \/ UnloadBegin \/ UnloadShut \/ UnloadRemove) /\ Remember

Next ==
    \/ Inverter
    \/ Request
    \/ \E t \in Tasks : GoesOn(t)
    \/ Teardown

Spec == Init /\ [][Next]_vars

\* The inverter or the client's timeouts answer every access in the end, and
\* the event loop runs every coroutine that can go on.
Fairness == WF_vars(Inverter) /\ \A t \in Tasks : WF_vars(GoesOn(t))

FairSpec == Spec /\ Fairness

-----------------------------------------------------------------------------

TypeOK ==
    /\ BusTypeOK /\ BlockTypeOK /\ GridTypeOK /\ SocTypeOK /\ TestTypeOK /\ ExtTypeOK
    /\ unload \in {"loaded", "soc", "remove"}
    /\ own \subseteq Tasks
    /\ asserted \in BOOLEAN

\* Nothing is under way: every coroutine has returned or sleeps.
Quiet ==
    /\ bus = <<>> /\ backoff = {}
    /\ BlockQuiet /\ GridQuiet /\ SocQuiet /\ TestQuiet /\ ExtQuiet

\* The features that are switched on, or have a loop that goes on driving.
Driving ==
    (IF blkOn THEN {OWNER_CHARGE_BLOCK} ELSE {})
    \cup (IF limOn THEN {OWNER_GRID_FEEDIN} ELSE {})
    \cup (IF \E l \in SocLoops : socPc[l] # "idle" THEN {OWNER_SOC_CONTROLLER} ELSE {})
    \cup (IF \E s \in Suites : tstPc[s] \in {"sleep", "gap"} THEN {OWNER_BATTERY_TEST} ELSE {})

\* Register 1038 is never held by a feature that is off: once nothing is
\* under way the owner, if any, is a feature that drives the register.
NoOrphanOwner == Quiet => owner = NoOne \/ owner \in Driving

\* At most one feature drives register 1038, and it is the owner.
OneDriver == Quiet => Driving \subseteq {owner}

\* Once the present owner has had an access served, no other feature's write
\* to 1038 is on its way.
FeaturesYield ==
    asserted =>
        \A i \in DOMAIN bus :
            bus[i].op = "write" /\ bus[i].reg = "1038"
                => bus[i].task \in TasksOf(owner) \cup ExtTasks

\* Once the present owner has had a write served, no write from outside is
\* left that could overwrite it: not on the bus, and none that will rejoin it.
OutsideYields ==
    asserted =>
        /\ \A i \in DOMAIN bus : bus[i].task \notin ExtTasks
        /\ \A f \in backoff : f.task \in ExtTasks => f.guarded

\* Once the present owner has had an access served, nobody else's write follows
\* to undo it, neither a feature's nor one from outside (battery_reg_1038_owner.py).
OwnerPrevails == FeaturesYield /\ OutsideYields

\* With every feature off, the user's limits are in force again.
LimitsRestored ==
    Quiet /\ Driving = {} => reg["1038"] = UserLimit /\ reg["1040"] = UserLimit

\* With neither the controller nor a test driving, the battery is automatic.
AutomaticWhenIdle ==
    Quiet /\ Driving \cap {OWNER_SOC_CONTROLLER, OWNER_BATTERY_TEST} = {}
        => reg["1034"] = 0

\* With every feature off the battery is as the user left it: limits and mode,
\* however a feature's task ended (the finally of each feature).
UserStateRestored == LimitsRestored /\ AutomaticWhenIdle

\* At most one control loop of the SoC controller runs outside its `finally'.
OneSocLoop ==
    \A k, l \in SocLoops :
        LET inBody(x) == socPc[x] \notin {"idle", "cancelled"}
                         /\ ~(socPc[x] \in {"normal34", "normal38", "normal40"}
                              /\ socLoop[x].after = "end")
        IN inBody(k) /\ inBody(l) => k = l

\* Within one session the controller never turns round: a loop that has
\* charged does not discharge, and vice versa.
NoReversal ==
    [][\A l \in SocLoops :
          socLoop[l].was # "none" => socLoop'[l].was \in {socLoop[l].was, "none"}]_vars

\* A running test can be seen by the SoC controller.
TestVisible == (\E s \in Suites : tstRunning[s]) => TestRunning

\* A control loop of the SoC controller that outlives the closing of the
\* client gives up: its accesses fail, and it counts the failures.
LoopsEndWhenClosed ==
    \A l \in SocLoops : closing /\ socPc[l] # "idle" ~> socPc[l] = "idle"

\* Every service call returns, whatever the other coroutines do.
CallsReturn ==
    /\ \A c \in BlockCalls : blkPc[c] # "idle" ~> blkPc[c] \in {"idle", "gone"}
    /\ \A c \in GridCalls : limPc[c] # "idle" ~> limPc[c] \in {"idle", "gone"}
    /\ \A c \in SocCalls : socPc[c] # "idle" ~> socPc[c] = "idle"
=============================================================================
