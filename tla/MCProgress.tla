------------------------------ MODULE MCProgress -------------------------------
(***************************************************************************)
(* The paths between the inverter and the entities on which something has  *)
(* to happen in the end, side by side: each behaviour is one of one part,  *)
(* chosen at the start, while the others stay as they begin.  The parts    *)
(* share no state, so their behaviours are those of the parts alone.       *)
(***************************************************************************)
EXTENDS RestSession, RestHealth, RestWrites, KsemLink, ModbusNumber, NumberRegistry, MqttBridge

VARIABLE part

vars == <<part, sessionVars, healthVars, writeVars, ksemVars, numberVars, registryVars, bridgeVars>>

Parts == {"session", "health", "writes", "ksem", "number", "registry", "bridge"}

\* A part that is not looked at begins in one of its initial states.
AtRest ==
    /\ part = "health" \/ ~saved.faults
    /\ part = "number" \/ (readOnly /\ kind = "cyclic")
    /\ part = "registry" \/ uids["r1"] = "none"
    /\ part = "bridge" \/ mqtt = "absent"

Init ==
    /\ part \in Parts
    /\ SessionInit /\ HealthInit /\ WritesInit /\ KsemInit /\ NumberInit /\ NumberRegistryInit /\ BridgeInit
    /\ AtRest

OthersStay ==
    /\ IF part = "session" THEN TRUE ELSE UNCHANGED sessionVars
    /\ IF part = "health" THEN TRUE ELSE UNCHANGED healthVars
    /\ IF part = "writes" THEN TRUE ELSE UNCHANGED writeVars
    /\ IF part = "ksem" THEN TRUE ELSE UNCHANGED ksemVars
    /\ IF part = "number" THEN TRUE ELSE UNCHANGED numberVars
    /\ IF part = "registry" THEN TRUE ELSE UNCHANGED registryVars
    /\ IF part = "bridge" THEN TRUE ELSE UNCHANGED bridgeVars

Next ==
    /\ \/ part = "session" /\ SessionNext
       \/ part = "health" /\ HealthNext
       \/ part = "writes" /\ WritesNext
       \/ part = "ksem" /\ KsemNext
       \/ part = "number" /\ NumberNext
       \/ part = "registry" /\ NumberRegistryNext
       \/ part = "bridge" /\ BridgeNext
    /\ OthersStay
    /\ UNCHANGED part

-----------------------------------------------------------------------------
(* Fairness of the part that is looked at.                                 *)

\* The inverter or the time limit answers every caller.
SessionFairness == \A t \in SessionTasks : WF_sessionVars(part = "session" /\ CallerStep(t))

\* A clean-up task that was made runs.
HealthFairness == \A c \in Channels : WF_healthVars(part = "health" /\ Cleanup(c))

\* A write goes on, and the timer of the keepalive fires.
WritesFairness ==
    /\ \A w \in Writers : WF_writeVars(part = "writes" /\ WriteStep(w))
    /\ WF_writeVars(part = "writes" /\ KeepaliveWakes)

\* A poll under way goes on; the shutdown closes once it has the lock.
KsemFairness ==
    WF_ksemVars(part = "ksem" /\ KsemPollStep) /\ WF_ksemVars(part = "ksem" /\ KsemClose)

\* The timer of the keepalive fires, and a request is answered or fails.
NumberFairness ==
    /\ WF_numberVars(part = "number" /\ LeaseWakes) /\ WF_numberVars(part = "number" /\ KeepaliveRepeats)
    /\ WF_numberVars(part = "number" /\ (KeepaliveAnswered \/ KeepaliveFails))

\* Home Assistant carries set-ups through, and its timers fire.
NumberRegistryFairness ==
    WF_registryVars(part = "registry" /\ NumberSetUp) /\ WF_registryVars(part = "registry" /\ TimedReload)

\* The loop's timer fires, a start goes on, the broker comes back in the end,
\* and an attempt does not fail for ever.
BridgeFairness ==
    /\ WF_bridgeVars(part = "bridge" /\ async_start)
    /\ WF_bridgeVars(part = "bridge" /\ BrokerChanges("up"))
    /\ WF_bridgeVars(part = "bridge" /\ RetryWakes)
    /\ \A s \in 0 .. 2 : SF_bridgeVars(part = "bridge" /\ AttemptGoesOn /\ step = s)

Spec ==
    /\ Init /\ [][Next]_vars
    /\ SessionFairness /\ HealthFairness /\ WritesFairness /\ KsemFairness /\ NumberFairness
    /\ NumberRegistryFairness /\ BridgeFairness

-----------------------------------------------------------------------------

\* The locks of the REST login and of the KSEM client protect what they are for
\* and come free at every exit: each call returns, the shutdown gets its turn,
\* and no read is made through a client that was taken away (_relogin of
\* api.py, ksem_coordinator.py).
LocksSound == SessionCallsReturn /\ KsemShutdownEnds /\ []KsemReadHasClient

\* A cyclic command ends by itself with what it rests on, the arming over REST
\* (number.py) and the connection over Modbus (modbus_number.py).
CyclicCommandsEnd == KeepaliveEnds /\ LostEpochEnds

\* What was interrupted recovers without anybody's help: the MQTT bridge starts
\* in the end, and a channel nobody uses does not hold the REST recovery back
\* (mqtt_bridge.py, coordinator.py).
ConnectionsHeal == BridgeHeals /\ IdleChannelLeaves

=============================================================================
