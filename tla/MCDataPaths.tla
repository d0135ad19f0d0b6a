----------------------------- MODULE MCDataPaths -----------------------------
(***************************************************************************)
(* The paths between the inverter and the entities, and the monitors that  *)
(* judge what comes along them, side by side: each behaviour is one of one *)
(* part, chosen at the start, while the others stay as they begin.  The    *)
(* parts share no state, so their behaviours are those of the parts alone. *)
(***************************************************************************)
EXTENDS RestSession, RestHealth, ProcessPoll, RestWrites, SettingsPoll, SelectPoll, EventHistory,
        ModbusNumber, MqttBridge, FireSafety, DcShares, Degradation

VARIABLE part

vars == <<part, sessionVars, healthVars, processVars, writeVars, settingVars, selectVars,
          eventVars, numberVars, bridgeVars, fireVars, shareVars,
          degradationVars>>

Parts == {"session", "health", "process", "writes", "settings", "selects", "events",
          "number", "bridge", "fire", "shares", "ageing"}

\* A part that is not looked at begins in one of its initial states.
Init ==
    /\ part \in Parts
    /\ SessionInit
    /\ HealthInit /\ (part = "health" \/ ~saved.faults)
    /\ ProcessInit
    /\ WritesInit
    /\ SettingsInit /\ (part = "settings" \/ shadow = {})
    /\ SelectInit /\ (part = "selects" \/ flag = {})
    /\ EventsInit
    /\ NumberInit /\ (part = "number" \/ (readOnly /\ kind = "cyclic"))
    /\ BridgeInit /\ (part = "bridge" \/ mqtt = "absent")
    /\ FireInit
    /\ ShareInit
    /\ DegradationInit

OthersStay ==
    /\ IF part = "session" THEN TRUE ELSE UNCHANGED sessionVars
    /\ IF part = "health" THEN TRUE ELSE UNCHANGED healthVars
    /\ IF part = "process" THEN TRUE ELSE UNCHANGED processVars
    /\ IF part = "writes" THEN TRUE ELSE UNCHANGED writeVars
    /\ IF part = "settings" THEN TRUE ELSE UNCHANGED settingVars
    /\ IF part = "selects" THEN TRUE ELSE UNCHANGED selectVars
    /\ IF part = "events" THEN TRUE ELSE UNCHANGED eventVars
    /\ IF part = "number" THEN TRUE ELSE UNCHANGED numberVars
    /\ IF part = "bridge" THEN TRUE ELSE UNCHANGED bridgeVars
    /\ IF part = "fire" THEN TRUE ELSE UNCHANGED fireVars
    /\ IF part = "shares" THEN TRUE ELSE UNCHANGED shareVars
    /\ IF part = "ageing" THEN TRUE ELSE UNCHANGED degradationVars

Next ==
    /\ \/ part = "session" /\ SessionNext
       \/ part = "health" /\ HealthNext
       \/ part = "process" /\ ProcessNext
       \/ part = "writes" /\ WritesNext
       \/ part = "settings" /\ SettingsNext
       \/ part = "selects" /\ SelectNext
       \/ part = "events" /\ EventsNext
       \/ part = "number" /\ NumberNext
       \/ part = "bridge" /\ BridgeNext
       \/ part = "fire" /\ FireNext
       \/ part = "shares" /\ ShareNext
       \/ part = "ageing" /\ DegradationNext
    /\ OthersStay
    /\ UNCHANGED part

Spec == Init /\ [][Next]_vars

-----------------------------------------------------------------------------

\* What an entity shows as live was read by the last poll, or is within the
\* limit of age its reader accepts: values filled in, kept or held by the polls
\* of process data, settings and selects are never passed off as more
\* (coordinator.py).
ShownIsLive == ShownWasRead /\ PersistentZeroShown /\ SettingShownWasRead /\ NoGhostMode

\* A write that changes a part of a setting leaves the rest alone: of two modes
\* one is on, a failed change is taken back, and a bit of the shadow management
\* keeps the others (select.py, switch.py).
PartWritesKeepRest == [][OneOptionOn' /\ FailedSelectRestores /\ OtherStringsKept]_vars

=============================================================================
