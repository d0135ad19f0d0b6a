------------------------------ MODULE FireSafety -----------------------------
(* FireSafetyMonitor of fire_safety.py with its consumer in __init__.py and   *)
(* the notifications of notifications.py: what one poll of the inverter makes *)
(* of the alerts that are active and of the notifications Home Assistant      *)
(* shows.  Levels are 1 (monitor) to 4 (emergency); a reading is the level    *)
(* its thresholds give it, 0 when it is missing or harmless.                  *)
EXTENDS Naturals, FiniteSets

CONSTANTS
    ActiveFor,     \* an alert is active for so many ticks (an hour)
    StaleAfter,    \* without PV power all but the thermal ones for so many (5 min)
    MaxDangers     \* bound: dangers in one reading

ASSUME FireConstants == StaleAfter \in 1 .. ActiveFor

GRID_ALERT_CONFIRM_POLLS == 2

Thermal == {"battery_thermal", "controller_thermal"}
Categories == Thermal \cup {"isolation", "dc_imbalance", "grid_emergency"}

VARIABLES
    alerts,     \* active alerts: [key |-> <<category, level>>, age |-> ticks]
    streak,     \* _grid_alert_streak: consecutive checks with a bad grid
    alarmShown,      \* keys of the notifications that are shown
    clear_sent, \* _clear_sent
    lastPoll    \* history: the alarms of the last two checked readings, and whether a poll came last

fireVars == <<alerts, streak, alarmShown, clear_sent, lastPoll>>

Key(c, l) == <<c, l>>
KeysOf(as) == {a.key : a \in as}

FireInit ==
    /\ alerts = {} /\ streak = 0 /\ alarmShown = {}
    /\ clear_sent = FALSE
    /\ lastPoll = [now |-> {}, before |-> {}, checked |-> FALSE]

\* What a poll may read: some dangers at a time, any over the course of polls.
Dangers == {"battery", "controller", "grid", "isolation", "dc"}
Readings ==
    {r \in [battery : {0, 3, 4}, controller : {0, 3}, grid : {0, 3}, isolation : {0, 4}, dc : {0, 1},
            pv : BOOLEAN, standby : BOOLEAN] :
        /\ Cardinality({d \in Dangers : r[d] > 0}) <= MaxDangers
        /\ r.dc > 0 => r.pv
        /\ r.standby => r.isolation > 0}

-----------------------------------------------------------------------------
(* The checks.                                                             *)

Alarm(c, level) == IF level > 0 THEN {Key(c, level)} ELSE {}

_check_battery_thermal(r) == Alarm("battery_thermal", r.battery)
_check_controller_thermal(r) == Alarm("controller_thermal", r.controller)
_check_isolation(r) == Alarm("isolation", r.isolation)
_check_dc_string_anomaly(r) == Alarm("dc_imbalance", r.dc)
_check_grid_emergency(r) == Alarm("grid_emergency", r.grid)

\* Mutant: the bad readings add up, with good ones between them.
StreakAddsUp(r) == IF r.grid > 0 THEN streak + 1 ELSE streak
\* A single bad reading is a read fault, not a grid emergency.
Streak(r) == IF r.grid > 0 THEN streak + 1 ELSE 0
_confirm_grid_alerts(r) ==
    IF Streak(r) >= GRID_ALERT_CONFIRM_POLLS THEN _check_grid_emergency(r) ELSE {}

\* The checks of PV need its power; the others run always.
Found(r) ==
    _check_battery_thermal(r) \cup _check_controller_thermal(r) \cup _confirm_grid_alerts(r)
      \cup IF r.pv /\ ~r.standby THEN _check_isolation(r) \cup _check_dc_string_anomaly(r) ELSE {}

clear_stale_alerts(pv) == {a \in alerts : pv \/ a.key[1] \in Thermal \/ a.age < StaleAfter}

\* Mutant: an alert of the category is enough, whatever its level.
SameCategory(as, key) == \E a \in as : a.key[1] = key[1]
\* Deduplication: one active alert for each category and level.
Active(as, key) == key \in KeysOf(as)

NewAlerts(r) == {k \in Found(r) : ~Active(clear_stale_alerts(r.pv), k)}

-----------------------------------------------------------------------------
(* _feed_health_data: one update of the Modbus coordinator.                *)

\* Mutant: the flag of the last all-clear is not reset by an alert.
StaysSent == clear_sent
\* A new alert makes a later all-clear possible.
NotSent == FALSE

\* Mutant: a poll without a new alert is taken for the all-clear.
QuietIsClear(kept) == ~clear_sent
\* No alert is active any more and the all-clear was not given yet.
AllClear(kept) == kept = {} /\ ~clear_sent

\* early: less than the interval after the last check, so nothing is checked.
PollFire(r, early) ==
    /\ LET kept == IF early THEN alerts ELSE clear_stale_alerts(r.pv)
           new == IF early THEN {} ELSE NewAlerts(r)
       IN  /\ alerts' = kept \cup {[key |-> k, age |-> 0] : k \in new}
           /\ IF new # {}
              THEN alarmShown' = alarmShown \cup new /\ clear_sent' = NotSent
              ELSE IF AllClear(kept)
              THEN alarmShown' = {} /\ clear_sent' = TRUE     \* notify_safety_clear
              ELSE UNCHANGED <<alarmShown, clear_sent>>
    /\ streak' = IF early THEN streak ELSE IF Streak(r) > GRID_ALERT_CONFIRM_POLLS THEN GRID_ALERT_CONFIRM_POLLS ELSE Streak(r)
    /\ lastPoll' = IF early THEN [lastPoll EXCEPT !.checked = FALSE]
                   ELSE [now |-> _check_battery_thermal(r) \cup _check_controller_thermal(r) \cup _check_grid_emergency(r),
                         before |-> lastPoll.now, checked |-> TRUE]

\* Time passes; alerts grow old.
TickFire ==
    /\ alerts' = {a \in {[b EXCEPT !.age = @ + 1] : b \in alerts} : a.age < ActiveFor}
    /\ lastPoll' = [lastPoll EXCEPT !.checked = FALSE]
    /\ UNCHANGED <<streak, alarmShown, clear_sent>>

\* A reload makes a new monitor; the notifications stay.
ReloadFire ==
    /\ alerts' = {} /\ streak' = 0 /\ clear_sent' = FALSE
    /\ lastPoll' = [now |-> {}, before |-> {}, checked |-> FALSE]
    /\ UNCHANGED alarmShown

FireNext == (\E r \in Readings, early \in BOOLEAN : PollFire(r, early)) \/ TickFire \/ ReloadFire

FireSpec == FireInit /\ [][FireNext]_fireVars

-----------------------------------------------------------------------------

\* Right after a check every dangerous temperature that was read has its alert
\* at its own level, and a grid that was bad twice in a row too: an alert that
\* is an hour old, was dropped at night or had another level does not hide it.
DangerIsActive ==
    lastPoll.checked =>
        \A k \in lastPoll.now : (k[1] \in Thermal \/ k \in lastPoll.before) => k \in KeysOf(alerts)

\* An alarm about the grid needs bad readings in two checks one after the
\* other: "A single 0 Hz / 0 V sample ... is a read fault".
NoGlitchAlarm ==
    ("grid_emergency" \in {k[1] : k \in KeysOf(alerts') \ KeysOf(alerts)})
       => \E k \in lastPoll.now : k[1] = "grid_emergency"

\* Every alert that is active has its notification.
AlertsAreShown == KeysOf(alerts) \subseteq alarmShown

\* A poll that leaves no alert active leaves no notification either, also
\* those of the time before a reload.
ClearedWhenSafe ==
    (lastPoll'.checked /\ alerts' = {}) => alarmShown' = {}

\* Over polls, nights, standby and reloads every danger that was read is alarmed and shown,
\* and nothing else is (analyze, _confirm_grid_alerts and the listener of __init__.py).
AlertsTrue == [][DangerIsActive' /\ AlertsAreShown' /\ NoGlitchAlarm /\ ClearedWhenSafe]_fireVars

=============================================================================
