----------------------------- MODULE HealthScore -----------------------------
(* The trackers of InverterHealthMonitor (health_monitor.py) and the health   *)
(* they add up to: each keeps its last value, thresholds of the grid's values *)
(* are chosen anew by every poll, error counts come from the REST data.       *)
(* Frequencies are in tenths of a hertz.                                      *)
EXTENDS Integers, FiniteSets, FiniteSetsExt, IsolationWatch

CONSTANTS
    Frequencies, Voltages, Temperatures, ErrorCounts,  \* the values that are read
    GridKind       \* its frequency and its voltage

Missing == -1
ASSUME HealthConstants ==
    /\ GridKind \in {500, 600} \X {120, 230}
    /\ Frequencies \cup Voltages \cup ErrorCounts \subseteq Nat
    /\ Temperatures \subseteq Int \ {Missing}

Phases == {"phase1_voltage", "phase2_voltage", "phase3_voltage"}
GridTrackers == Phases \cup {"grid_frequency"}
Trackers == GridTrackers \cup {"controller_temp", "active_errors", "active_warnings"}

VARIABLES
    tracked,   \* the last value of each tracker, Missing before the first
    nominal,   \* [freq, volt]: the grid profile of the last poll
    last,      \* history: what the last poll read of the grid
    grid       \* the grid: its kind, and whether every value was in its range so far

scoreVars == <<tracked, nominal, last, grid>>

\* The values at which a grid of that kind runs.
Sound(kind, t, v) ==
    IF t = "grid_frequency" THEN v \in (kind.freq - 3) .. (kind.freq + 3)
    ELSE IF kind.volt = 120 THEN v \in 108 .. 132 ELSE v \in 207 .. 253

ScoreInit ==
    /\ tracked = [t \in Trackers |-> Missing]
    /\ nominal = [freq |-> 500, volt |-> 230]
    /\ last = [t \in GridTrackers |-> Missing]
    /\ grid = [freq |-> GridKind[1], volt |-> GridKind[2], sound |-> TRUE, failed |-> FALSE]

-----------------------------------------------------------------------------
(* Levels.                                                                 *)

\* The average of the phases that have voltage tells the kind of grid.
_detect_nominal_phase_voltage_v(volts) ==
    LET alive == {t \in Phases : volts[t] > 80}
    IN  IF alive # {} /\ MapThenSumSet(LAMBDA t : volts[t], alive) < 180 * Cardinality(alive) THEN 120 ELSE 230
_detect_nominal_frequency_hz(f) == IF f >= 550 THEN 600 ELSE 500

\* The range of info, warning and critical; all of a level are outside it.
Limits(il, ih, wl, wh, cl, ch) == [info |-> <<il, ih>>, warning |-> <<wl, wh>>, critical |-> <<cl, ch>>]
Unlimited == -1000000

\* Mutant: each phase is measured by the profile it fits itself.
OwnProfile(t) ==
    IF t = "grid_frequency"
    THEN Limits(nominal.freq - 3, nominal.freq + 3, nominal.freq - 5, nominal.freq + 5, nominal.freq - 10, nominal.freq + 10)
    ELSE IF tracked[t] < 180 THEN Limits(108, 132, 102, 138, 95, 145) ELSE Limits(207, 253, 195, 255, 185, 265)
\* One profile for the three phases.
_apply_grid_profile(t) ==
    IF t = "grid_frequency"
    THEN Limits(nominal.freq - 3, nominal.freq + 3, nominal.freq - 5, nominal.freq + 5, nominal.freq - 10, nominal.freq + 10)
    ELSE IF nominal.volt <= 130 THEN Limits(108, 132, 102, 138, 95, 145) ELSE Limits(207, 253, 195, 255, 185, 265)
Thresholds(t) ==
    CASE t \in GridTrackers -> _apply_grid_profile(t)
      [] t = "controller_temp" -> Limits(Unlimited, 62, Unlimited, 70, Unlimited, 80)
      [] t = "active_errors" -> Limits(Unlimited, 0, Unlimited, 1, Unlimited, 5)
      [] t = "active_warnings" -> Limits(Unlimited, 0, Unlimited, 3, Unlimited, 10)

Outside(v, lim) == v < lim[1] \/ v > lim[2]
level(t) ==
    LET v == tracked[t]
    IN  IF v = Missing THEN "unknown"
        ELSE IF Outside(v, Thresholds(t).critical) THEN "critical"
        ELSE IF Outside(v, Thresholds(t).warning) THEN "warning"
        ELSE IF Outside(v, Thresholds(t).info) THEN "info"
        ELSE "good"

Levels == {level(t) : t \in {u \in Trackers : tracked[u] # Missing}}

overall_health ==
    IF Levels = {} THEN "unknown"
    ELSE IF "critical" \in Levels THEN "critical"
    ELSE IF "warning" \in Levels THEN "warning"
    ELSE IF "info" \in Levels THEN "info"
    ELSE "good"

health_score ==
    LET Of(l) == Cardinality({t \in Trackers : level(t) = l})
        lost == 20 * Of("critical") + 8 * Of("warning") + 3 * Of("info")
    IN  IF lost > 100 THEN 0 ELSE 100 - lost

\* record_error has no caller, so no poll counts as failed.
communication_reliability == 100

-----------------------------------------------------------------------------

GridReadings ==
    {r \in [GridTrackers -> Frequencies \cup Voltages \cup {Missing}] :
        /\ r["grid_frequency"] \in Frequencies \cup {Missing}
        /\ \A t \in Phases : r[t] \in Voltages \cup {Missing}}

\* update_from_modbus: a value that is missing leaves its tracker as it is.
PollHealth(r, temp) ==
    /\ nominal' = [freq |-> _detect_nominal_frequency_hz(r["grid_frequency"]),
                   volt |-> _detect_nominal_phase_voltage_v(r)]
    /\ tracked' = [t \in Trackers |->
                     IF t \in GridTrackers /\ r[t] # Missing THEN r[t]
                     ELSE IF t = "controller_temp" /\ temp # Missing THEN temp
                     ELSE tracked[t]]
    /\ last' = r
    /\ grid' = [grid EXCEPT !.sound = @ /\ \A t \in GridTrackers : r[t] = Missing \/ Sound(grid, t, r[t])]

\* A poll of the coordinator that failed feeds nothing but the lost isolation.
FailedHealthPoll == grid' = [grid EXCEPT !.failed = TRUE] /\ UNCHANGED <<tracked, nominal, last>>

\* resolve_active_error_warning_counts: warnings default to none.
update_error_counts(errors, warnings) ==
    /\ tracked' = [tracked EXCEPT !["active_errors"] = errors,
                                  !["active_warnings"] = IF warnings = Missing THEN 0 ELSE warnings]
    /\ UNCHANGED <<nominal, last, grid>>

ScoreNext ==
    \/ \E r \in GridReadings, temp \in Temperatures \cup {Missing} : PollHealth(r, temp)
    \/ FailedHealthPoll
    \/ \E e \in ErrorCounts, w \in ErrorCounts \cup {Missing} : update_error_counts(e, w)

-----------------------------------------------------------------------------

\* A phase that has half the voltage of another, or none, is a critical state
\* that costs points: it does not make the profile of the other kind fit.
UnevenGridSeen ==
    (\E t, u \in Phases : last[t] # Missing /\ last[u] # Missing /\ 2 * last[t] < last[u] + 40 /\ last[u] > 200)
      => overall_health = "critical" /\ health_score <= 80

\* "Adapt frequency/voltage thresholds for 50/60Hz and 120/230V grids": a grid
\* of either kind whose values were all in range is never taken for critical.
SoundGridNotCritical == grid.sound => \A t \in GridTrackers : level(t) # "critical"

-----------------------------------------------------------------------------
(* The monitor: its trackers and the isolation resistance of IsolationWatch. *)

monitorVars == <<isolationVars, scoreVars>>

MonitorNext ==
    \/ IsolationNext /\ UNCHANGED scoreVars
    \/ ScoreNext /\ UNCHANGED isolationVars

MonitorSpec == IsolationInit /\ ScoreInit /\ [][MonitorNext]_monitorVars

\* What the health monitor judges is what was measured: an isolation value of
\* an earlier poll, a night or a start long ago is not live, and a missing
\* phase does not pass for another kind of grid (health_monitor.py).
HealthTrue == [][LiveIsMeasured' /\ UnevenGridSeen' /\ RestoredNotOld]_monitorVars

\* "Modbus communication success rate": a poll that failed lowers it.
FailuresCount == grid.failed => communication_reliability < 100

=============================================================================
