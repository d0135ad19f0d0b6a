----------------------------- MODULE Degradation -----------------------------
(* One TrackedParameter of degradation_tracker.py and the DegradationSensor   *)
(* (degradation_entities.py) that carries it over restarts: a summary of each *)
(* day, the baseline of the first days, the trend.  Values are tenths.        *)
EXTENDS Integers, Sequences, SequencesExt

CONSTANTS
    DailyValues,         \* values that are measured
    MAX_DAILY_SNAPSHOTS, BASELINE_DAYS,
    TrendDays,           \* days before there is a trend (7 in the code)
    LastDay,             \* bound: days
    DayCount             \* bound: measurements of a day

ASSUME DegradationConstants ==
    /\ MAX_DAILY_SNAPSHOTS \in Nat /\ BASELINE_DAYS \in 1 .. MAX_DAILY_SNAPSHOTS
    /\ DailyValues \subseteq Int /\ TrendDays > 1 /\ DayCount \in {1, 2}

VARIABLES
    snapshots,  \* the days that are over, oldest first: [day, sum, count]
    open_day,   \* _current_snapshot, <<>> for None
    today,      \* the day by the clock
    restoreState,     \* what Home Assistant's restore state holds
    added       \* the sensor was added to Home Assistant: it has restored

degradationVars == <<snapshots, open_day, today, restoreState, added>>

DegradationInit ==
    /\ snapshots = <<>> /\ open_day = <<>> /\ today = 1
    /\ restoreState = [there |-> FALSE, snapshots |-> <<>>, current |-> <<>>]
    /\ added = FALSE

Days(c) == [i \in DOMAIN snapshots |-> snapshots[i].day] \o [i \in DOMAIN c |-> c[i].day]
LastOf(s, n) == IF Len(s) > n THEN SubSeq(s, Len(s) - n + 1, Len(s)) ELSE s

-----------------------------------------------------------------------------

\* The value opens a new day.
OpensDay == open_day = <<>> \/ open_day[1].day # today

record(v) ==
    /\ IF OpensDay
       THEN /\ snapshots' = LastOf(snapshots \o open_day, MAX_DAILY_SNAPSHOTS)
            /\ open_day' = <<[day |-> today, sum |-> v, count |-> 1]>>
       ELSE /\ open_day[1].count < DayCount
            /\ open_day' = <<[open_day[1] EXCEPT !.sum = @ + v, !.count = @ + 1]>>
            /\ UNCHANGED snapshots
    /\ UNCHANGED <<today, restoreState, added>>

DayPasses == today < LastDay /\ today' = today + 1 /\ UNCHANGED <<snapshots, open_day, restoreState, added>>

\* Home Assistant dumps the extra data of its entities, now and then and at the end.
extra_restore_state_data ==
    /\ added
    /\ restoreState' = [there |-> TRUE, snapshots |-> snapshots, current |-> open_day]
    /\ UNCHANGED <<snapshots, open_day, today, added>>

\* A reload, which dumps the entity it removes, or a crash, which does not.
RestartTracker(dumped) ==
    /\ added
    /\ restoreState' = IF dumped THEN [there |-> TRUE, snapshots |-> snapshots, current |-> open_day] ELSE restoreState
    /\ snapshots' = <<>> /\ open_day' = <<>> /\ added' = FALSE
    /\ UNCHANGED today

\* Mutant: what was measured since the start is put behind what is restored.
RestoredBefore ==
    snapshots' = restoreState.snapshots \o restoreState.current \o snapshots /\ UNCHANGED open_day
\* restore_from_dict: what was measured since the start is overwritten.
Restored == snapshots' = restoreState.snapshots /\ open_day' = restoreState.current

async_added_to_hass ==
    /\ ~added /\ added' = TRUE
    /\ IF restoreState.there THEN Restored ELSE UNCHANGED <<snapshots, open_day>>
    /\ UNCHANGED <<today, restoreState>>

DegradationNext ==
    \/ \E v \in DailyValues : record(v)
    \/ DayPasses
    \/ extra_restore_state_data
    \/ \E dumped \in BOOLEAN : RestartTracker(dumped)
    \/ async_added_to_hass

DegradationSpec == DegradationInit /\ [][DegradationNext]_degradationVars

-----------------------------------------------------------------------------
(* What the sensor shows.  avg2 is twice the average of a day.             *)

avg2(s) == (2 * s.sum) \div s.count
Total(f) == FoldSeq(LAMBDA x, acc : x + acc, 0, f)
NoValue == -1

\* Twice the sum over the first days.
baseline_avg ==
    IF Len(snapshots) < BASELINE_DAYS THEN NoValue
    ELSE Total([i \in 1 .. BASELINE_DAYS |-> avg2(snapshots[i])])

all_snaps == snapshots \o open_day

\* Mutant: the slope of the raw products, not of the deviations.
RawSlope(x, y) == Total([i \in DOMAIN x |-> x[i] * y[i]])
\* The numerator of the regression, times the number of days.
Slope(x, y) == Len(x) * Total([i \in DOMAIN x |-> x[i] * y[i]]) - Total(x) * Total(y)

trend ==
    LET n == Len(all_snaps)
        x == [i \in 1 .. n |-> all_snaps[i].day - all_snaps[1].day]
        y == [i \in 1 .. n |-> avg2(all_snaps[i])]
        denominator == n * Total([i \in 1 .. n |-> x[i] * x[i]]) - Total(x) * Total(x)
        num == Slope(x, y)
        steady == num * 15 < denominator /\ (0 - num) * 15 < denominator  \* 0.1 a month, in tenths and doubled
    IN  CASE n < TrendDays \/ denominator = 0 -> "unbekannt"
          [] n >= TrendDays /\ denominator # 0 /\ steady -> "stabil"
          [] OTHER -> IF num > 0 THEN "steigend" ELSE "fallend"

-----------------------------------------------------------------------------

\* No day is summarised twice and none is out of order, over reloads, crashes
\* and measurements between the start and the restoring of the entity.
DaysInOrder ==
    LET d == Days(open_day) IN \A i, j \in DOMAIN d : i < j => d[i] < d[j]

\* A parameter that never rose from day to day is not shown as rising, nor
\* one that never fell as falling, with days missing between them or not.
TrendTrue ==
    LET y == [i \in DOMAIN all_snaps |-> avg2(all_snaps[i])]
    IN  /\ (\A i, j \in DOMAIN y : i < j => y[i] >= y[j]) => trend # "steigend"
        /\ (\A i, j \in DOMAIN y : i < j => y[i] <= y[j]) => trend # "fallend"

\* The record of a parameter is a record of days, and its trend is one of the
\* record, whatever restarts it went through (restore_from_dict, trend).
AgeingTrue == DaysInOrder /\ TrendTrue

\* "Average of the first BASELINE_DAYS days": once there is one it stays.
BaselineStays ==
    [][baseline_avg # NoValue /\ baseline_avg' # NoValue => baseline_avg' = baseline_avg]_degradationVars

=============================================================================
