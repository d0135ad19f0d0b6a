---------------------------- MODULE IsolationWatch ---------------------------
(* The isolation resistance: what InverterHealthMonitor of health_monitor.py  *)
(* takes for a live measurement, and the sample that ModbusDataUpdate-        *)
(* Coordinator keeps on disk for the next start.  Resistances are kilo-ohms   *)
(* of a small set; firmware reports them in ohms or in kilo-ohms.             *)
EXTENDS Naturals, Sequences

CONSTANTS
    IsolationValues,  \* resistances that are measured, in kilo-ohms
    MaxSampleAge,     \* ISOLATION_PERSIST_MAX_AGE_SECONDS in ticks
    MaxRestarts

\* One kilo-ohm, in ohms, is a number the code cannot tell from kilo-ohms, and
\* the sentinel is no measurement.
ASSUME IsolationConstants ==
    IsolationValues \subseteq Nat \ {0, 1, 65535} /\ MaxSampleAge \in Nat /\ MaxRestarts \in Nat

SENTINEL == 65535000      \* ISOLATION_SENTINEL_OHM
ISOMEAS == 2              \* the inverter state in which it measures
KOHM_MAX == 1000          \* ISOLATION_KOHM_HEURISTIC_MAX
NoSample == 0

VARIABLES
    sample,       \* isolation.current in ohms, NoSample before the first one
    origin,       \* _isolation_sample_origin
    unavailable,  \* _isolation_modbus_unavailable
    off_scale,    \* _isolation_modbus_off_scale
    isolationDisk,         \* the store: [ohm, age]
    persisted,    \* _last_persisted_isolation_ohm
    saving,       \* what the saves in flight write, in the order of the store's lock
    restarts,
    heard,        \* history: what the last poll measured, NoSample for nothing
    sinceRead     \* history: ticks since each resistance was measured

isolationVars == <<sample, origin, unavailable, off_scale, isolationDisk, persisted, saving, restarts, heard, sinceRead>>

Never == MaxSampleAge + 1
Older(age) == IF age < Never THEN age + 1 ELSE Never
Ohms == {1000 * v : v \in IsolationValues}

IsolationInit ==
    /\ sample = NoSample /\ origin = "none" /\ unavailable = TRUE /\ off_scale = FALSE
    /\ isolationDisk = [ohm |-> NoSample, age |-> 0] /\ persisted = NoSample /\ saving = <<>>
    /\ restarts = 0
    /\ heard = NoSample /\ sinceRead = [o \in Ohms |-> Never]

\* What a poll brings: the register (NoSample when it is missing), whether it
\* was read in this poll and is no retained value, PV power and the state.
KiloOhms == {v \in IsolationValues : v <= KOHM_MAX}
IsolationPolls ==
    [raw : {NoSample, SENTINEL} \cup Ohms \cup KiloOhms,
     current : BOOLEAN, pv : BOOLEAN, state : {ISOMEAS, 6}]

\* Firmware that reports kilo-ohms while PV produces, and ohms otherwise.
Truthful(p) == p.raw \in KiloOhms => p.pv

isolation_measurement_expected(p) == p.pv \/ p.state = ISOMEAS

\* Small numbers are kilo-ohms, when PV produces.
normalize_isolation_resistance_ohm(p) == IF p.pv /\ p.raw <= KOHM_MAX THEN 1000 * p.raw ELSE p.raw

\* The poll measured the resistance.
Measured(p) == p.current /\ p.raw # NoSample /\ isolation_measurement_expected(p)
Recorded(p) == IF p.raw = SENTINEL THEN SENTINEL ELSE normalize_isolation_resistance_ohm(p)

\* Mutant: a poll without the register leaves the last measurement live.
StaysLive(p) == IF p.raw = NoSample THEN unavailable ELSE ~Measured(p)
\* invalidate_isolation_measurement: each poll has to establish it again.
Unavailable(p) == ~Measured(p)

get_isolation_resistance_ohm == IF unavailable THEN NoSample ELSE sample

\* _feed_health_data: the monitor is fed, and a live value that is not the
\* stored one is saved in a task of its own.
PollIsolation(p) ==
    /\ Len(saving) < 2 /\ Truthful(p)
    /\ unavailable' = Unavailable(p)
    /\ off_scale' = (Measured(p) /\ p.raw = SENTINEL)
    /\ IF Measured(p) THEN sample' = Recorded(p) /\ origin' = "modbus"
       ELSE UNCHANGED <<sample, origin>>
    /\ saving' = IF unavailable' \/ sample' \in {SENTINEL, persisted} THEN saving ELSE Append(saving, [ohm |-> sample', age |-> 0])
    /\ heard' = IF p.current /\ (p.pv \/ p.state = ISOMEAS)
                THEN IF p.raw \in KiloOhms THEN 1000 * p.raw ELSE p.raw ELSE NoSample
    /\ sinceRead' = IF heard' \in Ohms THEN [sinceRead EXCEPT ![heard'] = 0] ELSE sinceRead
    /\ UNCHANGED <<isolationDisk, persisted, restarts>>

\* A poll that failed altogether: no data.
FailedPoll ==
    /\ unavailable' = TRUE /\ off_scale' = FALSE /\ heard' = NoSample
    /\ UNCHANGED <<sample, origin, isolationDisk, persisted, saving, restarts, sinceRead>>

\* _save_isolation_sample is through its write, or the write failed.
_save_isolation_sample(ok) ==
    /\ saving # <<>> /\ saving' = Tail(saving)
    /\ IF ok THEN isolationDisk' = Head(saving) /\ persisted' = Head(saving).ohm
       ELSE UNCHANGED <<isolationDisk, persisted>>
    /\ UNCHANGED <<sample, origin, unavailable, off_scale, restarts, heard, sinceRead>>

TickIsolation ==
    /\ isolationDisk' = [isolationDisk EXCEPT !.age = Older(@)]
    /\ saving' = [i \in DOMAIN saving |-> [saving[i] EXCEPT !.age = Older(@)]]
    /\ sinceRead' = [o \in Ohms |-> Older(sinceRead[o])]
    /\ UNCHANGED <<sample, origin, unavailable, off_scale, persisted, restarts, heard>>

\* Mutant: the age of the stored sample is not looked at.
AnyAge == isolationDisk.ohm # NoSample
\* The stored sample is young enough to be restored.
Restorable == isolationDisk.ohm \notin {NoSample, SENTINEL} /\ isolationDisk.age <= MaxSampleAge

\* A new start, at any moment: saves in flight are lost; then
\* _restore_isolation_sample seeds the new monitor.
RestartIsolation ==
    /\ restarts < MaxRestarts /\ restarts' = restarts + 1
    /\ IF Restorable THEN sample' = isolationDisk.ohm /\ origin' = "restored"
       ELSE sample' = NoSample /\ origin' = "none"
    /\ unavailable' = TRUE /\ off_scale' = FALSE
    /\ persisted' = NoSample /\ saving' = <<>> /\ heard' = NoSample
    /\ UNCHANGED <<isolationDisk, sinceRead>>

IsolationNext ==
    \/ \E p \in IsolationPolls : PollIsolation(p)
    \/ FailedPoll
    \/ \E ok \in BOOLEAN : _save_isolation_sample(ok)
    \/ TickIsolation
    \/ RestartIsolation

-----------------------------------------------------------------------------

\* The value shown is what the last poll measured and nothing else: not the
\* sample of an earlier poll, not one that was restored, not a night reading.
LiveIsMeasured ==
    /\ get_isolation_resistance_ohm = heard
    /\ off_scale <=> heard = SENTINEL

\* A restored sample that is assessed was measured at most the maximal age
\* before the start, whatever saves were skipped, failed or cut off.
RestoredNotOld ==
    restarts' # restarts /\ sample' # NoSample => sinceRead[sample'] <= MaxSampleAge

=============================================================================
