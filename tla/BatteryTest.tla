----------------------------- MODULE BatteryTest -----------------------------
(***************************************************************************)
(* The battery charge/discharge test and its button.  Every press makes a  *)
(* new suite, unless the last one still runs: then it asks it to abort.    *)
(* The suite publishes itself in hass.data for the SoC controller to see.  *)
(***************************************************************************)
EXTENDS ChargeLimitBus

CONSTANTS Suites,     \* identities of suites; bounds how many overlap
          Phases,     \* what the phases do, in order: "charge", "discharge"
          TestLimit,  \* _DEFAULT_LIMIT_W
          MaxKaFails  \* MAX_CONSECUTIVE_KA_FAILURES

ASSUME TestAssumption ==
    /\ Phases \in Seq({"charge", "discharge"}) /\ Phases # <<>>
    /\ TestLimit \in Nat
    /\ MaxKaFails \in Nat \ {0}

VARIABLES
    tstPc,       \* where each suite is suspended
    tstLast,     \* BatteryTestButton._suite
    tstShown,    \* hass.data[..]["battery_test"]
    tstRunning,  \* _running of each suite
    tstAbort,    \* _abort_requested of each suite
    tstSnap,     \* the limits each suite has snapshotted
    tstPhase,    \* index of the phase each suite is in
    tstOk,       \* whether the first write of the pair under way succeeded
    tstFails     \* consecutive_ka_failures

tstVars == <<tstPc, tstLast, tstShown, tstRunning, tstAbort, tstSnap,
             tstPhase, tstOk, tstFails>>

TestInit ==
    /\ tstPc = [s \in Suites |-> "idle"]
    /\ tstLast = NoOne
    /\ tstShown = NoOne
    /\ tstRunning = [s \in Suites |-> FALSE]
    /\ tstAbort = [s \in Suites |-> FALSE]
    /\ tstSnap = [s \in Suites |-> [charge |-> NoWatts, discharge |-> NoWatts]]
    /\ tstPhase = [s \in Suites |-> 1]
    /\ tstOk = [s \in Suites |-> FALSE]
    /\ tstFails = [s \in Suites |-> 0]

TestTypeOK ==
    /\ tstPc \in [Suites ->
                    {"idle", "dump", "snap38", "snap40", "try34", "try38", "try40",
                     "state", "phase34", "phase38", "monitor", "keep34", "keep38",
                     "sleep", "gap", "normal34", "normal38", "normal40", "flush"}]
    /\ tstLast \in Suites \cup {NoOne}
    /\ tstShown \in Suites \cup {NoOne}
    /\ tstRunning \in [Suites -> BOOLEAN]
    /\ tstAbort \in [Suites -> BOOLEAN]
    /\ tstSnap \in [Suites -> [charge : Nat \cup {NoWatts}, discharge : Nat \cup {NoWatts}]]
    /\ tstPhase \in [Suites -> 1 .. Len(Phases)]
    /\ tstOk \in [Suites -> BOOLEAN]
    /\ tstFails \in [Suites -> 0 .. MaxKaFails]

\* What the SoC controller finds in hass.data.
TestRunning == tstShown # NoOne /\ tstRunning[tstShown]

TestGoto(s, pc) == tstPc' = [tstPc EXCEPT ![s] = pc]

Charging(s) == Phases[tstPhase[s]] = "charge"
Setpoint(s) == IF Charging(s) THEN -1 ELSE 1

-----------------------------------------------------------------------------
(* run(): the `finally' gives 1038 back before it resets the registers.    *)

\* Mutant: the setpoint is not reset.
TestFinallyDriving(s) ==
    /\ owner' = AfterRelease(OWNER_BATTERY_TEST)
    /\ Await(s, WriteOf(s, "1038", LimitOr(tstSnap[s].charge, TestLimit)))
    /\ TestGoto(s, "normal38")

\* Mutant: register 1038 is not given back.
TestFinallyOwning(s) ==
    /\ Await(s, WriteOf(s, "1034", 0))
    /\ TestGoto(s, "normal34")
    /\ UNCHANGED owner

\* The `finally' of run(), for a suite that has acquired 1038.
TestFinally(s) ==
    /\ owner' = AfterRelease(OWNER_BATTERY_TEST)
    /\ Await(s, WriteOf(s, "1034", 0))
    /\ TestGoto(s, "normal34")

\* The button: abort the suite that runs, or start one.  A suite refused
\* 1038 goes straight to its `finally', having nothing to release.
TestPress(s, socActive) ==
    \/ /\ tstLast # NoOne /\ tstRunning[tstLast]
       /\ tstAbort' = [tstAbort EXCEPT ![tstLast] = TRUE]
       /\ UNCHANGED <<busVars, tstPc, tstLast, tstShown, tstRunning, tstSnap,
                      tstPhase, tstOk, tstFails>>
    \/ /\ ~(tstLast # NoOne /\ tstRunning[tstLast])
       /\ ~socActive
       /\ tstPc[s] = "idle"
       /\ "overlap" \in Habits \/ \A z \in Suites : tstPc[z] = "idle"
       /\ tstLast' = s
       /\ tstShown' = s
       /\ tstRunning' = [tstRunning EXCEPT ![s] = TRUE]
       /\ tstAbort' = [tstAbort EXCEPT ![s] = FALSE]
       /\ tstSnap' = [tstSnap EXCEPT ![s] = [charge |-> NoWatts, discharge |-> NoWatts]]
       /\ tstPhase' = [tstPhase EXCEPT ![s] = 1]
       /\ \/ /\ CanAcquire(OWNER_BATTERY_TEST)
             /\ owner' = OWNER_BATTERY_TEST
             /\ Await(s, ReadOf(s, "misc"))
             /\ TestGoto(s, "dump")
          \/ /\ ~CanAcquire(OWNER_BATTERY_TEST)
             /\ Await(s, WriteOf(s, "1034", 0))
             /\ TestGoto(s, "normal34")
             /\ UNCHANGED owner
       /\ UNCHANGED <<tstOk, tstFails>>

\* A loop turn of run(): the next phase, or the `finally' when asked to stop.
TestPhase(s, i) ==
    /\ \/ /\ ~tstAbort[s] /\ i <= Len(Phases)
          /\ Await(s, ReadOf(s, "misc"))
          /\ TestGoto(s, "state")
          /\ tstPhase' = [tstPhase EXCEPT ![s] = i]
          /\ UNCHANGED owner
       \/ /\ tstAbort[s] \/ i > Len(Phases)
          /\ TestFinally(s)
          /\ UNCHANGED tstPhase

-----------------------------------------------------------------------------
(* _preflight.                                                             *)

TestDumped(s) ==
    /\ tstPc[s] = "dump"
    /\ Replied(s)
    /\ Await(s, ReadOf(s, "1038"))
    /\ TestGoto(s, "snap38")
    /\ UNCHANGED <<owner, tstSnap, tstPhase, tstOk>>

\* Mutant: the second snapshot overwrites the first.
TestSnapshotOnce(s) ==
    /\ Replied(s)
    /\ LET got == IF Succeeded(s) THEN resp[s].val ELSE NoWatts
       IN \/ /\ tstPc[s] = "snap38"
             /\ tstSnap' = [tstSnap EXCEPT ![s].charge = got]
             /\ Await(s, ReadOf(s, "1040"))
             /\ TestGoto(s, "snap40")
          \/ /\ tstPc[s] = "snap40"
             /\ tstSnap' = [tstSnap EXCEPT ![s].charge = got]
             /\ Await(s, WriteOf(s, "1034", 0))
             /\ TestGoto(s, "try34")
    /\ UNCHANGED <<owner, tstPhase, tstOk>>

TestSnapshot(s) ==
    /\ Replied(s)
    /\ LET got == IF Succeeded(s) THEN resp[s].val ELSE NoWatts
       IN \/ /\ tstPc[s] = "snap38"
             /\ tstSnap' = [tstSnap EXCEPT ![s].charge = got]
             /\ Await(s, ReadOf(s, "1040"))
             /\ TestGoto(s, "snap40")
          \/ /\ tstPc[s] = "snap40"
             /\ tstSnap' = [tstSnap EXCEPT ![s].discharge = got]
             /\ Await(s, WriteOf(s, "1034", 0))
             /\ TestGoto(s, "try34")
    /\ UNCHANGED <<owner, tstPhase, tstOk>>

\* The write test: only a failure on 1034 counts against the preflight, next
\* to what the readings say.
TestTried(s) ==
    /\ Replied(s)
    /\ \/ /\ tstPc[s] = "try34" /\ Succeeded(s)
          /\ Await(s, WriteOf(s, "1038", TestLimit))
          /\ TestGoto(s, "try38")
          /\ UNCHANGED <<owner, tstPhase>>
       \/ /\ tstPc[s] = "try38"
          /\ Await(s, WriteOf(s, "1040", TestLimit))
          /\ TestGoto(s, "try40")
          /\ UNCHANGED <<owner, tstPhase>>
       \/ /\ tstPc[s] = "try40"
          /\ TestPhase(s, 1)
       \/ /\ tstPc[s] = "try40" \/ (tstPc[s] = "try34" /\ ~Succeeded(s))
          /\ TestFinally(s)
          /\ UNCHANGED tstPhase
    /\ UNCHANGED <<tstSnap, tstOk>>

-----------------------------------------------------------------------------
(* The phases.                                                             *)

\* An inverter that is off skips a discharge phase.
TestState(s) ==
    /\ tstPc[s] = "state"
    /\ Replied(s)
    /\ \/ /\ Await(s, WriteOf(s, "1034", Setpoint(s)))
          /\ TestGoto(s, "phase34")
          /\ UNCHANGED <<owner, tstPhase>>
       \/ /\ Succeeded(s) /\ ~Charging(s)
          /\ TestPhase(s, tstPhase[s] + 1)
    /\ UNCHANGED <<tstSnap, tstOk>>

\* The first half of _write_charge or _write_discharge: the second follows
\* whatever became of it.
TestPhase34(s) ==
    /\ tstPc[s] = "phase34"
    /\ Replied(s)
    /\ tstOk' = [tstOk EXCEPT ![s] = Succeeded(s)]
    /\ Await(s, WriteOf(s, "1038", IF Charging(s) THEN TestLimit ELSE 0))
    /\ TestGoto(s, "phase38")
    /\ UNCHANGED <<owner, tstSnap, tstPhase>>

\* A phase whose first writes failed ends the test; each phase counts its
\* own keepalive failures.
TestPhase38(s) ==
    /\ tstPc[s] = "phase38"
    /\ Replied(s)
    /\ \/ /\ tstOk[s] /\ Succeeded(s)
          /\ GoOn(s)
          /\ TestGoto(s, "sleep")
          /\ UNCHANGED owner
       \/ /\ ~(tstOk[s] /\ Succeeded(s))
          /\ TestFinally(s)
    /\ tstOk' = [tstOk EXCEPT ![s] = FALSE]
    /\ tstFails' = [tstFails EXCEPT ![s] = 0]
    /\ UNCHANGED <<tstSnap, tstPhase>>

\* One turn of the monitoring loop: the phase is over, an abort was asked
\* for, the keepalive is due, or the next sample is taken.
TestTurn(s) ==
    /\ tstPc[s] = "sleep"
    /\ \/ /\ tstPhase[s] < Len(Phases)
          /\ GoOn(s)
          /\ TestGoto(s, "gap")
          /\ UNCHANGED owner
       \/ /\ tstAbort[s] \/ tstPhase[s] = Len(Phases)
          /\ TestFinally(s)
       \/ /\ ~tstAbort[s]
          /\ \/ Await(s, WriteOf(s, "1034", Setpoint(s))) /\ TestGoto(s, "keep34")
             \/ Await(s, ReadOf(s, "misc")) /\ TestGoto(s, "monitor")
          /\ UNCHANGED owner
    /\ UNCHANGED <<tstSnap, tstPhase, tstOk>>

TestGap(s) ==
    /\ tstPc[s] = "gap"
    /\ TestPhase(s, tstPhase[s] + 1)
    /\ UNCHANGED <<tstSnap, tstOk>>

\* _keepalive is over: go on sampling, or give up after MaxKaFails failures.
TestKept(s, ok) ==
    LET n == IF ok THEN 0 ELSE tstFails[s] + 1
    IN /\ tstFails' = [tstFails EXCEPT ![s] = n]
       /\ \/ /\ n < MaxKaFails
             /\ Await(s, ReadOf(s, "misc"))
             /\ TestGoto(s, "monitor")
             /\ UNCHANGED owner
          \/ /\ n >= MaxKaFails
             /\ TestFinally(s)

TestKeepalive(s) ==
    /\ Replied(s)
    /\ \/ /\ tstPc[s] = "keep34" /\ Charging(s)
          /\ TestKept(s, Succeeded(s))
          /\ UNCHANGED tstOk
       \/ /\ tstPc[s] = "keep34" /\ ~Charging(s)
          /\ tstOk' = [tstOk EXCEPT ![s] = Succeeded(s)]
          /\ Await(s, WriteOf(s, "1038", 0))
          /\ TestGoto(s, "keep38")
          /\ UNCHANGED <<owner, tstFails>>
       \/ /\ tstPc[s] = "keep38"
          /\ TestKept(s, tstOk[s] /\ Succeeded(s))
          /\ tstOk' = [tstOk EXCEPT ![s] = FALSE]
    /\ UNCHANGED <<tstSnap, tstPhase>>

\* A sample is taken: its readings may end the test.
TestSampled(s) ==
    /\ tstPc[s] = "monitor"
    /\ Replied(s)
    /\ \/ /\ GoOn(s)
          /\ TestGoto(s, "sleep")
          /\ UNCHANGED owner
       \/ TestFinally(s)
    /\ UNCHANGED <<tstSnap, tstPhase, tstOk>>

-----------------------------------------------------------------------------
(* _write_normal, and what the button does afterwards.                     *)

TestNormal(s) ==
    /\ Replied(s)
    /\ \/ /\ tstPc[s] = "normal34"
          /\ Await(s, WriteOf(s, "1038", LimitOr(tstSnap[s].charge, TestLimit)))
          /\ TestGoto(s, "normal38")
          /\ UNCHANGED tstRunning
       \/ /\ tstPc[s] = "normal38"
          /\ Await(s, WriteOf(s, "1040", LimitOr(tstSnap[s].discharge, TestLimit)))
          /\ TestGoto(s, "normal40")
          /\ UNCHANGED tstRunning
       \/ /\ tstPc[s] = "normal40"
          /\ tstRunning' = [tstRunning EXCEPT ![s] = FALSE]
          /\ GoOn(s)
          /\ TestGoto(s, "flush")
    /\ UNCHANGED <<owner, tstLast, tstShown, tstAbort, tstSnap, tstPhase, tstOk, tstFails>>

\* The debug log is on disk: the button takes "battery_test" out of
\* hass.data, whichever suite that is by now.
TestFlushed(s) ==
    /\ tstPc[s] = "flush"
    /\ tstShown' = NoOne
    /\ GoOn(s)
    /\ TestGoto(s, "idle")
    /\ UNCHANGED <<owner, tstLast, tstRunning, tstAbort, tstSnap, tstPhase, tstOk, tstFails>>

\* Somebody presses the button.
TestCall(socActive) == \E s \in Suites : TestPress(s, socActive)

\* A suite goes on.
TestGoOn(s) ==
    \/ /\ \/ TestDumped(s)
          \/ TestSnapshot(s)
          \/ TestTried(s)
          \/ TestState(s)
          \/ TestPhase34(s)
          \/ TestTurn(s)
          \/ TestGap(s)
          \/ TestSampled(s)
       /\ UNCHANGED <<tstLast, tstShown, tstRunning, tstAbort, tstFails>>
    \/ /\ TestPhase38(s) \/ TestKeepalive(s)
       /\ UNCHANGED <<tstLast, tstShown, tstRunning, tstAbort>>
    \/ TestNormal(s)
    \/ TestFlushed(s)

TestQuiet == \A s \in Suites : tstPc[s] \in {"idle", "sleep", "gap"}
=============================================================================
