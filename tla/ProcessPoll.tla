----------------------------- MODULE ProcessPoll -----------------------------
(* The poll of process data (ProcessDataUpdateCoordinator): what it keeps,   *)
(* what it falls back to when the inverter answers badly, and what a sensor  *)
(* shows of it.  Two values of the battery's module stand for all: "SoC",    *)
(* whose zero is doubted, and "P".  A value is zero or not, and the time since  *)
(* it was read, in units of the poll interval.                               *)
EXTENDS Integers, FiniteSets

CONSTANTS
    MaxAge      \* the age at which STALE_DATA_MAX_AGE_SECONDS is over

Fields == {"SoC", "P"}
REST_SOC_MAX_CONSECUTIVE_ZERO_DROPS == 2
FailureCap == 3                 \* failure_multiplier_cap
MaxInterval == 24               \* max_interval_multiplier; 2 is the base interval

VARIABLES
    ask,          \* the poll: "idle", "asked", "pause" (after a 503), "retry"
    last_result,  \* per field: the value kept, or None
    successAge,   \* age of _last_success_ts
    zeroDrops,    \* _soc_zero_drops
    shown,        \* coordinator.data, per field
    updated,      \* last_update_success
    commStale,    \* communication_stale
    fresh_fields,
    failures,     \* _consecutive_failures
    interval,     \* update_interval, 2 is the base
    zeros         \* history: zeros answered in a row since a charge was

processVars == <<ask, last_result, successAge, zeroDrops, shown, updated, commStale,
                 fresh_fields, failures, interval, zeros>>

None == [val |-> "none", age |-> 0]
Ages == 0 .. MaxAge
Reading == [val : {"zero", "some"}, age : Ages]

\* What one field of an answer may be; "bad" cannot be parsed, "gone" is not there.
Answers == [Fields -> {"zero", "some", "bad", "gone"}]

ProcessInit ==
    /\ ask = "idle"
    /\ last_result = [f \in Fields |-> None]
    /\ successAge = MaxAge
    /\ zeroDrops = 0
    /\ shown = [f \in Fields |-> None]
    /\ updated = TRUE
    /\ commStale = FALSE
    /\ fresh_fields = {}
    /\ failures = 0
    /\ interval = 2
    /\ zeros = 0

Older(r) == IF r = None THEN r ELSE [r EXCEPT !.age = IF @ < MaxAge THEN @ + 1 ELSE @]
Capped(n, cap) == IF n < cap THEN n ELSE cap

\* _async_update_data begins, one interval after the poll before.
Refresh ==
    /\ ask = "idle"
    /\ ask' = "asked"
    /\ last_result' = [f \in Fields |-> Older(last_result[f])]
    /\ shown' = [f \in Fields |-> Older(shown[f])]
    /\ successAge' = Capped(successAge + 1, MaxAge)
    /\ fresh_fields' = {}
    /\ UNCHANGED <<zeroDrops, updated, commStale, failures, interval, zeros>>

_stale_cache_usable == (\E f \in Fields : last_result[f] # None) /\ successAge < MaxAge

_record_success == failures' = 0 /\ interval' = 2

_record_failure ==
    /\ failures' = Capped(failures + 1, FailureCap)
    /\ interval' = Capped(2 * (1 + failures'), MaxInterval)

\* UpdateFailed.
Fails ==
    /\ _record_failure
    /\ ask' = "idle"
    /\ updated' = FALSE
    /\ commStale' = TRUE
    /\ UNCHANGED <<last_result, successAge, zeroDrops, shown, fresh_fields, zeros>>

\* A failed exchange: last known values while they are young enough, one more
\* attempt when the inverter is busy, else the poll fails.
Failed(busy) ==
    /\ ask = "asked"
    /\ \/ /\ _stale_cache_usable
          /\ interval' = 3
          /\ shown' = last_result
          /\ updated' = TRUE /\ commStale' = TRUE
          /\ ask' = "idle"
          /\ UNCHANGED <<last_result, successAge, zeroDrops, fresh_fields, failures, zeros>>
       \/ /\ ~_stale_cache_usable /\ busy
          /\ ask' = "pause"
          /\ UNCHANGED <<last_result, successAge, zeroDrops, shown, updated, commStale,
                         fresh_fields, failures, interval, zeros>>
       \/ ~_stale_cache_usable /\ ~busy /\ Fails

RetryAfterBusy ==
    /\ ask = "pause"
    /\ ask' = "retry"
    /\ UNCHANGED <<last_result, successAge, zeroDrops, shown, updated, commStale,
                   fresh_fields, failures, interval, zeros>>

RetryFailed == ask = "retry" /\ Fails

-----------------------------------------------------------------------------

\* Mutant: a zero is never believed.
ZeroNeverBelieved(a) == a["SoC"] = "zero" /\ last_result["SoC"].val = "some"
\* _held_soc_for_zero: the zero that follows a charge is doubted, twice at most.
ZeroHeld(a) ==
    /\ a["SoC"] = "zero"
    /\ last_result["SoC"].val = "some"
    /\ zeroDrops < REST_SOC_MAX_CONSECUTIVE_ZERO_DROPS

ZeroDropsAfter(a) ==
    IF ZeroHeld(a) THEN zeroDrops + 1
    ELSE IF a["SoC"] = "some" THEN 0 ELSE zeroDrops

Parsed(a) == {f \in Fields : a[f] \in {"zero", "some"}}

\* The fields that were read just now; a held charge is not one of them.
FreshIn(a) == Parsed(a) \ IF ZeroHeld(a) THEN {"SoC"} ELSE {}

Read(a, f) == [val |-> a[f], age |-> 0]

\* What is given to Home Assistant: fresh, held, or filled in from what is kept.
ResultOf(a) ==
    [f \in Fields |->
        IF f \in FreshIn(a) THEN Read(a, f)
        ELSE IF a[f] = "gone" THEN None ELSE last_result[f]]

\* Mutant: a field that cannot be parsed does not make the answer partial.
NeverPartial(a) == FALSE
Partial(a) == \E f \in Fields : a[f] \in {"bad", "gone"}

\* An answer: only fresh values are kept, and only they renew the time.
Answered(a) ==
    /\ ask \in {"asked", "retry"}
    /\ ask' = "idle"
    /\ _record_success
    /\ shown' = ResultOf(a)
    /\ zeroDrops' = ZeroDropsAfter(a)
    /\ last_result' = [f \in Fields |-> IF f \in FreshIn(a) THEN Read(a, f) ELSE last_result[f]]
    /\ successAge' = IF FreshIn(a) # {} THEN 0 ELSE successAge
    /\ fresh_fields' = FreshIn(a)
    /\ commStale' = (Partial(a) \/ ~(FreshIn(a) # {} \/ ZeroHeld(a)))
    /\ updated' = TRUE
    /\ zeros' = CASE a["SoC"] = "zero" -> Capped(zeros + 1, 3)
                  [] a["SoC"] = "some" -> 0
                  [] OTHER -> zeros

ProcessNext ==
    \/ Refresh \/ RetryAfterBusy \/ RetryFailed
    \/ \E busy \in BOOLEAN : Failed(busy)
    \/ \E a \in Answers : Answered(a)

-----------------------------------------------------------------------------

\* PlenticoreDataSensor.available.
SensorAvailable(f) ==
    /\ updated
    /\ ~commStale \/ f \in fresh_fields
    /\ shown[f] # None

\* Right after a poll a sensor that is available shows what this poll read;
\* last known and filled-in values are never passed off as live.  The one
\* exception is a charge held against a zero.
ShownWasRead ==
    ask = "idle" => \A f \in Fields :
        (SensorAvailable(f) /\ f \notin fresh_fields) => (f = "SoC" /\ zeroDrops > 0 /\ shown[f].val = "some")

\* A zero that persists is passed on: after more than two in a row no charge
\* is shown.
PersistentZeroShown ==
    (ask = "idle" /\ SensorAvailable("SoC") /\ zeros > REST_SOC_MAX_CONSECUTIVE_ZERO_DROPS)
        => shown["SoC"].val = "zero"

\* A value older than STALE_DATA_MAX_AGE_SECONDS is not shown.
NothingTooOld ==
    [][ask # "idle" /\ ask' = "idle" =>
        \A f \in Fields : SensorAvailable(f)' => shown'[f].age < MaxAge]_processVars

=============================================================================
