------------------------------- MODULE DcShares ------------------------------
(* The learned share of each PV string: _record_dc_shares of health_monitor   *)
(* .py and what it reports, for two strings.  Shares are in percent of the    *)
(* DC power; the windows are the code's, scaled down.                         *)
EXTENDS Naturals, Sequences, SequencesExt

CONSTANTS
    Shares,        \* shares of the first string that occur
    DC_SHARE_LONG_MAXLEN, DC_SHARE_SHORT_MAXLEN, DC_SHARE_MIN_SAMPLES,
    ShortMin       \* samples before the recent share counts (5 in the code)

ASSUME ShareConstants ==
    /\ Shares \subseteq 0 .. 100
    /\ DC_SHARE_MIN_SAMPLES <= DC_SHARE_LONG_MAXLEN /\ ShortMin <= DC_SHARE_SHORT_MAXLEN

DC_SHARE_FREEZE_THRESHOLD == 20
DC_SHARE_COLLAPSE_FLOOR == 2
DC_SHARE_ACTIVITY_FLOOR == 5
Strings == {1, 2}

VARIABLES
    long_q,   \* _dc_share_long
    short_q,  \* _dc_share_short
    active,   \* _dc_share_active: strings that have produced
    produces  \* history: the shares of the last sample

shareVars == <<long_q, short_q, active, produces>>

ShareInit ==
    /\ long_q = [s \in Strings |-> <<>>] /\ short_q = [s \in Strings |-> <<>>]
    /\ active = {}
    /\ produces = [s \in Strings |-> 0]

\* statistics.median, doubled to stay an integer.
median2(q) ==
    LET sorted == SortSeq(q, LAMBDA a, b : a < b)
        n == Len(q)
    IN  IF n % 2 = 1 THEN 2 * sorted[(n + 1) \div 2] ELSE sorted[n \div 2] + sorted[n \div 2 + 1]

Pushed(q, x, maxlen) == IF Len(q) = maxlen THEN Append(Tail(q), x) ELSE Append(q, x)

Apart(long, short) ==
    IF median2(long) > median2(short) THEN median2(long) - median2(short) ELSE median2(short) - median2(long)

Judged(long, short) == Len(long) >= DC_SHARE_MIN_SAMPLES /\ Len(short) >= ShortMin

\* Mutant: the baseline goes on learning while a string deviates.
NeverFrozen(long, short) == FALSE
\* A string that deviates hard from what was learned does not train it.
Frozen(long, short) == Judged(long, short) /\ Apart(long, short) > 2 * DC_SHARE_FREEZE_THRESHOLD

\* Mutant: only the string that is judged has to produce.
NoSuspect(share) == FALSE
\* A string that has produced and is dead now makes the sample a fault.
Suspect(share) == \E s \in active' : share[s] < DC_SHARE_COLLAPSE_FLOOR

\* One poll with enough power: nothing is learned before both strings have produced.
_record_dc_shares(first) ==
    LET share == [s \in Strings |-> IF s = 1 THEN first ELSE 100 - first]
    IN  /\ active' = active \cup {s \in Strings : share[s] >= DC_SHARE_ACTIVITY_FLOOR}
        /\ IF active' = Strings
           THEN /\ short_q' = [s \in Strings |-> Pushed(short_q[s], share[s], DC_SHARE_SHORT_MAXLEN)]
                /\ long_q' = [s \in Strings |->
                                IF Suspect(share) \/ Frozen(long_q[s], short_q'[s]) THEN long_q[s]
                                ELSE Pushed(long_q[s], share[s], DC_SHARE_LONG_MAXLEN)]
           ELSE UNCHANGED <<short_q, long_q>>
        /\ produces' = share

ShareNext == \E first \in Shares : _record_dc_shares(first)

\* dc_string_baseline_deviation above the 25 points that cost health score.
Deviates(s) == Judged(long_q[s], short_q[s]) /\ Apart(long_q[s], short_q[s]) > 50
dc_string_collapsed == {s \in Strings : Len(short_q[s]) >= ShortMin /\ median2(short_q[s]) < 2 * DC_SHARE_COLLAPSE_FLOOR}

Steady(s) == \A i \in 1 .. Len(short_q[s]) : short_q[s][i] = produces[s]

-----------------------------------------------------------------------------

\* A string that is reported goes on being reported as long as it keeps its
\* share: "a sustained fault must not gradually become the new baseline".
FaultStays ==
    \A s \in Strings :
      (Deviates(s) /\ Steady(s) /\ produces'[s] = produces[s]) => Deviates(s)'

\* A string that dies is reported once the short window is full of it, also
\* within the learning time, and recovers when it does: death is not learned.
DeathIsSeen ==
    \A s \in Strings : Len(short_q[s]) >= ShortMin /\ Steady(s) =>
        /\ (s \in dc_string_collapsed) = (produces[s] < DC_SHARE_COLLAPSE_FLOOR)
        /\ long_q[s] # <<>> => median2(long_q[s]) >= 2 * DC_SHARE_COLLAPSE_FLOOR

\* A faulty string is seen and goes on being seen: neither a slow fault nor a
\* sudden one becomes the baseline it is compared with (_record_dc_shares).
StringFaultsSeen == [][DeathIsSeen' /\ FaultStays]_shareVars

=============================================================================
