----------------------------- MODULE RestWrites ------------------------------
(* Writing settings over REST: async_write_data of coordinator.py, the        *)
(* number entities of number.py with the keepalive of a G3 limit, and the     *)
(* arming of high-impact writes.  Three settings stand for all: "limit", a    *)
(* cyclic limit that needs arming, and the "on" and "off" threshold of a      *)
(* digital output.  The installer's access is granted.                        *)
EXTENDS Naturals

CONSTANTS
    WriteCalls,     \* service calls that may be under way together
    WriteFaults,    \* "preread", "write", "verify": that exchange may fail; "deaf": a value is ignored
    MaxWriteCalls,  \* bound on the calls made
    MaxOutages      \* bound on REST incidents

KeepaliveTask == "keepalive"

\* The keepalive is a task of its own.
ASSUME KeepaliveIsNoCall == KeepaliveTask \notin WriteCalls

Writers == WriteCalls \cup {KeepaliveTask}
Levels == 1 .. 2                  \* of limit; thresholds add one more
Thresholds == {"on", "off"}
Partner(id) == IF id = "on" THEN "off" ELSE "on"

VARIABLES
    setting,   \* what the inverter holds
    armed,     \* is_advanced_write_armed
    write,     \* per writer: where async_write_data is, the setting, the value
    keepalive, \* the value repeated (0: None) and the incidents of its lease
    kaTask,    \* the keepalive task: "none", "sleep", "write"
    outages,   \* incidents of rest_communication
    stale,     \* the settings' poll failed or is stale
    newest,    \* history: the newest call on the limit, its value, and whether it is under way, done or failed
    calls,     \* history: calls made
    careful,   \* history: no threshold was written unread or beside another one
    late       \* history: writers that passed the arming check before it was last withdrawn

writeVars == <<setting, armed, write, keepalive, kaTask, outages, stale, newest, calls, careful, late>>

Writing(pc, id, val) == [pc |-> pc, id |-> id, val |-> val]
NoWrite == Writing("idle", "none", 0)
NoLease == [val |-> 0, outages |-> 0]

WritesInit ==
    /\ setting = [limit |-> 1, on |-> 3, off |-> 1]
    /\ armed = FALSE
    /\ write = [w \in Writers |-> NoWrite]
    /\ keepalive = NoLease /\ kaTask = "none"
    /\ outages = 0 /\ stale = FALSE
    /\ newest = [call |-> KeepaliveTask, val |-> 0, end |-> "done"]
    /\ calls = 0
    /\ careful = TRUE
    /\ late = {}

WriteGoes(w, r) == write' = [write EXCEPT ![w] = r]

\* Mutant: no setting is on the list of those that need arming.
NothingNeedsArming(id) == FALSE
requires_advanced_write_arm(id) == id = "limit"

\* A threshold is in someone else's hands.
Contended(w) == \E u \in Writers \ {w} : write[u].id \in Thresholds

\* The newest call on the limit has ended so.
EndsNewest(w, how) == newest' = IF newest.call = w THEN [newest EXCEPT !.end = how] ELSE newest

-----------------------------------------------------------------------------

\* A call of async_set_native_value as far as the first await: a keepalive is
\* cancelled before its replacement is even checked, at whatever it waits for.
\* Home Assistant passes no call to an entity that is unavailable.
SetNumber(w, id, v) ==
    /\ calls < MaxWriteCalls /\ calls' = calls + 1
    /\ ~stale
    /\ write[w] = NoWrite
    /\ LET locked == requires_advanced_write_arm(id) /\ ~armed
           mine == IF locked THEN NoWrite ELSE Writing("preread", id, v)
       IN  IF id = "limit"
           THEN /\ keepalive' = NoLease
                /\ kaTask' = "none"
                /\ \/ UNCHANGED setting
                   \/ write[KeepaliveTask].pc = "write"
                      /\ setting' = [setting EXCEPT !.limit = write[KeepaliveTask].val]
                /\ write' = [write EXCEPT ![w] = mine, ![KeepaliveTask] = NoWrite]
                /\ newest' = [call |-> w, val |-> v, end |-> IF locked THEN "failed" ELSE "open"]
                /\ late' = late \ {w, KeepaliveTask}
           ELSE /\ WriteGoes(w, mine)
                /\ UNCHANGED <<keepalive, kaTask, setting, newest, late>>
    /\ careful' = (careful /\ (id = "limit" \/ ~Contended(w)))
    /\ UNCHANGED <<armed, outages, stale>>

\* Mutant: equal thresholds are accepted.
EqualThresholdsPass(id, v, pre) == id \notin Thresholds \/ pre = 0 \/ IF id = "on" THEN v >= pre ELSE v <= pre
validate_cross_field_write_rules(id, v, pre) ==
    \/ id \notin Thresholds
    \/ pre = 0
    \/ IF id = "on" THEN v > pre ELSE v < pre

\* The values of now, of which nothing is known (0) when the read fails; the
\* new one is refused, or goes out in the same step.
PreRead(w) ==
    /\ write[w].pc = "preread"
    /\ LET id == write[w].id
       IN  \E pre \in {IF id \in Thresholds THEN setting[Partner(id)] ELSE 0}
                       \cup IF "preread" \in WriteFaults THEN {0} ELSE {} :
             /\ IF validate_cross_field_write_rules(id, write[w].val, pre)
                THEN WriteGoes(w, [write[w] EXCEPT !.pc = "write"])
                ELSE WriteGoes(w, NoWrite)
             /\ careful' = (careful /\ (id \in Thresholds => pre # 0))
    /\ UNCHANGED <<setting, armed, keepalive, kaTask, outages, stale, newest, calls, late>>

\* Mutant: a failed write does not end the lease.
KeepaliveGoesOn(ok) == kaTask' = "sleep" /\ UNCHANGED keepalive
\* How the keepalive goes on after async_write_data: at one failure the lease is lost.
KeepaliveAfter(ok) ==
    IF ok THEN kaTask' = "sleep" /\ UNCHANGED keepalive
          ELSE kaTask' = "none" /\ keepalive' = NoLease

\* async_write_data returns or raises.
WriteLeaves(w, ok) ==
    /\ WriteGoes(w, IF ok /\ w # KeepaliveTask THEN [write[w] EXCEPT !.pc = "refresh"] ELSE NoWrite)
    /\ IF w = KeepaliveTask THEN KeepaliveAfter(ok) /\ UNCHANGED newest
       ELSE UNCHANGED <<keepalive, kaTask>> /\ IF ok THEN UNCHANGED newest ELSE EndsNewest(w, "failed")
    /\ late' = late \ {w}

\* The inverter takes the value, or is deaf to it.
WriteOut(w) ==
    /\ write[w].pc = "write"
    /\ setting' \in {[setting EXCEPT ![write[w].id] = write[w].val]}
                    \cup IF "deaf" \in WriteFaults THEN {setting} ELSE {}
    /\ WriteGoes(w, [write[w] EXCEPT !.pc = "verify"])
    /\ UNCHANGED <<armed, keepalive, kaTask, outages, stale, newest, calls, careful, late>>

\* An answer that is refused or lost; a lost one was carried out.
WriteFails(w) ==
    /\ "write" \in WriteFaults
    /\ write[w].pc = "write"
    /\ setting' \in {setting, [setting EXCEPT ![write[w].id] = write[w].val]}
    /\ WriteLeaves(w, FALSE)
    /\ UNCHANGED <<armed, outages, stale, calls, careful>>

\* Mutant: the value read back is not compared.
AnsweredIsConfirmed(w, answered) == ~requires_advanced_write_arm(write[w].id) \/ answered
\* The read back: a difference, or its failure, is an error of a high-impact
\* write and is only logged for another.
Confirmed(w, answered) ==
    ~requires_advanced_write_arm(write[w].id) \/ (answered /\ setting[write[w].id] = write[w].val)

Verify(w, answered) ==
    /\ write[w].pc = "verify"
    /\ answered \/ "verify" \in WriteFaults
    /\ WriteLeaves(w, Confirmed(w, answered))
    /\ UNCHANGED <<setting, armed, outages, stale, calls, careful>>

\* async_request_refresh has returned: the keepalive is started, or takes the
\* value over, with a lease of the present incidents.
Refreshed(w) ==
    /\ write[w].pc = "refresh"
    /\ WriteGoes(w, NoWrite)
    /\ IF write[w].id = "limit"
       THEN /\ keepalive' = [val |-> write[w].val, outages |-> outages]
            /\ kaTask' = IF kaTask = "none" THEN "sleep" ELSE kaTask
            /\ EndsNewest(w, "done")
       ELSE UNCHANGED <<keepalive, kaTask, newest>>
    /\ UNCHANGED <<setting, armed, outages, stale, calls, careful, late>>

-----------------------------------------------------------------------------

\* The task wakes: the lease is over when the polling failed or an incident
\* has begun since; else async_write_data is called, which fails when locked.
KeepaliveWakes ==
    /\ kaTask = "sleep"
    /\ \/ /\ stale \/ outages # keepalive.outages
          /\ keepalive' = NoLease /\ kaTask' = "none"
          /\ UNCHANGED write
       \/ /\ ~(stale \/ outages # keepalive.outages)
          /\ IF requires_advanced_write_arm("limit") /\ ~armed
             THEN KeepaliveAfter(FALSE) /\ UNCHANGED write
             ELSE /\ WriteGoes(KeepaliveTask, Writing("preread", "limit", keepalive.val))
                  /\ kaTask' = "write"
                  /\ UNCHANGED keepalive
    /\ UNCHANGED <<setting, armed, outages, stale, newest, calls, careful, late>>

\* AdvancedWriteArmSwitch.
Arm ==
    /\ ~armed /\ armed' = TRUE
    /\ late' = {}
    /\ UNCHANGED <<setting, write, keepalive, kaTask, outages, stale, newest, calls, careful>>

\* It is turned off, or its 120 s are over.
Disarm ==
    /\ armed /\ armed' = FALSE
    /\ late' = {w \in Writers : write[w].id = "limit"}
    /\ UNCHANGED <<setting, write, keepalive, kaTask, outages, stale, newest, calls, careful>>

\* The settings' poll fails, which counts an incident, or recovers.
SettingsPolled(ok) ==
    /\ stale' = ~ok
    /\ outages' = IF ok \/ stale THEN outages ELSE outages + 1
    /\ outages' <= MaxOutages /\ stale' # stale
    /\ UNCHANGED <<setting, armed, write, keepalive, kaTask, newest, calls, careful, late>>

WriteStep(w) ==
    \/ PreRead(w) \/ WriteOut(w) \/ WriteFails(w) \/ Refreshed(w)
    \/ \E answered \in BOOLEAN : Verify(w, answered)

WritesNext ==
    \/ \E w \in WriteCalls : \/ \E v \in Levels : SetNumber(w, "limit", v)
                             \/ \E v \in 1 .. 3, id \in Thresholds : SetNumber(w, id, v)
    \/ \E w \in Writers : WriteStep(w)
    \/ KeepaliveWakes \/ Arm \/ Disarm
    \/ \E ok \in BOOLEAN : SettingsPolled(ok)

WritesSpec == WritesInit /\ [][WritesNext]_writeVars

-----------------------------------------------------------------------------

\* "Off threshold must be lower than On threshold": true of the inverter's
\* values as long as each write knew the other value and none ran beside it.
ThresholdsApart == careful => setting.off < setting.on

\* A high-impact write that reaches the inverter was begun while armed, also
\* when it is the keepalive's: once the arming is withdrawn only the writes
\* that were under way then can still change the limit.
LockedMeansLocked ==
    setting'.limit # setting.limit =>
     \/ armed
     \/ \E w \in late : write[w].id = "limit" /\ write[w].val = setting'.limit

\* The keepalive repeats only what the inverter had confirmed: when a call
\* hands its value to it, that value had been read back.
OnlyConfirmedRepeated ==
    \A w \in WriteCalls : write[w].pc = "verify" /\ write[w].id = "limit" /\ write'[w].pc = "refresh"
       => setting.limit = write[w].val

\* No write over REST, a call's or the keepalive's, does what it may not: the
\* thresholds stay apart, a high-impact value changes only when armed, and only
\* confirmed values are repeated (async_set_native_value, async_write_data).
RestWritesSafe == [][ThresholdsApart' /\ LockedMeansLocked /\ OnlyConfirmedRepeated]_writeVars

\* Once locked, or once the poll has failed, the cyclic command ends by itself.
KeepaliveEnds == (kaTask # "none" /\ ~armed) ~> (kaTask = "none" \/ armed)

\* "A failed replacement must not leave the old cyclic command alive."
FailedReplacementEnds == newest.end = "failed" => keepalive.val = 0

=============================================================================
