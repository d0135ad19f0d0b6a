----------------------------- MODULE SettingsPoll ----------------------------
(* The poll of settings (SettingDataUpdateCoordinator) and the switches that  *)
(* live on it (switch.py).  One setting stands for all: the one that holds    *)
(* shadow management of every DC string, a bit each, here a set of strings.   *)
(* Ages count polls.                                                          *)
EXTENDS Naturals

CONSTANTS
    DcStrings,        \* strings with a shadow management switch
    MaxSettingAge,    \* polls after which STALE_DATA_MAX_AGE_SECONDS is over
    MaxPresses        \* bound on presses

ASSUME SettingConstants == MaxSettingAge \in Nat \ {0}

VARIABLES
    shadow,        \* on the inverter
    setting_result,\* _last_result: the strings, or Unread
    setting_age,   \* age of _last_success_ts
    setting_data,  \* coordinator.data: the strings, or Unread
    setting_ok,    \* last_update_success
    setting_stale, \* communication_stale
    setting_ask,   \* the poll: "idle", "asked", "read"
    setting_got,   \* what the inverter answers
    press,         \* per switch: where its call is, what it writes, and history: was it computed blindly
    presses        \* history: presses made

settingVars == <<shadow, setting_result, setting_age, setting_data, setting_ok, setting_stale,
                 setting_ask, setting_got, press, presses>>

Unread == {"unread"}
NoPress == [pc |-> "idle", val |-> {}, blind |-> FALSE]

SettingsInit ==
    /\ shadow \in SUBSET DcStrings
    /\ setting_result = Unread /\ setting_age = MaxSettingAge
    /\ setting_data = Unread /\ setting_ok = TRUE /\ setting_stale = FALSE
    /\ setting_ask = "idle" /\ setting_got = Unread
    /\ press = [s \in DcStrings |-> NoPress]
    /\ presses = 0

\* Mutant: what was read once is served for ever.
KeptForEver == setting_result # Unread
setting_cache_usable == setting_result # Unread /\ setting_age < MaxSettingAge

\* PlenticoreDataSwitch.available; the shadow switch does not look at staleness.
switch_available == setting_ok /\ ~setting_stale /\ setting_data # Unread
shadow_available == setting_ok /\ setting_data # Unread

-----------------------------------------------------------------------------

PollSettings ==
    /\ setting_ask = "idle"
    /\ setting_ask' = "asked"
    /\ setting_age' = IF setting_age < MaxSettingAge THEN setting_age + 1 ELSE setting_age
    /\ UNCHANGED <<shadow, setting_result, setting_data, setting_ok, setting_stale, setting_got, press, presses>>

\* The inverter reads the setting; the answer is under way.
SettingsRead ==
    /\ setting_ask = "asked"
    /\ setting_ask' = "read"
    /\ setting_got' = shadow
    /\ UNCHANGED <<shadow, setting_result, setting_age, setting_data, setting_ok, setting_stale, press, presses>>

SettingsAnswered ==
    /\ setting_ask = "read"
    /\ setting_ask' = "idle"
    /\ setting_result' = setting_got /\ setting_age' = 0
    /\ setting_data' = setting_got /\ setting_ok' = TRUE /\ setting_stale' = FALSE
    /\ setting_got' = Unread
    /\ UNCHANGED <<shadow, press, presses>>

\* Mutant: last known values are shown as live.
FailedUnnoticed(kind) ==
    /\ setting_data' = IF kind = 503 /\ setting_cache_usable THEN setting_result ELSE Unread
    /\ setting_ok' = TRUE /\ setting_stale' = FALSE
\* 503: last known values while they are young enough, else none; 404: none;
\* anything else fails the update, which keeps the data it had.
FailedData(kind) ==
    /\ setting_data' = CASE kind = 503 /\ setting_cache_usable -> setting_result
                         [] kind = 500 -> setting_data
                         [] OTHER -> Unread
    /\ setting_ok' = (kind # 500)
    /\ setting_stale' = TRUE

SettingsFailed(kind) ==
    /\ setting_ask \in {"asked", "read"}
    /\ setting_ask' = "idle" /\ setting_got' = Unread
    /\ FailedData(kind)
    /\ UNCHANGED <<shadow, setting_result, setting_age, press, presses>>

-----------------------------------------------------------------------------

\* _get_shadow_mgmt_value: nothing known counts as all off.
_get_shadow_mgmt_value == IF shadow_available THEN setting_data ELSE {}

\* Mutant: the mask is written instead of merged.
MaskOnly(s, on) == IF on THEN {s} ELSE {}
Masked(s, on) == IF on THEN _get_shadow_mgmt_value \cup {s} ELSE _get_shadow_mgmt_value \ {s}

\* async_turn_on and async_turn_off up to the write.  Home Assistant passes no
\* call to an entity that is unavailable.
Press(s, on) ==
    /\ shadow_available
    /\ presses < MaxPresses /\ presses' = presses + 1
    /\ press[s] = NoPress
    /\ press' = [t \in DcStrings |->
         IF t = s
         THEN [pc |-> "write", val |-> Masked(s, on),
               blind |-> setting_data # shadow
                         \/ \E u \in DcStrings : press[u].pc = "write"]
         ELSE [press[t] EXCEPT !.blind = @ \/ press[t].pc = "write"]]
    /\ UNCHANGED <<shadow, setting_result, setting_age, setting_data, setting_ok, setting_stale,
                   setting_ask, setting_got>>

\* The value is written, and a refresh asked for; or the write fails, carried
\* out or not.
PressWritten(s, done) ==
    /\ press[s].pc = "write"
    /\ shadow' = IF done THEN press[s].val ELSE shadow
    /\ press' = [press EXCEPT ![s] = NoPress]
    /\ UNCHANGED <<setting_result, setting_age, setting_data, setting_ok, setting_stale,
                   setting_ask, setting_got, presses>>

SettingsStep == PollSettings \/ SettingsRead \/ SettingsAnswered

SettingsNext ==
    \/ SettingsStep
    \/ \E kind \in {404, 500, 503} : SettingsFailed(kind)
    \/ \E s \in DcStrings, b \in BOOLEAN : Press(s, b) \/ PressWritten(s, b)

-----------------------------------------------------------------------------

\* Right after a poll a switch that is available shows what this poll read,
\* and the shadow switches, which accept kept values, never one older than
\* STALE_DATA_MAX_AGE_SECONDS.
SettingShownWasRead ==
    setting_ask = "idle" =>
        /\ switch_available => setting_age = 0
        /\ shadow_available => setting_age < MaxSettingAge

\* A press that saw the inverter's value, and that no other press ran beside,
\* leaves the other strings alone.
OtherStringsKept ==
    \A s \in DcStrings : press[s].pc = "write" /\ press'[s] = NoPress /\ ~press[s].blind
       => shadow' \ {s} = shadow \ {s}

\* "The shadow management switch can be controlled for each DC string
\* separately": one press never changes another string.
EachStringSeparately ==
    [][\A s \in DcStrings : press[s].pc = "write" /\ press'[s] = NoPress
          => shadow' \ {s} = shadow \ {s}]_settingVars

=============================================================================
