--------------------------- MODULE DataPathProofs ----------------------------
(* Proofs about the paths between the inverter and the entities, for any      *)
(* number of settings, selects, calls, polls and readings: what the REST      *)
(* coordinators show and write, and what is kept of the events and the days.  *)
EXTENDS MCDataPaths, FiniteSetTheorems, TLAPS

-----------------------------------------------------------------------------
(* ProcessPoll.                                                            *)

ProcessTypeOK ==
    /\ ask \in {"idle", "asked", "pause", "retry"}
    /\ last_result \in [Fields -> [val : {"none", "zero", "some"}, age : Nat]]
    /\ shown \in [Fields -> [val : {"none", "zero", "some"}, age : Nat]]
    /\ zeroDrops \in 0 .. 2 /\ zeros \in 0 .. 3

\* The zeros that are doubted are those answered since the charge that is kept.
DropsAreZeros == last_result["SoC"].val = "some" => zeros = zeroDrops

ProcessInv ==
    /\ ProcessTypeOK /\ DropsAreZeros
    /\ ask # "idle" => fresh_fields = {}
    /\ ShownWasRead /\ PersistentZeroShown

LEMMA ProcessInitially == ProcessInit => ProcessInv
<1> SUFFICES ASSUME ProcessInit PROVE ProcessInv
    OBVIOUS
<1>1. ProcessTypeOK /\ DropsAreZeros
    BY DEF ProcessInit, ProcessTypeOK, DropsAreZeros, None, Fields
<1>2. \A f \in Fields : ~SensorAvailable(f)
    BY DEF ProcessInit, SensorAvailable
<1> QED BY <1>1, <1>2 DEF ProcessInit, ProcessInv, ShownWasRead, PersistentZeroShown, Fields

LEMMA OlderKeeps ==
    ASSUME NEW r \in [val : {"none", "zero", "some"}, age : Nat]
    PROVE  Older(r) \in [val : {"none", "zero", "some"}, age : Nat] /\ Older(r).val = r.val
    BY DEF Older

LEMMA RefreshKeeps ==
    ASSUME ProcessInv, Refresh
    PROVE  ProcessInv'
<1>1. last_result' = [f \in Fields |-> Older(last_result[f])] /\ shown' = [f \in Fields |-> Older(shown[f])]
      /\ ask' = "asked" /\ fresh_fields' = {} /\ UNCHANGED <<zeroDrops, zeros>>
    BY DEF Refresh
<1>2. ProcessTypeOK'
    BY <1>1, OlderKeeps DEF ProcessInv, ProcessTypeOK
<1>3. last_result'["SoC"].val = last_result["SoC"].val
    BY <1>1, OlderKeeps DEF ProcessInv, ProcessTypeOK, Fields
<1> QED BY <1>1, <1>2, <1>3 DEF ProcessInv, DropsAreZeros, ShownWasRead, PersistentZeroShown

\* A poll that failed leaves no sensor available.
LEMMA FailedKeeps ==
    ASSUME ProcessInv, NEW busy \in BOOLEAN, Failed(busy) \/ RetryFailed \/ RetryAfterBusy
    PROVE  ProcessInv'
<1>1. /\ ask \in {"asked", "pause", "retry"} /\ ask' \in {"idle", "pause", "retry"}
      /\ UNCHANGED <<last_result, zeroDrops, zeros, fresh_fields>> /\ shown' \in {shown, last_result}
      /\ ask' = "idle" => commStale' = TRUE
    BY DEF Failed, RetryFailed, RetryAfterBusy, Fails
<1>2. fresh_fields' = {}
    BY <1>1 DEF ProcessInv
<1>3. ask' = "idle" => \A f \in Fields : ~SensorAvailable(f)'
    BY <1>1, <1>2 DEF SensorAvailable
<1> QED BY <1>1, <1>2, <1>3
        DEF ProcessInv, ProcessTypeOK, DropsAreZeros, ShownWasRead, PersistentZeroShown, Fields

LEMMA AnsweredKeeps ==
    ASSUME ProcessInv, NEW a \in Answers, Answered(a)
    PROVE  ProcessInv'
<1>0. /\ ask' = "idle" /\ shown' = ResultOf(a) /\ zeroDrops' = ZeroDropsAfter(a) /\ fresh_fields' = FreshIn(a)
      /\ last_result' = [f \in Fields |-> IF f \in FreshIn(a) THEN Read(a, f) ELSE last_result[f]]
      /\ commStale' = (Partial(a) \/ ~(FreshIn(a) # {} \/ ZeroHeld(a)))
      /\ zeros' = CASE a["SoC"] = "zero" -> Capped(zeros + 1, 3)
                    [] a["SoC"] = "some" -> 0
                    [] OTHER -> zeros
    BY DEF Answered
<1>1. \A f \in Fields : a[f] \in {"zero", "some", "bad", "gone"}
    BY DEF Answers
<1>2. ASSUME NEW f \in FreshIn(a) PROVE f \in Fields /\ a[f] \in {"zero", "some"} /\ Read(a, f) = [val |-> a[f], age |-> 0]
    BY DEF FreshIn, Parsed, Read
<1>3. zeroDrops' \in 0 .. 2 /\ zeros' \in 0 .. 3
    BY <1>0, <1>1 DEF ZeroDropsAfter, ZeroHeld, REST_SOC_MAX_CONSECUTIVE_ZERO_DROPS, Capped, ProcessInv, ProcessTypeOK, Fields
<1>4. last_result' \in [Fields -> [val : {"none", "zero", "some"}, age : Nat]]
    BY <1>0, <1>2 DEF ProcessInv, ProcessTypeOK
<1>5. shown' \in [Fields -> [val : {"none", "zero", "some"}, age : Nat]]
    BY <1>0, <1>2 DEF ResultOf, None, ProcessInv, ProcessTypeOK
<1>6. CASE a["SoC"] = "zero"
  <2>1. "SoC" \in FreshIn(a) <=> ~ZeroHeld(a)
      BY <1>6 DEF FreshIn, Parsed, Fields
  <2>2. CASE ZeroHeld(a)
    <3>1. zeroDrops' = zeroDrops + 1 /\ zeroDrops < 2 /\ last_result["SoC"].val = "some"
        BY <1>0, <2>2 DEF ZeroDropsAfter, ZeroHeld, REST_SOC_MAX_CONSECUTIVE_ZERO_DROPS
    <3>2. zeros = zeroDrops /\ zeros' = zeros + 1
        BY <1>0, <1>6, <3>1 DEF ProcessInv, ProcessTypeOK, DropsAreZeros, Capped
    <3>3. zeros' = zeroDrops' /\ zeroDrops' > 0 /\ zeros' <= 2 /\ shown'["SoC"] = last_result["SoC"]
        BY <1>0, <1>6, <2>1, <2>2, <3>1, <3>2 DEF ProcessInv, ProcessTypeOK, ResultOf, Fields
    <3>4. PersistentZeroShown' /\ DropsAreZeros'
        BY <3>3, <1>3 DEF PersistentZeroShown, DropsAreZeros, REST_SOC_MAX_CONSECUTIVE_ZERO_DROPS
    <3>5. ASSUME NEW f \in Fields, SensorAvailable(f)', f \notin fresh_fields' PROVE f = "SoC"
      <4>1. ~Partial(a)
          BY <1>0, <3>5 DEF SensorAvailable
      <4> QED BY <4>1, <1>0, <1>1, <3>5 DEF Partial, FreshIn, Parsed
    <3>6. ShownWasRead'
        BY <3>1, <3>3, <3>5 DEF ShownWasRead
    <3> QED BY <1>0, <1>3, <1>4, <1>5, <3>4, <3>6 DEF ProcessInv, ProcessTypeOK
  <2>3. CASE ~ZeroHeld(a)
    <3>1. last_result'["SoC"] = [val |-> "zero", age |-> 0] /\ shown'["SoC"] = [val |-> "zero", age |-> 0]
        BY <1>0, <1>6, <2>1, <2>3 DEF ResultOf, Read, Fields
    <3>2. ASSUME NEW f \in Fields, SensorAvailable(f)' PROVE f \in fresh_fields'
        BY <1>0, <1>1, <2>3, <3>2 DEF SensorAvailable, Partial, FreshIn, Parsed
    <3>3. PersistentZeroShown' /\ DropsAreZeros' /\ ShownWasRead'
        BY <3>1, <3>2 DEF PersistentZeroShown, DropsAreZeros, ShownWasRead
    <3> QED BY <1>0, <1>3, <1>4, <1>5, <3>3 DEF ProcessInv, ProcessTypeOK
  <2> QED BY <2>2, <2>3
<1>7. CASE a["SoC"] # "zero"
  <2>1. ~ZeroHeld(a) /\ zeros' = (IF a["SoC"] = "some" THEN 0 ELSE zeros)
        /\ zeroDrops' = IF a["SoC"] = "some" THEN 0 ELSE zeroDrops
      BY <1>0, <1>7 DEF ZeroHeld, ZeroDropsAfter
  <2>2. ASSUME NEW f \in Fields, SensorAvailable(f)' PROVE f \in fresh_fields'
      BY <1>0, <1>1, <2>1, <2>2 DEF SensorAvailable, Partial, FreshIn, Parsed
  <2>3. CASE a["SoC"] = "some"
      BY <1>0, <1>3, <1>4, <1>5, <2>1, <2>2, <2>3
         DEF PersistentZeroShown, DropsAreZeros, ShownWasRead, ProcessInv, ProcessTypeOK, REST_SOC_MAX_CONSECUTIVE_ZERO_DROPS
  <2>4. CASE a["SoC"] \in {"bad", "gone"}
    <3>1. "SoC" \notin FreshIn(a) /\ last_result'["SoC"] = last_result["SoC"]
        BY <1>0, <2>4 DEF FreshIn, Parsed, Fields
    <3>2. ~SensorAvailable("SoC")'
        BY <3>1, <2>2, <1>0 DEF Fields
    <3>3. PersistentZeroShown' /\ DropsAreZeros' /\ ShownWasRead'
        BY <2>1, <2>2, <2>4, <3>1, <3>2 DEF PersistentZeroShown, DropsAreZeros, ShownWasRead, ProcessInv
    <3> QED BY <1>0, <1>3, <1>4, <1>5, <3>3 DEF ProcessInv, ProcessTypeOK
  <2> QED BY <1>1, <1>7, <2>3, <2>4 DEF Fields
<1> QED BY <1>6, <1>7

LEMMA ProcessStep == ProcessInv /\ [ProcessNext]_processVars => ProcessInv'
<1> SUFFICES ASSUME ProcessInv, [ProcessNext]_processVars PROVE ProcessInv'
    OBVIOUS
<1>1. CASE ProcessNext
    BY <1>1, RefreshKeeps, FailedKeeps, AnsweredKeeps DEF ProcessNext
<1>2. CASE UNCHANGED processVars
    BY <1>2 DEF processVars, ProcessInv, ProcessTypeOK, DropsAreZeros, ShownWasRead, PersistentZeroShown, SensorAvailable
<1> QED BY <1>1, <1>2

-----------------------------------------------------------------------------
(* SettingsPoll.                                                           *)

\* No two presses write without having seen each other.
PressesSeen ==
    \A s, t \in DcStrings : s # t /\ press[s].pc = "write" /\ press[t].pc = "write" => press[s].blind /\ press[t].blind

\* A press that saw the inverter's value writes its own string only.
WritesItsOwn ==
    \A s \in DcStrings : press[s].pc = "write" /\ ~press[s].blind => press[s].val \ {s} = shadow \ {s}

Pressing == [pc : {"idle", "write"}, val : SUBSET (DcStrings \cup Unread), blind : BOOLEAN]

PressTypeOK ==
    /\ press \in [DcStrings -> Pressing]
    /\ setting_data \subseteq (DcStrings \cup Unread) /\ setting_got \subseteq (DcStrings \cup Unread)
    /\ setting_result \subseteq (DcStrings \cup Unread) /\ shadow \subseteq (DcStrings \cup Unread)

SettingInv == PressTypeOK /\ PressesSeen /\ WritesItsOwn /\ SettingShownWasRead

LEMMA SettingInitially == SettingsInit => SettingInv
<1> SUFFICES ASSUME SettingsInit PROVE SettingInv
    OBVIOUS
<1>1. PressTypeOK
    BY DEF SettingsInit, PressTypeOK, Pressing, NoPress, Unread
<1>2. PressesSeen /\ WritesItsOwn
    BY DEF SettingsInit, PressesSeen, WritesItsOwn, NoPress
<1>3. SettingShownWasRead
    BY DEF SettingsInit, SettingShownWasRead, switch_available, shadow_available
<1> QED BY <1>1, <1>2, <1>3 DEF SettingInv

LEMMA SettingPollKeeps ==
    ASSUME SettingInv, NEW kind_ \in {404, 500, 503}, SettingsStep \/ SettingsFailed(kind_)
    PROVE  SettingInv' /\ OtherStringsKept
<1>0. UNCHANGED <<shadow, press>>
    BY DEF SettingsStep, PollSettings, SettingsRead, SettingsAnswered, SettingsFailed
<1>1. PressTypeOK'
    BY <1>0 DEF SettingsStep, PollSettings, SettingsRead, SettingsAnswered, SettingsFailed, FailedData,
                SettingInv, PressTypeOK, Unread
<1>2. PressesSeen' /\ WritesItsOwn' /\ OtherStringsKept
    BY <1>0 DEF SettingInv, PressesSeen, WritesItsOwn, OtherStringsKept, NoPress
<1>3. SettingShownWasRead'
  <2>1. CASE SettingsAnswered
      BY <2>1, SettingConstants DEF SettingsAnswered, SettingShownWasRead, switch_available, shadow_available
  <2>2. CASE SettingsFailed(kind_)
    <3>1. setting_stale' = TRUE /\ setting_ok' = (kind_ # 500) /\ setting_age' = setting_age
        BY <2>2 DEF SettingsFailed, FailedData
    <3>2. CASE kind_ = 503 /\ setting_cache_usable
        BY <3>1, <3>2 DEF SettingShownWasRead, switch_available, setting_cache_usable
    <3>3. CASE kind_ = 500
        BY <3>1, <3>3 DEF SettingShownWasRead, switch_available, shadow_available
    <3>4. CASE kind_ # 500 /\ ~(kind_ = 503 /\ setting_cache_usable)
      <4>1. setting_data' = Unread
          BY <2>2, <3>4 DEF SettingsFailed, FailedData
      <4>2. ~switch_available' /\ ~shadow_available'
          BY <4>1 DEF switch_available, shadow_available, Unread
      <4> QED BY <4>2 DEF SettingShownWasRead
    <3> QED BY <3>2, <3>3, <3>4
  <2> QED BY <2>1, <2>2 DEF SettingsStep, PollSettings, SettingsRead, SettingShownWasRead
<1> QED BY <1>1, <1>2, <1>3 DEF SettingInv

LEMMA PressKeeps ==
    ASSUME SettingInv, NEW s \in DcStrings, NEW on \in BOOLEAN, Press(s, on)
    PROVE  SettingInv' /\ OtherStringsKept
<1> DEFINE blind == setting_data # shadow \/ \E u \in DcStrings : press[u].pc = "write"
<1>0. /\ shadow_available /\ UNCHANGED <<shadow, setting_result, setting_age, setting_data, setting_ok, setting_stale,
                                         setting_ask, setting_got>>
      /\ press[s] = NoPress
      /\ press' = [t \in DcStrings |-> IF t = s THEN [pc |-> "write", val |-> Masked(s, on), blind |-> blind]
                                       ELSE [press[t] EXCEPT !.blind = @ \/ press[t].pc = "write"]]
    BY DEF Press
<1>1. press'[s] = [pc |-> "write", val |-> Masked(s, on), blind |-> blind]
    BY <1>0
<1>2. ASSUME NEW t \in DcStrings, t # s
      PROVE  /\ press'[t].pc = press[t].pc /\ press'[t].val = press[t].val /\ press'[t] \in Pressing
             /\ press'[t].blind = (press[t].blind \/ press[t].pc = "write")
    BY <1>0, <1>2 DEF SettingInv, PressTypeOK, Pressing
<1>3. Masked(s, on) \subseteq (DcStrings \cup Unread) /\ Masked(s, on) \ {s} = setting_data \ {s}
    BY <1>0 DEF Masked, _get_shadow_mgmt_value, SettingInv, PressTypeOK
<1>4. PressTypeOK'
  <2>1. press'[s] \in Pressing
      BY <1>1, <1>3 DEF Pressing
  <2> QED BY <1>0, <1>2, <2>1 DEF SettingInv, PressTypeOK
<1>5. PressesSeen'
  <2>1. ASSUME NEW t \in DcStrings, t # s, press'[t].pc = "write" PROVE press'[s].blind /\ press'[t].blind
    <3>1. press[t].pc = "write" /\ press'[t].blind
        BY <1>2, <2>1
    <3>2. blind
        BY <3>1
    <3> HIDE DEF blind
    <3>3. press'[s].blind = blind
        BY <1>1
    <3> QED BY <3>1, <3>2, <3>3
  <2>2. \A t, u \in DcStrings : t # u /\ t # s /\ u # s /\ press'[t].pc = "write" /\ press'[u].pc = "write"
          => press'[t].blind /\ press'[u].blind
      BY <1>2
  <2> QED BY <2>1, <2>2 DEF PressesSeen
<1>6. WritesItsOwn'
    BY <1>0, <1>1, <1>2, <1>3 DEF WritesItsOwn, SettingInv
<1>7. SettingShownWasRead'
    BY <1>0 DEF SettingInv, SettingShownWasRead, switch_available, shadow_available
<1>8. OtherStringsKept
    BY <1>0 DEF OtherStringsKept
<1> QED BY <1>4, <1>5, <1>6, <1>7, <1>8 DEF SettingInv

LEMMA PressWrittenKeeps ==
    ASSUME SettingInv, NEW s \in DcStrings, NEW done \in BOOLEAN, PressWritten(s, done)
    PROVE  SettingInv' /\ OtherStringsKept
<1>0. /\ press[s].pc = "write" /\ press' = [press EXCEPT ![s] = NoPress] /\ shadow' \in {press[s].val, shadow}
      /\ UNCHANGED <<setting_result, setting_age, setting_data, setting_ok, setting_stale, setting_ask, setting_got>>
    BY DEF PressWritten
<1>1. press'[s] = NoPress /\ NoPress.pc = "idle" /\ NoPress \in Pressing
      /\ \A t \in DcStrings : t # s => press'[t] = press[t]
    BY <1>0 DEF SettingInv, PressTypeOK, NoPress, Pressing
<1>2. PressTypeOK'
    BY <1>0, <1>1 DEF SettingInv, PressTypeOK, Pressing
<1>3. PressesSeen'
    BY <1>1 DEF SettingInv, PressesSeen
<1>4. \A t \in DcStrings : t # s /\ press[t].pc = "write" => press[t].blind
    BY <1>0 DEF SettingInv, PressesSeen
<1>5. WritesItsOwn'
    BY <1>1, <1>4 DEF WritesItsOwn
<1>6. SettingShownWasRead'
    BY <1>0 DEF SettingInv, SettingShownWasRead, switch_available, shadow_available
<1>7. OtherStringsKept
    BY <1>0, <1>1 DEF OtherStringsKept, SettingInv, WritesItsOwn
<1> QED BY <1>2, <1>3, <1>5, <1>6, <1>7 DEF SettingInv

LEMMA SettingStep == SettingInv /\ [SettingsNext]_settingVars => SettingInv' /\ OtherStringsKept
<1> SUFFICES ASSUME SettingInv, [SettingsNext]_settingVars PROVE SettingInv' /\ OtherStringsKept
    OBVIOUS
<1>1. CASE SettingsNext
    BY <1>1, SettingPollKeeps, PressKeeps, PressWrittenKeeps DEF SettingsNext
<1>2. CASE UNCHANGED settingVars
  <2>1. SettingInv'
      BY <1>2 DEF settingVars, SettingInv, PressTypeOK, PressesSeen, WritesItsOwn, SettingShownWasRead,
                  switch_available, shadow_available
  <2>2. OtherStringsKept
      BY <1>2 DEF settingVars, OtherStringsKept
  <2> QED BY <2>1, <2>2
<1> QED BY <1>1, <1>2

-----------------------------------------------------------------------------
(* SelectPoll.                                                             *)

Names == Options \cup {"None"}

SelectTypeOK ==
    /\ flag \subseteq Options /\ disturbed \in BOOLEAN
    /\ select_data \in Names \cup {"unread"} /\ module_last_result \in Names \cup {"unread"}
    /\ sel \in [SelectCalls -> [pc : {"idle", "clear", "set", "rollback"}, option : Names, left : SUBSET Options,
                                previous : Names, was : SUBSET Options]]
    /\ \A c \in SelectCalls : /\ sel[c].pc = "idle" => sel[c] = NoSelect
                              /\ sel[c].pc = "set" => sel[c].option # "None"

\* The options of a call c that nothing disturbed: what was on is its previous
\* option, and what is on is what is left to clear of that.
CallTrue(c) ==
    /\ sel[c].was = {sel[c].previous} \ {"None"}
    /\ sel[c].pc = "clear" => flag = sel[c].was \cap sel[c].left
    /\ sel[c].pc = "set" => flag = {}
    /\ sel[c].pc = "rollback" => flag \subseteq sel[c].was

\* As long as nothing was disturbed there is one call, and it is true, or no
\* call and one option is on at most.
Undisturbed ==
    ~disturbed =>
        /\ \A c, d \in SelectCalls : sel[c] # NoSelect /\ sel[d] # NoSelect => c = d
        /\ \A c \in SelectCalls : sel[c] # NoSelect => CallTrue(c)
        /\ \E o \in Names : flag \subseteq {o}

SelectInv == SelectTypeOK /\ Undisturbed /\ NoGhostMode

LEMMA NoSelectIs ==
    /\ NoSelect.pc = "idle"
    /\ NoSelect \in [pc : {"idle", "clear", "set", "rollback"}, option : Names, left : SUBSET Options,
                     previous : Names, was : SUBSET Options]
    BY DEF NoSelect, Names

LEMMA SelectInitially == SelectInit => SelectInv
<1> SUFFICES ASSUME SelectInit PROVE SelectInv
    OBVIOUS
<1>1. SelectTypeOK
    BY NoSelectIs DEF SelectInit, SelectTypeOK
<1>2. Undisturbed
    BY DEF SelectInit, Undisturbed, Names
<1>3. NoGhostMode
    BY SelectConstants DEF SelectInit, NoGhostMode
<1> QED BY <1>1, <1>2, <1>3 DEF SelectInv

LEMMA SelectPolledKeeps ==
    ASSUME SelectInv, NEW how \in {"read", "busy", "404"}, SelectPolled(how)
    PROVE  SelectInv' /\ FailedSelectRestores
<1> DEFINE aged == IF select_age < MaxSelectAge THEN select_age + 1 ELSE select_age
<1>0. UNCHANGED <<flag, sel, selects, disturbed>>
    BY DEF SelectPolled
<1>1. CASE how = "read"
  <2>1. select_data' \in CurrentOption(flag) /\ module_last_result' = select_data' /\ select_fresh' = TRUE
      BY <1>1 DEF SelectPolled
  <2>2. select_data' \in Names
      BY <2>1 DEF CurrentOption, SelectInv, SelectTypeOK, Names
  <2> QED BY <1>0, <2>1, <2>2 DEF SelectInv, SelectTypeOK, Undisturbed, CallTrue, NoGhostMode, FailedSelectRestores, NoSelect
<1>2. CASE how = "busy" /\ _module_stale_cache_usable(aged)
  <2>1. select_data' = module_last_result /\ select_age' = aged /\ module_last_result' = module_last_result
      BY <1>2 DEF SelectPolled
  <2>2. aged < MaxSelectAge
      BY <1>2 DEF _module_stale_cache_usable
  <2> HIDE DEF aged
  <2> QED BY <1>0, <2>1, <2>2 DEF SelectInv, SelectTypeOK, Undisturbed, CallTrue, NoGhostMode, FailedSelectRestores, NoSelect
<1>3. CASE how # "read" /\ ~(how = "busy" /\ _module_stale_cache_usable(aged))
  <2>1. select_data' = "None" /\ module_last_result' = module_last_result
      BY <1>3 DEF SelectPolled
  <2> QED BY <1>0, <2>1, SelectConstants
          DEF SelectInv, SelectTypeOK, Undisturbed, CallTrue, NoGhostMode, FailedSelectRestores, NoSelect, Names
<1> QED BY <1>1, <1>2, <1>3

\* A call goes on, the others stay.
LEMMA SelGoesOn ==
    ASSUME SelectInv, NEW c \in SelectCalls, NEW r, SelGoes(c, r)
    PROVE  sel'[c] = r /\ \A d \in SelectCalls : d # c => sel'[d] = sel[d]
    BY DEF SelGoes, SelectInv, SelectTypeOK

LEMMA SelectOptionKeeps ==
    ASSUME SelectInv, NEW c \in SelectCalls, NEW option \in Names, SelectOption(c, option)
    PROVE  SelectInv' /\ FailedSelectRestores
<1> DEFINE r == [pc |-> "clear", option |-> option, left |-> Options, previous |-> select_data, was |-> flag]
<1>0. /\ sel[c] = NoSelect /\ select_data # "unread" /\ SelGoes(c, r)
      /\ UNCHANGED <<flag, module_last_result, select_age, select_data, select_fresh>>
      /\ disturbed' = (disturbed \/ (\E d \in SelectCalls : sel[d] # NoSelect)
                         \/ flag \ {select_data} # {} \/ (select_data # "None" /\ flag = {}))
    BY DEF SelectOption
<1>1. sel'[c] = r /\ \A d \in SelectCalls : d # c => sel'[d] = sel[d]
    BY <1>0, SelGoesOn
<1>2. r \in [pc : {"idle", "clear", "set", "rollback"}, option : Names, left : SUBSET Options,
             previous : Names, was : SUBSET Options] /\ r.pc = "clear"
    BY <1>0 DEF SelectInv, SelectTypeOK
<1>3. SelectTypeOK'
    BY <1>0, <1>1, <1>2 DEF SelectInv, SelectTypeOK, SelGoes
<1>4. Undisturbed'
  <2> SUFFICES ASSUME ~disturbed' PROVE Undisturbed'
      BY DEF Undisturbed
  <2>1. ~disturbed /\ (\A d \in SelectCalls : sel[d] = NoSelect) /\ flag \subseteq {select_data}
        /\ (select_data # "None" => flag # {})
      BY <1>0 DEF SelectInv, SelectTypeOK
  <2>2. flag = {select_data} \ {"None"}
      BY <2>1, SelectConstants DEF SelectInv, SelectTypeOK
  <2>3. CallTrue(c)'
      BY <1>0, <1>1, <2>2 DEF CallTrue, SelectInv, SelectTypeOK
  <2> QED BY <1>0, <1>1, <2>1, <2>3 DEF Undisturbed, SelectInv
<1>5. NoGhostMode' /\ FailedSelectRestores
    BY <1>0, <1>1, NoSelectIs DEF SelectInv, NoGhostMode, FailedSelectRestores, SelectTypeOK
<1> QED BY <1>3, <1>4, <1>5 DEF SelectInv

\* What a step of a call that is on must do to keep the invariant.
LEMMA CallGoesOn ==
    ASSUME SelectInv, NEW c \in SelectCalls, sel[c] # NoSelect,
           NEW r \in [pc : {"idle", "clear", "set", "rollback"}, option : Names, left : SUBSET Options,
                      previous : Names, was : SUBSET Options],
           r.pc = "idle" => r = NoSelect, r.pc = "set" => r.option # "None",
           SelGoes(c, r), UNCHANGED <<module_last_result, select_age, select_data, select_fresh>>,
           flag' \subseteq Options, disturbed' \in BOOLEAN, disturbed => disturbed',
           ~disturbed' => /\ \E o \in Names : flag' \subseteq {o}
                          /\ r # NoSelect => CallTrue(c)',
           ~disturbed' /\ sel[c].pc = "rollback" /\ r = NoSelect => flag' = sel[c].was
    PROVE  SelectInv' /\ FailedSelectRestores
<1>1. sel'[c] = r /\ \A d \in SelectCalls : d # c => sel'[d] = sel[d]
    BY SelGoesOn
<1>2. SelectTypeOK'
    BY <1>1 DEF SelectInv, SelectTypeOK, SelGoes
<1>3. Undisturbed'
  <2> SUFFICES ASSUME ~disturbed' PROVE Undisturbed'
      BY DEF Undisturbed
  <2>1. \A d \in SelectCalls : d # c => sel[d] = NoSelect
      BY DEF SelectInv, Undisturbed
  <2> QED BY <1>1, <2>1 DEF Undisturbed
<1>4. NoGhostMode'
    BY DEF SelectInv, NoGhostMode
<1>5. FailedSelectRestores
  <2> SUFFICES ASSUME NEW d \in SelectCalls, ~disturbed', sel[d].pc = "rollback", sel'[d] = NoSelect
               PROVE  flag' = sel[d].was
      BY DEF FailedSelectRestores
  <2>1. d = c
      BY <1>1, NoSelectIs
  <2> QED BY <1>1, <2>1
<1> QED BY <1>2, <1>3, <1>4, <1>5 DEF SelectInv

SelectRecord(r) ==
    r \in [pc : {"idle", "clear", "set", "rollback"}, option : Names, left : SUBSET Options,
           previous : Names, was : SUBSET Options]

LEMMA OptionClearedKeeps ==
    ASSUME SelectInv, NEW c \in SelectCalls, NEW o \in Options, OptionCleared(c, o)
    PROVE  SelectInv' /\ FailedSelectRestores
<1> DEFINE others == sel[c].left \ {o}
           r == IF others # {} THEN [sel[c] EXCEPT !.left = others]
                ELSE IF sel[c].option = "None" THEN NoSelect
                ELSE [sel[c] EXCEPT !.left = others, !.pc = "set"]
<1>0. /\ sel[c].pc = "clear" /\ flag' = flag \ {o} /\ SelGoes(c, r)
      /\ UNCHANGED <<module_last_result, select_age, select_data, select_fresh, disturbed>>
    BY DEF OptionCleared
<1>1. SelectRecord(sel[c]) /\ sel[c] # NoSelect
    BY <1>0, NoSelectIs DEF SelectInv, SelectTypeOK, SelectRecord
<1>2. SelectRecord(r) /\ (r.pc = "idle" => r = NoSelect) /\ (r.pc = "set" => r.option # "None")
  <2>1. CASE others # {}
      BY <1>0, <1>1, <2>1 DEF SelectRecord
  <2>2. CASE others = {} /\ sel[c].option = "None"
      BY <2>2, NoSelectIs DEF SelectRecord
  <2>3. CASE others = {} /\ sel[c].option # "None"
      BY <1>1, <2>3 DEF SelectRecord
  <2> QED BY <2>1, <2>2, <2>3
<1>3. sel'[c] = r
    BY <1>0, SelGoesOn
<1>4. ASSUME ~disturbed', r # NoSelect PROVE CallTrue(c)'
  <2>1. flag = sel[c].was \cap sel[c].left /\ sel[c].was = {sel[c].previous} \ {"None"}
      BY <1>0, <1>1, <1>4 DEF SelectInv, Undisturbed, CallTrue
  <2>2. flag' = sel[c].was \cap others
      BY <1>0, <2>1
  <2>3. CASE others # {}
      BY <1>0, <1>1, <1>3, <2>1, <2>2, <2>3 DEF CallTrue, SelectRecord
  <2>4. CASE others = {}
    <3>1. r = [sel[c] EXCEPT !.left = others, !.pc = "set"]
        BY <1>4, <2>4
    <3> QED BY <1>1, <1>3, <2>1, <2>2, <2>4, <3>1 DEF CallTrue, SelectRecord
  <2> QED BY <2>3, <2>4
<1>5. ~disturbed' => \E x \in Names : flag' \subseteq {x}
    BY <1>0 DEF SelectInv, Undisturbed
<1>6. flag' \subseteq Options /\ disturbed' \in BOOLEAN /\ (disturbed => disturbed')
    BY <1>0 DEF SelectInv, SelectTypeOK
<1> HIDE DEF r
<1> QED BY <1>0, <1>1, <1>2, <1>4, <1>5, <1>6, CallGoesOn DEF SelectRecord

LEMMA OptionSetKeeps ==
    ASSUME SelectInv, NEW c \in SelectCalls, OptionSet(c)
    PROVE  SelectInv' /\ FailedSelectRestores
<1>0. /\ sel[c].pc = "set" /\ flag' = flag \cup {sel[c].option} /\ SelGoes(c, NoSelect)
      /\ UNCHANGED <<module_last_result, select_age, select_data, select_fresh, disturbed>>
    BY DEF OptionSet
<1>1. sel[c] # NoSelect /\ sel[c].option \in Options
    BY <1>0, NoSelectIs DEF SelectInv, SelectTypeOK, Names
<1>2. ~disturbed' => flag = {}
    BY <1>0, <1>1 DEF SelectInv, Undisturbed, CallTrue
<1>3. flag' \subseteq Options /\ disturbed' \in BOOLEAN /\ (disturbed => disturbed')
    BY <1>0, <1>1 DEF SelectInv, SelectTypeOK
<1>4. ~disturbed' => \E x \in Names : flag' \subseteq {x}
    BY <1>0, <1>1, <1>2 DEF Names
<1> QED BY <1>0, <1>1, <1>3, <1>4, NoSelectIs, CallGoesOn

LEMMA SelectWriteFailsKeeps ==
    ASSUME SelectInv, NEW c \in SelectCalls, NEW lost \in BOOLEAN, SelectWriteFails(c, lost)
    PROVE  SelectInv' /\ FailedSelectRestores
<1> DEFINE r == IF sel[c].previous = "None" THEN NoSelect ELSE [sel[c] EXCEPT !.pc = "rollback"]
<1>0. /\ sel[c].pc \in {"clear", "set"} /\ SelGoes(c, r) /\ disturbed' = (disturbed \/ lost)
      /\ UNCHANGED <<module_last_result, select_age, select_data, select_fresh>>
    BY DEF SelectWriteFails
<1>1. SelectRecord(sel[c]) /\ sel[c] # NoSelect /\ (sel[c].pc = "set" => sel[c].option \in Options)
    BY <1>0, NoSelectIs DEF SelectInv, SelectTypeOK, SelectRecord, Names
<1>2. SelectRecord(r) /\ r.pc \in {"idle", "rollback"} /\ (r.pc = "idle" => r = NoSelect)
    BY <1>1, NoSelectIs DEF SelectRecord
<1>3. sel'[c] = r
    BY <1>0, SelGoesOn
<1>4. flag' \subseteq Options /\ disturbed' \in BOOLEAN /\ (disturbed => disturbed')
    BY <1>0, <1>1 DEF SelectWriteFails, SelectInv, SelectTypeOK
<1>5. ~disturbed' => flag' = flag /\ ~disturbed
    BY <1>0 DEF SelectWriteFails, SelectInv, SelectTypeOK
<1>6. ASSUME ~disturbed', r # NoSelect PROVE CallTrue(c)'
  <2>1. CallTrue(c) /\ flag' = flag
      BY <1>1, <1>5, <1>6 DEF SelectInv, Undisturbed
  <2>2. flag \subseteq sel[c].was
      BY <1>0, <2>1 DEF CallTrue
  <2>3. r = [sel[c] EXCEPT !.pc = "rollback"]
      BY <1>6
  <2> QED BY <1>1, <1>3, <2>1, <2>2, <2>3 DEF CallTrue, SelectRecord
<1>7. ~disturbed' => \E x \in Names : flag' \subseteq {x}
    BY <1>5 DEF SelectInv, Undisturbed
<1> HIDE DEF r
<1> QED BY <1>0, <1>1, <1>2, <1>4, <1>6, <1>7, CallGoesOn DEF SelectRecord

LEMMA RolledBackKeeps ==
    ASSUME SelectInv, NEW c \in SelectCalls, NEW ok \in BOOLEAN, RolledBack(c, ok)
    PROVE  SelectInv' /\ FailedSelectRestores
<1>0. /\ sel[c].pc = "rollback" /\ SelGoes(c, NoSelect) /\ disturbed' = (disturbed \/ ~ok)
      /\ flag' = IF ok THEN flag \cup ({sel[c].previous} \ {"None"}) ELSE flag
      /\ UNCHANGED <<module_last_result, select_age, select_data, select_fresh>>
    BY DEF RolledBack, RollbackTo
<1>1. SelectRecord(sel[c]) /\ sel[c] # NoSelect
    BY <1>0, NoSelectIs DEF SelectInv, SelectTypeOK, SelectRecord
<1>2. flag' \subseteq Options /\ disturbed' \in BOOLEAN /\ (disturbed => disturbed')
    BY <1>0, <1>1 DEF SelectInv, SelectTypeOK, SelectRecord, Names
<1>3. ASSUME ~disturbed' PROVE flag' = sel[c].was /\ sel[c].was \subseteq {sel[c].previous}
  <2>1. ~disturbed /\ ok
      BY <1>0, <1>3 DEF SelectInv, SelectTypeOK
  <2>2. CallTrue(c)
      BY <1>1, <2>1 DEF SelectInv, Undisturbed
  <2> QED BY <1>0, <2>1, <2>2 DEF CallTrue
<1>4. ~disturbed' => \E x \in Names : flag' \subseteq {x}
    BY <1>1, <1>3 DEF SelectRecord
<1> QED BY <1>0, <1>1, <1>2, <1>3, <1>4, NoSelectIs, CallGoesOn

LEMMA SelectStep == SelectInv /\ [SelectNext]_selectVars => SelectInv' /\ FailedSelectRestores
<1> SUFFICES ASSUME SelectInv, [SelectNext]_selectVars PROVE SelectInv' /\ FailedSelectRestores
    OBVIOUS
<1>1. CASE SelectNext
    BY <1>1, SelectPolledKeeps, SelectOptionKeeps, OptionClearedKeeps, OptionSetKeeps, SelectWriteFailsKeeps,
       RolledBackKeeps DEF SelectNext, Names
<1>2. CASE UNCHANGED selectVars
  <2>1. SelectInv'
      BY <1>2 DEF selectVars, SelectInv, SelectTypeOK, Undisturbed, CallTrue, NoGhostMode
  <2>2. FailedSelectRestores
      BY <1>2, NoSelectIs DEF selectVars, FailedSelectRestores
  <2> QED BY <2>1, <2>2
<1> QED BY <1>1, <1>2

LEMMA OneIsOn == SelectInv => OneOptionOn
<1> SUFFICES ASSUME SelectInv, ~disturbed PROVE Cardinality(flag) <= 1
    BY DEF OneOptionOn
<1>1. PICK o \in Names : flag \subseteq {o}
    BY DEF SelectInv, Undisturbed
<1>2. flag = {} \/ flag = {o}
    BY <1>1
<1>3. Cardinality({}) = 0 /\ Cardinality({o}) = 1
    BY FS_EmptySet, FS_Singleton
<1> QED BY <1>2, <1>3

-----------------------------------------------------------------------------
(* The parts together.                                                     *)

LEMMA PartsStep ==
    ASSUME [Next]_vars
    PROVE  [ProcessNext]_processVars /\ [SettingsNext]_settingVars /\ [SelectNext]_selectVars
<1>1. CASE Next
  <2>1. [ProcessNext]_processVars
      BY <1>1 DEF Next, OthersStay
  <2>2. [SettingsNext]_settingVars
      BY <1>1 DEF Next, OthersStay
  <2>3. [SelectNext]_selectVars
      BY <1>1 DEF Next, OthersStay
  <2> QED BY <2>1, <2>2, <2>3
<1>2. CASE UNCHANGED vars
    BY <1>2 DEF vars
<1> QED BY <1>1, <1>2

PollsInv == ProcessInv /\ SettingInv /\ SelectInv

LEMMA PollsInitially == Init => PollsInv
    BY ProcessInitially, SettingInitially, SelectInitially DEF Init, PollsInv

LEMMA PollsStep == PollsInv /\ [Next]_vars => PollsInv' /\ OtherStringsKept /\ FailedSelectRestores
    BY PartsStep, ProcessStep, SettingStep, SelectStep DEF PollsInv

\* coordinator.py: whatever the polls of process data, settings and selects fill
\* in, keep or hold back, and whichever of them fail, what an entity shows as live
\* was read by the last poll or is within the age its reader accepts.
THEOREM WhatIsShownIsLive == Spec => []ShownIsLive
<1>1. PollsInv => ShownIsLive
    BY DEF PollsInv, ProcessInv, SettingInv, SelectInv, ShownIsLive
<1> QED BY <1>1, PollsInitially, PollsStep, PTL DEF Spec

\* select.py and switch.py: for any number of modes, strings and calls, of two
\* modes one is on, a change of the mode that fails is taken back, and a bit of
\* the shadow management that is written keeps the bits of the other strings.
THEOREM PartWritesKeepTheRest == Spec => PartWritesKeepRest
<1>1. PollsInv => OneOptionOn
    BY OneIsOn DEF PollsInv
<1>2. PollsInv /\ [Next]_vars => PollsInv'
    BY PollsStep
<1>3. PollsInv /\ OneOptionOn' /\ [Next]_vars => [OneOptionOn' /\ FailedSelectRestores /\ OtherStringsKept]_vars
    BY PollsStep
<1> QED BY <1>1, <1>2, <1>3, PollsInitially, PTL DEF Spec, PartWritesKeepRest

-----------------------------------------------------------------------------
(* EventHistory: an event is recorded once. *)

Records == [sig : Signatures, at : Nat]

\* What is kept of the events at a time: records are no later than now and no
\* earlier than the next one; a signature that is kept has the time of its last
\* record, and one that was forgotten has none within the cooldown.
BookTypeOK(h, ts) ==
    h \in Seq(Records) /\ Len(h) <= EventHistoryMax /\ ts \in [Signatures -> Nat]
NewestFirst(h, now) ==
    /\ \A i \in 1 .. Len(h) : h[i].at <= now
    /\ \A i, j \in 1 .. Len(h) : i < j /\ h[i].sig = h[j].sig => h[i].at - h[j].at >= Cooldown
TimesTrue(h, ts, now) ==
    \A s \in Signatures :
        /\ ts[s] <= now
        /\ ts[s] # Never => \A i \in 1 .. Len(h) : h[i].sig = s => h[i].at <= ts[s]
        /\ ts[s] = Never => \A i \in 1 .. Len(h) : h[i].sig = s => now - h[i].at >= Cooldown
        /\ ts[s] # Never /\ Len(h) > 0 => h[1].at <= ts[s] + ForgetAfter
BookTrue(h, ts, now) == BookTypeOK(h, ts) /\ NewestFirst(h, now) /\ TimesTrue(h, ts, now)

Snapshots == [made : Nat, size : Nat]

EventsInv ==
    /\ clock \in Nat \ {0} /\ snapshot \in Snapshots /\ event_data \in Snapshots
    /\ BookTrue(event_history, last_signature_ts, clock)
    /\ SnapshotYoung

LEMMA EventsInitially == EventsInit => EventsInv
    BY EventConstants DEF EventsInit, EventsInv, BookTrue, BookTypeOK, NewestFirst, TimesTrue, Never, Snapshots,
       NoSnapshot, SnapshotYoung, Records

LEMMA RecordFields ==
    ASSUME NEW h \in Seq(Records), NEW i \in 1 .. Len(h)
    PROVE  h[i].sig \in Signatures /\ h[i].at \in Nat
<1>1. h[i] \in Records
    OBVIOUS
<1> QED BY <1>1 DEF Records

\* What was true of the records stays true as time goes by.
LEMMA BookStays ==
    ASSUME NEW h, NEW ts, NEW now \in Nat, BookTrue(h, ts, now)
    PROVE  BookTrue(h, ts, now + 1)
<1>0. h \in Seq(Records) /\ ts \in [Signatures -> Nat]
    BY DEF BookTrue, BookTypeOK
<1>1. \A i \in 1 .. Len(h) : h[i].at \in Nat
    BY <1>0, RecordFields
<1> QED BY <1>0, <1>1, EventConstants DEF BookTrue, BookTypeOK, NewestFirst, TimesTrue

\* The history after an append: the new record, then the old ones.
LEMMA BoundedIs ==
    ASSUME NEW h \in Seq(Records), NEW r \in Records
    PROVE  /\ Bounded(<<r>> \o h) \in Seq(Records)
           /\ Len(Bounded(<<r>> \o h)) <= EventHistoryMax
           /\ Len(Bounded(<<r>> \o h)) <= Len(h) + 1
           /\ \A i \in 1 .. Len(Bounded(<<r>> \o h)) :
                 Bounded(<<r>> \o h)[i] = IF i = 1 THEN r ELSE h[i - 1]
<1> DEFINE g == <<r>> \o h
           n == IF Len(g) < EventHistoryMax THEN Len(g) ELSE EventHistoryMax
<1>1. g \in Seq(Records) /\ Len(g) = Len(h) + 1 /\ \A i \in 1 .. Len(g) : g[i] = IF i = 1 THEN r ELSE h[i - 1]
    OBVIOUS
<1>2. n \in Nat /\ n <= Len(g) /\ n <= EventHistoryMax
    BY <1>1, EventConstants
<1> HIDE DEF g
<1>3. SubSeq(g, 1, n) \in Seq(Records) /\ Len(SubSeq(g, 1, n)) = n /\ \A i \in 1 .. n : SubSeq(g, 1, n)[i] = g[i]
    BY <1>1, <1>2
<1>4. Bounded(g) = SubSeq(g, 1, n)
    BY DEF Bounded
<1>5. /\ Bounded(g) \in Seq(Records) /\ Len(Bounded(g)) <= EventHistoryMax /\ Len(Bounded(g)) <= Len(h) + 1
      /\ \A i \in 1 .. Len(Bounded(g)) : Bounded(g)[i] = IF i = 1 THEN r ELSE h[i - 1]
    BY <1>1, <1>2, <1>3, <1>4
<1> QED BY <1>5 DEF g

LEMMA AppendKeeps ==
    ASSUME NEW b, NEW s \in Signatures, NEW now \in Nat \ {0}, BookTrue(b.h, b.ts, now)
    PROVE  BookTrue(AppendIfNew(b, s, now).h, AppendIfNew(b, s, now).ts, now)
<1>1. CASE ~IsNew(b.ts, now, s)
    BY <1>1 DEF AppendIfNew
<1>2. CASE IsNew(b.ts, now, s)
  <2> DEFINE r == [sig |-> s, at |-> now]
             h == b.h
             ts == b.ts
             nh == Bounded(<<r>> \o h)
             nt == Pruned([ts EXCEPT ![s] = now], now)
  <2>0. AppendIfNew(b, s, now).h = nh /\ AppendIfNew(b, s, now).ts = nt
      BY <1>2 DEF AppendIfNew
  <2>1. h \in Seq(Records) /\ ts \in [Signatures -> Nat] /\ r \in Records
      BY DEF BookTrue, BookTypeOK, Records
  <2>2. \A i \in 1 .. Len(h) : h[i].sig \in Signatures /\ h[i].at \in Nat /\ h[i].at <= now
      BY <2>1, RecordFields DEF BookTrue, NewestFirst
  <2>3. /\ nh \in Seq(Records) /\ Len(nh) <= EventHistoryMax /\ Len(nh) <= Len(h) + 1
        /\ \A i \in 1 .. Len(nh) : nh[i] = IF i = 1 THEN r ELSE h[i - 1]
      BY <2>1, BoundedIs
  <2>4. /\ nt \in [Signatures -> Nat] /\ nt[s] = now
        /\ \A t \in Signatures \ {s} :
              nt[t] = IF ts[t] # Never /\ ts[t] + ForgetAfter < now THEN Never ELSE ts[t]
      BY <2>1, EventConstants DEF Pruned, Never
  <2>5. \A i \in 1 .. Len(h) : h[i].sig = s => now - h[i].at >= Cooldown
    <3> SUFFICES ASSUME NEW i \in 1 .. Len(h), h[i].sig = s PROVE now - h[i].at >= Cooldown
        OBVIOUS
    <3>1. CASE ts[s] = Never
        BY <3>1 DEF BookTrue, TimesTrue
    <3>2. CASE ts[s] # Never
      <4>1. h[i].at <= ts[s] /\ now - ts[s] >= Cooldown
          BY <3>2, <1>2 DEF BookTrue, TimesTrue, IsNew
      <4> QED BY <4>1, <2>1, <2>2, EventConstants
    <3> QED BY <3>1, <3>2
  <2> HIDE DEF nh, nt, h, ts
  <2>6. BookTypeOK(nh, nt)
      BY <2>3, <2>4 DEF BookTypeOK
  <2>7. NewestFirst(nh, now)
    <3>1. \A i \in 1 .. Len(nh) : nh[i].at <= now
        BY <2>2, <2>3, <2>1
    <3>2. ASSUME NEW i \in 1 .. Len(nh), NEW j \in 1 .. Len(nh), i < j, nh[i].sig = nh[j].sig
          PROVE  nh[i].at - nh[j].at >= Cooldown
      <4>1. nh[j] = h[j - 1] /\ j - 1 \in 1 .. Len(h)
          BY <3>2, <2>3, <2>1
      <4>2. CASE i = 1
          BY <4>1, <4>2, <3>2, <2>3, <2>5
      <4>3. CASE i # 1
        <5>1. nh[i] = h[i - 1] /\ i - 1 \in 1 .. Len(h) /\ i - 1 < j - 1
            BY <4>3, <3>2, <2>3, <2>1
        <5>2. \A k, l \in 1 .. Len(h) : k < l /\ h[k].sig = h[l].sig => h[k].at - h[l].at >= Cooldown
            BY DEF BookTrue, NewestFirst, h
        <5> QED BY <5>1, <5>2, <4>1, <3>2
      <4> QED BY <4>2, <4>3
    <3> QED BY <3>1, <3>2 DEF NewestFirst
  <2>8. TimesTrue(nh, nt, now)
    <3> SUFFICES ASSUME NEW t \in Signatures
                 PROVE  /\ nt[t] <= now
                        /\ nt[t] # Never => \A i \in 1 .. Len(nh) : nh[i].sig = t => nh[i].at <= nt[t]
                        /\ nt[t] = Never => \A i \in 1 .. Len(nh) : nh[i].sig = t => now - nh[i].at >= Cooldown
                        /\ nt[t] # Never /\ Len(nh) > 0 => nh[1].at <= nt[t] + ForgetAfter
        BY DEF TimesTrue
    <3>1. Len(nh) \in Nat /\ (Len(nh) > 0 => nh[1].at = now)
        BY <2>3
    <3>2. CASE t = s
      <4>1. nt[t] = now /\ now # Never
          BY <3>2, <2>4 DEF Never
      <4>2. \A i \in 1 .. Len(nh) : nh[i].at <= now
          BY <2>7 DEF NewestFirst
      <4> QED BY <3>1, <4>1, <4>2, EventConstants
    <3>3. CASE t # s
      <4>1. /\ ts[t] \in Nat /\ ts[t] <= now
            /\ ts[t] # Never => \A i \in 1 .. Len(h) : h[i].sig = t => h[i].at <= ts[t]
            /\ ts[t] = Never => \A i \in 1 .. Len(h) : h[i].sig = t => now - h[i].at >= Cooldown
          BY <2>1 DEF BookTrue, TimesTrue, h, ts
      <4>2. \A i \in 1 .. Len(nh) : nh[i].sig = t => nh[i] = h[i - 1] /\ i - 1 \in 1 .. Len(h)
          BY <3>3, <2>1, <2>3
      <4>3. CASE ts[t] # Never /\ ts[t] + ForgetAfter < now
        <5>1. nt[t] = Never
            BY <4>3, <3>3, <2>4
        <5>2. ASSUME NEW i \in 1 .. Len(nh), nh[i].sig = t PROVE now - nh[i].at >= Cooldown
          <6>1. nh[i] = h[i - 1] /\ i - 1 \in 1 .. Len(h)
              BY <4>2, <5>2
          <6>2. h[i - 1].at <= ts[t] /\ h[i - 1].at \in Nat
              BY <6>1, <5>2, <4>1, <4>3, <2>2
          <6> QED BY <6>1, <6>2, <4>1, <4>3, EventConstants
        <5> QED BY <5>1, <5>2 DEF Never
      <4>4. CASE ts[t] = Never
          BY <4>1, <4>2, <4>4, <3>3, <2>2, <2>4, EventConstants DEF Never
      <4>5. CASE ts[t] # Never /\ ~(ts[t] + ForgetAfter < now)
        <5>1. nt[t] = ts[t]
            BY <4>5, <3>3, <2>4
        <5>2. nh[1].at <= nt[t] + ForgetAfter \/ Len(nh) = 0
            BY <5>1, <4>1, <4>5, <3>1, EventConstants
        <5> QED BY <5>1, <5>2, <4>1, <4>2, <4>5, <3>1
      <4> QED BY <4>3, <4>4, <4>5
    <3> QED BY <3>2, <3>3
  <2> QED BY <2>0, <2>6, <2>7, <2>8 DEF BookTrue
<1> QED BY <1>1, <1>2

\* What is recorded of an answer of no, one or two events.
LEMMA RecordedIs ==
    ASSUME NEW events \in Answer, NEW now
    PROVE  LET b == [h |-> event_history, ts |-> last_signature_ts]
           IN  \/ Recorded(events, now) = b
               \/ \E s \in Signatures : Recorded(events, now) = AppendIfNew(b, s, now)
               \/ \E s, t \in Signatures : Recorded(events, now) = AppendIfNew(AppendIfNew(b, s, now), t, now)
<1> DEFINE b == [h |-> event_history, ts |-> last_signature_ts]
           Step(f) == [i \in 0 .. Len(events) |-> IF i = 0 THEN b ELSE AppendIfNew(f[i - 1], events[i], now)]
           f0 == CHOOSE f : f = Step(f)
<1>1. Recorded(events, now) = f0[Len(events)]
    BY DEF Recorded
<1>2. CASE events = <<>>
  <2>1. Len(events) = 0
      BY <1>2
  <2>2. [i \in 0 .. 0 |-> b] = Step([i \in 0 .. 0 |-> b])
      BY <2>1
  <2>3. f0 = Step(f0)
      BY <2>2
  <2>4. f0[0] = b
      BY <2>1, <2>3
  <2> QED BY <1>1, <2>1, <2>4
<1>3. ASSUME NEW s \in Signatures, events = <<s>>
      PROVE  Recorded(events, now) = AppendIfNew(b, s, now)
  <2> DEFINE g == [i \in 0 .. 1 |-> IF i = 0 THEN b ELSE AppendIfNew(b, s, now)]
  <2>1. Len(events) = 1 /\ events[1] = s
      BY <1>3
  <2>2. g = Step(g)
      BY <2>1
  <2>3. f0 = Step(f0)
      BY <2>2
  <2> HIDE DEF f0, b
  <2>4. \A i \in 0 .. 1 : f0[i] = IF i = 0 THEN b ELSE AppendIfNew(f0[i - 1], events[i], now)
      BY <2>1, <2>3
  <2>5. f0[0] = b /\ f0[1] = AppendIfNew(f0[0], s, now)
      BY <2>1, <2>4
  <2> QED BY <1>1, <2>1, <2>5
<1>4. ASSUME NEW s \in Signatures, NEW t \in Signatures, events = <<s, t>>
      PROVE  Recorded(events, now) = AppendIfNew(AppendIfNew(b, s, now), t, now)
  <2> DEFINE a == AppendIfNew(b, s, now)
             g == [i \in 0 .. 2 |-> IF i = 0 THEN b ELSE IF i = 1 THEN a ELSE AppendIfNew(a, t, now)]
  <2>1. Len(events) = 2 /\ events[1] = s /\ events[2] = t
      BY <1>4
  <2>2. g = Step(g)
      BY <2>1
  <2>3. f0 = Step(f0)
      BY <2>2
  <2> HIDE DEF f0, b
  <2>4. \A i \in 0 .. 2 : f0[i] = IF i = 0 THEN b ELSE AppendIfNew(f0[i - 1], events[i], now)
      BY <2>1, <2>3
  <2>5. f0[0] = b /\ f0[1] = AppendIfNew(f0[0], s, now) /\ f0[2] = AppendIfNew(f0[1], t, now)
      BY <2>1, <2>4
  <2> QED BY <1>1, <2>1, <2>5
<1> QED BY <1>2, <1>3, <1>4 DEF Answer

LEMMA EventsAnsweredKeeps ==
    ASSUME EventsInv, NEW events \in Answer, EventsAnswered(events)
    PROVE  EventsInv'
<1> DEFINE b == [h |-> event_history, ts |-> last_signature_ts]
           r == Recorded(events, clock')
<1>1. clock' = clock + 1 /\ clock' \in Nat \ {0} /\ clock \in Nat
    BY DEF EventsInv, EventsAnswered
<1>2. BookTrue(b.h, b.ts, clock')
    BY <1>1, BookStays DEF EventsInv
<1>3. BookTrue(r.h, r.ts, clock')
  <2> HIDE DEF b
  <2>1. CASE r = b
      BY <1>2, <2>1
  <2>2. ASSUME NEW s \in Signatures, r = AppendIfNew(b, s, clock') PROVE BookTrue(r.h, r.ts, clock')
      BY <1>1, <1>2, <2>2, AppendKeeps
  <2>3. ASSUME NEW s \in Signatures, NEW t \in Signatures, r = AppendIfNew(AppendIfNew(b, s, clock'), t, clock')
        PROVE  BookTrue(r.h, r.ts, clock')
    <3> DEFINE a == AppendIfNew(b, s, clock')
    <3>1. BookTrue(a.h, a.ts, clock')
        BY <1>1, <1>2, AppendKeeps
    <3> HIDE DEF a
    <3>2. BookTrue(AppendIfNew(a, t, clock').h, AppendIfNew(a, t, clock').ts, clock')
        BY <1>1, <3>1, AppendKeeps
    <3> QED BY <2>3, <3>2 DEF a
  <2> QED BY <2>1, <2>2, <2>3, RecordedIs DEF b
<1> HIDE DEF r
<1>4. event_history' = r.h /\ last_signature_ts' = r.ts /\ snapshot' = [made |-> clock', size |-> Len(r.h)]
      /\ event_data' = snapshot'
    BY DEF EventsAnswered, r
<1>5. Len(r.h) \in Nat
    BY <1>3 DEF BookTrue, BookTypeOK
<1>6. snapshot' \in Snapshots /\ event_data' \in Snapshots /\ SnapshotYoung'
    BY <1>1, <1>4, <1>5, EventConstants DEF Snapshots, SnapshotYoung
<1> QED BY <1>1, <1>3, <1>4, <1>6 DEF EventsInv

LEMMA EventsFailedKeeps ==
    ASSUME EventsInv, EventsFailed
    PROVE  EventsInv'
<1>1. clock' = clock + 1 /\ clock' \in Nat \ {0} /\ clock \in Nat
    BY DEF EventsInv, EventsFailed
<1>2. BookTrue(event_history, last_signature_ts, clock')
    BY <1>1, BookStays DEF EventsInv
<1>3. snapshot' \in Snapshots /\ event_data' \in Snapshots /\ SnapshotYoung'
    BY <1>1 DEF EventsInv, EventsFailed, Snapshots, SnapshotYoung, snapshot_usable, NoSnapshot
<1> QED BY <1>1, <1>2, <1>3 DEF EventsInv, EventsFailed

LEMMA EventsInvOnce == EventsInv => EventsOnce
<1> SUFFICES ASSUME EventsInv PROVE EventsOnce
    OBVIOUS
<1>1. NoRepetition /\ SnapshotYoung
    BY DEF EventsInv, BookTrue, BookTypeOK, NewestFirst, NoRepetition
<1>2. SignaturesForgotten
  <2> SUFFICES ASSUME NEW s \in Signatures
               PROVE  /\ (\E i \in 1 .. Len(event_history) :
                            event_history[i].sig = s /\ clock - event_history[i].at < Cooldown)
                           => last_signature_ts[s] # Never
                      /\ (last_signature_ts[s] # Never /\ Len(event_history) > 0)
                           => event_history[1].at <= last_signature_ts[s] + ForgetAfter
      BY DEF SignaturesForgotten
  <2>1. event_history \in Seq(Records) /\ clock \in Nat
      BY DEF EventsInv, BookTrue, BookTypeOK
  <2>2. \A i \in 1 .. Len(event_history) : event_history[i].at \in Nat
      BY <2>1, RecordFields
  <2> QED BY <2>1, <2>2, EventConstants DEF EventsInv, BookTrue, TimesTrue
<1> QED BY <1>1, <1>2 DEF EventsOnce

\* EventDataUpdateCoordinator: for any cooldown, length of the history and any
\* answers of the inverter, an event is recorded once per cooldown, a signature
\* that _append_history_if_new forgets has no record within it, and a snapshot
\* is shown only while it is young enough.
THEOREM EventsAreRecordedOnce == EventsSpec => []EventsOnce
<1>1. EventsInit => EventsInv
    BY EventsInitially
<1>2. EventsInv /\ [EventsNext]_eventVars => EventsInv'
  <2> SUFFICES ASSUME EventsInv, [EventsNext]_eventVars PROVE EventsInv'
      OBVIOUS
  <2>1. CASE UNCHANGED eventVars
      BY <2>1 DEF eventVars, EventsInv, SnapshotYoung
  <2>2. CASE EventsFailed
      BY <2>2, EventsFailedKeeps
  <2>3. ASSUME NEW events \in Answer, EventsAnswered(events) PROVE EventsInv'
      BY <2>3, EventsAnsweredKeeps
  <2> QED BY <2>1, <2>2, <2>3 DEF EventsNext
<1>3. EventsInv => EventsOnce
    BY EventsInvOnce
<1> QED BY <1>1, <1>2, <1>3, PTL DEF EventsSpec

-----------------------------------------------------------------------------
(* Degradation: the record of days. *)

DaySummaries == [day : Nat, sum : Int, count : Nat]

\* A record of days d before an open day c: in order, and none without an open
\* day, which is not later than today.
Ordered(d) == \A i, j \in 1 .. Len(d) : i < j => d[i].day < d[j].day
DayRecord(d, c) ==
    /\ d \in Seq(DaySummaries) /\ c \in Seq(DaySummaries)
    /\ Ordered(d)
    /\ Len(c) <= 1 /\ (Len(c) = 0 => Len(d) = 0)
    /\ Len(c) = 1 => c[1].day <= today /\ \A i \in 1 .. Len(d) : d[i].day < c[1].day

DegradationInv ==
    /\ today \in Nat
    /\ DayRecord(snapshots, open_day)
    /\ DayRecord(restoreState.snapshots, restoreState.current)

LEMMA DegradationInitially == DegradationInit => DegradationInv
    BY DEF DegradationInit, DegradationInv, DayRecord, Ordered

LEMMA DayFields ==
    ASSUME NEW d \in Seq(DaySummaries)
    PROVE  \A i \in 1 .. Len(d) : d[i] \in DaySummaries /\ d[i].day \in Nat
<1>1. \A i \in 1 .. Len(d) : d[i] \in DaySummaries
    OBVIOUS
<1> QED BY <1>1 DEF DaySummaries

LEMMA MeasureAdds ==
    ASSUME NEW o \in DaySummaries, NEW v \in Int
    PROVE  LET m == [o EXCEPT !.sum = @ + v, !.count = @ + 1] IN m \in DaySummaries /\ m.day = o.day
<1>1. o.sum + v \in Int /\ o.count + 1 \in Nat /\ o.day \in Nat
    BY DEF DaySummaries
<1>2. ASSUME NEW x \in Int, NEW k \in Nat
      PROVE  [o EXCEPT !.sum = x, !.count = k] \in DaySummaries /\ [o EXCEPT !.sum = x, !.count = k].day = o.day
  <2>1. [o EXCEPT !.sum = x] \in DaySummaries /\ [o EXCEPT !.sum = x].day = o.day
      BY DEF DaySummaries
  <2>2. \A m \in DaySummaries : [m EXCEPT !.count = k] \in DaySummaries /\ [m EXCEPT !.count = k].day = m.day
      BY DEF DaySummaries
  <2> QED BY <2>1, <2>2
<1> QED BY <1>1, <1>2

LEMMA ConcatenationIs ==
    ASSUME NEW S, NEW p \in Seq(S), NEW q \in Seq(S)
    PROVE  /\ Len(p \o q) = Len(p) + Len(q) /\ DOMAIN (p \o q) = 1 .. Len(p \o q) /\ Len(p \o q) \in Nat
           /\ \A i \in 1 .. Len(p \o q) : (p \o q)[i] = IF i <= Len(p) THEN p[i] ELSE q[i - Len(p)]
<1>1. p \o q \in Seq(S) /\ Len(p \o q) = Len(p) + Len(q)
    OBVIOUS
<1>2. \A i \in 1 .. Len(p) + Len(q) : (p \o q)[i] = IF i <= Len(p) THEN p[i] ELSE q[i - Len(p)]
    OBVIOUS
<1> QED BY <1>1, <1>2

\* The last days of a record are in order when its days are.
LEMMA LastOfIs ==
    ASSUME NEW S, NEW d \in Seq(S), NEW n \in Nat
    PROVE  /\ LastOf(d, n) \in Seq(S) /\ Len(LastOf(d, n)) <= Len(d)
           /\ \A i \in 1 .. Len(LastOf(d, n)) :
                 LastOf(d, n)[i] = d[i + (Len(d) - Len(LastOf(d, n)))]
<1>1. CASE Len(d) > n
  <2>1. Len(SubSeq(d, Len(d) - n + 1, Len(d))) = n /\ SubSeq(d, Len(d) - n + 1, Len(d)) \in Seq(S)
      BY <1>1
  <2>2. \A i \in 1 .. n : SubSeq(d, Len(d) - n + 1, Len(d))[i] = d[i + (Len(d) - n)]
      BY <1>1
  <2> QED BY <1>1, <2>1, <2>2 DEF LastOf
<1>2. CASE ~(Len(d) > n)
    BY <1>2 DEF LastOf
<1> QED BY <1>1, <1>2

LEMMA recordKeeps ==
    ASSUME DegradationInv, NEW v \in DailyValues, record(v)
    PROVE  DegradationInv'
<1>1. /\ today' = today /\ restoreState' = restoreState /\ today \in Nat
      /\ snapshots \in Seq(DaySummaries) /\ open_day \in Seq(DaySummaries) /\ Len(open_day) <= 1 /\ Ordered(snapshots)
      /\ v \in Int
    BY DegradationConstants DEF record, DegradationInv, DayRecord
<1>3. Len(open_day) \in {0, 1}
  <2>1. Len(open_day) \in Nat /\ Len(open_day) <= 1
      BY <1>1
  <2> QED BY <2>1
<1>4. Len(open_day) = 1 => open_day[1] \in DaySummaries /\ open_day[1].day \in Nat
  <2>1. Len(open_day) = 1 => 1 \in 1 .. Len(open_day)
      OBVIOUS
  <2>2. \A i \in 1 .. Len(open_day) : open_day[i] \in DaySummaries /\ open_day[i].day \in Nat
      BY <1>1, DayFields
  <2> QED BY <2>1, <2>2
<1>2. DayRecord(snapshots', open_day')
  <2>1. CASE OpensDay
    <3> DEFINE d == snapshots \o open_day
               l == LastOf(d, MAX_DAILY_SNAPSHOTS)
               c == <<[day |-> today, sum |-> v, count |-> 1]>>
    <3>1. snapshots' = l /\ open_day' = c
        BY <2>1 DEF record
    <3>2. c \in Seq(DaySummaries) /\ Len(c) = 1 /\ c[1].day = today
        BY <1>1 DEF DaySummaries
    <3>3. /\ d \in Seq(DaySummaries) /\ Len(d) = Len(snapshots) + Len(open_day)
          /\ \A i \in 1 .. Len(d) : d[i] = IF i <= Len(snapshots) THEN snapshots[i] ELSE open_day[i - Len(snapshots)]
        BY <1>1
    <3>4. Ordered(d) /\ \A i \in 1 .. Len(d) : d[i].day < today
      <4>1. CASE Len(open_day) = 0
        <5>1. Len(d) = 0
            BY <4>1, <3>3 DEF DegradationInv, DayRecord
        <5> QED BY <5>1 DEF Ordered
      <4>2. CASE Len(open_day) = 1
        <5>1. /\ open_day[1].day <= today /\ open_day[1].day # today /\ open_day[1].day \in Nat
              /\ \A i \in 1 .. Len(snapshots) : snapshots[i].day < open_day[1].day /\ snapshots[i].day \in Nat
          <6>1. open_day[1].day \in Nat /\ \A i \in 1 .. Len(snapshots) : snapshots[i].day \in Nat
              BY <4>2, <1>1, <1>4, DayFields
          <6>2. open_day[1].day # today
            <7>1. open_day # <<>>
                BY <4>2
            <7> QED BY <7>1, <2>1 DEF OpensDay
          <6> QED BY <4>2, <6>1, <6>2 DEF DegradationInv, DayRecord
        <5>2. Len(d) = Len(snapshots) + 1 /\ d[Len(d)] = open_day[1]
              /\ \A i \in 1 .. Len(snapshots) : d[i] = snapshots[i]
            BY <4>2, <3>3, <1>1
        <5> HIDE DEF d
        <5>3. \A i \in 1 .. Len(d) : i \in 1 .. Len(snapshots) \/ i = Len(d)
            BY <5>2, <1>1
        <5>4. \A i \in 1 .. Len(d) : d[i].day < today
            BY <5>1, <5>2, <5>3, <1>1
        <5>5. \A i, j \in 1 .. Len(d) : i < j => d[i].day < d[j].day
            BY <5>1, <5>2, <5>3, <1>1 DEF Ordered
        <5> QED BY <5>4, <5>5 DEF Ordered
      <4> QED BY <4>1, <4>2, <1>3
    <3> HIDE DEF d
    <3>5. /\ l \in Seq(DaySummaries) /\ Len(l) <= Len(d)
          /\ \A i \in 1 .. Len(l) : l[i] = d[i + (Len(d) - Len(l))]
        BY <3>3, LastOfIs, DegradationConstants
    <3> HIDE DEF l, c
    <3>6. \A i \in 1 .. Len(l) : i + (Len(d) - Len(l)) \in 1 .. Len(d)
        BY <3>3, <3>5
    <3>7. \A i \in 1 .. Len(l) : l[i].day < today
        BY <3>4, <3>5, <3>6
    <3>8. ASSUME NEW i \in 1 .. Len(l), NEW j \in 1 .. Len(l), i < j PROVE l[i].day < l[j].day
      <4>1. i + (Len(d) - Len(l)) < j + (Len(d) - Len(l))
          BY <3>3, <3>5, <3>8
      <4> QED BY <4>1, <3>4, <3>5, <3>6 DEF Ordered
    <3>9. Ordered(l)
        BY <3>8 DEF Ordered
    <3> QED BY <3>1, <3>2, <3>5, <3>7, <3>9, <1>1 DEF DayRecord
  <2>2. CASE ~OpensDay
    <3>1. snapshots' = snapshots /\ open_day' = <<[open_day[1] EXCEPT !.sum = @ + v, !.count = @ + 1]>>
          /\ Len(open_day) = 1
        BY <2>2, <1>1 DEF record, OpensDay
    <3>2. open_day[1] \in DaySummaries
        BY <3>1, <1>4
    <3>3. [open_day[1] EXCEPT !.sum = @ + v, !.count = @ + 1] \in DaySummaries
          /\ [open_day[1] EXCEPT !.sum = @ + v, !.count = @ + 1].day = open_day[1].day
      <4> DEFINE o == open_day[1]
      <4>1. o \in DaySummaries /\ v \in Int
          BY <3>2, <1>1
      <4> HIDE DEF o
      <4>2. [o EXCEPT !.sum = @ + v, !.count = @ + 1] \in DaySummaries
            /\ [o EXCEPT !.sum = @ + v, !.count = @ + 1].day = o.day
          BY <4>1, MeasureAdds
      <4> QED BY <4>2 DEF o
    <3>4. open_day' \in Seq(DaySummaries) /\ Len(open_day') = 1 /\ open_day'[1].day = open_day[1].day
      <4> DEFINE o == [open_day[1] EXCEPT !.sum = @ + v, !.count = @ + 1]
      <4>1. open_day' = <<o>> /\ o \in DaySummaries /\ o.day = open_day[1].day
          BY <3>1, <3>3
      <4> HIDE DEF o
      <4>2. <<o>> \in Seq(DaySummaries) /\ Len(<<o>>) = 1 /\ <<o>>[1] = o
          BY <4>1
      <4> QED BY <4>1, <4>2
    <3> QED BY <3>1, <3>4, <1>1 DEF DegradationInv, DayRecord
  <2> QED BY <2>1, <2>2
<1> QED BY <1>1, <1>2 DEF DegradationInv, DayRecord

LEMMA DegradationStep ==
    ASSUME DegradationInv, [DegradationNext]_degradationVars
    PROVE  DegradationInv'
<1>1. ASSUME NEW v \in DailyValues, record(v) PROVE DegradationInv'
    BY <1>1, recordKeeps
<1>2. CASE DayPasses
  <2>1. \A d, c : DayRecord(d, c) => DayRecord(d, c)'
    <3> SUFFICES ASSUME NEW d, NEW c, DayRecord(d, c), today' = today + 1, today \in Nat
                 PROVE  Len(c) = 1 => c[1].day <= today + 1
        BY <1>2 DEF DayPasses, DegradationInv, DayRecord
    <3>1. c \in Seq(DaySummaries) /\ (Len(c) = 1 => c[1].day <= today)
        BY DEF DayRecord
    <3>2. Len(c) = 1 => c[1].day \in Nat
        BY <3>1, DayFields
    <3> QED BY <3>1, <3>2
  <2> QED BY <1>2, <2>1 DEF DayPasses, DegradationInv
<1>3. CASE extra_restore_state_data
    BY <1>3 DEF extra_restore_state_data, DegradationInv, DayRecord
<1>4. ASSUME NEW dumped \in BOOLEAN, RestartTracker(dumped) PROVE DegradationInv'
  <2>1. today' = today /\ snapshots' = <<>> /\ open_day' = <<>>
        /\ (restoreState' = restoreState
              \/ (restoreState'.snapshots = snapshots /\ restoreState'.current = open_day))
      BY <1>4 DEF RestartTracker
  <2>2. DayRecord(<<>>, <<>>)
      BY DEF DayRecord, Ordered
  <2> QED BY <2>1, <2>2 DEF DegradationInv, DayRecord
<1>5. CASE async_added_to_hass
    BY <1>5 DEF async_added_to_hass, Restored, DegradationInv, DayRecord
<1>6. CASE UNCHANGED degradationVars
    BY <1>6 DEF degradationVars, DegradationInv, DayRecord
<1> QED BY <1>1, <1>2, <1>3, <1>4, <1>5, <1>6 DEF DegradationNext

LEMMA DegradationInOrder == DegradationInv => DaysInOrder
<1> SUFFICES ASSUME DegradationInv PROVE DaysInOrder
    OBVIOUS
<1> DEFINE a == [i \in DOMAIN snapshots |-> snapshots[i].day]
           b == [i \in DOMAIN open_day |-> open_day[i].day]
<1>1. snapshots \in Seq(DaySummaries) /\ open_day \in Seq(DaySummaries) /\ Len(open_day) <= 1 /\ Ordered(snapshots)
      /\ (Len(open_day) = 1 => \A i \in 1 .. Len(snapshots) : snapshots[i].day < open_day[1].day)
    BY DEF DegradationInv, DayRecord
<1>d. \A i \in 1 .. Len(snapshots) : snapshots[i].day \in Nat
    BY <1>1, DayFields
<1>e. \A i \in 1 .. Len(open_day) : open_day[i].day \in Nat
    BY <1>1, DayFields
<1>2. a \in Seq(Nat) /\ Len(a) = Len(snapshots) /\ \A i \in 1 .. Len(a) : a[i] = snapshots[i].day
    BY <1>1, <1>d
<1>3. b \in Seq(Nat) /\ Len(b) = Len(open_day) /\ \A i \in 1 .. Len(b) : b[i] = open_day[i].day
    BY <1>1, <1>e
<1>f. Len(open_day) \in {0, 1}
  <2>1. Len(open_day) \in Nat /\ Len(open_day) <= 1
      BY <1>1
  <2> QED BY <2>1
<1> HIDE DEF a, b
<1>4. Len(a \o b) = Len(a) + Len(b) /\ DOMAIN (a \o b) = 1 .. Len(a \o b) /\ Len(a \o b) \in Nat
      /\ \A i \in 1 .. Len(a \o b) : (a \o b)[i] = IF i <= Len(a) THEN a[i] ELSE b[i - Len(a)]
    BY <1>2, <1>3, ConcatenationIs
<1>5. \A i, j \in 1 .. Len(a \o b) : i < j => (a \o b)[i] < (a \o b)[j]
  <2> SUFFICES ASSUME NEW i \in 1 .. Len(a \o b), NEW j \in 1 .. Len(a \o b), i < j
               PROVE  (a \o b)[i] < (a \o b)[j]
      OBVIOUS
  <2>1. CASE j <= Len(a)
    <3>1. i \in 1 .. Len(a) /\ j \in 1 .. Len(a)
        BY <2>1, <1>2, <1>4
    <3>2. (a \o b)[i] = snapshots[i].day /\ (a \o b)[j] = snapshots[j].day
        BY <3>1, <1>2, <1>4
    <3> QED BY <3>1, <3>2, <1>1, <1>2 DEF Ordered
  <2>2. CASE j > Len(a)
    <3>1. j = Len(a) + 1 /\ i \in 1 .. Len(a) /\ Len(b) = 1
      <4>1. Len(a) \in Nat /\ Len(b) \in {0, 1} /\ Len(a \o b) = Len(a) + Len(b)
          BY <1>f, <1>2, <1>3, <1>4
      <4>2. i \in 1 .. Len(a) + Len(b) /\ j \in 1 .. Len(a) + Len(b)
          BY <4>1
      <4>3. Len(b) = 1
          BY <4>1, <4>2, <2>2
      <4>4. j = Len(a) + 1
          BY <4>1, <4>2, <4>3, <2>2
      <4> QED BY <4>1, <4>2, <4>3, <4>4
    <3>2. (a \o b)[j] = open_day[1].day /\ (a \o b)[i] = snapshots[i].day
        BY <3>1, <1>2, <1>3, <1>4
    <3> QED BY <3>1, <3>2, <1>1, <1>2, <1>3
  <2> QED BY <2>1, <2>2, <1>2
<1> QED BY <1>4, <1>5 DEF DaysInOrder, Days, a, b

\* degradation_tracker.py and restore_from_dict: the record of a parameter has
\* every day once and in order, whatever is measured between the start and the
\* restoring of the entity, and whatever reloads and crashes it goes through.
THEOREM DaysStayInOrder == DegradationSpec => []DaysInOrder
<1>1. DegradationInit => DegradationInv
    BY DegradationInitially
<1>2. DegradationInv /\ [DegradationNext]_degradationVars => DegradationInv'
    BY DegradationStep
<1>3. DegradationInv => DaysInOrder
    BY DegradationInOrder
<1> QED BY <1>1, <1>2, <1>3, PTL DEF DegradationSpec

=============================================================================
