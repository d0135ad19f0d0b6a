----------------------------- MODULE EntryProofs -----------------------------
(* Proofs about the life of a config entry, for any entries, hosts, dialogs,  *)
(* strings and bounds: it is whole or gone whatever fails in its set-up, its  *)
(* rollback and its unload; what a dialog stores is what was tested; and the  *)
(* platforms make the entities that the inverter has.                         *)
EXTENDS EntryLifecycle, ConfigFlow, EntityDiscovery, TLAPS

-----------------------------------------------------------------------------
(* EntryLifecycle: an entry is whole or gone. *)

Writers == {"soc", "proxy", "mqtt"}

\* What an entry can have running before its set-up is through.
Parts == {"session", "event", "modbus", "ksem", "soh"} \cup Writers

\* What a list of platforms or of clean-up steps names.
Steps == Parts \cup {"platforms", "number", "sensor", "binary_sensor"}

\* The elements of a list of clean-up steps.
Members(q) == {q[i] : i \in 1..Len(q)}

\* The places where a set-up, an unload or their ends can be.
Gone == {"not_loaded", "retry", "error", "login"}
SettingUp == {"event", "modbus", "ksem", "store"}
Places == Gone \cup SettingUp
              \cup {"platforms", "loaded", "rollback", "unload", "failed_unload"}

EntryTypeOK ==
    /\ at \in [Entries -> Places]
    /\ up \in [Entries -> SUBSET (Parts \cup {"listener"})]
    /\ stored \in [Entries -> BOOLEAN]
    /\ todo \in [Entries -> Seq(Steps)]
    /\ issues \in [Entries -> SUBSET {"auth_failed", "api_unreachable"}]

\* A list of clean-up steps names a step once, and the link after who writes on it.
CleanupList(q) ==
    /\ \A i, j \in 1..Len(q) : q[i] = q[j] => i = j
    /\ \A i, j \in 1..Len(q) : q[i] = "modbus" /\ q[j] \in Writers => j < i

\* While the platforms are still to be unloaded the session is the last step.
SessionLast(q) == "platforms" \in Members(q) => q[Len(q)] = "session"

\* What is true of an entry at each place of its life: what runs is on the
\* list of what is still to be stopped, or the session an entry keeps as long
\* as it has its store.
EntryOK(e) ==
    /\ at[e] \in Gone => up[e] = {} /\ ~stored[e]
    /\ at[e] \in SettingUp => up[e] \subseteq Parts /\ ~stored[e] /\ issues[e] = {}
    /\ at[e] = "platforms" => up[e] \subseteq Parts /\ stored[e] /\ issues[e] = {}
    /\ at[e] = "loaded" => stored[e] /\ services /\ issues[e] = {}
    /\ at[e] = "rollback" =>
          /\ CleanupList(todo[e]) /\ ~stored[e]
          /\ up[e] \subseteq Members(todo[e]) \ {"listener"}
    /\ at[e] = "unload" =>
          /\ CleanupList(todo[e]) /\ SessionLast(todo[e])
          /\ "session" \in Members(todo[e]) => stored[e]
          /\ up[e] \subseteq Members(todo[e]) \cup {"listener"}
                                 \cup (IF stored[e] THEN {"session"} ELSE {})
    /\ at[e] = "failed_unload" => up[e] \subseteq {"session", "listener"} /\ stored[e]
    /\ up[e] \cap Writers # {} => "modbus" \in up[e]

EntryInv == EntryTypeOK /\ \A e \in Entries : EntryOK(e)

-----------------------------------------------------------------------------

\* Both orders are lists of clean-up steps and name everything that can run.
LEMMA OrdersComplete ==
    /\ CleanupList(RollbackOrder) /\ CleanupList(UnloadOrder)
    /\ SessionLast(UnloadOrder)
    /\ RollbackOrder \in Seq(Steps) /\ UnloadOrder \in Seq(Steps)
    /\ Parts \subseteq Members(RollbackOrder) /\ Parts \subseteq Members(UnloadOrder)
<1>1. CleanupList(RollbackOrder) /\ CleanupList(UnloadOrder)
    BY DEF CleanupList, RollbackOrder, UnloadOrder, Writers
<1>2. RollbackOrder \in Seq(Steps)
    BY DEF RollbackOrder, Steps, Parts, Writers
<1>7. UnloadOrder \in Seq(Steps)
    BY DEF UnloadOrder, Steps, Parts, Writers
<1>5. Len(UnloadOrder) = 9 /\ UnloadOrder[9] = "session"
    BY DEF UnloadOrder
<1>6. SessionLast(UnloadOrder)
    BY <1>5 DEF SessionLast
<1>3. Members(RollbackOrder) = Parts \cup {"platforms"}
    BY DEF Members, RollbackOrder, Parts, Writers
<1>4. Members(UnloadOrder) = Parts \cup {"platforms"}
    BY DEF Members, UnloadOrder, Parts, Writers
<1> QED BY <1>1, <1>2, <1>3, <1>4, <1>6, <1>7

\* One step less.
LEMMA StepTaken ==
    ASSUME NEW q \in Seq(Steps), q # <<>>, CleanupList(q)
    PROVE  /\ Tail(q) \in Seq(Steps) /\ CleanupList(Tail(q))
           /\ Members(q) = {Head(q)} \cup Members(Tail(q))
           /\ Head(q) \notin Members(Tail(q))
           /\ Head(q) = "modbus" => Members(Tail(q)) \cap Writers = {}
<1>1. /\ Tail(q) \in Seq(Steps) /\ Len(q) \in Nat \ {0} /\ Len(Tail(q)) = Len(q) - 1
      /\ Head(q) = q[1] /\ \A i \in 1..Len(Tail(q)) : Tail(q)[i] = q[i + 1]
    OBVIOUS
<1>2. CleanupList(Tail(q))
    BY <1>1 DEF CleanupList
<1>3. Members(q) = {Head(q)} \cup Members(Tail(q))
  <2>1. Members(q) \subseteq {Head(q)} \cup Members(Tail(q))
    <3>1. SUFFICES ASSUME NEW x \in Members(q)
                   PROVE  x \in {Head(q)} \cup Members(Tail(q))
        OBVIOUS
    <3>2. PICK i \in 1..Len(q) : x = q[i]
        BY <3>1 DEF Members
    <3>3. CASE i = 1
        BY <3>2, <3>3, <1>1
    <3>4. CASE i # 1
      <4>1. i - 1 \in 1..Len(Tail(q)) /\ Tail(q)[i - 1] = x
          BY <3>2, <3>4, <1>1
      <4> QED BY <4>1 DEF Members
    <3> QED BY <3>3, <3>4
  <2>2. {Head(q)} \cup Members(Tail(q)) \subseteq Members(q)
      BY <1>1 DEF Members
  <2> QED BY <2>1, <2>2
<1>4. Head(q) \notin Members(Tail(q))
    BY <1>1 DEF CleanupList, Members
<1>5. Head(q) = "modbus" => Members(Tail(q)) \cap Writers = {}
    BY <1>1 DEF CleanupList, Members
<1> QED BY <1>1, <1>2, <1>3, <1>4, <1>5

\* An unload that could not unload the platforms drops its last step, the session.
LEMMA SessionDropped ==
    ASSUME NEW q \in Seq(Steps), q # <<>>, CleanupList(q), SessionLast(q),
           Head(q) = "platforms"
    PROVE  /\ SubSeq(q, 2, Len(q) - 1) \in Seq(Steps) /\ CleanupList(SubSeq(q, 2, Len(q) - 1))
           /\ Members(q) = {"platforms", "session"} \cup Members(SubSeq(q, 2, Len(q) - 1))
           /\ "platforms" \notin Members(SubSeq(q, 2, Len(q) - 1))
           /\ "session" \notin Members(SubSeq(q, 2, Len(q) - 1))
<1> DEFINE f == SubSeq(q, 2, Len(q) - 1)
<1>1. Len(q) \in Nat \ {0} /\ Head(q) = q[1] /\ q[1] = "platforms" /\ q[Len(q)] = "session"
    BY DEF SessionLast, Members
<1>2. Len(q) > 1 /\ Tail(q) \in Seq(Steps) /\ Len(Tail(q)) = Len(q) - 1
    BY <1>1
<1>3. /\ f \in Seq(Steps) /\ Len(f) = Len(q) - 2
      /\ \A i \in 1..Len(f) : f[i] = q[i + 1]
    BY <1>1, <1>2
<1>4. CleanupList(f)
    BY <1>1, <1>2, <1>3 DEF CleanupList
<1>8. \A i \in 2..(Len(q) - 1) : i - 1 \in 1..Len(f) /\ f[i - 1] = q[i]
    BY <1>1, <1>2, <1>3
<1> HIDE DEF f
<1>5. "platforms" \notin Members(f) /\ "session" \notin Members(f)
    BY <1>1, <1>2, <1>3 DEF CleanupList, Members
<1>6. Members(q) \subseteq {"platforms", "session"} \cup Members(f)
  <2>1. SUFFICES ASSUME NEW x \in Members(q)
                 PROVE  x \in {"platforms", "session"} \cup Members(f)
      OBVIOUS
  <2>2. PICK i \in 1..Len(q) : x = q[i]
      BY <2>1 DEF Members
  <2>3. CASE i = 1 \/ i = Len(q)
      BY <2>2, <2>3, <1>1
  <2>4. CASE i # 1 /\ i # Len(q)
    <3>1. i - 1 \in 1..Len(f) /\ f[i - 1] = x
        BY <2>2, <2>4, <1>1, <1>8
    <3> QED BY <3>1 DEF Members
  <2> QED BY <2>3, <2>4
<1>7. {"platforms", "session"} \cup Members(f) \subseteq Members(q)
    BY <1>1, <1>2, <1>3 DEF Members
<1> QED BY <1>3, <1>4, <1>5, <1>6, <1>7 DEF f

-----------------------------------------------------------------------------

\* A step of one entry leaves the others where they are; a loaded one keeps
\* the services.
LEMMA OthersKept ==
    ASSUME EntryInv, NEW e \in Entries, NEW f \in Entries, e # f,
           at'[f] = at[f], up'[f] = up[f], stored'[f] = stored[f],
           todo'[f] = todo[f], issues'[f] = issues[f],
           services /\ stored[f] => services'
    PROVE  EntryOK(f)'
BY DEF EntryInv, EntryOK

\* The steps of a set-up, each with what it starts.
LEMMA SetupSteps ==
    ASSUME EntryInv, NEW e \in Entries, NEW b \in BOOLEAN,
           NEW i \in {"auth_failed", "api_unreachable"},
           \/ SetUp(e) \/ LoginFails(e, i) \/ MetadataFails(e) \/ LoggedIn(e)
           \/ EventRefreshed(e) \/ NoModbus(e, b) \/ ModbusUp(e, b) \/ KsemUp(e, b)
    PROVE  EntryInv'
<1> USE DEF EntryInv, EntryTypeOK, GoTo, Start
<1>1. EntryTypeOK'
  <2>1. CASE SetUp(e)
      BY <2>1 DEF SetUp, Places, Gone, SettingUp
  <2>2. CASE LoginFails(e, i)
      BY <2>2 DEF LoginFails, IssueTold, Places, Gone, SettingUp
  <2>3. CASE MetadataFails(e)
      BY <2>3 DEF MetadataFails, Places, Gone, SettingUp
  <2>4. CASE LoggedIn(e)
      BY <2>4 DEF LoggedIn, Cleared, Places, Gone, SettingUp, Parts
  <2>5. CASE EventRefreshed(e)
      BY <2>5 DEF EventRefreshed, Places, Gone, SettingUp, Parts
  <2>6. CASE NoModbus(e, b)
      BY <2>6 DEF NoModbus, Places, Gone, SettingUp
  <2>7. CASE ModbusUp(e, b)
      BY <2>7 DEF ModbusUp, Places, Gone, SettingUp, Parts, Writers
  <2>8. CASE KsemUp(e, b)
      BY <2>8 DEF KsemUp, Places, Gone, SettingUp, Parts
  <2> QED BY <2>1, <2>2, <2>3, <2>4, <2>5, <2>6, <2>7, <2>8
<1>2. EntryOK(e)'
  <2>1. CASE SetUp(e)
      BY <2>1 DEF SetUp, EntryOK, Gone, SettingUp
  <2>2. CASE LoginFails(e, i)
      BY <2>2 DEF LoginFails, IssueTold, EntryOK, Gone, SettingUp
  <2>3. CASE MetadataFails(e)
      BY <2>3 DEF MetadataFails, EntryOK, Gone, SettingUp
  <2>4. CASE LoggedIn(e)
      BY <2>4 DEF LoggedIn, Cleared, EntryOK, Gone, SettingUp, Parts, Writers
  <2>5. CASE EventRefreshed(e)
      BY <2>5 DEF EventRefreshed, EntryOK, Gone, SettingUp, Parts, Writers
  <2>6. CASE NoModbus(e, b)
      BY <2>6 DEF NoModbus, EntryOK, Gone, SettingUp
  <2>7. CASE ModbusUp(e, b)
      BY <2>7 DEF ModbusUp, EntryOK, Gone, SettingUp, Parts, Writers
  <2>8. CASE KsemUp(e, b)
      BY <2>8 DEF KsemUp, EntryOK, Gone, SettingUp, Parts, Writers
  <2> QED BY <2>1, <2>2, <2>3, <2>4, <2>5, <2>6, <2>7, <2>8
<1>3. ASSUME NEW f \in Entries, e # f
      PROVE  EntryOK(f)'
  <2>1. /\ at'[f] = at[f] /\ up'[f] = up[f] /\ stored'[f] = stored[f]
        /\ todo'[f] = todo[f] /\ issues'[f] = issues[f] /\ services' = services
      BY <1>3 DEF SetUp, LoginFails, IssueTold, MetadataFails, LoggedIn, EventRefreshed,
                  NoModbus, ModbusUp, KsemUp
  <2> QED BY <2>1, <1>3, OthersKept
<1> QED BY <1>1, <1>2, <1>3

\* The store, the platforms, the end of a set-up and the start of a rollback
\* or an unload.
LEMMA PlatformSteps ==
    ASSUME EntryInv, NEW e \in Entries, NEW b \in BOOLEAN,
           \/ Store(e, b) \/ Forward(e) \/ ForwardFails(e) \/ SetupDone(e) \/ UnloadEntry(e)
    PROVE  EntryInv'
<1> USE DEF EntryInv, EntryTypeOK, GoTo, Start
<1>1. EntryTypeOK'
  <2>1. CASE Store(e, b)
    <3>1. /\ PLATFORMS \o <<>> \in Seq(Steps)
          /\ PLATFORMS \o MODBUS_PLATFORMS \in Seq(Steps)
        BY DEF PLATFORMS, MODBUS_PLATFORMS, Steps
    <3> QED BY <2>1, <3>1 DEF Store, Places, Parts, Writers
  <2>2. CASE Forward(e)
      BY <2>2 DEF Forward
  <2>3. CASE ForwardFails(e)
      BY <2>3, OrdersComplete DEF ForwardFails, Places
  <2>4. CASE SetupDone(e)
      BY <2>4 DEF SetupDone, Places
  <2>5. CASE UnloadEntry(e)
      BY <2>5, OrdersComplete DEF UnloadEntry, Places
  <2> QED BY <2>1, <2>2, <2>3, <2>4, <2>5
<1>2. EntryOK(e)'
  <2>1. CASE Store(e, b)
      BY <2>1 DEF Store, EntryOK, Gone, SettingUp, Parts, Writers
  <2>2. CASE Forward(e)
      BY <2>2 DEF Forward, EntryOK, Gone, SettingUp
  <2>3. CASE ForwardFails(e)
    <3>1. "listener" \notin Parts
        BY DEF Parts, Writers
    <3> QED BY <2>3, <3>1, OrdersComplete DEF ForwardFails, EntryOK, Gone, SettingUp
  <2>4. CASE SetupDone(e)
      BY <2>4 DEF SetupDone, async_register_migration_services, EntryOK, Gone, SettingUp, Writers
  <2>5. CASE UnloadEntry(e)
      BY <2>5, OrdersComplete DEF UnloadEntry, EntryOK, Gone, SettingUp
  <2> QED BY <2>1, <2>2, <2>3, <2>4, <2>5
<1>3. ASSUME NEW f \in Entries, e # f
      PROVE  EntryOK(f)'
  <2>1. /\ at'[f] = at[f] /\ up'[f] = up[f] /\ stored'[f] = stored[f]
        /\ todo'[f] = todo[f] /\ issues'[f] = issues[f] /\ (services => services')
      BY <1>3 DEF Store, Forward, ForwardFails, SetupDone, async_register_migration_services,
                  UnloadEntry
  <2> QED BY <2>1, <1>3, OthersKept
<1> QED BY <1>1, <1>2, <1>3

\* A clean-up step that ends or is let go: the link is the head of the list
\* only when everyone who writes on it has had his step.
LEMMA CleanupSteps ==
    ASSUME EntryInv, NEW e \in Entries, NEW b \in BOOLEAN, CleanupStep(e, b)
    PROVE  EntryInv'
<1> USE DEF EntryInv, EntryTypeOK
<1> DEFINE q == todo[e]
           what == Head(q)
<1>1. /\ at[e] \in {"rollback", "unload"} /\ q \in Seq(Steps) /\ q # <<>> /\ CleanupList(q)
      /\ what # "platforms"
    BY DEF CleanupStep, EntryOK
<1>2. /\ Tail(q) \in Seq(Steps) /\ CleanupList(Tail(q))
      /\ Members(q) = {what} \cup Members(Tail(q)) /\ what \notin Members(Tail(q))
      /\ what = "modbus" => Members(Tail(q)) \cap Writers = {}
    BY <1>1, StepTaken
<1>3. /\ at' = at /\ issues' = issues /\ services' = services
      /\ up' = [up EXCEPT ![e] = @ \ {what}] /\ todo' = [todo EXCEPT ![e] = Tail(q)]
      /\ stored' = [stored EXCEPT ![e] = @ /\ what # "session"]
    BY DEF CleanupStep
<1>4. SessionLast(q) => SessionLast(Tail(q))
    BY <1>1, <1>2 DEF SessionLast, Members
<1> HIDE DEF q, what
<1>5. EntryTypeOK'
    BY <1>2, <1>3
<1>6. EntryOK(e)'
  <2>1. at[e] = "rollback" => EntryOK(e)'
      BY <1>1, <1>2, <1>3 DEF EntryOK, q, Gone, SettingUp, Writers
  <2>2. at[e] = "unload" => EntryOK(e)'
      BY <1>1, <1>2, <1>3, <1>4 DEF EntryOK, q, Gone, SettingUp, Writers
  <2> QED BY <2>1, <2>2, <1>1
<1>7. ASSUME NEW f \in Entries, e # f
      PROVE  EntryOK(f)'
    BY <1>3, <1>7, OthersKept
<1> QED BY <1>5, <1>6, <1>7

\* The platforms of the entry are unloaded, or an unload keeps the session.
LEMMA UnloadSteps ==
    ASSUME EntryInv, NEW e \in Entries, NEW b \in BOOLEAN, PlatformsUnload(e, b)
    PROVE  EntryInv'
<1> USE DEF EntryInv, EntryTypeOK
<1> DEFINE q == todo[e]
           r == SubSeq(q, 2, Len(q) - 1)
<1>1. /\ at[e] \in {"rollback", "unload"} /\ q \in Seq(Steps) /\ q # <<>> /\ CleanupList(q)
      /\ Head(q) = "platforms" /\ "platforms" \notin up[e]
    BY DEF PlatformsUnload, EntryOK, Parts, Writers
<1>2. /\ Tail(q) \in Seq(Steps) /\ CleanupList(Tail(q))
      /\ Members(q) = {"platforms"} \cup Members(Tail(q)) /\ "platforms" \notin Members(Tail(q))
    BY <1>1, StepTaken
<1>3. at[e] = "unload" =>
          /\ r \in Seq(Steps) /\ CleanupList(r)
          /\ Members(q) = {"platforms", "session"} \cup Members(r)
          /\ "platforms" \notin Members(r) /\ "session" \notin Members(r)
    BY <1>1, SessionDropped DEF EntryOK
<1>4. /\ at' = at /\ up' = up /\ stored' = stored /\ issues' = issues /\ services' = services
      /\ \/ todo' = [todo EXCEPT ![e] = Tail(q)]
         \/ at[e] = "unload" /\ todo' = [todo EXCEPT ![e] = r]
    BY <1>1 DEF PlatformsUnload
<1> HIDE DEF q, r
<1>5. EntryTypeOK'
    BY <1>2, <1>3, <1>4
<1>6. EntryOK(e)'
  <2>1. CASE at[e] = "rollback"
      BY <2>1, <1>1, <1>2, <1>4 DEF EntryOK, q, Gone, SettingUp
  <2>2. CASE at[e] = "unload" /\ todo' = [todo EXCEPT ![e] = Tail(q)]
      BY <2>2, <1>1, <1>2, <1>4 DEF EntryOK, SessionLast, q, Gone, SettingUp
  <2>3. CASE at[e] = "unload" /\ todo' = [todo EXCEPT ![e] = r]
      BY <2>3, <1>1, <1>3, <1>4 DEF EntryOK, SessionLast, q, Gone, SettingUp
  <2> QED BY <2>1, <2>2, <2>3, <1>1, <1>4
<1>7. ASSUME NEW f \in Entries, e # f
      PROVE  EntryOK(f)'
    BY <1>4, <1>7, OthersKept
<1> QED BY <1>5, <1>6, <1>7

\* The end of a rollback and of an unload; the services go only when no other
\* entry has a store.
LEMMA EndSteps ==
    ASSUME EntryInv, NEW e \in Entries, CleanedUp(e)
    PROVE  EntryInv'
<1> USE DEF EntryInv, EntryTypeOK, GoTo
<1>1. Members(todo[e]) = {}
    BY DEF CleanedUp, Members
<1>2. EntryTypeOK'
    BY DEF CleanedUp, Places, Gone
<1>3. EntryOK(e)'
  <2>1. CASE at[e] = "rollback"
      BY <2>1, <1>1 DEF CleanedUp, EntryOK, Gone, SettingUp, Writers
  <2>2. CASE at[e] = "unload"
      BY <2>2, <1>1 DEF CleanedUp, EntryOK, Gone, SettingUp, Writers
  <2> QED BY <2>1, <2>2 DEF CleanedUp
<1>4. ASSUME NEW f \in Entries, e # f
      PROVE  EntryOK(f)'
  <2>1. /\ at'[f] = at[f] /\ up'[f] = up[f] /\ stored' = stored
        /\ todo' = todo /\ issues' = issues /\ (services /\ stored[f] => services')
      BY <1>4 DEF CleanedUp, OthersUse
  <2> QED BY <2>1, <1>4, OthersKept
<1> QED BY <1>2, <1>3, <1>4

LEMMA EntryInductive ==
    EntryInv /\ [EntryNext]_entryVars => EntryInv'
<1> SUFFICES ASSUME EntryInv, [EntryNext]_entryVars
             PROVE  EntryInv'
    OBVIOUS
<1>1. CASE UNCHANGED entryVars
    BY <1>1 DEF entryVars, EntryInv, EntryTypeOK, EntryOK
<1>2. CASE EntryNext
  <2> PICK e \in Entries : SetUp(e) \/ UnloadEntry(e) \/ EntryStep(e)
      BY <1>2 DEF EntryNext
  <2>1. "auth_failed" \in {"auth_failed", "api_unreachable"} /\ TRUE \in BOOLEAN
      OBVIOUS
  <2>2. CASE SetUp(e)
      BY <2>1, <2>2, SetupSteps
  <2>3. CASE UnloadEntry(e)
      BY <2>1, <2>3, PlatformSteps
  <2>4. CASE EntryStep(e)
      BY <2>1, <2>4, SetupSteps, PlatformSteps, CleanupSteps, UnloadSteps, EndSteps
         DEF EntryStep
  <2> QED BY <2>2, <2>3, <2>4
<1> QED BY <1>1, <1>2

\* async_setup_entry, _rollback_setup and async_unload_entry leave every entry
\* whole or gone, stop who writes before the link, and keep the services of a
\* loaded entry, for any set of entries, however many clean-up steps exceed
\* their time limit.
THEOREM EntriesWhole == EntrySpec => []EntryWhole
<1>1. EntryInit => EntryInv
    BY DEF EntryInit, EntryInv, EntryTypeOK, EntryOK, Places, Gone, SettingUp
<1>2. EntryInv => EntryWhole
    BY DEF EntryInv, EntryOK, EntryWhole, NothingRuns, WritersFirst, LoadedIsWhole, Gone, Writers
<1> QED BY <1>1, <1>2, EntryInductive, PTL DEF EntrySpec

-----------------------------------------------------------------------------
(* ConfigFlow: what is stored was tested. *)

Kinds == {"user", "reconfigure", "reauth", "options", "none"}
FlowSteps == {"idle", "form", "checking", "options", "test", "done"}
AboutEntry == {"reconfigure", "reauth", "options"}   \* kinds of dialogs about an entry there is

EntryType == [host : Hosts \cup {"none"}, password : Hosts \cup {Unknown}, tested : BOOLEAN,
              options : Options]
FlowType == [kind : Kinds, step : FlowSteps, entry : EntryIds \cup {First},
             host : Hosts \cup {Discover, "none"}, password : Hosts \cup {Unknown}, options : Options]

FlowTypeOK ==
    /\ entries \in [EntryIds -> EntryType]
    /\ flows \in [Flows -> FlowType]

OldBind(b) == b = "ip" \/ b \in oldBinds

\* An entry that may be stored: its host accepts its password, which is what
\* tells it from NoEntry; it is tested if it uses Modbus.
Sound(r) ==
    /\ r.host = r.password
    /\ r.options.modbus => r.tested
    /\ r.options.proxy => r.options.modbus
    /\ OldBind(r.options.bind)

EntriesSound == \A e \in EntryIds : entries[e] = NoEntry \/ Sound(entries[e])

\* What a dialog knows at each of its steps: the entry it is about stays, the
\* wizard's host has accepted the wizard's password before the options are
\* asked for, and the options under test were accepted.
DialogSound(g) ==
    /\ g.kind \in AboutEntry => g.entry \in EntryIds /\ Sound(entries[g.entry])
    /\ g.step \in {"options", "test"} => g.kind \in {"user", "options"}
    /\ g.step \in {"options", "test"} /\ g.kind = "user" => g.host \in Hosts /\ g.host = g.password
    /\ g.step \in {"form", "checking"} => g.kind \in {"user", "reconfigure", "reauth"}
    /\ g.step = "test" =>
          OldBind(g.options.bind) /\ (g.options.proxy => g.options.modbus)

FlowsSound == \A f \in Flows : DialogSound(flows[f])

FlowInv == FlowTypeOK /\ EntriesSound /\ FlowsSound

-----------------------------------------------------------------------------

\* A host that no entry may be made of is told by its password.
LEMMA SoundIsThere ==
    ASSUME NEW r, Sound(r)
    PROVE  r # NoEntry
BY DEF Sound, NoEntry, Unknown

\* A step that changes one dialog, to one that knows what it must.
LEMMA DialogMoves ==
    ASSUME FlowInv, NEW f \in Flows, NEW g \in FlowType, DialogSound(g),
           flows' = [flows EXCEPT ![f] = g], UNCHANGED <<entries, oldBinds>>
    PROVE  FlowInv'
<1>1. FlowTypeOK' /\ EntriesSound'
    BY DEF FlowInv, FlowTypeOK, EntriesSound, Sound, OldBind
<1>2. ASSUME NEW d \in Flows
      PROVE  DialogSound(flows[d])'
  <2>1. flows'[d] = g \/ flows'[d] = flows[d]
      BY DEF FlowInv, FlowTypeOK
  <2>2. DialogSound(flows'[d])
      BY <2>1 DEF FlowInv, FlowsSound
  <2> QED BY <2>2 DEF DialogSound, Sound, OldBind
<1> QED BY <1>1, <1>2 DEF FlowInv, FlowsSound

\* A dialog that stores an entry and ends: the other dialogs about the entry
\* find one that is as good.
LEMMA DialogStores ==
    ASSUME FlowInv, NEW f \in Flows, NEW e \in EntryIds, NEW r \in EntryType, Sound(r),
           entries' = [entries EXCEPT ![e] = r], oldBinds' = oldBinds, End(f)
    PROVE  FlowInv'
<1> DEFINE g == [NoFlow EXCEPT !.step = "done"]
<1>1. g \in FlowType /\ g.kind = "none" /\ g.step = "done"
    BY DEF NoFlow, FlowType, NoEntry, Kinds, FlowSteps, Discover, Unknown, Options, Binds
<1>2. FlowTypeOK'
    BY <1>1 DEF FlowInv, FlowTypeOK, End
<1>3. \A d \in EntryIds : entries'[d] = r \/ entries'[d] = entries[d]
    BY DEF FlowInv, FlowTypeOK
<1>4. EntriesSound'
    BY <1>3 DEF FlowInv, EntriesSound, Sound, OldBind
<1>5. ASSUME NEW d \in Flows
      PROVE  DialogSound(flows[d])'
  <2>1. CASE d = f
      BY <2>1, <1>1 DEF FlowInv, FlowTypeOK, End, DialogSound, AboutEntry
  <2>2. CASE d # f
    <3>1. flows'[d] = flows[d] /\ DialogSound(flows[d])
        BY <2>2 DEF FlowInv, FlowTypeOK, FlowsSound, End
    <3> QED BY <3>1, <1>3 DEF DialogSound, Sound, OldBind
  <2> QED BY <2>1, <2>2
<1> QED BY <1>2, <1>4, <1>5 DEF FlowInv, FlowsSound

\* A dialog that ends without storing anything.
LEMMA DialogEnds ==
    ASSUME FlowInv, NEW f \in Flows, End(f), UNCHANGED <<entries, oldBinds>>
    PROVE  FlowInv'
<1> DEFINE g == [NoFlow EXCEPT !.step = "done"]
<1>1. g \in FlowType /\ g.kind = "none" /\ g.step = "done"
    BY DEF NoFlow, FlowType, NoEntry, Kinds, FlowSteps, Discover, Unknown, Options, Binds
<1>2. DialogSound(g)
    BY <1>1 DEF DialogSound, AboutEntry
<1> QED BY <1>1, <1>2, DialogMoves DEF End

-----------------------------------------------------------------------------

\* A dialog is opened, submitted, or shows its form again.
LEMMA FormSteps ==
    ASSUME FlowInv, NEW f \in Flows, NEW kind \in {"user", "reconfigure", "reauth", "options"},
           NEW e, NEW host \in Hosts \cup {Discover}, NEW pw \in Hosts \cup {Unknown},
           (e \in EntryIds /\ Open(f, kind, e)) \/ Submit(f, host, pw) \/ CheckFails(f)
    PROVE  FlowInv'
<1>1. flows[f] \in FlowType /\ DialogSound(flows[f]) /\ flows \in [Flows -> FlowType]
    BY DEF FlowInv, FlowTypeOK, FlowsSound
<1>2. CASE e \in EntryIds /\ Open(f, kind, e)
  <2> DEFINE g == [NoFlow EXCEPT !.kind = kind, !.entry = e,
                                 !.step = IF kind = "options" THEN "options" ELSE "form"]
  <2>1. /\ g \in FlowType /\ g.kind = kind /\ g.entry = e
        /\ g.step = IF kind = "options" THEN "options" ELSE "form"
      BY <1>2 DEF NoFlow, FlowType, NoEntry, Kinds, FlowSteps, Discover, Unknown, Options, Binds
  <2>2. kind = "user" \/ Sound(entries[e])
      BY <1>2 DEF Open, There, FlowInv, EntriesSound
  <2>3. DialogSound(g)
      BY <2>1, <2>2, <1>2 DEF DialogSound, AboutEntry
  <2>4. flows' = [flows EXCEPT ![f] = g] /\ UNCHANGED <<entries, oldBinds>>
      BY <1>2 DEF Open
  <2> HIDE DEF g
  <2> QED BY <2>1, <2>3, <2>4, DialogMoves
<1>3. CASE Submit(f, host, pw)
  <2> DEFINE g == [flows[f] EXCEPT !.step = "checking", !.host = SubmittedHost(f, host), !.password = pw]
  <2>1. SubmittedHost(f, host) \in Hosts \cup {Discover, "none"}
      BY <1>1 DEF SubmittedHost, DialogSound, AboutEntry, FlowInv, FlowTypeOK, EntryType
  <2>2. /\ g \in FlowType /\ g.kind = flows[f].kind /\ g.entry = flows[f].entry
        /\ g.step = "checking"
      BY <2>1, <1>1 DEF FlowType, FlowSteps
  <2>3. DialogSound(g)
      BY <2>2, <1>1, <1>3 DEF DialogSound, Submit
  <2>4. flows' = [flows EXCEPT ![f] = g] /\ UNCHANGED <<entries, oldBinds>>
      BY <1>3, <1>1 DEF Submit, FlowType
  <2> HIDE DEF g
  <2> QED BY <2>2, <2>3, <2>4, DialogMoves
<1>4. CASE CheckFails(f)
  <2> DEFINE g == [flows[f] EXCEPT !.step = "form"]
  <2>1. /\ g \in FlowType /\ g.kind = flows[f].kind /\ g.entry = flows[f].entry /\ g.step = "form"
      BY <1>1 DEF FlowType, FlowSteps
  <2>2. DialogSound(g)
      BY <2>1, <1>1, <1>4 DEF DialogSound, CheckFails
  <2>3. flows' = [flows EXCEPT ![f] = g] /\ UNCHANGED <<entries, oldBinds>>
      BY <1>4, <1>1 DEF CheckFails, Goto, FlowType
  <2> HIDE DEF g
  <2> QED BY <2>1, <2>2, <2>3, DialogMoves
<1> QED BY <1>2, <1>3, <1>4

\* A connection check ends with a host that accepted the password of the form.
LEMMA CheckSteps ==
    ASSUME FlowInv, NEW f \in Flows, NEW h \in Hosts,
           UserChecked(f, h) \/ ReconfigureChecked(f, h) \/ ReauthChecked(f, h)
    PROVE  FlowInv'
<1>1. flows[f] \in FlowType /\ DialogSound(flows[f]) /\ flows[f].password = h
    BY DEF FlowInv, FlowTypeOK, FlowsSound, UserChecked, ReconfigureChecked, ReauthChecked,
           resolve_connection_safe, accepts
<1>2. CASE UserChecked(f, h)
  <2> DEFINE g == [flows[f] EXCEPT !.step = "options", !.host = h]
  <2>1. /\ g \in FlowType /\ g.kind = "user" /\ g.step = "options"
        /\ g.host = h /\ g.password = h
      BY <1>1, <1>2 DEF FlowType, FlowSteps, UserChecked, At
  <2>2. DialogSound(g)
      BY <2>1 DEF DialogSound, AboutEntry
  <2>3. CASE flows' = [flows EXCEPT ![f].step = "options", ![f].host = h]
    <3>1. flows' = [flows EXCEPT ![f] = g]
        BY <2>3, <1>1 DEF FlowType, FlowInv, FlowTypeOK
    <3>2. UNCHANGED <<entries, oldBinds>>
        BY <1>2 DEF UserChecked
    <3> HIDE DEF g
    <3> QED BY <2>1, <2>2, <3>1, <3>2, DialogMoves
  <2>4. CASE End(f)
      BY <2>4, <1>2, DialogEnds DEF UserChecked
  <2> QED BY <1>2, <2>3, <2>4 DEF UserChecked
<1>3. CASE ReconfigureChecked(f, h) \/ ReauthChecked(f, h)
  <2> DEFINE e == flows[f].entry
             r == [entries[e] EXCEPT !.host = h, !.password = flows[f].password]
  <2>1. e \in EntryIds /\ Sound(entries[e]) /\ entries[e] \in EntryType
      BY <1>1, <1>3 DEF DialogSound, AboutEntry, ReconfigureChecked, ReauthChecked, At, FlowInv, FlowTypeOK
  <2>2. r \in EntryType /\ Sound(r)
      BY <2>1, <1>1 DEF Sound, EntryType
  <2>3. End(f) /\ oldBinds' = oldBinds
      BY <1>3 DEF ReconfigureChecked, ReauthChecked
  <2>4. entries' = entries \/ entries' = [entries EXCEPT ![e] = r]
      BY <1>3, <2>1 DEF ReconfigureChecked, ReauthChecked, EntryType
  <2> HIDE DEF e, r
  <2> QED BY <2>1, <2>2, <2>3, <2>4, DialogEnds, DialogStores
<1> QED BY <1>2, <1>3

\* What Save stores is sound if the options and the test are.
LEMMA SaveSteps ==
    ASSUME FlowInv, NEW f \in Flows, NEW o \in Options, NEW tested \in BOOLEAN,
           flows[f].step \in {"options", "test"}, OldBind(o.bind),
           o.modbus => tested, o.proxy => o.modbus,
           Save(f, o, tested), oldBinds' = oldBinds
    PROVE  FlowInv'
<1>1. flows[f] \in FlowType /\ DialogSound(flows[f]) /\ flows[f].kind \in {"user", "options"}
    BY DEF FlowInv, FlowTypeOK, FlowsSound, DialogSound
<1>2. CASE flows[f].kind = "user"
  <2> DEFINE r == [host |-> flows[f].host, password |-> flows[f].password,
                   options |-> o, tested |-> tested]
  <2>1. PICK e \in EntryIds : entries' = [entries EXCEPT ![e] = r]
      BY <1>2 DEF Save
  <2>2. r \in EntryType /\ Sound(r)
      BY <1>1, <1>2 DEF DialogSound, Sound, EntryType, FlowType
  <2>3. End(f)
      BY DEF Save
  <2> HIDE DEF r
  <2> QED BY <2>1, <2>2, <2>3, DialogStores
<1>3. CASE flows[f].kind = "options"
  <2> DEFINE e == flows[f].entry
             r == [entries[e] EXCEPT !.options = o, !.tested = tested]
  <2>1. e \in EntryIds /\ Sound(entries[e]) /\ entries[e] \in EntryType
      BY <1>1, <1>3 DEF DialogSound, AboutEntry, FlowInv, FlowTypeOK
  <2>2. r \in EntryType /\ Sound(r)
      BY <2>1 DEF Sound, EntryType
  <2>3. End(f) /\ entries' = [entries EXCEPT ![e] = r]
      BY <1>3, <2>1 DEF Save, EntryType
  <2> HIDE DEF e, r
  <2> QED BY <2>1, <2>2, <2>3, DialogStores
<1> QED BY <1>1, <1>2, <1>3

\* The options are refused, put to the test or stored; a test is run again
\* when its form is submitted.
LEMMA OptionSteps ==
    ASSUME FlowInv, NEW f \in Flows, NEW raw \in Options, NEW passed \in BOOLEAN,
           OptionsSubmit(f, raw) \/ TestSubmit(f, passed)
    PROVE  FlowInv'
<1>1. flows[f] \in FlowType /\ DialogSound(flows[f])
    BY DEF FlowInv, FlowTypeOK, FlowsSound
<1>2. ASSUME UNCHANGED <<flows, entries, oldBinds>>
      PROVE  FlowInv'
    BY <1>2 DEF FlowInv, FlowTypeOK, EntriesSound, FlowsSound, DialogSound, Sound, OldBind
<1>3. CASE OptionsSubmit(f, raw)
  <2> DEFINE o == _normalize_options(raw)
  <2>1. /\ o \in Options /\ (o.proxy => o.modbus) /\ o.bind = raw.bind
        /\ o.proxy = raw.proxy
      BY DEF Options, _normalize_options
  <2>2. flows[f].step = "options" /\ oldBinds' = oldBinds
      BY <1>3 DEF OptionsSubmit
  <2>3. BindAccepted(f, o) => OldBind(o.bind)
      BY <1>1, <2>2 DEF BindAccepted, validate_bind_address, Stored, OldBind, DialogSound, Sound, AboutEntry
  <2> HIDE DEF o
  <2>4. CASE ~BindAccepted(f, o)
      BY <2>4, <1>2, <1>3 DEF OptionsSubmit, o
  <2>5. CASE BindAccepted(f, o) /\ o.modbus
    <3> DEFINE g == [flows[f] EXCEPT !.step = "test", !.options = o]
    <3>1. /\ g \in FlowType /\ g.step = "test" /\ g.options = o
          /\ g.kind = flows[f].kind /\ g.host = flows[f].host /\ g.password = flows[f].password
          /\ g.entry = flows[f].entry
        BY <1>1, <2>1 DEF FlowType, FlowSteps
    <3>2. DialogSound(g)
        BY <3>1, <1>1, <2>1, <2>2, <2>3, <2>5 DEF DialogSound
    <3>3. flows' = [flows EXCEPT ![f] = g] /\ entries' = entries
        BY <1>3, <1>1, <2>5 DEF OptionsSubmit, o, FlowType
    <3> HIDE DEF g
    <3> QED BY <3>1, <3>2, <3>3, <2>2, DialogMoves
  <2>6. CASE BindAccepted(f, o) /\ ~o.modbus
    <3>1. Save(f, o, FALSE)
        BY <1>3, <2>6 DEF OptionsSubmit, o
    <3> QED BY <3>1, <2>1, <2>2, <2>3, <2>6, SaveSteps
  <2> QED BY <2>4, <2>5, <2>6
<1>4. CASE TestSubmit(f, passed)
  <2> DEFINE o == flows[f].options
  <2>1. /\ o \in Options /\ flows[f].step = "test" /\ oldBinds' = oldBinds
        /\ OldBind(o.bind) /\ (o.proxy => o.modbus)
      BY <1>1, <1>4 DEF FlowType, TestSubmit, DialogSound
  <2>2. CASE passed
      BY <2>1, <2>2, <1>4, SaveSteps DEF TestSubmit, TestedNow
  <2>3. CASE ~passed
      BY <2>3, <1>2, <1>4 DEF TestSubmit, TestedNow
  <2> QED BY <2>2, <2>3
<1> QED BY <1>3, <1>4

LEMMA FlowInductive ==
    FlowInv /\ [FlowNext]_flowVars => FlowInv'
<1> SUFFICES ASSUME FlowInv, [FlowNext]_flowVars
             PROVE  FlowInv'
    OBVIOUS
<1>1. CASE UNCHANGED flowVars
    BY <1>1 DEF flowVars, FlowInv, FlowTypeOK, EntriesSound, FlowsSound, DialogSound, Sound, OldBind
<1>2. CASE FlowNext
  <2> PICK f \in Flows :
        \/ \E kind \in {"user", "reconfigure", "reauth", "options"}, e \in EntryIds : Open(f, kind, e)
        \/ \E host \in Hosts \cup {Discover}, pw \in Hosts \cup {Unknown} : Submit(f, host, pw)
        \/ CheckFails(f)
        \/ \E h \in Hosts : UserChecked(f, h) \/ ReconfigureChecked(f, h) \/ ReauthChecked(f, h)
        \/ \E o \in Options : OptionsSubmit(f, o)
        \/ \E passed \in BOOLEAN : TestSubmit(f, passed)
      BY <1>2 DEF FlowNext
  <2>1. "user" \in {"user", "reconfigure", "reauth", "options"} /\ Unknown \in Hosts \cup {Unknown}
        /\ Discover \in Hosts \cup {Discover} /\ TRUE \in BOOLEAN /\ NoEntry.options \in Options
      BY DEF NoEntry, Options, Binds
  <2>2. CASE \E kind \in {"user", "reconfigure", "reauth", "options"}, e \in EntryIds : Open(f, kind, e)
      BY <2>1, <2>2, FormSteps
  <2>3. CASE (\E host \in Hosts \cup {Discover}, pw \in Hosts \cup {Unknown} : Submit(f, host, pw))
             \/ CheckFails(f)
      BY <2>1, <2>3, FormSteps
  <2>4. CASE \E h \in Hosts : UserChecked(f, h) \/ ReconfigureChecked(f, h) \/ ReauthChecked(f, h)
      BY <2>4, CheckSteps
  <2>5. CASE (\E o \in Options : OptionsSubmit(f, o)) \/ \E passed \in BOOLEAN : TestSubmit(f, passed)
      BY <2>1, <2>5, OptionSteps
  <2> QED BY <2>2, <2>3, <2>4, <2>5
<1> QED BY <1>1, <1>2


\* Whichever dialogs run at the same time, an entry holds a password its host
\* has accepted, has passed the Modbus test with the options it has, and gets
\* no bind address that is no IP (config_flow.py).
THEOREM StoredIsTested == FlowSpec => []EntriesTested
<1>1. FlowInit => FlowInv
  <2> SUFFICES ASSUME FlowInit
               PROVE  FlowInv
      OBVIOUS
  <2> PICK o \in [modbus : {TRUE}, proxy : BOOLEAN, bind : {"ip", "legacy"}], h \in Hosts :
        /\ entries = [e \in EntryIds |->
                        IF e = First THEN [host |-> h, password |-> h, tested |-> TRUE, options |-> o]
                        ELSE NoEntry]
        /\ oldBinds = {o.bind} \ {"ip"}
      BY DEF FlowInit
  <2> DEFINE r == [host |-> h, password |-> h, tested |-> TRUE, options |-> o]
  <2>1. r \in EntryType /\ Sound(r)
      BY DEF EntryType, Options, Binds, Sound, OldBind
  <2>2. NoEntry \in EntryType
      BY DEF NoEntry, EntryType, Options, Binds
  <2>3. NoFlow \in FlowType /\ NoFlow.kind = "none" /\ NoFlow.step = "idle"
      BY DEF NoFlow, NoEntry, FlowType, Kinds, FlowSteps, Options, Binds
  <2>4. DialogSound(NoFlow)
      BY <2>3 DEF DialogSound, AboutEntry
  <2> QED BY <2>1, <2>2, <2>3, <2>4 DEF FlowInit, FlowInv, FlowTypeOK, EntriesSound, FlowsSound
<1>2. FlowInv => EntriesTested
    BY DEF FlowInv, EntriesSound, Sound, OldBind, EntriesTested, CredentialsFit, ModbusTested,
           NoNewBadBind, There, accepts, validate_bind_address
<1> QED BY <1>1, <1>2, FlowInductive, PTL DEF FlowSpec

-----------------------------------------------------------------------------
(* EntityDiscovery: the entities are those of the inverter. *)

SetupPlaces == {"fetch", "retry", "count", "create", "data", "features", "shadow", "done"}

DiscoveryTypeOK ==
    /\ plat \in [Platforms -> SetupPlaces]
    /\ fetched \in [Platforms -> BOOLEAN]
    /\ dc_string_count \in 0 .. MAX_SANE_STRING_COUNT
    /\ inverter.offered \in {SettingIds \ {"legacy"}, SettingIds \ {"home"}}
    /\ store.told \in Nat

\* The strings that have sensors, once the sensors are made.
SensorsRight ==
    /\ strings = [pv |-> strings.pv, shadow |-> strings.shadow]
    /\ plat["sensor"] # "done" => strings.pv = {}
    /\ IF fetched["sensor"] THEN strings.pv \subseteq inverter.pv
                            ELSE strings.pv \subseteq 1 .. MAX_SANE_STRING_COUNT
    /\ plat["sensor"] = "done" =>
          {"pv_sum", "calculated"} \subseteq created /\ (inverter.battery => "battery" \in created)

\* What the other platforms have made when they are through.
ForcedMade ==
    /\ plat["select"] = "done" => "mode" \in created
    /\ plat["number"] = "done" /\ store.modules => "min_soc" \in created
    /\ plat["switch"] \in {"features", "shadow", "done"} =>
          "arm" \in created /\ (store.modules => "manual" \in created)

OnlyOffered ==
    /\ (created \cap SettingIds) \ ForcedIds \subseteq inverter.offered
    /\ "backup" \in created => store.installer
    /\ "charge_dc" \notin created

DiscoveryInv == DiscoveryTypeOK /\ SensorsRight /\ ForcedMade /\ OnlyOffered

LEMMA DiscoveryInitially == DiscoveryInit => DiscoveryInv
<1> SUFFICES ASSUME DiscoveryInit PROVE DiscoveryInv
    OBVIOUS
<1>1. inverter.offered \in {SettingIds \ {"legacy"}, SettingIds \ {"home"}}
    BY DEF DiscoveryInit
<1>4. store.told \in Nat
  <2>1. CASE store \in [modbus : {FALSE}, ksem : {FALSE}, told : {0}, installer : BOOLEAN, modules : BOOLEAN]
      BY <2>1
  <2>2. CASE store \in [modbus : {TRUE}, ksem : {TRUE}, told : {0, MaxInputs, Corrupt}, installer : {FALSE},
                       modules : BOOLEAN]
    <3>1. store.told \in {0, MaxInputs, Corrupt}
        BY <2>2
    <3> QED BY <3>1, SaneInputs DEF Corrupt
  <2> QED BY <2>1, <2>2 DEF DiscoveryInit
<1>2. DiscoveryTypeOK
    BY <1>1, <1>4, SaneInputs DEF DiscoveryInit, DiscoveryTypeOK, SetupPlaces
<1>3. SensorsRight /\ ForcedMade /\ OnlyOffered
    BY DEF DiscoveryInit, SensorsRight, ForcedMade, OnlyOffered, Platforms
<1> QED BY <1>2, <1>3 DEF DiscoveryInv

LEMMA DiscoveryRight == DiscoveryInv => EntitiesRight
<1> SUFFICES ASSUME DiscoveryInv PROVE EntitiesRight
    OBVIOUS
<1>1. NoPhantomSensor
    BY SaneInputs DEF DiscoveryInv, SensorsRight, NoPhantomSensor
<1>2. KeyEntitiesThere
    BY DEF DiscoveryInv, SensorsRight, ForcedMade, OnlyOffered, KeyEntitiesThere, Platforms, ForcedIds
<1>3. NothingUnoffered
  <2>1. {"home", "legacy"} \subseteq SettingIds \ ForcedIds
      BY DEF SettingIds, NumberIds, SwitchIds, ForcedIds
  <2>2. ~({"home", "legacy"} \subseteq inverter.offered)
      BY DEF DiscoveryInv, DiscoveryTypeOK
  <2> QED BY <2>1, <2>2 DEF DiscoveryInv, OnlyOffered, NothingUnoffered
<1> QED BY <1>1, <1>2, <1>3 DEF EntitiesRight

-----------------------------------------------------------------------------

\* One platform goes on, the others stay where they are.
LEMMA GoesOn ==
    ASSUME DiscoveryTypeOK, NEW p \in Platforms, NEW to \in SetupPlaces, Goes(p, to)
    PROVE  /\ plat' \in [Platforms -> SetupPlaces] /\ plat'[p] = to
           /\ \A q \in Platforms : q # p => plat'[q] = plat[q]
    BY DEF Goes, DiscoveryTypeOK

LEMMA FetchCatalogueKeeps ==
    ASSUME DiscoveryInv, NEW ok \in BOOLEAN, FetchCatalogue(ok)
    PROVE  DiscoveryInv'
<1>1. /\ plat' \in [Platforms -> SetupPlaces] /\ plat'["sensor"] = "count"
      /\ \A q \in Platforms : q # "sensor" => plat'[q] = plat[q]
    BY GoesOn DEF FetchCatalogue, DiscoveryInv, Platforms, SetupPlaces
<1>2. plat["sensor"] = "fetch" /\ strings.pv = {} /\ fetched' \in [Platforms -> BOOLEAN]
    BY DEF FetchCatalogue, DiscoveryInv, DiscoveryTypeOK, SensorsRight
<1>3. UNCHANGED <<inverter, store, dc_string_count, created, strings>>
    BY DEF FetchCatalogue
<1> QED BY <1>1, <1>2, <1>3
        DEF DiscoveryInv, DiscoveryTypeOK, SensorsRight, ForcedMade, OnlyOffered, Platforms

LEMMA CountStringsKeeps ==
    ASSUME DiscoveryInv, NEW ok \in BOOLEAN, CountStrings(ok)
    PROVE  DiscoveryInv'
<1>1. /\ plat' \in [Platforms -> SetupPlaces] /\ plat'["sensor"] = "create"
      /\ \A q \in Platforms : q # "sensor" => plat'[q] = plat[q]
    BY GoesOn DEF CountStrings, DiscoveryInv, Platforms, SetupPlaces
<1>2. plat["sensor"] = "count" /\ strings.pv = {}
    BY DEF CountStrings, DiscoveryInv, SensorsRight
<1>3. UNCHANGED <<inverter, store, fetched, created, strings>>
    BY DEF CountStrings
<1>4. dc_string_count' \in 0 .. MAX_SANE_STRING_COUNT
    BY SaneInputs DEF CountStrings, Clamped, DiscoveryInv, DiscoveryTypeOK
<1> QED BY <1>1, <1>2, <1>3, <1>4
        DEF DiscoveryInv, DiscoveryTypeOK, SensorsRight, ForcedMade, OnlyOffered, Platforms

LEMMA CreateSensorsKeeps ==
    ASSUME DiscoveryInv, CreateSensors
    PROVE  DiscoveryInv'
<1>1. /\ plat' \in [Platforms -> SetupPlaces] /\ plat'["sensor"] = "done"
      /\ \A q \in Platforms : q # "sensor" => plat'[q] = plat[q]
    BY GoesOn DEF CreateSensors, DiscoveryInv, Platforms, SetupPlaces
<1>2. UNCHANGED <<inverter, store, fetched, dc_string_count>>
    BY DEF CreateSensors
<1>3. /\ {"pv_sum", "calculated"} \subseteq created' /\ created \subseteq created'
      /\ inverter.battery => "battery" \in created'
    BY DEF CreateSensors, Creates
<1>4. created' \cap SettingIds = created \cap SettingIds
    BY DEF CreateSensors, Creates, StoreSensors, SettingIds, NumberIds, SwitchIds
<1>5. strings' = [pv |-> {n \in 1 .. dc_string_count : ~fetched["sensor"] \/ n \in inverter.pv}, shadow |-> strings.shadow]
    BY DEF CreateSensors, DcDescriptions, Advertised, DiscoveryInv, SensorsRight
<1>6. SensorsRight'
    BY <1>1, <1>2, <1>3, <1>5, SaneInputs DEF SensorsRight, DiscoveryInv, DiscoveryTypeOK
<1>7. ForcedMade'
    BY <1>1, <1>2, <1>3 DEF ForcedMade, DiscoveryInv, Platforms
<1>8. OnlyOffered'
    BY <1>2, <1>4 DEF OnlyOffered, DiscoveryInv, SettingIds, NumberIds, SwitchIds
<1> QED BY <1>1, <1>2, <1>6, <1>7, <1>8 DEF DiscoveryInv, DiscoveryTypeOK

LEMMA FetchSettingsKeeps ==
    ASSUME DiscoveryInv, NEW p \in Platforms, NEW ok \in BOOLEAN, FetchSettings(p, ok)
    PROVE  DiscoveryInv'
<1>1. PICK to \in {"retry", "data", "create"} : Goes(p, to)
    BY DEF FetchSettings, AfterFailure
<1>2. /\ plat' \in [Platforms -> SetupPlaces] /\ plat'[p] = to
      /\ \A q \in Platforms : q # p => plat'[q] = plat[q]
    BY <1>1, GoesOn DEF DiscoveryInv, SetupPlaces
<1>3. /\ p # "sensor" /\ fetched' = [fetched EXCEPT ![p] = GotSettings(ok)]
      /\ UNCHANGED <<inverter, store, dc_string_count, created, strings>>
    BY DEF FetchSettings
<1>4. fetched'["sensor"] = fetched["sensor"]
    BY <1>3 DEF DiscoveryInv, DiscoveryTypeOK, Platforms
<1>5. plat[p] \in {"fetch", "retry"} /\ to \in {"retry", "data", "create"}
    BY <1>1 DEF FetchSettings
<1>6. DiscoveryTypeOK'
  <2>1. GotSettings(ok) \in BOOLEAN
      BY DEF GotSettings
  <2>2. fetched' \in [Platforms -> BOOLEAN]
      BY <1>3, <2>1 DEF DiscoveryInv, DiscoveryTypeOK
  <2> QED BY <1>2, <1>3, <2>2 DEF DiscoveryInv, DiscoveryTypeOK
<1>7. SensorsRight'
    BY <1>2, <1>3, <1>4 DEF DiscoveryInv, SensorsRight, Platforms
<1>8. ForcedMade'
    BY <1>2, <1>3, <1>5 DEF DiscoveryInv, ForcedMade, Platforms
<1>9. OnlyOffered'
    BY <1>3 DEF DiscoveryInv, OnlyOffered
<1> QED BY <1>6, <1>7, <1>8, <1>9 DEF DiscoveryInv

\* What a platform knows of is offered or forced; the forced ids are known when
\* the list of modules is.
LEMMA KnownIs ==
    ASSUME NEW p, NEW ids
    PROVE  /\ Known(p, ids) \subseteq ids
           /\ Known(p, ids) \ ForcedIds \subseteq inverter.offered
           /\ store.modules \/ p = "select" => ids \cap ForcedIds \subseteq Known(p, ids)
           /\ ~fetched[p] => Known(p, ids) \subseteq ForcedIds
    BY DEF Known, Forced

LEMMA CreateNumbersKeeps ==
    ASSUME DiscoveryInv, CreateNumbers
    PROVE  DiscoveryInv'
<1> DEFINE legacy == fetched["number"] /\ "legacy" \in inverter.offered
           known == Known("number", NumberIds) \ ModbusOnlyIds
           named == {IF legacy /\ i = "home" THEN "legacy" ELSE i : i \in known}
<1>1. /\ plat' \in [Platforms -> SetupPlaces] /\ plat'["number"] = "done"
      /\ \A q \in Platforms : q # "number" => plat'[q] = plat[q]
    BY GoesOn DEF CreateNumbers, DiscoveryInv, Platforms, SetupPlaces
<1>2. UNCHANGED <<inverter, store, fetched, dc_string_count, strings>>
    BY DEF CreateNumbers
<1>3. created' = created \cup (named \cup IF legacy THEN {"legacy"} ELSE {})
    BY DEF CreateNumbers, Creates
<1>4. known \subseteq {"min_soc", "home", "limit"} /\ known \ ForcedIds \subseteq inverter.offered
    BY KnownIs DEF NumberIds, ModbusOnlyIds
<1>5. store.modules => "min_soc" \in known
    BY KnownIs DEF NumberIds, ModbusOnlyIds, ForcedIds
<1> HIDE DEF known
<1>6. named \subseteq known \cup (IF legacy THEN {"legacy"} ELSE {}) /\ ("min_soc" \in known => "min_soc" \in named)
    BY <1>4
<1> HIDE DEF named
<1>7. SensorsRight' /\ ForcedMade'
    BY <1>1, <1>2, <1>3, <1>5, <1>6 DEF SensorsRight, ForcedMade, DiscoveryInv, Platforms
<1>8. OnlyOffered'
    BY <1>2, <1>3, <1>4, <1>6 DEF OnlyOffered, DiscoveryInv, SettingIds, NumberIds, SwitchIds, ForcedIds
<1> QED BY <1>1, <1>2, <1>7, <1>8 DEF DiscoveryInv, DiscoveryTypeOK

LEMMA CreateSelectKeeps ==
    ASSUME DiscoveryInv, CreateSelect
    PROVE  DiscoveryInv'
<1>1. /\ plat' \in [Platforms -> SetupPlaces] /\ plat'["select"] = "done"
      /\ \A q \in Platforms : q # "select" => plat'[q] = plat[q]
    BY GoesOn DEF CreateSelect, DiscoveryInv, Platforms, SetupPlaces
<1>2. UNCHANGED <<inverter, store, fetched, dc_string_count, strings>>
    BY DEF CreateSelect
<1>3. created' = created \cup {"mode"}
    BY KnownIs DEF CreateSelect, Creates, ForcedIds
<1>4. SensorsRight' /\ ForcedMade' /\ OnlyOffered'
    BY <1>1, <1>2, <1>3 DEF SensorsRight, ForcedMade, OnlyOffered, DiscoveryInv, Platforms, ForcedIds
<1> QED BY <1>1, <1>2, <1>4 DEF DiscoveryInv, DiscoveryTypeOK

LEMMA CollectSwitchesKeeps ==
    ASSUME DiscoveryInv, CollectSwitches
    PROVE  DiscoveryInv'
<1> DEFINE known == Known("switch", SwitchIds) \cap Accessible
<1>0. PICK to \in {"features", "done"} : Goes("switch", to)
    BY DEF CollectSwitches
<1>1. /\ plat' \in [Platforms -> SetupPlaces] /\ plat'["switch"] = to
      /\ \A q \in Platforms : q # "switch" => plat'[q] = plat[q]
    BY <1>0, GoesOn DEF DiscoveryInv, Platforms, SetupPlaces
<1>2. UNCHANGED <<inverter, store, fetched, dc_string_count, strings>>
    BY DEF CollectSwitches
<1>3. {"arm"} \cup known \subseteq created' /\ created \subseteq created'
      /\ created' \subseteq created \cup {"arm", "charge_block"} \cup known
    BY DEF CollectSwitches, Creates, ModbusSwitches
<1>4. /\ known \subseteq SwitchIds /\ known \ ForcedIds \subseteq inverter.offered
      /\ "backup" \in known => store.installer
    BY KnownIs DEF Accessible, InstallerIds
<1>5. store.modules => "manual" \in known
    BY KnownIs DEF SwitchIds, ForcedIds, Accessible, InstallerIds
<1> HIDE DEF known
<1>7. SensorsRight' /\ ForcedMade'
    BY <1>1, <1>2, <1>3, <1>5 DEF SensorsRight, ForcedMade, DiscoveryInv, Platforms
<1>8. OnlyOffered'
    BY <1>2, <1>3, <1>4 DEF OnlyOffered, DiscoveryInv, SettingIds, NumberIds, SwitchIds, ForcedIds
<1> QED BY <1>1, <1>2, <1>7, <1>8 DEF DiscoveryInv, DiscoveryTypeOK

LEMMA ShadowKeeps ==
    ASSUME DiscoveryInv, ProbeFeatures \/ CreateShadow
    PROVE  DiscoveryInv'
<1>0. PICK to \in {"shadow", "done"} : Goes("switch", to)
    BY DEF ProbeFeatures, CreateShadow
<1>1. /\ plat' \in [Platforms -> SetupPlaces] /\ plat'["switch"] = to
      /\ \A q \in Platforms : q # "switch" => plat'[q] = plat[q]
    BY <1>0, GoesOn DEF DiscoveryInv, Platforms, SetupPlaces
<1>2. plat["switch"] \in {"features", "shadow"} /\ UNCHANGED <<inverter, store, fetched, dc_string_count, created>>
    BY DEF ProbeFeatures, CreateShadow
<1>3. strings'.pv = strings.pv /\ strings' = [pv |-> strings'.pv, shadow |-> strings'.shadow]
    BY DEF ProbeFeatures, CreateShadow, DiscoveryInv, SensorsRight
<1>4. SensorsRight' /\ ForcedMade' /\ OnlyOffered'
    BY <1>1, <1>2, <1>3 DEF SensorsRight, ForcedMade, OnlyOffered, DiscoveryInv, Platforms
<1> QED BY <1>1, <1>2, <1>4 DEF DiscoveryInv, DiscoveryTypeOK

LEMMA DiscoveryStep == DiscoveryInv /\ [DiscoveryNext]_discoveryVars => DiscoveryInv'
<1> SUFFICES ASSUME DiscoveryInv, [DiscoveryNext]_discoveryVars PROVE DiscoveryInv'
    OBVIOUS
<1>1. CASE DiscoveryNext
    BY <1>1, FetchCatalogueKeeps, CountStringsKeeps, CreateSensorsKeeps, FetchSettingsKeeps, CreateNumbersKeeps,
       CreateSelectKeeps, CollectSwitchesKeeps, ShadowKeeps DEF DiscoveryNext
<1>2. CASE UNCHANGED discoveryVars
    BY <1>2 DEF discoveryVars, DiscoveryInv, DiscoveryTypeOK, SensorsRight, ForcedMade, OnlyOffered
<1> QED BY <1>1, <1>2

\* async_setup_entry of the platforms: whichever requests of the set-up fail, and
\* for any number of strings, the entities are those the inverter has; no string
\* gets a sensor that it lacks, and no key entity is left out.
THEOREM EntitiesAreRight == DiscoverySpec => []EntitiesRight
    BY DiscoveryInitially, DiscoveryStep, DiscoveryRight, PTL DEF DiscoverySpec

=============================================================================
