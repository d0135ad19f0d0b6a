---------------------------- MODULE EntryLifecycle ---------------------------
(* The life of the config entries: async_setup_entry, _rollback_setup and     *)
(* async_unload_entry of __init__.py with Plenticore.async_setup, the repair  *)
(* issues and the services all entries share.  What an entry starts (the REST *)
(* session, the coordinators, the proxy, the bridge, the SoC controller, the  *)
(* store of the battery's health) is a member of up until it is stopped.      *)
EXTENDS Naturals, Sequences, SequencesExt, FiniteSets

CONSTANTS
    Entries,       \* config entries
    MaxExpired,    \* bound on the clean-up steps of an entry that exceed their time limit
    MaxSetups      \* bound on the set-ups of all entries together

\* Two of the six platforms stand for the list, in order.
PLATFORMS == <<"number", "sensor">>
MODBUS_PLATFORMS == <<"binary_sensor">>

VARIABLES
    at,        \* per entry: where its set-up or unload is
    up,        \* per entry: what runs
    stored,    \* per entry: hass.data[DOMAIN][entry_id] is there
    forwarded, \* per entry: platforms Home Assistant has set up
    loaded,    \* per entry: KEY_LOADED_PLATFORMS
    todo,      \* per entry: platforms to forward, or clean-up steps left
    left,      \* per entry: what the code let go of without stopping it
    issues,    \* per entry: repair issues about the log-in
    services,  \* the services of the integration are registered
    setups     \* set-ups so far

entryVars == <<at, up, stored, forwarded, loaded, todo, left, issues, services, setups>>

EntryInit ==
    /\ at = [e \in Entries |-> "not_loaded"]
    /\ up = [e \in Entries |-> {}]
    /\ stored = [e \in Entries |-> FALSE]
    /\ forwarded = [e \in Entries |-> {}]
    /\ loaded = [e \in Entries |-> {}]
    /\ todo = [e \in Entries |-> <<>>]
    /\ left = [e \in Entries |-> {}]
    /\ issues = [e \in Entries |-> {}]
    /\ services = FALSE
    /\ setups = 0

GoTo(e, pc) == at' = [at EXCEPT ![e] = pc]
Start(e, things) == up' = [up EXCEPT ![e] = @ \cup things]

-----------------------------------------------------------------------------
(* The set-up.                                                             *)

\* Home Assistant starts or retries it.
SetUp(e) ==
    /\ at[e] \in {"not_loaded", "retry", "error"} /\ setups < MaxSetups
    /\ setups' = setups + 1
    /\ GoTo(e, "login")
    /\ UNCHANGED <<up, stored, forwarded, loaded, todo, left, issues, services>>

\* A repair issue of the entry: one of each kind.
IssueTold(e, issue) == issues' = [issues EXCEPT ![e] = @ \cup {issue}]

\* Plenticore.async_setup: an issue tells why the log-in failed; what runs is
\* logged out again and the entry is tried later, or given up.
LoginFails(e, issue) ==
    /\ at[e] = "login"
    /\ IssueTold(e, issue)
    /\ GoTo(e, IF issue = "auth_failed" THEN "error" ELSE "retry")
    /\ UNCHANGED <<up, stored, forwarded, loaded, todo, left, services, setups>>

\* The log-in worked; the metadata may still be unusable.
MetadataFails(e) ==
    /\ at[e] = "login"
    /\ GoTo(e, "error")
    /\ UNCHANGED <<up, stored, forwarded, loaded, todo, left, issues, services, setups>>

\* clear_issue for every suffix.
Cleared(e) == {}

LoggedIn(e) ==
    /\ at[e] = "login"
    /\ Start(e, {"session"})
    /\ issues' = [issues EXCEPT ![e] = Cleared(e)]
    /\ GoTo(e, "event")
    /\ UNCHANGED <<stored, forwarded, loaded, todo, left, services, setups>>

\* The coordinator of the events is there whether or not its first refresh worked.
EventRefreshed(e) ==
    /\ at[e] = "event"
    /\ Start(e, {"event"})
    /\ GoTo(e, "modbus")
    /\ UNCHANGED <<stored, forwarded, loaded, todo, left, issues, services, setups>>

\* Modbus not enabled, or its set-up failed: before the connection was there
\* or after; the client of the latter is dropped as it is.
NoModbus(e, half) ==
    /\ at[e] = "modbus"
    /\ left' = [left EXCEPT ![e] = IF half THEN @ \cup {"modbus"} ELSE @]
    /\ GoTo(e, "ksem")
    /\ UNCHANGED <<up, stored, forwarded, loaded, todo, issues, services, setups>>

\* The coordinator and the SoC controller, then the proxy, which may find its port taken.
ModbusUp(e, proxy) ==
    /\ at[e] = "modbus"
    /\ Start(e, {"modbus", "soc"} \cup (IF proxy THEN {"proxy"} ELSE {}))
    /\ GoTo(e, "ksem")
    /\ UNCHANGED <<stored, forwarded, loaded, todo, left, issues, services, setups>>

\* Not enabled or set up, or shut down again after a failure.
KsemUp(e, ok) ==
    /\ at[e] = "ksem"
    /\ Start(e, IF ok THEN {"ksem"} ELSE {})
    /\ GoTo(e, "store")
    /\ UNCHANGED <<stored, forwarded, loaded, todo, left, issues, services, setups>>

\* The monitors, the entry's store, and only then the MQTT bridge.
Store(e, bridge) ==
    /\ at[e] = "store"
    /\ bridge => "modbus" \in up[e]
    /\ stored' = [stored EXCEPT ![e] = TRUE]
    /\ loaded' = [loaded EXCEPT ![e] = {}]
    /\ Start(e, (IF "modbus" \in up[e] THEN {"soh"} ELSE {}) \cup (IF bridge THEN {"mqtt"} ELSE {}))
    /\ todo' = [todo EXCEPT ![e] = PLATFORMS \o (IF "modbus" \in up[e] THEN MODBUS_PLATFORMS ELSE <<>>)]
    /\ GoTo(e, "platforms")
    /\ UNCHANGED <<forwarded, left, issues, services, setups>>

\* _async_forward_platforms_traced, one at a time; loaded is extended once a
\* whole list is through.  Home Assistant refuses a platform that is set up.
Forward(e) ==
    /\ at[e] = "platforms" /\ todo[e] # <<>> /\ Head(todo[e]) \notin forwarded[e]
    /\ forwarded' = [forwarded EXCEPT ![e] = @ \cup {Head(todo[e])}]
    /\ loaded' = [loaded EXCEPT ![e] =
                     @ \cup UNION {ToSet(list) : list \in {l \in {PLATFORMS, MODBUS_PLATFORMS} : Last(l) = Head(todo[e])}}]
    /\ todo' = [todo EXCEPT ![e] = Tail(@)]
    /\ UNCHANGED <<at, up, stored, left, issues, services, setups>>

\* Mutant: the SoC controller and the bridges outlive the link they write on.
RollbackLinkFirst == <<"modbus", "proxy", "mqtt", "soc", "ksem", "event", "soh", "platforms", "session">>
RollbackOrder == <<"proxy", "mqtt", "soc", "modbus", "ksem", "event", "soh", "platforms", "session">>

\* Mutant: the meter's coordinator is not in the list.
UnloadForgets == <<"soc", "proxy", "mqtt", "modbus", "soh", "platforms", "event", "session">>
UnloadOrder == <<"soc", "proxy", "mqtt", "modbus", "soh", "platforms", "ksem", "event", "session">>

\* A platform failed, or it was set up before: _rollback_setup takes the
\* entry's store away and stops what was started.
ForwardFails(e) ==
    /\ at[e] = "platforms" /\ todo[e] # <<>>
    /\ stored' = [stored EXCEPT ![e] = FALSE]
    /\ todo' = [todo EXCEPT ![e] = RollbackOrder]
    /\ GoTo(e, "rollback")
    /\ UNCHANGED <<up, forwarded, loaded, left, issues, services, setups>>

\* Once for all entries.
async_register_migration_services == services' = TRUE

\* The end of the set-up: the health data are fed, the services are there.
SetupDone(e) ==
    /\ at[e] = "platforms" /\ todo[e] = <<>>
    /\ Start(e, IF "modbus" \in up[e] THEN {"listener"} ELSE {})
    /\ async_register_migration_services
    /\ GoTo(e, "loaded")
    /\ UNCHANGED <<stored, forwarded, loaded, todo, left, issues, setups>>

-----------------------------------------------------------------------------
(* Rollback and unload, one step of at most five seconds after the other.  *)

UnloadEntry(e) ==
    /\ at[e] = "loaded"
    /\ todo' = [todo EXCEPT ![e] = UnloadOrder]
    /\ GoTo(e, "unload")
    /\ UNCHANGED <<up, stored, forwarded, loaded, left, issues, services, setups>>

\* _await_cleanup_step: the step ends, or its time limit lets it go.
CleanupStep(e, expired) ==
    /\ at[e] \in {"rollback", "unload"} /\ todo[e] # <<>> /\ Head(todo[e]) # "platforms"
    /\ LET what == Head(todo[e])
       IN  /\ expired => what \in up[e] /\ Cardinality(left[e]) < MaxExpired
           /\ up' = [up EXCEPT ![e] = @ \ {what}]
           /\ left' = [left EXCEPT ![e] = IF expired THEN @ \cup {what} ELSE @]
           /\ stored' = [stored EXCEPT ![e] = @ /\ what # "session"]
    /\ todo' = [todo EXCEPT ![e] = Tail(@)]
    /\ UNCHANGED <<at, forwarded, loaded, issues, services, setups>>

\* _async_unload_loaded_platforms; a failure makes an unload keep the session,
\* its last step, and the store, and a rollback goes on.
PlatformsUnload(e, ok) ==
    /\ at[e] \in {"rollback", "unload"} /\ todo[e] # <<>> /\ Head(todo[e]) = "platforms"
    /\ forwarded' = [forwarded EXCEPT ![e] = IF ok THEN @ \ loaded[e] ELSE @]
    /\ todo' = [todo EXCEPT ![e] = IF ok \/ at[e] = "rollback" THEN Tail(@)
                                      ELSE SubSeq(@, 2, Len(@) - 1)]
    /\ UNCHANGED <<at, up, stored, loaded, left, issues, services, setups>>

\* Mutant: the other entries are not looked at.
NobodyElse(e) == {}
\* The other entries with a store.
OthersUse(e) == {f \in Entries \ {e} : stored[f]}

\* Home Assistant runs the unload callbacks (the listener) after a failed
\* set-up and a successful unload.  An unload gives up the services nobody
\* else uses; a rollback leaves them alone.
CleanedUp(e) ==
    /\ at[e] \in {"rollback", "unload"} /\ todo[e] = <<>>
    /\ up' = [up EXCEPT ![e] = IF stored[e] THEN @ ELSE @ \ {"listener"}]
    /\ services' = (services /\ (at[e] = "unload" => OthersUse(e) # {}))
    /\ IF at[e] = "unload"
       THEN GoTo(e, IF stored[e] THEN "failed_unload" ELSE "not_loaded")
       ELSE \E next \in {"retry", "error"} : GoTo(e, next)
    /\ UNCHANGED <<stored, forwarded, loaded, todo, left, issues, setups>>

EntryStep(e) ==
    \/ \E i \in {"auth_failed", "api_unreachable"} : LoginFails(e, i)
    \/ MetadataFails(e) \/ LoggedIn(e) \/ EventRefreshed(e)
    \/ \E b \in BOOLEAN : NoModbus(e, b) \/ ModbusUp(e, b) \/ KsemUp(e, b) \/ Store(e, b)
    \/ Forward(e) \/ ForwardFails(e) \/ SetupDone(e)
    \/ \E b \in BOOLEAN : CleanupStep(e, b) \/ PlatformsUnload(e, b)
    \/ CleanedUp(e)

EntryNext == \E e \in Entries : SetUp(e) \/ UnloadEntry(e) \/ EntryStep(e)

EntrySpec == EntryInit /\ [][EntryNext]_entryVars

-----------------------------------------------------------------------------

\* An entry that is not set up runs nothing: after a log-in that failed, a
\* rollback and an unload everything was stopped or had its time limit, so
\* that no "zombie tasks ... keep talking to the inverter until HA is
\* restarted"; the exception, an unload that failed, keeps its session.
NothingRuns ==
    \A e \in Entries :
        /\ at[e] \in {"not_loaded", "retry", "error"} => up[e] = {} /\ ~stored[e]
        /\ at[e] = "failed_unload" => up[e] \subseteq {"session", "listener"} /\ stored[e]

\* Who writes through Modbus is stopped before the link is ("Stop Modbus
\* consumers before tearing down the shared client"), in both orders.
WritersFirst ==
    \A e \in Entries : up[e] \cap {"soc", "proxy", "mqtt"} # {} => "modbus" \in up[e]

\* A loaded entry has the services and no issue about its log-in.
LoadedIsWhole ==
    \A e \in Entries : at[e] = "loaded" => services /\ issues[e] = {}

\* A set-up that fails in any step, a rollback and an unload cut off by time
\* limits leave an entry whole or gone, and stop its parts in the right order
\* (async_setup_entry, _rollback_setup, async_unload_entry).
EntryWhole == NothingRuns /\ WritersFirst /\ LoadedIsWhole

\* KEY_LOADED_PLATFORMS: "Platforms that completed async_forward_entry_setups
\* for this entry."  A rollback ends with none of them set up.
RollbackComplete ==
    \A e \in Entries : at[e] \in {"retry", "error"} => forwarded[e] = {}

\* "Unregister services when no loaded KORE runtime entries remain."
ServicesGo == (\A e \in Entries : at[e] \in {"not_loaded", "retry", "error"}) => ~services

=============================================================================
