---------------------------- MODULE EntityDiscovery --------------------------
(* Which REST entities the platforms create: async_setup_entry of sensor.py,  *)
(* number.py, switch.py and select.py, which run side by side, each with its  *)
(* own requests, retries and fall-backs, over one settings cache.  A few ids  *)
(* stand for the descriptions of each kind.                                   *)
EXTENDS Naturals, FiniteSets

CONSTANTS
    MaxInputs,     \* bound on the DC inputs of the inverter
    MAX_SANE_STRING_COUNT

ASSUME SaneInputs ==
    /\ MaxInputs \in Nat /\ MAX_SANE_STRING_COUNT \in Nat
    /\ MaxInputs <= MAX_SANE_STRING_COUNT /\ 2 <= MAX_SANE_STRING_COUNT

Inputs == 1 .. MaxInputs
Corrupt == MAX_SANE_STRING_COUNT + 1   \* a string count no inverter has
\* "min_soc", "manual" and "mode" are in the lists FORCE_CREATE_KEYS; "legacy" is the old id of "home".
NumberIds == {"min_soc", "home", "limit", "charge_dc"}
SwitchIds == {"manual", "strategy", "backup"}
SettingIds == NumberIds \cup SwitchIds \cup {"legacy", "mode"}
ForcedIds == {"min_soc", "manual", "mode"}
ModbusOnlyIds == {"charge_dc"}
InstallerIds == {"backup"}

VARIABLES
    inverter,  \* what it has: inputs that carry PV, a battery on the last one, settings offered, shadow support
    store,     \* what the set-up of the entry left for the platforms, and the entry's rights
    settings_cache, \* _settings_cache is filled
    plat,      \* per platform: where its set-up is
    fetched,   \* per platform: the catalogue or settings it got, or nothing
    dc_string_count,
    dc_string_features, \* strings the switch platform knows to support shadow management
    created,   \* entities
    strings    \* DC strings that have an entity: [pv |-> sensors, shadow |-> switches]

discoveryVars == <<inverter, store, settings_cache, plat, fetched, dc_string_count,
                   dc_string_features, created, strings>>

Platforms == {"sensor", "number", "switch", "select"}

\* told is what Modbus says of the inputs, 0 without Modbus; modules is FALSE
\* when the list of modules could not be read.
DiscoveryInit ==
    /\ \E battery \in BOOLEAN :
         inverter \in [battery : {battery}, pv : {IF battery THEN 1 .. (MaxInputs - 1) ELSE Inputs},
                       offered : {SettingIds \ {"legacy"}, SettingIds \ {"home"}}, shadow : {{1}}]
    /\ store \in [modbus : {FALSE}, ksem : {FALSE}, told : {0}, installer : BOOLEAN, modules : BOOLEAN]
            \cup [modbus : {TRUE}, ksem : {TRUE}, told : {0, MaxInputs, Corrupt}, installer : {FALSE}, modules : BOOLEAN]
    /\ settings_cache = FALSE
    /\ plat = [p \in Platforms |-> "fetch"]
    /\ fetched = [p \in Platforms |-> FALSE]
    /\ dc_string_count = 0
    /\ dc_string_features = {}
    /\ created = {}
    /\ strings = [pv |-> {}, shadow |-> {}]

Goes(p, pc) == plat' = [plat EXCEPT ![p] = pc]
Creates(s) == created' = created \cup s

-----------------------------------------------------------------------------
(* The sensors.                                                            *)

\* The catalogue of process data, or none of it after 10 s or an error.
FetchCatalogue(ok) ==
    /\ plat["sensor"] = "fetch"
    /\ fetched' = [fetched EXCEPT !["sensor"] = ok]
    /\ Goes("sensor", "count")
    /\ UNCHANGED <<inverter, store, settings_cache, dc_string_count, dc_string_features, created, strings>>

\* Modbus first, and clamped; else REST; else two.
Clamped(n) == IF n > MAX_SANE_STRING_COUNT THEN MAX_SANE_STRING_COUNT ELSE n

CountStrings(restOk) ==
    /\ plat["sensor"] = "count"
    /\ dc_string_count' = IF store.told > 0 THEN Clamped(store.told)
                          ELSE IF restOk THEN MaxInputs ELSE 2
    /\ Goes("sensor", "create")
    /\ UNCHANGED <<inverter, store, settings_cache, fetched, dc_string_features, created, strings>>

\* Mutant: the inputs of the hardware are taken for PV strings.
AnyInput(n) == TRUE
\* What the catalogue advertises decides, when there is one.
Advertised(n) == n \in inverter.pv

\* generate_dc_sensor_descriptions and generate_pv_energy_sensor_descriptions:
\* one set of sensors for each counted string.
DcDescriptions == 1 .. dc_string_count

\* The sensors of the parts the entry has: the events, Modbus with its
\* monitors, the energy meter with the preferred grid power.
StoreSensors ==
    {"events"} \cup (IF store.modbus THEN {"modbus", "monitors"} ELSE {})
               \cup (IF store.ksem THEN {"ksem", "preferred_grid"} ELSE {})

\* create_entities_batch, and the sensors that need no catalogue.
CreateSensors ==
    /\ plat["sensor"] = "create"
    /\ Creates({"pv_sum", "calculated"} \cup StoreSensors
               \cup IF fetched["sensor"] /\ ~inverter.battery THEN {} ELSE {"battery"})
    /\ strings' = [strings EXCEPT !.pv = {n \in DcDescriptions : ~fetched["sensor"] \/ Advertised(n)}]
    /\ Goes("sensor", "done")
    /\ UNCHANGED <<inverter, store, settings_cache, fetched, dc_string_count, dc_string_features>>

-----------------------------------------------------------------------------
(* The settings, for the other three: a second attempt after a second.      *)

\* One second attempt.
AfterFailure(p) == IF plat[p] = "fetch" THEN "retry" ELSE IF p = "switch" THEN "data" ELSE "create"

\* What a fetch gives: the settings, also from the cache, or nothing after
\* the time limit or an error.
GotSettings(ok) == settings_cache \/ ok

FetchSettings(p, ok) ==
    /\ p # "sensor" /\ plat[p] \in {"fetch", "retry"}
    /\ fetched' = [fetched EXCEPT ![p] = GotSettings(ok)]
    /\ Goes(p, IF ~GotSettings(ok) THEN AfterFailure(p)
               ELSE IF p = "switch" THEN "data" ELSE "create")
    /\ settings_cache' = (settings_cache \/ ok)
    /\ UNCHANGED <<inverter, store, dc_string_count, dc_string_features, created, strings>>

\* Mutant: without the settings there are no entities.
NoneForced(p) == {}
\* The keys of FORCE_CREATE_KEYS, where the module is known to be there: from
\* the list of modules or, without one, from the settings.  The select takes
\* a missing list for a yes.
Forced(p) == IF store.modules \/ fetched[p] \/ p = "select" THEN ForcedIds ELSE {}

\* Mutant: with a list of modules the offered ids are not looked at.
KnownModules(p, ids) == {i \in ids : store.modules \/ i \in inverter.offered \/ i \in Forced(p)}
\* The ids of a platform that are offered, as far as it knows, or forced.
Known(p, ids) == {i \in ids : (fetched[p] /\ i \in inverter.offered) \/ i \in Forced(p)}

\* A legacy id that is offered takes the place of the new one; ids that
\* Modbus writes are left to it.
CreateNumbers ==
    /\ plat["number"] = "create"
    /\ LET legacy == fetched["number"] /\ "legacy" \in inverter.offered
       IN  Creates({IF legacy /\ i = "home" THEN "legacy" ELSE i :
                        i \in Known("number", NumberIds) \ ModbusOnlyIds}
                   \cup IF legacy THEN {"legacy"} ELSE {})
    /\ Goes("number", "done")
    /\ UNCHANGED <<inverter, store, settings_cache, fetched, dc_string_count, dc_string_features, strings>>

\* _validate_select_options, or forced.
CreateSelect ==
    /\ plat["select"] = "create"
    /\ Creates(Known("select", {"mode"}))
    /\ Goes("select", "done")
    /\ UNCHANGED <<inverter, store, settings_cache, fetched, dc_string_count, dc_string_features, strings>>

\* ensure_installer_access.
Accessible == {i \in SwitchIds : i \notin InstallerIds \/ store.installer}

\* The charge-block and feed-in switches come with Modbus.
ModbusSwitches == IF store.modbus THEN {"charge_block"} ELSE {}

\* The data switches are settled; shadow management is asked about only when
\* the settings came.
CollectSwitches ==
    /\ plat["switch"] = "data"
    /\ Creates({"arm"} \cup ModbusSwitches \cup (Known("switch", SwitchIds) \cap Accessible))
    /\ Goes("switch", IF fetched["switch"] THEN "features" ELSE "done")
    /\ UNCHANGED <<inverter, store, settings_cache, fetched, dc_string_count, dc_string_features, strings>>

\* One query for the features of all strings of StringCnt, or one for each
\* when the inverter refuses that with a 500; a failed one leaves its string out.
ProbeFeatures ==
    /\ plat["switch"] = "features"
    /\ \E count \in {0, MaxInputs} :
         \/ dc_string_features' = inverter.shadow \cap (1 .. count)
         \/ dc_string_features' \in SUBSET (inverter.shadow \cap (1 .. count))
    /\ Goes("switch", "shadow")
    /\ UNCHANGED <<inverter, store, settings_cache, fetched, dc_string_count, created, strings>>

CreateShadow ==
    /\ plat["switch"] = "shadow"
    /\ strings' = [strings EXCEPT !.shadow = dc_string_features]
    /\ Goes("switch", "done")
    /\ UNCHANGED <<inverter, store, settings_cache, fetched, dc_string_count, dc_string_features, created>>

DiscoveryNext ==
    \/ \E ok \in BOOLEAN : \/ FetchCatalogue(ok) \/ CountStrings(ok)
                           \/ \E p \in Platforms : FetchSettings(p, ok)
    \/ CreateSensors \/ CreateNumbers \/ CreateSelect
    \/ CollectSwitches \/ ProbeFeatures \/ CreateShadow

DiscoverySpec == DiscoveryInit /\ [][DiscoveryNext]_discoveryVars

-----------------------------------------------------------------------------

\* No sensor is made for an input that carries the battery, nor for one the
\* inverter does not have, once the catalogue was read, however wrong the
\* string count; without it there are no more than a sane number.
NoPhantomSensor ==
    \A n \in 1 .. Corrupt : n \in strings.pv =>
        IF fetched["sensor"] THEN n \in inverter.pv ELSE n <= MAX_SANE_STRING_COUNT

\* The entities of FORCE_CREATE_KEYS, the arming switch and the battery's
\* sensors are there at the end of the set-up whatever request failed, if one
\* of them said that the module exists: they "appear as Unavailable rather
\* than missing entirely".  What Modbus writes has no REST number.
KeyEntitiesThere ==
    (\A p \in Platforms : plat[p] = "done") =>
        /\ {"mode", "arm", "pv_sum", "calculated"} \subseteq created
        /\ store.modules => ForcedIds \subseteq created
        /\ inverter.battery => "battery" \in created
        /\ "charge_dc" \notin created

\* Nothing is created that the inverter does not offer, forced ids apart, and
\* never both ids of one setting, nor an installer's switch for a user.
NothingUnoffered ==
    /\ (created \cap SettingIds) \ ForcedIds \subseteq inverter.offered
    /\ ~({"home", "legacy"} \subseteq created)
    /\ "backup" \in created => store.installer

\* The set-up makes the entities the inverter has and no others, whichever of
\* its requests failed (async_setup_entry of the platforms).
EntitiesRight == NoPhantomSensor /\ KeyEntitiesThere /\ NothingUnoffered

=============================================================================
