---------------------------- MODULE NumberRegistry ----------------------------
(***************************************************************************)
(* entity_registry_helpers.py: the registry rows of a critical number over *)
(* starts of the integration.  The inverter knows the setting by its id or *)
(* by the misspelt one of older firmware, and each makes another unique    *)
(* id; before the entities are added and after all platforms are up, rows  *)
(* are migrated, enabled and disabled.  Home Assistant reloads an entry    *)
(* 30 s after one of its entities was enabled.                             *)
(*                                                                         *)
(* One critical number.  Its rows all have a name that ends in the         *)
(* number's.  What Home Assistant does is external.                        *)
(***************************************************************************)
EXTENDS FiniteSets, Naturals

CONSTANT MaxToggles  \* bound: rows enabled or disabled by the user

RowIds == {"r1", "r2", "r3"}

VARIABLES
    uids,       \* unique id of each row: "canonical", "legacy", "obsolete", "none"
    disabledBy, \* of each row: "nobody", "user", "integration"
    setUp,      \* "down", "migrated", "added", "up"
    used,       \* the id the entity of this start is made with
    reload,     \* Home Assistant's 30 s timer runs
    toggles

registryVars == <<uids, disabledBy, setUp, used, reload, toggles>>

Enabled == {r \in RowIds : uids[r] # "none" /\ disabledBy[r] = "nobody"}

NumberRegistryInit ==
    /\ \E u \in {"none", "canonical", "legacy", "obsolete"}, by \in {"nobody", "user", "integration"} :
          /\ uids = [r \in RowIds |-> IF r = "r1" THEN u ELSE "none"]
          /\ disabledBy = [r \in RowIds |-> IF r = "r1" /\ u # "none" THEN by ELSE "nobody"]
    /\ setUp = "down" /\ used = "canonical" /\ reload = FALSE /\ toggles = 0

\* The row taken for the number: the one with its id, else one with a legacy id.
_resolve_expected_registry_entry(rows) ==
    LET with(u) == {r \in RowIds : rows[r] = u}
    IN  IF with("canonical") # {} THEN with("canonical") ELSE with("legacy")

\* update_disabled_by_if_changed(..., None), and Home Assistant's timer.
update_disabled_by_if_changed(rows) ==
    /\ disabledBy' = [r \in RowIds |-> IF r \in rows THEN "nobody" ELSE disabledBy[r]]
    /\ reload' = (reload \/ \E r \in rows : disabledBy[r] # "nobody")

\* A row without a known id becomes the number's, if there is no other.
Renamed == IF _resolve_expected_registry_entry(uids) = {} THEN {r \in RowIds : uids[r] = "obsolete"} ELSE {}

\* Mutant: every row of the name is enabled.
EnablesAll == {r \in RowIds : uids[r] # "none"}
\* The rows that are enabled before the entities are added.
Revived == _resolve_expected_registry_entry(uids) \cup Renamed

\* A start: number.py has read which id the inverter knows, or nothing.
migrate_number_registry_before_add(known) ==
    /\ setUp = "down"
    /\ used' = IF known = "legacy" THEN "legacy" ELSE "canonical"
    /\ uids' = [r \in RowIds |-> IF r \in Renamed THEN "canonical" ELSE uids[r]]
    /\ update_disabled_by_if_changed(Revived)
    /\ setUp' = "migrated"
    /\ UNCHANGED toggles

\* async_add_entities: the entity finds its row or gets a new one.
AddNumber ==
    /\ setUp = "migrated" /\ setUp' = "added"
    /\ IF \E r \in RowIds : uids[r] = used THEN UNCHANGED uids
       ELSE LET r == CHOOSE r \in RowIds : uids[r] = "none" IN uids' = [uids EXCEPT ![r] = used]
    /\ UNCHANGED <<disabledBy, used, reload, toggles>>

\* All other rows of the name.
NumberDuplicates == {r \in RowIds : uids[r] # "none"} \ _resolve_expected_registry_entry(uids)

\* ensure_critical_numbers_enabled, once all platforms are up.
ensure_critical_numbers_enabled ==
    /\ setUp = "added" /\ setUp' = "up"
    /\ LET kept == _resolve_expected_registry_entry(uids)
       IN  /\ disabledBy' = [r \in RowIds |-> IF r \in kept THEN "nobody"
                                              ELSE IF r \in NumberDuplicates THEN "integration"
                                              ELSE disabledBy[r]]
           /\ reload' = (reload \/ \E r \in kept : disabledBy[r] # "nobody")
    /\ UNCHANGED <<uids, used, toggles>>

\* The user enables or disables a row.
UserToggles(r) ==
    /\ toggles < MaxToggles /\ uids[r] # "none" /\ toggles' = toggles + 1
    /\ disabledBy' = [disabledBy EXCEPT ![r] = IF @ = "nobody" THEN "user" ELSE "nobody"]
    /\ reload' = (reload \/ disabledBy[r] # "nobody")
    /\ UNCHANGED <<uids, setUp, used>>

\* The timer has run out, and the entry is reloaded.
TimedReload == setUp = "up" /\ reload /\ setUp' = "down" /\ reload' = FALSE /\ UNCHANGED <<uids, disabledBy, used, toggles>>

\* Home Assistant is restarted, or the user reloads the entry.
EntryRestart == setUp = "up" /\ setUp' = "down" /\ reload' = FALSE /\ UNCHANGED <<uids, disabledBy, used, toggles>>

NumberSetUp == (\E k \in {"canonical", "legacy", "nothing"} : migrate_number_registry_before_add(k)) \/ AddNumber
               \/ ensure_critical_numbers_enabled

NumberRegistryNext == NumberSetUp \/ TimedReload \/ EntryRestart \/ \E r \in RowIds : UserToggles(r)

-----------------------------------------------------------------------------

\* Setting up leaves one enabled row of a critical number, whatever ids the
\* inverter has known it by and whatever the user has enabled.
OneNumberEnabled == [][setUp' = "up" /\ setUp # "up" => Cardinality(Enabled') = 1]_registryVars

\* No reload loop: what set-up does to the rows never starts Home Assistant's
\* reload timer for ever, even if each start finds another id.
ReloadsEnd == <>[](~reload)

\* Set-up settles the rows of a critical number: one is enabled, and the
\* reloads this causes end (entity_registry_helpers.py).
RegistrySettles == OneNumberEnabled /\ ReloadsEnd

\* "Enable critical battery numbers and disable duplicate registry rows": the
\* row of the entity this start has made is enabled.
CriticalEnabled ==
    [][setUp' = "up" /\ setUp # "up" => \E r \in Enabled' : uids'[r] = used']_registryVars

=============================================================================
