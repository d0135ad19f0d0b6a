--------------------------- MODULE LegacyMigration ---------------------------
(***************************************************************************)
(* legacy_migration.py: the operations that move the entities and devices  *)
(* of a kostal_plenticore entry ("src") to a kostal_kore entry ("tgt") and *)
(* that clean up behind it, in any order, with either integration set up   *)
(* again in between.                                                       *)
(*                                                                         *)
(* One metric of one inverter.  A unique id is known by the entry it       *)
(* starts with; "foreign" starts with none.  What Home Assistant's         *)
(* registries do with a device or an entry that goes is external.          *)
(***************************************************************************)
EXTENDS FiniteSets, Naturals

CONSTANT MaxMigrations  \* bound: operations and set-ups

EntityIds == {"old", "new", "again"}
DeviceIds == {"ds", "dt"}

VARIABLES
    single,   \* Home Assistant gives a device one owner, not several
    ents,     \* the entity registry: [entry, uid, dev], entry "none" if the id is free
    devs,     \* the device registry: [owners, ident]
    source,   \* the legacy entry: "loaded", "unloaded", "removed"
    migrations

migrationVars == <<single, ents, devs, source, migrations>>

Free == [entry |-> "none", uid |-> "none", dev |-> "none"]
NoDevice == [owners |-> {}, ident |-> {}]
Of(es, entry) == {i \in EntityIds : es[i].entry = entry}
Owned(ds, entry) == {d \in DeviceIds : entry \in ds[d].owners}

\* The legacy entry has its entity and device; so may the new one, and an entity
\* of it may still sit on the legacy device.
MigrationInit ==
    /\ single \in BOOLEAN
    /\ source \in {"loaded", "unloaded"}
    /\ \E uid \in {"src", "foreign"}, kore \in {"absent", "own device", "legacy device"} :
          /\ ents = [i \in EntityIds |->
                IF i = "old" THEN [entry |-> "src", uid |-> uid, dev |-> "ds"]
                ELSE IF i = "new" /\ kore # "absent"
                THEN [entry |-> "tgt", uid |-> "tgt", dev |-> IF kore = "own device" THEN "dt" ELSE "ds"]
                ELSE Free]
          /\ devs = [d \in DeviceIds |->
                IF d = "ds" THEN [owners |-> IF kore = "legacy device" /\ ~single THEN {"src", "tgt"} ELSE {"src"},
                                  ident |-> {"legacy"}]
                ELSE IF kore = "own device" THEN [owners |-> {"tgt"}, ident |-> {"kore"}]
                ELSE NoDevice]
    /\ migrations = 0

-----------------------------------------------------------------------------
(* Home Assistant's registries.                                            *)

\* A device that is gone takes its entities with it.
Swept(es, ds) == [i \in EntityIds |-> IF es[i].dev \in DeviceIds /\ ds[es[i].dev].owners = {} THEN Free ELSE es[i]]

\* async_remove of the entry: its entities, and devices nobody else owns.
EntryGone(es, ds) ==
    LET left == [d \in DeviceIds |->
                   IF ds[d].owners \subseteq {"src"} THEN NoDevice ELSE [ds[d] EXCEPT !.owners = @ \ {"src"}]]
    IN  /\ devs' = left
        /\ ents' = Swept([i \in EntityIds |-> IF es[i].entry = "src" THEN Free ELSE es[i]], left)
        /\ source' = "removed"

\* The legacy integration is set up, as it is at every start while its entry is there.
SourceSetUp ==
    /\ source = "unloaded"
    /\ source' = "loaded"
    /\ LET dev == IF devs["ds"].owners = {} THEN "dt" ELSE "ds"
           free == {i \in {"old", "again"} : ents[i].entry = "none"}
       IN  IF Of(ents, "src") # {} \/ free = {} \/ devs[dev].owners = {} THEN UNCHANGED ents
           ELSE \E i \in free : ents' = [ents EXCEPT ![i] = [entry |-> "src", uid |-> "src", dev |-> dev]]
    /\ UNCHANGED <<single, devs>>

\* KORE is set up: it finds its device and entity by their ids or makes them.
TargetSetUp ==
    /\ LET found == {d \in DeviceIds : "kore" \in devs[d].ident}
           dev == IF found = {} THEN "dt" ELSE CHOOSE d \in found : TRUE
           free == {i \in {"new", "again"} : ents[i].entry = "none"}
       IN  /\ devs' = [devs EXCEPT ![dev] = IF found = {} THEN [owners |-> {"tgt"}, ident |-> {"kore"}] ELSE @]
           /\ IF (\E i \in Of(ents, "tgt") : ents[i].uid = "tgt") \/ free = {} THEN UNCHANGED ents
              ELSE \E i \in free : ents' = [ents EXCEPT ![i] = [entry |-> "tgt", uid |-> "tgt", dev |-> dev]]
    /\ devs' # devs \/ ents' # ents
    /\ UNCHANGED <<single, source>>

-----------------------------------------------------------------------------
(* What the operations share.                                              *)

_rewrite_unique_id(uid) == IF uid = "src" THEN "tgt" ELSE uid

\* Mutant: an entity of the new entry with the same unique id is left.
NoDuplicates(es) == {}
\* Entities of the new entry that the legacy ones replace.
Duplicates(es) ==
    {i \in Of(es, "tgt") : \E e \in Of(es, "src") : es[i].uid = _rewrite_unique_id(es[e].uid)}

\* The legacy entities are bound to the new entry, with its unique ids.
Adopted(es) ==
    [i \in EntityIds |->
        IF i \in Duplicates(es) THEN Free
        ELSE IF es[i].entry = "src" THEN [es[i] EXCEPT !.entry = "tgt", !.uid = _rewrite_unique_id(es[i].uid)]
        ELSE es[i]]

\* Another device of the new entry that is the same inverter.
Match(ds, d) == {t \in Owned(ds, "tgt") \ {d} : ds[t].ident \cap (ds[d].ident \cup {"kore"}) # {}}

\* _async_transfer_device, when the new entry has the device: entities are bound to it.
Rebound(es, ds, d) ==
    [i \in EntityIds |->
        IF Match(ds, d) # {} /\ es[i].entry = "tgt" /\ es[i].dev = d
        THEN [es[i] EXCEPT !.dev = CHOOSE t \in Match(ds, d) : TRUE] ELSE es[i]]

\* _async_transfer_device, when it has not: the device gets the new owner.
Transferred(ds, d, dropSource) ==
    IF Match(ds, d) # {} THEN ds
    ELSE [ds EXCEPT ![d] = [owners |-> IF single THEN {"tgt"}
                                       ELSE (@.owners \cup {"tgt"}) \ (IF dropSource THEN {"src"} ELSE {}),
                            ident |-> @.ident \cup {"kore"}]]

\* The one legacy device, if there is one.
LegacyDevice(ds) == Owned(ds, "src")
Moved(es, ds) == IF LegacyDevice(ds) = {} THEN es ELSE Rebound(es, ds, CHOOSE d \in LegacyDevice(ds) : TRUE)
MovedDevices(ds, dropSource) ==
    IF LegacyDevice(ds) = {} THEN ds ELSE Transferred(ds, CHOOSE d \in LegacyDevice(ds) : TRUE, dropSource)

\* _select_source_entry finds the legacy entry; no device of it is ambiguous.
_preflight_devices ==
    source # "removed" /\ \A d \in LegacyDevice(devs) : Cardinality(Match(devs, d)) <= 1

-----------------------------------------------------------------------------
(* The operations.                                                         *)

\* adopt_legacy_entity_ids; a dry run changes nothing.
adopt_legacy_entity_ids ==
    /\ _preflight_devices
    /\ ents' = Moved(Adopted(ents), devs)
    /\ devs' = MovedDevices(devs, FALSE)
    /\ source' = "unloaded"
    /\ UNCHANGED single

\* migrate_legacy_plenticore_entry
migrate_legacy_plenticore_entry(remove) ==
    /\ _preflight_devices
    /\ IF remove THEN EntryGone(Moved(Adopted(ents), devs), MovedDevices(devs, TRUE))
       ELSE ents' = Moved(Adopted(ents), devs) /\ devs' = MovedDevices(devs, FALSE) /\ source' = "unloaded"
    /\ UNCHANGED single

\* Mutant: the legacy device is removed whatever is on it.
NothingPreserved(es, d) == FALSE
\* An entity of the new entry is on the legacy device.
Preserved(es, d) == \E i \in Of(es, "tgt") : es[i].dev = d

\* finalize_legacy_cleanup, of one legacy device with one owner.
FinalizedSingle(es, ds, d) ==
    IF Preserved(es, d) /\ Match(ds, d) = {}
    THEN EntryGone(es, [ds EXCEPT ![d] = [owners |-> {"tgt"}, ident |-> {"kore"}]])
    ELSE LET left == [ds EXCEPT ![d] = NoDevice]
         IN  EntryGone(Swept(IF Preserved(es, d) THEN Rebound(es, ds, d) ELSE es, left), left)

\* Devices of the new entry lose their legacy ids: with one owner per device all
\* of them, otherwise those the legacy entry shares.
Cleaned(ds) ==
    [d \in DeviceIds |->
        IF "tgt" \in ds[d].owners /\ (single \/ "src" \in ds[d].owners)
        THEN [ds[d] EXCEPT !.ident = {"kore"}] ELSE ds[d]]

finalize_legacy_cleanup ==
    /\ _preflight_devices
    /\ LET es == [i \in EntityIds |-> IF ents[i].entry = "src" THEN Free ELSE ents[i]]
       IN  IF single /\ LegacyDevice(devs) # {}
           THEN FinalizedSingle(es, Cleaned(devs), CHOOSE d \in LegacyDevice(devs) : TRUE)
           ELSE EntryGone(es, Cleaned(devs))
    /\ UNCHANGED single

MigrationNext ==
    /\ migrations < MaxMigrations /\ migrations' = migrations + 1
    /\ \/ SourceSetUp \/ TargetSetUp \/ adopt_legacy_entity_ids \/ finalize_legacy_cleanup
       \/ \E remove \in BOOLEAN : migrate_legacy_plenticore_entry(remove)

MigrationSpec == MigrationInit /\ [][MigrationNext]_migrationVars

-----------------------------------------------------------------------------

\* The entity registry never has two entities with one unique id.
UniqueIdsUnique ==
    \A i, j \in EntityIds : i # j /\ ents[i].uid = ents[j].uid => ents[i].uid = "none"

\* When the legacy entry goes, every metric the new entry has keeps its entity,
\* wherever its device stood.
AdoptedSurvive ==
    source' = "removed" =>
      \A i \in Of(ents, "tgt") : \E j \in Of(ents', "tgt") : ents'[j].uid = ents[i].uid

\* Adopting, migrating and finalising in any order keep the registry sound and
\* lose no metric (legacy_migration.py).
MigrationKeeps == [][UniqueIdsUnique' /\ AdoptedSurvive]_migrationVars

\* "It is safe to re-run": adopting again does not take an entity id that was
\* adopted, and with it the history, away.
ReRunSafe ==
    [][ents["old"].entry = "tgt" => ents'["old"].entry = "tgt"]_migrationVars

=============================================================================
