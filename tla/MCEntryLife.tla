----------------------------- MODULE MCEntryLife -----------------------------
(***************************************************************************)
(* The life of a config entry around its data paths, side by side: how it  *)
(* is configured, set up, migrated, served to others and unloaded, and     *)
(* what it keeps over restarts.  Each behaviour is one of one part, chosen *)
(* at the start, while the others stay as they begin; the parts share no   *)
(* state.                                                                  *)
(***************************************************************************)
EXTENDS EntityDiscovery, EntryLifecycle, ConfigFlow, LegacyMigration, HistoryCopy, ProxyServer,
        HealthScore, SohStore

VARIABLE part

vars == <<part, discoveryVars, entryVars, flowVars, migrationVars, copyVars, proxyVars,
          isolationVars, scoreVars, sohVars>>

Parts == {"discovery", "lifecycle", "flow", "migration", "copy", "proxy", "isolation", "score",
          "soh"}

\* Two 120 V, 50 Hz phases.
MCGridKind == <<500, 120>>

\* Copies of one entity, of a chain, and of a swap.
MCMappings == {<<<<"l1", "k1">>>>, <<<<"l1", "k1">>, <<"l2", "l1">>>>, <<<<"l2", "k1">>, <<"k1", "l1">>>>}

DiscoveryAtRest ==
    ~inverter.battery /\ "legacy" \notin inverter.offered /\ store.modbus /\ store.told = 0 /\ store.modules
FlowAtRest ==
    /\ entries[First].host = CHOOSE h \in Hosts : TRUE
    /\ entries[First].options = [modbus |-> TRUE, proxy |-> FALSE, bind |-> "ip"]
MigrationAtRest ==
    single /\ source = "loaded" /\ ents["old"].uid = "src" /\ ents["new"].entry = "none"
CopyAtRest ==
    registered = KoreIds /\ \A e \in AllIds : stats[e] = [unit |-> "W", rows |-> {}]

\* A part that is not looked at begins in one of its initial states.
Init ==
    /\ part \in Parts
    /\ DiscoveryInit /\ (part = "discovery" \/ DiscoveryAtRest)
    /\ EntryInit
    /\ FlowInit /\ (part = "flow" \/ FlowAtRest)
    /\ MigrationInit /\ (part = "migration" \/ MigrationAtRest)
    /\ CopyInit /\ (part = "copy" \/ CopyAtRest)
    /\ ProxyInit
    /\ IsolationInit
    /\ ScoreInit
    /\ SohInit

OthersStay ==
    /\ IF part = "discovery" THEN TRUE ELSE UNCHANGED discoveryVars
    /\ IF part = "lifecycle" THEN TRUE ELSE UNCHANGED entryVars
    /\ IF part = "flow" THEN TRUE ELSE UNCHANGED flowVars
    /\ IF part = "migration" THEN TRUE ELSE UNCHANGED migrationVars
    /\ IF part = "copy" THEN TRUE ELSE UNCHANGED copyVars
    /\ IF part = "proxy" THEN TRUE ELSE UNCHANGED proxyVars
    /\ IF part = "isolation" THEN TRUE ELSE UNCHANGED isolationVars
    /\ IF part = "score" THEN TRUE ELSE UNCHANGED scoreVars
    /\ IF part = "soh" THEN TRUE ELSE UNCHANGED sohVars

Next ==
    /\ \/ part = "discovery" /\ DiscoveryNext
       \/ part = "lifecycle" /\ EntryNext
       \/ part = "flow" /\ FlowNext
       \/ part = "migration" /\ MigrationNext
       \/ part = "copy" /\ CopyNext
       \/ part = "proxy" /\ ProxyNext
       \/ part = "isolation" /\ IsolationNext
       \/ part = "score" /\ ScoreNext
       \/ part = "soh" /\ SohNext
    /\ OthersStay
    /\ UNCHANGED part

Spec == Init /\ [][Next]_vars

=============================================================================
