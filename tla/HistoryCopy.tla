----------------------------- MODULE HistoryCopy -----------------------------
(***************************************************************************)
(* The services that rewrite the recorder's history: copy_legacy_history   *)
(* of migration_services.py, behind its two confirmations, and             *)
(* apply_orphan_history_mapping of orphan_history.py, which uses the same  *)
(* engine.                                                                 *)
(*                                                                         *)
(* A row is known by where it was recorded: states rows by their entity,   *)
(* statistics rows by entity and start.  The recorder keeps one            *)
(* StatisticsMeta per statistic_id, so the code's branch for several of    *)
(* them is not reached.                                                    *)
(***************************************************************************)
EXTENDS Naturals, Sequences, SequencesExt

CONSTANTS
    LegacyIds,   \* entity ids that match a legacy pattern
    KoreIds,     \* entity ids of the kostal_kore platform
    Starts,      \* start times of statistics rows
    UnitsOf,     \* units of statistics
    Mappings,    \* entity maps a caller may ask for, sequences of <<old, new>>
    MaxCopies    \* bound: calls that change the recorder

AllIds == LegacyIds \cup KoreIds

ASSUME CopyConstants ==
    /\ LegacyIds \cap KoreIds = {}
    /\ \A m \in Mappings : \A i \in DOMAIN m : m[i][1] \in AllIds /\ m[i][2] \in AllIds

VARIABLES
    states,      \* rows of States under the metadata of each entity
    stats,       \* [unit, rows] of the statistics of each entity; no rows, no metadata
    registered,  \* entity ids in the entity registry
    guard,       \* [phase, payload] of copy_legacy_history
    asked,       \* history: what each step was about: [payload, steps]
    rebound,     \* history: ids whose rows apply_orphan_mapping took
    copies

copyVars == <<states, stats, registered, guard, asked, rebound, copies>>

IdleGuard == [phase |-> "idle", payload |-> <<>>]
Row(e, t, u) == [from |-> e, start |-> t, unit |-> u]

CopyInit ==
    /\ states = [e \in AllIds |-> {e}]
    /\ \E u \in [AllIds -> UnitsOf], s \in [AllIds -> SUBSET Starts] :
          stats = [e \in AllIds |-> [unit |-> u[e], rows |-> {Row(e, t, u[e]) : t \in s[e]}]]
    /\ registered \in {KoreIds, AllIds}
    /\ guard = IdleGuard /\ asked = [payload |-> <<>>, steps |-> 0] /\ rebound = {} /\ copies = 0

-----------------------------------------------------------------------------
(* The engine.                                                             *)

\* Mutant: the metadata of the new entity is deleted with its rows.
DropsNew(s, old, new) == [s EXCEPT ![new] = s[old], ![old] = {}]
\* _merge_states_metadata: the rows of the new entity join the old ones, and
\* the old metadata takes the new name.
_merge_states_metadata(s, old, new) ==
    IF s[old] = {} THEN s ELSE [s EXCEPT ![new] = s[old] \cup s[new], ![old] = {}]

\* Mutant: units are not compared.
AnyUnit(a, b) == TRUE
\* Rows of two units are never merged.
UnitsAgree(a, b) == a = b

\* _merge_statistics_table: where both have a row, the old one stays.
_merge_statistics_table(old, new) == old \cup {r \in new : \A o \in old : o.start # r.start}

\* _merge_statistics_metadata
_merge_statistics_metadata(s, old, new) ==
    IF s[old].rows = {} THEN s
    ELSE IF s[new].rows # {} /\ ~UnitsAgree(s[old].unit, s[new].unit) THEN s
    ELSE [s EXCEPT ![new] = [unit |-> s[old].unit, rows |-> _merge_statistics_table(s[old].rows, s[new].rows)],
                   ![old].rows = {}]

\* _copy_legacy_history_sync: all mappings in one transaction, which is
\* committed, or rolled back when a step of it fails.
_copy_legacy_history_sync(mapping) ==
    /\ copies < MaxCopies /\ copies' = copies + 1
    /\ \/ /\ states' = FoldLeft(LAMBDA s, p : _merge_states_metadata(s, p[1], p[2]), states, mapping)
          /\ stats' = FoldLeft(LAMBDA s, p : _merge_statistics_metadata(s, p[1], p[2]), stats, mapping)
       \/ UNCHANGED <<states, stats>>

-----------------------------------------------------------------------------
(* The services.                                                           *)

\* _normalise_mapping_rows: a target has one source, an id is not its own.
_normalise_mapping_rows(m) ==
    /\ m # <<>>
    /\ \A i \in DOMAIN m : m[i][1] # m[i][2]
    /\ \A i, j \in DOMAIN m : m[i][2] = m[j][2] => m[i][1] = m[j][1]

\* Mutant: the parameters of a confirmation are not compared.
AnyPayload(m) == TRUE
\* The payload fingerprint is the one the challenge was issued for.
SamePayload(m) == m = guard.payload

\* _ensure_guard_confirmed: the call is a challenge, a changed map or the code,
\* which arms the last step; anything else leaves the guard.
Challenged(m, code) ==
    \/ /\ guard.phase = "idle"
       /\ guard' = [phase |-> "code", payload |-> m] /\ asked' = [payload |-> m, steps |-> 1]
    \/ /\ guard.phase # "idle" /\ ~SamePayload(m)
       /\ guard' = IdleGuard /\ UNCHANGED asked
    \/ /\ guard.phase = "code" /\ SamePayload(m) /\ code
       /\ guard' = [guard EXCEPT !.phase = "final"]
       /\ asked' = [asked EXCEPT !.steps = IF m = asked.payload THEN 2 ELSE 0]

\* It lets the call through.
GuardConfirmed(m, code, final) ==
    /\ guard.phase = "final" /\ SamePayload(m) /\ code /\ final
    /\ guard' = IdleGuard
    /\ asked' = [asked EXCEPT !.steps = IF m = asked.payload THEN @ + 1 ELSE 0]

\* _handle_copy_history_service: a preview, a step of the guard, or the copy.
CopyService(m, dry, code, final) ==
    /\ _normalise_mapping_rows(m)
    /\ \/ dry /\ guard' = IdleGuard /\ UNCHANGED <<asked, states, stats, copies>>
       \/ ~dry /\ Challenged(m, code) /\ UNCHANGED <<states, stats, copies>>
       \/ ~dry /\ GuardConfirmed(m, code, final) /\ _copy_legacy_history_sync(m)
    /\ UNCHANGED <<registered, rebound>>

\* The challenge expires: the next call finds it so.
GuardExpires ==
    /\ guard.phase # "idle"
    /\ guard' = IdleGuard
    /\ UNCHANGED <<states, stats, registered, asked, rebound, copies>>

\* apply_orphan_mapping: of the pairs, those from a legacy name to an entity of
\* the platform.
Accepted(m) == SelectSeq(m, LAMBDA p : p[1] \in LegacyIds /\ p[2] \in KoreIds)

ApplyOrphans(m) ==
    /\ Accepted(m) # <<>>
    /\ _copy_legacy_history_sync(Accepted(m))
    /\ rebound' = rebound \cup {Accepted(m)[i][1] : i \in DOMAIN Accepted(m)}
    /\ UNCHANGED <<registered, guard, asked>>

CopyNext ==
    \/ \E m \in Mappings : \E dry, code, final \in BOOLEAN : CopyService(m, dry, code, final)
    \/ GuardExpires
    \/ \E m \in Mappings : ApplyOrphans(m)

-----------------------------------------------------------------------------

\* No row of the history is lost, and none belongs to two entities, whatever is
\* merged in whatever order.
RowsConserved ==
    /\ UNION {states[e] : e \in AllIds} = AllIds
    /\ \A a, b \in AllIds : a # b => states[a] \cap states[b] = {}

\* The statistics of an entity have one unit and one row for a start.
StatisticsSound ==
    \A e \in AllIds : \A r, q \in stats[e].rows :
        r.unit = stats[e].unit /\ (r.start = q.start => r = q)

\* Nothing is copied that was not confirmed twice, with the same entity map at
\* each of the three calls.
ConfirmedTwice == copies' # copies /\ rebound' = rebound /\ guard'.phase = "idle" /\ guard.phase # "idle" => asked'.steps = 3

\* Copying loses and mixes no history, and is done only for the list that was
\* confirmed (_merge_states_metadata, _merge_statistics_table, _ensure_guard_confirmed).
HistoryKept == [][RowsConserved' /\ StatisticsSound' /\ ConfirmedTwice]_copyVars

\* "Re-bind orphan Recorder rows to current KORE entities": an orphan has "no
\* corresponding Entity Registry entry".
OnlyOrphans == rebound \cap registered = {}

=============================================================================
