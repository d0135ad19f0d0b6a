----------------------------- MODULE EventHistory ----------------------------
(* The inverter's event log as EventDataUpdateCoordinator keeps it: a bounded *)
(* history without repetitions and a snapshot that outlives short failures.   *)
(* Time is counted in polls.                                                  *)
EXTENDS Naturals, Sequences

CONSTANTS
    Signatures,       \* code, category and activity of an event
    EventHistoryMax,  \* EVENT_HISTORY_MAX
    Cooldown,         \* EVENT_DEDUP_COOLDOWN_SECONDS
    ForgetAfter,      \* ten times that in the code
    MaxSnapshotAge,   \* STALE_DATA_MAX_AGE_SECONDS
    MaxPolls          \* bound on time

ASSUME EventConstants ==
    /\ Cooldown \in Nat /\ ForgetAfter \in Nat /\ Cooldown < ForgetAfter
    /\ EventHistoryMax \in Nat
    /\ MaxSnapshotAge \in Nat \ {0} /\ MaxPolls \in Nat

VARIABLES
    clock,             \* time.monotonic()
    event_history,     \* _history, newest first, with the time of the record
    last_signature_ts, \* time a signature was recorded; Never when it is not kept
    snapshot,          \* _last_result: when it was made and how many events it counted; empty is {}
    event_data         \* coordinator.data, as snapshot

eventVars == <<clock, event_history, last_signature_ts, snapshot, event_data>>

Never == 0
NoSnapshot == [made |-> 0, size |-> 0]

EventsInit ==
    /\ clock = 1
    /\ event_history = <<>>
    /\ last_signature_ts = [s \in Signatures |-> Never]
    /\ snapshot = NoSnapshot /\ event_data = NoSnapshot

\* Mutant: every sighting is recorded.
AlwaysNew(ts, now, s) == TRUE
IsNew(ts, now, s) == ts[s] = Never \/ now - ts[s] >= Cooldown

\* Mutant: signatures are never forgotten.
KeepsAll(ts, now) == ts
Pruned(ts, now) ==
    [s \in Signatures |-> IF ts[s] # Never /\ ts[s] + ForgetAfter < now THEN Never ELSE ts[s]]

\* Mutant: the deque has no maxlen.
Unbounded(h) == h
Bounded(h) == SubSeq(h, 1, IF Len(h) < EventHistoryMax THEN Len(h) ELSE EventHistoryMax)

\* _append_history_if_new: the history and the map b after an event was seen.
AppendIfNew(b, s, now) ==
    IF IsNew(b.ts, now, s)
    THEN [h |-> Bounded(<<[sig |-> s, at |-> now]>> \o b.h), ts |-> Pruned([b.ts EXCEPT ![s] = now], now)]
    ELSE b

\* The same for the events of one answer in their order.
Recorded(events, now) ==
    LET step[i \in 0 .. Len(events)] ==
          IF i = 0 THEN [h |-> event_history, ts |-> last_signature_ts]
          ELSE AppendIfNew(step[i - 1], events[i], now)
    IN  step[Len(events)]

Answer == {<<>>} \cup {<<s>> : s \in Signatures} \cup {<<s, t>> : s, t \in Signatures}

EventsAnswered(events) ==
    /\ clock < MaxPolls /\ clock' = clock + 1
    /\ LET r == Recorded(events, clock')
       IN  /\ event_history' = r.h
           /\ last_signature_ts' = r.ts
           /\ snapshot' = [made |-> clock', size |-> Len(r.h)]
    /\ event_data' = snapshot'

\* Mutant: a snapshot is served however old it is.
SnapshotKept(now) == snapshot # NoSnapshot
snapshot_usable(now) == snapshot # NoSnapshot /\ now - snapshot.made < MaxSnapshotAge

EventsFailed ==
    /\ clock < MaxPolls /\ clock' = clock + 1
    /\ event_data' = IF snapshot_usable(clock') THEN snapshot ELSE NoSnapshot
    /\ UNCHANGED <<event_history, last_signature_ts, snapshot>>

EventsNext == EventsFailed \/ \E events \in Answer : EventsAnswered(events)

EventsSpec == EventsInit /\ [][EventsNext]_eventVars

-----------------------------------------------------------------------------

\* An event that is answered again and again is recorded once per cooldown,
\* and the history stays within its bound.
NoRepetition ==
    /\ Len(event_history) <= EventHistoryMax
    /\ \A i, j \in 1 .. Len(event_history) :
         i < j /\ event_history[i].sig = event_history[j].sig
           => event_history[i].at - event_history[j].at >= Cooldown

\* Forgetting a signature never makes a recent event new, and every one that
\* is kept after a record is younger than ForgetAfter: the map cannot grow.
SignaturesForgotten ==
    \A s \in Signatures :
        /\ (\E i \in 1 .. Len(event_history) :
              event_history[i].sig = s /\ clock - event_history[i].at < Cooldown)
             => last_signature_ts[s] # Never
        /\ (last_signature_ts[s] # Never /\ Len(event_history) > 0)
             => event_history[1].at <= last_signature_ts[s] + ForgetAfter

\* What is shown of the events is never older than the limit.
SnapshotYoung == event_data # NoSnapshot => clock - event_data.made < MaxSnapshotAge

\* An event is recorded once per cooldown and shown while it is recent, with a
\* history and a map of signatures at their bounds (EventDataUpdateCoordinator).
EventsOnce == NoRepetition /\ SignaturesForgotten /\ SnapshotYoung

=============================================================================
