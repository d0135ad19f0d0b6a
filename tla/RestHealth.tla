----------------------------- MODULE RestHealth ------------------------------
(* Which REST polling channels are healthy, and when the user is told of an  *)
(* interruption and of its end: Plenticore and its coordinators in           *)
(* coordinator.py, CommunicationState in communication.py.  A report changes *)
(* the channel and the announcement in one step, as nothing is awaited       *)
(* before the incident history is saved.                                     *)
EXTENDS Naturals, FiniteSets

CONSTANTS
    Channels,     \* the coordinators that poll
    MaxDemand,    \* bound on the entities of a coordinator
    MaxIncidents, \* bound on incidents
    MaxDays       \* bound on dates of notices

VARIABLES
    chan,       \* _rest_poll_health: "absent", "untested", "good", "bad"
    demand,     \* entities that want data of the coordinator
    subscribed, \* _rest_subscription_setup_complete
    stopped,    \* _rest_health_stopped
    poll,       \* "idle" or "asked"
    cleanups,   \* coordinators with a cleanup task under way
    setupStep,  \* "platforms", "finish" (async_finish_rest_setup), "done"
    left,       \* coordinators it has yet to release
    unloading,  \* async_unload has begun
    stopping,   \* hass.is_stopping
    comm,       \* CommunicationState: faults shown, incidents, announced, notice date
    saved,      \* what the store holds of it
    day

healthVars == <<chan, demand, subscribed, stopped, poll, cleanups, setupStep, left,
                unloading, stopping, comm, saved, day>>

Comm(f, i, a, d) == [faults |-> f, incidents |-> i, announced |-> a, notice |-> d]

HealthInit ==
    /\ chan = [c \in Channels |-> "untested"]
    /\ demand = [c \in Channels |-> 0]
    /\ subscribed = [c \in Channels |-> FALSE]
    /\ stopped = [c \in Channels |-> FALSE]
    /\ poll = [c \in Channels |-> "idle"]
    /\ cleanups = {}
    /\ setupStep = "platforms" /\ left = {}
    /\ unloading = FALSE /\ stopping = FALSE
    /\ day = 0
    /\ \E f \in BOOLEAN : /\ saved = [faults |-> f, incidents |-> IF f THEN 1 ELSE 0]
                          /\ comm = Comm(f, saved.incidents, FALSE, 0)

setupDone == setupStep = "done" /\ ~unloading

-----------------------------------------------------------------------------
(* CommunicationState and _async_publish_rest_health.                       *)

\* observe(): incidents are counted, not polls; a notice on every change and
\* on every day of an interruption.  The notice is kept, if it can be saved.
Observe(faulty) ==
    LET changed == faulty # comm.faults
        announce == changed \/ (faulty /\ (~comm.announced \/ comm.notice # day))
        count == comm.incidents + IF faulty /\ ~comm.faults THEN 1 ELSE 0
    IN  /\ count <= MaxIncidents
        /\ comm' = Comm(faulty, count, comm.announced \/ announce,
                        IF announce THEN day ELSE comm.notice)
        /\ saved' \in {saved} \cup
             IF announce THEN {[faults |-> faulty, incidents |-> count]} ELSE {}

\* Mutant: a channel that recovers announces the recovery of all.
PublishOne(ch, done, halt) ==
    IF (\E c \in Channels : ch[c] = "good") \/ (\E c \in Channels : ch[c] = "bad")
    THEN Observe(\A c \in Channels : ch[c] # "good") ELSE UNCHANGED <<comm, saved>>
Publish(ch, done, halt) ==
    LET bad == \E c \in Channels : ch[c] = "bad"
    IN  IF ~bad /\ ((\E c \in Channels : ch[c] = "untested") \/ ~done \/ halt)
        THEN UNCHANGED <<comm, saved>>
        ELSE Observe(bad)

\* async_report_rest_communication.
ReportAs(c, value) ==
    /\ chan' = [chan EXCEPT ![c] = value]
    /\ IF value = "absent" /\ chan[c] = "absent"
       THEN UNCHANGED <<comm, saved>>
       ELSE Publish(chan', setupDone, stopping)

\* Mutant: only a coordinator that is shut down leaves.
ReleaseForced(c, force) ==
    IF ~force THEN UNCHANGED <<chan, comm, saved>> ELSE ReportAs(c, "absent")
\* _release_rest_health.
Release(c, force) ==
    IF ~force /\ (demand[c] > 0 \/ ~subscribed[c])
    THEN UNCHANGED <<chan, comm, saved>>
    ELSE ReportAs(c, "absent")

-----------------------------------------------------------------------------

\* start_fetch_data, or a listener with a context.
StartFetch(c) ==
    /\ ~stopped[c]
    /\ demand[c] < MaxDemand
    /\ demand' = [demand EXCEPT ![c] = @ + 1]
    /\ subscribed' = [subscribed EXCEPT ![c] = TRUE]
    /\ UNCHANGED <<chan, stopped, poll, cleanups, setupStep, left, unloading, stopping, comm, saved, day>>

\* stop_fetch_data, or its listener leaves; cleanup when nothing is wanted.
StopFetch(c) ==
    /\ demand[c] > 0
    /\ demand' = [demand EXCEPT ![c] = @ - 1]
    /\ cleanups' = IF demand'[c] = 0 THEN cleanups \cup {c} ELSE cleanups
    /\ UNCHANGED <<chan, subscribed, stopped, poll, setupStep, left, unloading, stopping, comm, saved, day>>

\* _schedule_rest_health_cleanup, a turn of the event loop later.
Cleanup(c) ==
    /\ c \in cleanups
    /\ cleanups' = cleanups \ {c}
    /\ Release(c, FALSE)
    /\ UNCHANGED <<demand, subscribed, stopped, poll, setupStep, left, unloading, stopping, day>>

\* A refresh begins; one that has nothing to ask for reports at once.
PollBegins(c) ==
    /\ ~stopped[c]
    /\ poll[c] = "idle"
    /\ demand[c] > 0
    /\ poll' = [poll EXCEPT ![c] = "asked"]
    /\ UNCHANGED <<chan, demand, subscribed, stopped, cleanups, setupStep, left, unloading, stopping, comm, saved, day>>

\* Mutant: what was asked for is reported, wanted or not.
ReportAnyway(c, healthy) ==
    /\ subscribed' = [subscribed EXCEPT ![c] = TRUE]
    /\ ReportAs(c, IF healthy THEN "good" ELSE "bad")
\* _report_rest_result: what is reported depends on the demand of now, not of
\* the time of the request.
ReportResult(c, healthy) ==
    IF demand[c] > 0 /\ ~stopped[c]
    THEN /\ subscribed' = [subscribed EXCEPT ![c] = TRUE]
         /\ ReportAs(c, IF healthy THEN "good" ELSE "bad")
    ELSE /\ UNCHANGED subscribed
         /\ Release(c, stopped[c])

\* _async_update_data: the answer came whole (ok), came in part or not at all.
PollEnds(c, ok) ==
    /\ poll[c] = "asked"
    /\ poll' = [poll EXCEPT ![c] = "idle"]
    /\ ReportResult(c, ok)
    /\ UNCHANGED <<demand, stopped, cleanups, setupStep, left, unloading, stopping, day>>

PollEmpty(c) ==
    /\ ~stopped[c]
    /\ poll[c] = "idle" /\ demand[c] = 0
    /\ ReportResult(c, TRUE)
    /\ UNCHANGED <<demand, stopped, poll, cleanups, setupStep, left, unloading, stopping, day>>

-----------------------------------------------------------------------------

\* async_finish_rest_setup: each coordinator in turn, a save between two.
FinishSetup ==
    /\ setupStep = "platforms" /\ ~unloading
    /\ setupStep' = "finish" /\ left' = Channels
    /\ UNCHANGED <<chan, demand, subscribed, stopped, poll, cleanups, unloading, stopping, comm, saved, day>>

FinishOne(c) ==
    /\ c \in left
    /\ left' = left \ {c}
    /\ subscribed' = [subscribed EXCEPT ![c] = TRUE]
    /\ IF demand[c] > 0 THEN UNCHANGED <<chan, comm, saved>> ELSE ReportAs(c, "absent")
    /\ UNCHANGED <<demand, stopped, poll, cleanups, setupStep, unloading, stopping, day>>

SetupFinished ==
    /\ setupStep = "finish" /\ left = {}
    /\ setupStep' = "done"
    /\ Publish(chan, ~unloading, stopping)
    /\ UNCHANGED <<chan, demand, subscribed, stopped, poll, cleanups, left, unloading, stopping, day>>

\* async_unload, also on EVENT_HOMEASSISTANT_STOP; set-up is over or has failed.
Unload(halt) ==
    /\ ~unloading
    /\ setupStep \in {"platforms", "done"}
    /\ unloading' = TRUE
    /\ stopping' = halt
    /\ UNCHANGED <<chan, demand, subscribed, stopped, poll, cleanups, setupStep, left, comm, saved, day>>

\* async_shutdown of one coordinator; its last request may still be out.
ShutdownOne(c) ==
    /\ unloading /\ ~stopped[c]
    /\ stopped' = [stopped EXCEPT ![c] = TRUE]
    /\ ReportAs(c, "absent")
    /\ UNCHANGED <<demand, subscribed, poll, cleanups, setupStep, left, unloading, stopping, day>>

\* The entry is set up again, by this or by another run of Home Assistant.
Restart ==
    /\ \A c \in Channels : stopped[c] /\ poll[c] = "idle"
    /\ cleanups = {}
    /\ chan' = [c \in Channels |-> "untested"]
    /\ demand' = [c \in Channels |-> 0]
    /\ subscribed' = [c \in Channels |-> FALSE]
    /\ stopped' = [c \in Channels |-> FALSE]
    /\ setupStep' = "platforms"
    /\ unloading' = FALSE /\ stopping' = FALSE
    /\ comm' = Comm(saved.faults, saved.incidents, FALSE, 0)
    /\ UNCHANGED <<poll, cleanups, left, saved, day>>

NextDay ==
    /\ day < MaxDays
    /\ day' = day + 1
    /\ UNCHANGED <<chan, demand, subscribed, stopped, poll, cleanups, setupStep, left, unloading, stopping, comm, saved>>

HealthNext ==
    \/ \E c \in Channels :
         \/ StartFetch(c) \/ StopFetch(c) \/ Cleanup(c)
         \/ PollBegins(c) \/ PollEmpty(c)
         \/ \E ok \in BOOLEAN : PollEnds(c, ok)
         \/ FinishOne(c) \/ ShutdownOne(c)
    \/ FinishSetup \/ SetupFinished
    \/ \E halt \in BOOLEAN : Unload(halt)
    \/ Restart \/ NextDay

HealthSpec == HealthInit /\ [][HealthNext]_healthVars

-----------------------------------------------------------------------------

\* While a polled channel fails the interruption is shown, and once every
\* channel in use has answered it is withdrawn: "Recover only once every active
\* REST polling channel is healthy" (async_report_rest_communication).
InterruptionShown ==
    /\ (\E c \in Channels : chan[c] = "bad") => comm.faults
    /\ (setupDone /\ ~stopping /\ \A c \in Channels : chan[c] \in {"good", "absent"}) => ~comm.faults

\* A coordinator that was shut down never comes back as a channel, whatever
\* its last request reports: "Never resurrect a channel removed while its request was in flight".
NoGhostChannel == \A c \in Channels : stopped[c] => chan[c] = "absent"

\* The interruption that is shown is the one of the channels in use: neither a
\* fault is hidden nor the recovery held back, by requests that report late
\* (async_report_rest_communication, _report_rest_result).
ChannelsTrue == InterruptionShown /\ NoGhostChannel

\* A channel without entities does not hold back the recovery for ever.
IdleChannelLeaves ==
    \A c \in Channels :
        (demand[c] = 0 /\ setupDone) ~> (chan[c] = "absent" \/ demand[c] > 0 \/ ~setupDone)

=============================================================================
