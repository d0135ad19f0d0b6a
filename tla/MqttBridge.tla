------------------------------ MODULE MqttBridge -----------------------------
(* KostalMqttBridge of mqtt_bridge.py: the start that heals itself, what it   *)
(* leaves on the broker, commands, and publishing after each poll.  What a    *)
(* command may write is ExternalWrites' part.                                 *)
EXTENDS Naturals

CONSTANTS
    MaxPublished,   \* bound: polls that are published
    MaxBrokerLosses \* bound: times the broker goes away

VARIABLES
    mqtt,       \* "absent" (integration not loaded), "down" (no broker), "up"
    losses,     \* times it went away
    starter,    \* who drives the start: "setup", "first" (attempt), "waits", "retry" (attempt), "nobody"
    step,       \* how far an attempt is: 0, 1 subscribed, 2 config published, 3 online published
    wired,      \* subscriptions and the listener of the coordinator are there
    started,    \* _started
    attempted,  \* _start_attempted
    online,     \* the retained "available" topic of the broker says online
    config,     \* the retained /config is there
    stopper,    \* async_stop: "idle", "begun", "ended", "failed" (the broker refused), "expired"
    executed,   \* history: what a command was executed as
    polls,       \* number of the last poll
    tasks,      \* the publish tasks that run: [gen, stage]
    topics      \* number of the poll the retained topics show: [state, proxy]

bridgeVars == <<mqtt, losses, starter, step, wired, started, attempted, online, config, stopper, executed, polls, tasks, topics>>
linkVars == <<mqtt, losses>>
startVars == <<starter, step, wired, started, attempted, online, config>>
publishVars == <<polls, tasks, topics>>

BridgeInit ==
    /\ mqtt \in {"absent", "down", "up"} /\ losses = 0
    /\ starter = "setup" /\ step = 0 /\ wired = FALSE /\ started = FALSE /\ attempted = FALSE
    /\ online = FALSE /\ config = FALSE /\ stopper = "idle" /\ executed = "nothing"
    /\ polls = 0 /\ tasks = {} /\ topics = [state |-> 0, proxy |-> 0]

-----------------------------------------------------------------------------
(* Starting.                                                               *)

\* async_start: an attempt at once when the broker is there, else the loop.
async_start ==
    /\ starter = "setup"
    /\ starter' = IF mqtt = "up" THEN "first" ELSE "waits"
    /\ attempted' = (mqtt = "up")
    /\ UNCHANGED <<step, wired, started, online, config, stopper, executed, linkVars, publishVars>>

\* _start_retry_loop wakes up: it goes on waiting, or tries.
RetryWakes ==
    /\ starter = "waits" /\ mqtt = "up"
    /\ starter' = "retry" /\ attempted' = TRUE
    /\ UNCHANGED <<step, wired, started, online, config, stopper, executed, linkVars, publishVars>>

Attempting == starter \in {"first", "retry"}

\* _publish_register_metadata: the retained /config, of the registers and topics.
_publish_register_metadata == config \/ step = 1

\* _try_start: subscriptions, the listener and /config, then "online", which commits.
AttemptGoesOn ==
    /\ Attempting /\ mqtt = "up" /\ step < 3
    /\ step' = step + 1
    /\ wired' = TRUE
    /\ config' = _publish_register_metadata
    /\ online' = (online \/ step = 2)
    /\ IF step = 2 THEN started' = TRUE /\ starter' = "nobody" ELSE UNCHANGED <<started, starter>>
    /\ UNCHANGED <<attempted, stopper, executed, linkVars, publishVars>>

\* _rollback_partial_start, then _best_effort_clear_retained: the topics are
\* corrected when the broker hears it.  The publish that was under way may have
\* reached the broker.
BridgeRolledBack(heard) ==
    /\ heard => mqtt = "up"
    /\ wired' = FALSE /\ step' = 0
    /\ IF heard THEN config' = FALSE /\ online' = FALSE
       ELSE config' = _publish_register_metadata /\ online' = (online \/ step = 2)

\* Mutant: an unexpected error ends the loop.
EndsOnError(odd) == IF odd THEN "nobody" ELSE "waits"
\* The loop goes on after any error.
AfterRetry(odd) == "waits"

\* A publish fails.  The first attempt leaves the rest to the loop, unless the error is unexpected.
AttemptFails(odd, heard) ==
    /\ Attempting
    /\ BridgeRolledBack(heard)
    /\ starter' = IF starter = "retry" THEN AfterRetry(odd) ELSE IF odd THEN "nobody" ELSE "waits"
    /\ UNCHANGED <<started, attempted, stopper, executed, linkVars, publishVars>>

-----------------------------------------------------------------------------
(* Commands and publishing.                                                *)

\* Mutant: a subscription is enough.
WhenWired == wired
\* _handle_command acts on a bridge that has started.
Acts == started

\* A message arrives on a topic that is subscribed; the broker replays the
\* retained ones at every subscription.
_handle_command(retained) ==
    /\ wired /\ mqtt = "up"
    /\ executed' = IF Acts /\ ~retained THEN (IF step = 3 THEN "complete" ELSE "incomplete") ELSE executed
    /\ UNCHANGED <<stopper, linkVars, startVars, publishVars>>

\* Mutant: the task of the last poll goes on beside the new one.
NoneCancelled(running) == running
\* An unfinished task is cancelled.
Kept(running) == {}

\* _on_coordinator_update
PollPublished ==
    /\ wired /\ started /\ polls < MaxPublished
    /\ polls' = polls + 1
    /\ tasks' = Kept(tasks) \cup {[gen |-> polls + 1, stage |-> "state"]}
    /\ UNCHANGED <<topics, stopper, executed, linkVars, startVars>>

\* _publish_data: the state and the registers, then the proxy topics; a broker
\* that is gone ends it.
PublishGoesOn(t) ==
    /\ t \in tasks
    /\ IF mqtt # "up" THEN tasks' = tasks \ {t} /\ UNCHANGED topics
       ELSE IF t.stage = "state"
       THEN topics' = [topics EXCEPT !.state = t.gen] /\ tasks' = (tasks \ {t}) \cup {[t EXCEPT !.stage = "proxy"]}
       ELSE topics' = [topics EXCEPT !.proxy = t.gen] /\ tasks' = tasks \ {t}
    /\ UNCHANGED <<polls, stopper, executed, linkVars, startVars>>

-----------------------------------------------------------------------------
(* async_stop, within the limit of _await_cleanup_step.                    *)

\* The loop is cancelled: an attempt undoes what it did, unless "online" was
\* its last word, then the bridge has started and is stopped as such.
StopBridge(heard) ==
    /\ stopper = "idle" /\ starter # "setup" /\ starter # "first"
    /\ stopper' = "begun"
    /\ starter' = "nobody"
    /\ IF starter = "retry" THEN BridgeRolledBack(heard)
       ELSE ~heard /\ UNCHANGED <<wired, step, config, online>>
    /\ tasks' = {}
    /\ UNCHANGED <<started, attempted, executed, linkVars, polls, topics>>

\* Mutant: a bridge that did not start has nothing to correct.
NothingToCorrect(heard) == UNCHANGED <<config, online>>
\* What a failed attempt left on the broker is corrected.
Corrects(heard) == IF attempted /\ heard THEN config' = FALSE /\ online' = FALSE ELSE UNCHANGED <<config, online>>

\* The end of a bridge that has not started, and of one that has.
StopNotStarted(heard) ==
    /\ stopper = "begun" /\ ~started
    /\ heard = (mqtt = "up")
    /\ Corrects(heard)
    /\ stopper' = "ended" /\ attempted' = FALSE
    /\ UNCHANGED <<starter, step, wired, started, executed, linkVars, publishVars>>
StopStarted ==
    /\ stopper = "begun" /\ started
    /\ wired' = FALSE
    /\ IF mqtt = "down" THEN stopper' = "failed" /\ UNCHANGED <<started, attempted, online>>  \* async_publish raises
       ELSE /\ stopper' = "ended" /\ started' = FALSE /\ attempted' = FALSE
            /\ online' = IF mqtt = "up" THEN FALSE ELSE online
    /\ UNCHANGED <<starter, step, config, executed, linkVars, publishVars>>

\* The broker and the integration come and go.
BrokerChanges(to) ==
    /\ mqtt # to /\ mqtt' = to
    /\ IF to = "up" THEN UNCHANGED losses ELSE losses < MaxBrokerLosses /\ losses' = losses + 1
    /\ UNCHANGED <<stopper, executed, startVars, publishVars>>

BridgeNext ==
    \/ async_start \/ RetryWakes \/ AttemptGoesOn
    \/ \E odd, heard \in BOOLEAN : AttemptFails(odd, heard)
    \/ \E retained \in BOOLEAN : _handle_command(retained)
    \/ PollPublished \/ \E t \in tasks : PublishGoesOn(t)
    \/ \E heard \in BOOLEAN : StopBridge(heard) \/ StopNotStarted(heard)
    \/ StopStarted
    \/ \E to \in {"absent", "down", "up"} : BrokerChanges(to)

BridgeSpec == BridgeInit /\ [][BridgeNext]_bridgeVars

-----------------------------------------------------------------------------

\* A command is executed by a complete bridge only: not within an attempt to
\* start, and not from a subscription that an attempt left behind.
NoHalfStartedWrite == executed # "incomplete"

\* Once a stop ended with the broker there, the broker does not show a bridge,
\* also when the stop caught the start in any of its steps.
NoGhostBridge ==
    stopper = "begun" /\ stopper' = "ended" /\ mqtt = "up" => ~online' /\ ~wired'

\* The retained topics never go back to an older poll, and the simple topics
\* are not ahead of the state they are taken from.
TopicsForward ==
    topics'.state >= topics.state /\ topics'.proxy >= topics.proxy /\ topics'.proxy <= topics'.state

\* The bridge acts whole or not at all: a start or a stop that is caught in the
\* middle executes nothing, leaves nothing and publishes nothing old
\* (_try_start, async_stop, _handle_command, _on_coordinator_update).
BridgeWhole == [][NoHalfStartedWrite' /\ NoGhostBridge /\ TopicsForward]_bridgeVars

\* A start that was left to the loop succeeds in the end, whatever errors its
\* attempts meet: "there is deliberately no give-up".
BridgeHeals == starter \in {"waits", "retry"} ~> (started \/ stopper # "idle")

\* "otherwise a background task retries with backoff until the bridge starts
\* or the entry is unloaded": so the bridge always starts in the end.
BridgeStarts == starter = "first" ~> (started \/ stopper # "idle")

=============================================================================
