-------------------------- MODULE ModbusCoordinator --------------------------
(***************************************************************************)
(* ModbusDataUpdateCoordinator: the poll that reads the inverter, the      *)
(* writes to one control register, and the three things the coordinator    *)
(* remembers about that register: the last command (_last_commanded), the  *)
(* observation the Modbus proxy may serve (_proxy_observations) and the    *)
(* value merged into polls that do not read it (_last_slow_data).  Each is *)
(* only as good as the connection it was taken on.                         *)
(*                                                                         *)
(* The register is one of CONTROL_READBACK_REGISTERS.  A poll reads fast   *)
(* registers, then on every sixth tick, or when a read is due, the slow    *)
(* ones: first the group with the control register, then the rest; then    *)
(* now and then the device information.                                    *)
(***************************************************************************)
EXTENDS ModbusLink

VARIABLES
    cmd,        \* _last_commanded
    obs,        \* _proxy_observations
    got,        \* the poll's reading of the register, not yet published
    kept,       \* connection on which _last_slow_data was read, 0 if empty
    slowDue,    \* _slow_tick = 5
    slowStale,  \* _slow_poll_stale
    partial,    \* fast_errors > 0, FALSE between polls
    pollGen,    \* generation_before, 0 between polls
    report,     \* what the last poll reported
    shutting,   \* _shutting_down
    unload      \* how far unloading has come

cacheVars == <<cmd, obs, got, kept>>
pollVars == <<slowDue, slowStale, partial, pollGen, report>>
unloadVars == <<shutting, unload>>
vars == <<linkVars, cacheVars, pollVars, unloadVars>>

\* A reading or a command and the connection it belongs to.  old is a mark
\* of the model: the inverter has restarted since.
None == [val |-> Default, gen |-> 0, old |-> FALSE]
Tagged == [val : Values, gen : 0 .. MaxGen, old : BOOLEAN]

Init ==
    /\ LinkInit
    /\ cmd = None /\ obs = None /\ got = None
    /\ kept = 0
    /\ slowDue = TRUE
    /\ slowStale = FALSE
    /\ partial = FALSE
    /\ pollGen = 0
    /\ report = "ok"
    /\ shutting = FALSE
    /\ unload = "loaded"

-----------------------------------------------------------------------------
(* async_write_register.                                                   *)

\* The observation is dropped before the write is sent.
StartWrite(w, v) ==
    /\ job[w].pc = "idle"
    /\ obs' = None
    /\ Move(w, Job("queued", "write", 1, v), queue)
    /\ UNCHANGED <<conn, gen, closing, reg, cmd, got, kept, pollVars,
                   unloadVars>>

\* Mutant: a successful write does not ask for a slow poll.
WriteDoneNotDue(w) ==
    /\ job[w].op = "write" /\ Answered(w)
    /\ reg' = Carried(w)
    /\ cmd' = [val |-> job[w].val, gen |-> gen, old |-> FALSE]
    /\ Move(w, Idle, Tail(queue))
    /\ UNCHANGED <<conn, gen, closing, obs, got, kept, pollVars,
                   unloadVars>>

\* The inverter has acknowledged: record the command, have it read back.
WriteDone(w) ==
    /\ job[w].op = "write" /\ Answered(w)
    /\ reg' = Carried(w)
    /\ slowDue' = TRUE
    /\ cmd' = [val |-> job[w].val, gen |-> gen, old |-> FALSE]
    /\ Move(w, Idle, Tail(queue))
    /\ UNCHANGED <<conn, gen, closing, obs, got, kept, slowStale,
                   partial, pollGen, report, unloadVars>>

\* The link is back and its byte order known: write again.
ProbeDone(w) ==
    /\ job[w].op = "probe" /\ Answered(w)
    /\ Move(w, Again(w), Tail(queue))
    /\ UNCHANGED <<conn, gen, closing, reg, cacheVars, pollVars,
                   unloadVars>>

\* A transient answer is retried after a pause; one to the probe, and any
\* other exception, ends the write with an error.
WriteException(w) ==
    /\ \E kind \in {"busy", "reject"} :
        /\ Exception(w, kind)
        /\ Move(w, IF kind = "busy" /\ job[w].op = "write" /\ MayRetry(w)
                   THEN AfterTransient(w) ELSE Idle,
                Tail(queue))
    /\ UNCHANGED <<conn, gen, closing, cacheVars, pollVars,
                   unloadVars>>

\* Connection lost: reconnect and try again, or give up.
WriteLost(w) ==
    /\ Refused(w) \/ Lost(w)
    /\ Move(w, IF MayRetry(w) THEN AfterConnectionError(w) ELSE Idle,
            Tail(queue))
    /\ UNCHANGED <<gen, closing, cacheVars, pollVars, unloadVars>>

\* reconnect() is over; if it failed the write is attempted all the same.
WriteReconnected(w) ==
    /\ \/ /\ ConnectReturns(w)
          /\ gen' = Generation(w)
          /\ conn' = Transport(w)
          /\ Move(w, ProbeFirst(w), queue)
       \/ /\ ConnectRaises(w)
          /\ Move(w, Again(w), queue)
          /\ UNCHANGED <<conn, gen>>
    /\ UNCHANGED <<closing, reg, cacheVars, pollVars, unloadVars>>

-----------------------------------------------------------------------------
(* _async_poll_data.                                                       *)

\* The first access of a kind.  Device information is read one register at
\* a time, the rest in groups.
Read(op) == Job("queued", op, IF op = "info" THEN 1 ELSE 0, Default)

\* The poll begins; without a link it connects first.
StartPoll ==
    /\ job[Poller].pc = "idle"
    /\ ~shutting /\ ~closing
    /\ IF connected
       THEN /\ Move(Poller, Read("fast"), queue)
            /\ pollGen' = gen
       ELSE /\ Move(Poller, Job("connect", "probe", 1, Default), queue)
            /\ UNCHANGED pollGen
    /\ UNCHANGED <<conn, gen, closing, reg, cacheVars, slowDue,
                   slowStale, partial, report, unloadVars>>

\* The poll is over and its locals are gone.
PollOver(rest) ==
    /\ Move(Poller, Idle, rest)
    /\ partial' = FALSE
    /\ pollGen' = 0

\* UpdateFailed, or an exception the base class turns into the same.
PollFails(rest) ==
    /\ PollOver(rest)
    /\ report' = "failed"
    /\ UNCHANGED <<cacheVars, slowDue, slowStale>>

\* _async_update_data's report of a poll that returned data.
Reported(missing, stale) ==
    IF shutting \/ closing THEN report
    ELSE IF missing \/ stale THEN "partial" ELSE "ok"

\* What is left after the slow registers: every sixtieth poll the device
\* information, and the report.
EndPoll(rest, missing, stale) ==
    \/ /\ Move(Poller, Read("info"), rest)
       /\ partial' = missing
       /\ UNCHANGED <<report, pollGen>>
    \/ /\ PollOver(rest)
       /\ report' = Reported(missing, stale)

\* connect() and the probe of a poll that found no link.
PollReconnected ==
    /\ \/ /\ ConnectReturns(Poller)
          /\ gen' = Generation(Poller)
          /\ conn' = Transport(Poller)
          /\ Move(Poller,
                  IF job[Poller].op = "probe" THEN ProbeFirst(Poller)
                                              ELSE Again(Poller),
                  queue)
          /\ UNCHANGED <<cacheVars, pollVars>>
       \/ /\ ConnectRaises(Poller)
          /\ UNCHANGED <<conn, gen>>
          /\ IF job[Poller].op = "probe"
             THEN PollFails(queue)
             ELSE Move(Poller, Again(Poller), queue) /\ UNCHANGED <<cacheVars, pollVars>>
    /\ UNCHANGED <<closing, reg, unloadVars>>

\* The byte order is known: forget what was read before the link was lost.
PollProbed ==
    /\ job[Poller].op = "probe" /\ Answered(Poller)
    /\ slowDue' = TRUE
    /\ kept' = 0
    /\ obs' = None
    /\ pollGen' = gen
    /\ Move(Poller, Read("fast"), Tail(queue))
    /\ UNCHANGED <<conn, gen, closing, reg, cmd, got, slowStale,
                   partial, report, unloadVars>>

\* The probe is refused.
PollNotProbed ==
    /\ job[Poller].op = "probe"
    /\ \E kind \in {"busy", "reject"} : Exception(Poller, kind)
    /\ PollFails(Tail(queue))
    /\ UNCHANGED <<conn, gen, closing, unloadVars>>

\* The fast registers are read, or some of them.  A link made anew under
\* the reads makes the slow ones due.
FastDone(missing, rest) ==
    LET fresh == gen # pollGen
    IN  /\ obs' = IF fresh THEN None ELSE obs
        /\ kept' = IF fresh THEN 0 ELSE kept
        /\ \/ /\ Move(Poller, Read("slow"), rest)
              /\ slowDue' = FALSE
              /\ partial' = missing
              /\ UNCHANGED <<report, pollGen>>
           \/ /\ ~slowDue /\ ~fresh
              /\ EndPoll(rest, missing, slowStale)
              /\ UNCHANGED slowDue
        /\ UNCHANGED <<cmd, got, slowStale>>

\* The control register as the poll has read it, on the connection there is.
Reading(missing) ==
    IF missing THEN None ELSE [val |-> reg, gen |-> gen, old |-> FALSE]

\* The group with the control register is read, or not.
SlowDone(reading, rest) ==
    /\ got' = reading
    /\ Move(Poller, Read("rest"), rest)
    /\ UNCHANGED <<cmd, obs, kept, pollVars>>

\* Mutant: the observation is tagged when it is published.
PublishedNow(reading) ==
    IF reading = None THEN None ELSE [reading EXCEPT !.gen = gen]

\* _observe_for_proxy: the observation carries the connection it was read on.
Published(reading) == reading

\* The slow result is published, and kept for later polls to repeat.  What
\* is missing makes it stale unless the register is suppressed.
RestDone(missing, rest) ==
    /\ obs' = Published(got)
    /\ kept' = got.gen
    /\ got' = None
    /\ slowStale' \in IF missing \/ got = None THEN BOOLEAN ELSE {FALSE}
    /\ EndPoll(rest, partial, slowStale')
    /\ UNCHANGED <<cmd, slowDue>>

\* The connection is lost for good under the slow reads: the poll goes on
\* with the old values and says so.
SlowLost(rest) ==
    /\ obs' = None
    /\ got' = None
    /\ slowStale' = TRUE
    /\ EndPoll(rest, partial, TRUE)
    /\ UNCHANGED <<cmd, kept, slowDue>>

\* _read_device_info swallows every error.
InfoDone(rest) ==
    /\ PollOver(rest)
    /\ report' = Reported(partial, slowStale)
    /\ UNCHANGED <<cacheVars, slowDue, slowStale>>

\* What follows the reads of one kind when none of them ends the poll.
ReadsDone(missing, rest) ==
    \/ job[Poller].op = "fast" /\ FastDone(missing, rest)
    \/ job[Poller].op = "slow" /\ SlowDone(Reading(missing), rest)
    \/ job[Poller].op = "rest" /\ RestDone(missing, rest)
    \/ job[Poller].op = "info" /\ InfoDone(rest)

\* The inverter answers one of the poll's reads.
PollAnswered ==
    /\ job[Poller].op # "probe" /\ Answered(Poller)
    /\ ReadsDone(FALSE, Tail(queue))
    /\ UNCHANGED <<conn, gen, closing, reg, unloadVars>>

\* A refused group is read register by register, a busy inverter asked
\* again; a register that cannot be read is missing from the result, and a
\* poll without a single fast register has failed.
PollException ==
    /\ job[Poller].op # "probe"
    /\ \E kind \in {"busy", "reject"} :
        /\ Exception(Poller, kind)
        /\ IF job[Poller].try = 0 \/ (kind = "busy" /\ MayRetry(Poller))
           THEN /\ Move(Poller, AfterTransient(Poller), Tail(queue))
                /\ UNCHANGED <<cacheVars, pollVars>>
           ELSE \/ ReadsDone(TRUE, Tail(queue))
                \/ job[Poller].op = "fast" /\ PollFails(Tail(queue))
    /\ UNCHANGED <<conn, gen, closing, unloadVars>>

\* A connection error leaves the poll: UpdateFailed, unless the integration
\* is being unloaded, from the fast reads; the later ones are forgiven.
PollDisconnected(rest) ==
    \/ /\ job[Poller].op = "fast"
       /\ shutting \/ closing
       /\ PollOver(rest)
       /\ UNCHANGED <<cacheVars, slowDue, slowStale, report>>
    \/ /\ job[Poller].op = "probe"
          \/ (job[Poller].op = "fast" /\ ~shutting /\ ~closing)
       /\ PollFails(rest)
    \/ job[Poller].op \in {"slow", "rest"} /\ SlowLost(rest)
    \/ job[Poller].op = "info" /\ InfoDone(rest)

\* Connection lost: a read reconnects and tries again, a probe does not.
PollLost ==
    /\ Refused(Poller) \/ Lost(Poller)
    /\ IF /\ job[Poller].op # "probe"
          /\ job[Poller].try = 0 \/ (MayRetry(Poller) /\ ~closing)
       THEN /\ Move(Poller, AfterConnectionError(Poller), Tail(queue))
            /\ UNCHANGED <<cacheVars, pollVars>>
       ELSE PollDisconnected(Tail(queue))
    /\ UNCHANGED <<gen, closing, unloadVars>>

-----------------------------------------------------------------------------
(* Unloading, and the rest of the world.                                   *)

\* async_unload_entry reaches the coordinator.
StartUnload ==
    /\ unload = "loaded"
    /\ shutting' = TRUE
    /\ unload' = "closing"
    /\ UNCHANGED <<linkVars, cacheVars, pollVars>>

\* The coordinator's async_shutdown().
Unloaded ==
    /\ unload = "closing"
    /\ ShutdownLink
    /\ unload' = "done"
    /\ UNCHANGED <<cacheVars, pollVars, shutting>>

\* _await_cleanup_step gives up after 5 s; connect() may hold the lock for
\* 10 s.
UnloadExpires ==
    /\ "expire" \in Faults
    /\ unload = "closing"
    /\ \E t \in Tasks : job[t].pc = "connecting"
    /\ unload' = "done"
    /\ UNCHANGED <<linkVars, cacheVars, pollVars, shutting>>

\* The inverter restarts; what was read before is out of date.
Aged(o) == IF o = None THEN None ELSE [val |-> o.val, gen |-> o.gen, old |-> TRUE]

Restart ==
    /\ RestartInverter
    /\ obs' = Aged(obs)
    /\ got' = Aged(got)
    /\ UNCHANGED <<cmd, kept, pollVars, unloadVars>>

\* Steps inside the client.
LinkStep(t) ==
    /\ Send(t) \/ WakeUp(t) \/ Disconnect(t) \/ Connect(t)
    /\ UNCHANGED <<cacheVars, pollVars, unloadVars>>

Write(w) ==
    \/ WriteDone(w) \/ ProbeDone(w) \/ WriteException(w)
    \/ WriteLost(w) \/ WriteReconnected(w)

Poll ==
    \/ PollReconnected \/ PollProbed \/ PollNotProbed
    \/ PollAnswered \/ PollException \/ PollLost

Next ==
    \/ \E t \in Tasks : LinkStep(t)
    \/ \E w \in Writers : Write(w) \/ \E v \in Values : StartWrite(w, v)
    \/ StartPoll \/ Poll
    \/ StartUnload \/ Unloaded \/ UnloadExpires
    \/ Restart

Spec == Init /\ [][Next]_vars

-----------------------------------------------------------------------------
(* Properties.                                                             *)

\* Attempts stay within MAX_RETRIES and the gate holds each task once: the
\* retry loops of read_register and write_register count what they do.
TypeOK ==
    /\ job \in [Tasks -> Jobs]
    /\ conn \in {"up", "dead", "down"}
    /\ gen \in 1 .. MaxGen
    /\ closing \in BOOLEAN
    /\ reg \in Values
    /\ cmd \in Tagged /\ obs \in Tagged /\ got \in Tagged
    /\ kept \in 0 .. MaxGen
    /\ slowDue \in BOOLEAN /\ slowStale \in BOOLEAN /\ partial \in BOOLEAN
    /\ pollGen \in 0 .. MaxGen
    /\ report \in {"ok", "partial", "failed"}
    /\ shutting \in BOOLEAN
    /\ unload \in {"loaded", "closing", "done"}
    /\ \A t \in Tasks :
        (job[t].pc \in {"queued", "wire"}) <=> \E i \in DOMAIN queue : queue[i] = t

\* "A value is trusted only while the connection generation is unchanged":
\* what last_commanded() answers on a live link is what the inverter holds,
\* unless a write is under way, whoever reconnected and whatever restart,
\* retry or lost answer came before.
CommandTrue ==
    (/\ cmd.gen = gen /\ conn = "up"
     /\ \A w \in Writers : job[w].pc = "idle")
        => cmd.val = reg

\* What proxy_cache_data serves.
Served ==
    /\ obs # None /\ obs.gen = gen
    /\ ~shutting /\ connected /\ report # "failed"

\* "Only recently observed values from the current connection epoch": as
\* soon as the link is up again after a restart of the inverter, the proxy
\* serves nothing that was read before it.
NothingFromBeforeRestart == Served /\ conn = "up" => ~obs.old

\* A write that slips between a poll's read and the publication of what it
\* read leaves a wrong observation behind; it lasts only until the next
\* poll, because a slow read is due, or is being made.
StaleIsReadAgain ==
    (Served /\ conn = "up" /\ obs.val # reg)
        => \/ slowDue
           \/ job[Poller].op \in {"slow", "rest"}
           \/ \E w \in Writers : job[w].pc # "idle"

\* async_shutdown is final: "no further reconnect attempts allowed".
ClosedStaysClosed ==
    closing => conn = "down" /\ \A t \in Tasks : job[t].pc # "connecting"

\* Unloading shuts the coordinator down, which "closes TCP": once
\* async_unload_entry is past that step there is no connection any more.
UnloadCloses == unload = "done" => conn = "down"

\* A new connection generation is what "consumers use to drop state that
\* does not survive a reset": a poll that reports all is well repeats no
\* value read on a connection before the one it began with.  It does not
\* hold: a reconnect by a writer between two polls, or within the slow reads
\* after the register was read, leaves _last_slow_data behind.
Undisguised ==
    [][(job[Poller].pc # "idle" /\ job'[Poller].pc = "idle" /\ report' = "ok")
        => kept' = 0 \/ kept' >= pollGen]_vars
=============================================================================
