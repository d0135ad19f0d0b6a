------------------------------- MODULE KsemLink ------------------------------
(* The link to the optional energy meter (ksem_coordinator.py): one client    *)
(* under one lock, a poll that reads several registers through it, and the    *)
(* shutdown of the unload.                                                    *)
EXTENDS Naturals, Sequences

CONSTANTS
    KsemReads       \* registers read by a poll

VARIABLES
    ksem_client,    \* _client is not None
    ksem_up,        \* the client is connected
    ksem_lock,      \* holder and waiters of _lock
    ksem_pc,        \* per task; a poll: "idle", "ensure", "connect", "guard", "read"
    ksem_left,      \* registers the poll has yet to read
    ksem_shut       \* "up", "closing", "closed"

ksemVars == <<ksem_client, ksem_up, ksem_lock, ksem_pc, ksem_left, ksem_shut>>

KsemInit ==
    /\ ksem_client = FALSE /\ ksem_up = FALSE
    /\ ksem_lock = <<>>
    /\ ksem_pc = "idle" /\ ksem_left = 0
    /\ ksem_shut = "up"

KsemHolds(t) == ksem_lock # <<>> /\ Head(ksem_lock) = t

\* _async_update_data begins with _ensure_connected.
KsemPoll ==
    /\ ksem_pc = "idle" /\ ksem_shut = "up"
    /\ ksem_pc' = "ensure" /\ ksem_left' = KsemReads
    /\ ksem_lock' = Append(ksem_lock, "poll")
    /\ UNCHANGED <<ksem_client, ksem_up, ksem_shut>>

\* _ensure_connected under the lock: nothing to do, or a new client connects.
KsemEnsure ==
    /\ ksem_pc = "ensure" /\ KsemHolds("poll")
    /\ IF ksem_up
       THEN /\ ksem_pc' = "guard"
            /\ ksem_lock' = Append(Tail(ksem_lock), "poll")
       ELSE ksem_pc' = "connect" /\ UNCHANGED ksem_lock
    /\ UNCHANGED <<ksem_client, ksem_up, ksem_left, ksem_shut>>

\* The poll raises UpdateFailed and leaves the lock.
KsemFails ==
    /\ ksem_pc' = "idle" /\ ksem_left' = 0
    /\ ksem_lock' = SelectSeq(ksem_lock, LAMBDA t : t # "poll")

KsemConnected(ok) ==
    /\ ksem_pc = "connect"
    /\ IF ok
       THEN /\ ksem_client' = TRUE /\ ksem_up' = TRUE
            /\ ksem_pc' = "guard"
            /\ ksem_lock' = Append(Tail(ksem_lock), "poll")
            /\ UNCHANGED ksem_left
       ELSE KsemFails /\ UNCHANGED <<ksem_client, ksem_up>>
    /\ UNCHANGED ksem_shut

ClientStillThere == ksem_client

\* The lock is free between the check and the read, so the client is looked
\* at again.
KsemGuard ==
    /\ ksem_pc = "guard" /\ KsemHolds("poll")
    /\ IF ClientStillThere
       THEN ksem_pc' = "read" /\ UNCHANGED <<ksem_left, ksem_lock>>
       ELSE KsemFails
    /\ UNCHANGED <<ksem_client, ksem_up, ksem_shut>>

\* Mutant: the lock is kept when a read fails.
KeepsLock == ksem_pc' = "idle" /\ ksem_left' = 0 /\ ksem_lock' = <<"nobody">> \o Tail(ksem_lock)
\* A failed read drops the connection; an answer with an error does not.
KsemReadFails == KsemFails

KsemRead(how) ==
    /\ ksem_pc = "read"
    /\ CASE how = "ok" ->
              /\ ksem_left' = ksem_left - 1
              /\ ksem_pc' = IF ksem_left > 1 THEN "ensure" ELSE "idle"
              /\ ksem_lock' = Tail(ksem_lock) \o IF ksem_left > 1 THEN <<"poll">> ELSE <<>>
              /\ UNCHANGED <<ksem_client, ksem_up>>
         [] how = "error" -> KsemReadFails /\ UNCHANGED <<ksem_client, ksem_up>>
         [] how = "broken" -> KsemReadFails /\ ksem_client' = FALSE /\ ksem_up' = FALSE
    /\ UNCHANGED ksem_shut

\* The meter closes the connection.
KsemDrops ==
    /\ ksem_up /\ ksem_up' = FALSE
    /\ UNCHANGED <<ksem_client, ksem_lock, ksem_pc, ksem_left, ksem_shut>>

\* async_shutdown: no new poll begins; the client is closed under the lock.
KsemShutdown ==
    /\ ksem_shut = "up" /\ ksem_shut' = "closing"
    /\ ksem_lock' = Append(ksem_lock, "shutdown")
    /\ UNCHANGED <<ksem_client, ksem_up, ksem_pc, ksem_left>>

KsemClose ==
    /\ ksem_shut = "closing" /\ KsemHolds("shutdown")
    /\ ksem_client' = FALSE /\ ksem_up' = FALSE
    /\ ksem_shut' = "closed" /\ ksem_lock' = Tail(ksem_lock)
    /\ UNCHANGED <<ksem_pc, ksem_left>>

KsemPollStep ==
    \/ KsemEnsure \/ KsemGuard
    \/ \E ok \in BOOLEAN : KsemConnected(ok)
    \/ \E how \in {"ok", "error", "broken"} : KsemRead(how)

KsemNext == KsemPoll \/ KsemPollStep \/ KsemDrops \/ KsemShutdown \/ KsemClose

-----------------------------------------------------------------------------

\* A read is made only through a client that is there and under the lock:
\* "prevent a TOCTOU race with async_shutdown() setting _client = None".
KsemReadHasClient == ksem_pc = "read" => ksem_client /\ KsemHolds("poll")

\* The shutdown always gets the lock and closes, whatever the poll does.
KsemShutdownEnds == ksem_shut = "closing" ~> ksem_shut = "closed"

=============================================================================
