----------------------------- MODULE ProxyServer -----------------------------
(* ModbusTcpProxyServer of modbus_proxy.py: its connections, reads from the   *)
(* cache or forwarded, writes with the time limit of a request, the words     *)
(* whose write is unconfirmed, the watchdog and stop().  Who may write what   *)
(* is ExternalWrites' part; here every write is allowed.                      *)
EXTENDS Naturals, FiniteSets

CONSTANTS
    Clients, Words,
    MaxProxyWrites   \* bound: writes

Writes == 1 .. MaxProxyWrites
Ranges == {r \in SUBSET Words : r # {}}
NoRange == {}

VARIABLES
    conn,            \* what the connection of each client does
    tracked_clients, \* _clients: the connections stop() knows of
    server,          \* "serving", "stopping" (in gather), "stopped"
    bus,             \* the client whose request is on the wire, {} for none
    device,          \* what each word of the inverter holds: the number of a write
    acked,           \* history: the last write of each word a client got confirmed
    _write_failures, \* words whose write is unconfirmed
    _read_failures,  \* ranges whose read failed
    proxyShown,           \* faults of the notification
    silent,          \* no request for longer than the client timeout
    proxyWrites           \* number of writes so far

proxyVars == <<conn, tracked_clients, server, bus, device, acked, _write_failures, _read_failures, proxyShown, silent, proxyWrites>>

Idle == [at |-> "idle", range |-> NoRange, value |-> 0]
Gone == [Idle EXCEPT !.at = "gone"]

ProxyInit ==
    /\ conn = [c \in Clients |-> Gone] /\ tracked_clients = {} /\ server = "serving" /\ bus = {}
    /\ device = [w \in Words |-> 0] /\ acked = [w \in Words |-> 0]
    /\ _write_failures = {} /\ _read_failures = {} /\ proxyShown = {} /\ silent = FALSE
    /\ proxyWrites = 0

-----------------------------------------------------------------------------

\* _check_client_watchdog: after each request and now and then.
Faults(reads, words, quiet) ==
    (IF reads # {} \/ quiet THEN {"proxy"} ELSE {}) \cup (IF words # {} THEN {"write_unconfirmed"} ELSE {})

\* Mutant: a failed write concerns the first word.
FirstWord(range) == {CHOOSE w \in range : \A v \in range : w <= v}
\* Every word the request covers.
affected(range) == range

\* _process_pdu has the response: the failures are updated, then the watchdog looks.
Respond(c, reads, words) ==
    /\ conn' = [conn EXCEPT ![c] = Idle]
    /\ _read_failures' = reads /\ _write_failures' = words
    /\ silent' = FALSE /\ proxyShown' = Faults(reads, words, FALSE)
    /\ UNCHANGED <<tracked_clients, server, proxyWrites>>

Connect(c) ==
    /\ server # "stopped" /\ conn[c] = Gone
    /\ conn' = [conn EXCEPT ![c] = Idle]
    /\ tracked_clients' = tracked_clients \cup {c}
    /\ UNCHANGED <<server, bus, device, acked, _write_failures, _read_failures, proxyShown, silent, proxyWrites>>

\* The client disconnects, or the idle limit of 60 s closes the connection.
Leave(c) ==
    /\ conn[c] = Idle
    /\ conn' = [conn EXCEPT ![c] = Gone] /\ tracked_clients' = tracked_clients \ {c}
    /\ UNCHANGED <<server, bus, device, acked, _write_failures, _read_failures, proxyShown, silent, proxyWrites>>

\* Mutant: an answer of any kind clears the failed reads.
AnyAnswerProves == {}
\* An answer from the cache tells nothing of the link.
AfterCacheHit == _read_failures

\* A request the cache covers is answered at once.
CacheHit(c) ==
    /\ conn[c] = Idle
    /\ Respond(c, AfterCacheHit, _write_failures)
    /\ UNCHANGED <<bus, device, acked>>

\* A read the cache does not cover is forwarded, and waits for its turn.
StartRead(c) ==
    /\ conn[c] = Idle
    /\ conn' = [conn EXCEPT ![c] = [at |-> "read", range |-> Words, value |-> 0]]
    /\ UNCHANGED <<tracked_clients, server, bus, device, acked, _write_failures, _read_failures, proxyShown, silent, proxyWrites>>

StartWrite(c, range) ==
    /\ conn[c] = Idle /\ proxyWrites < MaxProxyWrites
    /\ proxyWrites' = proxyWrites + 1
    /\ conn' = [conn EXCEPT ![c] = [at |-> "write", range |-> range, value |-> proxyWrites + 1]]
    /\ UNCHANGED <<tracked_clients, server, bus, device, acked, _write_failures, _read_failures, proxyShown, silent>>

\* One request at a time is on the wire.
Send(c) ==
    /\ conn[c].at \in {"read", "write"} /\ bus = {}
    /\ bus' = {c}
    /\ UNCHANGED <<conn, tracked_clients, server, device, acked, _write_failures, _read_failures, proxyShown, silent, proxyWrites>>

\* A forwarded read that is answered proves the link.
ReadOk(c) ==
    /\ conn[c].at = "read" /\ bus = {c} /\ bus' = {}
    /\ Respond(c, {}, _write_failures)
    /\ UNCHANGED <<device, acked>>

Written(c) == [w \in Words |-> IF w \in conn[c].range THEN conn[c].value ELSE device[w]]

\* Mutant: an acknowledged write confirms the earlier ones.
AllConfirmed(range) == {}
\* Only the words that were written are confirmed.
StillUnconfirmed(range) == _write_failures \ range

WriteOk(c) ==
    /\ conn[c].at = "write" /\ bus = {c} /\ bus' = {}
    /\ device' = Written(c)
    /\ acked' = [w \in Words |-> IF w \in conn[c].range THEN conn[c].value ELSE acked[w]]
    /\ Respond(c, _read_failures, StillUnconfirmed(conn[c].range))

\* The request fails or exceeds PROXY_REQUEST_TIMEOUT_S, in the queue or on
\* the wire: exception 4.  What was on the wire may have been carried out.
RequestFails(c, arrived) ==
    /\ conn[c].at \in {"read", "write"}
    /\ arrived => conn[c].at = "write" /\ bus = {c}
    /\ bus' = bus \ {c}
    /\ device' = IF arrived THEN Written(c) ELSE device
    /\ IF conn[c].at = "read"
       THEN Respond(c, _read_failures \cup {conn[c].range}, _write_failures)
       ELSE Respond(c, _read_failures, _write_failures \cup affected(conn[c].range))
    /\ UNCHANGED acked

\* Expected traffic is missing, and the timer finds out.
Silence ==
    /\ server = "serving" /\ ~silent
    /\ silent' = TRUE /\ proxyShown' = Faults(_read_failures, _write_failures, TRUE)
    /\ UNCHANGED <<conn, tracked_clients, server, bus, device, acked, _write_failures, _read_failures, proxyWrites>>

-----------------------------------------------------------------------------
(* stop().                                                                 *)

\* Every connection there is is cancelled; a write on the wire is left to the inverter.
StopBegins(arrived) ==
    /\ server = "serving" /\ server' = "stopping"
    /\ arrived => bus # {} /\ \A c \in bus : conn[c].at = "write"
    /\ conn' = [c \in Clients |-> IF c \in tracked_clients THEN Gone ELSE conn[c]]
    /\ device' = IF arrived THEN Written(CHOOSE c \in bus : TRUE) ELSE device
    /\ _write_failures' = _write_failures  \* a cancelled request updates nothing
    /\ bus' = bus \ tracked_clients
    /\ UNCHANGED <<tracked_clients, acked, _read_failures, proxyShown, silent, proxyWrites>>

\* The cancelled tasks have ended: _clients is emptied and the port closed.
StopEnds ==
    /\ server = "stopping" /\ server' = "stopped"
    /\ tracked_clients' = {}
    /\ UNCHANGED <<conn, bus, device, acked, _write_failures, _read_failures, proxyShown, silent, proxyWrites>>

ProxyNext ==
    \/ \E c \in Clients :
         \/ Connect(c) \/ Leave(c) \/ CacheHit(c) \/ StartRead(c) \/ Send(c) \/ ReadOk(c) \/ WriteOk(c)
         \/ \E r \in Ranges : StartWrite(c, r)
         \/ \E arrived \in BOOLEAN : RequestFails(c, arrived)
    \/ Silence
    \/ \E arrived \in BOOLEAN : StopBegins(arrived)
    \/ StopEnds

ProxySpec == ProxyInit /\ [][ProxyNext]_proxyVars

-----------------------------------------------------------------------------

\* As long as the proxy serves, a word that holds something other than the
\* last write that was confirmed to a client is reported as unconfirmed:
\* overlapping writes, late failures and time limits do not hide it.
UnconfirmedKnown ==
    server = "serving" =>
        \A w \in Words : device[w] # acked[w] => w \in _write_failures

\* A read fault that is shown is taken back by an answer of the inverter
\* only: "A cache hit in another concurrent request performs no device I/O."
RecoveryProven ==
    ("proxy" \in proxyShown /\ ~silent /\ "proxy" \notin proxyShown')
       => \E c \in bus : conn[c].at = "read" /\ conn'[c] = Idle

\* What the proxy reports of its writes and reads is true: neither a write in
\* doubt nor a fault of the inverter is hidden by other clients or the cache.
ProxyHonest == [][UnconfirmedKnown' /\ RecoveryProven]_proxyVars

\* "Stop the proxy server and disconnect all clients."
NobodyServed == server = "stopped" => \A c \in Clients : conn[c] = Gone

=============================================================================
