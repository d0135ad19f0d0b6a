----------------------------- MODULE ModbusLink -----------------------------
(***************************************************************************)
(* KostalModbusClient seen from the coroutines that use it: the one TCP    *)
(* connection, its generation, the order of accesses, retries, reconnects  *)
(* and the final shutdown.                                                 *)
(*                                                                         *)
(* An access first takes RequestScheduler's gate (`queue', its head has    *)
(* the gate) and then the client's own lock.  connect(), disconnect() and  *)
(* async_shutdown() take only the lock, so they run between the accesses   *)
(* of other tasks.  The lock is held across an await by a task that is on  *)
(* the wire or connecting; everywhere else it is taken and given back in   *)
(* one step, so it needs no variable.                                      *)
(*                                                                         *)
(* `conn' is the link as the client sees it: "dead" is a link the client   *)
(* still believes in although the inverter has restarted behind it.        *)
(***************************************************************************)
EXTENDS Naturals, Sequences

CONSTANTS
    Writers,     \* tasks that call async_write_register
    Poller,      \* the coordinator's refresh task
    Values,      \* values of the control register
    Default,     \* the value an inverter that restarts gives it
    MaxRetries,  \* MAX_RETRIES
    MaxGen,      \* bound: connections made while the model runs
    Faults       \* what may go wrong, see the actions that name them

ASSUME LinkAssumption ==
    /\ Poller \notin Writers
    /\ Default \in Values
    /\ MaxRetries \in Nat /\ MaxGen \in Nat
    /\ Faults \subseteq {"busy", "reject", "lose", "reset", "refuse",
                         "unsure", "expire"}

Tasks == Writers \cup {Poller}

VARIABLES
    job,      \* what each task is doing with the client
    queue,    \* tasks at RequestScheduler's gate
    conn,     \* the transport: "up", "dead" or "down"
    gen,      \* _connection_generation
    closing,  \* _closing
    reg       \* the control register in the inverter

linkVars == <<job, queue, conn, gen, closing, reg>>

\* An access of kind op in its try-th attempt.  A group read that has not
\* fallen back to single registers yet is attempt 0.
Job(where, op, try, val) == [pc |-> where, op |-> op, try |-> try, val |-> val]

Idle == Job("idle", "none", 0, Default)

Jobs ==
    [pc : {"idle", "queued", "wire", "backoff", "disconnect", "connect",
           "connecting"},
     op : {"none", "write", "probe", "fast", "slow", "rest", "info"},
     try : 0 .. MaxRetries + 1,
     val : Values]

connected == conn # "down"

LockFree == \A t \in Tasks : job[t].pc \notin {"wire", "connecting"}

LinkInit ==
    /\ job = [t \in Tasks |-> Idle]
    /\ queue = <<>>
    /\ conn = "up"
    /\ gen = 1
    /\ closing = FALSE
    /\ reg = Default

\* Task t goes on with j; asking for another access puts it at the end of
\* what is left of the queue.
Move(t, j, rest) ==
    /\ job' = [job EXCEPT ![t] = j]
    /\ queue' = IF j.pc = "queued" THEN Append(rest, t) ELSE rest

\* The same task, elsewhere.
At(t, where) == Job(where, job[t].op, job[t].try, job[t].val)

\* The next attempt of what t wants done; a writer's endianness probe only
\* stands between two attempts of its write.
Again(t) ==
    Job("queued", IF t \in Writers THEN "write" ELSE job[t].op,
        job[t].try + 1, job[t].val)

\* detect_endianness() before that.
ProbeFirst(t) == Job("queued", "probe", job[t].try, job[t].val)

-----------------------------------------------------------------------------
(* _raw_read_inner and _raw_write_inner.                                   *)

AtGate(t) == queue # <<>> /\ Head(queue) = t /\ job[t].pc = "queued"

\* The request goes out.
Send(t) ==
    /\ AtGate(t)
    /\ LockFree /\ ~closing /\ connected
    /\ job' = [job EXCEPT ![t] = At(t, "wire")]
    /\ UNCHANGED <<queue, conn, gen, closing, reg>>

\* The access fails before anything is sent: "shutting down", which is seen
\* without waiting for the lock too, or "Not connected".
Refused(t) ==
    /\ AtGate(t)
    /\ closing \/ (LockFree /\ ~connected)
    /\ UNCHANGED <<conn, reg>>

OnWire(t) == job[t].pc = "wire"

\* The answer is good and both locks are given back.
Answered(t) == OnWire(t) /\ conn = "up"

\* The register when t's request has been carried out.
Carried(t) == IF job[t].op = "write" THEN job[t].val ELSE reg

\* The inverter answers with an exception of a transient kind, or with one
\* that no retry can help; "unsure" is an inverter that answers so although
\* it has carried the request out.
Exception(t, kind) ==
    /\ OnWire(t) /\ conn = "up"
    /\ kind \in Faults
    /\ reg' \in {reg} \cup IF "unsure" \in Faults THEN {Carried(t)} ELSE {}

\* Timeout, reset or closed socket: the client drops the connection, and
\* only the inverter knows whether the request arrived.
Lost(t) ==
    /\ OnWire(t)
    /\ "lose" \in Faults \/ conn = "dead"
    /\ conn' = "down"
    /\ reg' \in {reg} \cup IF conn = "up" THEN {Carried(t)} ELSE {}

\* read_register and write_register sleep between attempts, outside both
\* locks, and give up after MAX_RETRIES of them.
MayRetry(t) == job[t].try <= MaxRetries

\* A group read that failed is read again register by register, at once.
AfterTransient(t) ==
    IF job[t].op \notin {"write", "probe"} /\ job[t].try = 0
    THEN Again(t) ELSE At(t, "backoff")

WakeUp(t) ==
    /\ job[t].pc = "backoff"
    /\ Move(t, Again(t), queue)
    /\ UNCHANGED <<conn, gen, closing, reg>>

-----------------------------------------------------------------------------
(* reconnect(): disconnect(), then connect().                              *)

\* After a connection error with attempts left.  While closing, reconnect()
\* raises at once and a writer swallows that.
AfterConnectionError(t) ==
    IF closing \/ job[t].try = 0 \/ job[t].op = "probe"
    THEN Again(t) ELSE At(t, "disconnect")

\* disconnect() closes whatever connection it finds, also one that another
\* task has just made.
Disconnect(t) ==
    /\ job[t].pc = "disconnect"
    /\ LockFree
    /\ conn' = "down"
    /\ job' = [job EXCEPT ![t] = At(t, "connect")]
    /\ UNCHANGED <<queue, gen, closing, reg>>

\* Mutant: connect() does not look at _closing.
ConnectAlways(t) ==
    /\ job[t].pc = "connect"
    /\ LockFree /\ ~connected
    /\ job' = [job EXCEPT ![t] = At(t, "connecting")]
    /\ UNCHANGED <<queue, conn, gen, closing, reg>>

\* connect() opens a connection.
Connect(t) ==
    /\ job[t].pc = "connect"
    /\ LockFree /\ ~closing /\ ~connected
    /\ job' = [job EXCEPT ![t] = At(t, "connecting")]
    /\ UNCHANGED <<queue, conn, gen, closing, reg>>

\* connect() returns TRUE: a new connection, or one it found.
ConnectReturns(t) ==
    \/ job[t].pc = "connecting" /\ gen < MaxGen
    \/ job[t].pc = "connect" /\ LockFree /\ ~closing /\ connected

\* connect() raises: the inverter does not answer, or the client is closing.
ConnectRaises(t) ==
    \/ job[t].pc = "connecting" /\ ("refuse" \in Faults \/ gen = MaxGen)
    \/ job[t].pc = "connect" /\ LockFree /\ closing

\* Mutant: a reconnect is not counted.
SameGeneration(t) == gen

\* The counter and the transport after t's connect() has returned TRUE.
Generation(t) == IF job[t].pc = "connecting" THEN gen + 1 ELSE gen
Transport(t) == IF job[t].pc = "connecting" THEN "up" ELSE conn

\* async_shutdown() of the client.
ShutdownLink ==
    /\ LockFree
    /\ closing' = TRUE
    /\ conn' = "down"
    /\ UNCHANGED <<job, queue, gen, reg>>

-----------------------------------------------------------------------------
(* The inverter.                                                           *)

\* It restarts: volatile settings are lost, and so is the connection, which
\* the client finds out when it next uses it.
RestartInverter ==
    /\ "reset" \in Faults
    /\ conn # "dead"
    /\ reg' = Default
    /\ conn' = IF connected THEN "dead" ELSE conn
    /\ UNCHANGED <<job, queue, gen, closing>>
=============================================================================
