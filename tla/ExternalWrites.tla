--------------------------- MODULE ExternalWrites ---------------------------
(***************************************************************************)
(* Writes to register 1038 that come from outside the integration: through *)
(* the Modbus proxy (FC 16) and through the MQTT bridge.  Both are turned  *)
(* away while a feature owns 1038 or the SoC controller is active.         *)
(***************************************************************************)
EXTENDS ChargeLimitBus

CONSTANTS ProxyRequests,  \* proxy requests that can be under way
          MqttCommands,   \* MQTT commands that can be under way
          ExtWatts        \* limits that outside clients write

VARIABLES extPc,   \* where each request and command is suspended
          extLock  \* the command that holds MqttBridge._write_lock

extVars == <<extPc, extLock>>

ExtTasks == ProxyRequests \cup MqttCommands

ExtInit ==
    /\ extPc = [t \in ExtTasks |-> "idle"]
    /\ extLock = NoOne

ExtTypeOK ==
    /\ extPc \in [ExtTasks -> {"idle", "queued", "sent"}]
    /\ extLock \in MqttCommands \cup {NoOne}

ExtGoto(t, pc) == extPc' = [extPc EXCEPT ![t] = pc]

\* _reg_1038_locked_by_integration.
Reg1038Locked == owner # NoOne

\* _handle_write_multiple: a request for exactly register 1038 is a guarded
\* write of the coordinator, one that overlaps it goes out raw.
ProxyWrite(p, socActive) ==
    /\ extPc[p] = "idle"
    /\ ~socActive /\ ~Reg1038Locked
    /\ \E w \in ExtWatts : \/ Await(p, GuardedWriteOf(p, "1038", w))
                           \/ Await(p, RawWriteOf(p, "1038", w))
    /\ ExtGoto(p, "sent")
    /\ UNCHANGED <<owner, extLock>>

ProxyAnswered(p) ==
    /\ extPc[p] = "sent"
    /\ Replied(p)
    /\ GoOn(p)
    /\ ExtGoto(p, "idle")
    /\ UNCHANGED <<owner, extLock>>

\* PROXY_REQUEST_TIMEOUT_S is over: the write is cancelled where it stands.
ProxyTimeout(p) ==
    /\ extPc[p] = "sent"
    /\ bus' = DropFrom(bus, {p})
    /\ backoff' = BackoffWithout({p})
    /\ resp' = [resp EXCEPT ![p] = Silence]
    /\ ExtGoto(p, "idle")
    /\ UNCHANGED <<owner, reg, closing, extLock>>

\* With _write_lock: look at the owner again, then write under the guard.
MqttLocked(m) ==
    \/ /\ Reg1038Locked
       /\ ExtGoto(m, "idle")
       /\ UNCHANGED <<bus, extLock>>
    \/ /\ ~Reg1038Locked
       /\ \E w \in ExtWatts : bus' = Append(bus, GuardedWriteOf(m, "1038", w))
       /\ ExtGoto(m, "sent")
       /\ extLock' = m

\* _execute_write up to the lock; a rejected command changes nothing here.
MqttCommand(m, socActive) ==
    /\ extPc[m] = "idle"
    /\ ~socActive /\ ~Reg1038Locked
    /\ \/ /\ extLock = NoOne /\ \A n \in MqttCommands : extPc[n] # "queued"
          /\ MqttLocked(m)
       \/ /\ extLock # NoOne \/ \E n \in MqttCommands : extPc[n] = "queued"
          /\ ExtGoto(m, "queued")
          /\ UNCHANGED <<bus, extLock>>
    /\ UNCHANGED <<owner, backoff, resp, reg, closing>>

MqttTurn(m) ==
    /\ extPc[m] = "queued"
    /\ extLock = NoOne
    /\ MqttLocked(m)
    /\ UNCHANGED <<owner, backoff, resp, reg, closing>>

MqttAnswered(m) ==
    /\ extPc[m] = "sent"
    /\ Replied(m)
    /\ extLock' = NoOne
    /\ GoOn(m)
    /\ ExtGoto(m, "idle")
    /\ UNCHANGED owner

\* A client sends a request or a command, or a request times out.
ExtCall(socActive) ==
    \/ \E p \in ProxyRequests : ProxyWrite(p, socActive) \/ ProxyTimeout(p)
    \/ \E m \in MqttCommands : MqttCommand(m, socActive)

\* A request or a command goes on.
ExtGoOn(t) ==
    \/ t \in ProxyRequests /\ ProxyAnswered(t)
    \/ t \in MqttCommands /\ (MqttTurn(t) \/ MqttAnswered(t))

ExtQuiet == \A t \in ExtTasks : extPc[t] = "idle"
=============================================================================
