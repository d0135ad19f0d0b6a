--------------------------- MODULE ChargeLimitBus ---------------------------
(***************************************************************************)
(* The shared ground of every feature that drives the battery: the owner   *)
(* of register 1038 (Reg1038OwnerManager), the way a register access takes *)
(* from a coroutine to the inverter and back, and the inverter's battery   *)
(* control registers.                                                      *)
(*                                                                         *)
(* A coroutine that awaits read_register or async_write_register has one   *)
(* frame on `bus' until the answer is in `resp'.  The bus serves its head: *)
(* RequestScheduler lets one access through at a time, in order of arrival *)
(* (FifoGate).  A frame that failed in a way the client retries waits in   *)
(* `backoff' outside the bus and goes to its end again.                    *)
(***************************************************************************)
EXTENDS Integers, Sequences, FiniteSets

CONSTANTS
    Tasks,        \* every coroutine that can have an access under way
    DeviceLimit,  \* the inverter's maximum power, the fallback limit
    UserLimit,    \* charge and discharge limit the user had configured
    Caps,         \* limits the battery management may put in effect
    MaxRetries,   \* MAX_RETRIES of the Modbus client
    Faults,       \* the failures that happen, see the actions that name them
    Habits        \* what callers do, see BlockMayCall and EntityRemoved

ASSUME BusAssumption ==
    /\ DeviceLimit \in Nat /\ UserLimit \in 0 .. DeviceLimit
    /\ Caps \subseteq Nat
    /\ MaxRetries \in Nat
    /\ Faults \subseteq {"refuse", "falter", "expire", "crash", "cancel"}
    /\ Habits \subseteq {"overlap", "redundant", "remove"}

VARIABLES
    owner,    \* Reg1038OwnerManager._owner
    bus,      \* frames waiting for the scheduler lock, the head being served
    backoff,  \* frames the client will send again
    resp,     \* the answer a task has not taken yet
    reg,      \* the inverter's registers
    closing   \* KostalModbusClient._closing

busVars == <<owner, bus, backoff, resp, reg, closing>>

-----------------------------------------------------------------------------
(* Owners of register 1038 and limits.                                     *)

NoOne == "none"
OWNER_GRID_FEEDIN == "grid_feedin_optimizer"
OWNER_SOC_CONTROLLER == "soc_controller"
OWNER_CHARGE_BLOCK == "charge_block"
OWNER_BATTERY_TEST == "battery_test"
Owners == {OWNER_GRID_FEEDIN, OWNER_SOC_CONTROLLER, OWNER_CHARGE_BLOCK,
           OWNER_BATTERY_TEST}

\* Mutant: whoever comes last takes the register over.
CanAcquireAlways(o) == o \in Owners

\* try_acquire() succeeds: free, or taken by the same feature.
CanAcquire(o) == owner \in {NoOne, o}

\* release(): only the owner's own call has an effect.
AfterRelease(o) == IF owner = o THEN NoOne ELSE owner

\* A limit that was not snapshotted.
NoWatts == -1

\* Snapshot if there is one, the device's limit otherwise.
LimitOr(snapshot, fallback) == IF snapshot = NoWatts THEN fallback ELSE snapshot

-----------------------------------------------------------------------------
(* Registers and frames.                                                   *)

\* 1034 is the power setpoint: negative charges, 0 is automatic, positive
\* discharges.  1038 and 1040 are the charge and discharge limits.  "misc"
\* stands for the telemetry registers, whose content nothing here relates.
Regs == {"1034", "1038", "1040", "misc"}

Frame(t, op, r, v, retries, guarded) ==
    [task |-> t, op |-> op, reg |-> r, val |-> v,
     left |-> retries, guarded |-> guarded]

ReadOf(t, r) == Frame(t, "read", r, 0, MaxRetries, FALSE)
WriteOf(t, r, v) == Frame(t, "write", r, v, MaxRetries, FALSE)

\* Mutant: the precondition is not handed down to the client.
UnguardedWriteOf(t, r, v) == Frame(t, "write", r, v, MaxRetries, FALSE)

\* A write with the precondition that no feature owns 1038.
GuardedWriteOf(t, r, v) == Frame(t, "write", r, v, MaxRetries, TRUE)

\* A frame handed to _raw_write directly: no retry.
RawWriteOf(t, r, v) == Frame(t, "write", r, v, 0, FALSE)

Silence == [st |-> "none", val |-> 0]
Success(v) == [st |-> "ok", val |-> v]
Failure == [st |-> "err", val |-> 0]

Replied(t) == resp[t].st # "none"
Succeeded(t) == resp[t].st = "ok"

\* Task t goes on and awaits the access f, if any, next.
Await(t, f) ==
    /\ bus' = Append(bus, f)
    /\ resp' = [resp EXCEPT ![t] = Silence]
    /\ UNCHANGED <<backoff, reg, closing>>

\* Task t goes on without a register access.
GoOn(t) ==
    /\ resp' = [resp EXCEPT ![t] = Silence]
    /\ UNCHANGED <<bus, backoff, reg, closing>>

\* Task.cancel() on the tasks of S: the access they await is dropped, unless
\* the inverter has already carried it out.
DropFrom(queue, S) ==
    LET kept == {i \in DOMAIN queue : queue[i].task \notin S}
        rank(i) == Cardinality({j \in kept : j <= i})
    IN [n \in 1 .. Cardinality(kept) |-> queue[CHOOSE i \in kept : rank(i) = n]]

\* Mutant: a cancelled task still sends its access once more.
BackoffKept(S) == {f \in backoff : f.left >= 0}

BackoffWithout(S) == {f \in backoff : f.task \notin S}

-----------------------------------------------------------------------------
(* What the bus does.                                                      *)

Minimum(a, b) == IF a < b THEN a ELSE b

\* A limit reads back as the limit in effect, lowered by the battery
\* management.
ReadBack(r) ==
    IF r = "1038" THEN {Minimum(reg[r], c) : c \in Caps \cup {reg[r]}}
                  ELSE {reg[r]}

Applied(f) == IF f.op = "write" THEN [reg EXCEPT ![f.reg] = f.val] ELSE reg

\* An answered task holds the lock of the scheduler until it goes on, and
\* goes on up to its next access in the step that gives the lock back.
Settled == \A t \in Tasks : ~Replied(t)

\* The inverter carries out the access at the head and acknowledges it.
Answer ==
    /\ bus # <<>> /\ ~closing
    /\ LET f == Head(bus)
       IN /\ reg' = Applied(f)
          /\ \E v \in IF f.op = "read" THEN ReadBack(f.reg) ELSE {0} :
                resp' = [resp EXCEPT ![f.task] = Success(v)]
    /\ bus' = Tail(bus)
    /\ UNCHANGED <<owner, backoff, closing>>

\* A permanent error, or the client is shutting down.
Refuse ==
    /\ bus # <<>>
    /\ "refuse" \in Faults \/ closing
    /\ resp' = [resp EXCEPT ![Head(bus).task] = Failure]
    /\ bus' = Tail(bus)
    /\ UNCHANGED <<owner, backoff, reg, closing>>

\* A transient error or a lost connection: the inverter may or may not have
\* acted.  The client will try again unless it has no retry left.
Falter ==
    /\ "falter" \in Faults
    /\ bus # <<>> /\ ~closing
    /\ LET f == Head(bus)
       IN /\ reg' \in {reg, Applied(f)}
          /\ \/ /\ f.left > 0
                /\ backoff' = backoff \cup {[f EXCEPT !.left = @ - 1]}
                /\ UNCHANGED resp
             \/ /\ f.left = 0
                /\ resp' = [resp EXCEPT ![f.task] = Failure]
                /\ UNCHANGED backoff
    /\ bus' = Tail(bus)
    /\ UNCHANGED <<owner, closing>>

\* The client's next attempt: the precondition is looked at in the same
\* breath in which the frame joins the queue of the scheduler.
Retry(f) ==
    /\ backoff' = backoff \ {f}
    /\ \/ /\ f.guarded /\ owner # NoOne
          /\ resp' = [resp EXCEPT ![f.task] = Failure]
          /\ UNCHANGED bus
       \/ /\ ~(f.guarded /\ owner # NoOne)
          /\ bus' = Append(bus, f)
          /\ UNCHANGED resp
    /\ UNCHANGED <<owner, reg, closing>>

\* A frame runs into the 120 s timeout of the scheduler.
Expire(i) ==
    /\ "expire" \in Faults
    /\ resp' = [resp EXCEPT ![bus[i].task] = Failure]
    /\ bus' = SubSeq(bus, 1, i - 1) \o SubSeq(bus, i + 1, Len(bus))
    /\ UNCHANGED <<owner, backoff, reg, closing>>

BusNext ==
    /\ Settled
    /\ \/ Answer
       \/ Refuse
       \/ Falter
       \/ \E f \in backoff : Retry(f)
       \/ \E i \in DOMAIN bus : Expire(i)

BusInit ==
    /\ owner = NoOne
    /\ bus = <<>>
    /\ backoff = {}
    /\ resp = [t \in Tasks |-> Silence]
    /\ reg = [r \in Regs |-> IF r \in {"1038", "1040"} THEN UserLimit ELSE 0]
    /\ closing = FALSE

-----------------------------------------------------------------------------

FrameType ==
    [task : Tasks, op : {"read", "write"}, reg : Regs, val : Int,
     left : 0 .. MaxRetries, guarded : BOOLEAN]

BusTypeOK ==
    /\ owner \in Owners \cup {NoOne}
    /\ bus \in Seq(FrameType)
    /\ backoff \subseteq FrameType
    /\ resp \in [Tasks -> [st : {"none", "ok", "err"}, val : Int]]
    /\ reg \in [Regs -> Int]
    /\ \A r \in {"1038", "1040"} : reg[r] \in Nat
    /\ closing \in BOOLEAN

=============================================================================
