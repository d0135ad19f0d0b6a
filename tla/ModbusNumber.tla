---------------------------- MODULE ModbusNumber ----------------------------
(***************************************************************************)
(* ModbusNumberEntity of modbus_number.py, one entity and its register:    *)
(* overlapping calls of async_set_native_value, each a write, read-backs   *)
(* and a poll that confirms it, and the keepalive that re-writes a G3      *)
(* limit.  Other write paths reach the same register through the           *)
(* coordinator.                                                            *)
(*                                                                         *)
(* The request scheduler is here one place on the wire: a request is on    *)
(* the wire from the step that may change the register to the answer.      *)
(***************************************************************************)
EXTENDS Naturals

CONSTANTS
    NumberCalls,       \* calls of async_set_native_value that may overlap
    Limits,            \* values that are commanded, positive
    READBACK_ATTEMPTS,
    LeaseRetries,      \* MAX_RETRIES of the client
    MaxEvents          \* bound: writes that are begun and connections, together

ASSUME NumberConstants ==
    /\ Limits \subseteq Nat \ {0}
    /\ READBACK_ATTEMPTS \in Nat \ {0} /\ LeaseRetries \in Nat
    /\ MaxEvents \in Nat
    /\ NumberCalls \cap {"nobody", "other", "lease"} = {}

VARIABLES
    readOnly,  \* _read_only
    kind,      \* "cyclic" (1280, 1282) or "effective" (1038, 1040)
    bms,       \* what the battery allows: an effective limit reads no higher
    device,    \* the register in the inverter; 0 is its own fallback
    wire,      \* who has a request on the wire, "nobody" if none
    epoch,     \* connection_generation
    comms,     \* "good", "bad" (faults, stale or failed polls), "closed"
    incidents, \* communication.incidents
    command,   \* _last_commanded: [value, epoch], value 0 for none
    revision,  \* command_revision
    fresh,     \* _proxy_observations of the register, 0 for none
    numberCall,      \* the calls of async_set_native_value
    other,     \* a write on another path: [pc, value]
    lease,     \* the keepalive task and its _keepalive_ values
    report,    \* _last_command: [rev, outcome, seen]
    baseline,  \* _ignored_baseline: [rev, value], rev 0 for none
    notice,    \* the lease-lost notification is shown
    lapsed,    \* history: a lease ended and no command was confirmed since
    unsure,    \* history: a request on the wire failed, and none was answered since
    overlap,   \* history: two commands have overlapped
    begun      \* writes begun

numberVars == <<readOnly, kind, bms, device, wire, epoch, comms, incidents, command, revision,
                fresh, numberCall, other, lease, report, baseline, notice, lapsed, unsure, overlap, begun>>
linkState == <<epoch, comms, incidents>>
entityState == <<report, baseline, notice, lapsed>>

NoNumberCall == [pc |-> "idle", value |-> 0, prev |-> 0, epoch |-> 0, rev |-> 0, tries |-> 0, seen |-> 0]
NoNumberLease == [pc |-> "none", value |-> 0, epoch |-> 0, incidents |-> 0, sent |-> 0, rev |-> 0, tries |-> 0]

\* create_modbus_number_entities: the battery management mode of register 1080,
\* when it is known, and whether the battery registers can be read at all.
read_only(mode, readable) ==
    mode \notin {"unknown", "external via modbus"} /\ (mode = "other" \/ ~readable)

NumberInit ==
    /\ \E mode \in {"unknown", "external via modbus", "none", "other"}, readable \in BOOLEAN :
          readOnly = read_only(mode, readable)
    /\ kind \in {"cyclic", "effective"}
    /\ bms \in (IF kind = "effective" THEN Limits ELSE {0}) /\ device = 0 /\ wire = "nobody"
    /\ epoch = 1 /\ comms = "good" /\ incidents = 0
    /\ command = [value |-> 0, epoch |-> 0] /\ revision = 0 /\ fresh = 0
    /\ numberCall = [c \in NumberCalls |-> NoNumberCall] /\ other = [pc |-> "idle", value |-> 0]
    /\ lease = NoNumberLease /\ report = [rev |-> 0, outcome |-> "none", seen |-> 0]
    /\ baseline = [rev |-> 0, value |-> 0]
    /\ notice = FALSE /\ lapsed = FALSE /\ unsure = FALSE /\ overlap = FALSE /\ begun = 0

-----------------------------------------------------------------------------
(* The register, as the coordinator's clients see it.                      *)

\* last_commanded: nothing is known across a reconnect.
last_commanded == IF command.epoch = epoch THEN command.value ELSE 0

\* 1038 and 1040 read min(command, BMS limit), 1280 and 1282 the command.
RegisterReads == IF kind = "effective" /\ bms < device THEN bms ELSE device

_readback_matches(observed, value) == observed = value

\* A read below the command is the command, limited by the battery, unless a
\* raised limit still reads the previous command.
_readback_limited(observed, value, prev) ==
    /\ kind = "effective" /\ observed < value
    /\ prev = 0 \/ prev >= value \/ ~_readback_matches(observed, prev)

_readback_outcome(observed, value) == IF observed > value THEN "above" ELSE "below"

\* Another command is begun.
Begins ==
    /\ begun + epoch < MaxEvents /\ begun' = begun + 1
    /\ overlap' = (overlap \/ other.pc # "idle" \/ \E c \in NumberCalls : numberCall[c].pc # "idle")

\* A request reaches the inverter, which may ignore it.
Goes(who, value) ==
    /\ wire = "nobody" /\ comms # "closed"
    /\ wire' = who
    /\ device' \in {device, value}

\* async_write_register of the coordinator has its answer and records it.
NumberRecorded(value) ==
    /\ wire' = "nobody" /\ unsure' = FALSE
    /\ revision' = revision + 1
    /\ command' = [value |-> value, epoch |-> epoch]

\* It fails, before it went out or after; what it did is unknown then.
NotAnswered(who) ==
    /\ wire' = IF wire = who THEN "nobody" ELSE wire
    /\ unsure' = (unsure \/ wire = who)

-----------------------------------------------------------------------------
(* async_set_native_value.                                                 *)

\* Mutant: a retry is compared with the command that was rejected.
LastCommandOnly == last_commanded
\* The command in effect before this one.
Previous == IF baseline.rev > 0 /\ baseline.rev = revision THEN baseline.value ELSE last_commanded

\* Validation, then _cancel_keepalive, then the write waits for its turn.
async_set_native_value(c, v) ==
    /\ numberCall[c].pc = "idle" /\ comms = "good" /\ ~readOnly
    /\ Begins
    /\ numberCall' = [numberCall EXCEPT ![c] = [NoNumberCall EXCEPT !.pc = "queued", !.value = v, !.prev = Previous]]
    /\ fresh' = 0
    /\ IF kind = "cyclic"
       THEN /\ lease' = NoNumberLease
            /\ NotAnswered("lease")
            /\ lapsed' = (lapsed \/ lease.pc # "none")
       ELSE UNCHANGED <<lease, wire, unsure, lapsed>>
    /\ UNCHANGED <<readOnly, kind, bms, device, linkState, command, revision, other, report, baseline, notice>>

NumberGoes(c) ==
    /\ numberCall[c].pc = "queued"
    /\ Goes(c, numberCall[c].value)
    /\ numberCall' = [numberCall EXCEPT ![c].pc = "wire"]
    /\ UNCHANGED <<readOnly, kind, bms, linkState, command, revision, fresh, other, lease, entityState, unsure, overlap, begun>>

CallAnswered(c) ==
    /\ numberCall[c].pc = "wire"
    /\ NumberRecorded(numberCall[c].value)
    /\ numberCall' = [numberCall EXCEPT ![c].pc = "read", ![c].epoch = epoch, ![c].rev = revision + 1]
    /\ UNCHANGED <<readOnly, kind, bms, device, linkState, fresh, other, lease, entityState, overlap, begun>>

\* The write raises, and so does the call.
CallFails(c) ==
    /\ numberCall[c].pc \in {"queued", "wire"}
    /\ NotAnswered(c)
    /\ numberCall' = [numberCall EXCEPT ![c] = NoNumberCall]
    /\ UNCHANGED <<readOnly, kind, bms, device, linkState, command, revision, fresh, other, lease, entityState, overlap, begun>>

\* Mutant: the last call that ends is remembered, whichever command it was for.
RecordsAlways(rev, outcome, seen) == report' = [rev |-> revision, outcome |-> outcome, seen |-> seen]
\* A write's outcome is remembered unless a newer write finished first.
_record_last_command(rev, outcome, seen) ==
    report' = IF rev >= report.rev THEN [rev |-> rev, outcome |-> outcome, seen |-> seen] ELSE report

\* The command is not confirmed and the call raises: a cyclic limit is not kept
\* alive, a raised limit that was ignored is remembered with what is in effect.
Unconfirmed(c, outcome, seen) ==
    /\ _record_last_command(numberCall[c].rev, outcome, seen)
    /\ notice' = (notice \/ kind = "cyclic")
    /\ baseline' = IF kind = "effective" /\ outcome = "below" /\ numberCall[c].prev > 0
                   THEN [rev |-> numberCall[c].rev, value |-> numberCall[c].prev] ELSE baseline
    /\ numberCall' = [numberCall EXCEPT ![c] = NoNumberCall]

\* A read-back: it confirms the command, shows it limited, is repeated, or ends
\* the call.
Readback(c) ==
    /\ numberCall[c].pc = "read" /\ wire = "nobody"
    /\ \/ /\ epoch = numberCall[c].epoch /\ comms # "closed"
          /\ LET last == numberCall[c].tries = READBACK_ATTEMPTS - 1
                 matches == _readback_matches(RegisterReads, numberCall[c].value)
                 limited == _readback_limited(RegisterReads, numberCall[c].value, numberCall[c].prev)
             IN  \/ /\ matches \/ (last /\ limited)
                    /\ numberCall' = [numberCall EXCEPT ![c].pc = "refresh", ![c].seen = RegisterReads]
                    /\ UNCHANGED entityState
                 \/ /\ ~matches /\ ~last
                    /\ numberCall' = [numberCall EXCEPT ![c].tries = @ + 1]
                    /\ UNCHANGED entityState
                 \/ /\ ~matches /\ last /\ ~limited
                    /\ Unconfirmed(c, _readback_outcome(RegisterReads, numberCall[c].value), RegisterReads)
                    /\ UNCHANGED lapsed
       \/ Unconfirmed(c, "unreadable", 0) /\ UNCHANGED lapsed  \* no answer, retained, another connection
    /\ UNCHANGED <<readOnly, kind, bms, device, wire, linkState, command, revision, fresh, other, lease, unsure, overlap, begun>>

\* The poll that is awaited reads the register, other polls do the same; one
\* that fails leaves no reading of it that would count.
Poll ==
    /\ wire = "nobody" /\ comms # "closed"
    /\ fresh' = IF comms = "good" THEN RegisterReads ELSE 0
    /\ numberCall' = [c \in NumberCalls |-> IF numberCall[c].pc = "refresh" THEN [numberCall[c] EXCEPT !.pc = "decide"] ELSE numberCall[c]]
    /\ numberCall' # numberCall \/ fresh' # fresh
    /\ UNCHANGED <<readOnly, kind, bms, device, wire, linkState, command, revision, other, lease, entityState, unsure, overlap, begun>>

\* The link is good, the same, and the last reading agrees.
StillConfirmed(c) ==
    /\ comms = "good" /\ epoch = numberCall[c].epoch
    /\ fresh > 0
    /\ \/ _readback_matches(fresh, numberCall[c].value)
       \/ _readback_limited(fresh, numberCall[c].value, numberCall[c].prev)

\* _start_keepalive: a task that runs takes the new value.
_start_keepalive(v) ==
    lease' = [lease EXCEPT !.value = v, !.epoch = epoch, !.incidents = incidents,
                           !.pc = IF @ = "none" THEN "sleeps" ELSE @]

\* The end of the call.
Decide(c) ==
    /\ numberCall[c].pc = "decide"
    /\ IF StillConfirmed(c)
       THEN /\ _record_last_command(numberCall[c].rev,
                 IF _readback_matches(fresh, numberCall[c].value) THEN "confirmed" ELSE "limited", fresh)
            /\ baseline' = [rev |-> 0, value |-> 0]
            /\ IF kind = "cyclic" THEN _start_keepalive(numberCall[c].value) /\ notice' = FALSE /\ lapsed' = FALSE
               ELSE UNCHANGED <<lease, notice, lapsed>>
       ELSE /\ _record_last_command(numberCall[c].rev, "invalidated", numberCall[c].seen)
            /\ notice' = (notice \/ kind = "cyclic")
            /\ UNCHANGED <<baseline, lease, lapsed>>
    /\ numberCall' = [numberCall EXCEPT ![c] = NoNumberCall]
    /\ UNCHANGED <<readOnly, kind, bms, device, wire, linkState, command, revision, fresh, other, unsure, overlap, begun>>

-----------------------------------------------------------------------------
(* _run_keepalive.                                                         *)

\* The lease is lost: said so, and the task ends.
LeaseLost == lease' = NoNumberLease /\ notice' = TRUE /\ lapsed' = TRUE

\* Mutant: a new connection is taken for the old one.
AnyEpoch == comms = "good" /\ incidents = lease.incidents
\* What the loop checks after its sleep.
LeaseHolds ==
    /\ comms = "good" /\ incidents = lease.incidents
    /\ epoch = lease.epoch /\ last_commanded = lease.value

LeaseWakes ==
    /\ lease.pc = "sleeps"
    /\ IF LeaseHolds
       THEN /\ lease' = [lease EXCEPT !.pc = "queued", !.sent = lease.value, !.rev = revision, !.tries = 0]
            /\ fresh' = 0 /\ UNCHANGED <<notice, lapsed>>
       ELSE LeaseLost /\ UNCHANGED fresh
    /\ UNCHANGED <<readOnly, kind, bms, device, wire, linkState, command, revision, numberCall, other, report, baseline, unsure, overlap, begun>>

KeepaliveGoes ==
    /\ lease.pc = "queued"
    /\ Goes("lease", lease.sent)
    /\ lease' = [lease EXCEPT !.pc = "wire"]
    /\ UNCHANGED <<readOnly, kind, bms, linkState, command, revision, fresh, numberCall, other, entityState, unsure, overlap, begun>>

KeepaliveAnswered ==
    /\ lease.pc = "wire"
    /\ lease' = [lease EXCEPT !.pc = "sleeps", !.sent = 0, !.rev = 0, !.tries = 0]
    /\ wire' = "nobody"
    /\ UNCHANGED <<readOnly, kind, bms, device, linkState, command, revision, fresh, numberCall, other, entityState, unsure, overlap, begun>>

\* The precondition, which the client evaluates before a retry.
Precondition == epoch = lease.epoch /\ revision = lease.rev

\* The client sleeps and repeats the write, or gives up.
KeepaliveFails ==
    /\ lease.pc \in {"queued", "wire"}
    /\ NotAnswered("lease")
    /\ \/ lease.tries < LeaseRetries
          /\ lease' = [lease EXCEPT !.pc = "backoff", !.tries = @ + 1]
          /\ UNCHANGED <<notice, lapsed>>
       \/ LeaseLost
    /\ UNCHANGED <<readOnly, kind, bms, device, linkState, command, revision, fresh, numberCall, other, report, baseline, overlap, begun>>

KeepaliveRepeats ==
    /\ lease.pc = "backoff"
    /\ IF Precondition THEN lease' = [lease EXCEPT !.pc = "queued"] /\ UNCHANGED <<notice, lapsed>>
       ELSE LeaseLost
    /\ UNCHANGED <<readOnly, kind, bms, device, wire, linkState, command, revision, fresh, numberCall, other, report, baseline, unsure, overlap, begun>>

-----------------------------------------------------------------------------
(* The other write paths, and the link.                                    *)

OtherBegins(v) ==
    /\ other.pc = "idle" /\ comms # "closed"
    /\ Begins
    /\ other' = [pc |-> "queued", value |-> v]
    /\ fresh' = 0
    /\ UNCHANGED <<readOnly, kind, bms, device, wire, linkState, command, revision, numberCall, lease, entityState, unsure>>

OtherGoes ==
    /\ other.pc = "queued"
    /\ Goes("other", other.value)
    /\ other' = [other EXCEPT !.pc = "wire"]
    /\ UNCHANGED <<readOnly, kind, bms, linkState, command, revision, fresh, numberCall, lease, entityState, unsure, overlap, begun>>

OtherAnswered ==
    /\ other.pc = "wire"
    /\ NumberRecorded(other.value)
    /\ other' = [pc |-> "idle", value |-> 0]
    /\ UNCHANGED <<readOnly, kind, bms, device, linkState, fresh, numberCall, lease, entityState, overlap, begun>>

OtherFails ==
    /\ other.pc \in {"queued", "wire"}
    /\ NotAnswered("other")
    /\ other' = [pc |-> "idle", value |-> 0]
    /\ UNCHANGED <<readOnly, kind, bms, device, linkState, command, revision, fresh, numberCall, lease, entityState, overlap, begun>>

\* A reconnect, of an inverter that may have restarted.
Reconnects ==
    /\ begun + epoch < MaxEvents /\ comms # "closed" /\ wire = "nobody"
    /\ epoch' = epoch + 1 /\ comms' = "good" /\ fresh' = 0
    /\ device' \in {device, 0}
    /\ UNCHANGED <<readOnly, kind, bms, wire, incidents, command, revision, numberCall, other, lease, entityState, unsure, overlap, begun>>

\* A poll fails, and one works again.
CommsChange ==
    /\ \/ comms = "good" /\ incidents = 0 /\ comms' = "bad" /\ incidents' = incidents + 1
       \/ comms = "bad" /\ comms' = "good" /\ UNCHANGED incidents
    /\ UNCHANGED <<readOnly, kind, bms, device, wire, epoch, command, revision, fresh, numberCall, other, lease, entityState, unsure, overlap, begun>>

\* async_will_remove_from_hass, and the link is closed.
Removed ==
    /\ comms # "closed"
    /\ comms' = "closed"
    /\ lease' = NoNumberLease /\ lapsed' = FALSE
    /\ NotAnswered("lease")
    /\ UNCHANGED <<readOnly, kind, bms, device, epoch, incidents, command, revision, fresh, numberCall, other, report, baseline, notice, overlap, begun>>

NumberNext ==
    \/ \E c \in NumberCalls :
          \/ \E v \in Limits : async_set_native_value(c, v)
          \/ NumberGoes(c) \/ CallAnswered(c) \/ CallFails(c) \/ Readback(c) \/ Decide(c)
    \/ Poll \/ LeaseWakes \/ KeepaliveGoes \/ KeepaliveAnswered \/ KeepaliveFails \/ KeepaliveRepeats
    \/ (\E v \in Limits : OtherBegins(v)) \/ OtherGoes \/ OtherAnswered \/ OtherFails
    \/ Reconnects \/ CommsChange \/ Removed

NumberSpec == NumberInit /\ [][NumberNext]_numberVars

-----------------------------------------------------------------------------

\* The outcome that is shown beside a command holds of that command: one shown
\* as confirmed, on a link that stayed, is what the inverter has, unless a write
\* is under way or one was lost on the wire.  Of a G3 limit only when commands
\* did not overlap, for the keepalive's first attempt has no precondition.
ShownOutcomeTrue ==
    (kind = "effective" \/ ~overlap) /\ report.rev = revision /\ report.outcome = "confirmed" /\ command.epoch = epoch /\ wire = "nobody" /\ ~unsure
        => device = command.value \/ (kind = "effective" /\ bms = command.value)

\* A raised limit that the inverter ignored stays rejected: the same reading does
\* not turn into a command "limited by the BMS" when the command is tried again.
IgnoredRaiseFails ==
    report.outcome = "below" /\ report'.rev = report.rev + 1 /\ report'.outcome = "limited" /\ ~overlap
      => report'.seen # report.seen

\* What is reported of a Modbus command is true of it, however its read-back and
\* those of other commands are ordered (async_set_native_value, _record_last_command).
OutcomesTrue == [][ShownOutcomeTrue' /\ IgnoredRaiseFails]_numberVars

\* A lease of a connection that is gone ends, "does not automatically resurrect
\* when the connection recovers", unless a new command is confirmed.
LostEpochEnds == (lease.pc # "none" /\ lease.epoch # epoch) ~> (lease.pc = "none" \/ lease.epoch = epoch)

\* "A client retry must not restore this value once another command or a
\* reconnect has superseded it."
RetryNeverRestores ==
    [][lease.pc = "queued" /\ lease'.pc = "wire" /\ lease.tries > 0 => lease.rev = revision /\ lease.epoch = epoch]_numberVars

\* "Failed writes, lost communication epochs and changed Modbus command
\* ownership halt the old lease, with a visible notification."
LapseTold ==
    lapsed /\ (\A c \in NumberCalls : numberCall[c].pc = "idle") => notice

=============================================================================
