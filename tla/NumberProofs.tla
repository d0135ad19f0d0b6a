---------------------------- MODULE NumberProofs -----------------------------
(* Proof that what a write of a Modbus number is said to have done is true,   *)
(* beside the G3 keepalive, other writers, reconnects and a polled device,    *)
(* for any values, calls and bounds.                                          *)
EXTENDS ModbusNumber, TLAPS

CallRecords ==
    [pc : {"idle", "queued", "wire", "read", "refresh", "decide"}, value : Nat, prev : Nat, epoch : Nat, rev : Nat,
     tries : Nat, seen : Nat]
LeaseRecords ==
    [pc : {"none", "sleeps", "queued", "wire", "backoff"}, value : Nat, epoch : Nat, incidents : Nat, sent : Nat,
     rev : Nat, tries : Nat]
Outcomes == {"none", "confirmed", "limited", "invalidated", "above", "below", "unreadable"}

NumberTypeOK ==
    /\ kind \in {"cyclic", "effective"} /\ bms \in Nat /\ device \in Nat
    /\ epoch \in Nat /\ incidents \in Nat /\ revision \in Nat /\ fresh \in Nat
    /\ command \in [value : Nat, epoch : Nat] /\ command.epoch <= epoch
    /\ numberCall \in [NumberCalls -> CallRecords] /\ lease \in LeaseRecords
    /\ other \in [pc : {"idle", "queued", "wire"}, value : Nat]
    /\ report \in [rev : Nat, outcome : Outcomes, seen : Nat] /\ report.rev <= revision
    /\ baseline \in [rev : Nat, value : Nat]
    /\ unsure \in BOOLEAN /\ overlap \in BOOLEAN

\* Who is on the wire.
WireTrue ==
    /\ \A c \in NumberCalls : numberCall[c].pc = "wire" => wire = c
    /\ other.pc = "wire" => wire = "other"
    /\ wire = "lease" <=> lease.pc = "wire"

\* Only a cyclic limit has a lease, of a value that was commanded.
LeaseTrue ==
    /\ kind = "effective" => lease.pc = "none"
    /\ lease.pc # "none" => lease.value > 0

\* Without overlap there is one command at a time, and no lease beside it.
OneAtATime ==
    ~overlap => \A c \in NumberCalls : numberCall[c].pc # "idle" =>
        /\ other.pc = "idle" /\ lease.pc = "none"
        /\ \A d \in NumberCalls : numberCall[d].pc # "idle" => d = c

CallIsAnswered(c) == numberCall[c].pc \in {"read", "refresh", "decide"}

\* A call that was answered has a revision of its own, that of its command.
RevisionsTrue ==
    \A c \in NumberCalls : CallIsAnswered(c) =>
        /\ numberCall[c].rev <= revision /\ numberCall[c].epoch <= epoch
        /\ numberCall[c].rev = revision => command.value = numberCall[c].value
        /\ ~overlap => report.rev < numberCall[c].rev

\* The keepalive sends the command that was reported.
SendsCommand ==
    ~overlap /\ report.rev = revision /\ lease.pc \in {"queued", "wire", "backoff"} => lease.sent = command.value

\* The reading a call decides on is what the register has.
Judged == kind = "effective" \/ ~overlap

FreshIsRead ==
    \A c \in NumberCalls :
        Judged /\ numberCall[c].pc = "decide" /\ numberCall[c].rev = revision /\ numberCall[c].epoch = epoch
          /\ wire = "nobody" /\ ~unsure /\ fresh > 0
        => fresh = RegisterReads

\* What was confirmed is in effect, also while the keepalive writes it again.
ConfirmedHolds ==
    Judged /\ report.rev = revision /\ report.outcome = "confirmed" /\ command.epoch = epoch
      /\ wire \in {"nobody", "lease"} /\ ~unsure
    => device = command.value \/ (kind = "effective" /\ bms = command.value)

\* A raise that was ignored is remembered with what it read, ...
BelowKept ==
    kind = "effective" /\ ~overlap /\ report.outcome = "below"
    => baseline = [rev |-> report.rev, value |-> report.seen] /\ report.seen > 0 /\ report.rev > 0

\* ... and the command that follows is compared with that.
PreviousTrue ==
    kind = "effective" /\ ~overlap /\ report.outcome = "below"
    => \A c \in NumberCalls :
          \/ numberCall[c].pc \in {"queued", "wire"} /\ revision = report.rev
          \/ CallIsAnswered(c) /\ numberCall[c].rev = report.rev + 1
          => numberCall[c].prev = report.seen

NumberInv ==
    /\ NumberTypeOK /\ WireTrue /\ LeaseTrue /\ OneAtATime /\ RevisionsTrue
    /\ SendsCommand /\ FreshIsRead /\ ConfirmedHolds /\ BelowKept /\ PreviousTrue

\* Each action keeps the invariant: first the steps of the call and its lease,
\* then those of the other writer and of the link.
LEMMA NumberGoesKeeps ==
    ASSUME NumberInv, NEW c \in NumberCalls, NumberGoes(c)
    PROVE  NumberInv'
<1> USE DEF NumberGoes, Goes, linkState, entityState
<1>1. NumberTypeOK'
    BY NumberConstants DEF NumberInv, NumberTypeOK, CallRecords
<1>2. WireTrue'
    BY NumberConstants DEF NumberInv, WireTrue
<1>3. LeaseTrue'
    BY NumberConstants DEF NumberInv, LeaseTrue
<1>4. OneAtATime'
    BY NumberConstants DEF NumberInv, OneAtATime
<1>5. RevisionsTrue'
    BY NumberConstants DEF NumberInv, RevisionsTrue, CallIsAnswered
<1>6. SendsCommand'
    BY NumberConstants DEF NumberInv, SendsCommand
<1>7. FreshIsRead'
    BY NumberConstants DEF NumberInv, FreshIsRead, Judged, RegisterReads
<1>8. ConfirmedHolds'
    BY NumberConstants DEF NumberInv, ConfirmedHolds, Judged
<1>9. BelowKept'
    BY NumberConstants DEF NumberInv, BelowKept
<1>10. PreviousTrue'
    BY NumberConstants DEF NumberInv, PreviousTrue, CallIsAnswered
<1> QED BY <1>1, <1>2, <1>3, <1>4, <1>5, <1>6, <1>7, <1>8, <1>9, <1>10 DEF NumberInv

LEMMA CallAnsweredKeeps ==
    ASSUME NumberInv, NEW c \in NumberCalls, CallAnswered(c)
    PROVE  NumberInv'
<1> USE DEF CallAnswered, NumberRecorded, linkState, entityState
<1>1. NumberTypeOK'
  <2> DEFINE r == [numberCall[c] EXCEPT !.pc = "read", !.epoch = epoch, !.rev = revision + 1]
  <2>0. numberCall[c] \in CallRecords /\ epoch \in Nat /\ revision + 1 \in Nat
      BY DEF NumberInv, NumberTypeOK
  <2>4. r \in CallRecords
      BY <2>0 DEF CallRecords
  <2>5. numberCall' = [numberCall EXCEPT ![c] = r]
      BY <2>0 DEF NumberInv, NumberTypeOK
  <2>1. numberCall' \in [NumberCalls -> CallRecords]
      BY <2>4, <2>5 DEF NumberInv, NumberTypeOK
  <2>2. command' \in [value : Nat, epoch : Nat] /\ command'.epoch <= epoch' /\ revision' \in Nat /\ report.rev <= revision'
      BY DEF NumberInv, NumberTypeOK, CallRecords
  <2> QED BY <2>1, <2>2 DEF NumberInv, NumberTypeOK
<1>2. WireTrue'
    BY NumberConstants DEF NumberInv, WireTrue, NumberTypeOK
<1>3. LeaseTrue'
    BY DEF NumberInv, LeaseTrue
<1>4. OneAtATime'
    BY DEF NumberInv, OneAtATime, NumberTypeOK
<1>5. RevisionsTrue'
    BY DEF NumberInv, RevisionsTrue, CallIsAnswered, NumberTypeOK, CallRecords
<1>6. SendsCommand'
    BY DEF NumberInv, SendsCommand, NumberTypeOK
<1>7. FreshIsRead'
    BY DEF NumberInv, FreshIsRead, Judged, RegisterReads, NumberTypeOK, RevisionsTrue, CallIsAnswered
<1>8. ConfirmedHolds'
    BY DEF NumberInv, ConfirmedHolds, Judged, NumberTypeOK
<1>9. BelowKept'
    BY DEF NumberInv, BelowKept
<1>10. PreviousTrue'
  <2>1. numberCall'[c].prev = numberCall[c].prev /\ numberCall'[c].rev = revision + 1 /\ numberCall'[c].pc = "read"
      BY DEF NumberInv, NumberTypeOK, CallRecords
  <2>2. \A d \in NumberCalls : d # c => numberCall'[d] = numberCall[d]
      BY DEF NumberInv, NumberTypeOK
  <2>3. ~overlap => \A d \in NumberCalls : d # c => numberCall[d].pc = "idle"
      BY DEF NumberInv, OneAtATime
  <2>4. revision + 1 = report.rev + 1 => revision = report.rev
      BY DEF NumberInv, NumberTypeOK
  <2> QED BY <2>1, <2>2, <2>3, <2>4 DEF NumberInv, PreviousTrue, CallIsAnswered
<1> QED BY <1>1, <1>2, <1>3, <1>4, <1>5, <1>6, <1>7, <1>8, <1>9, <1>10 DEF NumberInv

LEMMA CallFailsKeeps ==
    ASSUME NumberInv, NEW c \in NumberCalls, CallFails(c)
    PROVE  NumberInv'
<1> USE DEF CallFails, NotAnswered, linkState, entityState, NoNumberCall
<1>1. NumberTypeOK'
    BY NumberConstants DEF NumberInv, NumberTypeOK, CallRecords
<1>2. WireTrue'
    BY NumberConstants DEF NumberInv, WireTrue, NumberTypeOK
<1>3. LeaseTrue'
    BY NumberConstants DEF NumberInv, LeaseTrue
<1>4. OneAtATime'
    BY NumberConstants DEF NumberInv, OneAtATime
<1>5. RevisionsTrue'
    BY NumberConstants DEF NumberInv, RevisionsTrue, CallIsAnswered
<1>6. SendsCommand'
    BY NumberConstants DEF NumberInv, SendsCommand
<1>7. FreshIsRead'
    BY NumberConstants DEF NumberInv, FreshIsRead, Judged, RegisterReads, NumberTypeOK
<1>8. ConfirmedHolds'
    BY NumberConstants DEF NumberInv, ConfirmedHolds, Judged
<1>9. BelowKept'
    BY NumberConstants DEF NumberInv, BelowKept
<1>10. PreviousTrue'
    BY NumberConstants DEF NumberInv, PreviousTrue, CallIsAnswered
<1> QED BY <1>1, <1>2, <1>3, <1>4, <1>5, <1>6, <1>7, <1>8, <1>9, <1>10 DEF NumberInv

LEMMA PollKeeps ==
    ASSUME NumberInv, Poll
    PROVE  NumberInv'
<1> USE DEF Poll, linkState, entityState
<1>1. NumberTypeOK'
  <2>1. numberCall' \in [NumberCalls -> CallRecords]
      BY DEF NumberInv, NumberTypeOK, CallRecords
  <2>2. fresh' \in Nat
      BY DEF NumberInv, NumberTypeOK, RegisterReads
  <2> QED BY <2>1, <2>2 DEF NumberInv, NumberTypeOK
<1>2. WireTrue'
    BY NumberConstants DEF NumberInv, WireTrue
<1>3. LeaseTrue'
    BY DEF NumberInv, LeaseTrue
<1>4. OneAtATime'
    BY DEF NumberInv, OneAtATime
<1>5. RevisionsTrue'
    BY DEF NumberInv, RevisionsTrue, CallIsAnswered
<1>6. SendsCommand'
    BY DEF NumberInv, SendsCommand
<1>7. FreshIsRead'
    BY DEF NumberInv, FreshIsRead, Judged, RegisterReads
<1>8. ConfirmedHolds'
    BY DEF NumberInv, ConfirmedHolds, Judged
<1>9. BelowKept'
    BY DEF NumberInv, BelowKept
<1>10. PreviousTrue'
    BY DEF NumberInv, PreviousTrue, CallIsAnswered
<1> QED BY <1>1, <1>2, <1>3, <1>4, <1>5, <1>6, <1>7, <1>8, <1>9, <1>10 DEF NumberInv

LEMMA LeaseWakesKeeps ==
    ASSUME NumberInv, LeaseWakes
    PROVE  NumberInv'
<1>91. /\ lease.pc = "sleeps" /\ lease' \in LeaseRecords /\ lease'.pc \in {"none", "queued"}
       /\ lease'.pc = "queued" => lease'.sent = command.value /\ lease'.value > 0
  <2>1. CASE LeaseHolds
    <3>1. lease' = [lease EXCEPT !.pc = "queued", !.sent = lease.value, !.rev = revision, !.tries = 0] /\ lease.pc = "sleeps"
        BY <2>1 DEF LeaseWakes
    <3>2. lease.value > 0 /\ lease.value = command.value
        BY <2>1, <3>1 DEF NumberInv, LeaseTrue, NumberTypeOK, LeaseHolds, last_commanded
    <3> QED BY <3>1, <3>2 DEF NumberInv, NumberTypeOK, LeaseRecords
  <2>2. CASE ~LeaseHolds
      BY <2>2 DEF LeaseWakes, LeaseLost, NoNumberLease, LeaseRecords
  <2> QED BY <2>1, <2>2
<1>92. fresh' \in {0, fresh} /\ UNCHANGED <<readOnly, kind, bms, device, wire, epoch, comms, incidents, command, revision,
                                         numberCall, other, report, baseline, unsure, overlap, begun>>
    BY DEF LeaseWakes, linkState, LeaseLost
<1>1. NumberTypeOK'
    BY <1>91, <1>92 DEF NumberInv, NumberTypeOK
<1>2. WireTrue'
    BY <1>91, <1>92, NumberConstants DEF NumberInv, WireTrue
<1>3. LeaseTrue'
    BY <1>91, <1>92 DEF NumberInv, LeaseTrue
<1>4. OneAtATime'
    BY <1>91, <1>92 DEF NumberInv, OneAtATime
<1>5. RevisionsTrue'
    BY <1>91, <1>92 DEF NumberInv, RevisionsTrue, CallIsAnswered
<1>6. SendsCommand'
    BY <1>91, <1>92 DEF NumberInv, SendsCommand
<1>7. FreshIsRead'
    BY <1>91, <1>92 DEF NumberInv, FreshIsRead, Judged, RegisterReads
<1>8. ConfirmedHolds'
    BY <1>91, <1>92 DEF NumberInv, ConfirmedHolds, Judged
<1>9. BelowKept'
    BY <1>91, <1>92 DEF NumberInv, BelowKept
<1>10. PreviousTrue'
    BY <1>91, <1>92 DEF NumberInv, PreviousTrue, CallIsAnswered
<1> QED BY <1>1, <1>2, <1>3, <1>4, <1>5, <1>6, <1>7, <1>8, <1>9, <1>10 DEF NumberInv

LEMMA KeepaliveGoesKeeps ==
    ASSUME NumberInv, KeepaliveGoes
    PROVE  NumberInv'
<1> USE DEF KeepaliveGoes, Goes, linkState, entityState
<1>1. NumberTypeOK'
    BY NumberConstants DEF NumberInv, NumberTypeOK, LeaseRecords
<1>2. WireTrue'
    BY NumberConstants DEF NumberInv, WireTrue
<1>3. LeaseTrue'
    BY NumberConstants DEF NumberInv, LeaseTrue
<1>4. OneAtATime'
    BY NumberConstants DEF NumberInv, OneAtATime
<1>5. RevisionsTrue'
    BY NumberConstants DEF NumberInv, RevisionsTrue, CallIsAnswered
<1>6. SendsCommand'
    BY NumberConstants DEF NumberInv, SendsCommand
<1>7. FreshIsRead'
    BY NumberConstants DEF NumberInv, FreshIsRead, Judged, RegisterReads
<1>8. ConfirmedHolds'
    BY DEF NumberInv, NumberTypeOK, LeaseTrue, SendsCommand, ConfirmedHolds, Judged
<1>9. BelowKept'
    BY NumberConstants DEF NumberInv, BelowKept
<1>10. PreviousTrue'
    BY NumberConstants DEF NumberInv, PreviousTrue, CallIsAnswered
<1> QED BY <1>1, <1>2, <1>3, <1>4, <1>5, <1>6, <1>7, <1>8, <1>9, <1>10 DEF NumberInv

LEMMA KeepaliveAnsweredKeeps ==
    ASSUME NumberInv, KeepaliveAnswered
    PROVE  NumberInv'
<1> USE DEF KeepaliveAnswered, linkState, entityState
<1>1. NumberTypeOK'
    BY DEF NumberInv, NumberTypeOK, LeaseRecords
<1>2. WireTrue'
    BY NumberConstants DEF NumberInv, WireTrue
<1>3. LeaseTrue'
    BY DEF NumberInv, LeaseTrue
<1>4. OneAtATime'
    BY DEF NumberInv, OneAtATime
<1>5. RevisionsTrue'
    BY DEF NumberInv, RevisionsTrue, CallIsAnswered
<1>6. SendsCommand'
    BY DEF NumberInv, SendsCommand
<1>7. FreshIsRead'
    BY DEF NumberInv, FreshIsRead, Judged, RegisterReads, NumberTypeOK, OneAtATime, LeaseTrue, WireTrue
<1>8. ConfirmedHolds'
    BY DEF NumberInv, ConfirmedHolds, Judged, NumberTypeOK, WireTrue
<1>9. BelowKept'
    BY DEF NumberInv, BelowKept
<1>10. PreviousTrue'
    BY DEF NumberInv, PreviousTrue, CallIsAnswered
<1> QED BY <1>1, <1>2, <1>3, <1>4, <1>5, <1>6, <1>7, <1>8, <1>9, <1>10 DEF NumberInv

LEMMA KeepaliveFailsKeeps ==
    ASSUME NumberInv, KeepaliveFails
    PROVE  NumberInv'
<1>91. /\ lease' \in LeaseRecords /\ lease'.pc \in {"none", "backoff"}
       /\ lease'.pc = "backoff" => lease'.sent = lease.sent /\ lease'.value = lease.value
  <2>1. CASE LeaseLost
      BY <2>1 DEF LeaseLost, NoNumberLease, LeaseRecords
  <2>2. CASE lease' = [lease EXCEPT !.pc = "backoff", !.tries = @ + 1]
    <3>1. lease \in LeaseRecords /\ lease.tries + 1 \in Nat
        BY DEF NumberInv, NumberTypeOK, LeaseRecords
    <3> QED BY <2>2, <3>1 DEF LeaseRecords
  <2> QED BY <2>1, <2>2 DEF KeepaliveFails
<1>92. /\ UNCHANGED <<readOnly, kind, bms, device, epoch, comms, incidents, command, revision, fresh, numberCall, other,
                  report, baseline, overlap, begun>>
       /\ wire' = (IF wire = "lease" THEN "nobody" ELSE wire) /\ unsure' = (unsure \/ wire = "lease")
       /\ lease.pc \in {"queued", "wire"}
    BY DEF KeepaliveFails, NotAnswered, linkState
<1>1. NumberTypeOK'
    BY <1>91, <1>92 DEF NumberInv, NumberTypeOK
<1>2. WireTrue'
    BY <1>91, <1>92, NumberConstants DEF NumberInv, WireTrue
<1>3. LeaseTrue'
    BY <1>91, <1>92 DEF NumberInv, LeaseTrue
<1>4. OneAtATime'
    BY <1>91, <1>92 DEF NumberInv, OneAtATime
<1>5. RevisionsTrue'
    BY <1>91, <1>92 DEF NumberInv, RevisionsTrue, CallIsAnswered
<1>6. SendsCommand'
    BY <1>91, <1>92 DEF NumberInv, SendsCommand
<1>7. FreshIsRead'
    BY <1>91, <1>92 DEF NumberInv, FreshIsRead, Judged, RegisterReads
<1>8. ConfirmedHolds'
    BY <1>91, <1>92 DEF NumberInv, ConfirmedHolds, Judged
<1>9. BelowKept'
    BY <1>91, <1>92 DEF NumberInv, BelowKept
<1>10. PreviousTrue'
    BY <1>91, <1>92 DEF NumberInv, PreviousTrue, CallIsAnswered
<1> QED BY <1>1, <1>2, <1>3, <1>4, <1>5, <1>6, <1>7, <1>8, <1>9, <1>10 DEF NumberInv

LEMMA KeepaliveRepeatsKeeps ==
    ASSUME NumberInv, KeepaliveRepeats
    PROVE  NumberInv'
<1> USE DEF KeepaliveRepeats, LeaseLost, linkState, NoNumberLease
<1>1. NumberTypeOK'
    BY DEF NumberInv, NumberTypeOK, LeaseRecords
<1>2. WireTrue'
    BY NumberConstants DEF NumberInv, WireTrue, NumberTypeOK, LeaseRecords
<1>3. LeaseTrue'
    BY DEF NumberInv, LeaseTrue, NumberTypeOK, LeaseRecords
<1>4. OneAtATime'
    BY DEF NumberInv, OneAtATime
<1>5. RevisionsTrue'
    BY DEF NumberInv, RevisionsTrue, CallIsAnswered
<1>6. SendsCommand'
    BY DEF NumberInv, SendsCommand, NumberTypeOK, LeaseRecords
<1>7. FreshIsRead'
    BY DEF NumberInv, FreshIsRead, Judged, RegisterReads
<1>8. ConfirmedHolds'
    BY DEF NumberInv, ConfirmedHolds, Judged
<1>9. BelowKept'
    BY DEF NumberInv, BelowKept
<1>10. PreviousTrue'
    BY DEF NumberInv, PreviousTrue, CallIsAnswered
<1> QED BY <1>1, <1>2, <1>3, <1>4, <1>5, <1>6, <1>7, <1>8, <1>9, <1>10 DEF NumberInv

LEMMA OtherGoesKeeps ==
    ASSUME NumberInv, OtherGoes
    PROVE  NumberInv'
<1> USE DEF OtherGoes, Goes, linkState, entityState
<1>1. NumberTypeOK'
    BY NumberConstants DEF NumberInv, NumberTypeOK
<1>2. WireTrue'
    BY NumberConstants DEF NumberInv, WireTrue
<1>3. LeaseTrue'
    BY NumberConstants DEF NumberInv, LeaseTrue
<1>4. OneAtATime'
    BY NumberConstants DEF NumberInv, OneAtATime
<1>5. RevisionsTrue'
    BY NumberConstants DEF NumberInv, RevisionsTrue, CallIsAnswered
<1>6. SendsCommand'
    BY NumberConstants DEF NumberInv, SendsCommand
<1>7. FreshIsRead'
    BY NumberConstants DEF NumberInv, FreshIsRead, Judged, RegisterReads
<1>8. ConfirmedHolds'
    BY NumberConstants DEF NumberInv, ConfirmedHolds, Judged
<1>9. BelowKept'
    BY NumberConstants DEF NumberInv, BelowKept
<1>10. PreviousTrue'
    BY NumberConstants DEF NumberInv, PreviousTrue, CallIsAnswered
<1> QED BY <1>1, <1>2, <1>3, <1>4, <1>5, <1>6, <1>7, <1>8, <1>9, <1>10 DEF NumberInv

LEMMA OtherAnsweredKeeps ==
    ASSUME NumberInv, OtherAnswered
    PROVE  NumberInv'
<1> USE DEF OtherAnswered, NumberRecorded, linkState, entityState
<1>1. NumberTypeOK'
  <2>1. command' \in [value : Nat, epoch : Nat] /\ command'.epoch <= epoch' /\ revision' \in Nat /\ report.rev <= revision'
      BY DEF NumberInv, NumberTypeOK
  <2> QED BY <2>1 DEF NumberInv, NumberTypeOK
<1>2. WireTrue'
    BY NumberConstants DEF NumberInv, WireTrue
<1>3. LeaseTrue'
    BY DEF NumberInv, LeaseTrue
<1>4. OneAtATime'
    BY DEF NumberInv, OneAtATime
<1>5. RevisionsTrue'
    BY DEF NumberInv, RevisionsTrue, CallIsAnswered, NumberTypeOK, CallRecords
<1>6. SendsCommand'
    BY DEF NumberInv, SendsCommand, NumberTypeOK
<1>7. FreshIsRead'
    BY DEF NumberInv, FreshIsRead, Judged, RegisterReads, NumberTypeOK, RevisionsTrue, CallIsAnswered
<1>8. ConfirmedHolds'
    BY DEF NumberInv, ConfirmedHolds, Judged, NumberTypeOK
<1>9. BelowKept'
    BY DEF NumberInv, BelowKept
<1>10. PreviousTrue'
    BY DEF NumberInv, PreviousTrue, CallIsAnswered, NumberTypeOK
<1> QED BY <1>1, <1>2, <1>3, <1>4, <1>5, <1>6, <1>7, <1>8, <1>9, <1>10 DEF NumberInv

LEMMA OtherFailsKeeps ==
    ASSUME NumberInv, OtherFails
    PROVE  NumberInv'
<1> USE DEF OtherFails, NotAnswered, linkState, entityState
<1>1. NumberTypeOK'
    BY DEF NumberInv, NumberTypeOK
<1>2. WireTrue'
    BY NumberConstants DEF NumberInv, WireTrue
<1>3. LeaseTrue'
    BY DEF NumberInv, LeaseTrue
<1>4. OneAtATime'
    BY DEF NumberInv, OneAtATime
<1>5. RevisionsTrue'
    BY DEF NumberInv, RevisionsTrue, CallIsAnswered
<1>6. SendsCommand'
    BY DEF NumberInv, SendsCommand
<1>7. FreshIsRead'
    BY DEF NumberInv, FreshIsRead, Judged, RegisterReads
<1>8. ConfirmedHolds'
    BY DEF NumberInv, ConfirmedHolds, Judged
<1>9. BelowKept'
    BY DEF NumberInv, BelowKept
<1>10. PreviousTrue'
    BY DEF NumberInv, PreviousTrue, CallIsAnswered
<1> QED BY <1>1, <1>2, <1>3, <1>4, <1>5, <1>6, <1>7, <1>8, <1>9, <1>10 DEF NumberInv

LEMMA ReconnectsKeeps ==
    ASSUME NumberInv, Reconnects
    PROVE  NumberInv'
<1> USE DEF Reconnects, entityState
<1>1. NumberTypeOK'
    BY DEF NumberInv, NumberTypeOK
<1>2. WireTrue'
    BY NumberConstants DEF NumberInv, WireTrue
<1>3. LeaseTrue'
    BY DEF NumberInv, LeaseTrue
<1>4. OneAtATime'
    BY DEF NumberInv, OneAtATime
<1>5. RevisionsTrue'
    BY DEF NumberInv, RevisionsTrue, CallIsAnswered, NumberTypeOK, CallRecords
<1>6. SendsCommand'
    BY DEF NumberInv, SendsCommand
<1>7. FreshIsRead'
    BY DEF NumberInv, FreshIsRead, Judged, RegisterReads
<1>8. ConfirmedHolds'
    BY DEF NumberInv, ConfirmedHolds, Judged, NumberTypeOK
<1>9. BelowKept'
    BY DEF NumberInv, BelowKept
<1>10. PreviousTrue'
    BY DEF NumberInv, PreviousTrue, CallIsAnswered
<1> QED BY <1>1, <1>2, <1>3, <1>4, <1>5, <1>6, <1>7, <1>8, <1>9, <1>10 DEF NumberInv

LEMMA CommsChangeKeeps ==
    ASSUME NumberInv, CommsChange
    PROVE  NumberInv'
<1> USE DEF CommsChange, entityState
<1>1. NumberTypeOK'
    BY DEF NumberInv, NumberTypeOK
<1>2. WireTrue'
    BY NumberConstants DEF NumberInv, WireTrue
<1>3. LeaseTrue'
    BY DEF NumberInv, LeaseTrue
<1>4. OneAtATime'
    BY DEF NumberInv, OneAtATime
<1>5. RevisionsTrue'
    BY DEF NumberInv, RevisionsTrue, CallIsAnswered
<1>6. SendsCommand'
    BY DEF NumberInv, SendsCommand
<1>7. FreshIsRead'
    BY DEF NumberInv, FreshIsRead, Judged, RegisterReads
<1>8. ConfirmedHolds'
    BY DEF NumberInv, ConfirmedHolds, Judged
<1>9. BelowKept'
    BY DEF NumberInv, BelowKept
<1>10. PreviousTrue'
    BY DEF NumberInv, PreviousTrue, CallIsAnswered
<1> QED BY <1>1, <1>2, <1>3, <1>4, <1>5, <1>6, <1>7, <1>8, <1>9, <1>10 DEF NumberInv

LEMMA RemovedKeeps ==
    ASSUME NumberInv, Removed
    PROVE  NumberInv'
<1> USE DEF Removed, NotAnswered, NoNumberLease
<1>1. NumberTypeOK'
    BY DEF NumberInv, NumberTypeOK, LeaseRecords
<1>2. WireTrue'
    BY NumberConstants DEF NumberInv, WireTrue
<1>3. LeaseTrue'
    BY DEF NumberInv, LeaseTrue
<1>4. OneAtATime'
    BY DEF NumberInv, OneAtATime
<1>5. RevisionsTrue'
    BY DEF NumberInv, RevisionsTrue, CallIsAnswered
<1>6. SendsCommand'
    BY DEF NumberInv, SendsCommand
<1>7. FreshIsRead'
    BY DEF NumberInv, FreshIsRead, Judged, RegisterReads
<1>8. ConfirmedHolds'
    BY DEF NumberInv, ConfirmedHolds, Judged
<1>9. BelowKept'
    BY DEF NumberInv, BelowKept
<1>10. PreviousTrue'
    BY DEF NumberInv, PreviousTrue, CallIsAnswered
<1> QED BY <1>1, <1>2, <1>3, <1>4, <1>5, <1>6, <1>7, <1>8, <1>9, <1>10 DEF NumberInv

LEMMA async_set_native_valueKeeps ==
    ASSUME NumberInv, NEW c \in NumberCalls, NEW v \in Limits, async_set_native_value(c, v)
    PROVE  NumberInv'
<1>91. /\ UNCHANGED <<readOnly, kind, bms, device, epoch, comms, incidents, command, revision, other, report, baseline, notice>>
       /\ fresh' = 0 /\ numberCall[c].pc = "idle"
       /\ overlap' = (overlap \/ other.pc # "idle" \/ \E d \in NumberCalls : numberCall[d].pc # "idle")
    BY DEF async_set_native_value, Begins, linkState
<1>92. /\ kind = "cyclic" => lease' = NoNumberLease /\ wire' = (IF wire = "lease" THEN "nobody" ELSE wire)
                               /\ unsure' = (unsure \/ wire = "lease")
       /\ kind # "cyclic" => UNCHANGED <<lease, wire, unsure>>
    BY DEF async_set_native_value, NotAnswered
<1>93. Previous \in Nat /\ v \in Nat
    BY NumberConstants DEF NumberInv, NumberTypeOK, Previous, last_commanded
<1> DEFINE r == [NoNumberCall EXCEPT !.pc = "queued", !.value = v, !.prev = Previous]
<1>94. r \in CallRecords /\ r.pc = "queued" /\ r.prev = Previous
    BY <1>93 DEF CallRecords, NoNumberCall
<1>95. numberCall' = [numberCall EXCEPT ![c] = r] /\ numberCall'[c] = r /\ \A d \in NumberCalls : d # c => numberCall'[d] = numberCall[d]
    BY DEF async_set_native_value, NumberInv, NumberTypeOK
<1>96. lease' \in LeaseRecords /\ (lease'.pc = "none" \/ lease' = lease)
    BY <1>92 DEF NumberInv, NumberTypeOK, LeaseRecords, NoNumberLease
<1>97. lease'.pc = "none"
    BY <1>92 DEF NumberInv, NumberTypeOK, LeaseTrue, NoNumberLease
<1> HIDE DEF r
<1>1. NumberTypeOK'
    BY <1>91, <1>92, <1>94, <1>95, <1>96, <1>97 DEF NumberInv, NumberTypeOK
<1>2. WireTrue'
    BY <1>91, <1>92, <1>94, <1>95, <1>96, <1>97, NumberConstants DEF NumberInv, WireTrue
<1>3. LeaseTrue'
    BY <1>91, <1>92, <1>94, <1>95, <1>96, <1>97 DEF NumberInv, LeaseTrue
<1>4. OneAtATime'
    BY <1>91, <1>92, <1>94, <1>95, <1>96, <1>97 DEF NumberInv, OneAtATime
<1>5. RevisionsTrue'
    BY <1>91, <1>92, <1>94, <1>95, <1>96, <1>97 DEF NumberInv, RevisionsTrue, CallIsAnswered
<1>6. SendsCommand'
    BY <1>91, <1>92, <1>94, <1>95, <1>96, <1>97 DEF NumberInv, SendsCommand
<1>7. FreshIsRead'
    BY <1>91, <1>92, <1>94, <1>95, <1>96, <1>97 DEF NumberInv, FreshIsRead, Judged, RegisterReads
<1>8. ConfirmedHolds'
    BY <1>91, <1>92, <1>94, <1>95, <1>96, <1>97 DEF NumberInv, ConfirmedHolds, Judged, NumberTypeOK
<1>9. BelowKept'
    BY <1>91, <1>92, <1>94, <1>95, <1>96, <1>97 DEF NumberInv, BelowKept
<1>10. PreviousTrue'
    BY <1>91, <1>92, <1>94, <1>95, <1>96, <1>97 DEF NumberInv, PreviousTrue, CallIsAnswered, NumberTypeOK, BelowKept, Previous
<1> QED BY <1>1, <1>2, <1>3, <1>4, <1>5, <1>6, <1>7, <1>8, <1>9, <1>10 DEF NumberInv

LEMMA OtherBeginsKeeps ==
    ASSUME NumberInv, NEW v \in Limits, OtherBegins(v)
    PROVE  NumberInv'
<1>91. /\ UNCHANGED <<readOnly, kind, bms, device, wire, epoch, comms, incidents, command, revision, numberCall, lease,
                         report, baseline, notice, unsure>>
       /\ fresh' = 0 /\ other' = [pc |-> "queued", value |-> v] /\ v \in Nat
       /\ overlap' = (overlap \/ other.pc # "idle" \/ \E d \in NumberCalls : numberCall[d].pc # "idle")
    BY NumberConstants DEF OtherBegins, Begins, linkState, entityState
<1>1. NumberTypeOK'
    BY <1>91 DEF NumberInv, NumberTypeOK
<1>2. WireTrue'
    BY <1>91, NumberConstants DEF NumberInv, WireTrue
<1>3. LeaseTrue'
    BY <1>91 DEF NumberInv, LeaseTrue
<1>4. OneAtATime'
    BY <1>91 DEF NumberInv, OneAtATime
<1>5. RevisionsTrue'
    BY <1>91 DEF NumberInv, RevisionsTrue, CallIsAnswered
<1>6. SendsCommand'
    BY <1>91 DEF NumberInv, SendsCommand
<1>7. FreshIsRead'
    BY <1>91 DEF NumberInv, FreshIsRead, Judged, RegisterReads
<1>8. ConfirmedHolds'
    BY <1>91 DEF NumberInv, ConfirmedHolds, Judged
<1>9. BelowKept'
    BY <1>91 DEF NumberInv, BelowKept
<1>10. PreviousTrue'
    BY <1>91 DEF NumberInv, PreviousTrue, CallIsAnswered
<1> QED BY <1>1, <1>2, <1>3, <1>4, <1>5, <1>6, <1>7, <1>8, <1>9, <1>10 DEF NumberInv

LEMMA ReadbackKeeps ==
    ASSUME NumberInv, NEW c \in NumberCalls, Readback(c)
    PROVE  NumberInv'
<1>91. /\ UNCHANGED <<readOnly, kind, bms, device, wire, epoch, comms, incidents, command, revision, fresh, other, lease, unsure, overlap, begun>>
       /\ numberCall[c].pc = "read"
    BY DEF Readback, linkState
<1>92. /\ numberCall' \in [NumberCalls -> CallRecords] /\ numberCall'[c].pc \in {"idle", "read", "refresh"}
       /\ \A d \in NumberCalls : d # c => numberCall'[d] = numberCall[d]
       /\ numberCall'[c].pc # "idle" => /\ numberCall'[c].rev = numberCall[c].rev /\ numberCall'[c].epoch = numberCall[c].epoch
                                        /\ numberCall'[c].value = numberCall[c].value /\ numberCall'[c].prev = numberCall[c].prev
  <2> DEFINE f == [numberCall[c] EXCEPT !.pc = "refresh", !.seen = RegisterReads]
             t == [numberCall[c] EXCEPT !.tries = @ + 1]
  <2>1. numberCall[c] \in CallRecords /\ RegisterReads \in Nat /\ numberCall[c].tries + 1 \in Nat
      BY DEF NumberInv, NumberTypeOK, CallRecords, RegisterReads
  <2>2. f \in CallRecords /\ t \in CallRecords /\ NoNumberCall \in CallRecords
      BY <2>1 DEF CallRecords, NoNumberCall
  <2>3. \E r \in {f, t, NoNumberCall} : numberCall' = [numberCall EXCEPT ![c] = r]
    <3>1. numberCall' = [numberCall EXCEPT ![c] = f] \/ numberCall' = [numberCall EXCEPT ![c] = t] \/ numberCall' = [numberCall EXCEPT ![c] = NoNumberCall]
        BY <2>1 DEF Readback, Unconfirmed, NumberInv, NumberTypeOK
    <3> QED BY <3>1
  <2>4. /\ f.pc = "refresh" /\ f.rev = numberCall[c].rev /\ f.epoch = numberCall[c].epoch /\ f.value = numberCall[c].value /\ f.prev = numberCall[c].prev
        /\ t.pc = "read" /\ t.rev = numberCall[c].rev /\ t.epoch = numberCall[c].epoch /\ t.value = numberCall[c].value /\ t.prev = numberCall[c].prev
        /\ NoNumberCall.pc = "idle"
      BY <2>1, <1>91 DEF CallRecords, NoNumberCall
  <2> HIDE DEF f, t
  <2> QED BY <2>2, <2>3, <2>4 DEF NumberInv, NumberTypeOK
<1>93. \/ UNCHANGED <<report, baseline>>
       \/ \E outcome \in {"above", "below", "unreadable"}, seen \in Nat :
            /\ Unconfirmed(c, outcome, seen)
            /\ outcome = "below" /\ kind = "effective" => numberCall[c].prev > 0 /\ seen = numberCall[c].prev
  <2>1. numberCall[c] \in CallRecords /\ RegisterReads \in Nat
      BY DEF NumberInv, NumberTypeOK, RegisterReads
  <2>2. ASSUME Unconfirmed(c, _readback_outcome(RegisterReads, numberCall[c].value), RegisterReads),
               ~_readback_matches(RegisterReads, numberCall[c].value),
               ~_readback_limited(RegisterReads, numberCall[c].value, numberCall[c].prev)
        PROVE  \E outcome \in {"above", "below", "unreadable"}, seen \in Nat :
            /\ Unconfirmed(c, outcome, seen)
            /\ outcome = "below" /\ kind = "effective" => numberCall[c].prev > 0 /\ seen = numberCall[c].prev
    <3>1. _readback_outcome(RegisterReads, numberCall[c].value) \in {"above", "below", "unreadable"}
        BY DEF _readback_outcome
    <3>2. _readback_outcome(RegisterReads, numberCall[c].value) = "below" /\ kind = "effective"
            => numberCall[c].prev > 0 /\ RegisterReads = numberCall[c].prev
        BY <2>1, <2>2 DEF _readback_outcome, _readback_matches, _readback_limited, CallRecords
    <3> QED BY <2>1, <2>2, <3>1, <3>2
  <2>3. CASE Unconfirmed(c, "unreadable", 0)
      BY <2>3
  <2> QED BY <2>2, <2>3 DEF Readback, entityState
<1>95. report' = report \/ numberCall'[c].pc = "idle"
    BY <1>93 DEF NumberInv, NumberTypeOK, Unconfirmed, NoNumberCall
<1>94. /\ report' \in [rev : Nat, outcome : Outcomes, seen : Nat] /\ baseline' \in [rev : Nat, value : Nat]
       /\ report'.rev <= revision /\ (report' = report \/ report'.outcome # "confirmed")
       /\ numberCall[c].rev \in Nat /\ numberCall[c].prev \in Nat
    BY <1>91, <1>93 DEF NumberInv, NumberTypeOK, CallRecords, RevisionsTrue, CallIsAnswered, Unconfirmed, _record_last_command, Outcomes
<1>1. NumberTypeOK'
    BY <1>91, <1>92, <1>93, <1>94, <1>95 DEF NumberInv, NumberTypeOK
<1>2. WireTrue'
    BY <1>91, <1>92, <1>93, <1>94, <1>95, NumberConstants DEF NumberInv, WireTrue
<1>3. LeaseTrue'
    BY <1>91, <1>92, <1>93, <1>94, <1>95 DEF NumberInv, LeaseTrue
<1>4. OneAtATime'
    BY <1>91, <1>92, <1>93, <1>94, <1>95 DEF NumberInv, OneAtATime
<1>5. RevisionsTrue'
    BY <1>91, <1>92, <1>93, <1>94, <1>95 DEF NumberInv, RevisionsTrue, CallIsAnswered, NumberTypeOK, OneAtATime
<1>6. SendsCommand'
    BY <1>91, <1>92, <1>93, <1>94, <1>95 DEF NumberInv, SendsCommand, NumberTypeOK, OneAtATime
<1>7. FreshIsRead'
    BY <1>91, <1>92, <1>93, <1>94, <1>95 DEF NumberInv, FreshIsRead, Judged, RegisterReads
<1>8. ConfirmedHolds'
    BY <1>91, <1>92, <1>93, <1>94, <1>95 DEF NumberInv, ConfirmedHolds, Judged
<1>9. BelowKept'
    BY <1>91, <1>92, <1>93, <1>94, <1>95 DEF NumberInv, BelowKept, NumberTypeOK, Unconfirmed, _record_last_command, RevisionsTrue, CallIsAnswered
<1>10. PreviousTrue'
    BY <1>91, <1>92, <1>93, <1>94, <1>95 DEF NumberInv, PreviousTrue, CallIsAnswered, NumberTypeOK, OneAtATime
<1> QED BY <1>1, <1>2, <1>3, <1>4, <1>5, <1>6, <1>7, <1>8, <1>9, <1>10 DEF NumberInv

LEMMA DecideKeeps ==
    ASSUME NumberInv, NEW c \in NumberCalls, Decide(c)
    PROVE  NumberInv'
<1>91. /\ UNCHANGED <<readOnly, kind, bms, device, wire, epoch, comms, incidents, command, revision, fresh, other, unsure, overlap, begun>>
       /\ numberCall[c].pc = "decide" /\ numberCall' = [numberCall EXCEPT ![c] = NoNumberCall]
    BY DEF Decide, linkState
<1>92. /\ numberCall' \in [NumberCalls -> CallRecords] /\ numberCall'[c].pc = "idle"
       /\ \A d \in NumberCalls : d # c => numberCall'[d] = numberCall[d]
    BY <1>91 DEF NumberInv, NumberTypeOK, CallRecords, NoNumberCall
<1>93. /\ numberCall[c] \in CallRecords /\ numberCall[c].rev <= revision /\ (~overlap => report.rev < numberCall[c].rev)
       /\ numberCall[c].rev = revision => command.value = numberCall[c].value
    BY <1>91 DEF NumberInv, NumberTypeOK, RevisionsTrue, CallIsAnswered
<1>94. \E outcome \in {"confirmed", "limited", "invalidated"}, seen \in Nat :
          /\ _record_last_command(numberCall[c].rev, outcome, seen)
          /\ outcome = "confirmed" => StillConfirmed(c) /\ fresh = numberCall[c].value
    BY <1>93 DEF Decide, NumberInv, NumberTypeOK, CallRecords, _readback_matches
<1>95. baseline' \in {baseline, [rev |-> 0, value |-> 0]}
    BY DEF Decide
<1>96. /\ report' \in [rev : Nat, outcome : Outcomes, seen : Nat] /\ report'.rev <= revision
       /\ (~overlap => report'.outcome # "below")
       /\ \/ report' = report
          \/ /\ report'.rev = numberCall[c].rev
             /\ report'.outcome = "confirmed" => StillConfirmed(c) /\ fresh = numberCall[c].value
    BY <1>93, <1>94 DEF NumberInv, NumberTypeOK, CallRecords, _record_last_command, Outcomes
<1>97. \/ lease' = lease
       \/ kind = "cyclic" /\ StillConfirmed(c) /\ _start_keepalive(numberCall[c].value)
    BY DEF Decide
<1>98. /\ lease' \in LeaseRecords /\ (lease'.pc = "wire" <=> lease.pc = "wire")
       /\ kind = "effective" => lease' = lease
       /\ lease'.pc # "none" => lease'.value > 0
       /\ ~overlap => lease.pc = "none" /\ lease'.pc \in {"none", "sleeps"}
  <2>1. ~overlap => lease.pc = "none"
      BY <1>91 DEF NumberInv, OneAtATime
  <2>2. lease \in LeaseRecords /\ epoch \in Nat /\ incidents \in Nat /\ numberCall[c].value \in Nat
      BY <1>93 DEF NumberInv, NumberTypeOK, CallRecords
  <2>3. CASE lease' = lease
      BY <2>1, <2>2, <2>3 DEF NumberInv, LeaseTrue
  <2>4. CASE kind = "cyclic" /\ StillConfirmed(c) /\ _start_keepalive(numberCall[c].value)
    <3>1. numberCall[c].value > 0
        BY <2>4, <2>2 DEF StillConfirmed, _readback_matches, _readback_limited
    <3> QED BY <2>1, <2>2, <2>4, <3>1 DEF _start_keepalive, LeaseRecords
  <2> QED BY <1>97, <2>3, <2>4
<1>1. NumberTypeOK'
    BY <1>91, <1>92, <1>93, <1>95, <1>96, <1>98 DEF NumberInv, NumberTypeOK
<1>2. WireTrue'
    BY <1>91, <1>92, <1>93, <1>95, <1>96, <1>98, NumberConstants DEF NumberInv, WireTrue
<1>3. LeaseTrue'
    BY <1>91, <1>92, <1>93, <1>95, <1>96, <1>98 DEF NumberInv, LeaseTrue
<1>4. OneAtATime'
    BY <1>91, <1>92, <1>93, <1>95, <1>96, <1>98 DEF NumberInv, OneAtATime
<1>5. RevisionsTrue'
    BY <1>91, <1>92, <1>93, <1>95, <1>96, <1>98 DEF NumberInv, RevisionsTrue, CallIsAnswered, NumberTypeOK, OneAtATime
<1>6. SendsCommand'
    BY <1>91, <1>92, <1>93, <1>95, <1>96, <1>98 DEF NumberInv, SendsCommand
<1>7. FreshIsRead'
    BY <1>91, <1>92, <1>93, <1>95, <1>96, <1>98 DEF NumberInv, FreshIsRead, Judged, RegisterReads
<1>8. ConfirmedHolds'
    BY <1>91, <1>92, <1>93, <1>95, <1>96, <1>98 DEF NumberInv, ConfirmedHolds, Judged, FreshIsRead, StillConfirmed, RegisterReads, WireTrue, LeaseTrue
<1>9. BelowKept'
    BY <1>91, <1>92, <1>93, <1>95, <1>96, <1>98 DEF NumberInv, BelowKept
<1>10. PreviousTrue'
    BY <1>91, <1>92, <1>93, <1>95, <1>96, <1>98 DEF NumberInv, PreviousTrue, CallIsAnswered
<1> QED BY <1>1, <1>2, <1>3, <1>4, <1>5, <1>6, <1>7, <1>8, <1>9, <1>10 DEF NumberInv

LEMMA NumberInitially ==
    ASSUME NumberInit
    PROVE  NumberInv
<1>1. /\ kind \in {"cyclic", "effective"} /\ bms \in Limits \cup {0} /\ device = 0 /\ wire = "nobody"
      /\ epoch = 1 /\ incidents = 0 /\ command = [value |-> 0, epoch |-> 0] /\ revision = 0 /\ fresh = 0
      /\ numberCall = [c \in NumberCalls |-> NoNumberCall] /\ other = [pc |-> "idle", value |-> 0]
      /\ lease = NoNumberLease /\ report = [rev |-> 0, outcome |-> "none", seen |-> 0]
      /\ baseline = [rev |-> 0, value |-> 0] /\ unsure = FALSE /\ overlap = FALSE
    BY DEF NumberInit
<1>2. NumberTypeOK
  <2>1. NoNumberCall \in CallRecords /\ NoNumberLease \in LeaseRecords
      BY DEF CallRecords, LeaseRecords, NoNumberCall, NoNumberLease
  <2>2. bms \in Nat
      BY <1>1, NumberConstants
  <2>3. report \in [rev : Nat, outcome : Outcomes, seen : Nat] /\ report.rev <= revision
      BY <1>1 DEF Outcomes
  <2>4. numberCall \in [NumberCalls -> CallRecords] /\ lease \in LeaseRecords
      BY <1>1, <2>1
  <2>5. /\ command \in [value : Nat, epoch : Nat] /\ command.epoch <= epoch /\ baseline \in [rev : Nat, value : Nat]
        /\ other \in [pc : {"idle", "queued", "wire"}, value : Nat]
      BY <1>1
  <2>6. unsure \in BOOLEAN /\ overlap \in BOOLEAN
      BY <1>1
  <2>7. device \in Nat /\ epoch \in Nat /\ incidents \in Nat /\ revision \in Nat /\ fresh \in Nat
      BY <1>1
  <2> QED BY <1>1, <2>2, <2>3, <2>4, <2>5, <2>6, <2>7 DEF NumberTypeOK
<1>3. \A c \in NumberCalls : numberCall[c].pc = "idle"
    BY <1>1 DEF NoNumberCall
<1>4. WireTrue /\ LeaseTrue /\ OneAtATime
    BY <1>1, <1>3 DEF WireTrue, LeaseTrue, OneAtATime, NoNumberLease
<1>5. RevisionsTrue /\ FreshIsRead /\ PreviousTrue
    BY <1>3 DEF RevisionsTrue, FreshIsRead, PreviousTrue, CallIsAnswered
<1>6. SendsCommand /\ ConfirmedHolds /\ BelowKept
    BY <1>1 DEF SendsCommand, ConfirmedHolds, BelowKept, NoNumberLease
<1> QED BY <1>2, <1>4, <1>5, <1>6 DEF NumberInv

LEMMA NumberStutters ==
    ASSUME NumberInv, UNCHANGED numberVars
    PROVE  NumberInv'
<1> USE DEF numberVars
<1>1. NumberTypeOK' /\ WireTrue' /\ LeaseTrue' /\ OneAtATime'
    BY DEF NumberInv, NumberTypeOK, WireTrue, LeaseTrue, OneAtATime
<1>2. RevisionsTrue' /\ SendsCommand' /\ PreviousTrue'
    BY DEF NumberInv, RevisionsTrue, SendsCommand, PreviousTrue, CallIsAnswered
<1>3. FreshIsRead' /\ ConfirmedHolds' /\ BelowKept'
    BY DEF NumberInv, FreshIsRead, ConfirmedHolds, BelowKept, Judged, RegisterReads
<1> QED BY <1>1, <1>2, <1>3 DEF NumberInv

LEMMA NumberKeeps ==
    ASSUME NumberInv, [NumberNext]_numberVars
    PROVE  NumberInv'
<1>1. ASSUME NEW c \in NumberCalls, NEW v \in Limits, async_set_native_value(c, v)
      PROVE  NumberInv'
    BY <1>1, async_set_native_valueKeeps
<1>2. ASSUME NEW c \in NumberCalls,
             NumberGoes(c) \/ CallAnswered(c) \/ CallFails(c) \/ Readback(c) \/ Decide(c)
      PROVE  NumberInv'
    BY <1>2, NumberGoesKeeps, CallAnsweredKeeps, CallFailsKeeps, ReadbackKeeps, DecideKeeps
<1>3. CASE Poll \/ LeaseWakes \/ KeepaliveGoes \/ KeepaliveAnswered \/ KeepaliveFails \/ KeepaliveRepeats
    BY <1>3, PollKeeps, LeaseWakesKeeps, KeepaliveGoesKeeps, KeepaliveAnsweredKeeps, KeepaliveFailsKeeps,
       KeepaliveRepeatsKeeps
<1>4. ASSUME NEW v \in Limits, OtherBegins(v)
      PROVE  NumberInv'
    BY <1>4, OtherBeginsKeeps
<1>5. CASE OtherGoes \/ OtherAnswered \/ OtherFails
    BY <1>5, OtherGoesKeeps, OtherAnsweredKeeps, OtherFailsKeeps
<1>6. CASE Reconnects \/ CommsChange \/ Removed
    BY <1>6, ReconnectsKeeps, CommsChangeKeeps, RemovedKeeps
<1> QED BY <1>1, <1>2, <1>3, <1>4, <1>5, <1>6, NumberStutters DEF NumberNext

\* Only the end of a call makes an outcome "limited", of the reading it decides on.
LEMMA OnlyDecideLimits ==
    ASSUME NumberInv, [NumberNext]_numberVars, report' # report, report'.outcome = "limited"
    PROVE  \E c \in NumberCalls : Decide(c)
<1>1. ASSUME NEW c \in NumberCalls, Readback(c)
      PROVE  FALSE
  <2>1. \E outcome \in {"above", "below", "unreadable"}, seen \in {0, RegisterReads} : Unconfirmed(c, outcome, seen)
      BY <1>1 DEF Readback, entityState, _readback_outcome
  <2> QED BY <2>1 DEF Unconfirmed, _record_last_command
<1>2. ASSUME NEW c \in NumberCalls,
             (\E v \in Limits : async_set_native_value(c, v)) \/ NumberGoes(c) \/ CallAnswered(c) \/ CallFails(c)
      PROVE  FALSE
    BY <1>2 DEF async_set_native_value, NumberGoes, CallAnswered, CallFails, entityState
<1>3. CASE Poll \/ LeaseWakes \/ KeepaliveGoes \/ KeepaliveAnswered \/ KeepaliveFails \/ KeepaliveRepeats
    BY <1>3 DEF Poll, LeaseWakes, KeepaliveGoes, KeepaliveAnswered, KeepaliveFails, KeepaliveRepeats, entityState
<1>4. CASE (\E v \in Limits : OtherBegins(v)) \/ OtherGoes \/ OtherAnswered \/ OtherFails
    BY <1>4 DEF OtherBegins, OtherGoes, OtherAnswered, OtherFails, entityState
<1>5. CASE Reconnects \/ CommsChange \/ Removed \/ UNCHANGED numberVars
    BY <1>5 DEF Reconnects, CommsChange, Removed, entityState, numberVars
<1> QED BY <1>1, <1>2, <1>3, <1>4, <1>5 DEF NumberNext

\* The retry of an ignored raise was given the ignored reading to be compared
\* with (PreviousTrue), so that reading does not count as limited.
LEMMA IgnoredRaiseStays ==
    ASSUME NumberInv, [NumberNext]_numberVars
    PROVE  IgnoredRaiseFails
<1> SUFFICES ASSUME report.outcome = "below", report'.rev = report.rev + 1, report'.outcome = "limited", ~overlap
             PROVE  report'.seen # report.seen
    BY DEF IgnoredRaiseFails
<1>1. PICK c \in NumberCalls : Decide(c)
    BY OnlyDecideLimits
<1>2. /\ numberCall[c] \in CallRecords /\ report.rev \in Nat /\ report.seen \in Nat /\ fresh \in Nat
      /\ report.rev < numberCall[c].rev /\ numberCall[c].pc = "decide"
    BY <1>1 DEF Decide, NumberInv, NumberTypeOK, RevisionsTrue, CallIsAnswered
<1>3. StillConfirmed(c) /\ ~_readback_matches(fresh, numberCall[c].value)
    BY <1>1, <1>2 DEF Decide, _record_last_command, CallRecords
<1>4. report' = [rev |-> numberCall[c].rev, outcome |-> "limited", seen |-> fresh]
    BY <1>1, <1>2, <1>3 DEF Decide, _record_last_command, CallRecords
<1>5. /\ kind = "effective" /\ fresh < numberCall[c].value
      /\ numberCall[c].prev = 0 \/ numberCall[c].prev >= numberCall[c].value \/ fresh # numberCall[c].prev
    BY <1>3 DEF StillConfirmed, _readback_limited, _readback_matches
<1>6. report.seen > 0 /\ numberCall[c].prev = report.seen
    BY <1>2, <1>4, <1>5 DEF NumberInv, BelowKept, PreviousTrue, CallIsAnswered
<1> QED BY <1>2, <1>4, <1>5, <1>6 DEF CallRecords

LEMMA ConfirmedIsShown ==
    ASSUME NumberInv
    PROVE  ShownOutcomeTrue
BY DEF NumberInv, ConfirmedHolds, ShownOutcomeTrue, Judged

\* What modbus_number.py reports of a command is true of it, whatever calls,
\* other writes, polls, keepalives and reconnects interleave.
THEOREM OutcomesAreTrue == NumberSpec => OutcomesTrue
<1>1. NumberInit => NumberInv
    BY NumberInitially
<1>2. NumberInv /\ [NumberNext]_numberVars => NumberInv'
    BY NumberKeeps
<1>3. NumberInv /\ NumberInv' /\ [NumberNext]_numberVars => [ShownOutcomeTrue' /\ IgnoredRaiseFails]_numberVars
  <2>1. NumberInv' => ShownOutcomeTrue'
    <3>1. NumberInv => ShownOutcomeTrue
        BY ConfirmedIsShown
    <3> QED BY <3>1, PTL
  <2> QED BY <2>1, IgnoredRaiseStays
<1> QED BY <1>1, <1>2, <1>3, PTL DEF NumberSpec, OutcomesTrue

=============================================================================
