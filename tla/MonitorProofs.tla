---------------------------- MODULE MonitorProofs ----------------------------
(* Proofs about what outlives a poll, for any clients, registers, closers and *)
(* bounds: the health of the battery over reloads and failures of the disk,   *)
(* the answers of the Modbus proxy, the score of the health monitor, the      *)
(* starts and topics of the MQTT bridge, and the alarms of the fire monitor.  *)
EXTENDS SohStore, ProxyServer, HealthScore, MqttBridge, FireSafety, SequenceTheorems, FiniteSetTheorems, TLAPS

-----------------------------------------------------------------------------
(* SohStore: what was learned is kept. *)

Health == [base : Nat, n : Nat]

SohTypeOK ==
    /\ live \in Health /\ disk \in Health
    /\ writes \in Seq(Health)
    /\ save_task \in {"none", "sleep", "write"}
    /\ has_updates \in BOOLEAN /\ load_failed \in BOOLEAN /\ stopped \in BOOLEAN
    /\ closer \in [Closers -> {"idle", "lock", "task", "flush", "done"}]
    /\ ioErrors \in Nat

\* One closer at a time is in the shutdown, and only of an instance that has stopped.
OneCloser ==
    /\ \A c, d \in Closers : closer[c] \in {"task", "flush"} /\ closer[d] \in {"task", "flush"} => c = d
    /\ ~stopped => \A c \in Closers : closer[c] = "idle"

\* At most one snapshot is on its way: the debounced save's, for which the
\* closer waits, or then the closer's own.
OneWrite ==
    /\ writes = <<>> \/ (Len(writes) = 1 /\ (save_task = "write" \/ \E c \in Closers : closer[c] = "flush"))
    /\ save_task = "write" \/ (\E c \in Closers : closer[c] = "flush") => Len(writes) = 1
    /\ stopped => save_task = "none" \/ (save_task = "write" /\ \E c \in Closers : closer[c] = "task")

\* What is on the disk, on its way there and in memory grow in this order,
\* unless the file could not be read; then nothing is on its way.
BasesGrow ==
    IF load_failed THEN writes = <<>>
    ELSE /\ live.base >= disk.base
         /\ Len(writes) = 1 => writes[1].base >= disk.base /\ live.base >= writes[1].base

\* Without an error of the disk it lacks only what will still be saved.
NothingLost ==
    /\ (\E c \in Closers : closer[c] = "flush") => writes[1] = live
    /\ ~has_updates => save_task = "none" /\ writes = <<>>
    /\ ioErrors = 0 =>
         /\ ~load_failed
         /\ ~has_updates => disk = live
         /\ stopped /\ (\A c \in Closers : closer[c] \notin {"task", "flush"}) => disk = live

SohInv == SohTypeOK /\ OneCloser /\ OneWrite /\ BasesGrow /\ NothingLost

LEMMA SohInitially == SohInit => SohInv
<1> SUFFICES ASSUME SohInit PROVE SohInv
    OBVIOUS
<1>1. NoHealth \in Health /\ NoHealth.base = 0 /\ Len(<<>>) = 0 /\ <<>> \in Seq(Health)
    BY DEF NoHealth, Health
<1>2. SohTypeOK
    BY <1>1 DEF SohInit, SohTypeOK
<1>3. OneCloser /\ OneWrite
    BY DEF SohInit, OneCloser, OneWrite
<1>4. BasesGrow
    BY <1>1 DEF SohInit, BasesGrow
<1>5. NothingLost
    BY DEF SohInit, NothingLost
<1> QED BY <1>2, <1>3, <1>4, <1>5 DEF SohInv

LEMMA OneSnapshot ==
    ASSUME NEW s \in Health
    PROVE  /\ Append(<<>>, s) \in Seq(Health) /\ Len(Append(<<>>, s)) = 1 /\ Append(<<>>, s)[1] = s
           /\ Append(<<>>, s) # <<>>
    OBVIOUS

LEMMA LastWrite ==
    ASSUME NEW q \in Seq(Health), Len(q) = 1
    PROVE  Head(q) = q[1] /\ q[1] \in Health /\ Tail(q) = <<>> /\ q # <<>>
<1>1. q # <<>> /\ Head(q) = q[1] /\ q[1] \in Health
    OBVIOUS
<1>2. Tail(q) \in Seq(Health) /\ Len(Tail(q)) = 0
    BY <1>1, HeadTailProperties
<1>3. Tail(q) = <<>>
    BY <1>2, EmptySeq
<1> QED BY <1>1, <1>3

LEMMA UpdateHealthKeeps ==
    ASSUME SohInv, NEW cap \in Capacities, UpdateHealth(cap)
    PROVE  SohInv' /\ BaselineKept
<1>0. cap \in Nat
    BY SohConstants
<1>1. /\ ~stopped /\ NewBase(cap) \in Nat /\ NewBase(cap) >= live.base
      /\ live'.base = NewBase(cap) /\ live' \in Health
    BY <1>0 DEF Health, SohInv, SohTypeOK, UpdateHealth, Accepts, NewBase
<1>2. SohTypeOK'
    BY <1>1 DEF SohInv, SohTypeOK, UpdateHealth, Scheduled
<1>3. OneCloser'
    BY DEF SohInv, OneCloser, UpdateHealth
<1>4. OneWrite'
    BY <1>1 DEF SohInv, SohTypeOK, OneWrite, OneCloser, UpdateHealth, Scheduled
<1>5. BasesGrow'
  <2>1. CASE load_failed
      BY <2>1 DEF SohInv, BasesGrow, UpdateHealth
  <2>2. CASE ~load_failed
    <3>1. live.base \in Nat /\ disk.base \in Nat /\ (Len(writes) = 1 => writes[1].base \in Nat)
        BY LastWrite DEF SohInv, SohTypeOK, Health
    <3>2. live'.base >= disk.base /\ (Len(writes) = 1 => live'.base >= writes[1].base)
        BY <1>1, <2>2, <3>1 DEF SohInv, BasesGrow
    <3> QED BY <2>2, <3>2 DEF SohInv, BasesGrow, UpdateHealth
  <2> QED BY <2>1, <2>2
<1>6. NothingLost'
    BY <1>1 DEF SohInv, SohTypeOK, NothingLost, OneCloser, UpdateHealth
<1>7. BaselineKept
    BY DEF UpdateHealth, BaselineKept, SohInv, SohTypeOK, Health
<1> QED BY <1>2, <1>3, <1>4, <1>5, <1>6, <1>7 DEF SohInv

LEMMA SaveWakesKeeps ==
    ASSUME SohInv, SaveWakes
    PROVE  SohInv' /\ BaselineKept
<1>1. writes = <<>> /\ ~stopped /\ has_updates /\ \A c \in Closers : closer[c] = "idle"
    BY DEF SohInv, SohTypeOK, OneWrite, OneCloser, NothingLost, SaveWakes
<1>2. /\ Append(writes, live) \in Seq(Health) /\ Len(Append(writes, live)) = 1
      /\ Append(writes, live)[1] = live
    BY <1>1, OneSnapshot DEF SohInv, SohTypeOK
<1>3. SohTypeOK'
    BY <1>2 DEF SohInv, SohTypeOK, SaveWakes
<1>4. OneCloser' /\ OneWrite'
    BY <1>1, <1>2 DEF SohInv, SohTypeOK, OneCloser, OneWrite, SaveWakes
<1>5. BasesGrow'
    BY <1>1, <1>2 DEF SohInv, SohTypeOK, BasesGrow, SaveWakes, MaySave, Health
<1>6. NothingLost'
    BY <1>1, <1>2 DEF SohInv, SohTypeOK, NothingLost, SaveWakes
<1>7. BaselineKept
    BY DEF SaveWakes, BaselineKept, SohInv, SohTypeOK, Health
<1> QED BY <1>3, <1>4, <1>5, <1>6, <1>7 DEF SohInv

LEMMA WriteEndsKeeps ==
    ASSUME SohInv, NEW ok \in BOOLEAN, WriteEnds(ok)
    PROVE  SohInv' /\ BaselineKept
<1>1. Len(writes) = 1 /\ ~load_failed /\ has_updates
    BY DEF SohInv, SohTypeOK, OneWrite, BasesGrow, NothingLost, WriteEnds
<1>2. Head(writes) = writes[1] /\ writes[1] \in Health /\ writes' = <<>>
    BY <1>1, LastWrite DEF SohInv, SohTypeOK, WriteEnds
<1>3. \A c \in Closers : closer'[c] = IF closer[c] = "flush" THEN "done" ELSE closer[c]
    BY DEF WriteEnds
<1>4. SohTypeOK'
    BY <1>2 DEF SohInv, SohTypeOK, WriteEnds
<1>5. OneCloser'
    BY <1>3 DEF SohInv, SohTypeOK, OneCloser, WriteEnds
<1>6. OneWrite'
    BY <1>2, <1>3 DEF SohInv, SohTypeOK, OneWrite, OneCloser, WriteEnds
<1>7. BasesGrow' /\ BaselineKept
  <2>1. /\ live.base \in Nat /\ disk.base \in Nat /\ writes[1].base \in Nat
        /\ live.base >= disk.base /\ writes[1].base >= disk.base /\ live.base >= writes[1].base
      BY <1>1, <1>2 DEF SohInv, SohTypeOK, BasesGrow, Health
  <2>2. disk' \in {disk, writes[1]} /\ live' = live /\ load_failed' = FALSE /\ Len(writes') # 1
      BY <1>1, <1>2 DEF WriteEnds
  <2>3. disk'.base >= disk.base /\ live'.base >= disk'.base
      BY <2>1, <2>2
  <2> QED BY <2>2, <2>3 DEF BasesGrow, BaselineKept
<1>8. NothingLost'
    BY <1>1, <1>2, <1>3 DEF SohInv, SohTypeOK, NothingLost, OneWrite, OneCloser, WriteEnds
<1> QED BY <1>4, <1>5, <1>6, <1>7, <1>8 DEF SohInv

LEMMA ShutdownBeginsKeeps ==
    ASSUME SohInv, NEW c \in Closers, ShutdownBegins(c)
    PROVE  SohInv' /\ BaselineKept
<1>0. BaselineKept
    BY DEF ShutdownBegins, BaselineKept, SohInv, SohTypeOK, Health
<1>1. CASE LockHeld
  <2>1. /\ closer' = [closer EXCEPT ![c] = "lock"] /\ closer[c] \in {"idle", "lock"}
        /\ UNCHANGED <<live, disk, writes, save_task, has_updates, load_failed, stopped, ioErrors>>
      BY <1>1 DEF ShutdownBegins
  <2>2. stopped
      BY <1>1 DEF LockHeld, SohInv, SohTypeOK, OneCloser
  <2> QED BY <1>0, <1>1, <2>1, <2>2
          DEF LockHeld, SohInv, SohTypeOK, OneCloser, OneWrite, BasesGrow, NothingLost
<1>2. CASE ~LockHeld /\ stopped
  <2>1. /\ closer' = [closer EXCEPT ![c] = "done"] /\ closer[c] \in {"idle", "lock"}
        /\ UNCHANGED <<live, disk, writes, save_task, has_updates, load_failed, stopped, ioErrors>>
      BY <1>2 DEF ShutdownBegins
  <2> QED BY <1>0, <1>2, <2>1
          DEF LockHeld, SohInv, SohTypeOK, OneCloser, OneWrite, BasesGrow, NothingLost
<1>3. CASE ~LockHeld /\ ~stopped
  <2>1. /\ closer' = [closer EXCEPT ![c] = "task"] /\ closer[c] \in {"idle", "lock"}
        /\ stopped' = TRUE /\ save_task' = (IF save_task = "sleep" THEN "none" ELSE save_task)
        /\ UNCHANGED <<live, disk, writes, has_updates, load_failed, ioErrors>>
      BY <1>3 DEF ShutdownBegins
  <2>2. closer'[c] = "task" /\ \A d \in Closers \ {c} : closer'[d] = "idle" /\ closer[d] = "idle"
      BY <1>3, <2>1 DEF SohInv, SohTypeOK, OneCloser
  <2>3. SohTypeOK' /\ OneCloser'
      BY <2>1, <2>2 DEF SohInv, SohTypeOK, OneCloser
  <2>4. OneWrite'
      BY <1>3, <2>1, <2>2 DEF SohInv, SohTypeOK, OneWrite, OneCloser
  <2>5. BasesGrow' /\ NothingLost'
      BY <1>3, <2>1, <2>2 DEF SohInv, SohTypeOK, BasesGrow, NothingLost
  <2> QED BY <1>0, <2>3, <2>4, <2>5 DEF SohInv
<1> QED BY <1>1, <1>2, <1>3

LEMMA ShutdownFlushesKeeps ==
    ASSUME SohInv, NEW c \in Closers, ShutdownFlushes(c)
    PROVE  SohInv' /\ BaselineKept
<1>0. BaselineKept
    BY DEF ShutdownFlushes, BaselineKept, SohInv, SohTypeOK, Health
<1>1. /\ stopped /\ save_task = "none" /\ writes = <<>>
      /\ \A d \in Closers \ {c} : closer[d] \notin {"task", "flush"}
    BY DEF ShutdownFlushes, SohInv, SohTypeOK, OneCloser, OneWrite
<1>2. CASE FinalSave /\ MaySave
  <2>1. /\ closer' = [closer EXCEPT ![c] = "flush"] /\ writes' = Append(writes, live)
        /\ UNCHANGED <<live, disk, save_task, has_updates, load_failed, stopped, ioErrors>>
      BY <1>2 DEF ShutdownFlushes
  <2>2. writes' \in Seq(Health) /\ Len(writes') = 1 /\ writes'[1] = live
      BY <1>1, <2>1, OneSnapshot DEF SohInv, SohTypeOK
  <2>3. closer'[c] = "flush" /\ \A d \in Closers \ {c} : closer'[d] = closer[d]
      BY <2>1 DEF SohInv, SohTypeOK
  <2>4. SohTypeOK' /\ OneCloser'
      BY <1>1, <2>1, <2>2, <2>3 DEF SohInv, SohTypeOK, OneCloser
  <2>5. OneWrite'
      BY <1>1, <2>1, <2>2, <2>3 DEF SohInv, SohTypeOK, OneWrite
  <2>6. BasesGrow' /\ NothingLost'
      BY <1>1, <1>2, <2>1, <2>2, <2>3 DEF SohInv, SohTypeOK, BasesGrow, NothingLost, MaySave, FinalSave, Health
  <2> QED BY <1>0, <2>4, <2>5, <2>6 DEF SohInv
<1>3. CASE ~(FinalSave /\ MaySave)
  <2>1. /\ closer' = [closer EXCEPT ![c] = "done"]
        /\ UNCHANGED <<live, disk, writes, save_task, has_updates, load_failed, stopped, ioErrors>>
      BY <1>3 DEF ShutdownFlushes
  <2>2. closer'[c] = "done" /\ \A d \in Closers \ {c} : closer'[d] = closer[d]
      BY <2>1 DEF SohInv, SohTypeOK
  <2>3. SohTypeOK' /\ OneCloser' /\ OneWrite' /\ BasesGrow'
      BY <1>1, <2>1, <2>2 DEF SohInv, SohTypeOK, OneCloser, OneWrite, BasesGrow
  <2>4. NothingLost'
      BY <1>1, <1>3, <2>1, <2>2 DEF SohInv, SohTypeOK, NothingLost, MaySave, FinalSave
  <2> QED BY <1>0, <2>3, <2>4 DEF SohInv
<1> QED BY <1>2, <1>3

LEMMA ShutdownExpiresKeeps ==
    ASSUME SohInv, NEW c \in Closers, ShutdownExpires(c)
    PROVE  SohInv' /\ BaselineKept
<1>1. /\ closer'[c] = "done" /\ closer[c] = "lock"
      /\ \A d \in Closers \ {c} : closer'[d] = closer[d]
    BY DEF ShutdownExpires, SohInv, SohTypeOK
<1>2. SohTypeOK' /\ OneCloser' /\ OneWrite'
    BY <1>1 DEF ShutdownExpires, SohInv, SohTypeOK, OneCloser, OneWrite
<1>3. BasesGrow' /\ NothingLost' /\ BaselineKept
    BY <1>1 DEF ShutdownExpires, SohInv, SohTypeOK, BasesGrow, NothingLost, BaselineKept, Health
<1> QED BY <1>2, <1>3 DEF SohInv

LEMMA ReloadHealthKeeps ==
    ASSUME SohInv, NEW ok \in BOOLEAN, ReloadHealth(ok)
    PROVE  SohInv' /\ BaselineKept
<1>1. stopped /\ writes = <<>> /\ save_task = "none"
    BY DEF ReloadHealth, SohInv, SohTypeOK, OneWrite
<1>2. live' \in Health /\ (ok => live' = disk) /\ closer' = [c \in Closers |-> "idle"]
    BY DEF ReloadHealth, SohInv, SohTypeOK, NoHealth, Health
<1>3. SohTypeOK'
  <2>1. load_failed' \in BOOLEAN /\ has_updates' \in BOOLEAN /\ stopped' \in BOOLEAN
      BY DEF ReloadHealth
  <2>2. closer' \in [Closers -> {"idle", "lock", "task", "flush", "done"}]
      BY <1>2
  <2>3. ioErrors' \in Nat
      BY DEF ReloadHealth, SohInv, SohTypeOK
  <2> QED BY <1>1, <1>2, <2>1, <2>2, <2>3 DEF ReloadHealth, SohInv, SohTypeOK
<1>6. OneCloser' /\ OneWrite'
    BY <1>1, <1>2 DEF ReloadHealth, OneCloser, OneWrite
<1>7. load_failed' = ~ok /\ disk' = disk /\ writes' = <<>> /\ disk.base \in Nat
    BY <1>1 DEF ReloadHealth, SohInv, SohTypeOK, Health
<1>4. BasesGrow' /\ BaselineKept
  <2>1. CASE ok
      BY <1>2, <1>7, <2>1 DEF BasesGrow, BaselineKept
  <2>2. CASE ~ok
    <3>1. load_failed' /\ writes' = <<>>
        BY <1>7, <2>2
    <3>2. disk'.base >= disk.base
        BY <1>7
    <3> QED BY <3>1, <3>2 DEF BasesGrow, BaselineKept
  <2> QED BY <2>1, <2>2
<1>5. NothingLost'
    BY <1>1, <1>2 DEF ReloadHealth, SohInv, SohTypeOK, NothingLost
<1> QED BY <1>3, <1>4, <1>5, <1>6 DEF SohInv

LEMMA SohStep == SohInv /\ [SohNext]_sohVars => SohInv' /\ (SohNext => BaselineKept)
<1> SUFFICES ASSUME SohInv, [SohNext]_sohVars PROVE SohInv' /\ (SohNext => BaselineKept)
    OBVIOUS
<1>1. CASE SohNext
    BY <1>1, UpdateHealthKeeps, SaveWakesKeeps, WriteEndsKeeps, ReloadHealthKeeps, ShutdownBeginsKeeps,
       ShutdownFlushesKeeps, ShutdownExpiresKeeps DEF SohNext
<1>2. CASE UNCHANGED sohVars
    BY <1>2 DEF sohVars, SohInv, SohTypeOK, OneCloser, OneWrite, BasesGrow, NothingLost, BaselineKept, Health
<1> QED BY <1>1, <1>2

LEMMA SohInvDurable == SohInv => ShutdownIsDurable
    BY DEF SohInv, SohTypeOK, OneWrite, NothingLost, ShutdownIsDurable

\* soh_store.py: for any number of closers and failures of the disk, what a
\* shutdown leaves on the disk is what was learned, unless the disk failed, and
\* the baseline on the disk never falls back.
THEOREM HealthSurvives == SohSpec => SohKept
<1>1. SohInv /\ SohInv' /\ [SohNext]_sohVars => [ShutdownIsDurable' /\ BaselineKept]_sohVars
  <2>1. SohInv' => ShutdownIsDurable'
      BY SohInvDurable, PTL
  <2> QED BY <2>1, SohStep
<1> QED BY SohInitially, SohStep, <1>1, PTL DEF SohSpec, SohKept

-----------------------------------------------------------------------------
(* ProxyServer: what is answered is true. *)

Requests == [at : {"idle", "gone", "read", "write"}, range : SUBSET Words, value : Nat]

ProxyTypeOK ==
    /\ conn \in [Clients -> Requests]
    /\ device \in [Words -> Nat] /\ acked \in [Words -> Nat]
    /\ server \in {"serving", "stopping", "stopped"}
    /\ bus \subseteq Clients
    /\ proxyWrites \in Nat

\* A read fault is shown for a read that failed, or for missing traffic.
ReadFaultsKept == "proxy" \in proxyShown /\ ~silent => _read_failures # {}

ProxyInv == ProxyTypeOK /\ UnconfirmedKnown /\ ReadFaultsKept

LEMMA IdleIsRequest == Idle \in Requests /\ Gone \in Requests
    BY DEF Idle, Gone, NoRange, Requests

LEMMA ProxyInitially == ProxyInit => ProxyInv
<1> SUFFICES ASSUME ProxyInit PROVE ProxyInv
    OBVIOUS
<1>1. ProxyTypeOK
    BY IdleIsRequest DEF ProxyInit, ProxyTypeOK
<1>2. UnconfirmedKnown /\ ReadFaultsKept
    BY DEF ProxyInit, UnconfirmedKnown, ReadFaultsKept
<1> QED BY <1>1, <1>2 DEF ProxyInv

\* What a response makes of the faults that are shown.
LEMMA RespondKeeps ==
    ASSUME ProxyInv, NEW c \in Clients, NEW reads, NEW words, Respond(c, reads, words)
    PROVE  /\ conn' \in [Clients -> Requests] /\ conn'[c] = Idle
           /\ ReadFaultsKept'
           /\ reads # {} => "proxy" \in proxyShown'
           /\ server' = server /\ proxyWrites' \in Nat /\ _write_failures' = words
<1>1. conn' \in [Clients -> Requests] /\ conn'[c] = Idle
    BY IdleIsRequest DEF Respond, ProxyInv, ProxyTypeOK
<1>2. _read_failures' = reads /\ silent' = FALSE /\ proxyShown' = Faults(reads, words, FALSE)
    BY DEF Respond
<1>3. "proxy" \in proxyShown' <=> reads # {}
    BY <1>2 DEF Faults
<1>4. server' = server /\ proxyWrites' \in Nat /\ _write_failures' = words
    BY DEF Respond, ProxyInv, ProxyTypeOK
<1> QED BY <1>1, <1>2, <1>3, <1>4 DEF ReadFaultsKept

\* Steps that touch neither the words nor what is reported of them.
LEMMA RequestKeeps ==
    ASSUME ProxyInv, conn' \in [Clients -> Requests], bus' \subseteq Clients, server' = server, proxyWrites' \in Nat,
           UNCHANGED <<device, acked, _write_failures, _read_failures, proxyShown, silent>>
    PROVE  ProxyInv' /\ RecoveryProven
    BY DEF ProxyInv, ProxyTypeOK, UnconfirmedKnown, ReadFaultsKept, RecoveryProven

LEMMA ConnectionKeeps ==
    ASSUME ProxyInv, NEW c \in Clients,
           Connect(c) \/ Leave(c) \/ StartRead(c) \/ Send(c) \/ \E r \in Ranges : StartWrite(c, r)
    PROVE  ProxyInv' /\ RecoveryProven
<1>1. CASE Connect(c)
    BY <1>1, IdleIsRequest, RequestKeeps DEF Connect, ProxyInv, ProxyTypeOK
<1>2. CASE Leave(c)
    BY <1>2, IdleIsRequest, RequestKeeps DEF Leave, ProxyInv, ProxyTypeOK
<1>3. CASE StartRead(c)
  <2>1. [at |-> "read", range |-> Words, value |-> 0] \in Requests
      BY DEF Requests
  <2> QED BY <1>3, <2>1, RequestKeeps DEF StartRead, ProxyInv, ProxyTypeOK
<1>4. CASE Send(c)
    BY <1>4, RequestKeeps DEF Send, ProxyInv, ProxyTypeOK
<1>5. ASSUME NEW r \in Ranges, StartWrite(c, r) PROVE ProxyInv' /\ RecoveryProven
  <2>1. [at |-> "write", range |-> r, value |-> proxyWrites + 1] \in Requests
      BY <1>5 DEF Requests, Ranges, ProxyInv, ProxyTypeOK
  <2>2. conn' \in [Clients -> Requests] /\ proxyWrites' \in Nat /\ bus' \subseteq Clients
      BY <1>5, <2>1 DEF StartWrite, ProxyInv, ProxyTypeOK
  <2> QED BY <1>5, <2>2, RequestKeeps DEF StartWrite
<1> QED BY <1>1, <1>2, <1>3, <1>4, <1>5

LEMMA ReadKeeps ==
    ASSUME ProxyInv, NEW c \in Clients, CacheHit(c) \/ ReadOk(c)
    PROVE  ProxyInv' /\ RecoveryProven
<1>1. CASE CacheHit(c)
  <2>1. Respond(c, _read_failures, _write_failures) /\ UNCHANGED <<bus, device, acked>>
      BY <1>1 DEF CacheHit, AfterCacheHit
  <2> QED BY <2>1, RespondKeeps DEF ProxyInv, ProxyTypeOK, UnconfirmedKnown, ReadFaultsKept, RecoveryProven
<1>2. CASE ReadOk(c)
  <2>1. Respond(c, {}, _write_failures) /\ conn[c].at = "read" /\ bus = {c} /\ bus' = {} /\ UNCHANGED <<device, acked>>
      BY <1>2 DEF ReadOk
  <2>2. RecoveryProven
      BY <2>1, RespondKeeps DEF RecoveryProven
  <2> QED BY <2>1, <2>2, RespondKeeps DEF ProxyInv, ProxyTypeOK, UnconfirmedKnown
<1> QED BY <1>1, <1>2

LEMMA WrittenIs ==
    ASSUME ProxyInv, NEW c \in Clients
    PROVE  /\ Written(c) \in [Words -> Nat]
           /\ \A w \in Words : w \notin conn[c].range => Written(c)[w] = device[w]
           /\ \A w \in Words : w \in conn[c].range => Written(c)[w] = conn[c].value
    BY DEF ProxyInv, ProxyTypeOK, Written, Requests

LEMMA WriteKeeps ==
    ASSUME ProxyInv, NEW c \in Clients, WriteOk(c)
    PROVE  ProxyInv' /\ RecoveryProven
<1>1. Respond(c, _read_failures, _write_failures \ conn[c].range)
    BY DEF WriteOk, StillUnconfirmed
<1>2. device' = Written(c) /\ acked' = [w \in Words |-> IF w \in conn[c].range THEN conn[c].value ELSE acked[w]]
    BY DEF WriteOk
<1>3. device' \in [Words -> Nat] /\ acked' \in [Words -> Nat]
    BY <1>2, WrittenIs DEF ProxyInv, ProxyTypeOK, Requests
<1>4. UnconfirmedKnown'
    BY <1>1, <1>2, WrittenIs, RespondKeeps DEF ProxyInv, ProxyTypeOK, UnconfirmedKnown
<1>5. RecoveryProven
    BY <1>1, RespondKeeps DEF ProxyInv, ReadFaultsKept, RecoveryProven
<1> QED BY <1>1, <1>3, <1>4, <1>5, RespondKeeps DEF ProxyInv, ProxyTypeOK, WriteOk

LEMMA FailureKeeps ==
    ASSUME ProxyInv, NEW c \in Clients, NEW arrived \in BOOLEAN, RequestFails(c, arrived)
    PROVE  ProxyInv' /\ RecoveryProven
<1>1. acked' = acked /\ device' = (IF arrived THEN Written(c) ELSE device)
    BY DEF RequestFails
<1>2. device' \in [Words -> Nat]
    BY <1>1, WrittenIs DEF ProxyInv, ProxyTypeOK
<1>5. bus' \subseteq Clients
    BY DEF RequestFails, ProxyInv, ProxyTypeOK
<1>3. CASE conn[c].at = "read"
  <2>1. Respond(c, _read_failures \cup {conn[c].range}, _write_failures) /\ ~arrived
      BY <1>3 DEF RequestFails
  <2>2. _read_failures \cup {conn[c].range} # {}
      OBVIOUS
  <2>3. RecoveryProven
      BY <2>1, <2>2, RespondKeeps DEF RecoveryProven
  <2>4. UnconfirmedKnown'
      BY <1>1, <2>1, RespondKeeps DEF ProxyInv, UnconfirmedKnown
  <2> QED BY <1>1, <1>2, <1>5, <2>1, <2>3, <2>4, RespondKeeps DEF ProxyInv, ProxyTypeOK
<1>4. CASE conn[c].at = "write"
  <2>1. Respond(c, _read_failures, _write_failures \cup conn[c].range)
      BY <1>4 DEF RequestFails, affected
  <2>2. UnconfirmedKnown'
      BY <1>1, <2>1, WrittenIs, RespondKeeps DEF ProxyInv, ProxyTypeOK, UnconfirmedKnown
  <2>3. RecoveryProven
      BY <2>1, RespondKeeps DEF ProxyInv, ReadFaultsKept, RecoveryProven
  <2> QED BY <1>1, <1>2, <1>5, <2>1, <2>2, <2>3, RespondKeeps DEF ProxyInv, ProxyTypeOK
<1> QED BY <1>3, <1>4 DEF RequestFails

LEMMA SilenceKeeps ==
    ASSUME ProxyInv, Silence
    PROVE  ProxyInv' /\ RecoveryProven
<1>1. "proxy" \in proxyShown' /\ silent'
    BY DEF Silence, Faults
<1> QED BY <1>1 DEF Silence, ProxyInv, ProxyTypeOK, UnconfirmedKnown, ReadFaultsKept, RecoveryProven

LEMMA StopKeeps ==
    ASSUME ProxyInv, NEW arrived \in BOOLEAN, StopBegins(arrived) \/ StopEnds
    PROVE  ProxyInv' /\ RecoveryProven
<1>1. CASE StopBegins(arrived)
  <2>1. conn' \in [Clients -> Requests]
      BY <1>1, IdleIsRequest DEF StopBegins, ProxyInv, ProxyTypeOK
  <2>2. device' \in [Words -> Nat]
    <3>1. CASE arrived
      <4>1. device' = Written(CHOOSE d \in bus : TRUE)
          BY <1>1, <3>1 DEF StopBegins
      <4>2. (CHOOSE d \in bus : TRUE) \in Clients
          BY <1>1, <3>1 DEF StopBegins, ProxyInv, ProxyTypeOK
      <4> QED BY <4>1, <4>2, WrittenIs
    <3>2. CASE ~arrived
        BY <1>1, <3>2 DEF StopBegins, ProxyInv, ProxyTypeOK
    <3> QED BY <3>1, <3>2
  <2>3. server' = "stopping" /\ UNCHANGED <<acked, _read_failures, proxyShown, silent, proxyWrites>>
      BY <1>1 DEF StopBegins
  <2>4. bus' \subseteq Clients
      BY <1>1 DEF StopBegins, ProxyInv, ProxyTypeOK
  <2> QED BY <2>1, <2>2, <2>3, <2>4 DEF ProxyInv, ProxyTypeOK, UnconfirmedKnown, ReadFaultsKept, RecoveryProven
<1>2. CASE StopEnds
    BY <1>2 DEF StopEnds, ProxyInv, ProxyTypeOK, UnconfirmedKnown, ReadFaultsKept, RecoveryProven
<1> QED BY <1>1, <1>2

LEMMA ProxyStep == ProxyInv /\ [ProxyNext]_proxyVars => ProxyInv' /\ (ProxyNext => RecoveryProven)
<1> SUFFICES ASSUME ProxyInv, [ProxyNext]_proxyVars PROVE ProxyInv' /\ (ProxyNext => RecoveryProven)
    OBVIOUS
<1>1. CASE ProxyNext
    BY <1>1, ConnectionKeeps, ReadKeeps, WriteKeeps, FailureKeeps, SilenceKeeps, StopKeeps DEF ProxyNext
<1>2. CASE UNCHANGED proxyVars
    BY <1>2 DEF proxyVars, ProxyInv, ProxyTypeOK, UnconfirmedKnown, ReadFaultsKept, RecoveryProven
<1> QED BY <1>1, <1>2

\* modbus_proxy.py: for any clients, registers and values, a write that was not
\* confirmed stays known as such, and a fault of the inverter is shown until a
\* read has proved that it is over, not until another client's cached answer.
THEOREM ProxyIsHonest == ProxySpec => ProxyHonest
<1>1. ProxyInv /\ ProxyInv' /\ [ProxyNext]_proxyVars => [UnconfirmedKnown' /\ RecoveryProven]_proxyVars
    BY ProxyStep DEF ProxyInv
<1> QED BY ProxyInitially, ProxyStep, <1>1, PTL DEF ProxySpec, ProxyHonest

-----------------------------------------------------------------------------
(* HealthScore and IsolationWatch: what is judged was measured. *)

\* What is on its way to the disk or on it was measured no longer ago than it
\* is old.
IsolationTypeOK ==
    /\ sinceRead \in [Ohms -> 0 .. Never]
    /\ isolationDisk \in [ohm : Ohms \cup {NoSample}, age : 0 .. Never]
    /\ saving \in Seq([ohm : Ohms, age : 0 .. Never])
    /\ unavailable \in BOOLEAN /\ off_scale \in BOOLEAN

SamplesDated ==
    /\ isolationDisk.ohm # NoSample => sinceRead[isolationDisk.ohm] <= isolationDisk.age
    /\ \A i \in 1 .. Len(saving) : sinceRead[saving[i].ohm] <= saving[i].age

IsolationInv == IsolationTypeOK /\ LiveIsMeasured /\ SamplesDated

LEMMA OhmsAre == \A o \in Ohms : o \in Nat /\ o # NoSample /\ o # SENTINEL /\ o >= 2000
<1> SUFFICES ASSUME NEW v \in IsolationValues
             PROVE  1000 * v \in Nat /\ 1000 * v # NoSample /\ 1000 * v # SENTINEL /\ 1000 * v >= 2000
    BY DEF Ohms
<1>1. v \in Nat /\ v >= 2 /\ v # 65535
    BY IsolationConstants
<1>2. 1000 * v # 65535000
    BY <1>1
<1> QED BY <1>1, <1>2 DEF NoSample, SENTINEL

LEMMA AgesAre == MaxSampleAge \in Nat /\ Never = MaxSampleAge + 1 /\ Never \in Nat
    BY IsolationConstants DEF Never

\* What the normalisation makes of the register is the resistance.
LEMMA RecordedIs ==
    ASSUME NEW p \in IsolationPolls, Truthful(p), Measured(p)
    PROVE  /\ Recorded(p) = IF p.raw \in KiloOhms THEN 1000 * p.raw ELSE p.raw
           /\ Recorded(p) \in Ohms \cup {SENTINEL}
           /\ Recorded(p) = SENTINEL <=> p.raw = SENTINEL
<1>0. p.raw \in {NoSample, SENTINEL} \cup Ohms \cup KiloOhms /\ p.raw # NoSample /\ p.pv \in BOOLEAN
    BY DEF IsolationPolls, Measured
<1>1. CASE p.raw = SENTINEL
  <2>1. SENTINEL \notin KiloOhms
      BY IsolationConstants DEF KiloOhms, KOHM_MAX, SENTINEL
  <2> QED BY <1>1, <2>1 DEF Recorded
<1>2. CASE p.raw \in Ohms
  <2>1. p.raw \in Nat /\ p.raw # SENTINEL /\ p.raw >= 2000
      BY <1>2, OhmsAre
  <2>2. ~(p.raw <= KOHM_MAX) /\ p.raw \notin KiloOhms
      BY <2>1 DEF KOHM_MAX, KiloOhms
  <2> QED BY <1>2, <2>1, <2>2 DEF Recorded, normalize_isolation_resistance_ohm
<1>3. CASE p.raw \in KiloOhms
  <2>1. p.raw \in IsolationValues /\ p.raw <= KOHM_MAX /\ p.pv
      BY <1>3 DEF Truthful, KiloOhms
  <2>2. 1000 * p.raw \in Ohms /\ p.raw # SENTINEL
      BY <2>1 DEF Ohms, SENTINEL, KOHM_MAX
  <2>3. Recorded(p) = 1000 * p.raw
      BY <2>1, <2>2 DEF Recorded, normalize_isolation_resistance_ohm
  <2> QED BY <1>3, <2>2, <2>3, OhmsAre
<1> QED BY <1>0, <1>1, <1>2, <1>3

LEMMA IsolationInitially == IsolationInit => IsolationInv
<1> SUFFICES ASSUME IsolationInit PROVE IsolationInv
    OBVIOUS
<1>1. IsolationTypeOK
  <2>1. sinceRead \in [Ohms -> 0 .. Never] /\ isolationDisk \in [ohm : Ohms \cup {NoSample}, age : 0 .. Never]
      BY AgesAre DEF IsolationInit
  <2>2. saving \in Seq([ohm : Ohms, age : 0 .. Never])
      BY EmptySeq DEF IsolationInit
  <2> QED BY <2>1, <2>2 DEF IsolationInit, IsolationTypeOK
<1>2. LiveIsMeasured
    BY DEF IsolationInit, LiveIsMeasured, get_isolation_resistance_ohm, NoSample, SENTINEL
<1>3. SamplesDated
    BY DEF IsolationInit, SamplesDated
<1> QED BY <1>1, <1>2, <1>3 DEF IsolationInv

\* A resistance that is measured again is not older for it.
LEMMA DatedStays ==
    ASSUME NEW since \in [Ohms -> 0 .. Never], NEW after \in [Ohms -> 0 .. Never],
           \A o \in Ohms : after[o] <= since[o],
           NEW ohm \in Ohms, NEW age \in 0 .. Never, since[ohm] <= age
    PROVE  after[ohm] <= age
<1>1. since[ohm] \in Int /\ after[ohm] \in Int /\ age \in Int
    BY AgesAre
<1> QED BY <1>1

LEMMA PollIsolationKeeps ==
    ASSUME IsolationInv, NEW p \in IsolationPolls, PollIsolation(p)
    PROVE  IsolationInv'
<1>0. /\ isolationDisk' = isolationDisk /\ Truthful(p)
      /\ unavailable' = ~Measured(p) /\ off_scale' = (Measured(p) /\ p.raw = SENTINEL)
    BY DEF PollIsolation, Unavailable
<1>1. CASE Measured(p)
  <2>1. sample' = Recorded(p) /\ unavailable' = FALSE
      BY <1>0, <1>1 DEF PollIsolation
  <2>2. heard' = Recorded(p)
      BY <1>0, <1>1, RecordedIs DEF PollIsolation, Measured, isolation_measurement_expected
  <2>3. LiveIsMeasured'
      BY <1>0, <1>1, <2>1, <2>2, RecordedIs DEF LiveIsMeasured, get_isolation_resistance_ohm
  <2>4. sinceRead' \in [Ohms -> 0 .. Never] /\ \A o \in Ohms : sinceRead'[o] <= sinceRead[o]
      BY AgesAre DEF PollIsolation, IsolationInv, IsolationTypeOK
  <2>5. heard' \in Ohms => sinceRead'[heard'] = 0
      BY DEF PollIsolation, IsolationInv, IsolationTypeOK
  <2>6. saving' = saving \/ (saving' = Append(saving, [ohm |-> sample', age |-> 0]) /\ sample' \in Ohms)
      BY <1>1, <2>1, RecordedIs, <1>0 DEF PollIsolation
  <2>7. saving' \in Seq([ohm : Ohms, age : 0 .. Never]) /\ SamplesDated'
    <3> USE <1>0
    <3>1. CASE saving' = saving
      <4>1. ASSUME NEW i \in 1 .. Len(saving) PROVE sinceRead'[saving[i].ohm] <= saving[i].age
        <5>1. saving[i] \in [ohm : Ohms, age : 0 .. Never]
            BY ElementOfSeq DEF IsolationInv, IsolationTypeOK
        <5> QED BY <5>1, DatedStays, <2>4 DEF IsolationInv, IsolationTypeOK, SamplesDated
      <4>2. isolationDisk.ohm # NoSample => sinceRead'[isolationDisk.ohm] <= isolationDisk.age
          BY DatedStays, <2>4 DEF IsolationInv, IsolationTypeOK, SamplesDated
      <4> QED BY <3>1, <4>1, <4>2 DEF IsolationInv, IsolationTypeOK, SamplesDated
    <3>2. CASE saving' = Append(saving, [ohm |-> sample', age |-> 0]) /\ sample' \in Ohms
      <4>1. [ohm |-> sample', age |-> 0] \in [ohm : Ohms, age : 0 .. Never]
          BY <3>2, AgesAre
      <4>2. saving \in Seq([ohm : Ohms, age : 0 .. Never])
          BY DEF IsolationInv, IsolationTypeOK
      <4>3. /\ saving' \in Seq([ohm : Ohms, age : 0 .. Never]) /\ Len(saving') = Len(saving) + 1
            /\ \A i \in 1 .. Len(saving) : saving'[i] = saving[i]
            /\ saving'[Len(saving) + 1] = [ohm |-> sample', age |-> 0]
          BY <3>2, <4>1, <4>2, AppendProperties
      <4>4. \A i \in 1 .. Len(saving') : sinceRead'[saving'[i].ohm] <= saving'[i].age
        <5> SUFFICES ASSUME NEW i \in 1 .. Len(saving') PROVE sinceRead'[saving'[i].ohm] <= saving'[i].age
            OBVIOUS
        <5>1. CASE i = Len(saving) + 1
            BY <5>1, <4>3, <2>1, <2>2, <2>5, <3>2
        <5>2. CASE i \in 1 .. Len(saving)
          <6>1. saving[i] \in [ohm : Ohms, age : 0 .. Never]
              BY <4>2, <5>2, ElementOfSeq
          <6>2. saving[i].ohm \in Ohms /\ saving[i].age \in 0 .. Never
              BY <6>1
          <6>3. sinceRead[saving[i].ohm] <= saving[i].age /\ sinceRead \in [Ohms -> 0 .. Never]
              BY <5>2 DEF IsolationInv, SamplesDated, IsolationTypeOK
          <6>4. sinceRead'[saving[i].ohm] <= saving[i].age
              BY <6>2, <6>3, <2>4, DatedStays
          <6> QED BY <5>2, <6>4, <4>3
        <5> QED BY <5>1, <5>2, <4>3, <4>2, LenProperties
      <4>5. isolationDisk'.ohm # NoSample => sinceRead'[isolationDisk'.ohm] <= isolationDisk'.age
          BY <2>4, DatedStays DEF IsolationInv, IsolationTypeOK, SamplesDated
      <4> QED BY <4>3, <4>4, <4>5 DEF SamplesDated
    <3> QED BY <2>6, <3>1, <3>2
  <2> QED BY <1>0, <2>3, <2>4, <2>7, <1>1 DEF IsolationInv, IsolationTypeOK
<1>2. CASE ~Measured(p)
  <2>1. unavailable' = TRUE /\ off_scale' = FALSE /\ saving' = saving
      BY <1>0, <1>2 DEF PollIsolation
  <2>2. heard' = NoSample
    <3>1. CASE p.current /\ (p.pv \/ p.state = ISOMEAS)
      <4>1. p.raw = NoSample
          BY <1>2, <3>1 DEF Measured, isolation_measurement_expected
      <4>2. p.raw \notin KiloOhms
          BY <4>1, IsolationConstants DEF KiloOhms, NoSample
      <4> QED BY <3>1, <4>1, <4>2 DEF PollIsolation
    <3> QED BY <3>1 DEF PollIsolation
  <2>3. sinceRead' = sinceRead
      BY <2>2, OhmsAre DEF PollIsolation
  <2> QED BY <1>0, <2>1, <2>2, <2>3
          DEF IsolationInv, IsolationTypeOK, SamplesDated, LiveIsMeasured, get_isolation_resistance_ohm, NoSample, SENTINEL
<1> QED BY <1>1, <1>2

LEMMA SaveIsolationKeeps ==
    ASSUME IsolationInv, NEW ok \in BOOLEAN, _save_isolation_sample(ok)
    PROVE  IsolationInv'
<1> DEFINE Samples == [ohm : Ohms, age : 0 .. Never]
<1>0. saving \in Seq(Samples) /\ saving # << >> /\ saving' = Tail(saving)
      /\ UNCHANGED <<sample, origin, unavailable, off_scale, restarts, heard, sinceRead>>
    BY DEF _save_isolation_sample, IsolationInv, IsolationTypeOK
<1>1. /\ saving' \in Seq(Samples) /\ Len(saving') = Len(saving) - 1 /\ Len(saving) \in Nat \ {0}
      /\ \A i \in 1 .. Len(saving') : saving'[i] = saving[i + 1]
    BY <1>0, HeadTailProperties, EmptySeq, LenProperties
<1>2. Head(saving) = saving[1] /\ Head(saving) \in Samples
  <2> HIDE DEF Samples
  <2> QED BY <1>0, HeadTailProperties
<1>3. isolationDisk' = isolationDisk \/ isolationDisk' = Head(saving)
    BY DEF _save_isolation_sample
<1>4. isolationDisk' \in [ohm : Ohms \cup {NoSample}, age : 0 .. Never]
    BY <1>2, <1>3 DEF IsolationInv, IsolationTypeOK
<1>5. SamplesDated'
    BY <1>0, <1>1, <1>2, <1>3 DEF SamplesDated, IsolationInv
<1> QED BY <1>0, <1>1, <1>4, <1>5 DEF IsolationInv, IsolationTypeOK, LiveIsMeasured, get_isolation_resistance_ohm

LEMMA OlderIs ==
    ASSUME NEW a \in 0 .. Never, NEW b \in 0 .. Never
    PROVE  Older(a) \in 0 .. Never /\ (a <= b => Older(a) <= Older(b))
    BY AgesAre DEF Older

LEMMA TickIsolationKeeps ==
    ASSUME IsolationInv, TickIsolation
    PROVE  IsolationInv'
<1> DEFINE Samples == [ohm : Ohms, age : 0 .. Never]
<1>0. saving \in Seq(Samples) /\ Len(saving) \in Nat /\ DOMAIN saving = 1 .. Len(saving)
    BY LenProperties DEF IsolationInv, IsolationTypeOK
<1>1. \A i \in 1 .. Len(saving) : saving[i] \in Samples
    BY <1>0, ElementOfSeq
<1>2. saving' = [i \in 1 .. Len(saving) |-> [saving[i] EXCEPT !.age = Older(@)]]
    BY <1>0 DEF TickIsolation
<1>3. \A i \in 1 .. Len(saving) : [saving[i] EXCEPT !.age = Older(@)] \in Samples
    BY <1>1, OlderIs
<1>4. saving' \in Seq(Samples) /\ Len(saving') = Len(saving)
    BY <1>0, <1>2, <1>3, IsASeq, LenProperties
<1>5. sinceRead' = [o \in Ohms |-> Older(sinceRead[o])] /\ isolationDisk' = [isolationDisk EXCEPT !.age = Older(@)]
      /\ UNCHANGED <<unavailable, off_scale, heard, sample>>
    BY DEF TickIsolation
<1>6. sinceRead' \in [Ohms -> 0 .. Never] /\ isolationDisk' \in [ohm : Ohms \cup {NoSample}, age : 0 .. Never]
    BY <1>5, OlderIs DEF IsolationInv, IsolationTypeOK
<1>7. isolationDisk'.ohm # NoSample => sinceRead'[isolationDisk'.ohm] <= isolationDisk'.age
    BY <1>5, OlderIs DEF IsolationInv, IsolationTypeOK, SamplesDated
<1>8. ASSUME NEW i \in 1 .. Len(saving) PROVE sinceRead'[saving'[i].ohm] <= saving'[i].age
  <2>1. saving'[i].ohm = saving[i].ohm /\ saving'[i].age = Older(saving[i].age) /\ saving[i].ohm \in Ohms
        /\ saving[i].age \in 0 .. Never
      BY <1>1, <1>2
  <2> QED BY <2>1, <1>5, OlderIs DEF IsolationInv, IsolationTypeOK, SamplesDated
<1> QED BY <1>4, <1>5, <1>6, <1>7, <1>8
        DEF IsolationInv, IsolationTypeOK, SamplesDated, LiveIsMeasured, get_isolation_resistance_ohm

LEMMA IsolationStep == IsolationInv /\ [IsolationNext]_isolationVars => IsolationInv'
<1> SUFFICES ASSUME IsolationInv, [IsolationNext]_isolationVars PROVE IsolationInv'
    OBVIOUS
<1>1. CASE FailedPoll
  <2>1. UNCHANGED <<isolationDisk, saving, sinceRead>> /\ unavailable' = TRUE /\ off_scale' = FALSE /\ heard' = NoSample
      BY <1>1 DEF FailedPoll
  <2>2. IsolationTypeOK' /\ SamplesDated'
      BY <2>1 DEF IsolationInv, IsolationTypeOK, SamplesDated
  <2>3. LiveIsMeasured'
      BY <2>1 DEF LiveIsMeasured, get_isolation_resistance_ohm, NoSample, SENTINEL
  <2> QED BY <2>2, <2>3 DEF IsolationInv
<1>2. CASE RestartIsolation
  <2>1. /\ UNCHANGED <<isolationDisk, sinceRead>> /\ saving' = << >>
        /\ unavailable' = TRUE /\ off_scale' = FALSE /\ heard' = NoSample
      BY <1>2 DEF RestartIsolation
  <2>2. saving' \in Seq([ohm : Ohms, age : 0 .. Never]) /\ Len(saving') = 0
      BY <2>1, EmptySeq
  <2>3. IsolationTypeOK' /\ SamplesDated'
    <3>1. IsolationTypeOK'
        BY <2>1, <2>2 DEF IsolationInv, IsolationTypeOK
    <3>2. \A i \in 1 .. Len(saving') : FALSE
        BY <2>2
    <3> QED BY <2>1, <3>1, <3>2 DEF IsolationInv, SamplesDated
  <2>4. LiveIsMeasured'
      BY <2>1 DEF LiveIsMeasured, get_isolation_resistance_ohm, NoSample, SENTINEL
  <2> QED BY <2>3, <2>4 DEF IsolationInv
<1>3. CASE UNCHANGED isolationVars
    BY <1>3 DEF isolationVars, IsolationInv, IsolationTypeOK, SamplesDated, LiveIsMeasured, get_isolation_resistance_ohm
<1> QED BY <1>1, <1>2, <1>3, PollIsolationKeeps, SaveIsolationKeeps, TickIsolationKeeps DEF IsolationNext

LEMMA RestoredIsYoung == IsolationInv /\ [IsolationNext]_isolationVars => RestoredNotOld
<1> SUFFICES ASSUME IsolationInv, [IsolationNext]_isolationVars, restarts' # restarts, sample' # NoSample
             PROVE  sinceRead[sample'] <= MaxSampleAge
    BY DEF RestoredNotOld
<1>1. RestartIsolation
    BY DEF IsolationNext, isolationVars, PollIsolation, FailedPoll, _save_isolation_sample, TickIsolation
<1>2. sample' = isolationDisk.ohm /\ isolationDisk.ohm # NoSample /\ isolationDisk.age <= MaxSampleAge
    BY <1>1 DEF RestartIsolation, Restorable
<1> QED BY <1>2, AgesAre DEF IsolationInv, IsolationTypeOK, SamplesDated

-----------------------------------------------------------------------------

\* The trackers of the grid hold what the last poll read, where it read something.
TrackedIsLast ==
    /\ tracked \in [Trackers -> Int]
    /\ nominal.volt \in {120, 230}
    /\ \A t \in Phases : last[t] \in Nat \cup {Missing} /\ (last[t] # Missing => tracked[t] = last[t])

LEMMA ScoreInitially == ScoreInit => TrackedIsLast
    BY DEF ScoreInit, TrackedIsLast, Phases, GridTrackers, Trackers, Missing

LEMMA ScoreStep == TrackedIsLast /\ [ScoreNext]_scoreVars => TrackedIsLast'
<1> SUFFICES ASSUME TrackedIsLast, [ScoreNext]_scoreVars PROVE TrackedIsLast'
    OBVIOUS
<1>1. ASSUME NEW r \in GridReadings, NEW temp \in Temperatures \cup {Missing}, PollHealth(r, temp)
      PROVE  TrackedIsLast'
  <2>1. \A t \in GridTrackers : r[t] \in Nat \cup {Missing}
      BY HealthConstants DEF GridReadings
  <2>2. temp \in Int
      BY HealthConstants DEF Missing
  <2>3. tracked' = [t \in Trackers |-> IF t \in GridTrackers /\ r[t] # Missing THEN r[t]
                                       ELSE IF t = "controller_temp" /\ temp # Missing THEN temp ELSE tracked[t]]
      BY <1>1 DEF PollHealth
  <2>4. tracked' \in [Trackers -> Int]
    <3>1. ASSUME NEW t \in Trackers PROVE tracked'[t] \in Int
        BY <2>1, <2>2, <2>3 DEF TrackedIsLast, Missing
    <3> QED BY <2>3, <3>1
  <2>5. nominal'.volt \in {120, 230}
      BY <1>1 DEF PollHealth, _detect_nominal_phase_voltage_v
  <2> QED BY <2>1, <2>3, <2>4, <2>5, <1>1 DEF PollHealth, TrackedIsLast, Phases, GridTrackers, Trackers
<1>2. ASSUME NEW e \in ErrorCounts, NEW w \in ErrorCounts \cup {Missing}, update_error_counts(e, w)
      PROVE  TrackedIsLast'
    BY <1>2, HealthConstants DEF update_error_counts, TrackedIsLast, Phases, GridTrackers, Trackers, Missing
<1>3. CASE FailedHealthPoll
    BY <1>3 DEF FailedHealthPoll, TrackedIsLast
<1>4. CASE UNCHANGED scoreVars
    BY <1>4 DEF scoreVars, TrackedIsLast
<1> QED BY <1>1, <1>2, <1>3, <1>4 DEF ScoreNext

\* Of two phases one of which has half the voltage of the other, one is outside
\* the critical range of either profile.
LEMMA OneIsCritical ==
    ASSUME TrackedIsLast, NEW t \in Phases, NEW u \in Phases,
           last[t] # Missing, last[u] # Missing, 2 * last[t] < last[u] + 40, last[u] > 200
    PROVE  \E c \in {t, u} : tracked[c] # Missing /\ level(c) = "critical"
<1>1. last[t] \in Nat /\ last[u] \in Nat /\ tracked[t] = last[t] /\ tracked[u] = last[u]
    BY DEF TrackedIsLast
<1>2. ASSUME NEW c \in Phases PROVE Thresholds(c).critical = IF nominal.volt <= 130 THEN <<95, 145>> ELSE <<185, 265>>
    BY <1>2 DEF Thresholds, _apply_grid_profile, Limits, GridTrackers, Phases
<1>3. ASSUME NEW c \in Phases, tracked[c] # Missing, Outside(tracked[c], Thresholds(c).critical)
      PROVE  level(c) = "critical"
    BY <1>3 DEF level
<1>4. CASE nominal.volt = 120
  <2>1. Outside(tracked[u], Thresholds(u).critical)
      BY <1>1, <1>2, <1>4 DEF Outside
  <2> QED BY <2>1, <1>1, <1>3
<1>5. CASE nominal.volt = 230
  <2>1. Outside(tracked[u], Thresholds(u).critical) \/ Outside(tracked[t], Thresholds(t).critical)
      BY <1>1, <1>2, <1>5 DEF Outside
  <2> QED BY <2>1, <1>1, <1>3
<1> QED BY <1>4, <1>5 DEF TrackedIsLast

LEMMA TrackersFinite == IsFiniteSet(Trackers)
<1>1. IsFiniteSet({"phase1_voltage"} \cup {"phase2_voltage"} \cup {"phase3_voltage"} \cup {"grid_frequency"})
    BY FS_Singleton, FS_Union
<1>2. IsFiniteSet({"controller_temp"} \cup {"active_errors"} \cup {"active_warnings"})
    BY FS_Singleton, FS_Union
<1>3. Trackers = ({"phase1_voltage"} \cup {"phase2_voltage"} \cup {"phase3_voltage"} \cup {"grid_frequency"})
                 \cup ({"controller_temp"} \cup {"active_errors"} \cup {"active_warnings"})
    BY DEF Trackers, GridTrackers, Phases
<1> QED BY <1>1, <1>2, <1>3, FS_Union

\* A critical tracker makes the whole critical, and costs twenty points.
LEMMA CriticalCosts ==
    ASSUME NEW c \in Trackers, tracked[c] # Missing, level(c) = "critical"
    PROVE  overall_health = "critical" /\ health_score <= 80
<1>1. "critical" \in Levels
    BY DEF Levels
<1>2. overall_health = "critical"
    BY <1>1 DEF overall_health
<1> DEFINE Of(l) == {t \in Trackers : level(t) = l}
<1>3. ASSUME NEW l PROVE IsFiniteSet(Of(l)) /\ Cardinality(Of(l)) \in Nat
  <2>1. IsFiniteSet(Of(l))
      BY TrackersFinite, FS_Subset
  <2> QED BY <2>1, FS_CardinalityType
<1>4. Cardinality(Of("critical")) # 0
  <2>1. c \in Of("critical")
      OBVIOUS
  <2> QED BY <1>3, <2>1, FS_EmptySet
<1>5. health_score <= 80
  <2> DEFINE a == Cardinality(Of("critical"))
             b == Cardinality(Of("warning"))
             i == Cardinality(Of("info"))
  <2>1. a \in Nat /\ b \in Nat /\ i \in Nat /\ a # 0
      BY <1>3, <1>4
  <2>2. health_score = IF 20 * a + 8 * b + 3 * i > 100 THEN 0 ELSE 100 - (20 * a + 8 * b + 3 * i)
      BY DEF health_score
  <2> HIDE DEF a, b, i
  <2> QED BY <2>1, <2>2
<1> QED BY <1>2, <1>5

LEMMA UnevenIsSeen == TrackedIsLast => UnevenGridSeen
<1> SUFFICES ASSUME TrackedIsLast, NEW t \in Phases, NEW u \in Phases,
                    last[t] # Missing, last[u] # Missing, 2 * last[t] < last[u] + 40, last[u] > 200
             PROVE  overall_health = "critical" /\ health_score <= 80
    BY DEF UnevenGridSeen
<1>1. PICK c \in {t, u} : tracked[c] # Missing /\ level(c) = "critical"
    BY OneIsCritical
<1> QED BY <1>1, CriticalCosts DEF Trackers, GridTrackers

\* health_monitor.py: for any polls, nights and restarts and any values, the
\* isolation that is judged was measured and is not old, and a phase that is
\* missing beside another is critical and costs the score 20 points or more.
THEOREM MonitorIsTrue == MonitorSpec => HealthTrue
<1>1. IsolationInit /\ ScoreInit => IsolationInv /\ TrackedIsLast
    BY IsolationInitially, ScoreInitially
<1>2. IsolationInv /\ TrackedIsLast /\ [MonitorNext]_monitorVars => (IsolationInv /\ TrackedIsLast)'
    BY IsolationStep, ScoreStep DEF MonitorNext, monitorVars, scoreVars, isolationVars
<1>3. IsolationInv /\ TrackedIsLast /\ [MonitorNext]_monitorVars
        => [LiveIsMeasured' /\ UnevenGridSeen' /\ RestoredNotOld]_monitorVars
  <2> SUFFICES ASSUME IsolationInv, TrackedIsLast, [MonitorNext]_monitorVars
               PROVE  LiveIsMeasured' /\ UnevenGridSeen' /\ RestoredNotOld
      OBVIOUS
  <2>1. [IsolationNext]_isolationVars
      BY DEF MonitorNext, monitorVars, isolationVars
  <2>2. IsolationInv' /\ TrackedIsLast'
      BY <1>2
  <2>3. UnevenGridSeen'
      BY <2>2, UnevenIsSeen, PTL
  <2> QED BY <2>1, <2>2, <2>3, RestoredIsYoung DEF IsolationInv
<1> QED BY <1>1, <1>2, <1>3, PTL DEF MonitorSpec, HealthTrue

-----------------------------------------------------------------------------
(* MqttBridge: a start or a stop is whole, and topics go forward. *)

PublishTasks == [gen : Nat, stage : {"state", "proxy"}]

BridgeTypeOK ==
    /\ mqtt \in {"absent", "down", "up"}
    /\ starter \in {"setup", "first", "waits", "retry", "nobody"}
    /\ step \in 0 .. 3
    /\ stopper \in {"idle", "begun", "ended", "failed", "expired"}
    /\ polls \in Nat /\ tasks \subseteq PublishTasks
    /\ topics \in [state : Nat, proxy : Nat]

\* Who has started has gone through all of the attempt; subscriptions belong to
\* an attempt or to a bridge that has started; "online" is said in an attempt,
\* which async_stop knows of.
StartsWhole ==
    /\ executed # "incomplete"
    /\ started => starter = "nobody" /\ step = 3
    /\ wired => Attempting \/ started
    /\ Attempting => attempted
    /\ starter = "setup" => ~attempted
    /\ stopper # "idle" => starter = "nobody"
    /\ ~attempted /\ stopper \in {"idle", "begun"} => ~online

\* The tasks that run publish the last poll, and the proxy topics after the state.
PublishesLast ==
    /\ \A t \in tasks : t.gen = polls /\ (t.stage = "proxy" => topics.state = polls)
    /\ topics.proxy <= topics.state /\ topics.state <= polls

BridgeInv == BridgeTypeOK /\ StartsWhole /\ PublishesLast

BridgeStepOK == NoGhostBridge /\ TopicsForward

LEMMA BridgeInitially == BridgeInit => BridgeInv
<1> SUFFICES ASSUME BridgeInit PROVE BridgeInv
    OBVIOUS
<1>1. BridgeTypeOK
    BY DEF BridgeInit, BridgeTypeOK
<1>2. StartsWhole /\ PublishesLast
    BY DEF BridgeInit, StartsWhole, PublishesLast, Attempting
<1> QED BY <1>1, <1>2 DEF BridgeInv

\* Steps that do not publish.
LEMMA NoTopicTouched ==
    ASSUME BridgeInv, UNCHANGED <<polls, topics>>, tasks' \subseteq tasks
    PROVE  PublishesLast' /\ TopicsForward /\ tasks' \subseteq PublishTasks
    BY DEF BridgeInv, BridgeTypeOK, PublishesLast, TopicsForward

LEMMA StartKeeps ==
    ASSUME BridgeInv, async_start \/ RetryWakes \/ AttemptGoesOn
    PROVE  BridgeInv' /\ BridgeStepOK
<1>0. UNCHANGED <<polls, topics, tasks, stopper>>
    BY DEF async_start, RetryWakes, AttemptGoesOn, publishVars
<1>1. PublishesLast' /\ TopicsForward /\ tasks' \subseteq PublishTasks
    BY <1>0, NoTopicTouched
<1>2. NoGhostBridge
    BY <1>0 DEF NoGhostBridge
<1>3. CASE async_start
  <2>1. BridgeTypeOK'
      BY <1>0, <1>1, <1>3 DEF async_start, BridgeInv, BridgeTypeOK, linkVars
  <2>3. StartsWhole'
    <3>1. CASE mqtt = "up"
        BY <1>0, <1>3, <3>1 DEF async_start, BridgeInv, StartsWhole, Attempting
    <3>2. CASE mqtt # "up"
      <4>1. starter' = "waits" /\ UNCHANGED <<step, wired, started, online, executed>> /\ ~online
          BY <1>0, <1>3, <3>2 DEF async_start, BridgeInv, StartsWhole, Attempting
      <4> QED BY <1>0, <1>3, <4>1 DEF async_start, BridgeInv, StartsWhole, Attempting
    <3> QED BY <3>1, <3>2
  <2> QED BY <1>1, <1>2, <2>1, <2>3 DEF BridgeInv, BridgeStepOK
<1>4. CASE RetryWakes
    BY <1>0, <1>1, <1>2, <1>4
       DEF RetryWakes, BridgeInv, BridgeTypeOK, StartsWhole, Attempting, linkVars, BridgeStepOK
<1>5. CASE AttemptGoesOn
  <2>1. BridgeTypeOK'
      BY <1>0, <1>1, <1>5 DEF AttemptGoesOn, BridgeInv, BridgeTypeOK, linkVars, _publish_register_metadata
  <2>2. StartsWhole'
      BY <1>0, <1>5 DEF AttemptGoesOn, BridgeInv, BridgeTypeOK, StartsWhole, Attempting, linkVars
  <2> QED BY <1>1, <1>2, <2>1, <2>2 DEF BridgeInv, BridgeStepOK
<1> QED BY <1>3, <1>4, <1>5

LEMMA AttemptFailsKeeps ==
    ASSUME BridgeInv, NEW odd \in BOOLEAN, NEW known \in BOOLEAN, AttemptFails(odd, known)
    PROVE  BridgeInv' /\ BridgeStepOK
<1>0. UNCHANGED <<polls, topics, tasks, stopper>>
    BY DEF AttemptFails, publishVars
<1>1. PublishesLast' /\ TopicsForward /\ tasks' \subseteq PublishTasks
    BY <1>0, NoTopicTouched
<1>2. NoGhostBridge
    BY <1>0 DEF NoGhostBridge
<1>3. BridgeTypeOK'
    BY <1>0, <1>1 DEF AttemptFails, BridgeRolledBack, AfterRetry, BridgeInv, BridgeTypeOK, linkVars, _publish_register_metadata
<1>4. StartsWhole'
    BY <1>0 DEF AttemptFails, BridgeRolledBack, AfterRetry, BridgeInv, BridgeTypeOK, StartsWhole, Attempting, linkVars
<1> QED BY <1>1, <1>2, <1>3, <1>4 DEF BridgeInv, BridgeStepOK

LEMMA CommandKeeps ==
    ASSUME BridgeInv, NEW retained \in BOOLEAN, _handle_command(retained)
    PROVE  BridgeInv' /\ BridgeStepOK
<1>0. UNCHANGED <<polls, topics, tasks, stopper>>
    BY DEF _handle_command, publishVars
<1>1. PublishesLast' /\ TopicsForward /\ tasks' \subseteq PublishTasks
    BY <1>0, NoTopicTouched
<1>2. StartsWhole' /\ NoGhostBridge
    BY <1>0 DEF _handle_command, Acts, BridgeInv, StartsWhole, Attempting, startVars, NoGhostBridge
<1>3. BridgeTypeOK'
    BY <1>0, <1>1 DEF _handle_command, BridgeInv, BridgeTypeOK, startVars, linkVars
<1> QED BY <1>1, <1>2, <1>3 DEF BridgeInv, BridgeStepOK

LEMMA PollPublishedKeeps ==
    ASSUME BridgeInv, PollPublished
    PROVE  BridgeInv' /\ BridgeStepOK
<1>1. tasks' = {[gen |-> polls + 1, stage |-> "state"]} /\ polls' = polls + 1
    BY DEF PollPublished, Kept
<1>2. tasks' \subseteq PublishTasks /\ polls' \in Nat
    BY <1>1 DEF BridgeInv, BridgeTypeOK, PublishTasks
<1>3. BridgeTypeOK'
    BY <1>2 DEF PollPublished, BridgeInv, BridgeTypeOK, startVars, linkVars
<1>4. StartsWhole' /\ NoGhostBridge
    BY DEF PollPublished, BridgeInv, StartsWhole, Attempting, startVars, NoGhostBridge
<1>5. PublishesLast' /\ TopicsForward
    BY <1>1 DEF PollPublished, BridgeInv, BridgeTypeOK, PublishesLast, TopicsForward
<1> QED BY <1>3, <1>4, <1>5 DEF BridgeInv, BridgeStepOK

LEMMA PublishGoesOnKeeps ==
    ASSUME BridgeInv, NEW t \in tasks, PublishGoesOn(t)
    PROVE  BridgeInv' /\ BridgeStepOK
<1>0. /\ t \in PublishTasks /\ t.gen = polls /\ polls \in Nat /\ topics \in [state : Nat, proxy : Nat]
      /\ t.stage = "proxy" => topics.state = polls
    BY DEF BridgeInv, BridgeTypeOK, PublishesLast
<1>1. StartsWhole' /\ NoGhostBridge
    BY DEF PublishGoesOn, BridgeInv, StartsWhole, Attempting, startVars, NoGhostBridge
<1>2. CASE mqtt # "up"
  <2>1. tasks' \subseteq tasks /\ UNCHANGED <<topics, polls>>
      BY <1>2 DEF PublishGoesOn
  <2> QED BY <1>1, <2>1, NoTopicTouched
          DEF PublishGoesOn, BridgeInv, BridgeTypeOK, startVars, linkVars, BridgeStepOK
<1>3. CASE mqtt = "up" /\ t.stage = "state"
  <2>1. /\ topics' = [topics EXCEPT !.state = polls] /\ polls' = polls
        /\ tasks' = (tasks \ {t}) \cup {[t EXCEPT !.stage = "proxy"]}
      BY <1>0, <1>3 DEF PublishGoesOn
  <2>2. [t EXCEPT !.stage = "proxy"] \in PublishTasks /\ [t EXCEPT !.stage = "proxy"].gen = polls
      BY <1>0 DEF PublishTasks
  <2>3. topics' \in [state : Nat, proxy : Nat] /\ topics'.state = polls /\ topics'.proxy = topics.proxy
      BY <1>0, <2>1
  <2>4. PublishesLast' /\ TopicsForward
    <3>1. topics.proxy <= topics.state /\ topics.state <= polls /\ topics.state \in Nat /\ topics.proxy \in Nat
        BY <1>0 DEF BridgeInv, PublishesLast
    <3>2. \A u \in tasks' : u.gen = polls'
        BY <2>1, <2>2 DEF BridgeInv, PublishesLast
    <3> QED BY <1>0, <2>1, <2>3, <3>1, <3>2 DEF PublishesLast, TopicsForward
  <2>5. BridgeTypeOK'
      BY <2>1, <2>2, <2>3 DEF PublishGoesOn, BridgeInv, BridgeTypeOK, startVars, linkVars
  <2> QED BY <1>1, <2>4, <2>5 DEF BridgeInv, BridgeStepOK
<1>4. CASE mqtt = "up" /\ t.stage = "proxy"
  <2>1. /\ topics' = [topics EXCEPT !.proxy = polls] /\ polls' = polls
        /\ tasks' = tasks \ {t} /\ topics.state = polls
      BY <1>0, <1>4 DEF PublishGoesOn
  <2>3. topics' \in [state : Nat, proxy : Nat] /\ topics'.proxy = polls /\ topics'.state = topics.state
      BY <1>0, <2>1
  <2>4. PublishesLast' /\ TopicsForward
      BY <1>0, <2>1, <2>3 DEF BridgeInv, PublishesLast, TopicsForward
  <2>5. BridgeTypeOK'
      BY <2>1, <2>3 DEF PublishGoesOn, BridgeInv, BridgeTypeOK, startVars, linkVars
  <2> QED BY <1>1, <2>4, <2>5 DEF BridgeInv, BridgeStepOK
<1> QED BY <1>0, <1>2, <1>3, <1>4 DEF PublishTasks

LEMMA StopBridgeKeeps ==
    ASSUME BridgeInv, NEW known \in BOOLEAN, StopBridge(known)
    PROVE  BridgeInv' /\ BridgeStepOK
<1>0. UNCHANGED <<polls, topics>> /\ tasks' \subseteq tasks
    BY DEF StopBridge
<1>1. PublishesLast' /\ TopicsForward /\ tasks' \subseteq PublishTasks
    BY <1>0, NoTopicTouched
<1>2. NoGhostBridge
    BY DEF StopBridge, NoGhostBridge
<1>3. BridgeTypeOK'
    BY <1>0, <1>1 DEF StopBridge, BridgeRolledBack, BridgeInv, BridgeTypeOK, linkVars, _publish_register_metadata
<1>4. StartsWhole'
    BY DEF StopBridge, BridgeRolledBack, BridgeInv, BridgeTypeOK, StartsWhole, Attempting, linkVars
<1> QED BY <1>1, <1>2, <1>3, <1>4 DEF BridgeInv, BridgeStepOK

LEMMA StopEndsKeeps ==
    ASSUME BridgeInv, StopStarted \/ \E known \in BOOLEAN : StopNotStarted(known)
    PROVE  BridgeInv' /\ BridgeStepOK
<1>0. UNCHANGED <<polls, topics, tasks, mqtt>>
    BY DEF StopStarted, StopNotStarted, publishVars, linkVars
<1>1. PublishesLast' /\ TopicsForward /\ tasks' \subseteq PublishTasks
    BY <1>0, NoTopicTouched
<1>2. ASSUME NEW known \in BOOLEAN, StopNotStarted(known) PROVE BridgeInv' /\ BridgeStepOK
  <2>1. ~wired /\ ~started /\ (attempted \/ ~online)
      BY <1>2 DEF StopNotStarted, BridgeInv, StartsWhole, Attempting
  <2>2. BridgeTypeOK'
      BY <1>0, <1>1, <1>2 DEF StopNotStarted, Corrects, BridgeInv, BridgeTypeOK
  <2>3. StartsWhole'
      BY <1>2, <2>1 DEF StopNotStarted, Corrects, BridgeInv, StartsWhole, Attempting
  <2>4. NoGhostBridge
      BY <1>2, <2>1 DEF StopNotStarted, Corrects, NoGhostBridge
  <2> QED BY <1>1, <2>2, <2>3, <2>4 DEF BridgeInv, BridgeStepOK
<1>3. CASE StopStarted
  <2>1. BridgeTypeOK'
      BY <1>0, <1>1, <1>3 DEF StopStarted, BridgeInv, BridgeTypeOK
  <2>2. StartsWhole'
      BY <1>3 DEF StopStarted, BridgeInv, BridgeTypeOK, StartsWhole, Attempting
  <2>3. NoGhostBridge
      BY <1>3 DEF StopStarted, NoGhostBridge
  <2> QED BY <1>1, <2>1, <2>2, <2>3 DEF BridgeInv, BridgeStepOK
<1> QED BY <1>2, <1>3

LEMMA BrokerKeeps ==
    ASSUME BridgeInv, NEW to \in {"absent", "down", "up"}, BrokerChanges(to)
    PROVE  BridgeInv' /\ BridgeStepOK
<1>0. UNCHANGED <<polls, topics, tasks, stopper>>
    BY DEF BrokerChanges, publishVars
<1>1. PublishesLast' /\ TopicsForward /\ tasks' \subseteq PublishTasks
    BY <1>0, NoTopicTouched
<1>2. BridgeTypeOK' /\ StartsWhole' /\ NoGhostBridge
    BY <1>0, <1>1 DEF BrokerChanges, BridgeInv, BridgeTypeOK, StartsWhole, Attempting, startVars, NoGhostBridge
<1> QED BY <1>1, <1>2 DEF BridgeInv, BridgeStepOK

LEMMA BridgeStep == BridgeInv /\ [BridgeNext]_bridgeVars => BridgeInv' /\ BridgeStepOK
<1> SUFFICES ASSUME BridgeInv, [BridgeNext]_bridgeVars PROVE BridgeInv' /\ BridgeStepOK
    OBVIOUS
<1>1. CASE BridgeNext
    BY <1>1, StartKeeps, AttemptFailsKeeps, CommandKeeps, PollPublishedKeeps, PublishGoesOnKeeps,
       StopBridgeKeeps, StopEndsKeeps, BrokerKeeps DEF BridgeNext
<1>2. CASE UNCHANGED bridgeVars
  <2>1. PublishesLast' /\ TopicsForward /\ tasks' \subseteq PublishTasks
      BY <1>2, NoTopicTouched DEF bridgeVars
  <2> QED BY <1>2, <2>1 DEF bridgeVars, BridgeInv, BridgeTypeOK, StartsWhole, Attempting, BridgeStepOK, NoGhostBridge
<1> QED BY <1>1, <1>2

\* _try_start, async_stop and _on_coordinator_update of the MQTT bridge: for any
\* number of polls and commands, no command is executed by a bridge that is half
\* started, a stop leaves nothing behind, and no topic falls back to an older poll.
THEOREM BridgeActsWhole == BridgeSpec => BridgeWhole
<1>1. BridgeInv /\ BridgeInv' /\ [BridgeNext]_bridgeVars
         => [NoHalfStartedWrite' /\ NoGhostBridge /\ TopicsForward]_bridgeVars
    BY BridgeStep DEF BridgeInv, BridgeStepOK, StartsWhole, NoHalfStartedWrite
<1> QED BY BridgeInitially, BridgeStep, <1>1, PTL DEF BridgeSpec, BridgeWhole

-----------------------------------------------------------------------------
(* FireSafety: an alarm is shown exactly while there is a danger. *)

AlarmKeys == Categories \X (1 .. 4)
Alerts == [key : AlarmKeys, age : Nat]

FireTypeOK ==
    /\ alerts \subseteq Alerts
    /\ streak \in Nat
    /\ lastPoll.now \subseteq AlarmKeys
    /\ lastPoll \in [now : SUBSET AlarmKeys, before : SUBSET AlarmKeys, checked : BOOLEAN]

\* The streak is not broken exactly when the last reading that was checked had a bad grid.
StreakTrue == streak >= 1 <=> \E k \in lastPoll.now : k[1] = "grid_emergency"

\* After the all-clear nothing is shown.
ClearedIsEmpty == clear_sent => alarmShown = {}

FireInv == FireTypeOK /\ StreakTrue /\ ClearedIsEmpty /\ AlertsAreShown /\ DangerIsActive

FireStepOK == NoGlitchAlarm /\ ClearedWhenSafe

LEMMA FireInitially == FireInit => FireInv
<1> SUFFICES ASSUME FireInit PROVE FireInv
    OBVIOUS
<1>1. FireTypeOK
    BY DEF FireInit, FireTypeOK
<1>2. StreakTrue /\ ClearedIsEmpty /\ AlertsAreShown /\ DangerIsActive
    BY DEF FireInit, StreakTrue, ClearedIsEmpty, AlertsAreShown, DangerIsActive, KeysOf
<1> QED BY <1>1, <1>2 DEF FireInv

LEMMA ReadingType ==
    ASSUME NEW r \in Readings
    PROVE  /\ r.battery \in 0 .. 4 /\ r.controller \in 0 .. 4 /\ r.grid \in 0 .. 4
           /\ r.isolation \in 0 .. 4 /\ r.dc \in 0 .. 4
    BY DEF Readings

LEMMA AlarmType ==
    ASSUME NEW c \in Categories, NEW l \in 0 .. 4
    PROVE  /\ Alarm(c, l) \subseteq AlarmKeys
           /\ \A k \in Alarm(c, l) : k[1] = c
           /\ l > 0 <=> Alarm(c, l) # {}
<1>1. CASE l > 0
  <2>1. Alarm(c, l) = {<<c, l>>} /\ l \in 1 .. 4
      BY <1>1 DEF Alarm, Key
  <2>2. <<c, l>> \in AlarmKeys /\ <<c, l>>[1] = c
      BY <2>1 DEF AlarmKeys
  <2> QED BY <1>1, <2>1, <2>2
<1>2. CASE ~(l > 0)
    BY <1>2 DEF Alarm
<1> QED BY <1>1, <1>2

\* What the checks of one reading find.
LEMMA FoundIs ==
    ASSUME NEW r \in Readings
    PROVE  /\ Found(r) \subseteq AlarmKeys
           /\ _check_battery_thermal(r) \cup _check_controller_thermal(r) \subseteq Found(r)
           /\ Streak(r) >= 2 => _check_grid_emergency(r) \subseteq Found(r)
           /\ \A k \in Found(r) : k[1] = "grid_emergency" => Streak(r) >= 2
           /\ _check_battery_thermal(r) \cup _check_controller_thermal(r) \cup _check_grid_emergency(r) \subseteq AlarmKeys
           /\ \A k \in _check_battery_thermal(r) \cup _check_controller_thermal(r) : k[1] # "grid_emergency"
           /\ \A k \in _check_grid_emergency(r) : k[1] = "grid_emergency"
           /\ r.grid > 0 <=> _check_grid_emergency(r) # {}
<1>1. {"battery_thermal", "controller_thermal", "isolation", "dc_imbalance", "grid_emergency"} \subseteq Categories
    BY DEF Categories, Thermal
<1>2. /\ _check_battery_thermal(r) \subseteq AlarmKeys /\ \A k \in _check_battery_thermal(r) : k[1] = "battery_thermal"
      /\ _check_controller_thermal(r) \subseteq AlarmKeys /\ \A k \in _check_controller_thermal(r) : k[1] = "controller_thermal"
    BY <1>1, ReadingType, AlarmType DEF _check_battery_thermal, _check_controller_thermal
<1>3. /\ _check_isolation(r) \subseteq AlarmKeys /\ \A k \in _check_isolation(r) : k[1] = "isolation"
      /\ _check_dc_string_anomaly(r) \subseteq AlarmKeys /\ \A k \in _check_dc_string_anomaly(r) : k[1] = "dc_imbalance"
    BY <1>1, ReadingType, AlarmType DEF _check_isolation, _check_dc_string_anomaly
<1>4. /\ _check_grid_emergency(r) \subseteq AlarmKeys /\ \A k \in _check_grid_emergency(r) : k[1] = "grid_emergency"
      /\ r.grid > 0 <=> _check_grid_emergency(r) # {}
    BY <1>1, ReadingType, AlarmType DEF _check_grid_emergency
<1>5. _confirm_grid_alerts(r) = IF Streak(r) >= 2 THEN _check_grid_emergency(r) ELSE {}
    BY DEF _confirm_grid_alerts, GRID_ALERT_CONFIRM_POLLS
<1> QED BY <1>2, <1>3, <1>4, <1>5 DEF Found

LEMMA StreakIs ==
    ASSUME FireInv, NEW r \in Readings
    PROVE  /\ Streak(r) \in Nat /\ (Streak(r) >= 1 <=> r.grid > 0)
           /\ Streak(r) >= 2 <=> r.grid > 0 /\ streak >= 1
    BY ReadingType DEF Streak, FireInv, FireTypeOK

\* A poll that is checked.
LEMMA CheckKeeps ==
    ASSUME FireInv, NEW r \in Readings, PollFire(r, FALSE)
    PROVE  FireInv' /\ FireStepOK
<1> DEFINE kept == clear_stale_alerts(r.pv)
           new == NewAlerts(r)
           temps == _check_battery_thermal(r) \cup _check_controller_thermal(r)
           bad == _check_grid_emergency(r)
<1>1. /\ alerts' = kept \cup {[key |-> k, age |-> 0] : k \in new}
      /\ new # {} => alarmShown' = alarmShown \cup new /\ clear_sent' = FALSE
      /\ new = {} /\ kept = {} /\ ~clear_sent => alarmShown' = {}
      /\ new = {} /\ (kept # {} \/ clear_sent) => UNCHANGED <<alarmShown, clear_sent>>
      /\ streak' = (IF Streak(r) > 2 THEN 2 ELSE Streak(r))
      /\ lastPoll' = [now |-> temps \cup bad, before |-> lastPoll.now, checked |-> TRUE]
    BY DEF PollFire, AllClear, NotSent, GRID_ALERT_CONFIRM_POLLS
<1>2. kept \subseteq alerts /\ new = {k \in Found(r) : k \notin KeysOf(kept)}
    BY DEF clear_stale_alerts, NewAlerts, Active
<1>3. KeysOf(alerts') = KeysOf(kept) \cup new
  <2>1. \A k \in new : [key |-> k, age |-> 0].key = k
      OBVIOUS
  <2> DEFINE fresh == {[key |-> k, age |-> 0] : k \in new}
  <2>2. KeysOf(fresh) = new
    <3>1. ASSUME NEW k \in KeysOf(fresh) PROVE k \in new
        BY <2>1, <3>1 DEF KeysOf
    <3>2. ASSUME NEW k \in new PROVE k \in KeysOf(fresh)
      <4>1. [key |-> k, age |-> 0] \in fresh
          BY <3>2
      <4> QED BY <2>1, <4>1 DEF KeysOf
    <3> QED BY <3>1, <3>2
  <2> HIDE DEF fresh
  <2>3. KeysOf(kept \cup fresh) = KeysOf(kept) \cup KeysOf(fresh)
      BY DEF KeysOf
  <2> QED BY <1>1, <2>2, <2>3 DEF fresh
<1> HIDE DEF kept, new, temps, bad
<1>4. Found(r) \subseteq KeysOf(alerts')
    BY <1>2, <1>3
<1>5. FireTypeOK'
  <2>1. new \subseteq AlarmKeys
      BY <1>2, FoundIs
  <2>2. {[key |-> k, age |-> 0] : k \in new} \subseteq Alerts
      BY <2>1 DEF Alerts
  <2>3. alerts' \subseteq Alerts
      BY <1>1, <1>2, <2>2 DEF FireInv, FireTypeOK
  <2>4. streak' \in Nat
      BY <1>1, StreakIs
  <2>5. temps \cup bad \subseteq AlarmKeys /\ lastPoll.now \subseteq AlarmKeys
      BY FoundIs DEF temps, bad, FireInv, FireTypeOK
  <2> QED BY <1>1, <2>3, <2>4, <2>5 DEF FireTypeOK
<1>6. StreakTrue'
  <2>1. lastPoll'.now = temps \cup bad
      BY <1>1
  <2>2. (\E k \in lastPoll'.now : k[1] = "grid_emergency") <=> r.grid > 0
      BY <2>1, FoundIs DEF temps, bad
  <2>3. streak' >= 1 <=> r.grid > 0
      BY <1>1, StreakIs
  <2> QED BY <2>2, <2>3 DEF StreakTrue
<1>7. ClearedIsEmpty' /\ AlertsAreShown'
  <2>1. KeysOf(kept) \subseteq alarmShown
      BY <1>2 DEF KeysOf, FireInv, AlertsAreShown
  <2>2. CASE new # {}
      BY <1>1, <1>3, <2>1, <2>2 DEF ClearedIsEmpty, AlertsAreShown
  <2>3. CASE new = {} /\ kept = {} /\ ~clear_sent
      BY <1>1, <1>3, <2>3 DEF ClearedIsEmpty, AlertsAreShown, KeysOf
  <2>4. CASE new = {} /\ (kept # {} \/ clear_sent)
      BY <1>1, <1>3, <2>1, <2>4 DEF FireInv, ClearedIsEmpty, AlertsAreShown
  <2> QED BY <2>2, <2>3, <2>4
<1>8. DangerIsActive'
  <2>1. SUFFICES ASSUME NEW k \in temps \cup bad, k[1] \in Thermal \/ k \in lastPoll.now
                 PROVE  k \in KeysOf(alerts')
      BY <1>1 DEF DangerIsActive
  <2>2. CASE k \in temps
      BY <1>4, <2>2, FoundIs DEF temps
  <2>3. CASE k \in bad
    <3>1. k[1] = "grid_emergency" /\ k \in lastPoll.now /\ r.grid > 0
        BY <2>1, <2>3, FoundIs DEF bad, Thermal
    <3>2. Streak(r) >= 2
        BY <3>1, StreakIs DEF FireInv, StreakTrue
    <3> QED BY <1>4, <2>3, <3>2, FoundIs DEF bad
  <2> QED BY <2>1, <2>2, <2>3
<1>9. NoGlitchAlarm
  <2>1. SUFFICES ASSUME NEW k \in KeysOf(alerts') \ KeysOf(alerts), k[1] = "grid_emergency"
                 PROVE  \E j \in lastPoll.now : j[1] = "grid_emergency"
      BY DEF NoGlitchAlarm
  <2>2. k \in Found(r)
      BY <1>2, <1>3, <2>1 DEF KeysOf
  <2>3. Streak(r) >= 2
      BY <2>1, <2>2, FoundIs
  <2> QED BY <2>3, StreakIs DEF FireInv, StreakTrue
<1>10. ClearedWhenSafe
  <2>1. SUFFICES ASSUME alerts' = {} PROVE alarmShown' = {}
      BY DEF ClearedWhenSafe
  <2>2. new = {} /\ kept = {}
      BY <1>1, <2>1
  <2> QED BY <1>1, <2>2 DEF FireInv, ClearedIsEmpty
<1> QED BY <1>5, <1>6, <1>7, <1>8, <1>9, <1>10 DEF FireInv, FireStepOK

\* Steps that bring no new alert and no check.
LEMMA NoCheckKeeps ==
    ASSUME FireInv, alerts' \subseteq Alerts, KeysOf(alerts') \subseteq KeysOf(alerts),
           alarmShown' = alarmShown, clear_sent' => clear_sent,
           lastPoll' = [lastPoll EXCEPT !.checked = FALSE], streak' = streak
    PROVE  FireInv' /\ FireStepOK
<1>1. lastPoll'.now = lastPoll.now /\ lastPoll'.checked = FALSE
      /\ lastPoll' \in [now : SUBSET AlarmKeys, before : SUBSET AlarmKeys, checked : BOOLEAN]
    BY DEF FireInv, FireTypeOK
<1>2. FireTypeOK' /\ StreakTrue' /\ ClearedIsEmpty'
    BY <1>1 DEF FireInv, FireTypeOK, StreakTrue, ClearedIsEmpty
<1>3. AlertsAreShown' /\ DangerIsActive' /\ FireStepOK
    BY <1>1 DEF FireInv, AlertsAreShown, DangerIsActive, FireStepOK, NoGlitchAlarm, ClearedWhenSafe
<1> QED BY <1>2, <1>3 DEF FireInv

LEMMA EarlyKeeps ==
    ASSUME FireInv, NEW r \in Readings, PollFire(r, TRUE)
    PROVE  FireInv' /\ FireStepOK
<1>1. /\ alerts' = alerts /\ streak' = streak
      /\ lastPoll' = [lastPoll EXCEPT !.checked = FALSE]
      /\ IF alerts = {} /\ ~clear_sent THEN alarmShown' = {} /\ clear_sent' = TRUE
         ELSE UNCHANGED <<alarmShown, clear_sent>>
    BY DEF PollFire, AllClear
<1>2. lastPoll'.now = lastPoll.now /\ lastPoll'.checked = FALSE
      /\ lastPoll' \in [now : SUBSET AlarmKeys, before : SUBSET AlarmKeys, checked : BOOLEAN]
    BY <1>1 DEF FireInv, FireTypeOK
<1>3. FireTypeOK' /\ StreakTrue'
    BY <1>1, <1>2 DEF FireInv, FireTypeOK, StreakTrue
<1>4. ClearedIsEmpty' /\ AlertsAreShown'
    BY <1>1 DEF FireInv, ClearedIsEmpty, AlertsAreShown, KeysOf
<1>5. DangerIsActive' /\ FireStepOK
    BY <1>1, <1>2 DEF DangerIsActive, FireStepOK, NoGlitchAlarm, ClearedWhenSafe
<1> QED BY <1>3, <1>4, <1>5 DEF FireInv

LEMMA TickKeeps ==
    ASSUME FireInv, TickFire
    PROVE  FireInv' /\ FireStepOK
<1>1. \A b \in alerts : [b EXCEPT !.age = @ + 1] \in Alerts /\ [b EXCEPT !.age = @ + 1].key = b.key
    BY DEF FireInv, FireTypeOK, Alerts
<1>2. alerts' \subseteq {[b EXCEPT !.age = @ + 1] : b \in alerts}
    BY DEF TickFire
<1>3. alerts' \subseteq Alerts /\ KeysOf(alerts') \subseteq KeysOf(alerts)
  <2>1. alerts' \subseteq Alerts
      BY <1>1, <1>2
  <2>2. ASSUME NEW a \in alerts' PROVE a.key \in KeysOf(alerts)
    <3>1. PICK b \in alerts : a = [b EXCEPT !.age = @ + 1]
        BY <1>2
    <3> QED BY <1>1, <3>1 DEF KeysOf
  <2> QED BY <2>1, <2>2 DEF KeysOf
<1> QED BY <1>3, NoCheckKeeps DEF TickFire

LEMMA ReloadKeeps ==
    ASSUME FireInv, ReloadFire
    PROVE  FireInv' /\ FireStepOK
<1>1. KeysOf(alerts') = {} /\ alerts' = {} /\ streak' = 0 /\ clear_sent' = FALSE
      /\ lastPoll' = [now |-> {}, before |-> {}, checked |-> FALSE]
    BY DEF ReloadFire, KeysOf
<1>2. FireTypeOK'
    BY <1>1 DEF FireTypeOK
<1>3. StreakTrue' /\ ClearedIsEmpty' /\ AlertsAreShown' /\ DangerIsActive'
    BY <1>1 DEF StreakTrue, ClearedIsEmpty, AlertsAreShown, DangerIsActive
<1>4. FireStepOK
    BY <1>1 DEF FireStepOK, NoGlitchAlarm, ClearedWhenSafe
<1> QED BY <1>2, <1>3, <1>4 DEF FireInv

LEMMA FireStep == FireInv /\ [FireNext]_fireVars => FireInv' /\ (FireNext => FireStepOK)
<1> SUFFICES ASSUME FireInv, [FireNext]_fireVars PROVE FireInv' /\ (FireNext => FireStepOK)
    OBVIOUS
<1>1. CASE FireNext
    BY <1>1, CheckKeeps, EarlyKeeps, TickKeeps, ReloadKeeps DEF FireNext
<1>2. CASE UNCHANGED fireVars
  <2>1. UNCHANGED <<alerts, streak, alarmShown, clear_sent, lastPoll>>
      BY <1>2 DEF fireVars
  <2>2. FireTypeOK' /\ StreakTrue' /\ ClearedIsEmpty'
      BY <2>1 DEF FireInv, FireTypeOK, StreakTrue, ClearedIsEmpty
  <2>3. AlertsAreShown' /\ DangerIsActive'
      BY <2>1 DEF FireInv, AlertsAreShown, DangerIsActive, KeysOf
  <2>4. FireNext => FireStepOK
      BY CheckKeeps, EarlyKeeps, TickKeeps, ReloadKeeps DEF FireNext
  <2> QED BY <2>2, <2>3, <2>4 DEF FireInv
<1> QED BY <1>1, <1>2

\* fire_safety.py: over any polls, nights, standby and reloads, a danger that was
\* read is alarmed and shown, a single bad reading of the grid is not, and the
\* all-clear is shown when the alarm is over.
THEOREM AlertsAreTrue == FireSpec => AlertsTrue
<1>1. FireInv /\ FireInv' /\ [FireNext]_fireVars
        => [DangerIsActive' /\ AlertsAreShown' /\ NoGlitchAlarm /\ ClearedWhenSafe]_fireVars
    BY FireStep DEF FireInv, FireStepOK
<1> QED BY FireInitially, FireStep, <1>1, PTL DEF FireSpec, AlertsTrue

=============================================================================
