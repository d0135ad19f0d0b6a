-------------------------- MODULE RequestScheduler --------------------------
(***************************************************************************)
(* RequestScheduler.request() serialises every REST and Modbus exchange    *)
(* with the inverter behind one asyncio.Lock taken through                 *)
(* asyncio.wait_for(lock.acquire(), 120 s).                                *)
(*                                                                         *)
(* The event loop runs one task at a time, so a step here is what a task   *)
(* does between two awaits.  The lock itself is the library's              *)
(* asyncio.Lock: a flag, a deque of futures and the rule that release      *)
(* wakes the future at the head of the deque, which claims the flag only   *)
(* when its task runs again.  Between the wake-up and the claim the lock   *)
(* is free although a task has been promised it, and that task may still   *)
(* be cancelled or run into the timeout.                                   *)
(***************************************************************************)
EXTENDS Naturals, Sequences

CONSTANTS RestTasks,    \* tasks that send through ScheduledSession
          ModbusTasks   \* tasks that send through the Modbus client

ASSUME TasksAssumption == RestTasks \cap ModbusTasks = {}

Tasks == RestTasks \cup ModbusTasks

VARIABLES
    locked,     \* asyncio.Lock._locked
    waiters,    \* asyncio.Lock._waiters: the tasks whose futures are queued
    fut,        \* state of the future a task waits on in acquire()
    doomed,     \* tasks with a cancellation that is not yet delivered
    pc          \* where each task is suspended

vars == <<locked, waiters, fut, doomed, pc>>

\* The part of request() between acquire and release.
InSection == {"pause", "send"}

PC == {"idle", "waiting", "reading"} \cup InSection

TypeOK ==
    /\ locked \in BOOLEAN
    /\ waiters \in Seq(Tasks)
    /\ fut \in [Tasks -> {"none", "pending", "woken", "cancelled"}]
    /\ doomed \in SUBSET Tasks
    /\ pc \in [Tasks -> PC]

Init ==
    /\ locked = FALSE
    /\ waiters = <<>>
    /\ fut = [t \in Tasks |-> "none"]
    /\ doomed = {}
    /\ pc = [t \in Tasks |-> "idle"]

-----------------------------------------------------------------------------
(* The asyncio.Lock primitives.                                            *)

Queued(t) == \E i \in DOMAIN waiters : waiters[i] = t

Place(t) == CHOOSE i \in DOMAIN waiters : waiters[i] = t

\* self._waiters.remove(fut)
Removed(t) ==
    [i \in 1 .. Len(waiters) - 1 |->
        IF i < Place(t) THEN waiters[i] ELSE waiters[i + 1]]

\* _wake_up_first(): only the head is looked at, and a future that is
\* already done is left alone.
WakeFirst(q, f) ==
    IF q # <<>> /\ f[Head(q)] = "pending"
    THEN [f EXCEPT ![Head(q)] = "woken"]
    ELSE f

\* The condition on which acquire() takes the lock without waiting.
FreeForAll ==
    ~locked /\ \A i \in DOMAIN waiters : fut[waiters[i]] = "cancelled"

-----------------------------------------------------------------------------
(* What tasks do.                                                          *)

\* Once the lock is claimed: sleep out MIN_REQUEST_PAUSE, or send at once
\* when it has already passed.
Enter(t) == \E where \in InSection : pc' = [pc EXCEPT ![t] = where]

\* Mutant: a newcomer takes a free lock although it is promised.
RequestFreeBarging(t) ==
    /\ pc[t] = "idle"
    /\ ~locked
    /\ locked' = TRUE
    /\ Enter(t)
    /\ UNCHANGED <<waiters, fut, doomed>>

\* request() up to its first suspension, lock free: claim it and go on.
RequestFree(t) ==
    /\ pc[t] = "idle"
    /\ FreeForAll
    /\ locked' = TRUE
    /\ Enter(t)
    /\ UNCHANGED <<waiters, fut, doomed>>

\* Mutant: the newcomer is queued at the wrong end.
RequestBusyFirst(t) ==
    /\ pc[t] = "idle"
    /\ ~FreeForAll
    /\ waiters' = <<t>> \o waiters
    /\ fut' = [fut EXCEPT ![t] = "pending"]
    /\ pc' = [pc EXCEPT ![t] = "waiting"]
    /\ UNCHANGED <<locked, doomed>>

\* request() up to its first suspension, lock taken or promised: queue.
RequestBusy(t) ==
    /\ pc[t] = "idle"
    /\ ~FreeForAll
    /\ waiters' = Append(waiters, t)
    /\ fut' = [fut EXCEPT ![t] = "pending"]
    /\ pc' = [pc EXCEPT ![t] = "waiting"]
    /\ UNCHANGED <<locked, doomed>>

\* Mutant: the timeout leaves the future pending in the deque.
InterruptPending(t) ==
    /\ pc[t] = "waiting"
    /\ t \notin doomed
    /\ doomed' = doomed \cup {t}
    /\ UNCHANGED <<locked, waiters, fut, pc>>

\* wait_for's 120 s run out, or the caller is cancelled, while t waits: a
\* pending future is cancelled on the spot, a woken one leaves the task with
\* a cancellation to deliver when it runs.
Interrupt(t) ==
    /\ pc[t] = "waiting"
    /\ t \notin doomed
    /\ doomed' = doomed \cup {t}
    /\ fut' = IF fut[t] = "pending" THEN [fut EXCEPT ![t] = "cancelled"] ELSE fut
    /\ UNCHANGED <<locked, waiters, pc>>

\* A woken task runs: acquire() leaves the deque and claims the lock.
Claim(t) ==
    /\ pc[t] = "waiting"
    /\ fut[t] = "woken"
    /\ t \notin doomed
    /\ waiters' = Removed(t)
    /\ fut' = [fut EXCEPT ![t] = "none"]
    /\ locked' = TRUE
    /\ Enter(t)
    /\ UNCHANGED doomed

\* Mutant: whoever gives up releases a lock it never had.
GiveUpReleasing(t) ==
    /\ pc[t] = "waiting"
    /\ t \in doomed
    /\ waiters' = Removed(t)
    /\ fut' = WakeFirst(Removed(t), [fut EXCEPT ![t] = "none"])
    /\ doomed' = doomed \ {t}
    /\ pc' = [pc EXCEPT ![t] = "idle"]
    /\ locked' = FALSE

\* Mutant: whoever gives up keeps the wake-up to itself.
GiveUpSilently(t) ==
    /\ pc[t] = "waiting"
    /\ t \in doomed
    /\ waiters' = Removed(t)
    /\ fut' = [fut EXCEPT ![t] = "none"]
    /\ doomed' = doomed \ {t}
    /\ pc' = [pc EXCEPT ![t] = "idle"]
    /\ UNCHANGED locked

\* An interrupted task runs: acquire() leaves the deque, passes a wake-up on
\* if the lock is free, and request() raises.
GiveUp(t) ==
    /\ pc[t] = "waiting"
    /\ t \in doomed
    /\ waiters' = Removed(t)
    /\ fut' = LET f == [fut EXCEPT ![t] = "none"]
              IN  IF locked THEN f ELSE WakeFirst(Removed(t), f)
    /\ doomed' = doomed \ {t}
    /\ pc' = [pc EXCEPT ![t] = "idle"]
    /\ UNCHANGED locked

\* The pause is over: the request is counted and the body runs.
PauseOver(t) ==
    /\ pc[t] = "pause"
    /\ pc' = [pc EXCEPT ![t] = "send"]
    /\ UNCHANGED <<locked, waiters, fut, doomed>>

\* Mutant: the flag is lowered and nobody is woken.
ReleaseSilently(t, to) ==
    /\ locked' = FALSE
    /\ pc' = [pc EXCEPT ![t] = to]
    /\ UNCHANGED <<waiters, fut, doomed>>

\* The finally block: lock.release().
Release(t, to) ==
    /\ locked' = FALSE
    /\ fut' = WakeFirst(waiters, fut)
    /\ pc' = [pc EXCEPT ![t] = to]
    /\ UNCHANGED <<waiters, doomed>>

\* The body ends.  A Modbus exchange is over; a REST request has its
\* response headers and reads the body outside the section.
Finish(t) ==
    /\ pc[t] = "send"
    /\ Release(t, IF t \in RestTasks THEN "reading" ELSE "idle")

\* The pause or the body ends with an exception or a cancellation.
Abort(t) ==
    /\ pc[t] \in InSection
    /\ Release(t, "idle")

\* _ScheduledRequest.__aexit__: the response is closed.
CloseResponse(t) ==
    /\ pc[t] = "reading"
    /\ pc' = [pc EXCEPT ![t] = "idle"]
    /\ UNCHANGED <<locked, waiters, fut, doomed>>

Next ==
    \E t \in Tasks :
        \/ RequestFree(t)
        \/ RequestBusy(t)
        \/ Interrupt(t)
        \/ Claim(t)
        \/ GiveUp(t)
        \/ PauseOver(t)
        \/ Finish(t)
        \/ Abort(t)
        \/ CloseResponse(t)

Spec == Init /\ [][Next]_vars

\* A task that can run is run by the event loop, and an exchange with the
\* inverter ends: every Modbus and HTTP call has its own timeout.  Nothing
\* is assumed about requests, cancellations or the 120 s timeout.
Fairness ==
    \A t \in Tasks :
        /\ WF_vars(Claim(t))
        /\ WF_vars(GiveUp(t))
        /\ WF_vars(PauseOver(t))
        /\ WF_vars(Finish(t) \/ Abort(t))

FairSpec == Spec /\ Fairness

-----------------------------------------------------------------------------
(* Properties.                                                             *)

\* "Max 1 request to the inverter at any time": two tasks are never both
\* between acquire and release in request(), whatever timeouts and
\* cancellations do to the tasks around them.
MutualExclusion ==
    \A t, u \in Tasks :
        pc[t] \in InSection /\ pc[u] \in InSection => t = u

\* The lock flag is up exactly while some task is in the section: a timeout
\* that races the wake-up neither leaks the lock nor frees another's.
LockedIffHeld == locked <=> \E t \in Tasks : pc[t] \in InSection

\* A free lock never has a sleeping waiter at its head: whoever is first in
\* the deque has been woken or will, on its way out, wake the next.
NoLostWakeup ==
    ~locked /\ waiters # <<>> => fut[Head(waiters)] # "pending"

\* Every waiting request is eventually served or gives up, without counting
\* on the 120 s timeout: the chain of wake-ups never breaks.
WaitersLeave == \A t \in Tasks : pc[t] = "waiting" ~> pc[t] # "waiting"

-----------------------------------------------------------------------------
(* The inductive invariant behind the three safety properties.             *)

\* A task is in the deque exactly while acquire() suspends it, once.
QueueInv ==
    /\ \A i, j \in DOMAIN waiters : waiters[i] = waiters[j] => i = j
    /\ \A t \in Tasks : pc[t] = "waiting" <=> Queued(t)

\* A future exists exactly while its task waits; only an interrupted task
\* has a cancelled one and an interrupted task never has a pending one.
FutureInv ==
    \A t \in Tasks :
        /\ fut[t] = "none" <=> pc[t] # "waiting"
        /\ t \in doomed => pc[t] = "waiting" /\ fut[t] # "pending"
        /\ fut[t] = "cancelled" => t \in doomed

\* The promise of the lock: it is made only while the lock is free, and only
\* to the head of the deque.
PromiseInv ==
    \A t \in Tasks :
        fut[t] = "woken" => ~locked /\ waiters # <<>> /\ Head(waiters) = t

\* All of it together: what every step of request() and of the lock keeps.
LockInv ==
    /\ TypeOK
    /\ QueueInv
    /\ FutureInv
    /\ PromiseInv
    /\ MutualExclusion
    /\ LockedIffHeld
    /\ NoLostWakeup

-----------------------------------------------------------------------------
(* RequestScheduler as an implementation of FifoGate.                      *)

\* The waiters in good standing.
Waiting == {t \in Tasks : Queued(t) /\ t \notin doomed}

\* t is ahead of u in the deque.
Ahead(t, u) == \E i, j \in DOMAIN waiters : i < j /\ waiters[i] = t /\ waiters[j] = u

Inside == {t \in Tasks : pc[t] \in InSection}
Before == {p \in Waiting \X Waiting : Ahead(p[1], p[2])}

Gate == INSTANCE FifoGate WITH inside <- Inside, waiting <- Waiting, before <- Before

\* "Max 1 request to the inverter at any time (global lock, FIFO order)":
\* seen from its callers, request() is a first-come-first-served gate for
\* one, although the lock is handed over in two steps and a timeout or a
\* cancellation can hit a task between them.
ImplementsGate == Gate!Spec
=============================================================================
