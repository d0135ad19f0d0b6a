----------------------- MODULE RequestSchedulerProofs -----------------------
(***************************************************************************)
(* Mutual exclusion and first come, first served of request(), for any    *)
(* set of tasks.                                                           *)
(***************************************************************************)
EXTENDS RequestScheduler, TLAPS

\* Removing a queued task from a deque without duplicates: the length drops
\* by one, the other tasks keep their order and exactly that task is gone.
LEMMA RemovedFacts ==
    ASSUME waiters \in Seq(Tasks), QueueInv, NEW t \in Tasks, Queued(t)
    PROVE  /\ Place(t) \in DOMAIN waiters
           /\ waiters[Place(t)] = t
           /\ Removed(t) \in Seq(Tasks)
           /\ Len(Removed(t)) = Len(waiters) - 1
           /\ \A i \in DOMAIN Removed(t) :
                 /\ Removed(t)[i] # t
                 /\ i < Place(t) => Removed(t)[i] = waiters[i]
                 /\ ~(i < Place(t)) => Removed(t)[i] = waiters[i + 1]
           /\ \A i, j \in DOMAIN Removed(t) :
                 Removed(t)[i] = Removed(t)[j] => i = j
           /\ \A u \in Tasks \ {t} :
                 Queued(u) <=> \E i \in DOMAIN Removed(t) : Removed(t)[i] = u
<1> DEFINE p == Place(t)
           q == Removed(t)
<1>1. p \in DOMAIN waiters /\ waiters[p] = t
  BY DEF Queued, Place
<1>2. Len(waiters) \in Nat /\ p \in 1 .. Len(waiters)
  BY <1>1
<1>3. q \in Seq(Tasks) /\ Len(q) = Len(waiters) - 1 /\ DOMAIN q = 1 .. Len(waiters) - 1
  BY <1>1, <1>2 DEF Removed
<1>4. ASSUME NEW i \in DOMAIN q
      PROVE  /\ q[i] # t
             /\ i < p => q[i] = waiters[i]
             /\ ~(i < p) => q[i] = waiters[i + 1]
  BY <1>1, <1>2, <1>3 DEF Removed, QueueInv
<1>5. ASSUME NEW i \in DOMAIN q, NEW j \in DOMAIN q, q[i] = q[j]
      PROVE  i = j
  BY <1>2, <1>3, <1>4, <1>5 DEF QueueInv
<1>6. ASSUME NEW u \in Tasks \ {t}
      PROVE  Queued(u) <=> \E i \in DOMAIN q : q[i] = u
  <2>1. ASSUME NEW i \in DOMAIN waiters, waiters[i] = u
        PROVE  \E k \in DOMAIN q : q[k] = u
    <3>1. i # p
      BY <1>1, <2>1
    <3>2. CASE i < p
      BY <1>2, <1>3, <1>4, <2>1, <3>2
    <3>3. CASE i > p
      <4>1. i - 1 \in DOMAIN q /\ ~(i - 1 < p) /\ (i - 1) + 1 = i
        BY <1>2, <1>3, <2>1, <3>3
      <4>2. q[i - 1] = u
        BY <1>4, <2>1, <4>1
      <4> QED BY <4>1, <4>2
    <3> QED BY <1>2, <3>1, <3>2, <3>3
  <2>2. ASSUME NEW i \in DOMAIN q, q[i] = u
        PROVE  \E k \in DOMAIN waiters : waiters[k] = u
    BY <1>2, <1>3, <1>4, <2>2
  <2> QED BY <2>1, <2>2 DEF Queued
<1> QED BY <1>1, <1>3, <1>4, <1>5, <1>6

\* A new scheduler: the lock is free and nobody has asked for it.
LEMMA LockInvInit == Init => LockInv
<1> SUFFICES ASSUME Init PROVE LockInv
  OBVIOUS
<1> USE DEF Init
<1>1. TypeOK
  <2>1. waiters \in Seq(Tasks)
    OBVIOUS
  <2>2. locked \in BOOLEAN /\ doomed \in SUBSET Tasks
    OBVIOUS
  <2>3. fut \in [Tasks -> {"none", "pending", "woken", "cancelled"}]
    OBVIOUS
  <2>4. pc \in [Tasks -> PC]
    BY DEF PC
  <2> QED BY <2>1, <2>2, <2>3, <2>4 DEF TypeOK
<1>2. QueueInv /\ FutureInv /\ PromiseInv
  BY DEF QueueInv, Queued, FutureInv, PromiseInv
<1>3. MutualExclusion /\ LockedIffHeld /\ NoLostWakeup
  BY DEF MutualExclusion, LockedIffHeld, NoLostWakeup, InSection
<1> QED BY <1>1, <1>2, <1>3 DEF LockInv

\* acquire() on a free lock: nobody is promised it, so nobody else claims it.
LEMMA RequestFreeInv ==
    ASSUME LockInv, NEW t \in Tasks, RequestFree(t)
    PROVE  LockInv'
<1> USE DEF RequestFree, Enter, FreeForAll
<1>1. TypeOK'
  BY DEF LockInv, TypeOK, PC
<1>2. \A u \in Tasks : fut[u] # "woken"
  BY DEF LockInv, TypeOK, QueueInv, FutureInv, Queued
<1>3. QueueInv'
  BY DEF LockInv, TypeOK, QueueInv, Queued, InSection
<1>4. FutureInv'
  BY DEF LockInv, TypeOK, FutureInv, InSection
<1>5. PromiseInv'
  BY <1>2 DEF PromiseInv
<1>6. MutualExclusion' /\ LockedIffHeld'
  BY DEF LockInv, TypeOK, MutualExclusion, LockedIffHeld
<1>7. NoLostWakeup'
  BY DEF NoLostWakeup
<1> QED BY <1>1, <1>3, <1>4, <1>5, <1>6, <1>7 DEF LockInv

\* acquire() on a lock that is taken or promised: the newcomer goes last.
LEMMA RequestBusyInv ==
    ASSUME LockInv, NEW t \in Tasks, RequestBusy(t)
    PROVE  LockInv'
<1> USE DEF RequestBusy
<1>0. /\ waiters \in Seq(Tasks)
      /\ Len(waiters') = Len(waiters) + 1
      /\ DOMAIN waiters = 1 .. Len(waiters)
      /\ DOMAIN waiters' = 1 .. Len(waiters) + 1
      /\ \A i \in DOMAIN waiters : waiters'[i] = waiters[i]
      /\ waiters'[Len(waiters) + 1] = t
      /\ waiters # <<>> => Head(waiters') = Head(waiters)
  BY DEF LockInv, TypeOK
<1>1. TypeOK'
  BY DEF LockInv, TypeOK, PC
<1>2. ~Queued(t)
  BY DEF LockInv, QueueInv
<1>3. QueueInv'
  <2>1. ASSUME NEW i \in DOMAIN waiters', NEW j \in DOMAIN waiters',
               waiters'[i] = waiters'[j]
        PROVE  i = j
    BY <1>0, <1>2, <2>1 DEF LockInv, TypeOK, QueueInv, Queued
  <2>2. ASSUME NEW u \in Tasks
        PROVE  Queued(u)' <=> Queued(u) \/ u = t
    BY <1>0 DEF Queued, LockInv, TypeOK
  <2>3. ASSUME NEW u \in Tasks
        PROVE  pc'[u] = "waiting" <=> pc[u] = "waiting" \/ u = t
    BY DEF LockInv, TypeOK
  <2> QED BY <2>1, <2>2, <2>3 DEF LockInv, QueueInv
<1>4. FutureInv'
  BY DEF LockInv, TypeOK, FutureInv
<1>5. PromiseInv'
  BY <1>0 DEF LockInv, TypeOK, PromiseInv
<1>6. MutualExclusion' /\ LockedIffHeld'
  BY DEF LockInv, TypeOK, MutualExclusion, LockedIffHeld, InSection
<1>7. NoLostWakeup'
  <2> SUFFICES ASSUME ~locked PROVE fut'[Head(waiters')] # "pending"
    BY DEF NoLostWakeup
  <2>1. waiters # <<>>
    BY DEF FreeForAll
  <2>2. Head(waiters) \in Tasks /\ Head(waiters) # t
    BY <1>0, <1>2, <2>1 DEF Queued
  <2> QED BY <1>0, <2>1, <2>2 DEF LockInv, TypeOK, NoLostWakeup
<1> QED BY <1>1, <1>3, <1>4, <1>5, <1>6, <1>7 DEF LockInv

\* A timeout or a cancellation never leaves a pending future behind.
LEMMA InterruptInv ==
    ASSUME LockInv, NEW t \in Tasks, Interrupt(t)
    PROVE  LockInv'
<1> USE DEF Interrupt
<1>1. TypeOK'
  BY DEF LockInv, TypeOK
<1>2. QueueInv'
  BY DEF LockInv, QueueInv, Queued
<1>3. FutureInv'
  BY DEF LockInv, TypeOK, FutureInv
<1>4. PromiseInv'
  BY DEF LockInv, TypeOK, PromiseInv
<1>5. MutualExclusion' /\ LockedIffHeld'
  BY DEF LockInv, MutualExclusion, LockedIffHeld
<1>6. NoLostWakeup'
  BY DEF LockInv, TypeOK, NoLostWakeup
<1> QED BY <1>1, <1>2, <1>3, <1>4, <1>5, <1>6 DEF LockInv

\* A woken task claims the lock it was promised: it was the only one.
LEMMA ClaimInv ==
    ASSUME LockInv, NEW t \in Tasks, Claim(t)
    PROVE  LockInv'
<1>0. waiters \in Seq(Tasks) /\ QueueInv /\ Queued(t) /\ waiters' = Removed(t)
  BY DEF LockInv, TypeOK, QueueInv, Claim
<1> USE DEF Enter
<1>1. /\ waiters' \in Seq(Tasks)
      /\ \A i, j \in DOMAIN waiters' : waiters'[i] = waiters'[j] => i = j
      /\ ~Queued(t)'
      /\ \A u \in Tasks \ {t} : Queued(u) <=> Queued(u)'
  BY <1>0, RemovedFacts DEF Queued
<1>2. TypeOK'
  BY <1>1 DEF LockInv, TypeOK, PC, Claim
<1>3. QueueInv'
  BY <1>1 DEF LockInv, TypeOK, QueueInv, InSection, Claim
<1>4. FutureInv'
  BY DEF LockInv, TypeOK, FutureInv, InSection, Claim
<1>5. ~locked /\ \A u \in Tasks : fut[u] = "woken" => u = t
  BY DEF LockInv, PromiseInv, Claim
<1>6. PromiseInv'
  BY <1>5 DEF LockInv, TypeOK, PromiseInv, Claim
<1>7. MutualExclusion' /\ LockedIffHeld'
  BY <1>5 DEF LockInv, TypeOK, MutualExclusion, LockedIffHeld, Claim
<1>8. NoLostWakeup'
  BY DEF NoLostWakeup, Claim
<1> QED BY <1>2, <1>3, <1>4, <1>6, <1>7, <1>8 DEF LockInv

\* An interrupted task leaves; a promise it held moves to the new head.
LEMMA GiveUpInv ==
    ASSUME LockInv, NEW t \in Tasks, GiveUp(t)
    PROVE  LockInv'
<1> DEFINE f == [fut EXCEPT ![t] = "none"]
<1>0. waiters \in Seq(Tasks) /\ QueueInv /\ Queued(t) /\ waiters' = Removed(t)
  BY DEF LockInv, TypeOK, QueueInv, GiveUp
<1>1. /\ waiters' \in Seq(Tasks)
      /\ \A i, j \in DOMAIN waiters' : waiters'[i] = waiters'[j] => i = j
      /\ ~Queued(t)'
      /\ \A u \in Tasks \ {t} : Queued(u) <=> Queued(u)'
  BY <1>0, RemovedFacts DEF Queued
<1>2. waiters' # <<>> => Head(waiters') \in Tasks \ {t} /\ Queued(Head(waiters'))
  BY <1>1 DEF Queued
<1>3. waiters' # <<>> /\ Head(waiters) # t => Head(waiters') = Head(waiters)
  <2> SUFFICES ASSUME waiters' # <<>>, Head(waiters) # t
               PROVE  waiters'[1] = waiters[1]
    BY <1>0, <1>1 DEF Queued
  <2>1. 1 \in DOMAIN waiters'
    BY <1>1
  <2>2. 1 < Place(t)
    BY <1>0, RemovedFacts
  <2> QED BY <1>0, <2>1, <2>2, RemovedFacts
<1>4. /\ f \in [Tasks -> {"none", "pending", "woken", "cancelled"}]
      /\ \A u \in Tasks \ {t} : f[u] = fut[u]
      /\ f[t] = "none"
  BY DEF LockInv, TypeOK
<1>5. /\ fut' \in [Tasks -> {"none", "pending", "woken", "cancelled"}]
      /\ fut'[t] = "none"
      /\ \A u \in Tasks \ {t} :
            \/ fut'[u] = fut[u]
            \/ /\ fut[u] = "pending" /\ fut'[u] = "woken"
               /\ ~locked /\ waiters' # <<>> /\ u = Head(waiters')
      /\ ~locked /\ waiters' # <<>> => fut'[Head(waiters')] # "pending"
  BY <1>2, <1>4 DEF WakeFirst, GiveUp
<1>6. TypeOK'
  BY <1>1, <1>5 DEF LockInv, TypeOK, PC, GiveUp
<1>7. QueueInv'
  BY <1>1 DEF LockInv, TypeOK, QueueInv, GiveUp
<1>8. FutureInv'
  BY <1>5 DEF LockInv, TypeOK, FutureInv, GiveUp
<1>9. PromiseInv'
  <2> SUFFICES ASSUME NEW u \in Tasks, fut'[u] = "woken"
               PROVE  ~locked' /\ waiters' # <<>> /\ Head(waiters') = u
    BY DEF PromiseInv
  <2>1. u # t
    BY <1>5
  <2>2. CASE fut[u] = "woken"
    <3>1. ~locked /\ Head(waiters) = u /\ pc[u] = "waiting"
      BY <2>2 DEF LockInv, TypeOK, PromiseInv, FutureInv
    <3>2. waiters' # <<>>
      BY <1>1, <2>1, <3>1 DEF LockInv, QueueInv, Queued
    <3> QED BY <1>3, <2>1, <3>1, <3>2 DEF GiveUp
  <2> QED BY <1>5, <2>1, <2>2 DEF GiveUp
<1>10. MutualExclusion' /\ LockedIffHeld'
  BY DEF LockInv, TypeOK, MutualExclusion, LockedIffHeld, InSection, GiveUp
<1>11. NoLostWakeup'
  BY <1>5 DEF NoLostWakeup, GiveUp
<1> QED BY <1>6, <1>7, <1>8, <1>9, <1>10, <1>11 DEF LockInv

\* release(): nobody is left in the section and the head, if it sleeps, is
\* the one task that is promised the lock.
LEMMA ReleaseInv ==
    ASSUME LockInv, NEW t \in Tasks, pc[t] \in InSection,
           NEW to \in {"idle", "reading"}, Release(t, to)
    PROVE  LockInv'
<1> USE DEF Release
<1>0. locked /\ \A u \in Tasks : fut[u] # "woken"
  BY DEF LockInv, TypeOK, LockedIffHeld, PromiseInv
<1>1. waiters # <<>> => Head(waiters) \in Tasks
  BY DEF LockInv, TypeOK
<1>2. /\ fut' \in [Tasks -> {"none", "pending", "woken", "cancelled"}]
      /\ \A u \in Tasks :
            \/ fut'[u] = fut[u]
            \/ /\ fut[u] = "pending" /\ fut'[u] = "woken"
               /\ waiters # <<>> /\ u = Head(waiters)
      /\ waiters # <<>> => fut'[Head(waiters)] # "pending"
  BY <1>1 DEF LockInv, TypeOK, WakeFirst
<1>3. TypeOK'
  BY <1>2 DEF LockInv, TypeOK, PC
<1>4. QueueInv'
  BY DEF LockInv, TypeOK, QueueInv, Queued, InSection
<1>5. FutureInv'
  BY <1>2 DEF LockInv, TypeOK, FutureInv, InSection
<1>6. PromiseInv'
  BY <1>0, <1>2 DEF PromiseInv
<1>7. MutualExclusion' /\ LockedIffHeld'
  BY <1>0 DEF LockInv, TypeOK, MutualExclusion, LockedIffHeld, InSection
<1>8. NoLostWakeup'
  BY <1>2 DEF NoLostWakeup
<1> QED BY <1>3, <1>4, <1>5, <1>6, <1>7, <1>8 DEF LockInv

\* Steps that touch neither the lock nor the deque.
LEMMA LocalStepInv ==
    ASSUME LockInv, NEW t \in Tasks, PauseOver(t) \/ CloseResponse(t)
    PROVE  LockInv'
<1> USE DEF PauseOver, CloseResponse
<1>1. TypeOK'
  BY DEF LockInv, TypeOK, PC, InSection
<1>2. QueueInv' /\ FutureInv'
  BY DEF LockInv, TypeOK, QueueInv, Queued, FutureInv
<1>3. PromiseInv' /\ NoLostWakeup'
  BY DEF LockInv, PromiseInv, NoLostWakeup
<1>4. MutualExclusion' /\ LockedIffHeld'
  BY DEF LockInv, TypeOK, MutualExclusion, LockedIffHeld, InSection
<1> QED BY <1>1, <1>2, <1>3, <1>4 DEF LockInv

\* The inductive step: every step of a task preserves the lock invariant.
LEMMA LockInvNext == LockInv /\ [Next]_vars => LockInv'
<1> SUFFICES ASSUME LockInv, [Next]_vars PROVE LockInv'
  OBVIOUS
<1>1. CASE UNCHANGED vars
  BY <1>1 DEF vars, LockInv, TypeOK, QueueInv, Queued, FutureInv, PromiseInv,
              MutualExclusion, LockedIffHeld, NoLostWakeup
<1>2. CASE Next
  <2> PICK t \in Tasks :
        \/ RequestFree(t) \/ RequestBusy(t) \/ Interrupt(t) \/ Claim(t)
        \/ GiveUp(t) \/ PauseOver(t) \/ Finish(t) \/ Abort(t) \/ CloseResponse(t)
    BY <1>2 DEF Next
  <2>1. CASE Finish(t)
    BY <2>1, ReleaseInv DEF Finish, InSection
  <2>2. CASE Abort(t)
    BY <2>2, ReleaseInv DEF Abort
  <2> QED
    BY <2>1, <2>2, RequestFreeInv, RequestBusyInv, InterruptInv, ClaimInv,
       GiveUpInv, LocalStepInv
<1> QED BY <1>1, <1>2

\* The lock invariant holds in every reachable state, for any set of tasks.
THEOREM LockCorrect == Spec => []LockInv
BY LockInvInit, LockInvNext, PTL DEF Spec

\* request(): "Max 1 request to the inverter at any time", for any number of
\* REST and Modbus tasks and any pattern of timeouts and cancellations.
THEOREM AtMostOneRequest == Spec => []MutualExclusion
<1>1. LockInv => MutualExclusion
  BY DEF LockInv
<1> QED BY <1>1, LockCorrect, PTL

\* The lock is never leaked by, nor freed under, a task in the section.
THEOREM LockNeverLeaks == Spec => []LockedIffHeld
<1>1. LockInv => LockedIffHeld
  BY DEF LockInv
<1> QED BY <1>1, LockCorrect, PTL

\* A timeout that races a wake-up never strands the waiters behind it.
THEOREM WakeupNeverLost == Spec => []NoLostWakeup
<1>1. LockInv => NoLostWakeup
  BY DEF LockInv
<1> QED BY <1>1, LockCorrect, PTL

\* Every variable of the scheduler keeps its type.
THEOREM SchedulerTypeCorrect == Spec => []TypeOK
<1>1. LockInv => TypeOK
  BY DEF LockInv
<1> QED BY <1>1, LockCorrect, PTL

-----------------------------------------------------------------------------
(* request() implements FifoGate.                                          *)

\* A step that leaves the gate as it is.
LEMMA GateStutters ==
    ASSUME Inside' = Inside, Waiting' = Waiting,
           \A u, w \in Waiting : Ahead(u, w)' <=> Ahead(u, w)
    PROVE  UNCHANGED Gate!vars
<1>1. Before' = Before
    BY DEF Before
<1> QED BY <1>1 DEF Gate!vars

\* A task that leaves the deque or is doomed in it: the others keep their order.
LEMMA GateDeparts ==
    ASSUME NEW t \in Tasks, t \in Waiting, Waiting' = Waiting \ {t},
           \A u, w \in Waiting' : Ahead(u, w)' <=> Ahead(u, w)
    PROVE  Gate!Departs(t)
<1>1. Before' = Before \cap (Waiting' \X Waiting')
    BY DEF Before
<1> QED BY <1>1 DEF Gate!Departs

\* The deque without t has the others in their order.
LEMMA RemovedOrder ==
    ASSUME LockInv, NEW t \in Tasks, Queued(t), waiters' = Removed(t)
    PROVE  /\ \A u \in Tasks : Queued(u)' <=> Queued(u) /\ u # t
           /\ \A u, w \in Tasks \ {t} : Ahead(u, w)' <=> Ahead(u, w)
<1> DEFINE p == Place(t)
           n == Len(waiters)
           q == Removed(t)
<1>1. /\ p \in 1..n /\ waiters[p] = t /\ n \in Nat /\ DOMAIN waiters = 1..n
      /\ DOMAIN q = 1 .. n - 1
      /\ \A i \in 1 .. n - 1 : /\ q[i] # t
                               /\ i < p => q[i] = waiters[i]
                               /\ ~(i < p) => q[i] = waiters[i + 1]
      /\ \A u \in Tasks \ {t} : Queued(u) <=> \E i \in DOMAIN q : q[i] = u
    BY RemovedFacts DEF LockInv, TypeOK
<1> HIDE DEF p, n, q
<1>2. waiters' = q
    BY DEF q
<1>3. \A u \in Tasks : Queued(u)' <=> Queued(u) /\ u # t
    BY <1>1, <1>2 DEF Queued
<1>4. ASSUME NEW u \in Tasks \ {t}, NEW w \in Tasks \ {t}
      PROVE  Ahead(u, w)' <=> Ahead(u, w)
  <2>1. ASSUME NEW i \in 1 .. n - 1, NEW j \in 1 .. n - 1, i < j, q[i] = u, q[j] = w
        PROVE  Ahead(u, w)
    <3> DEFINE k == IF i < p THEN i ELSE i + 1
               l == IF j < p THEN j ELSE j + 1
    <3>1. k \in 1..n /\ l \in 1..n /\ k < l /\ waiters[k] = u /\ waiters[l] = w
        BY <1>1, <2>1
    <3> QED BY <1>1, <3>1 DEF Ahead
  <2>2. ASSUME NEW i \in 1..n, NEW j \in 1..n, i < j, waiters[i] = u, waiters[j] = w
        PROVE  Ahead(u, w)'
    <3> DEFINE k == IF i < p THEN i ELSE i - 1
               l == IF j < p THEN j ELSE j - 1
    <3>1. i # p /\ j # p
        BY <1>1, <2>2
    <3>2. k \in 1 .. n - 1 /\ l \in 1 .. n - 1 /\ k < l
        BY <1>1, <2>2, <3>1
    <3>3. q[k] = u
      <4>1. CASE i < p
          BY <1>1, <2>2, <3>2, <4>1
      <4>2. CASE i > p
        <5>1. k = i - 1 /\ ~(k < p) /\ k + 1 = i
            BY <1>1, <4>2
        <5> QED BY <1>1, <2>2, <3>2, <5>1
      <4> QED BY <1>1, <3>1, <4>1, <4>2
    <3>4. q[l] = w
      <4>1. CASE j < p
          BY <1>1, <2>2, <3>2, <4>1
      <4>2. CASE j > p
        <5>1. l = j - 1 /\ ~(l < p) /\ l + 1 = j
            BY <1>1, <4>2
        <5> QED BY <1>1, <2>2, <3>2, <5>1
      <4> QED BY <1>1, <3>1, <4>1, <4>2
    <3> QED BY <1>1, <1>2, <3>2, <3>3, <3>4 DEF Ahead
  <2> QED BY <1>1, <1>2, <2>1, <2>2 DEF Ahead
<1> QED BY <1>3, <1>4

\* acquire() on a free lock: everyone queued has given up already.
LEMMA RequestFreeGate ==
    ASSUME LockInv, NEW t \in Tasks, RequestFree(t)
    PROVE  Gate!WalkIn(t)
<1>1. Inside = {}
    BY DEF LockInv, RequestFree, FreeForAll, LockedIffHeld, Inside
<1>2. Waiting = {}
    BY DEF LockInv, TypeOK, FutureInv, RequestFree, FreeForAll, Waiting, Queued
<1>3. Inside' = {t}
  <2>1. \A u \in Tasks : pc'[u] \in InSection <=> pc[u] \in InSection \/ u = t
      BY DEF LockInv, TypeOK, RequestFree, Enter
  <2> QED BY <1>1, <2>1 DEF Inside
<1>4. Waiting' = Waiting /\ Before' = Before
    BY DEF RequestFree, Waiting, Before, Queued, Ahead
<1> QED BY <1>1, <1>2, <1>3, <1>4 DEF Gate!WalkIn

\* acquire() on a lock that is taken or promised: behind everyone.
LEMMA RequestBusyGate ==
    ASSUME LockInv, NEW t \in Tasks, RequestBusy(t)
    PROVE  Gate!Arrive(t)
<1> DEFINE n == Len(waiters)
<1>1. /\ n \in Nat /\ DOMAIN waiters = 1..n /\ DOMAIN waiters' = 1 .. n + 1
      /\ \A i \in 1..n : waiters'[i] = waiters[i] /\ waiters[i] \in Tasks
      /\ waiters'[n + 1] = t
    BY DEF LockInv, TypeOK, RequestBusy
<1> HIDE DEF n
<1>2. pc[t] = "idle" /\ ~Queued(t) /\ t \notin doomed /\ doomed' = doomed
    BY DEF LockInv, QueueInv, FutureInv, RequestBusy
<1>3. Inside' = Inside /\ t \notin Inside
    BY <1>2 DEF LockInv, TypeOK, RequestBusy, Inside, InSection
<1>4. \A u \in Tasks : Queued(u)' <=> Queued(u) \/ u = t
  <2>1. \A i \in 1 .. n + 1 : i \in 1..n \/ i = n + 1
      BY <1>1
  <2>2. \A i \in 1..n : i \in 1 .. n + 1
      BY <1>1
  <2>3. n + 1 \in 1 .. n + 1
      BY <1>1
  <2> QED BY <1>1, <2>1, <2>2, <2>3 DEF Queued
<1>5. Waiting' = Waiting \cup {t} /\ t \notin Waiting
    BY <1>2, <1>4 DEF Waiting
<1>6. ASSUME NEW u \in Waiting, NEW w \in Waiting
      PROVE  Ahead(u, w)' <=> Ahead(u, w)
  <2>1. u # t /\ w # t
      BY <1>5
  <2>2. ASSUME NEW i \in 1 .. n + 1, NEW j \in 1 .. n + 1, i < j, waiters'[i] = u, waiters'[j] = w
        PROVE  Ahead(u, w)
    <3>1. i \in 1..n /\ j \in 1..n
        BY <1>1, <2>1, <2>2
    <3> QED BY <1>1, <2>2, <3>1 DEF Ahead
  <2>3. ASSUME NEW i \in 1..n, NEW j \in 1..n, i < j, waiters[i] = u, waiters[j] = w
        PROVE  Ahead(u, w)'
    <3>1. i \in 1 .. n + 1 /\ j \in 1 .. n + 1
        BY <1>1
    <3> QED BY <1>1, <2>3, <3>1 DEF Ahead
  <2> QED BY <1>1, <2>2, <2>3 DEF Ahead
<1>7. ASSUME NEW u \in Waiting
      PROVE  Ahead(u, t)' /\ ~Ahead(t, u)' 
  <2>1. PICK i \in 1..n : waiters[i] = u
      BY <1>1 DEF Waiting, Queued
  <2>2. i \in 1 .. n + 1 /\ n + 1 \in 1 .. n + 1 /\ i < n + 1 /\ waiters'[i] = u
      BY <1>1, <2>1
  <2>3. Ahead(u, t)'
      BY <1>1, <2>2 DEF Ahead
  <2>4. \A j \in 1 .. n + 1 : waiters'[j] = t => j = n + 1
      BY <1>1, <1>2 DEF Queued
  <2>5. ~Ahead(t, u)'
      BY <1>1, <2>4 DEF Ahead
  <2> QED BY <2>3, <2>5
<1>8. ~Ahead(t, t)'
  <2>1. \A j \in 1 .. n + 1 : waiters'[j] = t => j = n + 1
      BY <1>1, <1>2 DEF Queued
  <2> QED BY <1>1, <2>1 DEF Ahead
<1>9. Before' = Before \cup (Waiting \X {t})
    BY <1>5, <1>6, <1>7, <1>8 DEF Before
<1> QED BY <1>3, <1>5, <1>9 DEF Gate!Arrive

\* A timeout or a cancellation: the task has given up, though it still has to
\* run in order to leave the deque.
LEMMA InterruptGate ==
    ASSUME LockInv, NEW t \in Tasks, Interrupt(t)
    PROVE  Gate!GiveUp(t)
<1>1. t \in Waiting /\ Inside' = Inside
    BY DEF LockInv, QueueInv, Interrupt, Waiting, Inside
<1>2. Waiting' = Waiting \ {t} /\ \A u, w \in Waiting' : Ahead(u, w)' <=> Ahead(u, w)
    BY DEF Interrupt, Waiting, Queued, Ahead
<1>3. Gate!Departs(t)
    BY <1>1, <1>2, GateDeparts
<1> QED BY <1>1, <1>3 DEF Gate!GiveUp

\* A woken task claims the lock: it is the head of the deque.
LEMMA ClaimGate ==
    ASSUME LockInv, NEW t \in Tasks, Claim(t)
    PROVE  Gate!Admit(t)
<1>1. /\ ~locked /\ Head(waiters) = t /\ waiters # <<>> /\ Queued(t) /\ t \notin doomed
      /\ waiters' = Removed(t) /\ doomed' = doomed
    BY DEF LockInv, QueueInv, PromiseInv, Claim
<1>2. Inside = {} /\ t \in Waiting
    BY <1>1 DEF LockInv, LockedIffHeld, Inside, Waiting
<1>3. Inside' = {t}
  <2>1. \A u \in Tasks : pc'[u] \in InSection <=> pc[u] \in InSection \/ u = t
      BY DEF LockInv, TypeOK, Claim, Enter
  <2> QED BY <1>2, <2>1 DEF Inside
<1>4. \A u \in Waiting : <<u, t>> \notin Before
  <2>1. waiters \in Seq(Tasks) /\ waiters[1] = t /\ 1 \in DOMAIN waiters
      BY <1>1 DEF LockInv, TypeOK
  <2>2. \A j \in DOMAIN waiters : waiters[j] = t => j = 1
      BY <2>1 DEF LockInv, QueueInv
  <2>3. ~\E i \in DOMAIN waiters : i < 1
      BY <2>1
  <2>4. \A u \in Waiting : ~Ahead(u, t)
      BY <2>2, <2>3 DEF Ahead
  <2> QED BY <2>4 DEF Before
<1>5. Waiting' = Waiting \ {t} /\ \A u, w \in Waiting' : Ahead(u, w)' <=> Ahead(u, w)
  <2>1. Waiting' = Waiting \ {t}
      BY <1>1, RemovedOrder DEF Waiting
  <2>2. Waiting' \subseteq Tasks \ {t}
      BY <2>1 DEF Waiting
  <2> QED BY <1>1, <2>1, <2>2, RemovedOrder
<1>6. Gate!Departs(t)
    BY <1>2, <1>5, GateDeparts
<1> QED BY <1>2, <1>3, <1>4, <1>6 DEF Gate!Admit

\* A task that gave up leaves the deque: nobody's turn changes.
LEMMA GiveUpGate ==
    ASSUME LockInv, NEW t \in Tasks, GiveUp(t)
    PROVE  UNCHANGED Gate!vars
<1>1. Queued(t) /\ t \in doomed /\ waiters' = Removed(t) /\ doomed' = doomed \ {t}
    BY DEF LockInv, QueueInv, GiveUp
<1>2. Inside' = Inside
    BY DEF LockInv, TypeOK, GiveUp, Inside, InSection
<1>3. Waiting' = Waiting
    BY <1>1, RemovedOrder DEF Waiting
<1>4. Waiting \subseteq Tasks \ {t}
    BY <1>1 DEF Waiting
<1>5. \A u, w \in Waiting : Ahead(u, w)' <=> Ahead(u, w)
    BY <1>1, <1>4, RemovedOrder
<1> QED BY <1>2, <1>3, <1>5, GateStutters

\* The section is left, in any way.
LEMMA ReleaseGate ==
    ASSUME LockInv, NEW t \in Tasks, pc[t] \in InSection, NEW to \in {"idle", "reading"},
           Release(t, to)
    PROVE  Gate!Leave
<1>1. Inside # {} /\ Inside' = {}
    BY DEF LockInv, TypeOK, MutualExclusion, Release, Inside, InSection
<1>2. Waiting' = Waiting /\ Before' = Before
    BY DEF Release, Waiting, Before, Queued, Ahead
<1> QED BY <1>1, <1>2 DEF Gate!Leave

\* Steps outside the gate's sight.
LEMMA LocalStepGate ==
    ASSUME LockInv, NEW t \in Tasks, PauseOver(t) \/ CloseResponse(t)
    PROVE  UNCHANGED Gate!vars
<1>1. Inside' = Inside
    BY DEF LockInv, TypeOK, PauseOver, CloseResponse, Inside, InSection
<1>2. Waiting' = Waiting /\ \A u, w \in Waiting : Ahead(u, w)' <=> Ahead(u, w)
    BY DEF PauseOver, CloseResponse, Waiting, Queued, Ahead
<1> QED BY <1>1, <1>2, GateStutters

LEMMA GateNext ==
    LockInv /\ [Next]_vars => [Gate!Next]_Gate!vars
<1> SUFFICES ASSUME LockInv, [Next]_vars PROVE [Gate!Next]_Gate!vars
  OBVIOUS
<1>1. CASE UNCHANGED vars
  BY <1>1 DEF vars, Gate!vars, Inside, Waiting, Before, Queued, Ahead
<1>2. CASE Next
  <2> PICK t \in Tasks :
        \/ RequestFree(t) \/ RequestBusy(t) \/ Interrupt(t) \/ Claim(t)
        \/ GiveUp(t) \/ PauseOver(t) \/ Finish(t) \/ Abort(t) \/ CloseResponse(t)
    BY <1>2 DEF Next
  <2>1. CASE RequestFree(t) \/ RequestBusy(t) \/ Interrupt(t) \/ Claim(t)
    BY <2>1, RequestFreeGate, RequestBusyGate, InterruptGate, ClaimGate DEF Gate!Next
  <2>2. CASE GiveUp(t) \/ PauseOver(t) \/ CloseResponse(t)
    BY <2>2, GiveUpGate, LocalStepGate
  <2>3. CASE Finish(t)
    BY <2>3, ReleaseGate DEF Finish, InSection, Gate!Next
  <2>4. CASE Abort(t)
    BY <2>4, ReleaseGate DEF Abort, Gate!Next
  <2> QED BY <2>1, <2>2, <2>3, <2>4
<1> QED BY <1>1, <1>2

\* "Max 1 request to the inverter at any time (global lock, FIFO order)":
\* request() is a first-come-first-served gate for one, for any set of tasks.
THEOREM SchedulerIsFifoGate == Spec => ImplementsGate
<1>1. Init => Gate!Init
  BY DEF Init, Gate!Init, Inside, Waiting, Before, Queued, InSection
<1> QED BY <1>1, GateNext, LockCorrect, PTL DEF Spec, ImplementsGate, Gate!Spec
=============================================================================
