----------------------------- MODULE RestProofs ------------------------------
(***************************************************************************)
(* What is proved about the REST side of the integration, for any number   *)
(* of callers, channels and writers and any bounds: the callers of one     *)
(* client share one log-in per cause, the interruption shown is the one of *)
(* the channels in use, and no write over REST does what it may not.       *)
(***************************************************************************)
EXTENDS RestSession, RestHealth, RestWrites, TLAPS

(* The callers of the REST client share one log-in per cause, whatever is  *)
(* lost or runs into its time limit.                                       *)

CallPc == {"idle", "asked", "lock", "again"} \cup LoginSteps

\* Under the lock or in its queue.
Locking == {"lock"} \cup LoginSteps

SessionTypeOK ==
    /\ session_id \in Nat /\ live \in Nat /\ handed \in Nat /\ causes \in Nat
    /\ _key \in BOOLEAN
    /\ login_lock \in Seq(Callers)
    /\ call \in [SessionTasks -> [pc : CallPc, hdr : Nat, failed : Nat]]
    /\ client \in {"none", "up", "logout", "gone"}

\* The lock: a caller is in it once while it waits or logs in, and only its
\* holder logs in.
LoginLockInv ==
    /\ \A i, j \in DOMAIN login_lock : login_lock[i] = login_lock[j] => i = j
    /\ \A t \in Callers : call[t].pc \in Locking <=> \E i \in DOMAIN login_lock : login_lock[i] = t
    /\ \A t \in Callers : call[t].pc \in LoginSteps => Head(login_lock) = t

\* No call knows of a session that was not handed out yet.
KnownSessions ==
    /\ session_id <= handed
    /\ \A t \in Callers : call[t].failed <= handed
    /\ \A t \in Callers : call[t].pc = "asked" => call[t].hdr = call[t].failed

\* Before the set-up has logged in nobody calls, and only then does it log in.
SetupInv ==
    /\ client = "none" => session_id = 0 /\ \A t \in Callers : call[t].pc = "idle"
    /\ client # "none" => session_id # 0 /\ call[SetupTask].pc = "idle"
    /\ call[SetupTask].pc \in {"idle"} \cup LoginSteps

\* A cause that no log-in has answered yet.
Unanswered == handed <= causes

\* Where a log-in may follow there is such a cause: no session was received,
\* the client's is not the inverter's, or a caller was refused with the
\* client's.  A client that has logged out has no password to log in with.
CauseInv ==
    /\ handed <= causes + 1
    /\ client = "none" => Unanswered
    /\ live # session_id => Unanswered \/ ~_key
    /\ \A t \in Callers :
          /\ call[t].pc = "lock" /\ call[t].failed = session_id => Unanswered \/ ~_key
          /\ call[t].pc = "start" => call[t].failed = session_id /\ (Unanswered \/ ~_key)
          /\ call[t].pc \in {"finish", "create"} => call[t].failed = session_id /\ Unanswered
    /\ client \in {"logout", "gone"} => ~_key

SessionInv == SessionTypeOK /\ LoginLockInv /\ KnownSessions /\ SetupInv /\ CauseInv

-----------------------------------------------------------------------------

\* Taking a task out of the lock leaves the order of the others.
LEMMA WithoutFacts ==
    ASSUME SessionTypeOK, LoginLockInv, NEW t \in SessionTasks
    PROVE  /\ WithoutTask(t) \in Seq(Callers)
           /\ \A i, j \in DOMAIN WithoutTask(t) : WithoutTask(t)[i] = WithoutTask(t)[j] => i = j
           /\ \A u \in Callers : (\E i \in DOMAIN WithoutTask(t) : WithoutTask(t)[i] = u)
                                 <=> (u # t /\ \E i \in DOMAIN login_lock : login_lock[i] = u)
           /\ \A u \in Callers \ {t} : Head(login_lock) = u
                    /\ (\E i \in DOMAIN login_lock : login_lock[i] = u)
                 => Head(WithoutTask(t)) = u
<1> DEFINE q == WithoutTask(t)
           n == Len(login_lock)
<1>1. n \in Nat /\ DOMAIN login_lock = 1..n /\ login_lock \in Seq(Callers)
    BY DEF SessionTypeOK
<1>2. CASE \E i \in DOMAIN login_lock : login_lock[i] = t
  <2>1. PICK p \in 1..n : login_lock[p] = t /\ p = CHOOSE i \in DOMAIN login_lock : login_lock[i] = t
      BY <1>1, <1>2
  <2>2. q = [i \in 1 .. n - 1 |-> IF i < p THEN login_lock[i] ELSE login_lock[i + 1]]
      BY <1>2, <2>1 DEF WithoutTask
  <2>3. q \in Seq(Callers) /\ Len(q) = n - 1 /\ DOMAIN q = 1 .. n - 1
      BY <1>1, <2>1, <2>2
  <2>4. \A i \in 1 .. n - 1 : /\ i < p => q[i] = login_lock[i]
                              /\ ~(i < p) => q[i] = login_lock[i + 1]
                              /\ q[i] # t
      BY <1>1, <2>1, <2>2 DEF LoginLockInv
  <2> HIDE DEF q
  <2> HIDE DEF n
  <2>5. ASSUME NEW i \in DOMAIN q, NEW j \in DOMAIN q, q[i] = q[j]
        PROVE  i = j
    <3>1. i \in 1 .. n - 1 /\ j \in 1 .. n - 1 /\ i \in Nat /\ j \in Nat
        BY <1>1, <2>3
    <3> DEFINE k == IF i < p THEN i ELSE i + 1
               l == IF j < p THEN j ELSE j + 1
    <3>2. k \in 1..n /\ l \in 1..n /\ login_lock[k] = q[i] /\ login_lock[l] = q[j]
        BY <1>1, <2>1, <2>4, <3>1
    <3>3. k = l
        BY <1>1, <3>2, <2>5 DEF LoginLockInv
    <3> QED BY <1>1, <2>1, <3>1, <3>3
  <2>6. ASSUME NEW u \in Callers
        PROVE  (\E i \in DOMAIN q : q[i] = u)
               <=> (u # t /\ \E i \in DOMAIN login_lock : login_lock[i] = u)
    <3>1. ASSUME NEW i \in DOMAIN q, q[i] = u
          PROVE  u # t /\ \E j \in DOMAIN login_lock : login_lock[j] = u
      <4>1. i \in 1 .. n - 1 /\ i \in 1..n /\ i + 1 \in 1..n
          BY <1>1, <2>3
      <4> QED BY <1>1, <2>4, <3>1, <4>1
    <3>2. ASSUME NEW i \in DOMAIN login_lock, login_lock[i] = u, u # t
          PROVE  \E j \in DOMAIN q : q[j] = u
      <4>1. i # p
          BY <2>1, <3>2
      <4>2. CASE i < p
          BY <1>1, <2>1, <2>3, <2>4, <3>2, <4>2
      <4>3. CASE i > p
        <5>1. i - 1 \in 1 .. n - 1 /\ ~(i - 1 < p) /\ (i - 1) + 1 = i
            BY <1>1, <2>1, <4>3
        <5>2. q[i - 1] = u
            BY <2>4, <3>2, <5>1
        <5> QED BY <2>3, <5>1, <5>2
      <4> QED BY <1>1, <2>1, <4>1, <4>2, <4>3
    <3> QED BY <3>1, <3>2
  <2>7. ASSUME NEW u \in Callers \ {t}, Head(login_lock) = u,
               \E i \in DOMAIN login_lock : login_lock[i] = u
        PROVE  Head(q) = u
    <3>1. n > 0 /\ login_lock[1] = u /\ p # 1
        BY <1>1, <2>1, <2>7
    <3>2. 1 \in 1 .. n - 1 /\ 1 < p /\ q[1] = u /\ q # <<>>
        BY <1>1, <2>1, <2>3, <2>4, <3>1
    <3> QED BY <2>3, <3>2
  <2> QED BY <2>3, <2>5, <2>6, <2>7 DEF q
<1>3. CASE ~\E i \in DOMAIN login_lock : login_lock[i] = t
  <2>1. q = login_lock
      BY <1>3 DEF WithoutTask
  <2> QED BY <2>1, <1>1, <1>3 DEF LoginLockInv
<1> QED BY <1>2, <1>3

\* A call that leaves, with whatever result, gives the lock back.
LEMMA LeavesLock ==
    ASSUME SessionTypeOK, LoginLockInv, NEW t \in SessionTasks, CallLeaves(t)
    PROVE  /\ login_lock' \in Seq(Callers)
           /\ call' \in [SessionTasks -> [pc : CallPc, hdr : Nat, failed : Nat]]
           /\ LoginLockInv'
<1>1. call' = [call EXCEPT ![t] = NoCall] /\ login_lock' = WithoutTask(t)
    BY DEF CallLeaves, CallGoes
<1>2. /\ NoCall \in [pc : CallPc, hdr : Nat, failed : Nat]
      /\ NoCall.pc \notin Locking /\ NoCall.pc \notin LoginSteps
    BY DEF NoCall, CallAt, CallPc, Locking, LoginSteps
<1>3. call' \in [SessionTasks -> [pc : CallPc, hdr : Nat, failed : Nat]]
    BY <1>1, <1>2 DEF SessionTypeOK
<1>4. \A u \in Callers : call'[u] = IF u = t THEN NoCall ELSE call[u]
    BY <1>1 DEF SessionTypeOK, SessionTasks
<1>5. \A u \in Callers : call'[u].pc \in Locking
                         <=> \E i \in DOMAIN login_lock' : login_lock'[i] = u
    BY <1>1, <1>2, <1>4, WithoutFacts DEF LoginLockInv
<1>6. \A u \in Callers : call'[u].pc \in LoginSteps => Head(login_lock') = u
  <2> SUFFICES ASSUME NEW u \in Callers, call'[u].pc \in LoginSteps
               PROVE  Head(login_lock') = u
      OBVIOUS
  <2>1. u # t /\ call[u].pc \in LoginSteps /\ call[u].pc \in Locking
      BY <1>2, <1>4 DEF Locking
  <2> QED BY <1>1, <2>1, WithoutFacts DEF LoginLockInv
<1> QED BY <1>1, <1>3, <1>5, <1>6, WithoutFacts DEF LoginLockInv

\* A step that leaves the queue of the lock as it is.
LEMMA SameLock ==
    ASSUME SessionTypeOK, LoginLockInv, login_lock' = login_lock,
           \A u \in Callers : call'[u].pc \in Locking <=> call[u].pc \in Locking,
           \A u \in Callers : call'[u].pc \in LoginSteps =>
                                 call[u].pc \in LoginSteps \/ Head(login_lock) = u
    PROVE  LoginLockInv'
BY DEF LoginLockInv

\* The holder passes the lock on.
LEMMA PassedOn ==
    ASSUME SessionTypeOK, LoginLockInv, NEW t \in Callers, NEW c \in [pc : CallPc, hdr : Nat, failed : Nat],
           Head(login_lock) = t, call[t].pc \in Locking, c.pc \notin Locking,
           call' = [call EXCEPT ![t] = c], login_lock' = Tail(login_lock)
    PROVE  login_lock' \in Seq(Callers) /\ LoginLockInv'
<1> DEFINE q == login_lock
           n == Len(login_lock)
           r == Tail(login_lock)
<1>1. q # <<>>
    BY DEF LoginLockInv
<1>2. n \in Nat \ {0} /\ DOMAIN q = 1..n /\ q[1] = t
    BY <1>1 DEF SessionTypeOK
<1>3. r \in Seq(Callers) /\ DOMAIN r = 1 .. n - 1 /\ \A i \in 1 .. n - 1 : r[i] = q[i + 1]
    BY <1>1, <1>2 DEF SessionTypeOK
<1>4. \A u \in Callers : call'[u] = IF u = t THEN c ELSE call[u]
    BY DEF SessionTypeOK, SessionTasks
<1> HIDE DEF n
<1>5. ASSUME NEW i \in DOMAIN r, NEW j \in DOMAIN r, r[i] = r[j]
      PROVE  i = j
  <2>1. i \in Nat /\ j \in Nat /\ i + 1 \in 1..n /\ j + 1 \in 1..n /\ q[i + 1] = q[j + 1]
      BY <1>2, <1>3, <1>5
  <2>2. i + 1 = j + 1
      BY <1>2, <2>1 DEF LoginLockInv
  <2> QED BY <2>1, <2>2
<1>6. ASSUME NEW u \in Callers
      PROVE  (\E i \in DOMAIN r : r[i] = u) <=> (u # t /\ \E i \in DOMAIN q : q[i] = u)
  <2>1. ASSUME NEW i \in DOMAIN r, r[i] = u
        PROVE  u # t /\ \E j \in DOMAIN q : q[j] = u
    <3>1. i \in Nat /\ i + 1 \in 1..n /\ 1 \in 1..n /\ i + 1 # 1 /\ q[i + 1] = u
        BY <1>2, <1>3, <2>1
    <3> QED BY <1>2, <3>1 DEF LoginLockInv
  <2>2. ASSUME NEW i \in DOMAIN q, q[i] = u, u # t
        PROVE  \E j \in DOMAIN r : r[j] = u
    <3>1. i - 1 \in 1 .. n - 1 /\ (i - 1) + 1 = i
        BY <1>2, <2>2
    <3> QED BY <1>3, <2>2, <3>1
  <2> QED BY <2>1, <2>2
<1>7. \A u \in Callers : call'[u].pc \in Locking <=> \E i \in DOMAIN r : r[i] = u
    BY <1>4, <1>6 DEF LoginLockInv
<1>8. \A u \in Callers : call'[u].pc \notin LoginSteps
    BY <1>4 DEF LoginLockInv, Locking
<1> QED BY <1>3, <1>5, <1>7, <1>8 DEF LoginLockInv

-----------------------------------------------------------------------------

\* A call is made, refused, or at its turn under the lock.
LEMMA RequestSteps ==
    ASSUME SessionInv, NEW t \in Callers,
           CallRequest(t) \/ NotAuthorized(t) \/ LoginLocked(t)
    PROVE  SessionInv'
<1> USE DEF SessionInv
<1>1. /\ t \in SessionTasks /\ t # SetupTask /\ SetupTask \in SessionTasks /\ client # "none"
      /\ call[t] \in [pc : CallPc, hdr : Nat, failed : Nat]
    BY SetupIsNoCaller DEF SessionTasks, SessionTypeOK, CallRequest, NotAuthorized, LoginLocked, SetupInv
<1>2. CASE CallRequest(t)
  <2> DEFINE c == CallAt("asked", session_id, session_id)
  <2>1. /\ c \in [pc : CallPc, hdr : Nat, failed : Nat]
        /\ c.pc = "asked" /\ c.hdr = session_id /\ c.failed = session_id
      BY DEF CallAt, CallPc, SessionTypeOK
  <2>2. /\ call' = [call EXCEPT ![t] = c] /\ call[t].pc = "idle"
        /\ UNCHANGED <<session_id, _key, live, handed, causes, login_lock, client>>
      BY <1>2 DEF CallRequest, CallGoes
  <2> HIDE DEF c
  <2>3. SessionTypeOK'
      BY <1>1, <2>1, <2>2 DEF SessionTypeOK
  <2>4. \A u \in SessionTasks : call'[u] = IF u = t THEN c ELSE call[u]
      BY <2>2 DEF SessionTypeOK
  <2>5. LoginLockInv'
    <3>1. \A u \in Callers : (call'[u].pc \in Locking <=> call[u].pc \in Locking)
                             /\ (call'[u].pc \in LoginSteps => call[u].pc \in LoginSteps)
        BY <2>1, <2>2, <2>4 DEF SessionTasks, Locking, LoginSteps
    <3> QED BY <2>2, <3>1, SameLock
  <2>6. KnownSessions' /\ SetupInv' /\ CauseInv'
      BY <1>1, <2>1, <2>2, <2>4 DEF KnownSessions, SetupInv, CauseInv, Unanswered, SessionTasks, LoginSteps
  <2> QED BY <2>3, <2>5, <2>6
<1>3. CASE NotAuthorized(t)
  <2> DEFINE c == [call[t] EXCEPT !.pc = "lock"]
  <2>1. /\ c \in [pc : CallPc, hdr : Nat, failed : Nat]
        /\ c.pc = "lock" /\ c.failed = call[t].failed
      BY <1>1 DEF CallPc
  <2>2. /\ call' = [call EXCEPT ![t] = c] /\ call[t].pc = "asked" /\ call[t].hdr = call[t].failed
        /\ login_lock' = Append(login_lock, t)
        /\ \/ ~Honoured(t) /\ causes' = causes
           \/ Honoured(t) /\ causes' = causes + 1
        /\ UNCHANGED <<session_id, _key, live, handed, client>>
      BY <1>3 DEF NotAuthorized, CallGoes, KnownSessions
  <2> HIDE DEF c
  <2>3. SessionTypeOK'
      BY <1>1, <2>1, <2>2 DEF SessionTypeOK
  <2>4. \A u \in SessionTasks : call'[u] = IF u = t THEN c ELSE call[u]
      BY <2>2 DEF SessionTypeOK
  <2>5. LoginLockInv'
    <3>1. login_lock \in Seq(Callers) /\ ~\E i \in DOMAIN login_lock : login_lock[i] = t
        BY <2>2 DEF SessionTypeOK, LoginLockInv, Locking, LoginSteps
    <3>2. \A i, j \in DOMAIN login_lock' : login_lock'[i] = login_lock'[j] => i = j
        BY <2>2, <3>1 DEF LoginLockInv
    <3>3. \A u \in Callers : (\E i \in DOMAIN login_lock' : login_lock'[i] = u)
                             <=> (u = t \/ \E i \in DOMAIN login_lock : login_lock[i] = u)
      <4> DEFINE n == Len(login_lock)
      <4>1. /\ n \in Nat /\ DOMAIN login_lock = 1..n /\ DOMAIN login_lock' = 1 .. n + 1
            /\ login_lock'[n + 1] = t /\ \A i \in 1..n : login_lock'[i] = login_lock[i]
          BY <2>2, <3>1
      <4> HIDE DEF n
      <4>2. 1 .. n + 1 = 1..n \cup {n + 1}
          BY <4>1
      <4> QED BY <4>1, <4>2
    <3>4. \A u \in Callers : call'[u].pc \in Locking
                             <=> \E i \in DOMAIN login_lock' : login_lock'[i] = u
        BY <2>1, <2>4, <3>3 DEF LoginLockInv, SessionTasks, Locking
    <3>5. \A u \in Callers : call'[u].pc \in LoginSteps => Head(login_lock') = u
      <4> SUFFICES ASSUME NEW u \in Callers, call'[u].pc \in LoginSteps
                   PROVE  Head(login_lock') = u
          OBVIOUS
      <4>1. call[u].pc \in LoginSteps /\ call[u].pc \in Locking
          BY <2>1, <2>4 DEF SessionTasks, LoginSteps, Locking
      <4>2. Head(login_lock) = u /\ login_lock # <<>>
          BY <4>1 DEF LoginLockInv
      <4> QED BY <2>2, <3>1, <4>2
    <3> QED BY <3>2, <3>4, <3>5 DEF LoginLockInv
  <2>6. KnownSessions' /\ SetupInv'
      BY <1>1, <2>1, <2>2, <2>4 DEF KnownSessions, SetupInv, SessionTasks, LoginSteps
  <2>7. call[t].failed = session_id => Unanswered' \/ ~_key
    <3>1. CASE Honoured(t) /\ causes' = causes + 1
        BY <2>2, <3>1 DEF CauseInv, Unanswered, SessionTypeOK
    <3>2. CASE ~Honoured(t) /\ causes' = causes
        BY <1>1, <2>2, <3>2 DEF Honoured, CauseInv, Unanswered, SetupInv
    <3> QED BY <2>2, <3>1, <3>2
  <2>8. Unanswered => Unanswered'
      BY <2>2 DEF Unanswered, SessionTypeOK
  <2>9. CauseInv'
    <3>1. handed' <= causes' + 1
        BY <2>2 DEF CauseInv, SessionTypeOK
    <3> QED BY <1>1, <2>1, <2>2, <2>4, <2>7, <2>8, <3>1 DEF CauseInv, SessionTasks, LoginSteps
  <2> QED BY <2>3, <2>5, <2>6, <2>9
<1>4. CASE LoginLocked(t) /\ ReloginNeeded(t)
  <2> DEFINE c == [call[t] EXCEPT !.pc = "start"]
  <2>1. /\ c \in [pc : CallPc, hdr : Nat, failed : Nat]
        /\ c.pc = "start" /\ c.failed = session_id
      BY <1>1, <1>4 DEF CallPc, LoginSteps, ReloginNeeded
  <2>2. /\ call' = [call EXCEPT ![t] = c] /\ call[t].pc = "lock" /\ Head(login_lock) = t
        /\ call[t].failed = session_id
        /\ UNCHANGED <<session_id, _key, live, handed, causes, login_lock, client>>
      BY <1>4 DEF LoginLocked, CallGoes, ReloginNeeded
  <2> HIDE DEF c
  <2>3. SessionTypeOK'
      BY <1>1, <2>1, <2>2 DEF SessionTypeOK
  <2>4. \A u \in SessionTasks : call'[u] = IF u = t THEN c ELSE call[u]
      BY <2>2 DEF SessionTypeOK
  <2>5. LoginLockInv'
    <3>1. \A u \in Callers : /\ call'[u].pc \in Locking <=> call[u].pc \in Locking
                             /\ call'[u].pc \in LoginSteps =>
                                   call[u].pc \in LoginSteps \/ Head(login_lock) = u
        BY <2>1, <2>2, <2>4 DEF SessionTasks, Locking, LoginSteps
    <3> QED BY <2>2, <3>1, SameLock
  <2>6. KnownSessions' /\ SetupInv' /\ CauseInv'
      BY <1>1, <2>1, <2>2, <2>4 DEF KnownSessions, SetupInv, CauseInv, Unanswered, SessionTypeOK, SessionTasks, LoginSteps
  <2> QED BY <2>3, <2>5, <2>6
<1>5. CASE LoginLocked(t) /\ ~ReloginNeeded(t)
  <2> DEFINE c == CallAt("again", session_id, 0)
  <2>1. /\ c \in [pc : CallPc, hdr : Nat, failed : Nat]
        /\ c.pc = "again" /\ c.failed = 0
      BY DEF CallAt, CallPc, SessionTypeOK
  <2>2. /\ call' = [call EXCEPT ![t] = c] /\ call[t].pc = "lock" /\ Head(login_lock) = t
        /\ login_lock' = Tail(login_lock)
        /\ UNCHANGED <<session_id, _key, live, handed, causes, client>>
      BY <1>5 DEF LoginLocked, CallGoes
  <2> HIDE DEF c
  <2>3. login_lock' \in Seq(Callers) /\ LoginLockInv'
    <3>1. c.pc \notin Locking /\ call[t].pc \in Locking
        BY <2>1, <2>2 DEF Locking, LoginSteps
    <3> QED BY <2>1, <2>2, <3>1, PassedOn
  <2>4. SessionTypeOK'
      BY <1>1, <2>1, <2>2, <2>3 DEF SessionTypeOK
  <2>5. \A u \in SessionTasks : call'[u] = IF u = t THEN c ELSE call[u]
      BY <2>2 DEF SessionTypeOK
  <2>6. KnownSessions' /\ SetupInv' /\ CauseInv'
      BY <1>1, <2>1, <2>2, <2>5 DEF KnownSessions, SetupInv, CauseInv, Unanswered, SessionTypeOK, SessionTasks, LoginSteps
  <2> QED BY <2>3, <2>4, <2>6
<1> QED BY <1>2, <1>3, <1>4, <1>5

\* Every exit of a call.  A session that was handed out and not received is a
\* cause of its own; it is asked for only where a cause was there already.
LEMMA ExitSteps ==
    ASSUME SessionInv, NEW t \in SessionTasks, CallLeaves(t), UNCHANGED <<session_id, client>>,
           _key' \in BOOLEAN, _key' => _key,
           \/ UNCHANGED <<live, handed, causes>>
           \/ /\ call[t].pc = "create" /\ handed' = handed + 1 /\ live' = handed'
              /\ causes' = causes + 1
    PROVE  SessionInv'
<1> USE DEF SessionInv
<1>1. /\ login_lock' \in Seq(Callers) /\ LoginLockInv'
      /\ call' \in [SessionTasks -> [pc : CallPc, hdr : Nat, failed : Nat]]
    BY LeavesLock
<1>2. SessionTypeOK'
    BY <1>1 DEF SessionTypeOK
<1>3. \A u \in SessionTasks : /\ u # t => call'[u] = call[u]
                              /\ u = t => call'[u].pc = "idle" /\ call'[u].failed = 0
    BY DEF CallLeaves, CallGoes, NoCall, CallAt, SessionTypeOK
<1>4. SetupTask \in SessionTasks /\ \A u \in Callers : u \in SessionTasks
    BY DEF SessionTasks
<1>5. SetupInv'
    BY <1>3, <1>4 DEF SetupInv
<1>6. KnownSessions'
  <2>1. handed \in Nat /\ handed' \in Nat /\ handed <= handed' /\ session_id \in Nat
      BY DEF SessionTypeOK
  <2>2. ASSUME NEW u \in Callers
        PROVE  call'[u].failed <= handed' /\ (call'[u].pc = "asked" => call'[u].hdr = call'[u].failed)
    <3>1. call[u].failed \in Nat /\ call[u].failed <= handed
        BY <1>4 DEF SessionTypeOK, KnownSessions
    <3>2. call[u].pc = "asked" => call[u].hdr = call[u].failed
        BY DEF KnownSessions
    <3> QED BY <1>3, <1>4, <2>1, <3>1, <3>2
  <2> QED BY <2>1, <2>2 DEF KnownSessions
<1>7. Unanswered => Unanswered'
    BY DEF Unanswered, SessionTypeOK
<1>8. call[t].pc = "create" => Unanswered
    BY DEF CauseInv, SetupInv, SessionTasks, LoginSteps
<1>9. CauseInv'
  <2>1. handed' <= causes' + 1
      BY DEF CauseInv, SessionTypeOK
  <2>2. live' # session_id => Unanswered' \/ ~_key'
      BY <1>7, <1>8 DEF CauseInv
  <2> QED BY <1>3, <1>4, <1>7, <2>1, <2>2 DEF CauseInv
<1> QED BY <1>1, <1>2, <1>5, <1>6, <1>9

\* The exchanges of a log-in.
LEMMA LoginStepsKeep ==
    ASSUME SessionInv, NEW t \in SessionTasks,
           (LoginStarted(t) /\ _key) \/ LoginFinished(t)
    PROVE  SessionInv'
<1> USE DEF SessionInv
<1> DEFINE next == IF call[t].pc = "start" THEN "finish" ELSE "create"
           c == [call[t] EXCEPT !.pc = next]
<1>1. /\ call' = [call EXCEPT ![t] = c] /\ call[t].pc \in {"start", "finish"}
      /\ call[t].pc = "start" => _key
      /\ UNCHANGED <<session_id, _key, live, handed, causes, login_lock, client>>
    BY DEF LoginStarted, LoginFinished, CallGoes
<1>2. /\ c \in [pc : CallPc, hdr : Nat, failed : Nat]
      /\ c.pc \in {"finish", "create"} /\ c.failed = call[t].failed
    BY DEF SessionTypeOK, CallPc, LoginSteps
<1> HIDE DEF c
<1>3. SessionTypeOK'
    BY <1>1, <1>2 DEF SessionTypeOK
<1>4. /\ \A u \in SessionTasks : call'[u] = IF u = t THEN c ELSE call[u]
      /\ SetupTask \in SessionTasks /\ \A u \in Callers : u \in SessionTasks
    BY <1>1 DEF SessionTypeOK, SessionTasks
<1>5. LoginLockInv'
  <2>1. \A u \in Callers : (call'[u].pc \in Locking <=> call[u].pc \in Locking)
                           /\ (call'[u].pc \in LoginSteps => call[u].pc \in LoginSteps)
      BY <1>1, <1>2, <1>4 DEF Locking, LoginSteps
  <2> QED BY <1>1, <2>1, SameLock
<1>6. KnownSessions' /\ SetupInv'
    BY <1>1, <1>2, <1>4 DEF KnownSessions, SetupInv, LoginSteps
<1>7. CauseInv'
    BY <1>1, <1>2, <1>4 DEF CauseInv, Unanswered
<1> QED BY <1>3, <1>5, <1>6, <1>7

\* A session is received: it answers the cause, and nobody who waits was
\* refused with it.
LEMMA CreatedKeeps ==
    ASSUME SessionInv, NEW t \in SessionTasks, SessionCreated(t)
    PROVE  SessionInv'
<1> USE DEF SessionInv
<1>1. /\ call[t].pc = "create" /\ handed' = handed + 1 /\ live' = handed' /\ session_id' = handed'
      /\ _key' = _key /\ causes' = causes
    BY DEF SessionCreated, NewSession
<1>2. Unanswered
    BY <1>1 DEF CauseInv, SetupInv, SessionTasks, LoginSteps
<1>3. SetupTask \in SessionTasks /\ \A u \in Callers : u \in SessionTasks /\ u # SetupTask
    BY SetupIsNoCaller DEF SessionTasks
<1>4. handed' <= causes' + 1
    BY <1>1, <1>2 DEF Unanswered, SessionTypeOK
<1>5. CASE t = SetupTask
  <2>1. CallLeaves(t) /\ client' = "up"
      BY <1>5 DEF SessionCreated
  <2>2. /\ login_lock' \in Seq(Callers) /\ LoginLockInv'
        /\ call' \in [SessionTasks -> [pc : CallPc, hdr : Nat, failed : Nat]]
      BY <2>1, LeavesLock
  <2>3. /\ call'[SetupTask].pc = "idle"
        /\ \A u \in Callers : call'[u] = call[u] /\ call[u].pc = "idle"
    <3>1. client = "none"
        BY <1>1, <1>5 DEF SetupInv
    <3> QED BY <1>3, <1>5, <2>1, <3>1 DEF CallLeaves, CallGoes, NoCall, CallAt, SessionTypeOK, SetupInv
  <2>4. SessionTypeOK' /\ SetupInv'
    <3>1. SessionTypeOK'
        BY <1>1, <2>1, <2>2 DEF SessionTypeOK
    <3>2. handed + 1 # 0
        BY DEF SessionTypeOK
    <3> QED BY <1>1, <2>1, <2>3, <3>1, <3>2 DEF SetupInv
  <2>6. KnownSessions'
    <3>1. \A u \in Callers : call[u].failed \in Nat /\ call[u].failed <= handed /\ handed \in Nat
        BY <1>3 DEF SessionTypeOK, KnownSessions
    <3> QED BY <1>1, <2>3, <2>4, <3>1 DEF KnownSessions, SessionTypeOK
  <2>5. CauseInv'
      BY <1>1, <1>4, <2>1, <2>3 DEF CauseInv
  <2> QED BY <2>2, <2>4, <2>5, <2>6
<1>6. CASE t # SetupTask
  <2> DEFINE c == CallAt("again", session_id', 0)
  <2>1. c \in [pc : CallPc, hdr : Nat, failed : Nat] /\ c.pc = "again" /\ c.failed = 0
      BY <1>1 DEF CallAt, CallPc, SessionTypeOK
  <2>2. /\ t \in Callers /\ call' = [call EXCEPT ![t] = c] /\ login_lock' = Tail(login_lock)
        /\ client' = client
      BY <1>6 DEF SessionCreated, CallGoes, SessionTasks
  <2> HIDE DEF c
  <2>3. call[t].pc \in Locking /\ call[t].pc \in LoginSteps /\ c.pc \notin Locking
      BY <1>1, <2>1 DEF Locking, LoginSteps
  <2>4. Head(login_lock) = t
      BY <2>2, <2>3 DEF LoginLockInv
  <2>5. login_lock' \in Seq(Callers) /\ LoginLockInv'
      BY <2>1, <2>2, <2>3, <2>4, PassedOn
  <2>6. SessionTypeOK'
      BY <1>1, <2>1, <2>2, <2>5 DEF SessionTypeOK
  <2>7. \A u \in SessionTasks : call'[u] = IF u = t THEN c ELSE call[u]
      BY <2>2 DEF SessionTypeOK
  <2>8. client # "none" /\ client' # "none"
      BY <2>2, <1>1 DEF SetupInv
  <2>9. SetupInv' /\ KnownSessions'
      BY <1>1, <1>3, <1>6, <2>1, <2>2, <2>7, <2>8 DEF SetupInv, KnownSessions, SessionTypeOK
  <2>10. \A u \in Callers : call'[u].pc \in {"idle", "asked", "again"}
                            \/ (call'[u].pc = "lock" /\ call'[u].failed < session_id')
    <3>1. \A u \in Callers : u # t => call[u].pc \notin LoginSteps
        BY <2>4 DEF LoginLockInv
    <3> QED BY <1>1, <1>3, <2>1, <2>7, <3>1 DEF KnownSessions, SessionTypeOK, CallPc
  <2>11. CauseInv'
    <3>1. \A u \in Callers : ~(call'[u].pc = "lock" /\ call'[u].failed = session_id')
      <4>1. \A u \in Callers : call'[u].failed \in Nat /\ session_id' \in Nat
          BY <2>6, <1>3 DEF SessionTypeOK
      <4> QED BY <2>10, <4>1
    <3>2. \A u \in Callers : call'[u].pc \notin {"start", "finish", "create"}
        BY <2>10
    <3> QED BY <1>1, <1>4, <2>2, <2>8, <3>1, <3>2 DEF CauseInv
  <2> QED BY <2>5, <2>6, <2>9, <2>11
<1> QED BY <1>5, <1>6

\* The set-up asks for its session; a session ends; the client logs out.
LEMMA OutsideSteps ==
    ASSUME SessionInv, SetupLogin \/ SessionEnds \/ Logout \/ LoggedOut
    PROVE  SessionInv'
<1> USE DEF SessionInv
<1>1. CASE SetupLogin
  <2> DEFINE c == CallAt("start", 0, 0)
  <2>1. c \in [pc : CallPc, hdr : Nat, failed : Nat] /\ c.pc = "start"
      BY DEF CallAt, CallPc, LoginSteps
  <2>2. /\ call' = [call EXCEPT ![SetupTask] = c] /\ client = "none" /\ _key' = TRUE
        /\ UNCHANGED <<session_id, live, handed, causes, login_lock, client>>
      BY <1>1 DEF SetupLogin, CallGoes
  <2> HIDE DEF c
  <2>3. SetupTask \in SessionTasks /\ \A u \in Callers : u \in SessionTasks /\ u # SetupTask
      BY SetupIsNoCaller DEF SessionTasks
  <2>4. \A u \in Callers : call'[u] = call[u] /\ call[u].pc = "idle"
      BY <2>2, <2>3 DEF SessionTypeOK, SetupInv
  <2>5. SessionTypeOK' /\ SetupInv' /\ KnownSessions'
      BY <2>1, <2>2, <2>3, <2>4 DEF SessionTypeOK, SetupInv, KnownSessions, LoginSteps
  <2>6. LoginLockInv'
      BY <2>2, <2>4, SameLock
  <2>7. CauseInv'
      BY <2>2, <2>4 DEF CauseInv, Unanswered
  <2> QED BY <2>5, <2>6, <2>7
<1>2. CASE SessionEnds
  <2>1. /\ live' = 0 /\ causes' = causes + 1
        /\ UNCHANGED <<session_id, _key, handed, login_lock, call, client>>
      BY <1>2 DEF SessionEnds
  <2>2. SessionTypeOK' /\ LoginLockInv' /\ KnownSessions' /\ SetupInv'
      BY <2>1 DEF SessionTypeOK, LoginLockInv, KnownSessions, SetupInv
  <2>3. Unanswered' /\ handed' <= causes' + 1
      BY <2>1 DEF CauseInv, Unanswered, SessionTypeOK
  <2> QED BY <2>1, <2>2, <2>3 DEF CauseInv
<1>3. CASE Logout \/ LoggedOut
  <2>1. /\ live' \in {live, 0} /\ _key' = FALSE /\ client # "none" /\ client' \in {"logout", "gone"}
        /\ UNCHANGED <<session_id, handed, causes, login_lock, call>>
      BY <1>3 DEF Logout, LoggedOut, CauseInv, SessionTypeOK
  <2>2. SessionTypeOK'
    <3>1. _key' \in BOOLEAN
        BY <2>1
    <3> QED BY <2>1, <3>1 DEF SessionTypeOK
  <2>3. LoginLockInv' /\ KnownSessions' /\ SetupInv'
      BY <2>1 DEF LoginLockInv, KnownSessions, SetupInv
  <2> QED BY <2>1, <2>2, <2>3 DEF CauseInv, Unanswered
<1> QED BY <1>1, <1>2, <1>3

LEMMA SessionInductive ==
    SessionInv /\ [SessionNext]_sessionVars => SessionInv'
<1> SUFFICES ASSUME SessionInv, [SessionNext]_sessionVars
             PROVE  SessionInv'
    OBVIOUS
<1>1. CASE UNCHANGED sessionVars
    BY <1>1 DEF sessionVars, SessionInv, SessionTypeOK, LoginLockInv, KnownSessions, SetupInv,
                CauseInv, Unanswered
<1>2. ASSUME NEW t \in Callers, CallRequest(t)
      PROVE  SessionInv'
    BY <1>2, RequestSteps
<1>3. ASSUME NEW t \in SessionTasks, CallerStep(t) \/ CallTimeLimit(t)
      PROVE  SessionInv'
  <2>1. _key \in BOOLEAN
      BY DEF SessionInv, SessionTypeOK
  <2>2. CASE NotAuthorized(t) \/ LoginLocked(t)
    <3>1. t \in Callers
        BY <2>2 DEF NotAuthorized, LoginLocked, SessionTasks, SessionInv, SetupInv, LoginSteps
    <3> QED BY <2>2, <3>1, RequestSteps
  <2>3. CASE CallReplied(t) \/ CallRepliedAgain(t)
      BY <2>1, <2>3, ExitSteps DEF CallReplied, CallRepliedAgain
  <2>4. CASE LoginStarted(t) /\ ~_key
      BY <2>1, <2>4, ExitSteps DEF LoginStarted
  <2>5. CASE (LoginStarted(t) /\ _key) \/ LoginFinished(t)
      BY <2>5, LoginStepsKeep
  <2>6. CASE SessionCreated(t)
      BY <2>6, CreatedKeeps
  <2>7. CASE LoginFailed(t) \/ CallTimeLimit(t)
      BY <2>1, <2>7, ExitSteps DEF LoginFailed, CallTimeLimit, NewSession
  <2> QED BY <1>3, <2>1, <2>2, <2>3, <2>4, <2>5, <2>6, <2>7 DEF CallerStep
<1>4. CASE SetupLogin \/ SessionEnds \/ Logout \/ LoggedOut
    BY <1>4, OutsideSteps
<1> QED BY <1>1, <1>2, <1>3, <1>4 DEF SessionNext

\* However many callers meet the end of a session, and whichever of them are
\* cut off on their way, no more sessions are asked for than there were causes
\* besides the one of the set-up, and only the holder of the lock logs in
\* (_relogin in api.py).
THEOREM LoginsAreShared == SessionSpec => []OneLoginPerCause
<1>1. SessionInit => SessionInv
  <2> SUFFICES ASSUME SessionInit
               PROVE  SessionInv
      OBVIOUS
  <2> USE DEF SessionInit
  <2>1. NoCall \in [pc : CallPc, hdr : Nat, failed : Nat]
        /\ NoCall.pc = "idle" /\ NoCall.failed = 0
      BY DEF NoCall, CallAt, CallPc
  <2>2. \A u \in SessionTasks : call[u] = NoCall
      OBVIOUS
  <2>3. SetupTask \in SessionTasks /\ \A u \in Callers : u \in SessionTasks
      BY DEF SessionTasks
  <2>4. SessionTypeOK
    <3>1. _key \in BOOLEAN
        OBVIOUS
    <3>2. login_lock \in Seq(Callers)
        OBVIOUS
    <3> QED BY <2>1, <3>1, <3>2 DEF SessionTypeOK
  <2>5. LoginLockInv
      BY <2>1, <2>2, <2>3 DEF LoginLockInv, Locking, LoginSteps
  <2>6. KnownSessions /\ SetupInv /\ CauseInv
      BY <2>1, <2>2, <2>3 DEF KnownSessions, SetupInv, CauseInv, Unanswered
  <2> QED BY <2>4, <2>5, <2>6 DEF SessionInv
<1>2. SessionInv => OneLoginPerCause
    BY DEF SessionInv, CauseInv, LoginLockInv, OneLoginPerCause
<1> QED BY <1>1, <1>2, SessionInductive, PTL DEF SessionSpec

-----------------------------------------------------------------------------
(* The interruption shown is the one of the channels in use.               *)

HealthTypeOK ==
    /\ chan \in [Channels -> {"absent", "untested", "good", "bad"}]
    /\ stopped \in [Channels -> BOOLEAN]

HealthInv == HealthTypeOK /\ ChannelsTrue

\* What the user is shown of the channels ch: shown while one fails, withdrawn
\* when set-up is over (done), Home Assistant runs on and every channel has answered.
Shown(ch, faults, done, halt) ==
    /\ (\E c \in Channels : ch[c] = "bad") => faults
    /\ (done /\ ~halt /\ \A c \in Channels : ch[c] \in {"good", "absent"}) => ~faults

-----------------------------------------------------------------------------

\* An observation is what is shown afterwards.
LEMMA ObserveShows ==
    ASSUME NEW faulty \in BOOLEAN, Observe(faulty)
    PROVE  comm.faults' = faulty
BY DEF Observe, Comm

\* A notice says what the channels are, or nothing had to be said.
LEMMA PublishShows ==
    ASSUME NEW ch \in [Channels -> {"absent", "untested", "good", "bad"}], NEW done, NEW halt,
           Publish(ch, done, halt)
    PROVE  Shown(ch, comm.faults', done, halt)
<1>1. CASE \E c \in Channels : ch[c] = "bad"
  <2>1. Observe(TRUE)
      BY <1>1 DEF Publish
  <2> QED BY <1>1, <2>1, ObserveShows DEF Shown
<1>2. CASE /\ ~\E c \in Channels : ch[c] = "bad"
           /\ (\E c \in Channels : ch[c] = "untested") \/ ~done \/ halt
    BY <1>2 DEF Shown
<1>3. CASE /\ ~\E c \in Channels : ch[c] = "bad"
           /\ ~((\E c \in Channels : ch[c] = "untested") \/ ~done \/ halt)
  <2>1. Observe(FALSE)
      BY <1>3 DEF Publish
  <2> QED BY <1>3, <2>1, ObserveShows DEF Shown
<1> QED BY <1>1, <1>2, <1>3

\* A report of one channel: only that channel changes, and a channel that has
\* left can only be reported as gone.
LEMMA ReportKeeps ==
    ASSUME HealthInv, NEW c \in Channels, NEW value \in {"absent", "good", "bad"},
           ReportAs(c, value), stopped'[c] => value = "absent",
           stopped' \in [Channels -> BOOLEAN], \A d \in Channels \ {c} : stopped'[d] = stopped[d],
           UNCHANGED <<setupStep, unloading, stopping>>
    PROVE  HealthInv'
<1>1. chan' = [chan EXCEPT ![c] = value]
    BY DEF ReportAs
<1>2. HealthTypeOK'
    BY <1>1 DEF HealthInv, HealthTypeOK
<1>3. NoGhostChannel'
    BY <1>1 DEF HealthInv, HealthTypeOK, ChannelsTrue, NoGhostChannel
<1>4. InterruptionShown'
  <2>1. CASE value = "absent" /\ chan[c] = "absent"
    <3>1. chan' = chan /\ comm' = comm
        BY <2>1, <1>1 DEF HealthInv, HealthTypeOK, ReportAs
    <3> QED BY <3>1 DEF HealthInv, ChannelsTrue, InterruptionShown, setupDone
  <2>2. CASE ~(value = "absent" /\ chan[c] = "absent")
    <3>1. Publish(chan', setupDone, stopping)
        BY <2>2 DEF ReportAs
    <3>2. Shown(chan', comm.faults', setupDone, stopping)
        BY <1>2, <3>1, PublishShows DEF HealthTypeOK
    <3> QED BY <3>2 DEF Shown, InterruptionShown, setupDone
  <2> QED BY <2>1, <2>2
<1> QED BY <1>2, <1>3, <1>4 DEF HealthInv, ChannelsTrue

\* A step that touches neither the channels nor what is shown of them.
LEMMA HealthKept ==
    ASSUME HealthInv, UNCHANGED <<chan, stopped, comm>>,
           setupDone' /\ ~stopping' => setupDone /\ ~stopping
    PROVE  HealthInv'
BY DEF HealthInv, HealthTypeOK, ChannelsTrue, InterruptionShown, NoGhostChannel

\* Whatever a request reports at its end, and however late.
LEMMA ReportSteps ==
    ASSUME HealthInv, NEW c \in Channels, NEW ok \in BOOLEAN,
           \/ Cleanup(c) \/ PollEnds(c, ok) \/ PollEmpty(c) \/ FinishOne(c) \/ ShutdownOne(c)
    PROVE  HealthInv'
<1>1. UNCHANGED <<setupStep, unloading, stopping>>
    BY DEF Cleanup, PollEnds, PollEmpty, FinishOne, ShutdownOne
<1>2. stopped \in [Channels -> BOOLEAN]
    BY DEF HealthInv, HealthTypeOK
<1>3. ASSUME stopped' = stopped, UNCHANGED <<chan, comm>>
      PROVE  HealthInv'
    BY <1>3, <1>1, HealthKept DEF setupDone
<1>4. ASSUME stopped' = stopped, NEW value \in {"absent", "good", "bad"}, ReportAs(c, value),
             stopped[c] => value = "absent"
      PROVE  HealthInv'
    BY <1>4, <1>1, <1>2, ReportKeeps
<1>5. ASSUME stopped' = stopped, NEW force, Release(c, force)
      PROVE  HealthInv'
    BY <1>5, <1>3, <1>4 DEF Release
<1>6. ASSUME stopped' = stopped, NEW healthy, ReportResult(c, healthy)
      PROVE  HealthInv'
  <2>1. CASE demand[c] > 0 /\ ~stopped[c]
      BY <2>1, <1>6, <1>4 DEF ReportResult
  <2>2. CASE ~(demand[c] > 0 /\ ~stopped[c])
      BY <2>2, <1>6, <1>5 DEF ReportResult
  <2> QED BY <2>1, <2>2
<1>7. CASE Cleanup(c)
    BY <1>7, <1>5 DEF Cleanup
<1>8. CASE PollEnds(c, ok) \/ PollEmpty(c)
    BY <1>8, <1>6 DEF PollEnds, PollEmpty
<1>9. CASE FinishOne(c)
    BY <1>9, <1>3, <1>4 DEF FinishOne
<1>10. CASE ShutdownOne(c)
  <2>1. /\ stopped' = [stopped EXCEPT ![c] = TRUE] /\ ReportAs(c, "absent")
      BY <1>10 DEF ShutdownOne
  <2> QED BY <2>1, <1>1, <1>2, ReportKeeps
<1> QED BY <1>7, <1>8, <1>9, <1>10

LEMMA HealthInductive ==
    HealthInv /\ [HealthNext]_healthVars => HealthInv'
<1> SUFFICES ASSUME HealthInv, [HealthNext]_healthVars
             PROVE  HealthInv'
    OBVIOUS
<1>1. CASE UNCHANGED healthVars
    BY <1>1, HealthKept DEF healthVars, setupDone
<1>2. ASSUME NEW c \in Channels, StartFetch(c) \/ StopFetch(c) \/ PollBegins(c)
      PROVE  HealthInv'
    BY <1>2, HealthKept DEF StartFetch, StopFetch, PollBegins, setupDone
<1>3. ASSUME NEW c \in Channels,
             Cleanup(c) \/ PollEmpty(c) \/ (\E ok \in BOOLEAN : PollEnds(c, ok))
                \/ FinishOne(c) \/ ShutdownOne(c)
      PROVE  HealthInv'
    BY <1>3, ReportSteps
<1>4. CASE FinishSetup \/ NextDay \/ \E halt \in BOOLEAN : Unload(halt)
    BY <1>4, HealthKept DEF FinishSetup, NextDay, Unload, setupDone
<1>5. CASE SetupFinished
  <2>1. /\ chan' = chan /\ stopped' = stopped /\ Publish(chan, ~unloading, stopping)
        /\ unloading' = unloading /\ stopping' = stopping
      BY <1>5 DEF SetupFinished
  <2>2. Shown(chan, comm.faults', ~unloading, stopping)
      BY <2>1, PublishShows DEF HealthInv, HealthTypeOK
  <2> QED BY <2>1, <2>2 DEF Shown, HealthInv, HealthTypeOK, ChannelsTrue, InterruptionShown,
                            NoGhostChannel, setupDone
<1>6. CASE Restart
    BY <1>6 DEF Restart, HealthInv, HealthTypeOK, ChannelsTrue, InterruptionShown,
                NoGhostChannel, setupDone
<1> QED BY <1>1, <1>2, <1>3, <1>4, <1>5, <1>6 DEF HealthNext

\* However late a request reports, and whichever channels come and go in
\* between, the interruption shown is the one of the channels in use, and no
\* channel comes back that was shut down (async_report_rest_communication,
\* _report_rest_result).
THEOREM InterruptionIsTrue == HealthSpec => []ChannelsTrue
<1>1. HealthInit => HealthInv
    BY DEF HealthInit, HealthInv, HealthTypeOK, ChannelsTrue, InterruptionShown, NoGhostChannel,
           setupDone
<1>2. HealthInv => ChannelsTrue
    BY DEF HealthInv
<1> QED BY <1>1, <1>2, HealthInductive, PTL DEF HealthSpec

-----------------------------------------------------------------------------
(* No write over REST does what it may not.                                *)

SettingNames == {"limit", "on", "off"}

Places == {"idle", "preread", "write", "verify", "refresh"}

Writings == [pc : Places, id : SettingNames \cup {"none"}, val : Nat]

\* The values are numbers, and only calls write thresholds.
WriteTypes ==
    /\ setting \in [limit : Nat, on : Nat, off : Nat]
    /\ write \in [Writers -> Writings]
    /\ \A w \in Writers : write[w].pc # "idle" => write[w].id \in SettingNames
    /\ write[KeepaliveTask].id \notin Thresholds
    /\ keepalive.val \in Nat
    /\ armed \in BOOLEAN /\ careful \in BOOLEAN

\* As long as every write knew the other threshold and none ran beside it, one
\* writer at most has a threshold in hand, and what it sends keeps them apart.
ThresholdInv ==
    careful =>
        /\ setting.off < setting.on
        /\ \A u, w \in Writers :
              write[u].id \in Thresholds /\ write[w].id \in Thresholds => u = w
        /\ \A w \in Writers : write[w].pc = "write" =>
              /\ write[w].id = "on" => setting.off < write[w].val
              /\ write[w].id = "off" => write[w].val < setting.on

\* Without arming, a write of the limit that can still reach the inverter is
\* one of those that were under way when the arming was withdrawn.
ArmInv ==
    ~armed => \A w \in Writers :
        write[w].id = "limit" /\ write[w].pc \in {"preread", "write"} => w \in late

WriteInv == WriteTypes /\ ThresholdInv /\ ArmInv

\* What a step of the writes may do.
SafeStep == ThresholdsApart' /\ LockedMeansLocked /\ OnlyConfirmedRepeated

-----------------------------------------------------------------------------

\* A write replaces one of the settings.
LEMMA SettingReplaced ==
  ASSUME setting \in [limit : Nat, on : Nat, off : Nat], NEW id \in SettingNames, NEW v \in Nat,
         NEW new, new = [setting EXCEPT ![id] = v]
  PROVE  /\ new \in [limit : Nat, on : Nat, off : Nat]
         /\ new.limit = IF id = "limit" THEN v ELSE setting.limit
         /\ new.on = IF id = "on" THEN v ELSE setting.on
         /\ new.off = IF id = "off" THEN v ELSE setting.off
  <1>1. CASE id = "limit"
    BY <1>1
  <1>2. CASE id = "on"
    BY <1>2
  <1>3. CASE id = "off"
    BY <1>3
  <1> QED
    BY <1>1, <1>2, <1>3 DEF SettingNames

\* Writer w goes on with r while the arming stays.  It may write its own
\* setting; r is under the rules of the invariant, the others are not touched.
LEMMA WriterMoves ==
  ASSUME WriteInv, NEW w \in Writers, NEW r \in Writings,
         write' = [write EXCEPT ![w] = r],
         UNCHANGED armed,
         setting' \in [limit : Nat, on : Nat, off : Nat],
         keepalive'.val \in Nat,
         r.pc # "idle" => r.id \in SettingNames,
         w = KeepaliveTask => r.id \notin Thresholds,
         careful' \in BOOLEAN, careful' => careful,
         \/ setting'.on = setting.on /\ setting'.off = setting.off
         \/ write[w].id \in Thresholds /\ r.pc # "write" /\ (careful' => setting'.off < setting'.on),
         careful' /\ r.id \in Thresholds => \A u \in Writers \ {w} : write[u].id \notin Thresholds,
         careful' /\ r.pc = "write" =>
            /\ r.id = "on" => setting'.off < r.val
            /\ r.id = "off" => r.val < setting'.on,
         late' \in {late, late \ {w}},
         ~armed /\ r.id = "limit" /\ r.pc \in {"preread", "write"} => w \in late',
         OnlyConfirmedRepeated \/ r.pc # "refresh"
  PROVE  WriteInv' /\ ThresholdsApart' /\ OnlyConfirmedRepeated
  <1>1. write'[w] = r /\ \A u \in Writers : u # w => write'[u] = write[u]
    BY DEF WriteInv, WriteTypes
  <1>2. write' \in [Writers -> Writings]
    BY DEF WriteInv, WriteTypes
  <1>3. KeepaliveTask \in Writers
    BY DEF Writers
  <1>4. WriteTypes'
    BY <1>1, <1>2, <1>3 DEF WriteInv, WriteTypes
  <1>5. ASSUME careful' PROVE setting'.off < setting'.on
    BY <1>5 DEF WriteInv, ThresholdInv
  <1>6. ASSUME careful', NEW u \in Writers, NEW x \in Writers,
               write'[u].id \in Thresholds, write'[x].id \in Thresholds
        PROVE  u = x
    BY <1>1, <1>6 DEF WriteInv, ThresholdInv
  <1>7. ASSUME careful', NEW u \in Writers, write'[u].pc = "write"
        PROVE  /\ write'[u].id = "on" => setting'.off < write'[u].val
               /\ write'[u].id = "off" => write'[u].val < setting'.on
    <2>1. CASE u = w
      BY <1>1, <1>7, <2>1
    <2>2. CASE u # w /\ setting'.on = setting.on /\ setting'.off = setting.off
      BY <1>1, <1>7, <2>2 DEF WriteInv, ThresholdInv
    <2>3. CASE u # w /\ write[w].id \in Thresholds
      <3>1. write[u].id \notin Thresholds
        BY <1>7, <2>3 DEF WriteInv, ThresholdInv
      <3> QED
        BY <1>1, <2>3, <3>1 DEF Thresholds
    <2> QED
      BY <2>1, <2>2, <2>3
  <1>8. ThresholdInv'
    BY <1>5, <1>6, <1>7 DEF ThresholdInv
  <1>9. ArmInv'
    BY <1>1 DEF WriteInv, ArmInv
  <1>10. OnlyConfirmedRepeated
    BY <1>1 DEF OnlyConfirmedRepeated, Writers
  <1> QED
    BY <1>4, <1>5, <1>8, <1>9, <1>10 DEF WriteInv, ThresholdsApart

\* Writer w with the same setting and value at another place.
LEMMA PlaceChanged ==
  ASSUME WriteInv, NEW w \in Writers, NEW pc \in Places, NEW r, r = [write[w] EXCEPT !.pc = pc]
  PROVE  r \in Writings /\ r.pc = pc /\ r.id = write[w].id /\ r.val = write[w].val
  <1>1. write[w] \in Writings
    BY DEF WriteInv, WriteTypes
  <1> QED
    BY <1>1 DEF Writings

\* A writer that is done.
LEMMA NoWriteIsWriting ==
  NoWrite \in Writings /\ NoWrite.pc = "idle" /\ NoWrite.id = "none"
  BY DEF NoWrite, Writing, Writings, Places

\* async_write_data returns or raises: the write is over, or awaits its refresh.
LEMMA WriteOver ==
  ASSUME WriteInv, NEW w \in Writers, NEW ok \in BOOLEAN, WriteLeaves(w, ok),
         write[w].pc # "idle", UNCHANGED <<armed, careful>>,
         setting' \in [limit : Nat, on : Nat, off : Nat],
         \/ setting'.on = setting.on /\ setting'.off = setting.off
         \/ write[w].id \in Thresholds /\ (careful => setting'.off < setting'.on),
         OnlyConfirmedRepeated \/ ~ok
  PROVE  WriteInv' /\ ThresholdsApart' /\ OnlyConfirmedRepeated
  <1> DEFINE r == IF ok /\ w # KeepaliveTask THEN [write[w] EXCEPT !.pc = "refresh"] ELSE NoWrite
  <1>1. write' = [write EXCEPT ![w] = r] /\ late' = late \ {w}
    BY DEF WriteLeaves, WriteGoes
  <1>2. keepalive'.val \in Nat
    BY DEF WriteLeaves, KeepaliveAfter, NoLease, WriteInv, WriteTypes
  <1>3. \/ r = NoWrite
        \/ /\ ok /\ r \in Writings /\ r.pc = "refresh" /\ r.id = write[w].id
           /\ w # KeepaliveTask
    BY PlaceChanged DEF Places
  <1>4. /\ r \in Writings /\ r.pc \in {"idle", "refresh"} /\ r.id \in {"none", write[w].id}
        /\ r.pc # "idle" => r.id \in SettingNames
        /\ w = KeepaliveTask => r.id \notin Thresholds
    BY <1>3, NoWriteIsWriting DEF WriteInv, WriteTypes, Thresholds
  <1>5. careful \in BOOLEAN
    BY DEF WriteInv, WriteTypes
  <1>6. careful /\ r.id \in Thresholds => \A u \in Writers \ {w} : write[u].id \notin Thresholds
    BY <1>4 DEF WriteInv, ThresholdInv, Thresholds
  <1>7. OnlyConfirmedRepeated \/ r.pc # "refresh"
    BY <1>3, NoWriteIsWriting
  <1> HIDE DEF r
  <1> QED
    BY <1>1, <1>2, <1>4, <1>5, <1>6, <1>7, WriterMoves

\* What writer w sends keeps the thresholds apart, as far as it knew them, and
\* changes the limit only when it may.
LEMMA ValueArrives ==
  ASSUME WriteInv, NEW w \in Writers, write[w].pc = "write",
         setting' \in {setting, [setting EXCEPT ![write[w].id] = write[w].val]}
  PROVE  /\ setting' \in [limit : Nat, on : Nat, off : Nat]
         /\ \/ setting'.on = setting.on /\ setting'.off = setting.off
            \/ write[w].id \in Thresholds /\ (careful => setting'.off < setting'.on)
         /\ LockedMeansLocked
  <1>1. write[w] \in Writings /\ write[w].id \in SettingNames
    BY DEF WriteInv, WriteTypes
  <1>2. write[w].val \in Nat
    BY <1>1 DEF Writings
  <1>3. setting \in [limit : Nat, on : Nat, off : Nat]
    BY DEF WriteInv, WriteTypes
  <1>4. CASE setting' = setting
    BY <1>3, <1>4 DEF LockedMeansLocked
  <1>5. CASE setting' = [setting EXCEPT ![write[w].id] = write[w].val]
    <2> DEFINE id == write[w].id  v == write[w].val
    <2>1. /\ setting' \in [limit : Nat, on : Nat, off : Nat]
          /\ setting'.limit = IF id = "limit" THEN v ELSE setting.limit
          /\ setting'.on = IF id = "on" THEN v ELSE setting.on
          /\ setting'.off = IF id = "off" THEN v ELSE setting.off
      BY <1>1, <1>2, <1>3, <1>5, SettingReplaced
    <2>2. careful => /\ id = "on" => setting.off < v
                     /\ id = "off" => v < setting.on
      BY DEF WriteInv, ThresholdInv
    <2>3. id = "limit" => armed \/ w \in late
      BY DEF WriteInv, ArmInv
    <2>4. LockedMeansLocked
      BY <2>1, <2>3 DEF LockedMeansLocked
    <2>5. \/ setting'.on = setting.on /\ setting'.off = setting.off
          \/ id \in Thresholds /\ (careful => setting'.off < setting'.on)
      <3>1. CASE id = "on"
        BY <2>1, <2>2, <3>1 DEF Thresholds
      <3>2. CASE id = "off"
        BY <2>1, <2>2, <3>2 DEF Thresholds
      <3>3. CASE id = "limit"
        BY <2>1, <3>3
      <3> QED
        BY <1>1, <3>1, <3>2, <3>3 DEF SettingNames
    <2> QED
      BY <2>1, <2>4, <2>5
  <1> QED
    BY <1>4, <1>5

-----------------------------------------------------------------------------
(* The steps of async_write_data and of the entity around it.              *)

\* The values of now are read: the new one is refused, or goes out.
LEMMA PreReadSafe ==
  ASSUME WriteInv, NEW w \in Writers, PreRead(w)
  PROVE  WriteInv' /\ SafeStep
  <1> DEFINE id == write[w].id
  <1>1. /\ write[w].pc = "preread" /\ UNCHANGED <<setting, armed, keepalive, late>>
    BY DEF PreRead
  <1>2. PICK pre : /\ pre \in {IF id \in Thresholds THEN setting[Partner(id)] ELSE 0}
                              \cup IF "preread" \in WriteFaults THEN {0} ELSE {}
                   /\ IF validate_cross_field_write_rules(id, write[w].val, pre)
                      THEN WriteGoes(w, [write[w] EXCEPT !.pc = "write"])
                      ELSE WriteGoes(w, NoWrite)
                   /\ careful' = (careful /\ (id \in Thresholds => pre # 0))
    BY DEF PreRead
  <1>3. careful' \in BOOLEAN /\ (careful' => careful)
    BY <1>2 DEF WriteInv, WriteTypes
  <1>4. setting \in [limit : Nat, on : Nat, off : Nat] /\ keepalive.val \in Nat
    BY DEF WriteInv, WriteTypes
  <1>5. LockedMeansLocked
    BY <1>1 DEF LockedMeansLocked
  <1>6. CASE write' = [write EXCEPT ![w] = NoWrite]
    BY <1>1, <1>3, <1>4, <1>5, <1>6, NoWriteIsWriting, WriterMoves DEF SafeStep, Thresholds
  <1>7. CASE /\ validate_cross_field_write_rules(id, write[w].val, pre)
             /\ write' = [write EXCEPT ![w] = [write[w] EXCEPT !.pc = "write"]]
    <2> DEFINE r == [write[w] EXCEPT !.pc = "write"]
    <2>1. r \in Writings /\ r.pc = "write" /\ r.id = id /\ r.val = write[w].val
      BY PlaceChanged DEF Places
    <2>2. id \in SettingNames /\ (w = KeepaliveTask => id \notin Thresholds)
      BY <1>1 DEF WriteInv, WriteTypes
    <2>3. ASSUME careful' PROVE /\ id = "on" => setting.off < r.val
                                /\ id = "off" => r.val < setting.on
      <3>1. ASSUME id = "on" PROVE setting.off < r.val
        <4>1. pre # 0 /\ pre = setting.off
          BY <1>2, <2>3, <3>1 DEF Thresholds, Partner
        <4>2. write[w].val > pre
          BY <1>7, <3>1, <4>1 DEF validate_cross_field_write_rules, Thresholds
        <4> QED
          BY <2>1, <4>1, <4>2, <1>4 DEF Writings
      <3>2. ASSUME id = "off" PROVE r.val < setting.on
        <4>1. pre # 0 /\ pre = setting.on
          BY <1>2, <2>3, <3>2 DEF Thresholds, Partner
        <4>2. write[w].val < pre
          BY <1>7, <3>2, <4>1 DEF validate_cross_field_write_rules, Thresholds
        <4> QED
          BY <2>1, <4>1, <4>2, <1>4
      <3> QED
        BY <3>1, <3>2
    <2>4. careful /\ id \in Thresholds => \A u \in Writers \ {w} : write[u].id \notin Thresholds
      BY DEF WriteInv, ThresholdInv
    <2>5. ~armed /\ id = "limit" => w \in late
      BY <1>1 DEF WriteInv, ArmInv
    <2>6. write' = [write EXCEPT ![w] = r]
      BY <1>7
    <2> HIDE DEF r
    <2> QED
      BY <1>1, <1>3, <1>4, <1>5, <2>1, <2>2, <2>3, <2>4, <2>5, <2>6, WriterMoves DEF SafeStep
  <1> QED
    BY <1>2, <1>6, <1>7 DEF WriteGoes

\* The value goes out and is answered.
LEMMA WriteOutSafe ==
  ASSUME WriteInv, NEW w \in Writers, WriteOut(w)
  PROVE  WriteInv' /\ SafeStep
  <1> DEFINE r == [write[w] EXCEPT !.pc = "verify"]
  <1>1. /\ write[w].pc = "write" /\ write' = [write EXCEPT ![w] = r]
        /\ UNCHANGED <<armed, keepalive, careful, late>>
    BY DEF WriteOut, WriteGoes
  <1>2. setting' \in {setting, [setting EXCEPT ![write[w].id] = write[w].val]}
    BY DEF WriteOut
  <1>3. r \in Writings /\ r.pc = "verify" /\ r.id = write[w].id
    BY PlaceChanged DEF Places
  <1>4. r.id \in SettingNames /\ (w = KeepaliveTask => r.id \notin Thresholds)
    BY <1>1, <1>3 DEF WriteInv, WriteTypes
  <1>5. careful /\ r.id \in Thresholds => \A u \in Writers \ {w} : write[u].id \notin Thresholds
    BY <1>3 DEF WriteInv, ThresholdInv
  <1>6. careful \in BOOLEAN /\ keepalive.val \in Nat
    BY DEF WriteInv, WriteTypes
  <1> HIDE DEF r
  <1>7. WriteInv' /\ ThresholdsApart' /\ OnlyConfirmedRepeated
    BY <1>1, <1>2, <1>3, <1>4, <1>5, <1>6, ValueArrives, WriterMoves
  <1> QED
    BY <1>1, <1>2, <1>7, ValueArrives DEF SafeStep

\* The answer is refused or lost.
LEMMA WriteFailsSafe ==
  ASSUME WriteInv, NEW w \in Writers, WriteFails(w)
  PROVE  WriteInv' /\ SafeStep
  <1>1. /\ write[w].pc = "write" /\ WriteLeaves(w, FALSE) /\ UNCHANGED <<armed, careful>>
        /\ setting' \in {setting, [setting EXCEPT ![write[w].id] = write[w].val]}
    BY DEF WriteFails
  <1>2. WriteInv' /\ ThresholdsApart' /\ OnlyConfirmedRepeated
    BY <1>1, ValueArrives, WriteOver
  <1> QED
    BY <1>1, <1>2, ValueArrives DEF SafeStep

\* The value is read back.
LEMMA VerifySafe ==
  ASSUME WriteInv, NEW w \in Writers, NEW answered \in BOOLEAN, Verify(w, answered)
  PROVE  WriteInv' /\ SafeStep
  <1> DEFINE ok == Confirmed(w, answered)
  <1>1. /\ write[w].pc = "verify" /\ WriteLeaves(w, ok)
        /\ UNCHANGED <<armed, careful, setting>>
    BY DEF Verify
  <1>2. ok \in BOOLEAN
    BY DEF Confirmed, requires_advanced_write_arm
  <1>3. setting \in [limit : Nat, on : Nat, off : Nat]
    BY DEF WriteInv, WriteTypes
  <1>4. write' = [write EXCEPT ![w] =
                    IF ok /\ w # KeepaliveTask THEN [write[w] EXCEPT !.pc = "refresh"] ELSE NoWrite]
    BY <1>1 DEF WriteLeaves, WriteGoes
  <1>5. ok => (write[w].id = "limit" => setting.limit = write[w].val)
    BY DEF Confirmed, requires_advanced_write_arm
  <1>6. ok => OnlyConfirmedRepeated
    <2> SUFFICES ASSUME ok, NEW u \in WriteCalls, write[u].pc = "verify", write[u].id = "limit",
                        write'[u].pc = "refresh"
                 PROVE  setting.limit = write[u].val
      BY DEF OnlyConfirmedRepeated
    <2>1. u \in Writers /\ (u # w => write'[u] = write[u])
      BY <1>4 DEF WriteInv, WriteTypes, Writers
    <2> QED
      BY <1>5, <2>1
  <1>7. LockedMeansLocked
    BY <1>1 DEF LockedMeansLocked
  <1> HIDE DEF ok
  <1>8. WriteInv' /\ ThresholdsApart' /\ OnlyConfirmedRepeated
    BY <1>1, <1>2, <1>3, <1>6, WriteOver
  <1> QED
    BY <1>7, <1>8 DEF SafeStep

\* The refresh is over: a limit is handed to the keepalive.
LEMMA RefreshedSafe ==
  ASSUME WriteInv, NEW w \in Writers, Refreshed(w)
  PROVE  WriteInv' /\ SafeStep
  <1>1. write' = [write EXCEPT ![w] = NoWrite] /\ UNCHANGED <<setting, armed, careful, late>>
    BY DEF Refreshed, WriteGoes
  <1>2. setting \in [limit : Nat, on : Nat, off : Nat] /\ careful \in BOOLEAN
    BY DEF WriteInv, WriteTypes
  <1>3. keepalive'.val \in Nat
    <2>1. write[w].val \in Nat /\ keepalive.val \in Nat
      BY DEF WriteInv, WriteTypes, Writings
    <2> QED
      BY <2>1 DEF Refreshed
  <1>4. LockedMeansLocked
    BY <1>1 DEF LockedMeansLocked
  <1> QED
    BY <1>1, <1>2, <1>3, <1>4, NoWriteIsWriting, WriterMoves DEF SafeStep, Thresholds

\* The keepalive wakes and gives up, or writes if it is armed.
LEMMA KeepaliveWakesSafe ==
  ASSUME WriteInv, KeepaliveWakes
  PROVE  WriteInv' /\ SafeStep
  <1>1. UNCHANGED <<setting, armed, careful, late>>
    BY DEF KeepaliveWakes
  <1>2. setting \in [limit : Nat, on : Nat, off : Nat] /\ careful \in BOOLEAN
    BY DEF WriteInv, WriteTypes
  <1>3. LockedMeansLocked
    BY <1>1 DEF LockedMeansLocked
  <1>4. CASE UNCHANGED write /\ keepalive' = NoLease
    <2>1. WriteInv'
      BY <1>1, <1>4 DEF WriteInv, WriteTypes, ThresholdInv, ArmInv, NoLease
    <2>2. ThresholdsApart' /\ OnlyConfirmedRepeated
      BY <2>1, <1>4 DEF WriteInv, ThresholdInv, ThresholdsApart, OnlyConfirmedRepeated
    <2> QED
      BY <1>3, <2>1, <2>2 DEF SafeStep
  <1>5. CASE /\ armed /\ UNCHANGED keepalive
             /\ WriteGoes(KeepaliveTask, Writing("preread", "limit", keepalive.val))
    <2> DEFINE r == Writing("preread", "limit", keepalive.val)
    <2>1. keepalive.val \in Nat /\ KeepaliveTask \in Writers
      BY DEF WriteInv, WriteTypes, Writers
    <2>2. r \in Writings /\ r.pc = "preread" /\ r.id = "limit"
      BY <2>1 DEF Writing, Writings, Places, SettingNames
    <2>3. write' = [write EXCEPT ![KeepaliveTask] = r]
      BY <1>5 DEF WriteGoes
    <2> HIDE DEF r
    <2> QED
      BY <1>1, <1>2, <1>3, <1>5, <2>1, <2>2, <2>3, WriterMoves
      DEF SafeStep, Thresholds, SettingNames
  <1> QED
    BY <1>4, <1>5 DEF KeepaliveWakes, KeepaliveAfter, requires_advanced_write_arm

\* The arming is given, withdrawn or over, and the polls go on.
LEMMA AroundSafe ==
  ASSUME WriteInv, Arm \/ Disarm \/ (\E ok \in BOOLEAN : SettingsPolled(ok)) \/ UNCHANGED writeVars
  PROVE  WriteInv' /\ SafeStep
  <1>1. UNCHANGED <<setting, write, keepalive, careful>>
    BY DEF Arm, Disarm, SettingsPolled, writeVars
  <1>2. armed' \in BOOLEAN
    BY DEF Arm, Disarm, SettingsPolled, writeVars, WriteInv, WriteTypes
  <1>3. WriteTypes' /\ ThresholdInv'
    BY <1>1, <1>2 DEF WriteInv, WriteTypes, ThresholdInv
  <1>4. ArmInv'
    BY <1>1 DEF Arm, Disarm, SettingsPolled, writeVars, WriteInv, ArmInv
  <1>5. SafeStep
    BY <1>1, <1>3 DEF SafeStep, ThresholdInv, ThresholdsApart, LockedMeansLocked, OnlyConfirmedRepeated
  <1> QED
    BY <1>3, <1>4, <1>5 DEF WriteInv

\* A call on the limit ends the keepalive, wherever it is, before its own write
\* is even checked.
LEMMA SetLimitSafe ==
  ASSUME WriteInv, NEW w \in WriteCalls, NEW v \in Nat, SetNumber(w, "limit", v)
  PROVE  WriteInv' /\ SafeStep
  <1> DEFINE mine == IF ~armed THEN NoWrite ELSE Writing("preread", "limit", v)
             ka == KeepaliveTask
  <1>1. /\ write' = [write EXCEPT ![w] = mine, ![ka] = NoWrite]
        /\ keepalive' = NoLease /\ late' = late \ {w, ka} /\ UNCHANGED armed
        /\ write[w] = NoWrite
        /\ \/ UNCHANGED setting
           \/ /\ write[ka].pc = "write"
              /\ setting' = [setting EXCEPT !.limit = write[ka].val]
    BY DEF SetNumber, requires_advanced_write_arm
  <1>2. w \in Writers /\ ka \in Writers /\ w # ka
    BY KeepaliveIsNoCall DEF Writers
  <1>3. careful' = careful
    BY DEF SetNumber, WriteInv, WriteTypes
  <1>4. /\ mine \in Writings /\ mine.pc \in {"idle", "preread"} /\ mine.id \in {"none", "limit"}
        /\ mine.pc # "idle" => armed /\ mine.id \in SettingNames
    BY NoWriteIsWriting DEF Writing, Writings, Places, SettingNames
  <1> HIDE DEF mine
  <1>5. /\ write' \in [Writers -> Writings] /\ write'[w] = mine /\ write'[ka] = NoWrite
        /\ \A u \in Writers : u \notin {w, ka} => write'[u] = write[u]
    BY <1>1, <1>2, <1>4, NoWriteIsWriting DEF WriteInv, WriteTypes
  <1>6. /\ setting' \in [limit : Nat, on : Nat, off : Nat]
        /\ setting'.on = setting.on /\ setting'.off = setting.off
        /\ setting'.limit # setting.limit =>
              write[ka].pc = "write" /\ setting'.limit = write[ka].val
    <2>1. write[ka].val \in Nat /\ setting \in [limit : Nat, on : Nat, off : Nat]
      BY <1>2 DEF WriteInv, WriteTypes, Writings
    <2> QED
      BY <1>1, <2>1
  <1>7. WriteTypes'
    <2>1. \A u \in Writers : write'[u].pc # "idle" => write'[u].id \in SettingNames
      BY <1>4, <1>5, NoWriteIsWriting DEF WriteInv, WriteTypes
    <2>2. write'[ka].id \notin Thresholds /\ keepalive'.val \in Nat
      BY <1>1, <1>5, NoWriteIsWriting DEF Thresholds, NoLease
    <2>3. armed' \in BOOLEAN /\ careful' \in BOOLEAN
      BY <1>1, <1>3 DEF WriteInv, WriteTypes
    <2> QED
      BY <1>5, <1>6, <2>1, <2>2, <2>3 DEF WriteTypes
  <1>8. \A u \in Writers : write'[u].id \in Thresholds => write'[u] = write[u]
    BY <1>4, <1>5, NoWriteIsWriting DEF Thresholds
  <1>9. ThresholdInv'
    BY <1>3, <1>6, <1>8 DEF WriteInv, ThresholdInv, Thresholds
  <1>10. ArmInv'
    BY <1>1, <1>4, <1>5, NoWriteIsWriting DEF WriteInv, ArmInv
  <1>11. LockedMeansLocked
    <2>1. write[ka].pc = "write" => write[ka].id = "limit"
      BY <1>2 DEF WriteInv, WriteTypes, SettingNames, Thresholds
    <2>2. write[ka].pc = "write" => armed \/ ka \in late
      BY <1>2, <2>1 DEF WriteInv, ArmInv
    <2> QED
      BY <1>6, <2>1, <2>2 DEF LockedMeansLocked
  <1>12. OnlyConfirmedRepeated
    BY <1>4, <1>5, NoWriteIsWriting DEF OnlyConfirmedRepeated, Writers
  <1> QED
    BY <1>7, <1>9, <1>10, <1>11, <1>12
    DEF WriteInv, SafeStep, ThresholdInv, ThresholdsApart

\* A call on a threshold is careful if nobody else has one in hand.
LEMMA SetThresholdSafe ==
  ASSUME WriteInv, NEW w \in WriteCalls, NEW id \in Thresholds, NEW v \in Nat, SetNumber(w, id, v)
  PROVE  WriteInv' /\ SafeStep
  <1> DEFINE r == Writing("preread", id, v)
  <1>0. id # "limit" /\ id \in SettingNames
    BY DEF Thresholds, SettingNames
  <1>1. /\ write' = [write EXCEPT ![w] = r]
        /\ UNCHANGED <<keepalive, setting, late, armed>>
        /\ careful' = (careful /\ ~Contended(w))
    BY <1>0 DEF SetNumber, requires_advanced_write_arm, WriteGoes
  <1>2. w \in Writers /\ w # KeepaliveTask
    BY KeepaliveIsNoCall DEF Writers
  <1>3. r \in Writings /\ r.pc = "preread" /\ r.id = id
    BY <1>0 DEF Writing, Writings, Places
  <1>4. /\ setting \in [limit : Nat, on : Nat, off : Nat] /\ keepalive.val \in Nat
        /\ careful' \in BOOLEAN /\ (careful' => careful)
    BY <1>1 DEF WriteInv, WriteTypes
  <1>5. careful' => \A u \in Writers \ {w} : write[u].id \notin Thresholds
    BY <1>1 DEF Contended
  <1>6. LockedMeansLocked
    BY <1>1 DEF LockedMeansLocked
  <1> HIDE DEF r
  <1> QED
    BY <1>0, <1>1, <1>2, <1>3, <1>4, <1>5, <1>6, WriterMoves DEF SafeStep

-----------------------------------------------------------------------------

\* At the start nobody writes and the thresholds are apart.
LEMMA WritesStart == WritesInit => WriteInv
  <1> SUFFICES ASSUME WritesInit PROVE WriteInv
    OBVIOUS
  <1>1. /\ setting = [limit |-> 1, on |-> 3, off |-> 1]
        /\ write = [w \in Writers |-> NoWrite] /\ keepalive = NoLease
        /\ armed = FALSE /\ careful = TRUE
    BY DEF WritesInit
  <1>2. KeepaliveTask \in Writers
    BY DEF Writers
  <1>3. WriteTypes
    BY <1>1, <1>2, NoWriteIsWriting DEF WriteTypes, NoLease, Thresholds
  <1>4. ThresholdInv
    BY <1>1, NoWriteIsWriting DEF ThresholdInv, Thresholds
  <1>5. ArmInv
    BY <1>1, NoWriteIsWriting DEF ArmInv
  <1> QED
    BY <1>3, <1>4, <1>5 DEF WriteInv

\* Every step keeps the invariant and is safe.
LEMMA WritesInductive == WriteInv /\ [WritesNext]_writeVars => WriteInv' /\ SafeStep
  <1> SUFFICES ASSUME WriteInv, [WritesNext]_writeVars PROVE WriteInv' /\ SafeStep
    OBVIOUS
  <1>1. CASE \E w \in WriteCalls : \E v \in Levels : SetNumber(w, "limit", v)
    <2>1. Levels \subseteq Nat
      BY DEF Levels
    <2> QED
      BY <1>1, <2>1, SetLimitSafe
  <1>2. CASE \E w \in WriteCalls : \E v \in 1 .. 3, id \in Thresholds : SetNumber(w, id, v)
    <2>1. 1 .. 3 \subseteq Nat
      OBVIOUS
    <2> QED
      BY <1>2, <2>1, SetThresholdSafe
  <1>3. CASE \E w \in Writers : WriteStep(w)
    BY <1>3, PreReadSafe, WriteOutSafe, WriteFailsSafe, RefreshedSafe, VerifySafe DEF WriteStep
  <1>4. CASE KeepaliveWakes
    BY <1>4, KeepaliveWakesSafe
  <1>5. CASE Arm \/ Disarm \/ (\E ok \in BOOLEAN : SettingsPolled(ok)) \/ UNCHANGED writeVars
    BY <1>5, AroundSafe
  <1> QED
    BY <1>1, <1>2, <1>3, <1>4, <1>5 DEF WritesNext

\* However calls, keepalive, arming, failures and polls interleave: thresholds
\* written with knowledge of each other stay apart, the high-impact limit
\* changes only by a write begun while armed, and the keepalive takes over only
\* a value that was read back (async_write_data, number.py).
THEOREM RestWritesAreSafe == WritesSpec => RestWritesSafe
  <1>1. WriteInv /\ [WritesNext]_writeVars => [SafeStep]_writeVars
    BY WritesInductive
  <1> QED
    BY <1>1, WritesStart, WritesInductive, PTL DEF WritesSpec, RestWritesSafe, SafeStep

=============================================================================
