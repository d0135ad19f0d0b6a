----------------------------- MODULE RestSession -----------------------------
(* The session of the REST client (pykoplenti/api.py) and its users: the    *)
(* login of the set-up, calls that log in again when the session has ended, *)
(* the callers' time limits, and the logout of the unload.  A session is a  *)
(* number; the inverter honours one at a time.                              *)
EXTENDS Naturals, Sequences

CONSTANTS
    Callers,        \* tasks that call the client
    MaxSessions,    \* bound on the sessions handed out, and on what makes one necessary
    SessionFaults   \* "odd": a 400 on a good session; "drop": a failed exchange; "limit": time limits

SetupTask == "setup"
SessionTasks == Callers \cup {SetupTask}

ASSUME SetupIsNoCaller == SetupTask \notin Callers

VARIABLES
    session_id,  \* the client's; 0 is None
    _key,        \* the client remembers the password
    live,        \* the session the inverter honours; 0 is none
    handed,      \* sessions handed out so far
    causes,      \* times a session ended by itself, was not received, or was doubted by a 400
    login_lock,  \* holder and waiters of _login_lock
    call,        \* per task: where it is, the session in its header, failed_session
    client       \* "none" before set-up, then "up", "logout", "gone"

sessionVars == <<session_id, _key, live, handed, causes, login_lock, call, client>>

CallAt(pc, hdr, failed) == [pc |-> pc, hdr |-> hdr, failed |-> failed]
NoCall == CallAt("idle", 0, 0)
LoginSteps == {"start", "finish", "create"}
LoginPending == {t \in SessionTasks : call[t].pc \in LoginSteps}

SessionInit ==
    /\ session_id = 0 /\ _key = FALSE /\ live = 0 /\ handed = 0 /\ causes = 0
    /\ login_lock = <<>>
    /\ call = [t \in SessionTasks |-> NoCall]
    /\ client = "none"

CallGoes(t, c) == call' = [call EXCEPT ![t] = c]

\* The holder and the waiters of the lock without t, who is among them once at most.
WithoutTask(t) ==
    IF \E i \in DOMAIN login_lock : login_lock[i] = t
    THEN LET place == CHOOSE i \in DOMAIN login_lock : login_lock[i] = t
         IN  [i \in 1 .. Len(login_lock) - 1 |->
                 IF i < place THEN login_lock[i] ELSE login_lock[i + 1]]
    ELSE login_lock

\* Mutant: a call that ends under the lock keeps it when nobody waits.
CallLeavesLocked(t) ==
    /\ CallGoes(t, NoCall)
    /\ login_lock' = IF login_lock = <<t>> THEN login_lock ELSE WithoutTask(t)
\* The task leaves its call, with a result or an exception, and the lock with it.
CallLeaves(t) ==
    /\ CallGoes(t, NoCall)
    /\ login_lock' = WithoutTask(t)

-----------------------------------------------------------------------------
(* _relogin around a request.                                              *)

\* failed_session is read and the header is made in the same step.
CallRequest(t) ==
    /\ client = "up"
    /\ call[t].pc = "idle"
    /\ CallGoes(t, CallAt("asked", session_id, session_id))
    /\ UNCHANGED <<session_id, _key, live, handed, causes, login_lock, client>>

Honoured(t) == call[t].hdr # 0 /\ call[t].hdr = live

\* The first attempt succeeds, or fails with something a login cannot cure.
CallReplied(t) ==
    /\ call[t].pc = "asked"
    /\ Honoured(t) \/ "drop" \in SessionFaults
    /\ CallLeaves(t)
    /\ UNCHANGED <<session_id, _key, live, handed, causes, client>>

\* 401, or 400: the caller waits for the lock.
NotAuthorized(t) ==
    /\ call[t].pc = "asked"
    /\ \/ ~Honoured(t) /\ UNCHANGED causes
       \/ /\ "odd" \in SessionFaults /\ Honoured(t) /\ causes < MaxSessions
          /\ causes' = causes + 1
    /\ CallGoes(t, [call[t] EXCEPT !.pc = "lock"])
    /\ login_lock' = Append(login_lock, t)
    /\ UNCHANGED <<session_id, _key, live, handed, client>>

\* Mutant: every caller that met the end of the session logs in.
AlwaysRelogin(t) == TRUE
\* Under the lock: log in, unless another caller has done so meanwhile.
ReloginNeeded(t) == session_id = call[t].failed

LoginLocked(t) ==
    /\ call[t].pc = "lock" /\ Head(login_lock) = t
    /\ IF ReloginNeeded(t)
       THEN CallGoes(t, [call[t] EXCEPT !.pc = "start"]) /\ UNCHANGED login_lock
       ELSE CallGoes(t, CallAt("again", session_id, 0)) /\ login_lock' = Tail(login_lock)
    /\ UNCHANGED <<session_id, _key, live, handed, causes, client>>

\* The second attempt ends the call, whatever the answer.
CallRepliedAgain(t) ==
    /\ call[t].pc = "again"
    /\ CallLeaves(t)
    /\ UNCHANGED <<session_id, _key, live, handed, causes, client>>

-----------------------------------------------------------------------------
(* _login: three exchanges.                                                *)

\* auth/start is answered; the proof for auth/finish needs the password.
LoginStarted(t) ==
    /\ call[t].pc = "start"
    /\ IF _key
       THEN CallGoes(t, [call[t] EXCEPT !.pc = "finish"]) /\ UNCHANGED login_lock
       ELSE CallLeaves(t)
    /\ UNCHANGED <<session_id, _key, live, handed, causes, client>>

LoginFinished(t) ==
    /\ call[t].pc = "finish"
    /\ CallGoes(t, [call[t] EXCEPT !.pc = "create"])
    /\ UNCHANGED <<session_id, _key, live, handed, causes, login_lock, client>>

\* The inverter makes a session, which ends the one before.
NewSession ==
    /\ handed < MaxSessions
    /\ handed' = handed + 1
    /\ live' = handed'

\* The caller asks again in the same step; the set-up goes on.
SessionCreated(t) ==
    /\ call[t].pc = "create"
    /\ NewSession
    /\ session_id' = handed'
    /\ IF t = SetupTask
       THEN CallLeaves(t) /\ client' = "up"
       ELSE /\ CallGoes(t, CallAt("again", session_id', 0))
            /\ login_lock' = Tail(login_lock)
            /\ UNCHANGED client
    /\ UNCHANGED <<_key, causes>>

\* An exchange of a login is refused or lost; the session of a lost answer
\* is there all the same.  login() then forgets the password, _login() alone does not.
LoginFailed(t) ==
    /\ "drop" \in SessionFaults
    /\ call[t].pc \in LoginSteps
    /\ \/ UNCHANGED <<live, handed, causes>>
       \/ /\ call[t].pc = "create" /\ NewSession
          /\ causes' = causes + 1
    /\ CallLeaves(t)
    /\ _key' = (_key /\ t # SetupTask)
    /\ UNCHANGED <<session_id, client>>

-----------------------------------------------------------------------------

\* login() of async_setup, for the first time or after ConfigEntryNotReady.
SetupLogin ==
    /\ client = "none"
    /\ call[SetupTask].pc = "idle"
    /\ _key' = TRUE
    /\ CallGoes(SetupTask, CallAt("start", 0, 0))
    /\ UNCHANGED <<session_id, live, handed, causes, login_lock, client>>

\* wait_for of the caller cancels the call at whatever it waits for; a request
\* that is out is carried out by the inverter or not.
CallTimeLimit(t) ==
    /\ "limit" \in SessionFaults
    /\ call[t].pc # "idle"
    /\ \/ UNCHANGED <<live, handed, causes>>
       \/ call[t].pc = "create" /\ NewSession /\ causes' = causes + 1
    /\ CallLeaves(t)
    /\ _key' = (_key /\ t # SetupTask)
    /\ UNCHANGED <<session_id, client>>

\* The inverter ends a session, or restarts.
SessionEnds ==
    /\ live # 0
    /\ causes < MaxSessions
    /\ live' = 0
    /\ causes' = causes + 1
    /\ UNCHANGED <<session_id, _key, handed, login_lock, call, client>>

\* async_unload: logout() forgets the password before it asks.  Calls under
\* way are not cancelled.
Logout ==
    /\ client = "up"
    /\ _key' = FALSE
    /\ client' = "logout"
    /\ UNCHANGED <<session_id, live, handed, causes, login_lock, call>>

\* Answered, refused or given up after 5 s; the client is dropped.
LoggedOut ==
    /\ client = "logout"
    /\ live' \in {IF session_id = live THEN 0 ELSE live}
                 \cup IF "drop" \in SessionFaults THEN {live} ELSE {}
    /\ client' = "gone"
    /\ UNCHANGED <<session_id, _key, handed, causes, login_lock, call>>

CallerStep(t) ==
    \/ CallReplied(t) \/ NotAuthorized(t) \/ LoginLocked(t) \/ CallRepliedAgain(t)
    \/ LoginStarted(t) \/ LoginFinished(t) \/ SessionCreated(t) \/ LoginFailed(t)

SessionNext ==
    \/ \E t \in Callers : CallRequest(t)
    \/ \E t \in SessionTasks : CallerStep(t) \/ CallTimeLimit(t)
    \/ SetupLogin \/ SessionEnds \/ Logout \/ LoggedOut

SessionSpec == SessionInit /\ [][SessionNext]_sessionVars

-----------------------------------------------------------------------------

\* Callers that meet the end of a session together share one login: no more
\* sessions are asked for than there were causes, the one of the set-up apart,
\* and only the holder of the lock logs in.  (_relogin in api.py.)
OneLoginPerCause ==
    /\ handed <= causes + 1
    /\ \A t \in Callers : call[t].pc \in LoginSteps => Head(login_lock) = t

\* Whatever fails, every call returns: the lock of the login is given back
\* at each of its exits.
SessionCallsReturn == \A t \in Callers : call[t].pc # "idle" ~> call[t].pc = "idle"

=============================================================================
