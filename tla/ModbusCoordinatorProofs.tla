----------------------- MODULE ModbusCoordinatorProofs -----------------------
(***************************************************************************)
(* The Modbus client's shutdown is final, and what the coordinator         *)
(* remembers of the control register is true on the connection it belongs  *)
(* to: for any number of writers, any register values, any number of       *)
(* retries and whatever fails.                                             *)
(*                                                                         *)
(* Every step but the client's own has the same shape: one task moves on   *)
(* to a job that is not "connecting", and the transport stays, is dropped, *)
(* or is what that task's connect() made of it.                            *)
(***************************************************************************)
EXTENDS ModbusCoordinator, TLAPS

\* A job, without the bound on its attempts.
AnyJob ==
    [pc : {"idle", "queued", "wire", "backoff", "disconnect", "connect",
           "connecting"},
     op : {"none", "write", "probe", "fast", "slow", "rest", "info"},
     try : Nat,
     val : Values]

SafeJob == {j \in AnyJob : j.pc # "connecting"}

JobsTyped == job \in [Tasks -> AnyJob]

\* What makes ClosedStaysClosed inductive: jobs are well formed.
ClosedInv == JobsTyped /\ ClosedStaysClosed

\* Task t moves on and the transport changes in one of the three ways.
Step(t) ==
    /\ \E j \in SafeJob : \E rest : Move(t, j, rest)
    /\ closing' = closing
    /\ conn' \in {conn, "down", Transport(t)}

\* The jobs tasks go on with are well formed and none is "connecting".
LEMMA JobFacts ==
    ASSUME JobsTyped, NEW t \in Tasks
    PROVE  /\ Idle \in SafeJob
           /\ Again(t) \in SafeJob
           /\ \A pc \in {"backoff", "disconnect"} :
                At(t, pc) \in SafeJob
           /\ ProbeFirst(t) \in SafeJob
           /\ \A op \in {"fast", "slow", "rest", "info"} : Read(op) \in SafeJob
           /\ Job("connect", "probe", 1, Default) \in SafeJob
           /\ \A v \in Values : Job("queued", "write", 1, v) \in SafeJob
           /\ AfterTransient(t) \in SafeJob
           /\ AfterConnectionError(t) \in SafeJob
  <1>1. job[t] \in AnyJob
    BY DEF JobsTyped
  <1>2. Again(t) \in SafeJob
    BY <1>1 DEF Again, Job, SafeJob, AnyJob
  <1>3. \A pc \in {"backoff", "disconnect"} : At(t, pc) \in SafeJob
    BY <1>1 DEF At, Job, SafeJob, AnyJob
  <1>4. ProbeFirst(t) \in SafeJob
    BY <1>1 DEF ProbeFirst, Job, SafeJob, AnyJob
  <1>5. /\ Idle \in SafeJob
        /\ \A op \in {"fast", "slow", "rest", "info"} : Read(op) \in SafeJob
        /\ Job("connect", "probe", 1, Default) \in SafeJob
        /\ \A v \in Values : Job("queued", "write", 1, v) \in SafeJob
    BY LinkAssumption DEF Idle, Read, Job, SafeJob, AnyJob
  <1>. QED
    BY <1>2, <1>3, <1>4, <1>5 DEF AfterTransient, AfterConnectionError

\* A step of that shape keeps the invariant.
LEMMA StepKeepsClosed ==
    ASSUME ClosedInv, NEW t \in Tasks, Step(t)
    PROVE  ClosedInv'
  <1>1. PICK j \in SafeJob : \E rest : Move(t, j, rest)
    BY DEF Step
  <1>2. job' = [job EXCEPT ![t] = j]
    BY <1>1 DEF Move
  <1>3. JobsTyped'
    BY <1>2 DEF ClosedInv, JobsTyped, SafeJob
  <1>4. ASSUME closing' PROVE conn' = "down"
    BY <1>4 DEF Step, ClosedInv, ClosedStaysClosed, Transport
  <1>5. ASSUME closing', NEW u \in Tasks PROVE job'[u].pc # "connecting"
    BY <1>2, <1>5 DEF Step, ClosedInv, ClosedStaysClosed, JobsTyped, SafeJob
  <1>. QED
    BY <1>3, <1>4, <1>5 DEF ClosedInv, ClosedStaysClosed

\* What follows a read moves the poll on, whatever it was.
LEMMA ReadsMove ==
    ASSUME JobsTyped, NEW rest, NEW missing \in BOOLEAN,
           \/ ReadsDone(missing, rest)
           \/ PollDisconnected(rest)
           \/ PollFails(rest)
    PROVE  \E j \in SafeJob : Move(Poller, j, rest)
  <1>1. Poller \in Tasks
    BY DEF Tasks
  <1>2. Idle \in SafeJob /\ Read("info") \in SafeJob /\ Read("slow") \in SafeJob
            /\ Read("rest") \in SafeJob
    BY <1>1, JobFacts
  <1>3. PollOver(rest) => \E j \in SafeJob : Move(Poller, j, rest)
    BY <1>2 DEF PollOver
  <1>4. \A m, s : EndPoll(rest, m, s) => \E j \in SafeJob : Move(Poller, j, rest)
    BY <1>2, <1>3 DEF EndPoll
  <1>5. FastDone(missing, rest) => \E j \in SafeJob : Move(Poller, j, rest)
    BY <1>2, <1>4 DEF FastDone
  <1>6. \A r : SlowDone(r, rest) => \E j \in SafeJob : Move(Poller, j, rest)
    BY <1>2 DEF SlowDone
  <1>7. RestDone(missing, rest) => \E j \in SafeJob : Move(Poller, j, rest)
    BY <1>4 DEF RestDone
  <1>8. SlowLost(rest) => \E j \in SafeJob : Move(Poller, j, rest)
    BY <1>4 DEF SlowLost
  <1>9. InfoDone(rest) => \E j \in SafeJob : Move(Poller, j, rest)
    BY <1>3 DEF InfoDone
  <1>10. PollFails(rest) => \E j \in SafeJob : Move(Poller, j, rest)
    BY <1>3 DEF PollFails
  <1>11. CASE ReadsDone(missing, rest)
    BY <1>11, <1>5, <1>6, <1>7, <1>9 DEF ReadsDone
  <1>12. CASE PollDisconnected(rest)
    BY <1>12, <1>3, <1>8, <1>9, <1>10 DEF PollDisconnected
  <1>. QED
    BY <1>10, <1>11, <1>12

\* The steps of a writer have the shape of Step.
LEMMA WriterSteps ==
    ASSUME JobsTyped, NEW w \in Writers,
           Write(w) \/ \E v \in Values : StartWrite(w, v)
    PROVE  Step(w)
  <1>1. w \in Tasks
    BY DEF Tasks
  <1>2. /\ Idle \in SafeJob /\ Again(w) \in SafeJob /\ ProbeFirst(w) \in SafeJob
        /\ AfterTransient(w) \in SafeJob /\ AfterConnectionError(w) \in SafeJob
        /\ \A v \in Values : Job("queued", "write", 1, v) \in SafeJob
    BY <1>1, JobFacts
  <1>3. ASSUME NEW v \in Values, StartWrite(w, v) PROVE Step(w)
    BY <1>2, <1>3 DEF StartWrite, Step
  <1>4. CASE WriteDone(w)
    BY <1>2, <1>4 DEF WriteDone, Step
  <1>5. CASE ProbeDone(w)
    BY <1>2, <1>5 DEF ProbeDone, Step
  <1>6. CASE WriteException(w)
    BY <1>2, <1>6 DEF WriteException, Step
  <1>7. CASE WriteLost(w)
    BY <1>2, <1>7 DEF WriteLost, Refused, Lost, Step
  <1>8. CASE WriteReconnected(w)
    BY <1>2, <1>8 DEF WriteReconnected, Step
  <1>. QED
    BY <1>3, <1>4, <1>5, <1>6, <1>7, <1>8 DEF Write

\* So have the steps of the poll.
LEMMA PollSteps ==
    ASSUME JobsTyped, StartPoll \/ Poll
    PROVE  Step(Poller)
  <1>1. Poller \in Tasks
    BY DEF Tasks
  <1>2. /\ Read("fast") \in SafeJob /\ ProbeFirst(Poller) \in SafeJob
        /\ Again(Poller) \in SafeJob /\ AfterTransient(Poller) \in SafeJob
        /\ AfterConnectionError(Poller) \in SafeJob
        /\ Job("connect", "probe", 1, Default) \in SafeJob
    BY <1>1, JobFacts
  <1>3. \A rest : PollFails(rest) => \E j \in SafeJob : Move(Poller, j, rest)
    BY ReadsMove
  <1>4. \A rest : PollDisconnected(rest) => \E j \in SafeJob : Move(Poller, j, rest)
    BY ReadsMove
  <1>5. \A rest : \A m \in BOOLEAN :
            ReadsDone(m, rest) => \E j \in SafeJob : Move(Poller, j, rest)
    BY ReadsMove
  <1>6. CASE StartPoll
    BY <1>2, <1>6 DEF StartPoll, Step
  <1>7. CASE PollReconnected
    BY <1>2, <1>3, <1>7 DEF PollReconnected, Step
  <1>8. CASE PollProbed
    BY <1>2, <1>8 DEF PollProbed, Step
  <1>9. CASE PollNotProbed
    BY <1>3, <1>9 DEF PollNotProbed, Step
  <1>10. CASE PollAnswered
    BY <1>5, <1>10 DEF PollAnswered, Step
  <1>11. CASE PollException
    BY <1>2, <1>3, <1>5, <1>11 DEF PollException, Step
  <1>12. CASE PollLost
    BY <1>2, <1>4, <1>12 DEF PollLost, Refused, Lost, Step
  <1>. QED
    BY <1>6, <1>7, <1>8, <1>9, <1>10, <1>11, <1>12 DEF Poll

\* Steps inside the client: only connect() makes a task "connecting", and
\* not while the client is closing.
LEMMA ClientSteps ==
    ASSUME ClosedInv, NEW t \in Tasks, LinkStep(t)
    PROVE  ClosedInv'
  <1>1. job[t] \in AnyJob /\ Again(t) \in SafeJob
    BY JobFacts DEF ClosedInv, JobsTyped
  <1>2. CASE Send(t)
    <2>1. At(t, "wire") \in SafeJob
      BY <1>1 DEF At, Job, SafeJob, AnyJob
    <2>2. job' = [job EXCEPT ![t] = At(t, "wire")] /\ closing' = closing /\ conn' = conn
      BY <1>2 DEF Send
    <2>. QED
      BY <2>1, <2>2 DEF ClosedInv, ClosedStaysClosed, JobsTyped, SafeJob
  <1>3. CASE WakeUp(t)
    <2>1. Step(t)
      BY <1>1, <1>3 DEF WakeUp, Step
    <2>. QED
      BY <2>1, StepKeepsClosed
  <1>4. CASE Disconnect(t)
    <2>1. At(t, "connect") \in SafeJob
      BY <1>1 DEF At, Job, SafeJob, AnyJob
    <2>2. job' = [job EXCEPT ![t] = At(t, "connect")] /\ closing' = closing /\ conn' = "down"
      BY <1>4 DEF Disconnect
    <2>. QED
      BY <2>1, <2>2 DEF ClosedInv, ClosedStaysClosed, JobsTyped, SafeJob
  <1>5. CASE Connect(t)
    <2>1. At(t, "connecting") \in AnyJob
      BY <1>1 DEF At, Job, AnyJob
    <2>2. job' = [job EXCEPT ![t] = At(t, "connecting")] /\ closing' = closing /\ ~closing
      BY <1>5 DEF Connect
    <2>. QED
      BY <2>1, <2>2 DEF ClosedInv, ClosedStaysClosed, JobsTyped
  <1>. QED
    BY <1>2, <1>3, <1>4, <1>5 DEF LinkStep

\* KostalModbusClient.async_shutdown: once _closing is set there is no
\* connection, nobody is making one, and nobody ever will, whatever retry
\* loop is under way in whatever task.
THEOREM ShutdownIsFinal == Spec => []ClosedStaysClosed
  <1>1. Init => ClosedInv
    <2>1. Idle \in AnyJob
      BY LinkAssumption DEF Idle, Job, AnyJob
    <2>. QED
      BY <2>1 DEF Init, LinkInit, ClosedInv, JobsTyped, ClosedStaysClosed
  <1>2. ClosedInv /\ [Next]_vars => ClosedInv'
    <2>. SUFFICES ASSUME ClosedInv, [Next]_vars PROVE ClosedInv'
      OBVIOUS
    <2>1. CASE \E t \in Tasks : LinkStep(t)
      BY <2>1, ClientSteps
    <2>2. CASE \E w \in Writers : Write(w) \/ \E v \in Values : StartWrite(w, v)
      BY <2>2, WriterSteps, StepKeepsClosed DEF ClosedInv, Tasks
    <2>3. CASE StartPoll \/ Poll
      BY <2>3, PollSteps, StepKeepsClosed DEF ClosedInv, Tasks
    <2>4. CASE StartUnload \/ UnloadExpires \/ UNCHANGED vars
      <3>1. job' = job /\ closing' = closing /\ conn' = conn
        BY <2>4 DEF StartUnload, UnloadExpires, vars, linkVars
      <3>. QED
        BY <3>1 DEF ClosedInv, JobsTyped, ClosedStaysClosed
    <2>5. CASE Unloaded
      <3>1. job' = job /\ conn' = "down" /\ LockFree
        BY <2>5 DEF Unloaded, ShutdownLink
      <3>. QED
        BY <3>1 DEF ClosedInv, JobsTyped, ClosedStaysClosed, LockFree
    <2>6. CASE Restart
      <3>1. job' = job /\ closing' = closing
            /\ conn' = IF connected THEN "dead" ELSE conn
        BY <2>6 DEF Restart, RestartInverter
      <3>. QED
        BY <3>1 DEF ClosedInv, JobsTyped, ClosedStaysClosed, connected
    <2>. QED
      BY <2>1, <2>2, <2>3, <2>4, <2>5, <2>6 DEF Next
  <1>3. ClosedInv => ClosedStaysClosed
    BY DEF ClosedInv
  <1>. QED
    BY <1>1, <1>2, <1>3, PTL DEF Spec

-----------------------------------------------------------------------------
(* The caches.                                                             *)

\* Connections are numbered from 1, and nothing is tagged with one to come.
TagsInv ==
    /\ gen \in Nat \ {0}
    /\ cmd.gen \in 0 .. gen /\ obs.gen \in 0 .. gen /\ got.gen \in 0 .. gen

\* x was taken on the connection there is, and the inverter is behind it.
Live(x) == x.gen = gen /\ conn = "up"

\* The poll is between its read of the register and the end of the slow reads.
PollAt(ops) == job[Poller].op \in ops /\ job[Poller].pc # "idle"

\* Only writers write; a reading waits for publication only in the slow reads.
PollInv ==
    /\ JobsTyped
    /\ job[Poller].op # "write"
    /\ got.gen # 0 => PollAt({"rest"})

\* The inverter's answers are true: it does not answer a write that it has
\* carried out with an exception.
Honest == "unsure" \notin Faults

\* A command of this connection is what the register holds.
CommandInv == Honest /\ Live(cmd) => cmd.val = reg

\* Nothing that was read before the inverter restarted counts as of this connection.
EpochInv == (Live(obs) => ~obs.old) /\ (Live(got) => ~got.old)

\* An observation that is wrong by now is being read again, or due to be; so
\* is a reading that was overtaken before it was published.
StaleInv ==
    /\ Honest /\ Live(obs) /\ obs.val # reg => slowDue \/ PollAt({"slow", "rest"})
    /\ Honest /\ Live(got) /\ got.val # reg => slowDue

\* What the caches are worth, as an inductive invariant.
CacheInv == TagsInv /\ PollInv /\ CommandInv /\ EpochInv /\ StaleInv

\* The link stays as it is, is lost, or is made anew and counted.
LinkCounted ==
    \/ gen' = gen /\ conn' = conn /\ (Honest => reg' = reg)
    \/ gen' = gen /\ conn' # "up"
    \/ gen' = gen + 1

\* The poll stands still or goes on with what it was reading.
PollGoesOn ==
    \/ job'[Poller] = job[Poller]
    \/ job'[Poller].op = job[Poller].op /\ job'[Poller].pc # "idle"

\* A step that leaves the caches alone keeps what they are worth.
LEMMA CachesAlone ==
    ASSUME CacheInv, JobsTyped', LinkCounted, PollGoesOn,
           UNCHANGED cacheVars, slowDue' = slowDue
    PROVE  CacheInv'
  <1> USE DEF CacheInv, cacheVars
  <1>1. TagsInv'
    BY DEF TagsInv, LinkCounted
  <1>2. PollInv'
    BY DEF PollInv, PollGoesOn, PollAt
  <1>3. /\ Live(cmd)' => Live(cmd) /\ (Honest => reg' = reg)
        /\ Live(obs)' => Live(obs) /\ (Honest => reg' = reg)
        /\ Live(got)' => Live(got) /\ (Honest => reg' = reg)
    BY DEF TagsInv, LinkCounted, Live
  <1>4. CommandInv' /\ EpochInv'
    BY <1>3 DEF CommandInv, EpochInv
  <1>5. StaleInv'
    BY <1>3 DEF StaleInv, PollGoesOn, PollAt
  <1>. QED
    BY <1>1, <1>2, <1>4, <1>5

\* A task that moves on leaves the others where they are, and jobs stay well
\* formed.
LEMMA StepMovesOne ==
    ASSUME JobsTyped, NEW t \in Tasks, Step(t)
    PROVE  /\ JobsTyped'
           /\ \A u \in Tasks \ {t} : job'[u] = job[u]
  <1>1. PICK j \in SafeJob : \E rest : Move(t, j, rest)
    BY DEF Step
  <1>2. job' = [job EXCEPT ![t] = j]
    BY <1>1 DEF Move
  <1>. QED
    BY <1>2 DEF JobsTyped, SafeJob

\* A write that is acknowledged makes the command and the register one; any
\* other end of it leaves the register alone or costs the connection.
LEMMA WriterCaches ==
    ASSUME CacheInv, NEW w \in Writers,
           Write(w) \/ \E v \in Values : StartWrite(w, v)
    PROVE  CacheInv'
  <1>1. JobsTyped /\ w \in Tasks /\ Poller \in Tasks \ {w}
    BY LinkAssumption DEF CacheInv, PollInv, Tasks
  <1>2. JobsTyped' /\ job'[Poller] = job[Poller]
    BY <1>1, WriterSteps, StepMovesOne
  <1>3. PollGoesOn
    BY <1>2 DEF PollGoesOn
  <1>4. CASE \E v \in Values : StartWrite(w, v)
    <2>1. /\ gen' = gen /\ conn' = conn /\ reg' = reg /\ slowDue' = slowDue
          /\ cmd' = cmd /\ got' = got /\ obs' = None
      BY <1>4 DEF StartWrite, pollVars
    <2>2. ~Live(obs)'
      BY <2>1 DEF CacheInv, TagsInv, Live, None
    <2>. QED
      BY <1>2, <2>1, <2>2 DEF CacheInv, TagsInv, PollInv, PollAt, CommandInv,
                              EpochInv, StaleInv, Live, None
  <1>5. CASE WriteDone(w)
    <2>1. /\ gen' = gen /\ conn' = conn /\ slowDue' = TRUE /\ got' = got /\ obs' = obs
          /\ reg' = job[w].val
          /\ cmd' = [val |-> job[w].val, gen |-> gen, old |-> FALSE]
      BY <1>5 DEF WriteDone, Carried
    <2>. QED
      BY <1>2, <2>1 DEF CacheInv, TagsInv, PollInv, PollAt, CommandInv,
                        EpochInv, StaleInv, Live
  <1>6. CASE ProbeDone(w)
    <2>1. LinkCounted /\ UNCHANGED cacheVars /\ slowDue' = slowDue
      BY <1>6 DEF ProbeDone, LinkCounted, pollVars
    <2>. QED
      BY <1>2, <1>3, <2>1, CachesAlone
  <1>7. CASE WriteException(w)
    <2>1. LinkCounted /\ UNCHANGED cacheVars /\ slowDue' = slowDue
      BY <1>7 DEF WriteException, Exception, LinkCounted, Honest, pollVars
    <2>. QED
      BY <1>2, <1>3, <2>1, CachesAlone
  <1>8. CASE WriteLost(w)
    <2>1. LinkCounted /\ UNCHANGED cacheVars /\ slowDue' = slowDue
      BY <1>8 DEF WriteLost, Refused, Lost, LinkCounted, pollVars
    <2>. QED
      BY <1>2, <1>3, <2>1, CachesAlone
  <1>9. CASE WriteReconnected(w)
    <2>1. LinkCounted /\ UNCHANGED cacheVars /\ slowDue' = slowDue
      BY <1>9 DEF WriteReconnected, Generation, Transport, LinkCounted, pollVars
    <2>. QED
      BY <1>2, <1>3, <2>1, CachesAlone
  <1>. QED
    BY <1>4, <1>5, <1>6, <1>7, <1>8, <1>9 DEF Write

\* Where the poll is once it has moved on.
LEMMA PollMoved ==
    ASSUME JobsTyped
    PROVE  \A j, rest : Move(Poller, j, rest) => job'[Poller] = j
  BY DEF Move, JobsTyped, Tasks

\* A poll that ends, or goes on with the device information, has neither a
\* reading to publish nor a slow read under way.
LEMMA PollEnded ==
    ASSUME JobsTyped, NEW rest,
           PollOver(rest) \/ \E m, s : EndPoll(rest, m, s)
    PROVE  job'[Poller].op \in {"none", "info"}
  BY PollMoved DEF PollOver, EndPoll, Idle, Read, Job

\* Fast reads: a slow poll that was due is under way from here on.
LEMMA FastCaches ==
    ASSUME CacheInv, JobsTyped', gen' = gen /\ conn' = conn, Honest => reg' = reg,
           job[Poller].op = "fast", NEW missing, NEW rest, FastDone(missing, rest)
    PROVE  CacheInv'
  <1>1. JobsTyped /\ got.gen = 0 /\ got' = got /\ cmd' = cmd
    BY DEF CacheInv, PollInv, PollAt, TagsInv, FastDone
  <1>2. obs' = obs \/ obs' = None
    BY DEF FastDone
  <1>3. CASE Move(Poller, Read("slow"), rest)
    <2>1. job'[Poller].op = "slow" /\ job'[Poller].pc # "idle"
      BY <1>1, <1>3, PollMoved DEF Read, Job
    <2>. QED
      BY <1>1, <1>2, <2>1 DEF CacheInv, TagsInv, PollInv, PollAt, CommandInv,
                              EpochInv, StaleInv, Live, None
  <1>4. CASE ~slowDue /\ slowDue' = slowDue /\ EndPoll(rest, missing, slowStale)
    <2>1. job'[Poller].op \in {"none", "info"}
      BY <1>1, <1>4, PollEnded
    <2>. QED
      BY <1>1, <1>2, <1>4, <2>1 DEF CacheInv, TagsInv, PollInv, PollAt, CommandInv,
                              EpochInv, StaleInv, Live, None
  <1>. QED
    BY <1>3, <1>4 DEF FastDone

\* The read of the register: what it found is what the register holds.
LEMMA SlowCaches ==
    ASSUME CacheInv, JobsTyped', gen' = gen /\ conn' = conn, Honest => reg' = reg,
           NEW missing, NEW rest, SlowDone(Reading(missing), rest)
    PROVE  CacheInv'
  <1>1. /\ got' \in {None, [val |-> reg, gen |-> gen, old |-> FALSE]}
        /\ cmd' = cmd /\ obs' = obs /\ slowDue' = slowDue
    BY DEF SlowDone, Reading, pollVars
  <1>2. job'[Poller].op = "rest" /\ job'[Poller].pc # "idle"
    BY PollMoved DEF CacheInv, PollInv, SlowDone, Read, Job
  <1>. QED
    BY <1>1, <1>2 DEF CacheInv, TagsInv, PollInv, PollAt, CommandInv, EpochInv,
                      StaleInv, Live, None

\* Publication: a reading that is wrong by now has made a slow read due.
LEMMA RestCaches ==
    ASSUME CacheInv, JobsTyped', gen' = gen /\ conn' = conn, Honest => reg' = reg,
           NEW missing, NEW rest, RestDone(missing, rest)
    PROVE  CacheInv'
  <1>1. obs' = got /\ got' = None /\ cmd' = cmd /\ slowDue' = slowDue
    BY DEF RestDone, Published
  <1>2. job'[Poller].op \in {"none", "info"}
    BY PollEnded DEF CacheInv, PollInv, RestDone
  <1>. QED
    BY <1>1, <1>2 DEF CacheInv, TagsInv, PollInv, PollAt, CommandInv, EpochInv,
                      StaleInv, Live, None

\* The ends of a poll that leave the caches as they are: nothing was waiting
\* for publication and no slow read was under way.
LEMMA EndCaches ==
    ASSUME CacheInv, JobsTyped', LinkCounted, job[Poller].op \in {"fast", "probe", "info"},
           job'[Poller].op \in {"none", "info"}, UNCHANGED cacheVars, slowDue' = slowDue
    PROVE  CacheInv'
  <1>1. got.gen = 0
    BY DEF CacheInv, PollInv, PollAt, TagsInv
  <1>2. /\ Live(cmd)' => Live(cmd) /\ (Honest => reg' = reg)
        /\ Live(obs)' => Live(obs) /\ (Honest => reg' = reg)
        /\ ~Live(got)'
    BY <1>1 DEF CacheInv, TagsInv, LinkCounted, Live, cacheVars
  <1>3. TagsInv' /\ PollInv'
    BY <1>1 DEF CacheInv, TagsInv, PollInv, LinkCounted, cacheVars
  <1>. QED
    BY <1>2, <1>3 DEF CacheInv, CommandInv, EpochInv, StaleInv, PollAt, cacheVars

\* The slow reads are given up: there is no observation any more.
LEMMA LostCaches ==
    ASSUME CacheInv, JobsTyped', LinkCounted, NEW rest, SlowLost(rest)
    PROVE  CacheInv'
  <1>1. obs' = None /\ got' = None /\ cmd' = cmd /\ slowDue' = slowDue
    BY DEF SlowLost
  <1>2. job'[Poller].op \in {"none", "info"}
    BY PollEnded DEF CacheInv, PollInv, SlowLost
  <1>3. Live(cmd)' => Live(cmd) /\ (Honest => reg' = reg)
    BY <1>1 DEF CacheInv, TagsInv, LinkCounted, Live
  <1>4. TagsInv' /\ PollInv'
    BY <1>1, <1>2 DEF CacheInv, TagsInv, PollInv, LinkCounted, None
  <1>5. ~Live(obs)' /\ ~Live(got)'
    BY <1>1, <1>4 DEF TagsInv, Live, None
  <1>. QED
    BY <1>1, <1>3, <1>4, <1>5 DEF CacheInv, CommandInv, EpochInv, StaleInv

\* Every step of the poll.
LEMMA PollCaches ==
    ASSUME CacheInv, StartPoll \/ Poll
    PROVE  CacheInv'
  <1>1. JobsTyped /\ Poller \in Tasks /\ Poller \notin Writers
    BY LinkAssumption DEF CacheInv, PollInv, Tasks
  <1>2. JobsTyped'
    BY <1>1, PollSteps, StepMovesOne
  <1>3. /\ Again(Poller).op = job[Poller].op /\ Again(Poller).pc # "idle"
        /\ \A pc \in {"backoff", "disconnect"} :
              At(Poller, pc).op = job[Poller].op /\ At(Poller, pc).pc # "idle"
        /\ ProbeFirst(Poller).op = "probe" /\ ProbeFirst(Poller).pc # "idle"
    BY <1>1 DEF Again, At, ProbeFirst, Job
  <1>4. \A rest : PollFails(rest) =>
            job'[Poller].op = "none" /\ UNCHANGED cacheVars /\ slowDue' = slowDue
    BY <1>1, PollMoved DEF PollFails, PollOver, Idle, Job
  <1>5. \A rest : InfoDone(rest) =>
            job'[Poller].op = "none" /\ UNCHANGED cacheVars /\ slowDue' = slowDue
    BY <1>1, PollMoved DEF InfoDone, PollOver, Idle, Job
  <1>6. ASSUME gen' = gen /\ conn' = conn, Honest => reg' = reg, NEW missing, NEW rest,
               ReadsDone(missing, rest)
        PROVE  CacheInv'
    <2>1. LinkCounted
      BY <1>6 DEF LinkCounted
    <2>2. CASE job[Poller].op = "fast" /\ FastDone(missing, rest)
      BY <1>2, <1>6, <2>2, FastCaches
    <2>3. CASE job[Poller].op = "slow" /\ SlowDone(Reading(missing), rest)
      BY <1>2, <1>6, <2>3, SlowCaches
    <2>4. CASE job[Poller].op = "rest" /\ RestDone(missing, rest)
      BY <1>2, <1>6, <2>4, RestCaches
    <2>5. CASE job[Poller].op = "info" /\ InfoDone(rest)
      BY <1>2, <1>5, <2>1, <2>5, EndCaches
    <2>. QED
      BY <1>6, <2>2, <2>3, <2>4, <2>5 DEF ReadsDone
  <1>7. CASE StartPoll
    <2>1. /\ job[Poller].pc = "idle" /\ LinkCounted
          /\ UNCHANGED cacheVars /\ slowDue' = slowDue
      BY <1>7 DEF StartPoll, LinkCounted
    <2>2. job'[Poller].op \in {"fast", "probe"}
      BY <1>1, <1>7, PollMoved DEF StartPoll, Read, Job
    <2>3. got.gen = 0
      BY <2>1 DEF CacheInv, PollInv, PollAt, TagsInv
    <2>. QED
      BY <1>2, <2>1, <2>2, <2>3 DEF CacheInv, TagsInv, PollInv, PollAt, CommandInv,
            EpochInv, StaleInv, Live, LinkCounted, cacheVars
  <1>8. CASE PollReconnected
    <2>1. LinkCounted
      BY <1>8 DEF PollReconnected, Generation, Transport, LinkCounted
    <2>2. CASE \E rest : job[Poller].op = "probe" /\ PollFails(rest)
      BY <1>2, <1>4, <2>1, <2>2, EndCaches
    <2>3. CASE /\ UNCHANGED <<cacheVars, pollVars>>
               /\ \/ Move(Poller, Again(Poller), queue)
                  \/ job[Poller].op = "probe" /\ Move(Poller, ProbeFirst(Poller), queue)
      <3>1. PollGoesOn
        BY <1>1, <1>3, <2>3, PollMoved DEF PollGoesOn
      <3>2. UNCHANGED cacheVars /\ slowDue' = slowDue
        BY <2>3 DEF pollVars
      <3>. QED
        BY <1>2, <2>1, <3>1, <3>2, CachesAlone
    <2>. QED
      BY <1>8, <2>2, <2>3 DEF PollReconnected
  <1>9. CASE PollProbed
    <2>1. /\ gen' = gen /\ conn' = conn /\ reg' = reg /\ slowDue' = TRUE
          /\ obs' = None /\ cmd' = cmd /\ got' = got /\ job[Poller].op = "probe"
      BY <1>9 DEF PollProbed
    <2>2. got.gen = 0
      BY <2>1 DEF CacheInv, PollInv, PollAt, TagsInv
    <2>3. job'[Poller].op = "fast"
      BY <1>1, <1>9, PollMoved DEF PollProbed, Read, Job
    <2>. QED
      BY <1>2, <2>1, <2>2, <2>3 DEF CacheInv, TagsInv, PollInv, CommandInv,
            EpochInv, StaleInv, Live, None
  <1>10. CASE PollNotProbed
    <2>1. job[Poller].op = "probe" /\ LinkCounted
      BY <1>10 DEF PollNotProbed, Exception, LinkCounted, Honest
    <2>2. \E rest : PollFails(rest)
      BY <1>10 DEF PollNotProbed
    <2>. QED
      BY <1>2, <1>4, <2>1, <2>2, EndCaches
  <1>11. CASE PollAnswered
    BY <1>6, <1>11 DEF PollAnswered
  <1>12. CASE PollException
    <2>1. gen' = gen /\ conn' = conn /\ (Honest => reg' = reg) /\ LinkCounted
      BY <1>12 DEF PollException, Exception, LinkCounted, Honest
    <2>2. CASE \E rest : job[Poller].op = "fast" /\ PollFails(rest)
      BY <1>2, <1>4, <2>1, <2>2, EndCaches
    <2>3. CASE \E rest : ReadsDone(TRUE, rest)
      BY <1>6, <2>1, <2>3
    <2>4. CASE /\ UNCHANGED <<cacheVars, pollVars>>
               /\ \E rest : Move(Poller, AfterTransient(Poller), rest)
      <3>1. PollGoesOn
        BY <1>1, <1>3, <2>4, PollMoved DEF PollGoesOn, AfterTransient
      <3>2. UNCHANGED cacheVars /\ slowDue' = slowDue
        BY <2>4 DEF pollVars
      <3>. QED
        BY <1>2, <2>1, <3>1, <3>2, CachesAlone
    <2>. QED
      BY <1>12, <2>2, <2>3, <2>4 DEF PollException
  <1>13. CASE PollLost
    <2>1. LinkCounted
      BY <1>13 DEF PollLost, Refused, Lost, LinkCounted
    <2>2. CASE /\ UNCHANGED <<cacheVars, pollVars>>
               /\ \E rest : Move(Poller, AfterConnectionError(Poller), rest)
      <3>1. PollGoesOn
        BY <1>1, <1>3, <2>2, PollMoved DEF PollGoesOn, AfterConnectionError
      <3>2. UNCHANGED cacheVars /\ slowDue' = slowDue
        BY <2>2 DEF pollVars
      <3>. QED
        BY <1>2, <2>1, <3>1, <3>2, CachesAlone
    <2>3. CASE \E rest : PollDisconnected(rest)
      <3>1. PICK rest : PollDisconnected(rest)
        BY <2>3
      <3>2. CASE job[Poller].op = "fast" /\ PollOver(rest)
                    /\ UNCHANGED <<cacheVars, slowDue, slowStale, report>>
        <4>1. job'[Poller].op \in {"none", "info"}
          BY <1>1, <3>2, PollEnded
        <4>2. UNCHANGED cacheVars /\ slowDue' = slowDue
          BY <3>2
        <4>. QED
          BY <1>2, <2>1, <3>2, <4>1, <4>2, EndCaches
      <3>3. CASE job[Poller].op \in {"fast", "probe"} /\ PollFails(rest)
        BY <1>2, <1>4, <2>1, <3>3, EndCaches
      <3>4. CASE SlowLost(rest)
        BY <1>2, <2>1, <3>4, LostCaches
      <3>5. CASE job[Poller].op = "info" /\ InfoDone(rest)
        BY <1>2, <1>5, <2>1, <3>5, EndCaches
      <3>. QED
        BY <3>1, <3>2, <3>3, <3>4, <3>5 DEF PollDisconnected
    <2>. QED
      BY <1>13, <2>2, <2>3 DEF PollLost
  <1>. QED
    BY <1>7, <1>8, <1>9, <1>10, <1>11, <1>12, <1>13 DEF Poll

\* Steps inside the client leave the caches alone, and only drop the link.
LEMMA ClientCaches ==
    ASSUME CacheInv, NEW t \in Tasks, LinkStep(t)
    PROVE  CacheInv'
  <1>1. JobsTyped /\ job[t] \in AnyJob
    BY DEF CacheInv, PollInv, JobsTyped
  <1>2. UNCHANGED cacheVars /\ slowDue' = slowDue /\ LinkCounted
    BY DEF LinkStep, Send, WakeUp, Disconnect, Connect, LinkCounted, pollVars
  <1>3. PICK pc \in {"wire", "queued", "connect", "connecting"} :
            \/ job' = [job EXCEPT ![t] = At(t, pc)]
            \/ job' = [job EXCEPT ![t] = Again(t)]
    BY DEF LinkStep, Send, WakeUp, Disconnect, Connect, Move
  <1>4. JobsTyped'
    BY <1>1, <1>3 DEF JobsTyped, AnyJob, At, Again, Job
  <1>5. PollGoesOn
    <2>1. CASE t = Poller
      BY <1>1, <1>3, <2>1, LinkAssumption DEF PollGoesOn, JobsTyped, Tasks, At, Again, Job
    <2>2. CASE t # Poller
      BY <1>1, <1>3, <2>2 DEF PollGoesOn, JobsTyped, Tasks
    <2>. QED
      BY <2>1, <2>2
  <1>. QED
    BY <1>2, <1>4, <1>5, CachesAlone

\* The inductive step.
LEMMA CacheNext ==
    ASSUME CacheInv, [Next]_vars
    PROVE  CacheInv'
  <1>1. CASE \E t \in Tasks : LinkStep(t)
    BY <1>1, ClientCaches
  <1>2. CASE \E w \in Writers : Write(w) \/ \E v \in Values : StartWrite(w, v)
    BY <1>2, WriterCaches
  <1>3. CASE StartPoll \/ Poll
    BY <1>3, PollCaches
  <1>4. CASE StartUnload \/ Unloaded \/ UnloadExpires \/ UNCHANGED vars
    <2>1. /\ job' = job /\ UNCHANGED cacheVars /\ slowDue' = slowDue /\ LinkCounted
      BY <1>4 DEF StartUnload, Unloaded, ShutdownLink, UnloadExpires, vars, linkVars,
                  cacheVars, pollVars, LinkCounted
    <2>2. JobsTyped' /\ PollGoesOn
      BY <2>1 DEF CacheInv, PollInv, JobsTyped, PollGoesOn
    <2>. QED
      BY <2>1, <2>2, CachesAlone
  <1>5. CASE Restart
    <2>1. /\ job' = job /\ gen' = gen /\ conn' # "up" /\ slowDue' = slowDue /\ cmd' = cmd
          /\ obs'.gen = obs.gen /\ got'.gen = got.gen
      BY <1>5 DEF Restart, RestartInverter, connected, pollVars, Aged
    <2>. QED
      BY <2>1 DEF CacheInv, TagsInv, PollInv, PollAt, JobsTyped, CommandInv, EpochInv,
                  StaleInv, Live
  <1>. QED
    BY <1>1, <1>2, <1>3, <1>4, <1>5 DEF Next

\* In every reachable state the caches are worth what they claim.
LEMMA CachesHold == Spec => []CacheInv
  <1>1. Init => CacheInv
    <2>1. Idle \in AnyJob
      BY LinkAssumption DEF Idle, Job, AnyJob
    <2>. QED
      BY <2>1 DEF Init, LinkInit, CacheInv, TagsInv, PollInv, JobsTyped, CommandInv,
                  EpochInv, StaleInv, Live, None, Idle, Job, Tasks
  <1>2. CacheInv /\ [Next]_vars => CacheInv'
    BY CacheNext
  <1>. QED
    BY <1>1, <1>2, PTL DEF Spec

\* last_commanded(): "A value is trusted only while the connection generation
\* is unchanged".  What it answers on a live link is what the inverter holds,
\* for any number of writers and any history of restarts, retries, reconnects
\* and lost answers.
THEOREM CommandsAreTrue ==
    ASSUME Honest
    PROVE  Spec => []CommandTrue
  <1>1. CacheInv => CommandTrue
    BY DEF CacheInv, CommandInv, CommandTrue, Live
  <1>. QED
    BY <1>1, CachesHold, PTL

\* proxy_cache_data: on a live link nothing that was read before the inverter
\* restarted is served.
THEOREM ProxyServesThisEpoch == Spec => []NothingFromBeforeRestart
  <1>1. CacheInv => NothingFromBeforeRestart
    BY DEF CacheInv, EpochInv, NothingFromBeforeRestart, Served, Live
  <1>. QED
    BY <1>1, CachesHold, PTL

\* An observation that a write has overtaken is read again: the slow read that
\* replaces it is due or under way.
THEOREM WrongObservationIsReadAgain ==
    ASSUME Honest
    PROVE  Spec => []StaleIsReadAgain
  <1>1. CacheInv => StaleIsReadAgain
    BY DEF CacheInv, StaleInv, StaleIsReadAgain, Served, Live, PollAt
  <1>. QED
    BY <1>1, CachesHold, PTL
=============================================================================
