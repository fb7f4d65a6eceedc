---------------------------- MODULE SessionControl ----------------------------
(***************************************************************************)
(* The start and stop handlers of app/main.py over the rows of             *)
(* Orchestrator and the executor of RuntimeManager, with the startup and   *)
(* shutdown of the process (lifespan).                                     *)
(*                                                                         *)
(* The handlers are coroutines of one event loop.  Between two awaits a    *)
(* handler runs alone, blocking the loop on the database, but each commit  *)
(* is a step of its own because the process may die between two commits.   *)
(* Between its awaits other handlers run and change the rows it has read.  *)
(*                                                                         *)
(* A call that answers without writing (an active session returned, a      *)
(* replayed key, 404, 429) is a stuttering step and has no action.         *)
(***************************************************************************)
EXTENDS Orchestrator, RuntimeManager

CONSTANTS
  Free,         \* no handler's code is running
  MaxClock,     \* bound on the clock
  MaxRestarts,  \* bound on crashes and shutdowns
  MaxFaults     \* bound on failures of browsers and page loads

ASSUME SessionControlAssumption ==
  /\ Free \notin Requests
  /\ MaxClock \in Nat
  /\ MaxRestarts \in Nat
  /\ MaxFaults \in Nat

VARIABLES
  phase,         \* where lifespan is: down, recovered or serving
  loop,          \* the handler whose code the event loop runs, or Free
  pc,            \* where each request slot's handler is
  sess,          \* its session row
  task,          \* position of its stop task
  rt,            \* the context of the runtime launch returned or stop popped
  seen,          \* profile.status as its database session loaded it
  profStatus,    \* profiles.status
  startEvents,   \* usage_events of metric session_start, per session
  secondsEvents, \* usage_events of metric runtime_seconds, per session
  restarts,      \* crashes and shutdowns so far
  faults         \* browser failures so far

handlerVars == <<loop, pc, sess, task, rt, seen>>
usageVars   == <<startEvents, secondsEvents>>
envVars     == <<phase, restarts, faults, now>>
vars == <<dbVars, rmVars, handlerVars, usageVars, profStatus, envVars>>

NoSession == 0

Phases == {"down", "recovered", "serving"}

StartPCs == {"enqueued", "launchwait", "launching", "goto", "title",
             "completed", "failed"}
StopPCs  == {"stopqueued", "stopwait", "closing", "stopped"}
PCs      == StartPCs \cup StopPCs \cup {"idle"}

ProfileStates == {"ready", "online", "error"}

ControlTypeOK ==
  /\ phase \in Phases
  /\ loop \in Requests \cup {Free}
  /\ pc \in [Requests -> PCs]
  /\ sess \in [Requests -> Sessions \cup {NoSession}]
  /\ task \in [Requests -> Nat]
  /\ rt \in [Requests -> Sessions \cup {NoRuntime}]
  /\ seen \in [Requests -> ProfileStates]
  /\ profStatus \in [Profiles -> ProfileStates]
  /\ startEvents \in [Sessions -> Nat]
  /\ secondsEvents \in [Sessions -> Nat]
  /\ restarts \in Nat
  /\ faults \in Nat

TypeOK ==
  /\ OrchestratorTypeOK
  /\ RuntimeManagerTypeOK
  /\ ControlTypeOK

Init ==
  /\ OrchestratorInit
  /\ RuntimeManagerInit
  /\ phase = "down"
  /\ loop = Free
  /\ pc = [r \in Requests |-> "idle"]
  /\ sess = [r \in Requests |-> NoSession]
  /\ task = [r \in Requests |-> 0]
  /\ rt = [r \in Requests |-> NoRuntime]
  /\ seen = [r \in Requests |-> "ready"]
  /\ profStatus = [p \in Profiles |-> "ready"]
  /\ startEvents = [s \in Sessions |-> 0]
  /\ secondsEvents = [s \in Sessions |-> 0]
  /\ restarts = 0
  /\ faults = 0

-----------------------------------------------------------------------------
(* Control of the handlers.                                                *)

ProfileOf(r) == sessProfile[sess[r]]

\* Handler r is at l and its code runs next.
Running(r, l) == loop = r /\ pc[r] = l

\* Handler r is suspended at l and the event loop may resume it.
Resumed(r, l) == loop = Free /\ pc[r] = l

\* Handler r goes on at l without giving the loop back.
Continue(r, l) == pc' = [pc EXCEPT ![r] = l] /\ loop' = r

\* Handler r awaits at l.
Await(r, l) == pc' = [pc EXCEPT ![r] = l] /\ loop' = Free

\* Handler r awaits the lock at l: acquire() does not suspend when the lock
\* is free.
AwaitLock(r, l) ==
  /\ JoinLock(r)
  /\ pc' = [pc EXCEPT ![r] = l]
  /\ loop' = IF lockq = <<>> THEN r ELSE Free

\* Handler r answers its request; its slot is free for another.
Answer(r) ==
  /\ pc' = [pc EXCEPT ![r] = "idle"]
  /\ loop' = Free
  /\ sess' = [sess EXCEPT ![r] = NoSession]
  /\ task' = [task EXCEPT ![r] = 0]
  /\ rt' = [rt EXCEPT ![r] = NoRuntime]
  /\ seen' = [seen EXCEPT ![r] = "ready"]

\* The lock is granted to r, which waits for it at l.
Granted(r, l) ==
  /\ loop \in {r, Free}
  /\ pc[r] = l
  /\ HoldsLock(r)

\* SQLAlchemy updates a column only when the assigned value differs from the
\* one this database session loaded.
AssignProfileStatus(r, v) ==
  profStatus' = IF seen[r] = v THEN profStatus
                ELSE [profStatus EXCEPT ![ProfileOf(r)] = v]

\* Something outside the program may still fail.
FaultHappens ==
  /\ faults < MaxFaults
  /\ faults' = faults + 1

-----------------------------------------------------------------------------
(* start_session.                                                          *)

\* Mutant: the limit is compared with one session too few.
StartAdmitted_OffByOne(p, k) ==
  /\ k = NoKey => ActiveSessions(p) = {}
  /\ IdempotentHits(OrgOf[p], k) = {}
  /\ Cardinality(ActiveInOrg(OrgOf[p])) <= Limit

\* Mutant: the active session is not looked up.
StartAdmitted_NoActiveCheck(p, k) ==
  /\ IdempotentHits(OrgOf[p], k) = {}
  /\ Cardinality(ActiveInOrg(OrgOf[p])) < Limit

\* The checks before enqueue_start, in the order of the code.
StartAdmitted(p, k) ==
  /\ k = NoKey => ActiveSessions(p) = {}
  /\ IdempotentHits(OrgOf[p], k) = {}
  /\ Cardinality(ActiveInOrg(OrgOf[p])) < Limit

\* From the request to the commit of enqueue_start.
StartEnqueue(r, p, k) ==
  /\ phase = "serving"
  /\ Resumed(r, "idle")
  /\ StartAdmitted(p, k)
  /\ \E s \in Sessions :
       /\ EnqueueStart(s, p, k)
       /\ sess' = [sess EXCEPT ![r] = s]
  /\ seen' = [seen EXCEPT ![r] = profStatus[p]]
  /\ Continue(r, "enqueued")
  /\ UNCHANGED <<rmVars, task, rt, usageVars, profStatus, envVars>>

\* acquire_local_lease commits and launch asks for the lock.
StartAcquire(r) ==
  /\ Running(r, "enqueued")
  /\ AcquireLease(sess[r])
  /\ AwaitLock(r, "launchwait")
  /\ UNCHANGED <<sess, task, rt, seen, usageVars, profStatus, envVars>>

\* acquire_local_lease raises 503 outside the try: nothing is undone.
StartRefused(r) ==
  /\ Running(r, "enqueued")
  /\ RefuseLease
  /\ Answer(r)
  /\ UNCHANGED <<rmVars, usageVars, profStatus, envVars>>

\* Mutant: any registered runtime will do.
LaunchExisting_AnyProfile(r) ==
  /\ Granted(r, "launchwait")
  /\ \E p \in Profiles :
       /\ LaunchReturnsRegistered(r, p)
       /\ rt' = [rt EXCEPT ![r] = registry[p]]
  /\ Await(r, "title")
  /\ UNCHANGED <<dbVars, sess, task, seen, usageVars, profStatus, envVars>>

\* launch finds a registered runtime; the handler awaits its page's title.
LaunchExisting(r) ==
  /\ Granted(r, "launchwait")
  /\ LaunchReturnsRegistered(r, ProfileOf(r))
  /\ rt' = [rt EXCEPT ![r] = registry[ProfileOf(r)]]
  /\ Await(r, "title")
  /\ UNCHANGED <<dbVars, sess, task, seen, usageVars, profStatus, envVars>>

\* Mutant: launch does not look whether the profile is registered.
LaunchBegin_Unchecked(r) ==
  /\ Granted(r, "launchwait")
  /\ Await(r, "launching")
  /\ UNCHANGED <<dbVars, rmVars, sess, task, rt, seen, usageVars, profStatus,
                 envVars>>

\* launch awaits launch_persistent_context, holding the lock.
LaunchBegin(r) ==
  /\ Granted(r, "launchwait")
  /\ registry[ProfileOf(r)] = NoRuntime
  /\ Await(r, "launching")
  /\ UNCHANGED <<dbVars, rmVars, sess, task, rt, seen, usageVars, profStatus,
                 envVars>>

LaunchOpened(r) ==
  /\ Resumed(r, "launching")
  /\ OpenContext(r, sess[r])
  /\ Await(r, "goto")
  /\ UNCHANGED <<dbVars, sess, task, rt, seen, usageVars, profStatus, envVars>>

\* Another browser has the profile directory open.
DirectoryBusy(s) ==
  \E t \in Sessions \ {s} :
    ctx[t] = "open" /\ sessProfile[t] = sessProfile[s]

\* The except block of start_session up to the commit of fail_start.
StartFails(r) ==
  /\ FailStart(sess[r])
  /\ Continue(r, "failed")
  /\ UNCHANGED <<sess, task, rt, seen, usageVars, profStatus, phase, restarts,
                 now>>

LaunchFails(r) ==
  /\ Resumed(r, "launching")
  /\ LaunchRaises(r)
  /\ \/ FaultHappens
     \/ DirectoryBusy(sess[r]) /\ UNCHANGED faults
  /\ StartFails(r)

\* page.goto returned in time: the runtime is registered, the lock released,
\* and the handler awaits the title.
GotoLoaded(r) ==
  /\ Resumed(r, "goto")
  /\ Register(r, ProfileOf(r), sess[r])
  /\ rt' = [rt EXCEPT ![r] = sess[r]]
  /\ Await(r, "title")
  /\ UNCHANGED <<dbVars, sess, task, seen, usageVars, profStatus, envVars>>

\* new_page or goto raises: a timeout, an unreachable page, a dead browser.
GotoFails(r) ==
  /\ Resumed(r, "goto")
  /\ LaunchRaises(r)
  /\ \/ FaultHappens
     \/ ctx[sess[r]] = "closed" /\ UNCHANGED faults
  /\ StartFails(r)

\* page.title() answers; complete_start commits.
TitleRead(r) ==
  /\ Resumed(r, "title")
  /\ ctx[rt[r]] = "open"
  /\ CompleteStart(sess[r])
  /\ Continue(r, "completed")
  /\ UNCHANGED <<rmVars, sess, task, rt, seen, usageVars, profStatus, envVars>>

TitleFails(r) ==
  /\ Resumed(r, "title")
  /\ \/ FaultHappens
     \/ ctx[rt[r]] = "closed" /\ UNCHANGED faults
  /\ StartFails(r)
  /\ UNCHANGED rmVars

\* The commit of profile status and usage event, then the answer.
StartFinish(r) ==
  /\ Running(r, "completed")
  /\ AssignProfileStatus(r, "online")
  /\ startEvents' = [startEvents EXCEPT ![sess[r]] = @ + 1]
  /\ Answer(r)
  /\ UNCHANGED <<dbVars, rmVars, secondsEvents, envVars>>

StartFailFinish(r) ==
  /\ Running(r, "failed")
  /\ AssignProfileStatus(r, "error")
  /\ Answer(r)
  /\ UNCHANGED <<dbVars, rmVars, usageVars, envVars>>

-----------------------------------------------------------------------------
(* stop_session.                                                           *)

\* No active session: only the profile's status is written, and a runtime
\* that is still registered stays.
StopNothingActive(r, p) ==
  /\ phase = "serving"
  /\ Resumed(r, "idle")
  /\ ActiveSessions(p) = {}
  /\ profStatus' = [profStatus EXCEPT ![p] = "ready"]
  /\ UNCHANGED <<dbVars, rmVars, handlerVars, usageVars, envVars>>

\* From the request to the commit of enqueue_stop.  Reusing an open task
\* writes nothing, but the handler is on its way.
StopEnqueue(r, p) ==
  /\ phase = "serving"
  /\ Resumed(r, "idle")
  /\ \E s \in Sessions :
       /\ IsNewestActive(s, p)
       /\ sess' = [sess EXCEPT ![r] = s]
       /\ \E i \in 1..(Len(stopTasks[s]) + 1) :
            /\ EnqueueStop(s, i)
            /\ task' = [task EXCEPT ![r] = i]
  /\ seen' = [seen EXCEPT ![r] = profStatus[p]]
  /\ Continue(r, "stopqueued")
  /\ UNCHANGED <<rmVars, rt, usageVars, profStatus, envVars>>

\* mark_stop_running commits and runtime_manager.stop asks for the lock.
StopMarkRunning(r) ==
  /\ Running(r, "stopqueued")
  /\ MarkStopRunning(sess[r], task[r])
  /\ AwaitLock(r, "stopwait")
  /\ UNCHANGED <<sess, task, rt, seen, usageVars, profStatus, envVars>>

\* complete_stop commits.
StopCompletes(r) ==
  /\ CompleteStop(sess[r], task[r])
  /\ Continue(r, "stopped")

\* Nothing is registered for the profile: stop has nothing to close.
StopPopsNothing(r) ==
  /\ Granted(r, "stopwait")
  /\ registry[ProfileOf(r)] = NoRuntime
  /\ Pop(r, ProfileOf(r))
  /\ StopCompletes(r)
  /\ UNCHANGED <<sess, task, rt, seen, usageVars, profStatus, envVars>>

\* The runtime is popped, the lock released, and context.close() awaited.
StopPops(r) ==
  /\ Granted(r, "stopwait")
  /\ registry[ProfileOf(r)] # NoRuntime
  /\ Pop(r, ProfileOf(r))
  /\ rt' = [rt EXCEPT ![r] = registry[ProfileOf(r)]]
  /\ Await(r, "closing")
  /\ UNCHANGED <<dbVars, sess, task, seen, usageVars, profStatus, envVars>>

StopClosed(r) ==
  /\ Resumed(r, "closing")
  /\ CloseContext(rt[r])
  /\ StopCompletes(r)
  /\ UNCHANGED <<sess, task, rt, seen, usageVars, profStatus, envVars>>

\* context.close() raises: fail_stop commits and the request answers 503.
\* The session keeps its status, its lease and no runtime.
StopCloseFails(r) ==
  /\ Resumed(r, "closing")
  /\ CloseContextRaises(rt[r])
  /\ \/ FaultHappens
     \/ ctx[rt[r]] = "closed" /\ UNCHANGED faults
  /\ FailStop(sess[r], task[r])
  /\ Answer(r)
  /\ UNCHANGED <<usageVars, profStatus, phase, restarts, now>>

\* Mutant: the usage event is not written.
StopFinish_NoUsage(r) ==
  /\ Running(r, "stopped")
  /\ AssignProfileStatus(r, "ready")
  /\ Answer(r)
  /\ UNCHANGED <<dbVars, rmVars, usageVars, envVars>>

\* The commit of profile status and usage event, then the answer.
StopFinish(r) ==
  /\ Running(r, "stopped")
  /\ AssignProfileStatus(r, "ready")
  /\ secondsEvents' = [secondsEvents EXCEPT ![sess[r]] = @ + 1]
  /\ Answer(r)
  /\ UNCHANGED <<dbVars, rmVars, startEvents, envVars>>

-----------------------------------------------------------------------------
(* The process and its environment.                                        *)

StartupRecover ==
  /\ phase = "down"
  /\ RecoverExpiredLeases
  /\ phase' = "recovered"
  /\ UNCHANGED <<rmVars, handlerVars, usageVars, profStatus, restarts, faults,
                 now>>

\* ensure_local_worker and heartbeat; then requests are served.
StartupHeartbeat ==
  /\ phase = "recovered"
  /\ Heartbeat
  /\ phase' = "serving"
  /\ UNCHANGED <<rmVars, handlerVars, usageVars, profStatus, restarts, faults,
                 now>>

\* What dies with the process: its handlers and its runtimes, no row.
ProcessEnds ==
  /\ restarts < MaxRestarts
  /\ restarts' = restarts + 1
  /\ phase' = "down"
  /\ LoseEverything
  /\ loop' = Free
  /\ pc' = [r \in Requests |-> "idle"]
  /\ sess' = [r \in Requests |-> NoSession]
  /\ task' = [r \in Requests |-> 0]
  /\ rt' = [r \in Requests |-> NoRuntime]
  /\ seen' = [r \in Requests |-> "ready"]
  /\ UNCHANGED <<dbVars, usageVars, profStatus, faults, now>>

\* Shutdown closes the registered runtimes once no request is in flight, and
\* leaves sessions and leases as they are.
Shutdown ==
  /\ phase = "serving"
  /\ \A r \in Requests : pc[r] = "idle"
  /\ ProcessEnds

Crash == ProcessEnds

\* A browser exits by itself; nobody is told.
BrowserDies(s) ==
  /\ ctx[s] = "open"
  /\ FaultHappens
  /\ CloseContext(s)
  /\ UNCHANGED <<dbVars, handlerVars, usageVars, profStatus, phase, restarts,
                 now>>

Tick ==
  /\ now < MaxClock
  /\ now' = now + 1
  /\ UNCHANGED <<dbVars, rmVars, handlerVars, usageVars, profStatus, phase,
                 restarts, faults>>

-----------------------------------------------------------------------------

StartRequest(r) == \E p \in Profiles, k \in Keys \cup {NoKey} : StartEnqueue(r, p, k)

StopRequest(r) == \E p \in Profiles : StopEnqueue(r, p) \/ StopNothingActive(r, p)

\* The steps of a handler that has begun.
StartStep(r) ==
  \/ StartAcquire(r) \/ StartRefused(r)
  \/ LaunchExisting(r) \/ LaunchBegin(r) \/ LaunchOpened(r) \/ LaunchFails(r)
  \/ GotoLoaded(r) \/ GotoFails(r)
  \/ TitleRead(r) \/ TitleFails(r)
  \/ StartFinish(r) \/ StartFailFinish(r)

StopStep(r) ==
  \/ StopMarkRunning(r)
  \/ StopPopsNothing(r) \/ StopPops(r)
  \/ StopClosed(r) \/ StopCloseFails(r)
  \/ StopFinish(r)

Startup == StartupRecover \/ StartupHeartbeat

Environment == Shutdown \/ Crash \/ Tick \/ \E s \in Sessions : BrowserDies(s)

Next ==
  \/ \E r \in Requests : StartRequest(r) \/ StopRequest(r)
  \/ \E r \in Requests : StartStep(r) \/ StopStep(r)
  \/ Startup
  \/ Environment

Spec == Init /\ [][Next]_vars

\* The event loop resumes a handler whose await is over, Playwright ends
\* every call by an answer or an exception, a process that is down is started
\* again, and time passes.  Nobody has to send a request, and nothing has to fail.
Fairness ==
  /\ \A r \in Requests : WF_vars(StartStep(r)) /\ WF_vars(StopStep(r))
  /\ WF_vars(Startup)
  /\ WF_vars(Tick)

FairSpec == Spec /\ Fairness
=============================================================================
