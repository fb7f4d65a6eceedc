----------------------------- MODULE SessionProofs -----------------------------
(***************************************************************************)
(* Proofs about SessionControl, for every number of profiles,              *)
(* organizations, keys, requests and sessions.                             *)
(*                                                                         *)
(* The argument has three parts.  RowSteps and RuntimeSteps say what a     *)
(* step of the whole system can do to the rows and to the executor, so     *)
(* that the rest does not look at forty actions again.  IInv is the        *)
(* inductive invariant: besides the types it says what a handler may       *)
(* assume of its session at each of its awaits.  The theorems follow from  *)
(* Spec => []IInv.                                                         *)
(***************************************************************************)
EXTENDS SessionProperties, SequenceUpdates, FiniteSetTheorems, TLAPS

-----------------------------------------------------------------------------
(* What a step of the whole system does to the rows and to the runtimes.   *)

\* The start handlers between acquire_local_lease and its outcome.
LaunchPCs == {"launchwait", "launching", "goto", "title"}

\* Every step leaves the rows alone or is one method of the orchestrator,
\* called by a handler at the place where the code calls it.
RowStep ==
  \/ UNCHANGED dbVars
  \/ \E s \in Sessions, p \in Profiles, k \in Keys \cup {NoKey} :
       StartAdmitted(p, k) /\ EnqueueStart(s, p, k)
  \/ \E r \in Requests : pc[r] = "enqueued" /\ AcquireLease(sess[r])
  \/ \E r \in Requests : pc[r] = "title" /\ CompleteStart(sess[r])
  \/ \E r \in Requests : pc[r] \in LaunchPCs /\ FailStart(sess[r])
  \/ \E s \in Sessions, i \in Nat : EnqueueStop(s, i)
  \/ \E r \in Requests : pc[r] = "stopqueued" /\ MarkStopRunning(sess[r], task[r])
  \/ \E r \in Requests : pc[r] \in StopPCs /\ CompleteStop(sess[r], task[r])
  \/ \E r \in Requests : pc[r] \in StopPCs /\ FailStop(sess[r], task[r])
  \/ phase # "serving" /\ RecoverExpiredLeases
  \/ Heartbeat

\* Whatever handler runs, crashes or starts up, the rows change only by one
\* method of the orchestrator, called from the program point the code has.
LEMMA RowSteps == ASSUME TypeOK, [Next]_vars PROVE RowStep
<1> USE DEF RowStep, LaunchPCs, StopPCs, Running, Resumed, Granted

<1>a. ASSUME NEW r \in Requests, NEW p \in Profiles, NEW k \in Keys \cup {NoKey},
             StartEnqueue(r, p, k)
      PROVE  RowStep
  BY <1>a DEF StartEnqueue
<1>b. ASSUME NEW r \in Requests, NEW p \in Profiles, StopEnqueue(r, p)
      PROVE  RowStep
  BY <1>b DEF StopEnqueue, TypeOK, OrchestratorTypeOK
<1>c. ASSUME NEW r \in Requests, NEW p \in Profiles, StopNothingActive(r, p)
      PROVE  RowStep
  BY <1>c DEF StopNothingActive
<1>1. ASSUME NEW r \in Requests, StartAcquire(r) PROVE RowStep
  BY <1>1 DEF StartAcquire
<1>2. ASSUME NEW r \in Requests, StartRefused(r) PROVE RowStep
  BY <1>2 DEF StartRefused, RefuseLease
<1>3. ASSUME NEW r \in Requests, LaunchExisting(r) PROVE RowStep
  BY <1>3 DEF LaunchExisting
<1>4. ASSUME NEW r \in Requests, LaunchBegin(r) PROVE RowStep
  BY <1>4 DEF LaunchBegin
<1>5. ASSUME NEW r \in Requests, LaunchOpened(r) PROVE RowStep
  BY <1>5 DEF LaunchOpened
<1>6. ASSUME NEW r \in Requests, LaunchFails(r) PROVE RowStep
  BY <1>6 DEF LaunchFails, StartFails
<1>7. ASSUME NEW r \in Requests, GotoLoaded(r) PROVE RowStep
  BY <1>7 DEF GotoLoaded
<1>8. ASSUME NEW r \in Requests, GotoFails(r) PROVE RowStep
  BY <1>8 DEF GotoFails, StartFails
<1>9. ASSUME NEW r \in Requests, TitleRead(r) PROVE RowStep
  BY <1>9 DEF TitleRead
<1>10. ASSUME NEW r \in Requests, TitleFails(r) PROVE RowStep
  BY <1>10 DEF TitleFails, StartFails
<1>11. ASSUME NEW r \in Requests, StartFinish(r) PROVE RowStep
  BY <1>11 DEF StartFinish
<1>12. ASSUME NEW r \in Requests, StartFailFinish(r) PROVE RowStep
  BY <1>12 DEF StartFailFinish
<1>13. ASSUME NEW r \in Requests, StopMarkRunning(r) PROVE RowStep
  BY <1>13 DEF StopMarkRunning
<1>14. ASSUME NEW r \in Requests, StopPopsNothing(r) PROVE RowStep
  BY <1>14 DEF StopPopsNothing, StopCompletes
<1>15. ASSUME NEW r \in Requests, StopPops(r) PROVE RowStep
  BY <1>15 DEF StopPops
<1>16. ASSUME NEW r \in Requests, StopClosed(r) PROVE RowStep
  BY <1>16 DEF StopClosed, StopCompletes
<1>17. ASSUME NEW r \in Requests, StopCloseFails(r) PROVE RowStep
  BY <1>17 DEF StopCloseFails
<1>18. ASSUME NEW r \in Requests, StopFinish(r) PROVE RowStep
  BY <1>18 DEF StopFinish
<1>d. CASE Startup
  BY <1>d DEF Startup, StartupRecover, StartupHeartbeat
<1>e. CASE ProcessEnds
  BY <1>e DEF ProcessEnds
<1>f. CASE Tick
  BY <1>f DEF Tick
<1>g. ASSUME NEW s \in Sessions, BrowserDies(s) PROVE RowStep
  BY <1>g DEF BrowserDies
<1>h. CASE UNCHANGED vars
  BY <1>h DEF vars
<1> QED
  BY <1>1, <1>2, <1>3, <1>4, <1>5, <1>6, <1>7, <1>8, <1>9, <1>10, <1>11,
     <1>12, <1>13, <1>14, <1>15, <1>16, <1>17, <1>18,
     <1>a, <1>b, <1>c, <1>d, <1>e, <1>f, <1>g, <1>h
  DEF Next, StartRequest, StopRequest, StartStep, StopStep, Environment,
      Shutdown, Crash

\* Likewise the runtimes: one operation of the executor, or none.
RuntimeStep ==
  \/ UNCHANGED rmVars
  \/ \E r \in Requests : JoinLock(r)
  \/ \E r \in Requests : LaunchRaises(r)
  \/ \E r \in Requests : pc[r] = "launching" /\ OpenContext(r, sess[r])
  \/ \E r \in Requests : pc[r] = "goto" /\ Register(r, ProfileOf(r), sess[r])
  \/ \E r \in Requests : Pop(r, ProfileOf(r))
  \/ \E s \in Sessions \cup {NoRuntime} : CloseContext(s)
  \/ \E s \in Sessions \cup {NoRuntime} : CloseContextRaises(s)
  \/ LoseEverything

\* Lock, registry and contexts change only by the steps of the executor.
LEMMA RuntimeSteps == ASSUME TypeOK, [Next]_vars PROVE RuntimeStep
<1> USE DEF RuntimeStep, Resumed, TypeOK, ControlTypeOK
<1>a. ASSUME NEW r \in Requests, NEW p \in Profiles, NEW k \in Keys \cup {NoKey},
             StartEnqueue(r, p, k)
      PROVE  RuntimeStep
  BY <1>a DEF StartEnqueue
<1>b. ASSUME NEW r \in Requests, NEW p \in Profiles, StopEnqueue(r, p)
      PROVE  RuntimeStep
  BY <1>b DEF StopEnqueue
<1>c. ASSUME NEW r \in Requests, NEW p \in Profiles, StopNothingActive(r, p)
      PROVE  RuntimeStep
  BY <1>c DEF StopNothingActive
<1>1. ASSUME NEW r \in Requests, StartAcquire(r) PROVE RuntimeStep
  BY <1>1 DEF StartAcquire, AwaitLock
<1>2. ASSUME NEW r \in Requests, StartRefused(r) PROVE RuntimeStep
  BY <1>2 DEF StartRefused
<1>3. ASSUME NEW r \in Requests, LaunchExisting(r) PROVE RuntimeStep
  BY <1>3 DEF LaunchExisting, LaunchReturnsRegistered, LaunchRaises
<1>4. ASSUME NEW r \in Requests, LaunchBegin(r) PROVE RuntimeStep
  BY <1>4 DEF LaunchBegin
<1>5. ASSUME NEW r \in Requests, LaunchOpened(r) PROVE RuntimeStep
  BY <1>5 DEF LaunchOpened
<1>6. ASSUME NEW r \in Requests, LaunchFails(r) PROVE RuntimeStep
  BY <1>6 DEF LaunchFails
<1>7. ASSUME NEW r \in Requests, GotoLoaded(r) PROVE RuntimeStep
  BY <1>7 DEF GotoLoaded
<1>8. ASSUME NEW r \in Requests, GotoFails(r) PROVE RuntimeStep
  BY <1>8 DEF GotoFails
<1>9. ASSUME NEW r \in Requests, TitleRead(r) PROVE RuntimeStep
  BY <1>9 DEF TitleRead
<1>10. ASSUME NEW r \in Requests, TitleFails(r) PROVE RuntimeStep
  BY <1>10 DEF TitleFails
<1>11. ASSUME NEW r \in Requests, StartFinish(r) PROVE RuntimeStep
  BY <1>11 DEF StartFinish
<1>12. ASSUME NEW r \in Requests, StartFailFinish(r) PROVE RuntimeStep
  BY <1>12 DEF StartFailFinish
<1>13. ASSUME NEW r \in Requests, StopMarkRunning(r) PROVE RuntimeStep
  BY <1>13 DEF StopMarkRunning, AwaitLock
<1>14. ASSUME NEW r \in Requests, StopPopsNothing(r) PROVE RuntimeStep
  BY <1>14 DEF StopPopsNothing
<1>15. ASSUME NEW r \in Requests, StopPops(r) PROVE RuntimeStep
  BY <1>15 DEF StopPops
<1>16. ASSUME NEW r \in Requests, StopClosed(r) PROVE RuntimeStep
  BY <1>16 DEF StopClosed
<1>17. ASSUME NEW r \in Requests, StopCloseFails(r) PROVE RuntimeStep
  BY <1>17 DEF StopCloseFails
<1>18. ASSUME NEW r \in Requests, StopFinish(r) PROVE RuntimeStep
  BY <1>18 DEF StopFinish
<1>d. CASE Startup
  BY <1>d DEF Startup, StartupRecover, StartupHeartbeat
<1>e. CASE ProcessEnds
  BY <1>e DEF ProcessEnds
<1>f. CASE Tick
  BY <1>f DEF Tick
<1>g. ASSUME NEW s \in Sessions, BrowserDies(s) PROVE RuntimeStep
  BY <1>g DEF BrowserDies
<1>h. CASE UNCHANGED vars
  BY <1>h DEF vars
<1> QED
  BY <1>1, <1>2, <1>3, <1>4, <1>5, <1>6, <1>7, <1>8, <1>9, <1>10, <1>11,
     <1>12, <1>13, <1>14, <1>15, <1>16, <1>17, <1>18,
     <1>a, <1>b, <1>c, <1>d, <1>e, <1>f, <1>g, <1>h
  DEF Next, StartRequest, StopRequest, StartStep, StopStep, Environment,
      Shutdown, Crash

-----------------------------------------------------------------------------
(* Types.                                                                  *)

\* What TypeOK needs to be inductive: a handler at work has a stored session,
\* and a stored session has a profile.
HandlersHaveSessions ==
  /\ \A s \in Stored : sessProfile[s] \in Profiles
  /\ \A r \in Requests : pc[r] # "idle" => sess[r] \in Stored

RowsTypeOK ==
  /\ sessStatus \in [Sessions -> SessionStates]
  /\ sessProfile \in [Sessions -> Profiles \cup {NoProfile}]
  /\ sessKey \in [Sessions -> Keys \cup {NoKey}]
  /\ startTask \in [Sessions -> TaskStates]
  /\ stopTasks \in [Sessions -> Seq(TaskStates)]
  /\ leaseStatus \in [Sessions -> LeaseStates]
  /\ leaseExpiry \in [Sessions -> Nat]

\* The methods of the orchestrator keep the types of the rows.
LEMMA RowsStayTyped ==
  ASSUME OrchestratorTypeOK, RowStep PROVE RowsTypeOK'
<1> USE DeploymentAssumption
<1> USE DEF OrchestratorTypeOK, RowsTypeOK, SessionStates, ActiveStates,
            TaskStates, LeaseStates, sessVars, taskVars, leaseVars, dbVars
<1>1. CASE UNCHANGED dbVars
  BY <1>1
<1>2. ASSUME NEW s \in Sessions, NEW p \in Profiles, NEW k \in Keys \cup {NoKey},
             EnqueueStart(s, p, k)
      PROVE  RowsTypeOK'
  BY <1>2 DEF EnqueueStart
<1>3. ASSUME NEW s, AcquireLease(s) PROVE RowsTypeOK'
  <2>1. now + LeaseTTL \in Nat
    BY DEF DeploymentAssumption
  <2> QED
    BY <1>3, <2>1 DEF AcquireLease
<1>4. ASSUME NEW s, CompleteStart(s) PROVE RowsTypeOK'
  BY <1>4 DEF CompleteStart
<1>5. ASSUME NEW s, FailStart(s) PROVE RowsTypeOK'
  BY <1>5 DEF FailStart
<1>6. ASSUME NEW s \in Sessions, NEW i \in Nat, EnqueueStop(s, i) PROVE RowsTypeOK'
  <2>1. stopTasks[s] \in Seq(TaskStates)
    OBVIOUS
  <2>2. Append(stopTasks[s], "queued") \in Seq(TaskStates)
    BY <2>1
  <2>3. stopTasks' \in [Sessions -> Seq(TaskStates)]
    BY <1>6, <2>2 DEF EnqueueStop
  <2> QED
    BY <1>6, <2>3 DEF EnqueueStop
<1>7. ASSUME NEW s, NEW i, NEW v \in TaskStates,
             stopTasks' = [stopTasks EXCEPT ![s][i] = v]
      PROVE  stopTasks' \in [Sessions -> Seq(TaskStates)]
  <2> SUFFICES ASSUME NEW t \in Sessions PROVE stopTasks'[t] \in Seq(TaskStates)
    BY <1>7
  <2>1. CASE t # s
    BY <1>7, <2>1
  <2>2. CASE t = s
    <3>1. stopTasks[s] \in Seq(TaskStates)
      BY <2>2
    <3>2. [stopTasks[s] EXCEPT ![i] = v] \in Seq(TaskStates)
      BY <3>1, OverwriteInSeq
    <3> QED
      BY <1>7, <2>2, <3>2
  <2> QED
    BY <2>1, <2>2
<1>8. ASSUME NEW s, NEW i, MarkStopRunning(s, i) PROVE RowsTypeOK'
  BY <1>7, <1>8 DEF MarkStopRunning
<1>9. ASSUME NEW s, NEW i, CompleteStop(s, i) PROVE RowsTypeOK'
  BY <1>7, <1>9 DEF CompleteStop
<1>10. ASSUME NEW s, NEW i, FailStop(s, i) PROVE RowsTypeOK'
  BY <1>7, <1>10 DEF FailStop
<1>11. CASE RecoverExpiredLeases
  <2>1. stopTasks' \in [Sessions -> Seq(TaskStates)]
    <3> SUFFICES ASSUME NEW t \in Sessions PROVE stopTasks'[t] \in Seq(TaskStates)
      BY <1>11 DEF RecoverExpiredLeases
    <3>1. stopTasks[t] \in Seq(TaskStates)
      OBVIOUS
    <3>2. stopTasks'[t] \in [DOMAIN stopTasks[t] -> TaskStates]
      BY <3>1, <1>11 DEF RecoverExpiredLeases
    <3> QED
      BY <3>1, <3>2, SameDomain
  <2> QED
    BY <1>11, <2>1 DEF RecoverExpiredLeases
<1>12. CASE Heartbeat
  BY <1>12 DEF Heartbeat, DeploymentAssumption
<1> QED
  BY RowStep, <1>1, <1>2, <1>3, <1>4, <1>5, <1>6, <1>8, <1>9, <1>10, <1>11,
     <1>12
  DEF RowStep

\* The steps of launch and stop keep the types of lock, registry and contexts.
LEMMA RuntimeStaysTyped ==
  ASSUME TypeOK, HandlersHaveSessions, RuntimeStep PROVE RuntimeManagerTypeOK'
<1> USE DEF TypeOK, RuntimeManagerTypeOK, ContextStates, rmVars
<1>1. ASSUME NEW r \in Requests, JoinLock(r) PROVE RuntimeManagerTypeOK'
  BY <1>1 DEF JoinLock
<1>2. ASSUME NEW r \in Requests, ReleaseLock(r) PROVE lockq' \in Seq(Requests)
  BY <1>2 DEF ReleaseLock, HoldsLock
<1>3. ASSUME NEW r \in Requests, LaunchRaises(r) PROVE RuntimeManagerTypeOK'
  BY <1>2, <1>3 DEF LaunchRaises
<1>4. ASSUME NEW r, NEW s, OpenContext(r, s) PROVE RuntimeManagerTypeOK'
  BY <1>4 DEF OpenContext
<1>5. ASSUME NEW r \in Requests, pc[r] = "goto", Register(r, ProfileOf(r), sess[r])
      PROVE  RuntimeManagerTypeOK'
  BY <1>2, <1>5 DEF Register, HandlersHaveSessions, Stored
<1>6. ASSUME NEW r \in Requests, Pop(r, ProfileOf(r)) PROVE RuntimeManagerTypeOK'
  BY <1>2, <1>6 DEF Pop
<1>7. ASSUME NEW s, CloseContext(s) PROVE RuntimeManagerTypeOK'
  BY <1>7 DEF CloseContext
<1>8. ASSUME NEW s, CloseContextRaises(s) PROVE RuntimeManagerTypeOK'
  BY <1>8 DEF CloseContextRaises
<1>9. CASE LoseEverything
  BY <1>9 DEF LoseEverything
<1>10. CASE UNCHANGED rmVars
  BY <1>10
<1> QED
  BY RuntimeStep, <1>1, <1>3, <1>4, <1>5, <1>6, <1>7, <1>8, <1>9, <1>10
  DEF RuntimeStep

\* Every handler and every step of lifespan keeps the types of the control state.
LEMMA ControlStaysTyped ==
  ASSUME TypeOK, HandlersHaveSessions, [Next]_vars PROVE ControlTypeOK' /\ now' \in Nat
<1> DEFINE Goal == ControlTypeOK' /\ now' \in Nat
<1> USE DEF ControlTypeOK, Phases, PCs, StartPCs, StopPCs, ProfileStates,
            handlerVars, usageVars, envVars, Continue, Await
<1>0. now \in Nat /\ ControlTypeOK
  BY DEF TypeOK, OrchestratorTypeOK
<1>a. ASSUME NEW r \in Requests, NEW p \in Profiles, NEW k \in Keys \cup {NoKey},
             StartEnqueue(r, p, k)
      PROVE  Goal
  BY <1>0, <1>a DEF StartEnqueue
<1>b. ASSUME NEW r \in Requests, NEW p \in Profiles, StopEnqueue(r, p)
      PROVE  Goal
  BY <1>0, <1>b DEF StopEnqueue, TypeOK, OrchestratorTypeOK
<1>c. ASSUME NEW r \in Requests, NEW p \in Profiles, StopNothingActive(r, p)
      PROVE  Goal
  BY <1>0, <1>c DEF StopNothingActive
<1>r. ASSUME NEW r \in Requests, pc[r] # "idle"
      PROVE  sess[r] \in Sessions /\ registry[ProfileOf(r)] \in Sessions \cup {NoRuntime}
  BY <1>r DEF HandlersHaveSessions, Stored, ProfileOf, TypeOK,
     RuntimeManagerTypeOK
<1>1. ASSUME NEW r \in Requests, StartAcquire(r) PROVE Goal
  BY <1>0, <1>1 DEF StartAcquire, AwaitLock
<1>2. ASSUME NEW r \in Requests, StartRefused(r) PROVE Goal
  BY <1>0, <1>2 DEF StartRefused, Answer
<1>3. ASSUME NEW r \in Requests, LaunchExisting(r) PROVE Goal
  BY <1>0, <1>3, <1>r DEF LaunchExisting, Granted
<1>4. ASSUME NEW r \in Requests, LaunchBegin(r) PROVE Goal
  BY <1>0, <1>4 DEF LaunchBegin
<1>5. ASSUME NEW r \in Requests, LaunchOpened(r) PROVE Goal
  BY <1>0, <1>5 DEF LaunchOpened
<1>6. ASSUME NEW r \in Requests, LaunchFails(r) PROVE Goal
  BY <1>0, <1>6 DEF LaunchFails, StartFails, FaultHappens
<1>7. ASSUME NEW r \in Requests, GotoLoaded(r) PROVE Goal
  BY <1>0, <1>7, <1>r DEF GotoLoaded, Resumed
<1>8. ASSUME NEW r \in Requests, GotoFails(r) PROVE Goal
  BY <1>0, <1>8 DEF GotoFails, StartFails, FaultHappens
<1>9. ASSUME NEW r \in Requests, TitleRead(r) PROVE Goal
  BY <1>0, <1>9 DEF TitleRead
<1>10. ASSUME NEW r \in Requests, TitleFails(r) PROVE Goal
  BY <1>0, <1>10 DEF TitleFails, StartFails, FaultHappens
<1>11. ASSUME NEW r \in Requests, StartFinish(r) PROVE Goal
  <2>1. startEvents' \in [Sessions -> Nat]
    BY <1>0, <1>11, <1>r DEF StartFinish, Running
  <2>2. profStatus' \in [Profiles -> ProfileStates]
    BY <1>0, <1>11 DEF StartFinish, AssignProfileStatus
  <2> QED
    BY <1>0, <1>11, <2>1, <2>2 DEF StartFinish, Answer
<1>12. ASSUME NEW r \in Requests, StartFailFinish(r) PROVE Goal
  BY <1>0, <1>12 DEF StartFailFinish, Answer, AssignProfileStatus
<1>13. ASSUME NEW r \in Requests, StopMarkRunning(r) PROVE Goal
  BY <1>0, <1>13 DEF StopMarkRunning, AwaitLock
<1>14. ASSUME NEW r \in Requests, StopPopsNothing(r) PROVE Goal
  BY <1>0, <1>14 DEF StopPopsNothing, StopCompletes
<1>15. ASSUME NEW r \in Requests, StopPops(r) PROVE Goal
  BY <1>0, <1>15, <1>r DEF StopPops, Granted
<1>16. ASSUME NEW r \in Requests, StopClosed(r) PROVE Goal
  BY <1>0, <1>16 DEF StopClosed, StopCompletes
<1>17. ASSUME NEW r \in Requests, StopCloseFails(r) PROVE Goal
  BY <1>0, <1>17 DEF StopCloseFails, Answer, FaultHappens
<1>18. ASSUME NEW r \in Requests, StopFinish(r) PROVE Goal
  <2>1. secondsEvents' \in [Sessions -> Nat]
    BY <1>0, <1>18, <1>r DEF StopFinish, Running
  <2>2. profStatus' \in [Profiles -> ProfileStates]
    BY <1>0, <1>18 DEF StopFinish, AssignProfileStatus
  <2> QED
    BY <1>0, <1>18, <2>1, <2>2 DEF StopFinish, Answer
<1>d. CASE Startup
  BY <1>0, <1>d DEF Startup, StartupRecover, StartupHeartbeat
<1>e. CASE ProcessEnds
  BY <1>0, <1>e DEF ProcessEnds
<1>f. CASE Tick
  BY <1>0, <1>f DEF Tick
<1>g. ASSUME NEW s \in Sessions, BrowserDies(s) PROVE Goal
  BY <1>0, <1>g DEF BrowserDies, FaultHappens
<1>h. CASE UNCHANGED vars
  BY <1>0, <1>h DEF vars
<1> QED
  BY <1>1, <1>2, <1>3, <1>4, <1>5, <1>6, <1>7, <1>8, <1>9, <1>10, <1>11,
     <1>12, <1>13, <1>14, <1>15, <1>16, <1>17, <1>18,
     <1>a, <1>b, <1>c, <1>d, <1>e, <1>f, <1>g, <1>h
  DEF Next, StartRequest, StopRequest, StartStep, StopStep, Environment,
      Shutdown, Crash

\* A stored session stays stored and keeps its profile and key.
LEMMA StoredStays ==
  ASSUME TypeOK, HandlersHaveSessions, [Next]_vars
  PROVE  \A s \in Stored : /\ s \in Stored'
                           /\ sessProfile'[s] = sessProfile[s]
                           /\ sessKey'[s] = sessKey[s]
<1> SUFFICES ASSUME NEW s \in Stored
             PROVE  /\ sessStatus'[s] # "absent"
                    /\ sessProfile'[s] = sessProfile[s]
                    /\ sessKey'[s] = sessKey[s]
  BY DEF Stored
<1>0. RowStep
  BY RowSteps
<1>1. s \in Sessions /\ sessStatus[s] # "absent"
  BY DEF Stored
<1> QED
  BY <1>0, <1>1
  DEF RowStep, TypeOK, OrchestratorTypeOK, dbVars, sessVars, EnqueueStart,
      IsNextId, Stored, AcquireLease, CompleteStart, FailStart, EnqueueStop,
      MarkStopRunning, CompleteStop, FailStop, RecoverExpiredLeases, Heartbeat

\* Only enqueue_start adds a session.
LEMMA OnlyStartsStore ==
  ASSUME TypeOK, HandlersHaveSessions, [Next]_vars
  PROVE  \/ Stored' \subseteq Stored
         \/ \E n \in Sessions, p \in Profiles, k \in Keys \cup {NoKey} : EnqueueStart(n, p, k)
<1> USE DEF Stored
<1>1. /\ RowStep
      /\ sessStatus \in [Sessions -> SessionStates]
      /\ \A r \in Requests : pc[r] # "idle" => sess[r] \in Stored
  BY RowSteps DEF TypeOK, OrchestratorTypeOK, HandlersHaveSessions
<1>2. ASSUME NEW r \in Requests, pc[r] # "idle",
             \/ AcquireLease(sess[r])
             \/ CompleteStart(sess[r])
             \/ FailStart(sess[r])
             \/ CompleteStop(sess[r], task[r])
      PROVE  Stored' \subseteq Stored
  BY <1>1, <1>2 DEF AcquireLease, CompleteStart, FailStart, CompleteStop
<1>3. CASE RecoverExpiredLeases
  BY <1>1, <1>3 DEF RecoverExpiredLeases, ActiveStates
<1>4. CASE UNCHANGED sessStatus
  BY <1>4
<1> QED
  BY <1>1, <1>2, <1>3, <1>4
  DEF RowStep, dbVars, sessVars, EnqueueStop, MarkStopRunning, FailStop,
      Heartbeat, LaunchPCs, StopPCs

\* Failures and ends of the process are counted one by one and never uncounted.
LEMMA CountersGrow ==
  ASSUME TypeOK, [Next]_vars
  PROVE  faults' \in {faults, faults + 1} /\ restarts' \in {restarts, restarts + 1}
<1> USE DEF TypeOK, ControlTypeOK, envVars, FaultHappens
<1>1. ASSUME NEW r \in Requests, StartRequest(r) \/ StopRequest(r)
      PROVE  UNCHANGED <<faults, restarts>>
  BY <1>1 DEF StartRequest, StopRequest, StartEnqueue, StopEnqueue, StopNothingActive
<1>2. ASSUME NEW r \in Requests, StartStep(r)
      PROVE  faults' \in {faults, faults + 1} /\ restarts' = restarts
  BY <1>2 DEF StartStep, StartAcquire, StartRefused, LaunchExisting, LaunchBegin,
     LaunchOpened, LaunchFails, GotoLoaded, GotoFails, TitleRead, TitleFails,
     StartFinish, StartFailFinish, StartFails
<1>3. ASSUME NEW r \in Requests, StopStep(r)
      PROVE  faults' \in {faults, faults + 1} /\ restarts' = restarts
  BY <1>3 DEF StopStep, StopMarkRunning, StopPopsNothing, StopPops, StopClosed,
     StopCloseFails, StopFinish
<1>4. CASE Startup
  BY <1>4 DEF Startup, StartupRecover, StartupHeartbeat
<1>5. CASE Environment
  BY <1>5 DEF Environment, Shutdown, Crash, ProcessEnds, Tick, BrowserDies
<1> QED
  BY <1>1, <1>2, <1>3, <1>4, <1>5 DEF Next, vars

-----------------------------------------------------------------------------
(* The inductive invariant.                                                *)

\* Handlers exist only while the process serves.
IdleUnlessServing == phase # "serving" => \A r \in Requests : pc[r] = "idle"

\* Between its two commits a start runs alone and its session is still queued.
EnqueuedRunsAlone ==
  \A r \in Requests :
    pc[r] = "enqueued" => loop = r /\ sessStatus[sess[r]] = "queued"

\* A session waiting for its lease never had one.
QueuedHasNoLease ==
  \A s \in Sessions : sessStatus[s] \in {"absent", "queued"} => leaseStatus[s] = "none"

\* While a launch is under way its session is provisioning, or a stop has
\* overtaken it; its lease is active or was released, never expired.
LaunchUnderWay ==
  \A r \in Requests :
    pc[r] \in LaunchPCs =>
      /\ sessStatus[sess[r]] \in {"provisioning", "stopped"}
      /\ leaseStatus[sess[r]] \in {"active", "released"}

StartingPCs == {"enqueued"} \cup LaunchPCs

\* No two starts work on one session.
StartersDistinct ==
  \A q, r \in Requests :
    pc[q] \in StartingPCs /\ pc[r] \in StartingPCs /\ sess[q] = sess[r] => q = r

IInv ==
  /\ TypeOK
  /\ HandlersHaveSessions
  /\ IdleUnlessServing
  /\ EnqueuedRunsAlone
  /\ QueuedHasNoLease
  /\ LaunchUnderWay
  /\ StartersDistinct
  /\ LeaseMatchesSession

\* The rows: what each method of the orchestrator does to session and lease.
LEMMA RowsInvariant ==
  ASSUME IInv, [Next]_vars
  PROVE  LeaseMatchesSession' /\ QueuedHasNoLease'
<1> USE DEF LeaseMatchesSession, QueuedHasNoLease, sessVars, leaseVars, dbVars
<1> DEFINE Goal == LeaseMatchesSession' /\ QueuedHasNoLease'
<1>0. RowStep /\ TypeOK /\ LeaseMatchesSession /\ QueuedHasNoLease
  BY RowSteps DEF IInv
<1>t. /\ sessStatus \in [Sessions -> SessionStates]
      /\ leaseStatus \in [Sessions -> LeaseStates]
  BY <1>0 DEF TypeOK, OrchestratorTypeOK
<1>1. CASE UNCHANGED dbVars
  BY <1>0, <1>1
<1>2. ASSUME NEW s \in Sessions, NEW p, NEW k, EnqueueStart(s, p, k) PROVE Goal
  BY <1>0, <1>t, <1>2 DEF EnqueueStart, IsNextId, Stored
<1>3. ASSUME NEW s, AcquireLease(s) PROVE Goal
  BY <1>0, <1>t, <1>3 DEF AcquireLease
<1>4. ASSUME NEW s, CompleteStart(s) PROVE Goal
  BY <1>0, <1>t, <1>4 DEF CompleteStart
<1>5. ASSUME NEW s, FailStart(s) PROVE Goal
  BY <1>0, <1>t, <1>5 DEF FailStart, LeaseStates
<1>6. ASSUME NEW s, NEW i,
             EnqueueStop(s, i) \/ MarkStopRunning(s, i) \/ FailStop(s, i)
      PROVE  Goal
  BY <1>0, <1>6 DEF EnqueueStop, MarkStopRunning, FailStop
<1>7. ASSUME NEW s, NEW i, CompleteStop(s, i) PROVE Goal
  BY <1>0, <1>t, <1>7 DEF CompleteStop
<1>8. CASE RecoverExpiredLeases
  BY <1>0, <1>t, <1>8 DEF RecoverExpiredLeases, LapsedLeases, ActiveLeases,
     ActiveStates
<1>9. CASE Heartbeat
  BY <1>0, <1>9 DEF Heartbeat
<1> QED
  BY <1>0, <1>1, <1>2, <1>3, <1>4, <1>5, <1>6, <1>7, <1>8, <1>9 DEF RowStep

\* The handlers: what start_session and stop_session know of their session at
\* each await survives the steps of all the others.
LEMMA HandlersInvariant ==
  ASSUME IInv, [Next]_vars
  PROVE  /\ HandlersHaveSessions'
         /\ IdleUnlessServing'
         /\ EnqueuedRunsAlone'
         /\ LaunchUnderWay'
         /\ StartersDistinct'
<1> DEFINE Goal == /\ HandlersHaveSessions'
                   /\ IdleUnlessServing'
                   /\ EnqueuedRunsAlone'
                   /\ LaunchUnderWay'
                   /\ StartersDistinct'
<1> USE SessionControlAssumption
<1> USE DEF HandlersHaveSessions, IdleUnlessServing, EnqueuedRunsAlone,
   LaunchUnderWay, StartersDistinct, StartingPCs, LaunchPCs,
   SessionControlAssumption,
  Running, Resumed, Granted, Continue, Await, Stored, sessVars, leaseVars, dbVars,
  envVars, handlerVars
<1>0. /\ HandlersHaveSessions /\ IdleUnlessServing /\ EnqueuedRunsAlone
      /\ LaunchUnderWay /\ StartersDistinct
  BY DEF IInv
<1>t. /\ sessStatus \in [Sessions -> SessionStates]
      /\ leaseStatus \in [Sessions -> LeaseStates]
      /\ sessProfile \in [Sessions -> Profiles \cup {NoProfile}]
      /\ pc \in [Requests -> PCs]
      /\ loop \in Requests \cup {Free}
      /\ sess \in [Requests -> Sessions \cup {NoSession}]
  BY DEF IInv, TypeOK, OrchestratorTypeOK, ControlTypeOK

<1>a. ASSUME NEW r \in Requests, NEW p \in Profiles, NEW k \in Keys \cup {NoKey},
             StartEnqueue(r, p, k)
      PROVE  Goal
  BY <1>0, <1>t, <1>a DEF StartEnqueue, EnqueueStart, IsNextId
<1>b. ASSUME NEW r \in Requests, NEW p \in Profiles, StopEnqueue(r, p)
      PROVE  Goal
  BY <1>0, <1>t, <1>b DEF StopEnqueue, EnqueueStop, IsNewestActive,
     ActiveSessions, ActiveStates
<1>c. ASSUME NEW r \in Requests, NEW p \in Profiles, StopNothingActive(r, p)
      PROVE  Goal
  BY <1>0, <1>t, <1>c DEF StopNothingActive
<1>1. ASSUME NEW r \in Requests, StartAcquire(r) PROVE Goal
  BY <1>0, <1>t, <1>1 DEF StartAcquire, AwaitLock, AcquireLease
<1>2. ASSUME NEW r \in Requests, StartRefused(r) PROVE Goal
  BY <1>0, <1>t, <1>2 DEF StartRefused, Answer, RefuseLease
<1>3. ASSUME NEW r \in Requests, LaunchExisting(r) PROVE Goal
  BY <1>0, <1>t, <1>3 DEF LaunchExisting
<1>4. ASSUME NEW r \in Requests, LaunchBegin(r) PROVE Goal
  BY <1>0, <1>t, <1>4 DEF LaunchBegin
<1>5. ASSUME NEW r \in Requests, LaunchOpened(r) PROVE Goal
  BY <1>0, <1>t, <1>5 DEF LaunchOpened
<1>6. ASSUME NEW r \in Requests, LaunchFails(r) PROVE Goal
  BY <1>0, <1>t, <1>6 DEF LaunchFails, StartFails, FailStart
<1>7. ASSUME NEW r \in Requests, GotoLoaded(r) PROVE Goal
  BY <1>0, <1>t, <1>7 DEF GotoLoaded
<1>8. ASSUME NEW r \in Requests, GotoFails(r) PROVE Goal
  BY <1>0, <1>t, <1>8 DEF GotoFails, StartFails, FailStart
<1>9. ASSUME NEW r \in Requests, TitleRead(r) PROVE Goal
  BY <1>0, <1>t, <1>9 DEF TitleRead, CompleteStart
<1>10. ASSUME NEW r \in Requests, TitleFails(r) PROVE Goal
  BY <1>0, <1>t, <1>10 DEF TitleFails, StartFails, FailStart
<1>11. ASSUME NEW r \in Requests, StartFinish(r) PROVE Goal
  BY <1>0, <1>t, <1>11 DEF StartFinish, Answer
<1>12. ASSUME NEW r \in Requests, StartFailFinish(r) PROVE Goal
  BY <1>0, <1>t, <1>12 DEF StartFailFinish, Answer
<1>13. ASSUME NEW r \in Requests, StopMarkRunning(r) PROVE Goal
  BY <1>0, <1>t, <1>13 DEF StopMarkRunning, AwaitLock, MarkStopRunning
<1>14. ASSUME NEW r \in Requests, StopPopsNothing(r) PROVE Goal
  BY <1>0, <1>t, <1>14 DEF StopPopsNothing, StopCompletes, CompleteStop
<1>15. ASSUME NEW r \in Requests, StopPops(r) PROVE Goal
  BY <1>0, <1>t, <1>15 DEF StopPops
<1>16. ASSUME NEW r \in Requests, StopClosed(r) PROVE Goal
  BY <1>0, <1>t, <1>16 DEF StopClosed, StopCompletes, CompleteStop
<1>17. ASSUME NEW r \in Requests, StopCloseFails(r) PROVE Goal
  BY <1>0, <1>t, <1>17 DEF StopCloseFails, Answer, FailStop
<1>18. ASSUME NEW r \in Requests, StopFinish(r) PROVE Goal
  BY <1>0, <1>t, <1>18 DEF StopFinish, Answer
<1>d. CASE Startup
  <2>1. /\ \A r \in Requests : pc'[r] = "idle"
        /\ Stored' = Stored
        /\ sessProfile' = sessProfile
    BY <1>0, <1>t, <1>d
    DEF Startup, StartupRecover, StartupHeartbeat, RecoverExpiredLeases,
        LapsedLeases, ActiveLeases, ActiveStates, Heartbeat
  <2> QED
    BY <1>0, <2>1
<1>e. CASE ProcessEnds
  BY <1>0, <1>t, <1>e DEF ProcessEnds
<1>f. CASE Tick
  BY <1>0, <1>t, <1>f DEF Tick
<1>g. ASSUME NEW s \in Sessions, BrowserDies(s) PROVE Goal
  BY <1>0, <1>t, <1>g DEF BrowserDies
<1>h. CASE UNCHANGED vars
  BY <1>0, <1>t, <1>h DEF vars
<1> QED
  BY <1>1, <1>2, <1>3, <1>4, <1>5, <1>6, <1>7, <1>8, <1>9, <1>10, <1>11,
     <1>12, <1>13, <1>14, <1>15, <1>16, <1>17, <1>18,
     <1>a, <1>b, <1>c, <1>d, <1>e, <1>f, <1>g, <1>h
  DEF Next, StartRequest, StopRequest, StartStep, StopStep, Environment,
      Shutdown, Crash

\* The empty database with the process down satisfies the invariant.
LEMMA InitInvariant == Init => IInv
<1> USE DEF OrchestratorInit, RuntimeManagerInit, Stored
<1> SUFFICES ASSUME Init PROVE IInv
  OBVIOUS
<1>1. OrchestratorTypeOK
  BY DEF Init, OrchestratorTypeOK, SessionStates, ActiveStates, TaskStates,
     LeaseStates
<1>2. RuntimeManagerTypeOK
  BY DEF Init, RuntimeManagerTypeOK, ContextStates
<1>3. ControlTypeOK
  BY DEF Init, ControlTypeOK, Phases, PCs, ProfileStates
<1>4. HandlersHaveSessions /\ IdleUnlessServing /\ EnqueuedRunsAlone
  BY DEF Init, HandlersHaveSessions, IdleUnlessServing, EnqueuedRunsAlone
<1>5. QueuedHasNoLease /\ LaunchUnderWay /\ StartersDistinct /\ LeaseMatchesSession
  BY DEF Init, QueuedHasNoLease, LaunchUnderWay, StartersDistinct, StartingPCs,
         LaunchPCs, LeaseMatchesSession
<1> QED
  BY <1>1, <1>2, <1>3, <1>4, <1>5 DEF IInv, TypeOK

\* The invariant is inductive.
LEMMA StepInvariant == IInv /\ [Next]_vars => IInv'
<1> SUFFICES ASSUME IInv, [Next]_vars PROVE IInv'
  OBVIOUS
<1>0. TypeOK /\ HandlersHaveSessions
  BY DEF IInv
<1>1. OrchestratorTypeOK'
  BY <1>0, RowSteps, RowsStayTyped, ControlStaysTyped
  DEF TypeOK, OrchestratorTypeOK, RowsTypeOK
<1>2. RuntimeManagerTypeOK'
  BY <1>0, RuntimeSteps, RuntimeStaysTyped
<1>3. ControlTypeOK'
  BY <1>0, ControlStaysTyped
<1> QED
  BY <1>1, <1>2, <1>3, RowsInvariant, HandlersInvariant DEF IInv, TypeOK

\* The inductive invariant of start_session, stop_session and startup holds in
\* every reachable state: sessions stay stored, a queued session has no lease
\* and a handler that starts it runs alone, each start handler has a session
\* of its own, and session and lease rows agree.
THEOREM Invariance == Spec => []IInv
  BY InitInvariant, StepInvariant, PTL DEF Spec

-----------------------------------------------------------------------------
(* The theorems.                                                           *)

\* Every variable keeps its type: the model never leaves the statuses the
\* tables declare, and the executor's lock and registry stay well formed.
THEOREM TypeCorrect == Spec => []TypeOK
<1>1. IInv => TypeOK
  BY DEF IInv
<1> QED
  BY <1>1, Invariance, PTL

\* acquire_local_lease, complete_start, fail_start, complete_stop and
\* recover_expired_leases keep session row and lease row in step.
THEOREM LeaseMatchesSessionHolds == Spec => []LeaseMatchesSession
<1>1. IInv => LeaseMatchesSession
  BY DEF IInv
<1> QED
  BY <1>1, Invariance, PTL

\* No handler brings a failed session back.
THEOREM ErrorNeverRevivesHolds == Spec => ErrorNeverRevives
<1>1. ASSUME IInv, [Next]_vars, NEW s \in Sessions, sessStatus[s] = "error"
      PROVE  sessStatus'[s] \in {"error", "stopped"}
  <2>1. RowStep /\ sessStatus \in [Sessions -> SessionStates]
    BY <1>1, RowSteps DEF IInv, TypeOK, OrchestratorTypeOK
  <2>2. ASSUME NEW r \in Requests, pc[r] = "enqueued" \/ pc[r] = "title"
        PROVE  sess[r] # s
    BY <1>1, <2>2 DEF IInv, EnqueuedRunsAlone, LaunchUnderWay, LaunchPCs
  <2> QED
    BY <1>1, <2>1, <2>2
    DEF RowStep, dbVars, sessVars, EnqueueStart, IsNextId, Stored, AcquireLease,
        CompleteStart, FailStart, EnqueueStop, MarkStopRunning, CompleteStop,
        FailStop, RecoverExpiredLeases, ActiveStates, Heartbeat
<1>2. IInv /\ [Next]_vars =>
        [\A s \in Sessions :
           sessStatus[s] = "error" => sessStatus'[s] \in {"error", "stopped"}]_vars
  BY <1>1
<1> QED
  BY <1>2, Invariance, PTL DEF Spec, ErrorNeverRevives

\* The session ids are finitely many.
LEMMA SessionsFinite == IsFiniteSet(Sessions)
BY FS_Interval, DeploymentAssumption DEF Sessions, DeploymentAssumption

\* A finite set that gains at most one element gains at most one in size.
LEMMA GrowsByOne ==
  ASSUME NEW S, IsFiniteSet(S), NEW x, NEW T, T \subseteq S \cup {x}
  PROVE  /\ Cardinality(T) \in Nat
         /\ Cardinality(T) <= Cardinality(S) + 1
<1>1. /\ IsFiniteSet(S \cup {x})
      /\ Cardinality(S \cup {x}) \in Nat
      /\ Cardinality(S) \in Nat
      /\ Cardinality(S \cup {x}) <= Cardinality(S) + 1
  BY FS_AddElement, FS_CardinalityType
<1>2. /\ IsFiniteSet(T)
      /\ Cardinality(T) <= Cardinality(S \cup {x})
  BY <1>1, FS_Subset
<1> QED
  BY <1>1, <1>2, FS_CardinalityType

\* The worker's capacity holds for every number of sessions and requests.
THEOREM CapacityRespectedHolds == Spec => []CapacityRespected
<1>1. Init => CapacityRespected
  <2> SUFFICES ASSUME Init PROVE CapacityRespected
    OBVIOUS
  <2>1. ActiveLeases = {}
    BY DEF Init, OrchestratorInit, ActiveLeases
  <2> QED
    BY <2>1, FS_EmptySet, DeploymentAssumption DEF CapacityRespected,
       DeploymentAssumption
<1>2. IInv /\ CapacityRespected /\ [Next]_vars => CapacityRespected'
  <2> SUFFICES ASSUME IInv, CapacityRespected, [Next]_vars PROVE CapacityRespected'
    OBVIOUS
  <2> USE DeploymentAssumption DEF DeploymentAssumption, CapacityRespected
  <2>0. /\ RowStep
        /\ leaseStatus \in [Sessions -> LeaseStates]
    BY RowSteps DEF IInv, TypeOK, OrchestratorTypeOK
  <2>1. IsFiniteSet(ActiveLeases) /\ Cardinality(ActiveLeases) \in Nat
    <3>1. ActiveLeases \in SUBSET Sessions
      BY DEF ActiveLeases
    <3> QED
      BY <3>1, SessionsFinite, FS_Subset, FS_CardinalityType
  <2>2. CASE ActiveLeases' \subseteq ActiveLeases
    BY <2>1, <2>2, FS_Subset, FS_CardinalityType
  <2>3. ASSUME NEW r \in Requests, AcquireLease(sess[r]) PROVE CapacityRespected'
    <3>1. ActiveLeases' \subseteq ActiveLeases \cup {sess[r]}
      BY <2>0, <2>3 DEF AcquireLease, ActiveLeases
    <3>2. /\ Cardinality(ActiveLeases') \in Nat
          /\ Cardinality(ActiveLeases') <= Cardinality(ActiveLeases) + 1
      BY <2>1, <3>1, GrowsByOne
    <3> QED
      BY <2>1, <2>3, <3>2 DEF AcquireLease
  <2>4. \/ ActiveLeases' \subseteq ActiveLeases
        \/ \E r \in Requests : AcquireLease(sess[r])
    BY <2>0
    DEF RowStep, dbVars, leaseVars, ActiveLeases, EnqueueStart, CompleteStart,
        FailStart, EnqueueStop, MarkStopRunning, CompleteStop, FailStop,
        RecoverExpiredLeases, Heartbeat
  <2> QED
    BY <2>2, <2>3, <2>4
<1> QED
  BY <1>1, <1>2, Invariance, PTL DEF Spec

\* One key, one session, for every organization.
THEOREM IdempotentStartsHolds == Spec => []IdempotentStarts
<1>1. Init => IdempotentStarts
  BY DEF Init, OrchestratorInit, IdempotentStarts, Stored
<1>2. IInv /\ IdempotentStarts /\ [Next]_vars => IdempotentStarts'
  <2> SUFFICES ASSUME IInv, IdempotentStarts, [Next]_vars,
                      NEW s \in Stored', NEW t \in Stored',
                      sessKey'[s] = sessKey'[t], sessKey'[s] # NoKey,
                      OrgOf[sessProfile'[s]] = OrgOf[sessProfile'[t]]
               PROVE  s = t
    BY DEF IdempotentStarts
  <2>0. /\ RowStep /\ TypeOK /\ HandlersHaveSessions
        /\ sessStatus \in [Sessions -> SessionStates]
        /\ sessKey \in [Sessions -> Keys \cup {NoKey}]
        /\ sessProfile \in [Sessions -> Profiles \cup {NoProfile}]
    BY RowSteps DEF IInv, TypeOK, OrchestratorTypeOK
  <2>1. CASE Stored' \subseteq Stored
    BY <2>0, <2>1, StoredStays DEF IdempotentStarts
  <2>2. ASSUME NEW n \in Sessions, NEW p \in Profiles, NEW k \in Keys \cup {NoKey},
               EnqueueStart(n, p, k)
        PROVE  s = t
    <3>1. /\ n \notin Stored
          /\ Stored' = Stored \cup {n}
          /\ sessKey'[n] = k /\ sessProfile'[n] = p
          /\ \A u \in Stored : k # NoKey /\ sessKey[u] = k => OrgOf[sessProfile[u]] # OrgOf[p]
      BY <2>0, <2>2 DEF EnqueueStart, IsNextId, Stored, IdempotentHits,
         SessionsOf
    <3> QED
      BY <2>0, <3>1, StoredStays DEF IdempotentStarts
  <2>3. Stored' \subseteq Stored
        \/ \E n \in Sessions, p \in Profiles, k \in Keys \cup {NoKey} : EnqueueStart(n, p, k)
    BY <2>0, OnlyStartsStore
  <2> QED
    BY <2>1, <2>2, <2>3
<1> QED
  BY <1>1, <1>2, Invariance, PTL DEF Spec

\* The concurrency limit holds for the sessions that wait for a lease or hold
\* one, whatever the other handlers of the organization do meanwhile.
THEOREM LimitHolds == Spec => []LeasedSessionsWithinLimit
<1> USE DeploymentAssumption DEF DeploymentAssumption
<1>1. Init => LeasedSessionsWithinLimit
  <2> SUFFICES ASSUME Init, NEW o \in Orgs PROVE Cardinality(Committed(o)) <= Limit
    BY DEF LeasedSessionsWithinLimit
  <2>1. Committed(o) = {}
    BY DEF Init, OrchestratorInit, Committed, SessionsOf, Stored
  <2> QED
    BY <2>1, FS_EmptySet
<1>2. IInv /\ LeasedSessionsWithinLimit /\ [Next]_vars => LeasedSessionsWithinLimit'
  <2> SUFFICES ASSUME IInv, LeasedSessionsWithinLimit, [Next]_vars, NEW o \in Orgs
               PROVE  Cardinality(Committed(o)') <= Limit
    BY DEF LeasedSessionsWithinLimit
  <2>0. /\ RowStep /\ TypeOK /\ HandlersHaveSessions
        /\ sessStatus \in [Sessions -> SessionStates]
        /\ leaseStatus \in [Sessions -> LeaseStates]
        /\ sessProfile \in [Sessions -> Profiles \cup {NoProfile}]
    BY RowSteps DEF IInv, TypeOK, OrchestratorTypeOK
  <2>1. /\ IsFiniteSet(Committed(o)) /\ IsFiniteSet(ActiveInOrg(o))
        /\ Cardinality(Committed(o)) \in Nat /\ Cardinality(ActiveInOrg(o)) \in Nat
        /\ Cardinality(Committed(o)) <= Limit
    <3>1. Committed(o) \in SUBSET Sessions /\ ActiveInOrg(o) \in SUBSET Sessions
      BY DEF Committed, ActiveInOrg, SessionsOf, Stored
    <3> QED
      BY <3>1, SessionsFinite, FS_Subset, FS_CardinalityType DEF
         LeasedSessionsWithinLimit
  <2>2. Cardinality(Committed(o)) <= Cardinality(ActiveInOrg(o))
    <3>1. Committed(o) \subseteq ActiveInOrg(o)
      BY DEF IInv, LeaseMatchesSession, Committed, ActiveInOrg, ActiveStates,
         SessionsOf, Stored
    <3> QED
      BY <2>1, <3>1, FS_Subset
  <2>3. CASE Committed(o)' \subseteq Committed(o)
    BY <2>1, <2>3, FS_Subset, FS_CardinalityType
  <2>4. ASSUME NEW s \in Sessions, NEW p \in Profiles, NEW k \in Keys \cup {NoKey},
               StartAdmitted(p, k), EnqueueStart(s, p, k)
        PROVE  Cardinality(Committed(o)') <= Limit
    <3>1. CASE OrgOf[p] # o
      <4>1. Committed(o)' \subseteq Committed(o)
        BY <2>0, <2>4, <3>1
        DEF EnqueueStart, IsNextId, Committed, SessionsOf, Stored, leaseVars
      <4> QED
        BY <2>3, <4>1
    <3>2. CASE OrgOf[p] = o
      <4>1. Committed(o)' \subseteq Committed(o) \cup {s}
        BY <2>0, <2>4, <3>2
        DEF EnqueueStart, IsNextId, Committed, SessionsOf, Stored, leaseVars
      <4>2. Cardinality(Committed(o)) < Limit
        BY <2>1, <2>2, <2>4, <3>2 DEF StartAdmitted
      <4>3. /\ Cardinality(Committed(o)') \in Nat
            /\ Cardinality(Committed(o)') <= Cardinality(Committed(o)) + 1
        BY <2>1, <4>1, GrowsByOne
      <4> QED
        BY <2>1, <4>2, <4>3
    <3> QED
      BY <3>1, <3>2
  <2>5. \/ Committed(o)' \subseteq Committed(o)
        \/ \E s \in Sessions, p \in Profiles, k \in Keys \cup {NoKey} :
             StartAdmitted(p, k) /\ EnqueueStart(s, p, k)
    <3> USE DEF Committed, SessionsOf, Stored
    <3>1. ASSUME NEW r \in Requests, pc[r] = "enqueued", AcquireLease(sess[r])
          PROVE  Committed(o)' \subseteq Committed(o)
      BY <2>0, <3>1 DEF AcquireLease, IInv, EnqueuedRunsAlone,
         HandlersHaveSessions
    <3>2. ASSUME NEW r \in Requests, pc[r] # "idle",
                 \/ CompleteStart(sess[r])
                 \/ FailStart(sess[r])
                 \/ CompleteStop(sess[r], task[r])
          PROVE  Committed(o)' \subseteq Committed(o)
      BY <2>0, <3>2
      DEF CompleteStart, FailStart, CompleteStop, leaseVars,
         HandlersHaveSessions
    <3>3. CASE RecoverExpiredLeases
      BY <2>0, <3>3 DEF RecoverExpiredLeases, ActiveStates
    <3>4. CASE UNCHANGED <<sessStatus, sessProfile, leaseStatus>>
      BY <3>4
    <3> QED
      BY <2>0, <3>1, <3>2, <3>3, <3>4
      DEF RowStep, dbVars, sessVars, leaseVars, EnqueueStop, MarkStopRunning,
          FailStop, Heartbeat, LaunchPCs, StopPCs
  <2> QED
    BY <2>3, <2>4, <2>5
<1> QED
  BY <1>1, <1>2, Invariance, PTL DEF Spec

\* The rows of runtime_leases implement the lease pool.
THEOREM LeasesFormPoolHolds == Spec => LeasesFormPool
<1>1. Init => Pool!Init
  BY DEF Init, OrchestratorInit, Pool!Init
<1>2. IInv /\ [Next]_vars => [Pool!Next]_leaseStatus
  <2> SUFFICES ASSUME IInv, [Next]_vars, leaseStatus' # leaseStatus PROVE Pool!Next
    OBVIOUS
  <2>0. /\ RowStep
        /\ leaseStatus \in [Sessions -> LeaseStates]
    BY RowSteps DEF IInv, TypeOK, OrchestratorTypeOK
  <2>1. Pool!Held = ActiveLeases
    BY DEF Pool!Held, ActiveLeases
  <2>2. ASSUME NEW r \in Requests, pc[r] = "enqueued", AcquireLease(sess[r])
        PROVE  Pool!Next
    <3>1. sess[r] \in Sessions /\ leaseStatus[sess[r]] = "none"
      BY <2>2 DEF IInv, HandlersHaveSessions, Stored, EnqueuedRunsAlone,
         QueuedHasNoLease
    <3>2. Pool!Cardinality(Pool!Held) < Capacity
      <4>1. Pool!Cardinality(ActiveLeases) = Cardinality(ActiveLeases)
        BY Zenon DEF Pool!Cardinality, Cardinality
      <4> QED
        BY <2>1, <2>2, <4>1, Zenon DEF AcquireLease
    <3>3. Pool!Grant(sess[r])
      BY <2>2, <3>1, <3>2 DEF AcquireLease, Pool!Grant
    <3> QED
      BY <3>1, <3>3 DEF Pool!Next
  <2>3. ASSUME NEW r \in Requests, pc[r] \in LaunchPCs, FailStart(sess[r])
        PROVE  Pool!Next
    <3>1. sess[r] \in Sessions /\ leaseStatus[sess[r]] \in {"active", "released"}
      BY <2>3 DEF IInv, HandlersHaveSessions, Stored, LaunchUnderWay, LaunchPCs
    <3>2. leaseStatus[sess[r]] = "active"
      BY <2>0, <2>3, <3>1 DEF FailStart
    <3>3. Pool!Release(sess[r])
      BY <2>3, <3>1, <3>2 DEF FailStart, Pool!Release
    <3> QED
      BY <3>1, <3>3 DEF Pool!Next
  <2>4. ASSUME NEW r \in Requests, pc[r] \in StopPCs, CompleteStop(sess[r], task[r])
        PROVE  Pool!Next
    <3>1. sess[r] \in Sessions
      BY <2>4 DEF IInv, HandlersHaveSessions, Stored, StopPCs
    <3>2. leaseStatus[sess[r]] = "active"
      BY <2>0, <2>4, <3>1 DEF CompleteStop
    <3>3. Pool!Release(sess[r])
      BY <2>4, <3>1, <3>2 DEF CompleteStop, Pool!Release
    <3> QED
      BY <3>1, <3>3 DEF Pool!Next
  <2>5. CASE RecoverExpiredLeases
    <3>1. LapsedLeases \in SUBSET Pool!Held
      BY <2>1 DEF LapsedLeases
    <3>2. Pool!Expire(LapsedLeases)
      BY <2>5, <3>1 DEF RecoverExpiredLeases, Pool!Expire
    <3> QED
      BY <3>1, <3>2 DEF Pool!Next
  <2> QED
    BY <2>0, <2>2, <2>3, <2>4, <2>5
    DEF RowStep, dbVars, leaseVars, EnqueueStart, CompleteStart, EnqueueStop,
        MarkStopRunning, FailStop, Heartbeat
<1> QED
  BY <1>1, <1>2, Invariance, PTL DEF Spec, LeasesFormPool, Pool!Spec

=============================================================================
