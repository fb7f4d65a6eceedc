----------------------------- MODULE UptimeProofs -----------------------------
(***************************************************************************)
(* Proofs of what start and stop handlers do not leave half done while the *)
(* process stays up: usage events, tasks, and the browsers of the sessions *)
(* that are shown as running.                                              *)
(*                                                                         *)
(* The last section is about ordinary life, in which no browser call has   *)
(* failed, the process has not gone down and no Idempotency-Key was sent.  *)
(* Life says how starts and stops of one profile may follow one another in *)
(* the queue of the lock; it rests on QInv, which holds of every life.     *)
(***************************************************************************)
EXTENDS RuntimeProofs

-----------------------------------------------------------------------------
(* Usage.                                                                  *)

\* A session becomes stopped by complete_stop alone, called by the handler that
\* goes on to write the usage event.
LEMMA OneCrashCostsOne ==
  ASSUME QInv, [Next]_vars
  PROVE  \/ Unmetered' \subseteq Unmetered
         \/ \E x : Unmetered' \subseteq Unmetered \cup {x} /\ restarts' = restarts + 1
<1> DEFINE Kept == \A s \in Sessions : s \in Unmetered' => s \in Unmetered
           Costs == \E x : /\ \A s \in Sessions \ {x} : s \in Unmetered' => s \in Unmetered
                           /\ restarts' = restarts + 1
<1> USE SessionControlAssumption
<1> USE DEF SessionControlAssumption, Running, Resumed, Granted, Continue, Await,
           sessVars, taskVars, leaseVars, dbVars, usageVars, envVars, handlerVars
<1> USE DEF Unmetered, FaultHappens
<1>t. /\ sessStatus \in [Sessions -> SessionStates]
      /\ secondsEvents \in [Sessions -> Nat]
      /\ pc \in [Requests -> PCs]
      /\ sess \in [Requests -> Sessions \cup {NoSession}]
      /\ restarts \in Nat
  BY DEF QInv, RInv, IInv, TypeOK, OrchestratorTypeOK, ControlTypeOK
<1>s. HandlersHaveSessions
  BY DEF QInv, RInv, IInv
<1>a. ASSUME NEW r \in Requests, NEW p \in Profiles, NEW k \in Keys \cup {NoKey},
             StartEnqueue(r, p, k)
      PROVE  Kept
  BY <1>t, <1>a DEF StartEnqueue, EnqueueStart, IsNextId
<1>b. ASSUME NEW r \in Requests, NEW p \in Profiles, StopEnqueue(r, p)
      PROVE  Kept
  BY <1>t, <1>b DEF StopEnqueue, EnqueueStop
<1>c. ASSUME NEW r \in Requests, NEW p \in Profiles, StopNothingActive(r, p)
      PROVE  Kept
  BY <1>t, <1>c DEF StopNothingActive
<1>1. ASSUME NEW r \in Requests, StartAcquire(r) PROVE Kept
  BY <1>t, <1>1 DEF StartAcquire, AwaitLock, AcquireLease
<1>2. ASSUME NEW r \in Requests, StartRefused(r) PROVE Kept
  BY <1>t, <1>2 DEF StartRefused, Answer, RefuseLease
<1>3. ASSUME NEW r \in Requests, LaunchExisting(r) PROVE Kept
  BY <1>t, <1>3 DEF LaunchExisting
<1>4. ASSUME NEW r \in Requests, LaunchBegin(r) PROVE Kept
  BY <1>t, <1>4 DEF LaunchBegin
<1>5. ASSUME NEW r \in Requests, LaunchOpened(r) PROVE Kept
  BY <1>t, <1>5 DEF LaunchOpened
<1>6. ASSUME NEW r \in Requests, LaunchFails(r) PROVE Kept
  BY <1>t, <1>6 DEF LaunchFails, StartFails, FailStart
<1>7. ASSUME NEW r \in Requests, GotoLoaded(r) PROVE Kept
  BY <1>t, <1>7 DEF GotoLoaded
<1>8. ASSUME NEW r \in Requests, GotoFails(r) PROVE Kept
  BY <1>t, <1>8 DEF GotoFails, StartFails, FailStart
<1>9. ASSUME NEW r \in Requests, TitleRead(r) PROVE Kept
  BY <1>t, <1>9 DEF TitleRead, CompleteStart
<1>10. ASSUME NEW r \in Requests, TitleFails(r) PROVE Kept
  BY <1>t, <1>10 DEF TitleFails, StartFails, FailStart
<1>11. ASSUME NEW r \in Requests, StartFinish(r) PROVE Kept
  BY <1>t, <1>11 DEF StartFinish, Answer
<1>12. ASSUME NEW r \in Requests, StartFailFinish(r) PROVE Kept
  BY <1>t, <1>12 DEF StartFailFinish, Answer
<1>13. ASSUME NEW r \in Requests, StopMarkRunning(r) PROVE Kept
  BY <1>t, <1>13 DEF StopMarkRunning, AwaitLock, MarkStopRunning
<1>14. ASSUME NEW r \in Requests, StopPopsNothing(r) PROVE Kept
  BY <1>t, <1>14 DEF StopPopsNothing, StopCompletes, CompleteStop
<1>15. ASSUME NEW r \in Requests, StopPops(r) PROVE Kept
  BY <1>t, <1>15 DEF StopPops
<1>16. ASSUME NEW r \in Requests, StopClosed(r) PROVE Kept
  BY <1>t, <1>16 DEF StopClosed, StopCompletes, CompleteStop
<1>17. ASSUME NEW r \in Requests, StopCloseFails(r) PROVE Kept
  BY <1>t, <1>17 DEF StopCloseFails, Answer, FailStop
<1>18. ASSUME NEW r \in Requests, StopFinish(r) PROVE Kept
  BY <1>t, <1>s, <1>18 DEF StopFinish, Answer, HandlersHaveSessions
<1>d. ASSUME Startup PROVE Kept
  BY <1>t, <1>d DEF Startup, StartupRecover, StartupHeartbeat,
     RecoverExpiredLeases, Heartbeat
<1>e. ASSUME ProcessEnds PROVE Costs
  <2>1. UNCHANGED <<sessStatus, secondsEvents>> /\ restarts' = restarts + 1
    BY <1>e DEF ProcessEnds
  <2>2. \A r \in Requests : pc[r] = "stopped" => loop = r
    BY DEF QInv, LoopHasARunner, BusyPCs
  <2>3. \A s \in Sessions \ {sess[loop]} : s \in Unmetered' => s \in Unmetered
    BY <2>1, <2>2
  <2> QED
    BY <2>1, <2>3
<1>f. ASSUME Tick PROVE Kept
  BY <1>t, <1>f DEF Tick
<1>g. ASSUME NEW s \in Sessions, BrowserDies(s) PROVE Kept
  BY <1>t, <1>g DEF BrowserDies
<1>h. ASSUME UNCHANGED vars PROVE Kept
  BY <1>t, <1>h DEF vars
<1>i. Kept => Unmetered' \subseteq Unmetered
  OBVIOUS
<1>j. Costs => \E x : Unmetered' \subseteq Unmetered \cup {x} /\ restarts' = restarts + 1
  OBVIOUS
<1> HIDE DEF Kept, Costs
<1>k. Kept \/ Costs
  BY <1>1, <1>2, <1>3, <1>4, <1>5, <1>6, <1>7, <1>8, <1>9, <1>10, <1>11,
     <1>12, <1>13, <1>14, <1>15, <1>16, <1>17, <1>18,
     <1>a, <1>b, <1>c, <1>d, <1>e, <1>f, <1>g, <1>h
  DEF Next, StartRequest, StopRequest, StartStep, StopStep, Environment,
      Shutdown, Crash
<1> QED
  BY <1>i, <1>j, <1>k

\* complete_stop and the usage event are two commits: a stop leaves its session
\* without the event only if the process ends in between, and then it is the only
\* one that is there.
THEOREM UnmeteredAreCrashesHolds == Spec => []UnmeteredAreCrashes
<1>1. Init => UnmeteredAreCrashes
  <2> SUFFICES ASSUME Init PROVE UnmeteredAreCrashes
    OBVIOUS
  <2>1. Unmetered = {} /\ restarts = 0
    BY DEF Init, OrchestratorInit, Unmetered
  <2> QED
    BY <2>1, FS_EmptySet DEF UnmeteredAreCrashes
<1>2. QInv /\ UnmeteredAreCrashes /\ [Next]_vars => UnmeteredAreCrashes'
  <2> SUFFICES ASSUME QInv, UnmeteredAreCrashes, [Next]_vars
               PROVE  UnmeteredAreCrashes'
    OBVIOUS
  <2>1. /\ IsFiniteSet(Unmetered) /\ Cardinality(Unmetered) \in Nat
        /\ Cardinality(Unmetered) <= restarts
    BY SessionsFinite, FS_Subset, FS_CardinalityType DEF Unmetered, UnmeteredAreCrashes
  <2>2. restarts \in Nat /\ restarts' \in {restarts, restarts + 1}
    BY CountersGrow DEF QInv, RInv, IInv, TypeOK, ControlTypeOK
  <2>3. CASE Unmetered' \subseteq Unmetered
    <3>1. Cardinality(Unmetered') <= Cardinality(Unmetered) /\ Cardinality(Unmetered') \in Nat
      BY <2>1, <2>3, FS_Subset, FS_CardinalityType
    <3> QED
      BY <2>1, <2>2, <3>1 DEF UnmeteredAreCrashes
  <2>4. ASSUME NEW x, Unmetered' \subseteq Unmetered \cup {x}, restarts' = restarts + 1
        PROVE  UnmeteredAreCrashes'
    <3>1. /\ Cardinality(Unmetered') \in Nat
          /\ Cardinality(Unmetered') <= Cardinality(Unmetered) + 1
      BY <2>1, <2>4, GrowsByOne
    <3> QED
      BY <2>1, <2>2, <2>4, <3>1 DEF UnmeteredAreCrashes
  <2> QED
    BY <2>3, <2>4, OneCrashCostsOne
<1> QED
  BY <1>1, <1>2, ExecutorInvariance, PTL DEF Spec

-----------------------------------------------------------------------------
(* Tasks.                                                                  *)

Open == {"queued", "running"}

StoppingAt == {"stopqueued", "stopwait", "closing"}

\* Handler r works on the start of s, or on the stop task of s at position i.
Starts(r, s)   == sess[r] = s /\ pc[r] \in LaunchPCs
Stops(r, s, i) == sess[r] = s /\ task[r] = i /\ pc[r] \in StoppingAt

\* What one step of handler r has to do with the tasks: the other handlers stay
\* where they are, a task that is open afterwards was open before, and r neither
\* opens a task it does not work on nor leaves one that it worked on open.
OthersStay(r) ==
  \A q \in Requests \ {r} : pc'[q] = pc[q] /\ sess'[q] = sess[q] /\ task'[q] = task[q]

StartsKept(r) ==
  \A s \in Sessions : startTask'[s] = "running" =>
    \/ sess'[r] = s /\ pc'[r] \in LaunchPCs
    \/ startTask[s] = "running" /\ ~Starts(r, s)

StopsKept(r) ==
  \A s \in Sessions : \A i \in DOMAIN stopTasks'[s] : stopTasks'[s][i] \in Open =>
    \/ sess'[r] = s /\ task'[r] = i /\ pc'[r] \in StoppingAt
    \/ i \in DOMAIN stopTasks[s] /\ stopTasks[s][i] \in Open /\ ~Stops(r, s, i)

HandsOver(r) == OthersStay(r) /\ StartsKept(r) /\ StopsKept(r) /\ restarts' = restarts

\* Whoever follows a task in TasksFollowHandlers still does after such a step.
LEMMA HandingOverSuffices ==
  ASSUME TasksFollowHandlers, NEW r \in Requests, HandsOver(r)
  PROVE  TasksFollowHandlers'
<1> SUFFICES ASSUME restarts' = 0, NEW s \in Sessions
             PROVE  /\ startTask'[s] = "running" =>
                         \E q \in Requests : sess'[q] = s /\ pc'[q] \in LaunchPCs
                    /\ \A i \in DOMAIN stopTasks'[s] : stopTasks'[s][i] \in Open =>
                         \E q \in Requests :
                           sess'[q] = s /\ task'[q] = i /\ pc'[q] \in StoppingAt
  BY DEF TasksFollowHandlers, OpenStopTasks, LaunchPCs, StoppingAt, Open
<1>0. restarts = 0
  BY DEF HandsOver
<1>1. ASSUME startTask'[s] = "running"
      PROVE  \E q \in Requests : sess'[q] = s /\ pc'[q] \in LaunchPCs
  <2>1. CASE sess'[r] = s /\ pc'[r] \in LaunchPCs
    BY <2>1
  <2>2. CASE startTask[s] = "running" /\ ~Starts(r, s)
    <3>1. PICK q \in Requests : sess[q] = s /\ pc[q] \in LaunchPCs
      BY <1>0, <2>2 DEF TasksFollowHandlers, LaunchPCs
    <3>2. q # r
      BY <2>2, <3>1 DEF Starts
    <3> QED
      BY <3>1, <3>2 DEF HandsOver, OthersStay
  <2> QED
    BY <1>1, <2>1, <2>2 DEF HandsOver, StartsKept
<1>2. ASSUME NEW i \in DOMAIN stopTasks'[s], stopTasks'[s][i] \in Open
      PROVE  \E q \in Requests : sess'[q] = s /\ task'[q] = i /\ pc'[q] \in StoppingAt
  <2>1. CASE sess'[r] = s /\ task'[r] = i /\ pc'[r] \in StoppingAt
    BY <2>1
  <2>2. CASE i \in DOMAIN stopTasks[s] /\ stopTasks[s][i] \in Open /\ ~Stops(r, s, i)
    <3>1. PICK q \in Requests : sess[q] = s /\ task[q] = i /\ pc[q] \in StoppingAt
      BY <1>0, <2>2 DEF TasksFollowHandlers, OpenStopTasks, StoppingAt, Open
    <3>2. q # r
      BY <2>2, <3>1 DEF Stops
    <3> QED
      BY <3>1, <3>2 DEF HandsOver, OthersStay
  <2> QED
    BY <1>2, <2>1, <2>2 DEF HandsOver, StopsKept
<1> QED
  BY <1>1, <1>2

\* Each handler ends the tasks it began, and a task it leaves open is another
\* handler's.
LEMMA TasksStayFollowed ==
  ASSUME IInv, TasksFollowHandlers, [Next]_vars PROVE TasksFollowHandlers'
<1> USE SessionControlAssumption
<1> USE DEF SessionControlAssumption, Running, Resumed, Granted, Continue, Await,
           sessVars, taskVars, leaseVars, dbVars, usageVars, envVars, handlerVars
<1> USE DEF FaultHappens, HandsOver, OthersStay, StartsKept, StopsKept, Starts, Stops,
           LaunchPCs, StoppingAt, Open
<1>t. /\ startTask \in [Sessions -> TaskStates]
      /\ stopTasks \in [Sessions -> Seq(TaskStates)]
      /\ pc \in [Requests -> PCs]
      /\ sess \in [Requests -> Sessions \cup {NoSession}]
      /\ task \in [Requests -> Nat]
      /\ restarts \in Nat
  BY DEF IInv, TypeOK, OrchestratorTypeOK, ControlTypeOK
<1>s. \A r \in Requests : pc[r] # "idle" => sess[r] \in Sessions
  BY <1>t DEF IInv, HandlersHaveSessions, Stored
<1>u. ASSUME NEW s \in Sessions, NEW i, NEW v,
             stopTasks' = [stopTasks EXCEPT ![s][i] = v]
      PROVE  /\ \A t \in Sessions : DOMAIN stopTasks'[t] = DOMAIN stopTasks[t]
             /\ \A t \in Sessions : \A j \in DOMAIN stopTasks[t] :
                  stopTasks'[t][j] = IF t = s /\ j = i THEN v ELSE stopTasks[t][j]
  BY <1>t, <1>u
<1>a. ASSUME NEW r \in Requests, NEW p \in Profiles, NEW k \in Keys \cup {NoKey},
             StartEnqueue(r, p, k)
      PROVE  HandsOver(r)
  BY <1>t, <1>s, <1>a DEF StartEnqueue, EnqueueStart, IsNextId
<1>b. ASSUME NEW r \in Requests, NEW p \in Profiles, StopEnqueue(r, p)
      PROVE  HandsOver(r)
  <2>1. PICK s \in Sessions, i \in Nat :
          /\ sess' = [sess EXCEPT ![r] = s]
          /\ EnqueueStop(s, i)
          /\ task' = [task EXCEPT ![r] = i]
    <3>1. \A s \in Sessions : \A i \in 1..(Len(stopTasks[s]) + 1) : i \in Nat
      OBVIOUS
    <3> QED
      BY <1>b, <3>1 DEF StopEnqueue
  <2>2. OthersStay(r) /\ StartsKept(r) /\ restarts' = restarts
    BY <1>t, <1>b, <2>1 DEF StopEnqueue, EnqueueStop
  <2>3. pc[r] = "idle" /\ pc'[r] = "stopqueued" /\ sess'[r] = s /\ task'[r] = i
    BY <1>t, <1>b, <2>1 DEF StopEnqueue
  <2>4. CASE UNCHANGED stopTasks
    BY <1>t, <2>2, <2>3, <2>4
  <2>5. CASE /\ i = Len(stopTasks[s]) + 1
             /\ stopTasks' = [stopTasks EXCEPT ![s] = Append(@, "queued")]
    <3>1. /\ stopTasks'[s] = Append(stopTasks[s], "queued")
          /\ \A t \in Sessions \ {s} : stopTasks'[t] = stopTasks[t]
      BY <1>t, <2>5
    <3>2. /\ DOMAIN stopTasks'[s] = 1..i
          /\ DOMAIN stopTasks[s] = 1..(i - 1)
          /\ \A j \in 1..(i - 1) : stopTasks'[s][j] = stopTasks[s][j]
      BY <1>t, <2>5, <3>1
    <3>3. StopsKept(r)
      <4> SUFFICES ASSUME NEW t \in Sessions, NEW j \in DOMAIN stopTasks'[t],
                          stopTasks'[t][j] \in Open, ~(t = s /\ j = i)
                   PROVE  /\ j \in DOMAIN stopTasks[t]
                          /\ stopTasks[t][j] \in Open
        BY <2>3
      <4>1. CASE t = s
        BY <2>1, <2>5, <3>2, <4>1
      <4>2. CASE t # s
        BY <3>1, <4>2
      <4> QED
        BY <4>1, <4>2
    <3> QED
      BY <2>2, <3>3
  <2> QED
    BY <2>1, <2>4, <2>5 DEF EnqueueStop
<1>1. ASSUME NEW r \in Requests, StartAcquire(r) PROVE HandsOver(r)
  BY <1>t, <1>s, <1>1 DEF StartAcquire, AwaitLock, AcquireLease
<1>2. ASSUME NEW r \in Requests, StartRefused(r) PROVE HandsOver(r)
  BY <1>t, <1>s, <1>2 DEF StartRefused, Answer, RefuseLease
<1>3. ASSUME NEW r \in Requests, LaunchExisting(r) PROVE HandsOver(r)
  BY <1>t, <1>s, <1>3 DEF LaunchExisting
<1>4. ASSUME NEW r \in Requests, LaunchBegin(r) PROVE HandsOver(r)
  BY <1>t, <1>s, <1>4 DEF LaunchBegin
<1>5. ASSUME NEW r \in Requests, LaunchOpened(r) PROVE HandsOver(r)
  BY <1>t, <1>s, <1>5 DEF LaunchOpened
<1>6. ASSUME NEW r \in Requests, LaunchFails(r) PROVE HandsOver(r)
  BY <1>t, <1>s, <1>6 DEF LaunchFails, StartFails, FailStart
<1>7. ASSUME NEW r \in Requests, GotoLoaded(r) PROVE HandsOver(r)
  BY <1>t, <1>s, <1>7 DEF GotoLoaded
<1>8. ASSUME NEW r \in Requests, GotoFails(r) PROVE HandsOver(r)
  BY <1>t, <1>s, <1>8 DEF GotoFails, StartFails, FailStart
<1>9. ASSUME NEW r \in Requests, TitleRead(r) PROVE HandsOver(r)
  BY <1>t, <1>s, <1>9 DEF TitleRead, CompleteStart
<1>10. ASSUME NEW r \in Requests, TitleFails(r) PROVE HandsOver(r)
  BY <1>t, <1>s, <1>10 DEF TitleFails, StartFails, FailStart
<1>11. ASSUME NEW r \in Requests, StartFinish(r) PROVE HandsOver(r)
  BY <1>t, <1>s, <1>11 DEF StartFinish, Answer
<1>12. ASSUME NEW r \in Requests, StartFailFinish(r) PROVE HandsOver(r)
  BY <1>t, <1>s, <1>12 DEF StartFailFinish, Answer
<1>13. ASSUME NEW r \in Requests, StopMarkRunning(r) PROVE HandsOver(r)
  BY <1>t, <1>s, <1>u, <1>13 DEF StopMarkRunning, AwaitLock, MarkStopRunning
<1>14. ASSUME NEW r \in Requests, StopPopsNothing(r) PROVE HandsOver(r)
  BY <1>t, <1>s, <1>u, <1>14 DEF StopPopsNothing, StopCompletes, CompleteStop
<1>15. ASSUME NEW r \in Requests, StopPops(r) PROVE HandsOver(r)
  BY <1>t, <1>s, <1>15 DEF StopPops
<1>16. ASSUME NEW r \in Requests, StopClosed(r) PROVE HandsOver(r)
  BY <1>t, <1>s, <1>u, <1>16 DEF StopClosed, StopCompletes, CompleteStop
<1>17. ASSUME NEW r \in Requests, StopCloseFails(r) PROVE HandsOver(r)
  BY <1>t, <1>s, <1>u, <1>17 DEF StopCloseFails, Answer, FailStop
<1>18. ASSUME NEW r \in Requests, StopFinish(r) PROVE HandsOver(r)
  BY <1>t, <1>s, <1>18 DEF StopFinish, Answer
<1>d. CASE StartupRecover
  <2>1. UNCHANGED <<pc, sess, task, restarts>>
    BY <1>d DEF StartupRecover
  <2>2. \A s \in Sessions :
          /\ startTask'[s] = "running" => startTask[s] = "running"
          /\ DOMAIN stopTasks'[s] = DOMAIN stopTasks[s]
          /\ \A i \in DOMAIN stopTasks[s] :
               stopTasks'[s][i] \in Open => stopTasks[s][i] \in Open
    BY <1>t, <1>d DEF StartupRecover, RecoverExpiredLeases
  <2> QED
    BY <1>t, <2>1, <2>2 DEF TasksFollowHandlers, OpenStopTasks
<1>e. CASE ProcessEnds
  BY <1>t, <1>e DEF ProcessEnds, TasksFollowHandlers
<1>f. CASE \/ StartupHeartbeat
           \/ Tick
           \/ \E s \in Sessions : BrowserDies(s)
           \/ \E r \in Requests, p \in Profiles : StopNothingActive(r, p)
           \/ UNCHANGED vars
  <2>1. UNCHANGED <<pc, sess, task, restarts, startTask, stopTasks>>
    BY <1>f DEF StartupHeartbeat, Heartbeat, Tick, BrowserDies, StopNothingActive, vars
  <2> QED
    BY <2>1 DEF TasksFollowHandlers, OpenStopTasks
<1> QED
  BY <1>1, <1>2, <1>3, <1>4, <1>5, <1>6, <1>7, <1>8, <1>9, <1>10, <1>11,
     <1>12, <1>13, <1>14, <1>15, <1>16, <1>17, <1>18,
     <1>a, <1>b, <1>d, <1>e, <1>f, HandingOverSuffices
  DEF Next, StartRequest, StopRequest, StartStep, StopStep, Startup, Environment,
      Shutdown, Crash

\* mark_stop_running, complete_stop, fail_stop, complete_start and fail_start
\* leave no open task behind while the process stays up.
THEOREM TasksFollowHandlersHolds == Spec => []TasksFollowHandlers
<1>1. Init => TasksFollowHandlers
  BY DEF Init, OrchestratorInit, TasksFollowHandlers, OpenStopTasks
<1> QED
  BY <1>1, TasksStayFollowed, Invariance, PTL DEF Spec
-----------------------------------------------------------------------------
(* Ordinary life.                                                          *)

\* A start from its enqueue until its browser is registered.
PreparingPCs == {"enqueued", "launchwait", "launching", "goto"}

\* No newer session of the same profile has been stored.
IsNewest(s) == \A u \in Stored : sessProfile[u] = sessProfile[s] => u <= s

\* The ids are handed out in order.
IdsDense == \A s \in Stored : \A t \in Sessions : t < s => t \in Stored

\* A stop that goes on to its usage event has ended its session.
StoppedAreEnded ==
  \A r \in Requests : pc[r] = "stopped" => sessStatus[sess[r]] = "stopped"

\* A process that has not begun to serve has stored nothing.
NothingBeforeServing == phase # "serving" => Stored = {}

\* A start that has no browser yet works on the newest session of its profile,
\* which no stop has ended, and nothing is registered for the profile.
StartsAreFresh ==
  \A r \in Requests : pc[r] \in PreparingPCs =>
    /\ registry[ProfileOf(r)] = NoRuntime
    /\ sessStatus[sess[r]] \in {"queued", "provisioning"}
    /\ IsNewest(sess[r])

\* What is registered is the open browser of the newest session of its profile,
\* and that session is active and holds its lease.
RegisteredAreFresh ==
  \A p \in Profiles : registry[p] # NoRuntime =>
    /\ ctx[registry[p]] = "open"
    /\ sessStatus[registry[p]] \in {"provisioning", "running"}
    /\ leaseStatus[registry[p]] = "active"
    /\ IsNewest(registry[p])

\* Nobody but stops that have still to pop works on the session of such a start,
\* and they come after it has joined the queue of the lock.
StartsAreAlone ==
  \A r, q \in Requests :
    /\ pc[r] \in PreparingPCs
    /\ q # r /\ pc[q] # "idle" /\ sess[q] = sess[r]
    => pc[r] # "enqueued" /\ pc[q] \in {"stopqueued", "stopwait"}

\* A handler awaits the browser of its own session; who closes one has it
\* alone, open and unregistered.
BrowsersAreOwn ==
  /\ \A r \in Requests : pc[r] \in {"title", "closing"} => rt[r] = sess[r]
  /\ \A r \in Requests : pc[r] = "closing" =>
       ctx[sess[r]] = "open" /\ registry[ProfileOf(r)] # sess[r]
  /\ \A q, r \in Requests :
       pc[q] = "closing" /\ pc[r] = "closing" /\ sess[q] = sess[r] => q = r

\* A stop that has still to pop finds the browser of its own session.
StopsFindTheirs ==
  \A q \in Requests :
    pc[q] \in {"stopqueued", "stopwait"} /\ registry[ProfileOf(q)] # NoRuntime
      => sess[q] = registry[ProfileOf(q)]

\* A stop that comes upon a start of the profile stops that start's session.
StopsFollowStarts ==
  \A q, r \in Requests :
    pc[q] \in PreparingPCs /\ pc[r] = "stopqueued" /\ ProfileOf(q) = ProfileOf(r)
      => sess[q] = sess[r]

\* In the queue of the lock a start stands behind stops of older sessions of its
\* profile, and in front of stops of its own.
QueueInOrder ==
  \A q, r \in Requests : Precedes(lockq, q, r) /\ ProfileOf(q) = ProfileOf(r) =>
    /\ pc[r] \in PreparingPCs => pc[q] = "stopwait" /\ sess[q] # sess[r]
    /\ pc[q] \in PreparingPCs => sess[q] = sess[r]

\* A session shown as running has its own browser registered, or is being stopped.
RunningIsServed ==
  \A s \in Sessions : sessStatus[s] = "running" =>
    \/ registry[sessProfile[s]] = s
    \/ \E r \in Requests : pc[r] \in StopPCs /\ sess[r] = s

Life ==
  /\ NothingBeforeServing
  /\ StartsAreFresh
  /\ RegisteredAreFresh
  /\ StartsAreAlone
  /\ BrowsersAreOwn
  /\ StopsFindTheirs
  /\ StopsFollowStarts
  /\ QueueInOrder
  /\ RunningIsServed

LifeInv == IdsDense /\ StoppedAreEnded /\ (OrdinaryLife => Life)

\* What StopsFindTheirs, QueueInOrder and the others say is kept by each handler:
\* above all, a stop can neither overtake the launch of its own session nor
\* come between a launch and the end of an older session.
LEMMA LifeGoesOn ==
  ASSUME QInv, QInv', IdsDense, StoppedAreEnded,
         OrdinaryLife, OrdinaryLife', Life, [Next]_vars
  PROVE  Life'
<1> USE SessionControlAssumption, DeploymentAssumption
<1> USE DEF SessionControlAssumption, Running, Resumed, Granted, Continue, Await,
           ProfileOf, sessVars, taskVars, leaseVars, dbVars, rmVars, handlerVars,
           usageVars, envVars, FaultHappens, NoRuntime, NoSession, Sessions, Stored,
           PreparingPCs, IsNewest, ActiveSessions, ActiveStates,
           StopPCs, LockPCs, BusyPCs, LaunchPCs
<1> USE DEF NothingBeforeServing, StartsAreFresh, RegisteredAreFresh, StartsAreAlone,
           BrowsersAreOwn, StopsFindTheirs, StopsFollowStarts, QueueInOrder, RunningIsServed
<1>t. /\ sessStatus \in [Sessions -> SessionStates]
      /\ sessProfile \in [Sessions -> Profiles \cup {NoProfile}]
      /\ leaseStatus \in [Sessions -> LeaseStates]
      /\ registry \in [Profiles -> Sessions \cup {NoRuntime}]
      /\ ctx \in [Sessions -> ContextStates]
      /\ pc \in [Requests -> PCs]
      /\ sess \in [Requests -> Sessions \cup {NoSession}]
      /\ rt \in [Requests -> Sessions \cup {NoRuntime}]
      /\ loop \in Requests \cup {Free}
      /\ faults = 0 /\ faults' = 0 /\ restarts = 0 /\ restarts' = 0
      /\ MaxSessions \in Nat
  BY DEF QInv, RInv, IInv, TypeOK, OrchestratorTypeOK, RuntimeManagerTypeOK, ControlTypeOK,
     OrdinaryLife, DeploymentAssumption
<1>i. /\ IdsDense /\ StoppedAreEnded
      /\ HandlersHaveSessions /\ IdleUnlessServing /\ LaunchUnderWay /\ StartersDistinct
      /\ RuntimesKnown /\ LockServesWaiters /\ LoopHasARunner
  BY DEF QInv, RInv, IInv
<1>l. /\ NothingBeforeServing /\ StartsAreFresh /\ RegisteredAreFresh /\ StartsAreAlone
      /\ BrowsersAreOwn /\ StopsFindTheirs /\ StopsFollowStarts /\ QueueInOrder
      /\ RunningIsServed
  BY DEF Life
\* Who releases the lock stood in front of all the others, and they keep their order.
<1>u. ASSUME NEW r \in Requests, ReleaseLock(r)
      PROVE  /\ \A q \in Requests : q # r /\ pc[q] \in LockPCs => Precedes(lockq, r, q)
             /\ \A p, q \in Requests : Precedes(lockq', p, q) => Precedes(lockq, p, q)
  <2>1. lockq \in Seq(Requests) /\ HoldsLock(r)
    BY <1>u DEF QInv, RInv, IInv, TypeOK, RuntimeManagerTypeOK, ReleaseLock
  <2> QED
    BY <1>u, <2>1, HeadLeaves, HolderIsFirst DEF QInv, RInv, IInv, ReleaseLock, HoldsLock
\* Only those who launch or wait stand in the queue, before the step and after it.
<1>q. \A p, q \in Requests : Precedes(lockq, p, q) => pc[p] \in LockPCs /\ pc[q] \in LockPCs
  BY <1>i DEF LockServesWaiters, Precedes, Occurs
<1>v. \A p, q \in Requests :
        Precedes(lockq', p, q) => pc'[p] \in LockPCs /\ pc'[q] \in LockPCs
  BY DEF QInv, LockServesWaiters, Precedes, Occurs
<1>n. /\ \A r \in Requests : pc[r] \in BusyPCs => loop = r
      /\ Free \notin Requests
  BY <1>i DEF LoopHasARunner
\* Who joins the queue stands behind all the others.
<1>j. ASSUME NEW r \in Requests, JoinLock(r)
      PROVE  \A p, q \in Requests : Precedes(lockq', p, q) =>
               Precedes(lockq, p, q) \/ (pc[p] \in LockPCs /\ q = r)
  <2>1. lockq \in Seq(Requests)
    BY DEF QInv, RInv, IInv, TypeOK, RuntimeManagerTypeOK
  <2> QED
    BY <1>i, <1>j, <2>1, JoinsAtTheEnd DEF JoinLock, LockServesWaiters
<1>a. ASSUME NEW r \in Requests, NEW p \in Profiles, StartEnqueue(r, p, NoKey)
      PROVE  Life'
  <2>1. PICK s \in Sessions :
          /\ s \notin Stored
          /\ \A t \in Sessions : t < s => t \in Stored
          /\ sess' = [sess EXCEPT ![r] = s]
          /\ sessStatus' = [sessStatus EXCEPT ![s] = "queued"]
          /\ sessProfile' = [sessProfile EXCEPT ![s] = p]
    BY <1>a DEF StartEnqueue, EnqueueStart, IsNextId
  <2>2. /\ loop = Free /\ pc[r] = "idle" /\ pc' = [pc EXCEPT ![r] = "enqueued"]
        /\ phase = "serving" /\ phase' = phase
        /\ UNCHANGED <<leaseStatus, rt, lockq, registry, ctx>>
    BY <1>a, <2>1 DEF StartEnqueue, EnqueueStart
  <2>3. \A u \in Stored : u < s
    BY <1>i, <1>t, <2>1 DEF IdsDense
  <2>4. /\ registry[p] = NoRuntime
        /\ \A q \in Requests : pc[q] \in PreparingPCs => ProfileOf(q) # p
    BY <1>i, <1>l, <1>t, <1>a DEF StartEnqueue, StartAdmitted,
        HandlersHaveSessions, RuntimesKnown
  <2>5. StartsAreFresh' /\ RegisteredAreFresh'
    BY <1>i, <1>l, <1>t, <2>1, <2>2, <2>3, <2>4 DEF HandlersHaveSessions, RuntimesKnown
  <2>6. /\ NothingBeforeServing' /\ StartsAreAlone' /\ BrowsersAreOwn' /\ StopsFindTheirs'
        /\ StopsFollowStarts' /\ RunningIsServed'
    BY <1>i, <1>l, <1>t, <1>n, <2>1, <2>2, <2>4 DEF HandlersHaveSessions
  <2>7. QueueInOrder'
    BY <1>i, <1>l, <1>t, <1>q, <2>1, <2>2 DEF HandlersHaveSessions
  <2> QED
    BY <2>5, <2>6, <2>7 DEF Life
<1>b. ASSUME NEW r \in Requests, NEW p \in Profiles, StopEnqueue(r, p)
      PROVE  Life'
  <2>1. PICK s \in Sessions : IsNewestActive(s, p) /\ sess' = [sess EXCEPT ![r] = s]
    BY <1>b DEF StopEnqueue
  <2>2. /\ loop = Free /\ pc[r] = "idle" /\ pc' = [pc EXCEPT ![r] = "stopqueued"]
        /\ phase = "serving" /\ phase' = phase
        /\ UNCHANGED <<sessStatus, sessProfile, leaseStatus, rt, lockq, registry, ctx>>
    BY <1>b DEF StopEnqueue, EnqueueStop
  <2>3. s \in Stored /\ sessProfile[s] = p /\ \A t \in ActiveSessions(p) : t <= s
    BY <2>1 DEF IsNewestActive
  <2>4. /\ registry[p] # NoRuntime => registry[p] = s
        /\ \A q \in Requests : pc[q] \in PreparingPCs /\ ProfileOf(q) = p => sess[q] = s
    BY <1>i, <1>l, <1>t, <2>3 DEF HandlersHaveSessions, RuntimesKnown
  <2>5. /\ NothingBeforeServing' /\ StartsAreFresh' /\ RegisteredAreFresh' /\ StartsAreAlone'
        /\ BrowsersAreOwn' /\ StopsFindTheirs'
    BY <1>i, <1>l, <1>t, <1>n, <2>1, <2>2, <2>3, <2>4 DEF HandlersHaveSessions
  <2>6. StopsFollowStarts' /\ RunningIsServed'
    BY <1>l, <1>t, <1>n, <2>1, <2>2, <2>3, <2>4
  <2>7. QueueInOrder'
    BY <1>l, <1>t, <1>q, <2>1, <2>2
  <2> QED
    BY <2>5, <2>6, <2>7 DEF Life
<1>c. ASSUME UNCHANGED <<sessStatus, sessProfile, leaseStatus, lockq,
                       registry, ctx, pc, sess, rt>>,
             phase' = phase \/ Stored = {}
      PROVE  Life'
  <2>1. UNCHANGED <<lockq, registry, ctx, pc, sess, rt>>
    BY <1>c
  <2> QED
    BY <1>c, <2>1, <1>l DEF Life
<1>1. ASSUME NEW r \in Requests, StartAcquire(r) PROVE Life'
  BY <1>i, <1>l, <1>t, <1>n, <1>q, <1>1, <1>j
  DEF Life, StartAcquire, AwaitLock, JoinLock, AcquireLease, HandlersHaveSessions,
     StartersDistinct, StartingPCs, RuntimesKnown
<1>2. ASSUME NEW r \in Requests,
             StartRefused(r) \/ StartFinish(r) \/ StartFailFinish(r) \/ StopFinish(r)
      PROVE  Life'
  <2>1. /\ pc[r] \in BusyPCs /\ pc' = [pc EXCEPT ![r] = "idle"]
        /\ sess' = [sess EXCEPT ![r] = NoSession] /\ rt' = [rt EXCEPT ![r] = NoRuntime]
        /\ pc[r] \in StopPCs => pc[r] = "stopped"
        /\ UNCHANGED <<sessStatus, sessProfile, leaseStatus, lockq, registry, ctx, phase>>
    BY <1>2 DEF StartRefused, RefuseLease, StartFinish, StartFailFinish, StopFinish, Answer
  <2>2. /\ NothingBeforeServing' /\ StartsAreFresh' /\ RegisteredAreFresh' /\ StartsAreAlone'
    BY <1>l, <1>t, <2>1
  <2>3. /\ BrowsersAreOwn' /\ StopsFindTheirs' /\ StopsFollowStarts' /\ QueueInOrder'
    BY <1>l, <1>t, <1>q, <2>1
  <2>4. RunningIsServed'
    BY <1>i, <1>l, <1>t, <2>1 DEF StoppedAreEnded
  <2> QED
    BY <2>2, <2>3, <2>4 DEF Life
<1>3. ASSUME NEW r \in Requests, LaunchExisting(r) PROVE Life'
  BY <1>i, <1>l, <1>t, <1>n, <1>q, <1>3, <1>u
  DEF Life, LaunchExisting, LaunchReturnsRegistered, ReleaseLock,
     HandlersHaveSessions, StartersDistinct, StartingPCs, RuntimesKnown
<1>4. ASSUME NEW r \in Requests, LaunchBegin(r) PROVE Life'
  BY <1>i, <1>l, <1>t, <1>n, <1>q, <1>4
  DEF Life, LaunchBegin, HandlersHaveSessions, StartersDistinct, StartingPCs,
     RuntimesKnown
<1>5. ASSUME NEW r \in Requests, LaunchOpened(r) PROVE Life'
  BY <1>i, <1>l, <1>t, <1>n, <1>q, <1>5
  DEF Life, LaunchOpened, OpenContext, HandlersHaveSessions, StartersDistinct,
     StartingPCs, RuntimesKnown
<1>6. ASSUME NEW r \in Requests, LaunchFails(r) PROVE Life'
  BY <1>i, <1>l, <1>t, <1>n, <1>q, <1>6, <1>u
  DEF Life, LaunchFails, LaunchRaises, ReleaseLock, StartFails, FailStart,
     HandlersHaveSessions, StartersDistinct, StartingPCs, RuntimesKnown
<1>7. ASSUME NEW r \in Requests, GotoLoaded(r) PROVE Life'
  <2>1. /\ loop = Free /\ pc[r] = "goto" /\ pc' = [pc EXCEPT ![r] = "title"]
        /\ rt' = [rt EXCEPT ![r] = sess[r]]
        /\ ctx[sess[r]] = "open"
        /\ registry' = [registry EXCEPT ![ProfileOf(r)] = sess[r]]
        /\ ReleaseLock(r)
        /\ UNCHANGED <<sessStatus, sessProfile, leaseStatus, sess, ctx, phase>>
    BY <1>7 DEF GotoLoaded, Register
  <2>2. /\ sess[r] \in Stored /\ ProfileOf(r) \in Profiles
        /\ registry[ProfileOf(r)] = NoRuntime
        /\ sessStatus[sess[r]] = "provisioning" /\ leaseStatus[sess[r]] = "active"
        /\ IsNewest(sess[r])
    BY <1>i, <1>l, <2>1 DEF HandlersHaveSessions, LaunchUnderWay, QInv, RInv, IInv,
       LeaseMatchesSession
  <2>3. \A q \in Requests : q # r /\ pc[q] \in PreparingPCs => ProfileOf(q) # ProfileOf(r)
    BY <1>i, <1>l, <1>t, <2>1, <2>2 DEF HandlersHaveSessions, StartersDistinct, StartingPCs
  <2>4. \A q \in Requests : pc[q] \in {"stopqueued", "stopwait"} /\ ProfileOf(q) = ProfileOf(r)
          => sess[q] = sess[r]
    BY <1>l, <1>n, <1>u, <2>1
  <2>5. NothingBeforeServing' /\ StartsAreFresh' /\ RegisteredAreFresh'
    BY <1>i, <1>l, <1>t, <2>1, <2>2, <2>3
  <2>6. StartsAreAlone' /\ BrowsersAreOwn'
    <3>1. StartsAreAlone'
      BY <1>l, <1>t, <2>1
    <3>2. \A q \in Requests : pc[q] = "closing" => sess[q] # sess[r]
      BY <1>l, <2>1
    <3> QED
      BY <1>l, <1>t, <2>1, <2>2, <3>1, <3>2
  <2>7. StopsFindTheirs' /\ StopsFollowStarts'
    BY <1>l, <1>t, <2>1, <2>4
  <2>8. RunningIsServed'
    BY <1>l, <1>t, <2>1, <2>2
  <2>9. QueueInOrder'
    BY <1>l, <1>t, <1>u, <2>1
  <2> QED
    BY <2>5, <2>6, <2>7, <2>8, <2>9 DEF Life
<1>8. ASSUME NEW r \in Requests, GotoFails(r) PROVE Life'
  BY <1>i, <1>l, <1>t, <1>n, <1>q, <1>8, <1>u
  DEF Life, GotoFails, LaunchRaises, ReleaseLock, StartFails, FailStart,
     HandlersHaveSessions, StartersDistinct, StartingPCs, RuntimesKnown
<1>9. ASSUME NEW r \in Requests, TitleRead(r) PROVE Life'
  <2>1. /\ loop = Free /\ pc[r] = "title" /\ pc' = [pc EXCEPT ![r] = "completed"]
        /\ ctx[rt[r]] = "open"
        /\ sessStatus' = [sessStatus EXCEPT ![sess[r]] = "running"]
        /\ UNCHANGED <<sessProfile, leaseStatus, sess, rt, lockq, registry, ctx, phase>>
    BY <1>9 DEF TitleRead, CompleteStart
  <2>2. /\ sess[r] \in Stored
        /\ \A q \in Requests : q # r /\ pc[q] \in PreparingPCs => sess[q] # sess[r]
    BY <1>i, <2>1 DEF HandlersHaveSessions, StartersDistinct, StartingPCs
  <2>3. \/ registry[sessProfile[sess[r]]] = sess[r]
        \/ \E q \in Requests : pc[q] \in StopPCs /\ sess[q] = sess[r]
    <3>1. Lost = {}
      <4>1. IsFiniteSet(Lost) /\ Cardinality(Lost) <= 0 /\ Cardinality(Lost) \in Nat
        BY <1>t, SessionsFinite, FS_Subset, FS_CardinalityType
        DEF QInv, RInv, LostBrowsersAreFaults, Lost
      <4> QED
        BY <4>1, FS_EmptySet
    <3>2. Reachable(sess[r])
      BY <1>l, <2>1, <2>2, <3>1 DEF Lost
    <3> QED
      BY <1>l, <2>1, <2>2, <3>2 DEF Reachable
  <2>4. /\ NothingBeforeServing' /\ StartsAreFresh' /\ RegisteredAreFresh' /\ StartsAreAlone'
        /\ BrowsersAreOwn'
    BY <1>l, <1>t, <2>1, <2>2
  <2>5. /\ StopsFindTheirs' /\ StopsFollowStarts' /\ QueueInOrder'
    BY <1>l, <1>t, <1>q, <2>1
  <2>6. RunningIsServed'
    BY <1>l, <1>t, <2>1, <2>3
  <2> QED
    BY <2>4, <2>5, <2>6 DEF Life
<1>10. ASSUME NEW r \in Requests, TitleFails(r) PROVE Life'
  BY <1>i, <1>l, <1>t, <1>n, <1>q, <1>10
  DEF Life, TitleFails, StartFails, FailStart, HandlersHaveSessions,
     StartersDistinct, StartingPCs, RuntimesKnown
<1>13. ASSUME NEW r \in Requests, StopMarkRunning(r) PROVE Life'
  BY <1>i, <1>l, <1>t, <1>n, <1>q, <1>13, <1>j
  DEF Life, StopMarkRunning, AwaitLock, JoinLock, MarkStopRunning,
     HandlersHaveSessions, StartersDistinct, StartingPCs, RuntimesKnown
<1>14. ASSUME NEW r \in Requests, StopPopsNothing(r) PROVE Life'
  <2>1. /\ loop \in {r, Free} /\ pc[r] = "stopwait" /\ pc' = [pc EXCEPT ![r] = "stopped"]
        /\ registry[ProfileOf(r)] = NoRuntime /\ ReleaseLock(r)
        /\ registry' = [registry EXCEPT ![ProfileOf(r)] = NoRuntime]
        /\ sessStatus' = [sessStatus EXCEPT ![sess[r]] = "stopped"]
        /\ leaseStatus' = [leaseStatus EXCEPT
                             ![sess[r]] = IF @ = "active" THEN "released" ELSE @]
        /\ UNCHANGED <<sessProfile, sess, rt, ctx, phase>>
    BY <1>14 DEF StopPopsNothing, Pop, StopCompletes, CompleteStop
  <2>2. /\ sess[r] \in Stored /\ ProfileOf(r) \in Profiles /\ registry' = registry
        /\ \A p \in Profiles : registry[p] # sess[r]
    BY <1>i, <1>t, <2>1 DEF HandlersHaveSessions, RuntimesKnown
  <2>3. \A q \in Requests : pc[q] \in PreparingPCs => sess[q] # sess[r]
    BY <1>l, <1>u, <2>1
  <2>4. NothingBeforeServing' /\ StartsAreFresh' /\ RegisteredAreFresh'
    BY <1>i, <1>l, <1>t, <2>1, <2>2, <2>3
  <2>5. /\ StartsAreAlone' /\ BrowsersAreOwn' /\ StopsFindTheirs' /\ StopsFollowStarts'
        /\ RunningIsServed'
    BY <1>l, <1>t, <2>1, <2>2, <2>3
  <2>6. QueueInOrder'
    <3>1. \A p, q \in Requests : Precedes(lockq', p, q) =>
            /\ Precedes(lockq, p, q)
            /\ pc'[q] \in PreparingPCs => pc[q] \in PreparingPCs
            /\ pc'[p] \in PreparingPCs => pc[p] \in PreparingPCs
            /\ p # r
      BY <1>t, <1>u, <1>v, <2>1
    <3> QED
      BY <1>l, <1>t, <2>1, <3>1
  <2> QED
    BY <2>4, <2>5, <2>6 DEF Life
<1>15. ASSUME NEW r \in Requests, StopPops(r) PROVE Life'
  BY <1>i, <1>l, <1>t, <1>n, <1>q, <1>15, <1>u
  DEF Life, StopPops, Pop, ReleaseLock, HandlersHaveSessions, StartersDistinct,
     StartingPCs, RuntimesKnown
<1>16. ASSUME NEW r \in Requests, StopClosed(r) PROVE Life'
  <2>1. /\ loop = Free /\ pc[r] = "closing" /\ pc' = [pc EXCEPT ![r] = "stopped"]
        /\ ctx' = [ctx EXCEPT ![sess[r]] = "closed"]
        /\ sessStatus' = [sessStatus EXCEPT ![sess[r]] = "stopped"]
        /\ leaseStatus' = [leaseStatus EXCEPT
                             ![sess[r]] = IF @ = "active" THEN "released" ELSE @]
        /\ UNCHANGED <<sessProfile, sess, rt, lockq, registry, phase>>
    BY <1>l, <1>16 DEF StopClosed, CloseContext, StopCompletes, CompleteStop
  <2>2. /\ sess[r] \in Stored
        /\ \A p \in Profiles : registry[p] # sess[r]
        /\ \A q \in Requests : pc[q] \in PreparingPCs => sess[q] # sess[r]
    <3>1. sess[r] \in Stored /\ registry[ProfileOf(r)] # sess[r]
      BY <1>i, <1>l, <2>1 DEF HandlersHaveSessions
    <3>2. \A p \in Profiles : registry[p] # sess[r]
      BY <1>i, <3>1 DEF RuntimesKnown
    <3>3. \A q \in Requests : pc[q] \in PreparingPCs => sess[q] # sess[r]
      BY <1>l, <2>1
    <3> QED
      BY <3>1, <3>2, <3>3
  <2>3. NothingBeforeServing' /\ StartsAreFresh' /\ RegisteredAreFresh'
    BY <1>i, <1>l, <1>t, <2>1, <2>2 DEF HandlersHaveSessions, RuntimesKnown
  <2>4. /\ StartsAreAlone' /\ BrowsersAreOwn'
    BY <1>l, <1>t, <2>1, <2>2
  <2>5. StopsFindTheirs' /\ StopsFollowStarts' /\ QueueInOrder' /\ RunningIsServed'
    BY <1>l, <1>t, <1>q, <2>1
  <2> QED
    BY <2>3, <2>4, <2>5 DEF Life
<1>17. ASSUME NEW r \in Requests, StopCloseFails(r) PROVE Life'
  BY <1>i, <1>l, <1>t, <1>n, <1>q, <1>17
  DEF Life, StopCloseFails, CloseContextRaises, FailStop, Answer,
     HandlersHaveSessions, StartersDistinct, StartingPCs, RuntimesKnown
<1>d. ASSUME Startup PROVE Life'
  <2>1. /\ UNCHANGED <<lockq, registry, ctx, pc, sess, rt, sessProfile>>
        /\ \A s \in Sessions : sessStatus'[s] = "absent" /\ sessStatus[s] = "absent"
    <3>1. phase # "serving" /\ \A s \in Sessions : sessStatus[s] = "absent"
      BY <1>l, <1>d DEF Startup, StartupRecover, StartupHeartbeat
    <3> QED
      BY <1>d, <3>1 DEF Startup, StartupRecover, StartupHeartbeat,
         RecoverExpiredLeases, Heartbeat
  <2>2. /\ \A r \in Requests : pc[r] = "idle"
        /\ \A p \in Profiles : registry[p] = NoRuntime
    BY <1>i, <2>1 DEF HandlersHaveSessions, RuntimesKnown
  <2>3. QueueInOrder'
    BY <1>q, <2>1, <2>2
  <2> QED
    BY <1>l, <2>1, <2>2, <2>3 DEF Life
\* No start of ordinary life has a key, and nothing of it fails or ends the process.
<1>o. \A r \in Requests, p \in Profiles, k \in Keys \cup {NoKey} :
        StartEnqueue(r, p, k) => k = NoKey
  <2> SUFFICES ASSUME NEW r \in Requests, NEW p \in Profiles, NEW k \in Keys \cup {NoKey},
                      StartEnqueue(r, p, k)
               PROVE  k = NoKey
    OBVIOUS
  <2>1. PICK s \in Sessions : EnqueueStart(s, p, k)
    BY DEF StartEnqueue
  <2>2. s \in Stored' /\ sessKey'[s] = k
    BY <1>t, <2>1 DEF EnqueueStart, QInv, RInv, IInv, TypeOK, OrchestratorTypeOK
  <2> QED
    BY <2>2 DEF OrdinaryLife
<1>p. ~ProcessEnds /\ \A s \in Sessions : ~BrowserDies(s)
  BY <1>t DEF ProcessEnds, BrowserDies
<1>r. \/ Tick \/ UNCHANGED vars
      \/ \E r \in Requests, p \in Profiles : StopNothingActive(r, p)
      => Life'
  BY <1>c DEF Tick, vars, StopNothingActive
<1> HIDE DEF Life
<1> QED
  BY <1>1, <1>2, <1>3, <1>4, <1>5, <1>6, <1>7, <1>8, <1>9, <1>10,
     <1>13, <1>14, <1>15, <1>16, <1>17, <1>a, <1>b, <1>d, <1>o, <1>p, <1>r
  DEF Next, StartRequest, StopRequest, StartStep, StopStep, Environment,
      Shutdown, Crash

\* A stop goes on to its usage event at once after complete_stop.
LEMMA StoppedStayEnded ==
  ASSUME QInv, StoppedAreEnded, [Next]_vars PROVE StoppedAreEnded'
<1> USE SessionControlAssumption
<1> USE DEF SessionControlAssumption, Running, Resumed, Granted, Continue, Await,
           sessVars, dbVars, handlerVars, StoppedAreEnded
<1>t. /\ pc \in [Requests -> PCs]
      /\ sess \in [Requests -> Sessions \cup {NoSession}]
      /\ sessStatus \in [Sessions -> SessionStates]
      /\ \A r \in Requests : pc[r] # "idle" => sess[r] \in Sessions
      /\ \A r \in Requests : pc[r] = "stopped" => loop = r
      /\ phase # "serving" => \A r \in Requests : pc[r] = "idle"
  BY DEF QInv, RInv, IInv, TypeOK, OrchestratorTypeOK, ControlTypeOK, HandlersHaveSessions,
     Stored, LoopHasARunner, BusyPCs, IdleUnlessServing
<1>1. ASSUME NEW r \in Requests, StartRequest(r) \/ StopRequest(r)
      PROVE  StoppedAreEnded'
  BY <1>t, <1>1 DEF StartRequest, StopRequest, StartEnqueue, StopEnqueue, StopNothingActive
<1>2. ASSUME NEW r \in Requests, StartStep(r) PROVE StoppedAreEnded'
  <2>1. \A q \in Requests : pc[q] # "stopped"
    BY <1>t, <1>2 DEF StartStep, StartAcquire, StartRefused, LaunchExisting,
       LaunchBegin, LaunchOpened, LaunchFails, GotoLoaded, GotoFails, TitleRead, TitleFails,
       StartFinish, StartFailFinish
  <2>2. \A q \in Requests : pc'[q] # "stopped"
    BY <1>t, <1>2, <2>1 DEF StartStep, StartAcquire, AwaitLock, StartRefused, LaunchExisting,
       LaunchBegin, LaunchOpened, LaunchFails, GotoLoaded, GotoFails, TitleRead, TitleFails,
       StartFinish, StartFailFinish, StartFails, Answer
  <2> QED
    BY <2>2
<1>3. ASSUME NEW r \in Requests, StopStep(r) PROVE StoppedAreEnded'
  BY <1>t, <1>3 DEF StopStep, StopMarkRunning, AwaitLock, StopPopsNothing, StopPops,
     StopClosed, StopCloseFails, StopFinish, StopCompletes, CompleteStop, Answer
<1>4. CASE Startup
  BY <1>t, <1>4 DEF Startup, StartupRecover, StartupHeartbeat
<1>5. CASE Environment
  BY <1>5 DEF Environment, Shutdown, Crash, ProcessEnds, Tick, BrowserDies
<1> QED
  BY <1>1, <1>2, <1>3, <1>4, <1>5 DEF Next, vars

\* The ids stay dense, and ordinary life once left is over.
LEMMA LifeInvariance == Spec => []LifeInv
<1>1. ASSUME Init PROVE LifeInv
  <2>1. /\ Stored = {} /\ lockq = <<>>
        /\ \A r \in Requests : pc[r] = "idle"
        /\ \A p \in Profiles : registry[p] = NoRuntime
        /\ \A s \in Sessions : sessStatus[s] = "absent"
    BY <1>1 DEF Init, OrchestratorInit, RuntimeManagerInit, Stored
  <2> QED
    BY <2>1
    DEF LifeInv, IdsDense, StoppedAreEnded, Life, NothingBeforeServing, StartsAreFresh,
        PreparingPCs, RegisteredAreFresh, StartsAreAlone, BrowsersAreOwn, StopsFindTheirs,
        StopsFollowStarts, QueueInOrder, RunningIsServed, Precedes
<1>2. ASSUME QInv, QInv', LifeInv, [Next]_vars PROVE LifeInv'
  <2>1. /\ TypeOK /\ HandlersHaveSessions
    BY <1>2 DEF QInv, RInv, IInv
  <2>2. IdsDense'
    <3>1. CASE Stored' \subseteq Stored
      BY <1>2, <2>1, <3>1, StoredStays DEF LifeInv, IdsDense
    <3>2. ASSUME NEW n \in Sessions, NEW p \in Profiles, NEW k \in Keys \cup {NoKey},
                 EnqueueStart(n, p, k)
          PROVE  IdsDense'
      <4>1. Stored' = Stored \cup {n} /\ \A t \in Sessions : t < n => t \in Stored
        BY <2>1, <3>2 DEF EnqueueStart, IsNextId, Stored, TypeOK, OrchestratorTypeOK
      <4> QED
        BY <1>2, <4>1 DEF LifeInv, IdsDense
    <3> QED
      BY <1>2, <2>1, <3>1, <3>2, OnlyStartsStore
  <2>3. StoppedAreEnded'
    BY <1>2, StoppedStayEnded DEF LifeInv
  <2>4. ASSUME OrdinaryLife' PROVE OrdinaryLife
    BY <1>2, <2>1, <2>4, CountersGrow, StoredStays DEF OrdinaryLife, TypeOK, ControlTypeOK
  <2>5. OrdinaryLife' => Life'
    BY <1>2, <2>4, LifeGoesOn DEF LifeInv
  <2> QED
    BY <2>2, <2>3, <2>5 DEF LifeInv
<1> QED
  BY <1>1, <1>2, ExecutorInvariance, PTL DEF Spec

\* In ordinary life no race of starts and stops loses the runtime of a session
\* that is shown as running.
THEOREM RunningIsBackedHolds == Spec => []RunningIsBacked
<1>1. LifeInv => RunningIsBacked
  <2> SUFFICES ASSUME LifeInv, OrdinaryLife, NEW s \in Sessions, sessStatus[s] = "running"
               PROVE  \/ registry[sessProfile[s]] # NoRuntime
                      \/ \E r \in Requests : pc[r] \in StopPCs /\ sess[r] = s
    BY DEF RunningIsBacked
  <2> QED
    BY DEF LifeInv, Life, RunningIsServed, NoRuntime, Sessions
<1> QED
  BY <1>1, LifeInvariance, PTL

\* In ordinary life what is registered is the browser of an active session that
\* holds its lease: leases bound the browsers in use.
THEOREM RegisteredIsLeasedHolds == Spec => []RegisteredIsLeased
<1>1. LifeInv => RegisteredIsLeased
  BY DEF LifeInv, Life, RegisteredAreFresh, RegisteredIsLeased
<1> QED
  BY <1>1, LifeInvariance, PTL
=============================================================================
