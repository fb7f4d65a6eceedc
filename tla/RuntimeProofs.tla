----------------------------- MODULE RuntimeProofs -----------------------------
(***************************************************************************)
(* Proofs about the executor: handlers and registry never mix up the       *)
(* browsers of two profiles, and each open browser that is lost has a      *)
(* failed call of its own.  The inductive invariant RInv adds to IInv what *)
(* the lock of RuntimeManager gives a launch that holds it across its      *)
(* awaits.  QInv adds who stands in the queue of the lock and what a       *)
(* handler awaits there, so that some handler may always go on.            *)
(***************************************************************************)
EXTENDS SessionProofs

-----------------------------------------------------------------------------
(* The inductive invariant.                                                *)

\* The registry and the handlers name browsers of stored sessions, each of the
\* profile it is registered or used for; an idle slot names none.
RuntimesKnown ==
  /\ \A p \in Profiles :
       registry[p] # NoRuntime =>
         registry[p] \in Stored /\ sessProfile[registry[p]] = p
  /\ \A r \in Requests :
       rt[r] # NoRuntime =>
         /\ pc[r] # "idle"
         /\ rt[r] \in Stored
         /\ sessProfile[rt[r]] = ProfileOf(r)

\* A launch holds the lock over its awaits, so nobody registers a runtime for
\* its profile meanwhile.
LaunchersHoldLock ==
  \A r \in Requests :
    pc[r] \in {"launching", "goto"} =>
      HoldsLock(r) /\ registry[ProfileOf(r)] = NoRuntime

\* Browsers are launched for stored sessions.
OpenIsStored == \A s \in Sessions : ctx[s] = "open" => s \in Stored

RInv ==
  /\ IInv
  /\ RuntimesKnown
  /\ LaunchersHoldLock
  /\ OpenIsStored
  /\ LostBrowsersAreFaults

-----------------------------------------------------------------------------
(* Every step preserves it.                                                *)

\* launch, stop and the handlers pass on browsers of their own profile only.
LEMMA RuntimesStayKnown == ASSUME RInv, [Next]_vars PROVE RuntimesKnown'
<1> USE SessionControlAssumption
<1> USE DEF ContextStates, PCs, StartPCs, StopPCs, Running, Resumed, Granted,
           Continue, Await, ProfileOf, HoldsLock, rmVars, handlerVars, envVars,
           NoRuntime, NoSession, Sessions, HandlersHaveSessions, RuntimesKnown
<1>0. /\ HandlersHaveSessions /\ IdleUnlessServing
      /\ RuntimesKnown /\ LaunchersHoldLock /\ OpenIsStored
  BY DEF RInv, IInv
<1>s. \A s \in Stored : s \in Stored' /\ sessProfile'[s] = sessProfile[s]
  BY StoredStays DEF RInv, IInv
<1>t. /\ sessProfile \in [Sessions -> Profiles \cup {NoProfile}]
      /\ registry \in [Profiles -> Sessions \cup {NoRuntime}]
      /\ ctx \in [Sessions -> ContextStates]
      /\ lockq \in Seq(Requests)
      /\ pc \in [Requests -> PCs]
      /\ sess \in [Requests -> Sessions \cup {NoSession}]
      /\ rt \in [Requests -> Sessions \cup {NoRuntime}]
      /\ faults \in Nat
  BY DEF RInv, IInv, TypeOK, OrchestratorTypeOK, RuntimeManagerTypeOK, ControlTypeOK
<1>a. ASSUME NEW r \in Requests, NEW p \in Profiles, NEW k \in Keys \cup {NoKey},
             StartEnqueue(r, p, k)
      PROVE  RuntimesKnown'
  BY <1>0, <1>s, <1>t, <1>a DEF StartEnqueue, EnqueueStart, IsNextId
<1>b. ASSUME NEW r \in Requests, NEW p \in Profiles, StopEnqueue(r, p)
      PROVE  RuntimesKnown'
  BY <1>0, <1>s, <1>t, <1>b DEF StopEnqueue, IsNewestActive,
     ActiveSessions, ActiveStates
<1>c. ASSUME NEW r \in Requests, NEW p \in Profiles, StopNothingActive(r, p)
      PROVE  RuntimesKnown'
  BY <1>0, <1>s, <1>t, <1>c DEF StopNothingActive
<1>1. ASSUME NEW r \in Requests, StartAcquire(r) PROVE RuntimesKnown'
  BY <1>0, <1>s, <1>t, <1>1 DEF StartAcquire, AwaitLock, JoinLock
<1>2. ASSUME NEW r \in Requests, StartRefused(r) PROVE RuntimesKnown'
  BY <1>0, <1>s, <1>t, <1>2 DEF StartRefused, Answer
<1>3. ASSUME NEW r \in Requests, LaunchExisting(r) PROVE RuntimesKnown'
  BY <1>0, <1>s, <1>t, <1>3 DEF LaunchExisting, LaunchReturnsRegistered, ReleaseLock
<1>4. ASSUME NEW r \in Requests, LaunchBegin(r) PROVE RuntimesKnown'
  BY <1>0, <1>s, <1>t, <1>4 DEF LaunchBegin
<1>5. ASSUME NEW r \in Requests, LaunchOpened(r) PROVE RuntimesKnown'
  BY <1>0, <1>s, <1>t, <1>5 DEF LaunchOpened, OpenContext
<1>6. ASSUME NEW r \in Requests, LaunchFails(r) PROVE RuntimesKnown'
  BY <1>0, <1>s, <1>t, <1>6 DEF LaunchFails, LaunchRaises, ReleaseLock, StartFails
<1>7. ASSUME NEW r \in Requests, GotoLoaded(r) PROVE RuntimesKnown'
  BY <1>0, <1>s, <1>t, <1>7 DEF GotoLoaded, Register, ReleaseLock
<1>8. ASSUME NEW r \in Requests, GotoFails(r) PROVE RuntimesKnown'
  BY <1>0, <1>s, <1>t, <1>8 DEF GotoFails, LaunchRaises, ReleaseLock, StartFails
<1>9. ASSUME NEW r \in Requests, TitleRead(r) PROVE RuntimesKnown'
  BY <1>0, <1>s, <1>t, <1>9 DEF TitleRead
<1>10. ASSUME NEW r \in Requests, TitleFails(r) PROVE RuntimesKnown'
  BY <1>0, <1>s, <1>t, <1>10 DEF TitleFails, StartFails
<1>11. ASSUME NEW r \in Requests, StartFinish(r) PROVE RuntimesKnown'
  BY <1>0, <1>s, <1>t, <1>11 DEF StartFinish, Answer
<1>12. ASSUME NEW r \in Requests, StartFailFinish(r) PROVE RuntimesKnown'
  BY <1>0, <1>s, <1>t, <1>12 DEF StartFailFinish, Answer
<1>13. ASSUME NEW r \in Requests, StopMarkRunning(r) PROVE RuntimesKnown'
  BY <1>0, <1>s, <1>t, <1>13 DEF StopMarkRunning, AwaitLock, JoinLock
<1>14. ASSUME NEW r \in Requests, StopPopsNothing(r) PROVE RuntimesKnown'
  BY <1>0, <1>s, <1>t, <1>14 DEF StopPopsNothing, Pop, ReleaseLock, StopCompletes
<1>15. ASSUME NEW r \in Requests, StopPops(r) PROVE RuntimesKnown'
  BY <1>0, <1>s, <1>t, <1>15 DEF StopPops, Pop, ReleaseLock
<1>16. ASSUME NEW r \in Requests, StopClosed(r) PROVE RuntimesKnown'
  BY <1>0, <1>s, <1>t, <1>16 DEF StopClosed, CloseContext, StopCompletes
<1>17. ASSUME NEW r \in Requests, StopCloseFails(r) PROVE RuntimesKnown'
  BY <1>0, <1>s, <1>t, <1>17 DEF StopCloseFails, CloseContextRaises, Answer
<1>18. ASSUME NEW r \in Requests, StopFinish(r) PROVE RuntimesKnown'
  BY <1>0, <1>s, <1>t, <1>18 DEF StopFinish, Answer
<1>d. CASE Startup
  BY <1>0, <1>s, <1>t, <1>d DEF Startup, StartupRecover, StartupHeartbeat
<1>e. CASE ProcessEnds
  BY <1>0, <1>s, <1>t, <1>e DEF ProcessEnds, LoseEverything
<1>f. CASE Tick
  BY <1>0, <1>s, <1>t, <1>f DEF Tick
<1>g. ASSUME NEW s \in Sessions, BrowserDies(s) PROVE RuntimesKnown'
  BY <1>0, <1>s, <1>t, <1>g DEF BrowserDies, CloseContext
<1>h. CASE UNCHANGED vars
  BY <1>0, <1>s, <1>t, <1>h DEF vars
<1> QED
  BY <1>1, <1>2, <1>3, <1>4, <1>5, <1>6, <1>7, <1>8, <1>9, <1>10, <1>11,
     <1>12, <1>13, <1>14, <1>15, <1>16, <1>17, <1>18,
     <1>a, <1>b, <1>c, <1>d, <1>e, <1>f, <1>g, <1>h
  DEF RInv, Next, StartRequest, StopRequest, StartStep, StopStep, Environment,
      Shutdown, Crash

\* Only the holder of the lock registers, pops or releases.
LEMMA LaunchersKeepLock == ASSUME RInv, [Next]_vars PROVE LaunchersHoldLock'
<1> USE SessionControlAssumption
<1> USE DEF ContextStates, PCs, StartPCs, StopPCs, Running, Resumed, Granted,
           Continue, Await, ProfileOf, HoldsLock, rmVars, handlerVars, envVars,
           NoRuntime, NoSession, Sessions, HandlersHaveSessions, LaunchersHoldLock
<1>0. /\ HandlersHaveSessions /\ IdleUnlessServing
      /\ RuntimesKnown /\ LaunchersHoldLock /\ OpenIsStored
  BY DEF RInv, IInv
<1>s. \A s \in Stored : s \in Stored' /\ sessProfile'[s] = sessProfile[s]
  BY StoredStays DEF RInv, IInv
<1>t. /\ sessProfile \in [Sessions -> Profiles \cup {NoProfile}]
      /\ registry \in [Profiles -> Sessions \cup {NoRuntime}]
      /\ ctx \in [Sessions -> ContextStates]
      /\ lockq \in Seq(Requests)
      /\ pc \in [Requests -> PCs]
      /\ sess \in [Requests -> Sessions \cup {NoSession}]
      /\ rt \in [Requests -> Sessions \cup {NoRuntime}]
      /\ faults \in Nat
  BY DEF RInv, IInv, TypeOK, OrchestratorTypeOK, RuntimeManagerTypeOK, ControlTypeOK
<1>a. ASSUME NEW r \in Requests, NEW p \in Profiles, NEW k \in Keys \cup {NoKey},
             StartEnqueue(r, p, k)
      PROVE  LaunchersHoldLock'
  BY <1>0, <1>s, <1>t, <1>a DEF StartEnqueue, EnqueueStart, IsNextId
<1>b. ASSUME NEW r \in Requests, NEW p \in Profiles, StopEnqueue(r, p)
      PROVE  LaunchersHoldLock'
  BY <1>0, <1>s, <1>t, <1>b DEF StopEnqueue, IsNewestActive,
     ActiveSessions, ActiveStates
<1>c. ASSUME NEW r \in Requests, NEW p \in Profiles, StopNothingActive(r, p)
      PROVE  LaunchersHoldLock'
  BY <1>0, <1>s, <1>t, <1>c DEF StopNothingActive
<1>1. ASSUME NEW r \in Requests, StartAcquire(r) PROVE LaunchersHoldLock'
  <2>1. lockq # <<>> => lockq' # <<>> /\ Head(lockq') = Head(lockq)
    BY <1>t, <1>1 DEF StartAcquire, AwaitLock, JoinLock
  <2>2. /\ pc' = [pc EXCEPT ![r] = "launchwait"]
        /\ UNCHANGED <<sess, registry>>
    BY <1>1 DEF StartAcquire, AwaitLock, JoinLock
  <2> QED
    BY <1>0, <1>s, <1>t, <2>1, <2>2
<1>2. ASSUME NEW r \in Requests, StartRefused(r) PROVE LaunchersHoldLock'
  BY <1>0, <1>s, <1>t, <1>2 DEF StartRefused, Answer
<1>3. ASSUME NEW r \in Requests, LaunchExisting(r) PROVE LaunchersHoldLock'
  BY <1>0, <1>s, <1>t, <1>3 DEF LaunchExisting, LaunchReturnsRegistered, ReleaseLock
<1>4. ASSUME NEW r \in Requests, LaunchBegin(r) PROVE LaunchersHoldLock'
  BY <1>0, <1>s, <1>t, <1>4 DEF LaunchBegin
<1>5. ASSUME NEW r \in Requests, LaunchOpened(r) PROVE LaunchersHoldLock'
  BY <1>0, <1>s, <1>t, <1>5 DEF LaunchOpened, OpenContext
<1>6. ASSUME NEW r \in Requests, LaunchFails(r) PROVE LaunchersHoldLock'
  BY <1>0, <1>s, <1>t, <1>6 DEF LaunchFails, LaunchRaises, ReleaseLock, StartFails
<1>7. ASSUME NEW r \in Requests, GotoLoaded(r) PROVE LaunchersHoldLock'
  BY <1>0, <1>s, <1>t, <1>7 DEF GotoLoaded, Register, ReleaseLock
<1>8. ASSUME NEW r \in Requests, GotoFails(r) PROVE LaunchersHoldLock'
  BY <1>0, <1>s, <1>t, <1>8 DEF GotoFails, LaunchRaises, ReleaseLock, StartFails
<1>9. ASSUME NEW r \in Requests, TitleRead(r) PROVE LaunchersHoldLock'
  BY <1>0, <1>s, <1>t, <1>9 DEF TitleRead
<1>10. ASSUME NEW r \in Requests, TitleFails(r) PROVE LaunchersHoldLock'
  BY <1>0, <1>s, <1>t, <1>10 DEF TitleFails, StartFails
<1>11. ASSUME NEW r \in Requests, StartFinish(r) PROVE LaunchersHoldLock'
  BY <1>0, <1>s, <1>t, <1>11 DEF StartFinish, Answer
<1>12. ASSUME NEW r \in Requests, StartFailFinish(r) PROVE LaunchersHoldLock'
  BY <1>0, <1>s, <1>t, <1>12 DEF StartFailFinish, Answer
<1>13. ASSUME NEW r \in Requests, StopMarkRunning(r) PROVE LaunchersHoldLock'
  BY <1>0, <1>s, <1>t, <1>13 DEF StopMarkRunning, AwaitLock, JoinLock
<1>14. ASSUME NEW r \in Requests, StopPopsNothing(r) PROVE LaunchersHoldLock'
  BY <1>0, <1>s, <1>t, <1>14 DEF StopPopsNothing, Pop, ReleaseLock, StopCompletes
<1>15. ASSUME NEW r \in Requests, StopPops(r) PROVE LaunchersHoldLock'
  BY <1>0, <1>s, <1>t, <1>15 DEF StopPops, Pop, ReleaseLock
<1>16. ASSUME NEW r \in Requests, StopClosed(r) PROVE LaunchersHoldLock'
  BY <1>0, <1>s, <1>t, <1>16 DEF StopClosed, CloseContext, StopCompletes
<1>17. ASSUME NEW r \in Requests, StopCloseFails(r) PROVE LaunchersHoldLock'
  BY <1>0, <1>s, <1>t, <1>17 DEF StopCloseFails, CloseContextRaises, Answer
<1>18. ASSUME NEW r \in Requests, StopFinish(r) PROVE LaunchersHoldLock'
  BY <1>0, <1>s, <1>t, <1>18 DEF StopFinish, Answer
<1>d. CASE Startup
  BY <1>0, <1>s, <1>t, <1>d DEF Startup, StartupRecover, StartupHeartbeat
<1>e. CASE ProcessEnds
  BY <1>0, <1>s, <1>t, <1>e DEF ProcessEnds, LoseEverything
<1>f. CASE Tick
  BY <1>0, <1>s, <1>t, <1>f DEF Tick
<1>g. ASSUME NEW s \in Sessions, BrowserDies(s) PROVE LaunchersHoldLock'
  BY <1>0, <1>s, <1>t, <1>g DEF BrowserDies, CloseContext
<1>h. CASE UNCHANGED vars
  BY <1>0, <1>s, <1>t, <1>h DEF vars
<1> QED
  BY <1>1, <1>2, <1>3, <1>4, <1>5, <1>6, <1>7, <1>8, <1>9, <1>10, <1>11,
     <1>12, <1>13, <1>14, <1>15, <1>16, <1>17, <1>18,
     <1>a, <1>b, <1>c, <1>d, <1>e, <1>f, <1>g, <1>h
  DEF RInv, Next, StartRequest, StopRequest, StartStep, StopStep, Environment,
      Shutdown, Crash

\* A browser is opened by a handler that has a stored session.
LEMMA OpenStaysStored == ASSUME RInv, [Next]_vars PROVE OpenIsStored'
<1> USE SessionControlAssumption
<1> USE DEF ContextStates, PCs, StartPCs, StopPCs, Running, Resumed, Granted,
           Continue, Await, ProfileOf, HoldsLock, rmVars, handlerVars, envVars,
           NoRuntime, NoSession, Sessions, HandlersHaveSessions, OpenIsStored
<1>0. /\ HandlersHaveSessions /\ IdleUnlessServing
      /\ RuntimesKnown /\ LaunchersHoldLock /\ OpenIsStored
  BY DEF RInv, IInv
<1>s. \A s \in Stored : s \in Stored' /\ sessProfile'[s] = sessProfile[s]
  BY StoredStays DEF RInv, IInv
<1>t. /\ sessProfile \in [Sessions -> Profiles \cup {NoProfile}]
      /\ registry \in [Profiles -> Sessions \cup {NoRuntime}]
      /\ ctx \in [Sessions -> ContextStates]
      /\ lockq \in Seq(Requests)
      /\ pc \in [Requests -> PCs]
      /\ sess \in [Requests -> Sessions \cup {NoSession}]
      /\ rt \in [Requests -> Sessions \cup {NoRuntime}]
      /\ faults \in Nat
  BY DEF RInv, IInv, TypeOK, OrchestratorTypeOK, RuntimeManagerTypeOK, ControlTypeOK
<1>a. ASSUME NEW r \in Requests, NEW p \in Profiles, NEW k \in Keys \cup {NoKey},
             StartEnqueue(r, p, k)
      PROVE  OpenIsStored'
  BY <1>0, <1>s, <1>t, <1>a DEF StartEnqueue, EnqueueStart, IsNextId
<1>b. ASSUME NEW r \in Requests, NEW p \in Profiles, StopEnqueue(r, p)
      PROVE  OpenIsStored'
  BY <1>0, <1>s, <1>t, <1>b DEF StopEnqueue, IsNewestActive,
     ActiveSessions, ActiveStates
<1>c. ASSUME NEW r \in Requests, NEW p \in Profiles, StopNothingActive(r, p)
      PROVE  OpenIsStored'
  BY <1>0, <1>s, <1>t, <1>c DEF StopNothingActive
<1>1. ASSUME NEW r \in Requests, StartAcquire(r) PROVE OpenIsStored'
  BY <1>0, <1>s, <1>t, <1>1 DEF StartAcquire, AwaitLock, JoinLock
<1>2. ASSUME NEW r \in Requests, StartRefused(r) PROVE OpenIsStored'
  BY <1>0, <1>s, <1>t, <1>2 DEF StartRefused, Answer
<1>3. ASSUME NEW r \in Requests, LaunchExisting(r) PROVE OpenIsStored'
  BY <1>0, <1>s, <1>t, <1>3 DEF LaunchExisting, LaunchReturnsRegistered, ReleaseLock
<1>4. ASSUME NEW r \in Requests, LaunchBegin(r) PROVE OpenIsStored'
  BY <1>0, <1>s, <1>t, <1>4 DEF LaunchBegin
<1>5. ASSUME NEW r \in Requests, LaunchOpened(r) PROVE OpenIsStored'
  BY <1>0, <1>s, <1>t, <1>5 DEF LaunchOpened, OpenContext
<1>6. ASSUME NEW r \in Requests, LaunchFails(r) PROVE OpenIsStored'
  BY <1>0, <1>s, <1>t, <1>6 DEF LaunchFails, LaunchRaises, ReleaseLock, StartFails
<1>7. ASSUME NEW r \in Requests, GotoLoaded(r) PROVE OpenIsStored'
  BY <1>0, <1>s, <1>t, <1>7 DEF GotoLoaded, Register, ReleaseLock
<1>8. ASSUME NEW r \in Requests, GotoFails(r) PROVE OpenIsStored'
  BY <1>0, <1>s, <1>t, <1>8 DEF GotoFails, LaunchRaises, ReleaseLock, StartFails
<1>9. ASSUME NEW r \in Requests, TitleRead(r) PROVE OpenIsStored'
  BY <1>0, <1>s, <1>t, <1>9 DEF TitleRead
<1>10. ASSUME NEW r \in Requests, TitleFails(r) PROVE OpenIsStored'
  BY <1>0, <1>s, <1>t, <1>10 DEF TitleFails, StartFails
<1>11. ASSUME NEW r \in Requests, StartFinish(r) PROVE OpenIsStored'
  BY <1>0, <1>s, <1>t, <1>11 DEF StartFinish, Answer
<1>12. ASSUME NEW r \in Requests, StartFailFinish(r) PROVE OpenIsStored'
  BY <1>0, <1>s, <1>t, <1>12 DEF StartFailFinish, Answer
<1>13. ASSUME NEW r \in Requests, StopMarkRunning(r) PROVE OpenIsStored'
  BY <1>0, <1>s, <1>t, <1>13 DEF StopMarkRunning, AwaitLock, JoinLock
<1>14. ASSUME NEW r \in Requests, StopPopsNothing(r) PROVE OpenIsStored'
  BY <1>0, <1>s, <1>t, <1>14 DEF StopPopsNothing, Pop, ReleaseLock, StopCompletes
<1>15. ASSUME NEW r \in Requests, StopPops(r) PROVE OpenIsStored'
  BY <1>0, <1>s, <1>t, <1>15 DEF StopPops, Pop, ReleaseLock
<1>16. ASSUME NEW r \in Requests, StopClosed(r) PROVE OpenIsStored'
  BY <1>0, <1>s, <1>t, <1>16 DEF StopClosed, CloseContext, StopCompletes
<1>17. ASSUME NEW r \in Requests, StopCloseFails(r) PROVE OpenIsStored'
  BY <1>0, <1>s, <1>t, <1>17 DEF StopCloseFails, CloseContextRaises, Answer
<1>18. ASSUME NEW r \in Requests, StopFinish(r) PROVE OpenIsStored'
  BY <1>0, <1>s, <1>t, <1>18 DEF StopFinish, Answer
<1>d. CASE Startup
  BY <1>0, <1>s, <1>t, <1>d DEF Startup, StartupRecover, StartupHeartbeat
<1>e. CASE ProcessEnds
  BY <1>0, <1>s, <1>t, <1>e DEF ProcessEnds, LoseEverything
<1>f. CASE Tick
  BY <1>0, <1>s, <1>t, <1>f DEF Tick
<1>g. ASSUME NEW s \in Sessions, BrowserDies(s) PROVE OpenIsStored'
  BY <1>0, <1>s, <1>t, <1>g DEF BrowserDies, CloseContext
<1>h. CASE UNCHANGED vars
  BY <1>0, <1>s, <1>t, <1>h DEF vars
<1> QED
  BY <1>1, <1>2, <1>3, <1>4, <1>5, <1>6, <1>7, <1>8, <1>9, <1>10, <1>11,
     <1>12, <1>13, <1>14, <1>15, <1>16, <1>17, <1>18,
     <1>a, <1>b, <1>c, <1>d, <1>e, <1>f, <1>g, <1>h
  DEF RInv, Next, StartRequest, StopRequest, StartStep, StopStep, Environment,
      Shutdown, Crash

\* Who drops a browser from the registry closes it, and who opens one registers
\* it, unless a browser call fails: then it loses the browser it worked on.
LEMMA OneFailureLosesOne ==
  ASSUME RInv, [Next]_vars
  PROVE  \/ Lost' \subseteq Lost /\ faults' >= faults
         \/ \E x : Lost' \subseteq Lost \cup {x} /\ faults' = faults + 1
<1> DEFINE KeptBut(x) == \A s \in Sessions \ {x} :
                            /\ ctx'[s] = "open"
                            /\ ctx[s] = "open" => Reachable(s)
                            => Reachable(s)'
           Kept == KeptBut(NoRuntime)
           Loses == \E x : KeptBut(x) /\ faults' = faults + 1
<1> USE SessionControlAssumption
<1> USE DEF ContextStates, PCs, StartPCs, StopPCs, Running, Resumed, Granted,
           Continue, Await, ProfileOf, HoldsLock, rmVars, handlerVars, envVars,
           NoRuntime, NoSession, Sessions, HandlersHaveSessions, Reachable, RuntimesKnown,
           LaunchersHoldLock, OpenIsStored, FaultHappens
<1>0. /\ HandlersHaveSessions /\ IdleUnlessServing
      /\ RuntimesKnown /\ LaunchersHoldLock /\ OpenIsStored
  BY DEF RInv, IInv
<1>s. \A s \in Stored : s \in Stored' /\ sessProfile'[s] = sessProfile[s]
  BY StoredStays DEF RInv, IInv
<1>t. /\ sessProfile \in [Sessions -> Profiles \cup {NoProfile}]
      /\ registry \in [Profiles -> Sessions \cup {NoRuntime}]
      /\ ctx \in [Sessions -> ContextStates]
      /\ lockq \in Seq(Requests)
      /\ pc \in [Requests -> PCs]
      /\ sess \in [Requests -> Sessions \cup {NoSession}]
      /\ rt \in [Requests -> Sessions \cup {NoRuntime}]
      /\ faults \in Nat
  BY DEF RInv, IInv, TypeOK, OrchestratorTypeOK, RuntimeManagerTypeOK, ControlTypeOK
<1>a. ASSUME NEW r \in Requests, NEW p \in Profiles, NEW k \in Keys \cup {NoKey},
             StartEnqueue(r, p, k)
      PROVE  Kept
  BY <1>0, <1>s, <1>t, <1>a DEF StartEnqueue, EnqueueStart, IsNextId
<1>b. ASSUME NEW r \in Requests, NEW p \in Profiles, StopEnqueue(r, p)
      PROVE  Kept
  BY <1>0, <1>s, <1>t, <1>b DEF StopEnqueue, IsNewestActive,
     ActiveSessions, ActiveStates
<1>c. ASSUME NEW r \in Requests, NEW p \in Profiles, StopNothingActive(r, p)
      PROVE  Kept
  BY <1>0, <1>s, <1>t, <1>c DEF StopNothingActive
<1>1. ASSUME NEW r \in Requests, StartAcquire(r) PROVE Kept
  BY <1>0, <1>s, <1>t, <1>1 DEF StartAcquire, AwaitLock, JoinLock
<1>2. ASSUME NEW r \in Requests, StartRefused(r) PROVE Kept
  BY <1>0, <1>s, <1>t, <1>2 DEF StartRefused, Answer
<1>3. ASSUME NEW r \in Requests, LaunchExisting(r) PROVE Kept
  BY <1>0, <1>s, <1>t, <1>3 DEF LaunchExisting, LaunchReturnsRegistered, ReleaseLock
<1>4. ASSUME NEW r \in Requests, LaunchBegin(r) PROVE Kept
  BY <1>0, <1>s, <1>t, <1>4 DEF LaunchBegin
<1>5. ASSUME NEW r \in Requests, LaunchOpened(r) PROVE Kept
  BY <1>0, <1>s, <1>t, <1>5 DEF LaunchOpened, OpenContext
<1>6. ASSUME NEW r \in Requests, LaunchFails(r) PROVE Kept
  BY <1>0, <1>s, <1>t, <1>6 DEF LaunchFails, LaunchRaises, ReleaseLock, StartFails
<1>7. ASSUME NEW r \in Requests, GotoLoaded(r) PROVE Kept
  BY <1>0, <1>s, <1>t, <1>7 DEF GotoLoaded, Register, ReleaseLock
<1>8. ASSUME NEW r \in Requests, GotoFails(r)
      PROVE  Kept \/ Loses
  <2>1. /\ pc[r] = "goto" /\ pc' = [pc EXCEPT ![r] = "failed"]
        /\ UNCHANGED <<sess, rt, registry, ctx>>
        /\ faults' = faults + 1 \/ ctx[sess[r]] = "closed"
    BY <1>t, <1>8 DEF GotoFails, LaunchRaises, StartFails
  <2>2. KeptBut(sess[r])
    <3> SUFFICES ASSUME NEW s \in Sessions, s # sess[r], ctx[s] = "open", Reachable(s)
                 PROVE  Reachable(s)'
      BY <2>1
    <3> QED
      BY <1>0, <1>s, <1>t, <2>1
  <2> QED
    BY <2>1, <2>2
<1>9. ASSUME NEW r \in Requests, TitleRead(r) PROVE Kept
  BY <1>0, <1>s, <1>t, <1>9 DEF TitleRead
<1>10. ASSUME NEW r \in Requests, TitleFails(r) PROVE Kept
  BY <1>0, <1>s, <1>t, <1>10 DEF TitleFails, StartFails
<1>11. ASSUME NEW r \in Requests, StartFinish(r) PROVE Kept
  BY <1>0, <1>s, <1>t, <1>11 DEF StartFinish, Answer
<1>12. ASSUME NEW r \in Requests, StartFailFinish(r) PROVE Kept
  BY <1>0, <1>s, <1>t, <1>12 DEF StartFailFinish, Answer
<1>13. ASSUME NEW r \in Requests, StopMarkRunning(r) PROVE Kept
  BY <1>0, <1>s, <1>t, <1>13 DEF StopMarkRunning, AwaitLock, JoinLock
<1>14. ASSUME NEW r \in Requests, StopPopsNothing(r) PROVE Kept
  <2> SUFFICES ASSUME NEW s \in Sessions, ctx'[s] = "open",
                      ctx[s] = "open" => Reachable(s)
               PROVE  Reachable(s)'
    OBVIOUS
  <2>1. /\ pc[r] = "stopwait" /\ pc' = [pc EXCEPT ![r] = "stopped"]
        /\ UNCHANGED <<sess, rt, ctx, faults>>
        /\ registry' = registry
    BY <1>0, <1>t, <1>14 DEF StopPopsNothing, Pop, StopCompletes
  <2>2. Reachable(s) /\ s \in Stored
    BY <1>0, <2>1
  <2> QED
    BY <1>s, <1>t, <2>1, <2>2
<1>15. ASSUME NEW r \in Requests, StopPops(r) PROVE Kept
  <2> SUFFICES ASSUME NEW s \in Sessions, ctx'[s] = "open",
                      ctx[s] = "open" => Reachable(s)
               PROVE  Reachable(s)'
    OBVIOUS
  <2>1. /\ pc[r] = "stopwait" /\ pc' = [pc EXCEPT ![r] = "closing"]
        /\ rt' = [rt EXCEPT ![r] = registry[ProfileOf(r)]]
        /\ registry' = [registry EXCEPT ![ProfileOf(r)] = NoRuntime]
        /\ UNCHANGED <<sess, ctx, faults>>
    BY <1>15 DEF StopPops, Pop
  <2>2. Reachable(s) /\ s \in Stored /\ sessProfile'[s] = sessProfile[s]
    BY <1>0, <1>s, <2>1
  <2>3. CASE registry[sessProfile[s]] = s
    <3>1. CASE sessProfile[s] = ProfileOf(r)
      BY <1>t, <2>1, <2>3, <3>1
    <3>2. CASE sessProfile[s] # ProfileOf(r)
      BY <1>0, <1>t, <2>1, <2>2, <2>3, <3>2
    <3> QED
      BY <3>1, <3>2
  <2>4. CASE registry[sessProfile[s]] # s
    BY <1>t, <2>1, <2>2, <2>4
  <2> QED
    BY <2>3, <2>4
<1>16. ASSUME NEW r \in Requests, StopClosed(r) PROVE Kept
  BY <1>0, <1>s, <1>t, <1>16 DEF StopClosed, CloseContext, StopCompletes
<1>17. ASSUME NEW r \in Requests, StopCloseFails(r)
       PROVE  Kept \/ Loses
  <2>1. /\ pc[r] = "closing" /\ pc' = [pc EXCEPT ![r] = "idle"]
        /\ sess' = [sess EXCEPT ![r] = NoSession]
        /\ rt' = [rt EXCEPT ![r] = NoRuntime]
        /\ registry' = registry
        /\ faults' = faults + 1 \/ ctx[rt[r]] = "closed"
        /\ ctx' = ctx \/ ctx' = [ctx EXCEPT ![rt[r]] = "closed"]
    BY <1>t, <1>17 DEF StopCloseFails, CloseContextRaises, Answer
  <2>2. \A s \in Sessions : ctx'[s] = "open" => ctx[s] = "open"
    BY <1>t, <2>1
  <2>3. KeptBut(rt[r])
    <3> SUFFICES ASSUME NEW s \in Sessions, s # rt[r], ctx[s] = "open", Reachable(s)
                 PROVE  Reachable(s)'
      BY <2>2
    <3> QED
      BY <1>0, <1>s, <1>t, <2>1
  <2>4. ctx[rt[r]] = "closed" => Kept
    BY <2>2, <2>3
  <2> QED
    BY <2>1, <2>3, <2>4
<1>18. ASSUME NEW r \in Requests, StopFinish(r) PROVE Kept
  BY <1>0, <1>s, <1>t, <1>18 DEF StopFinish, Answer
<1>d. ASSUME Startup PROVE Kept
  <2> SUFFICES ASSUME NEW s \in Sessions, ctx'[s] = "open",
                      ctx[s] = "open" => Reachable(s)
               PROVE  Reachable(s)'
    OBVIOUS
  <2>1. UNCHANGED <<pc, sess, rt, registry, ctx, faults>>
    BY <1>d DEF Startup, StartupRecover, StartupHeartbeat
  <2>2. Reachable(s) /\ s \in Stored
    BY <1>0, <2>1
  <2> QED
    BY <1>s, <2>1, <2>2
<1>e. ASSUME ProcessEnds PROVE Kept
  BY <1>0, <1>s, <1>t, <1>e DEF ProcessEnds, LoseEverything
<1>f. ASSUME Tick PROVE Kept
  BY <1>0, <1>s, <1>t, <1>f DEF Tick
<1>g. ASSUME NEW s \in Sessions, BrowserDies(s) PROVE Kept
  BY <1>0, <1>s, <1>t, <1>g DEF BrowserDies, CloseContext
<1>h. ASSUME UNCHANGED vars PROVE Kept
  <2>1. UNCHANGED <<pc, sess, rt, registry, ctx>>
    BY <1>h DEF vars
  <2> QED
    BY <1>0, <1>s, <2>1
<1>i. Kept => Lost' \subseteq Lost
  BY DEF Lost
<1>j. \A x : KeptBut(x) => Lost' \subseteq Lost \cup {x}
  BY DEF Lost
<1> HIDE DEF KeptBut, Kept, Loses
<1>k. faults' >= faults
  BY <1>t, CountersGrow DEF RInv, IInv
<1>l. Kept \/ Loses
  BY <1>1, <1>2, <1>3, <1>4, <1>5, <1>6, <1>7, <1>8, <1>9, <1>10, <1>11,
     <1>12, <1>13, <1>14, <1>15, <1>16, <1>17, <1>18,
     <1>a, <1>b, <1>c, <1>d, <1>e, <1>f, <1>g, <1>h
  DEF Next, StartRequest, StopRequest, StartStep, StopStep, Environment,
      Shutdown, Crash
<1> QED
  BY <1>i, <1>j, <1>k, <1>l DEF Loses

\* The browsers that are lost are counted by the failures.
LEMMA LossesAreCounted ==
  ASSUME RInv, [Next]_vars PROVE LostBrowsersAreFaults'
<1>1. IsFiniteSet(Lost) /\ IsFiniteSet(Lost') /\ Cardinality(Lost) \in Nat
  BY SessionsFinite, FS_Subset, FS_CardinalityType DEF Lost
<1>2. Cardinality(Lost) <= faults /\ faults \in Nat /\ faults' \in Nat
  BY CountersGrow DEF RInv, IInv, LostBrowsersAreFaults, TypeOK, ControlTypeOK
<1>3. CASE Lost' \subseteq Lost /\ faults' >= faults
  <2>1. Cardinality(Lost') <= Cardinality(Lost) /\ Cardinality(Lost') \in Nat
    BY <1>1, <1>3, FS_Subset, FS_CardinalityType
  <2> QED
    BY <1>1, <1>2, <1>3, <2>1 DEF LostBrowsersAreFaults
<1>4. ASSUME NEW x, Lost' \subseteq Lost \cup {x}, faults' = faults + 1
      PROVE  LostBrowsersAreFaults'
  BY <1>1, <1>2, <1>4, GrowsByOne DEF LostBrowsersAreFaults
<1> QED
  BY <1>3, <1>4, OneFailureLosesOne

\* RInv is inductive: a step of any handler keeps what every launch and every
\* stop knows of its browser.
LEMMA RuntimeInvariance == Spec => []RInv
<1>1. ASSUME Init PROVE RInv
  <2>1. Lost = {} /\ faults = 0
    BY <1>1 DEF Init, RuntimeManagerInit, Lost
  <2>2. LostBrowsersAreFaults
    BY <2>1, FS_EmptySet DEF LostBrowsersAreFaults
  <2> QED
    BY <1>1, <2>2, InitInvariant
    DEF Init, RInv, OrchestratorInit, RuntimeManagerInit, RuntimesKnown,
        LaunchersHoldLock, OpenIsStored
<1>2. RInv /\ [Next]_vars => RInv'
  BY StepInvariant, RuntimesStayKnown, LaunchersKeepLock, OpenStaysStored,
     LossesAreCounted DEF RInv
<1> QED
  BY <1>1, <1>2, PTL DEF Spec

-----------------------------------------------------------------------------
(* The lock and the event loop.                                            *)

\* Where a handler is in the queue of the lock, and where it has the loop.
LockPCs == {"launchwait", "launching", "goto", "stopwait"}
BusyPCs == {"enqueued", "completed", "failed", "stopqueued", "stopped"}

\* Handler r asks for the lock, leaves it, or goes on without either.
Joins(r) ==
  /\ \/ pc[r] = "enqueued" /\ pc'[r] = "launchwait"
     \/ pc[r] = "stopqueued" /\ pc'[r] = "stopwait"
  /\ lockq' = Append(lockq, r)
  /\ loop' = IF lockq = <<>> THEN r ELSE Free
  /\ sess'[r] = sess[r]

Leaves(r) ==
  /\ HoldsLock(r)
  /\ pc[r] \in LockPCs
  /\ pc'[r] \notin LockPCs
  /\ lockq' = Tail(lockq)
  /\ loop' = IF pc'[r] \in BusyPCs THEN r ELSE Free
  /\ sess'[r] = sess[r]

Keeps(r) ==
  /\ pc[r] \in LockPCs <=> pc'[r] \in LockPCs
  /\ pc[r] \in LockPCs => pc'[r] \notin {"launchwait", "stopwait"} /\ sess'[r] = sess[r]
  /\ lockq' = lockq
  /\ loop' = IF pc'[r] \in BusyPCs THEN r ELSE Free

Moves(r) ==
  /\ \A q \in Requests \ {r} : pc'[q] = pc[q] /\ sess'[q] = sess[q] /\ rt'[q] = rt[q]
  /\ loop \in {r, Free}
  /\ Joins(r) \/ Leaves(r) \/ Keeps(r)

NobodyMoves == UNCHANGED <<pc, sess, rt, loop, lockq>>

EverybodyEnds ==
  /\ \A r \in Requests : pc'[r] = "idle" /\ rt'[r] = NoRuntime
  /\ loop' = Free
  /\ lockq' = <<>>

\* A step is one handler's, which has or takes the loop, or nobody's, or the end
\* of the process.
LEMMA OneMoves ==
  ASSUME TypeOK, [Next]_vars
  PROVE  NobodyMoves \/ EverybodyEnds \/ \E r \in Requests : Moves(r)
<1> USE SessionControlAssumption
<1> USE DEF SessionControlAssumption, Running, Resumed, Granted, Continue, Await,
           ReleaseLock, HoldsLock, rmVars, handlerVars, LockPCs, BusyPCs,
           NobodyMoves, Moves, EverybodyEnds
<1>t. /\ pc \in [Requests -> PCs]
      /\ sess \in [Requests -> Sessions \cup {NoSession}]
      /\ rt \in [Requests -> Sessions \cup {NoRuntime}]
  BY DEF TypeOK, ControlTypeOK
<1>a. ASSUME NEW r \in Requests, NEW p \in Profiles, NEW k \in Keys \cup {NoKey},
             StartEnqueue(r, p, k)
      PROVE  Moves(r)
  BY <1>t, <1>a DEF StartEnqueue, Keeps
<1>b. ASSUME NEW r \in Requests, NEW p \in Profiles, StopEnqueue(r, p)
      PROVE  Moves(r)
  BY <1>t, <1>b DEF StopEnqueue, Keeps
<1>c. ASSUME NEW r \in Requests, NEW p \in Profiles, StopNothingActive(r, p)
      PROVE  NobodyMoves
  BY <1>c DEF StopNothingActive
<1>1. ASSUME NEW r \in Requests, StartAcquire(r) PROVE Moves(r)
  BY <1>t, <1>1 DEF StartAcquire, AwaitLock, JoinLock, Joins
<1>2. ASSUME NEW r \in Requests, StartRefused(r) PROVE Moves(r)
  BY <1>t, <1>2 DEF StartRefused, Answer, Keeps
<1>3. ASSUME NEW r \in Requests, LaunchExisting(r) PROVE Moves(r)
  BY <1>t, <1>3 DEF LaunchExisting, LaunchReturnsRegistered, Leaves
<1>4. ASSUME NEW r \in Requests, LaunchBegin(r) PROVE Moves(r)
  BY <1>t, <1>4 DEF LaunchBegin, Keeps
<1>5. ASSUME NEW r \in Requests, LaunchOpened(r) PROVE Moves(r)
  BY <1>t, <1>5 DEF LaunchOpened, OpenContext, Keeps
<1>6. ASSUME NEW r \in Requests, LaunchFails(r) PROVE Moves(r)
  BY <1>t, <1>6 DEF LaunchFails, StartFails, LaunchRaises, Leaves
<1>7. ASSUME NEW r \in Requests, GotoLoaded(r) PROVE Moves(r)
  BY <1>t, <1>7 DEF GotoLoaded, Register, Leaves
<1>8. ASSUME NEW r \in Requests, GotoFails(r) PROVE Moves(r)
  BY <1>t, <1>8 DEF GotoFails, StartFails, LaunchRaises, Leaves
<1>9. ASSUME NEW r \in Requests, TitleRead(r) PROVE Moves(r)
  BY <1>t, <1>9 DEF TitleRead, Keeps
<1>10. ASSUME NEW r \in Requests, TitleFails(r) PROVE Moves(r)
  BY <1>t, <1>10 DEF TitleFails, StartFails, Keeps
<1>11. ASSUME NEW r \in Requests, StartFinish(r) PROVE Moves(r)
  BY <1>t, <1>11 DEF StartFinish, Answer, Keeps
<1>12. ASSUME NEW r \in Requests, StartFailFinish(r) PROVE Moves(r)
  BY <1>t, <1>12 DEF StartFailFinish, Answer, Keeps
<1>13. ASSUME NEW r \in Requests, StopMarkRunning(r) PROVE Moves(r)
  BY <1>t, <1>13 DEF StopMarkRunning, AwaitLock, JoinLock, Joins
<1>14. ASSUME NEW r \in Requests, StopPopsNothing(r) PROVE Moves(r)
  BY <1>t, <1>14 DEF StopPopsNothing, StopCompletes, Pop, Leaves
<1>15. ASSUME NEW r \in Requests, StopPops(r) PROVE Moves(r)
  BY <1>t, <1>15 DEF StopPops, Pop, Leaves
<1>16. ASSUME NEW r \in Requests, StopClosed(r) PROVE Moves(r)
  BY <1>t, <1>16 DEF StopClosed, StopCompletes, CloseContext, Keeps
<1>17. ASSUME NEW r \in Requests, StopCloseFails(r) PROVE Moves(r)
  BY <1>t, <1>17 DEF StopCloseFails, CloseContextRaises, Answer, Keeps
<1>18. ASSUME NEW r \in Requests, StopFinish(r) PROVE Moves(r)
  BY <1>t, <1>18 DEF StopFinish, Answer, Keeps
<1>d. CASE Startup
  BY <1>d DEF Startup, StartupRecover, StartupHeartbeat
<1>e. ASSUME ProcessEnds PROVE EverybodyEnds
  BY <1>e DEF ProcessEnds, LoseEverything
<1>f. CASE Tick
  BY <1>f DEF Tick
<1>g. ASSUME NEW s \in Sessions, BrowserDies(s) PROVE NobodyMoves
  BY <1>g DEF BrowserDies, CloseContext
<1>h. CASE UNCHANGED vars
  BY <1>h DEF vars
<1> HIDE DEF NobodyMoves, Moves, EverybodyEnds
<1> QED
  BY <1>1, <1>2, <1>3, <1>4, <1>5, <1>6, <1>7, <1>8, <1>9, <1>10, <1>11,
     <1>12, <1>13, <1>14, <1>15, <1>16, <1>17, <1>18,
     <1>a, <1>b, <1>c, <1>d, <1>e, <1>f, <1>g, <1>h
  DEF Next, StartRequest, StopRequest, StartStep, StopStep, Environment,
      Shutdown, Crash

\* The queue of the lock holds the handlers that launch or wait, each once.
LockServesWaiters ==
  /\ \A r \in Requests : Occurs(lockq, r) <=> pc[r] \in LockPCs
  /\ \A r \in Requests : ~Precedes(lockq, r, r)

\* Whoever is between two awaits has the loop, and the loop is nobody else's but
\* that of a handler that got the lock without waiting.
LoopHasARunner ==
  /\ \A r \in Requests : pc[r] \in BusyPCs => loop = r
  /\ loop # Free =>
       \/ pc[loop] \in BusyPCs
       \/ pc[loop] \in {"launchwait", "stopwait"} /\ HoldsLock(loop)

LEMMA LockStaysServed ==
  ASSUME TypeOK, LockServesWaiters, LoopHasARunner, [Next]_vars
  PROVE  LockServesWaiters' /\ LoopHasARunner'
<1> USE SessionControlAssumption DEF SessionControlAssumption, HoldsLock
<1>t. /\ lockq \in Seq(Requests)
      /\ pc \in [Requests -> PCs]
      /\ loop \in Requests \cup {Free}
  BY DEF TypeOK, ControlTypeOK, RuntimeManagerTypeOK
<1>1. CASE NobodyMoves
  BY <1>1 DEF NobodyMoves, LockServesWaiters, LoopHasARunner
<1>2. CASE EverybodyEnds
  BY <1>2 DEF EverybodyEnds, LockServesWaiters, LoopHasARunner, Occurs, Precedes,
     LockPCs, BusyPCs
<1>3. ASSUME NEW r \in Requests, Moves(r), Joins(r)
      PROVE  LockServesWaiters' /\ LoopHasARunner'
  <2>1. /\ lockq' # <<>>
        /\ Head(lockq') = IF lockq = <<>> THEN r ELSE Head(lockq)
        /\ \A q \in Requests : Occurs(lockq', q) <=> Occurs(lockq, q) \/ q = r
        /\ \A p, q \in Requests : Precedes(lockq', p, q) <=>
             Precedes(lockq, p, q) \/ (Occurs(lockq, p) /\ q = r)
    BY <1>t, <1>3, JoinsAtTheEnd DEF Joins
  <2>2. LockServesWaiters'
    BY <1>3, <2>1 DEF Moves, Joins, LockServesWaiters, LockPCs
  <2>3. LoopHasARunner'
    BY <1>3, <2>1 DEF Moves, Joins, LoopHasARunner, BusyPCs
  <2> QED
    BY <2>2, <2>3
<1>4. ASSUME NEW r \in Requests, Moves(r), Leaves(r)
      PROVE  LockServesWaiters' /\ LoopHasARunner'
  <2>1. /\ \A q \in Requests : Occurs(lockq, q) <=> q = r \/ Precedes(lockq, r, q)
        /\ \A q \in Requests : Occurs(lockq', q) <=> Precedes(lockq, r, q)
        /\ \A p, q \in Requests : Precedes(lockq', p, q) => Precedes(lockq, p, q)
    BY <1>t, <1>4, HeadLeaves DEF Leaves
  <2>2. LockServesWaiters'
    BY <1>4, <2>1 DEF Moves, Leaves, LockServesWaiters
  <2>3. LoopHasARunner'
    BY <1>t, <1>4 DEF Moves, Leaves, LoopHasARunner
  <2> QED
    BY <2>2, <2>3
<1>5. ASSUME NEW r \in Requests, Moves(r), Keeps(r)
      PROVE  LockServesWaiters' /\ LoopHasARunner'
  <2>1. LockServesWaiters'
    BY <1>5 DEF Moves, Keeps, LockServesWaiters
  <2>2. LoopHasARunner'
    BY <1>t, <1>5 DEF Moves, Keeps, LoopHasARunner
  <2> QED
    BY <2>1, <2>2
<1> QED
  BY <1>1, <1>2, <1>3, <1>4, <1>5, OneMoves DEF Moves

\* Whoever holds the lock stands in front of all the others.
LEMMA HolderIsFirst ==
  ASSUME TypeOK, LockServesWaiters, NEW r \in Requests, HoldsLock(r),
         NEW q \in Requests, q # r, pc[q] \in LockPCs
  PROVE  Precedes(lockq, r, q)
<1>1. Occurs(lockq, q) /\ lockq \in Seq(Requests) /\ lockq # <<>> /\ Head(lockq) = r
  BY DEF LockServesWaiters, HoldsLock, TypeOK, RuntimeManagerTypeOK
<1> QED
  BY <1>1, HeadLeaves

\* The browsers that the registry and the handlers name have been opened.
RuntimesExist ==
  /\ \A p \in Profiles : registry[p] # NoRuntime => ctx[registry[p]] # "none"
  /\ \A r \in Requests :
       pc[r] \in {"title", "closing"} => rt[r] # NoRuntime /\ ctx[rt[r]] # "none"

\* Handler q gets to its browser from the registry or by opening it.
LEMMA HandlersFindRuntimes ==
  ASSUME TypeOK, [Next]_vars, NEW q \in Requests, pc'[q] \in {"title", "closing"}
  PROVE  \/ pc[q] = pc'[q] /\ rt'[q] = rt[q]
         \/ /\ pc[q] \in LockPCs
            /\ registry[ProfileOf(q)] # NoRuntime /\ rt'[q] = registry[ProfileOf(q)]
         \/ pc[q] = "goto" /\ rt'[q] = sess[q] /\ ctx[sess[q]] = "open"
<1> DEFINE Found == \/ pc[q] = pc'[q] /\ rt'[q] = rt[q]
                    \/ /\ pc[q] \in LockPCs
                       /\ registry[ProfileOf(q)] # NoRuntime
                       /\ rt'[q] = registry[ProfileOf(q)]
                    \/ pc[q] = "goto" /\ rt'[q] = sess[q] /\ ctx[sess[q]] = "open"
<1> USE DEF Running, Resumed, Granted, Continue, Await, handlerVars, ProfileOf,
           LockPCs
<1>t. /\ pc \in [Requests -> PCs]
      /\ rt \in [Requests -> Sessions \cup {NoRuntime}]
  BY DEF TypeOK, ControlTypeOK
<1>a. ASSUME NEW r \in Requests, NEW p \in Profiles, NEW k \in Keys \cup {NoKey},
             StartEnqueue(r, p, k) \/ StopEnqueue(r, p) \/ StopNothingActive(r, p)
      PROVE  Found
  BY <1>t, <1>a DEF StartEnqueue, StopEnqueue, StopNothingActive
<1>1. ASSUME NEW r \in Requests, StartAcquire(r) PROVE Found
  BY <1>t, <1>1 DEF StartAcquire, AwaitLock
<1>2. ASSUME NEW r \in Requests, StartRefused(r) PROVE Found
  BY <1>t, <1>2 DEF StartRefused, Answer
<1>3. ASSUME NEW r \in Requests, LaunchExisting(r) PROVE Found
  BY <1>t, <1>3 DEF LaunchExisting, LaunchReturnsRegistered
<1>4. ASSUME NEW r \in Requests, LaunchBegin(r) PROVE Found
  BY <1>t, <1>4 DEF LaunchBegin
<1>5. ASSUME NEW r \in Requests, LaunchOpened(r) PROVE Found
  BY <1>t, <1>5 DEF LaunchOpened
<1>6. ASSUME NEW r \in Requests, LaunchFails(r) PROVE Found
  BY <1>t, <1>6 DEF LaunchFails, StartFails
<1>7. ASSUME NEW r \in Requests, GotoLoaded(r) PROVE Found
  BY <1>t, <1>7 DEF GotoLoaded, Register
<1>8. ASSUME NEW r \in Requests, GotoFails(r) PROVE Found
  BY <1>t, <1>8 DEF GotoFails, StartFails
<1>9. ASSUME NEW r \in Requests, TitleRead(r) PROVE Found
  BY <1>t, <1>9 DEF TitleRead
<1>10. ASSUME NEW r \in Requests, TitleFails(r) PROVE Found
  BY <1>t, <1>10 DEF TitleFails, StartFails
<1>11. ASSUME NEW r \in Requests, StartFinish(r) PROVE Found
  BY <1>t, <1>11 DEF StartFinish, Answer
<1>12. ASSUME NEW r \in Requests, StartFailFinish(r) PROVE Found
  BY <1>t, <1>12 DEF StartFailFinish, Answer
<1>13. ASSUME NEW r \in Requests, StopMarkRunning(r) PROVE Found
  BY <1>t, <1>13 DEF StopMarkRunning, AwaitLock
<1>14. ASSUME NEW r \in Requests, StopPopsNothing(r) PROVE Found
  BY <1>t, <1>14 DEF StopPopsNothing, StopCompletes
<1>15. ASSUME NEW r \in Requests, StopPops(r) PROVE Found
  BY <1>t, <1>15 DEF StopPops
<1>16. ASSUME NEW r \in Requests, StopClosed(r) PROVE Found
  BY <1>t, <1>16 DEF StopClosed, StopCompletes
<1>17. ASSUME NEW r \in Requests, StopCloseFails(r) PROVE Found
  BY <1>t, <1>17 DEF StopCloseFails, Answer
<1>18. ASSUME NEW r \in Requests, StopFinish(r) PROVE Found
  BY <1>t, <1>18 DEF StopFinish, Answer
<1>d. ASSUME \/ Startup \/ Tick \/ \E s \in Sessions : BrowserDies(s)
             \/ UNCHANGED vars
      PROVE  Found
  BY <1>d DEF Startup, StartupRecover, StartupHeartbeat, Tick, BrowserDies, vars
<1>e. ASSUME ProcessEnds PROVE Found
  BY <1>e DEF ProcessEnds
<1> HIDE DEF Found
<1>f. Found
  BY <1>1, <1>2, <1>3, <1>4, <1>5, <1>6, <1>7, <1>8, <1>9, <1>10, <1>11,
     <1>12, <1>13, <1>14, <1>15, <1>16, <1>17, <1>18, <1>a, <1>d, <1>e
  DEF Next, StartRequest, StopRequest, StartStep, StopStep, Environment,
      Shutdown, Crash
<1> QED
  BY <1>f DEF Found

LEMMA RuntimesStayReal ==
  ASSUME RInv, RuntimesExist, [Next]_vars PROVE RuntimesExist'
<1>0. RuntimeStep /\ HandlersHaveSessions
  BY RuntimeSteps DEF RInv, IInv
<1>t. /\ registry \in [Profiles -> Sessions \cup {NoRuntime}]
      /\ ctx \in [Sessions -> ContextStates]
      /\ pc \in [Requests -> PCs]
      /\ rt \in [Requests -> Sessions \cup {NoRuntime}]
      /\ sess \in [Requests -> Sessions \cup {NoSession}]
  BY DEF RInv, IInv, TypeOK, RuntimeManagerTypeOK, ControlTypeOK
<1>1. \A s \in Sessions : ctx[s] # "none" => ctx'[s] # "none"
  BY <1>0, <1>t DEF RuntimeStep, rmVars, JoinLock, LaunchRaises, OpenContext,
     Register, Pop, CloseContext, CloseContextRaises, LoseEverything
<1>2. \A p \in Profiles : registry'[p] # NoRuntime =>
        registry'[p] \in Sessions /\ ctx'[registry'[p]] # "none"
  <2>1. \A p \in Profiles : registry'[p] # NoRuntime =>
          \/ registry'[p] = registry[p]
          \/ /\ registry'[p] \in Sessions \cup {NoSession}
             /\ ctx[registry'[p]] = "open"
             /\ ctx' = ctx
    BY <1>0, <1>t DEF RuntimeStep, rmVars, JoinLock, LaunchRaises, OpenContext,
       Register, Pop, CloseContext, CloseContextRaises, LoseEverything
  <2> QED
    BY <1>1, <1>t, <2>1 DEF RuntimesExist, NoSession, NoRuntime
<1>3. ASSUME NEW q \in Requests, pc'[q] \in {"title", "closing"}
      PROVE  rt'[q] # NoRuntime /\ ctx'[rt'[q]] # "none"
  <2>1. CASE pc[q] = pc'[q] /\ rt'[q] = rt[q]
    BY <1>1, <1>3, <1>t, <2>1 DEF RuntimesExist
  <2>2. CASE /\ pc[q] \in LockPCs
             /\ registry[ProfileOf(q)] # NoRuntime /\ rt'[q] = registry[ProfileOf(q)]
    <3>1. ProfileOf(q) \in Profiles
      BY <1>0, <2>2 DEF HandlersHaveSessions, ProfileOf, LockPCs
    <3> QED
      BY <1>1, <1>t, <2>2, <3>1 DEF RuntimesExist
  <2>3. CASE pc[q] = "goto" /\ rt'[q] = sess[q] /\ ctx[sess[q]] = "open"
    BY <1>0, <1>1, <1>t, <2>3 DEF HandlersHaveSessions, Stored, NoRuntime, Sessions
  <2> QED
    BY <1>3, <2>1, <2>2, <2>3, HandlersFindRuntimes DEF RInv, IInv
<1> QED
  BY <1>2, <1>3 DEF RuntimesExist

\* What the executor guarantees besides RInv: the queue of the lock, the loop and
\* the browsers in use are what the handlers take them for.
QInv ==
  /\ RInv
  /\ LockServesWaiters
  /\ LoopHasARunner
  /\ RuntimesExist

LEMMA ExecutorInvariance == Spec => []QInv
<1>1. Init /\ RInv => QInv
  <2> SUFFICES ASSUME Init, RInv PROVE QInv
    OBVIOUS
  <2>1. LockServesWaiters
    BY DEF Init, RuntimeManagerInit, LockServesWaiters, Occurs, Precedes, LockPCs
  <2>2. LoopHasARunner
    BY DEF Init, LoopHasARunner, BusyPCs
  <2>3. RuntimesExist
    BY DEF Init, RuntimeManagerInit, RuntimesExist
  <2> QED
    BY <2>1, <2>2, <2>3 DEF QInv
<1>2. QInv /\ [Next]_vars /\ RInv' => QInv'
  BY LockStaysServed, RuntimesStayReal DEF QInv, RInv, IInv
<1> QED
  BY <1>1, <1>2, RuntimeInvariance, PTL DEF Spec

\* The handler in front of the lock, or whoever has the loop, may go on; if
\* nobody is at either, everybody awaits a browser.
LEMMA SomebodyMayGoOn ==
  ASSUME QInv, NEW r \in Requests, pc[r] # "idle"
  PROVE  \E q \in Requests : MayGoOn(q)
<1>t. /\ lockq \in Seq(Requests)
      /\ pc \in [Requests -> PCs]
      /\ loop \in Requests \cup {Free}
      /\ ctx \in [Sessions -> ContextStates]
      /\ rt \in [Requests -> Sessions \cup {NoRuntime}]
  BY DEF QInv, RInv, IInv, TypeOK, ControlTypeOK, RuntimeManagerTypeOK
<1>1. CASE loop # Free
  BY <1>1, <1>t DEF QInv, LoopHasARunner, BusyPCs, MayGoOn
<1>2. CASE loop = Free /\ pc[r] \in LockPCs
  <2>1. lockq # <<>> /\ Head(lockq) \in Requests
    BY <1>2, <1>t DEF QInv, LockServesWaiters, Occurs
  <2>2. Head(lockq) \in Requests /\ pc[Head(lockq)] \in LockPCs
    BY <1>t, <2>1, HeadLeaves DEF QInv, LockServesWaiters
  <2>3. MayGoOn(Head(lockq))
    BY <1>2, <2>1, <2>2 DEF LockPCs, MayGoOn, HoldsLock
  <2> QED
    BY <2>1, <2>3
<1>3. CASE loop = Free /\ pc[r] \in {"title", "closing"}
  BY <1>3, <1>t DEF QInv, RuntimesExist, ContextStates, MayGoOn
<1>4. loop = Free => pc[r] \notin BusyPCs
  BY SessionControlAssumption DEF QInv, LoopHasARunner, SessionControlAssumption
<1>5. pc[r] \in LockPCs \cup BusyPCs \cup {"title", "closing"}
  BY <1>t DEF PCs, StartPCs, StopPCs, LockPCs, BusyPCs
<1> QED
  BY <1>1, <1>2, <1>3, <1>4, <1>5

-----------------------------------------------------------------------------
(* The theorems.                                                           *)

\* A handler works on a browser of its own profile only, for every number of
\* profiles and organizations: launch returns and stop closes no other.
THEOREM RuntimeIsolationHolds == Spec => []RuntimeIsolation
<1>1. RInv => RuntimeIsolation
  BY DEF RInv, RuntimesKnown, RuntimeIsolation
<1> QED
  BY <1>1, RuntimeInvariance, PTL

\* Every open browser is registered or in the hands of the launch or the stop
\* that works on it, except one for each browser call that failed.
THEOREM LostBrowsersAreFaultsHolds == Spec => []LostBrowsersAreFaults
<1>1. RInv => LostBrowsersAreFaults
  BY DEF RInv
<1> QED
  BY <1>1, RuntimeInvariance, PTL

\* start_session and stop_session never wait for one another in a circle: as
\* long as a request is in flight, the lock, the loop or a browser lets a handler
\* go on, for every number of handlers.
THEOREM NobodyIsStuckHolds == Spec => []NobodyIsStuck
<1>1. QInv => NobodyIsStuck
  BY SomebodyMayGoOn DEF NobodyIsStuck
<1> QED
  BY <1>1, ExecutorInvariance, PTL
=============================================================================
