--------------------------- MODULE SessionProperties ---------------------------
(***************************************************************************)
(* What the session control plane promises, stated over SessionControl.    *)
(***************************************************************************)
EXTENDS SessionControl

-----------------------------------------------------------------------------
(* Leases and sessions (orchestrator.py).                                  *)

\* acquire_local_lease counts the active leases before it adds one, and no
\* other path makes a lease active: the worker never holds more leases than
\* its capacity, whatever starts, stops, failures and restarts interleave.
CapacityRespected == Cardinality(ActiveLeases) <= Capacity

\* Session row and lease row are written by different handlers that do not
\* look at each other's row: still a lease is active only while its session
\* is provisioning or running, and a provisioning session holds its lease.
LeaseMatchesSession ==
  \A s \in Sessions :
    /\ leaseStatus[s] = "active" => sessStatus[s] \in {"provisioning", "running"}
    /\ sessStatus[s] = "provisioning" => leaseStatus[s] = "active"

\* The sessions of an organization that wait for a lease or hold one.
Committed(o) ==
  {s \in SessionsOf(o) : sessStatus[s] = "queued" \/ leaseStatus[s] = "active"}

\* start_session checks concurrency_limit once, before it enqueues.  The
\* sessions of an organization that wait for a lease or hold one stay within
\* the limit.
LeasedSessionsWithinLimit == \A o \in Orgs : Cardinality(Committed(o)) <= Limit

\* Replaying an idempotency key returns the original session: an organization
\* never has two sessions with one key, even across a crash.
IdempotentStarts ==
  \A s, t \in Stored :
    /\ sessKey[s] = sessKey[t]
    /\ sessKey[s] # NoKey
    /\ OrgOf[sessProfile[s]] = OrgOf[sessProfile[t]]
    => s = t

\* A session that failed (a launch error, a lapsed lease) is never brought
\* back by a handler that still works on it: at most a stop that began before
\* the failure closes it.
ErrorNeverRevives ==
  [][\A s \in Sessions :
       sessStatus[s] = "error" => sessStatus'[s] \in {"error", "stopped"}]_vars

\* The lease table is a lease pool: whatever the handlers and startup do to
\* its rows is a grant within capacity, a release of an active lease or an
\* expiry, and no lease ever comes back.
Pool == INSTANCE LeasePool WITH Holders <- Sessions, lease <- leaseStatus

LeasesFormPool == Pool!Spec

-----------------------------------------------------------------------------
(* Runtimes (runtime.py).                                                  *)

\* A handler works on a browser of its own profile only, and the registry
\* maps a profile to a browser that one of its own sessions launched.
RuntimeIsolation ==
  /\ \A p \in Profiles :
       registry[p] # NoRuntime => sessProfile[registry[p]] = p
  /\ \A r \in Requests :
       rt[r] # NoRuntime => sessProfile[rt[r]] = ProfileOf(r)

\* The browser s launched can still be closed by someone.
Reachable(s) ==
  \/ registry[sessProfile[s]] = s
  \/ \E r \in Requests : pc[r] = "goto" /\ sess[r] = s
  \/ \E r \in Requests : pc[r] = "closing" /\ rt[r] = s

\* Open browsers that nobody can close any more.
Lost == {s \in Sessions : ctx[s] = "open" /\ ~Reachable(s)}

\* launch may fail with its context open, and stop with the runtime it popped
\* still running.  Still each lost browser has its own failure: a browser is
\* registered, or the handler that launches or closes it has it, and one failed
\* call loses at most one, however starts and stops overlap.
LostBrowsersAreFaults == Cardinality(Lost) <= faults

\* Nobody has sent an Idempotency-Key, no browser call has failed, and the
\* process has never gone down.
OrdinaryLife ==
  restarts = 0 /\ faults = 0 /\ \A s \in Stored : sessKey[s] = NoKey

\* In ordinary life a session shown as running has a registered runtime, unless
\* a stop of it is on its way: no race of starts and stops loses the runtime
\* of a session that nobody stops.
RunningIsBacked ==
  OrdinaryLife =>
    \A s \in Sessions :
      sessStatus[s] = "running" =>
        \/ registry[sessProfile[s]] # NoRuntime
        \/ \E r \in Requests : pc[r] \in StopPCs /\ sess[r] = s

\* In ordinary life a registered browser belongs to a session that is active and
\* holds its lease: a stop or a failure gives up the lease only after it has
\* taken the browser from the registry, so leases bound the browsers in use.
RegisteredIsLeased ==
  OrdinaryLife =>
    \A p \in Profiles :
      registry[p] # NoRuntime =>
        /\ sessStatus[registry[p]] \in {"provisioning", "running"}
        /\ leaseStatus[registry[p]] = "active"

\* Stopped sessions without a runtime_seconds event, and nobody to write one.
Unmetered ==
  {s \in Sessions :
     /\ sessStatus[s] = "stopped"
     /\ secondsEvents[s] = 0
     /\ ~\E r \in Requests : pc[r] = "stopped" /\ sess[r] = s}

\* complete_stop and the usage event are two commits, and a process that dies
\* between them never writes the second.  It costs one session at most: there
\* are never more unmetered sessions than times the process went down.
UnmeteredAreCrashes == Cardinality(Unmetered) <= restarts

\* Until the process goes down, a task that is shown as running, and a stop task
\* that is shown as queued, is one a handler works on: however stops share a
\* task, overtake a start or fail, each ends what it began.
TasksFollowHandlers ==
  restarts = 0 =>
    \A s \in Sessions :
      /\ startTask[s] = "running" =>
           \E r \in Requests :
             sess[r] = s /\ pc[r] \in {"launchwait", "launching", "goto", "title"}
      /\ \A i \in OpenStopTasks(s) :
           \E r \in Requests :
             /\ sess[r] = s /\ task[r] = i
             /\ pc[r] \in {"stopqueued", "stopwait", "closing"}

\* The event loop, the lock or the browser a handler waits for lets it go on:
\* between two awaits it has the loop, and elsewhere the loop must be free; in
\* the queue of the lock it must be first; and a browser call ends on a browser
\* that is open, and fails on one that is closed.
MayGoOn(r) ==
  \/ /\ loop = r
     /\ pc[r] \in {"enqueued", "completed", "failed", "stopqueued", "stopped"}
  \/ /\ loop \in {r, Free}
     /\ pc[r] \in {"launchwait", "stopwait"}
     /\ HoldsLock(r)
  \/ /\ loop = Free
     /\ pc[r] \in {"launching", "goto"}
     /\ HoldsLock(r)
  \/ /\ loop = Free
     /\ pc[r] \in {"title", "closing"}
     /\ ctx[rt[r]] \in {"open", "closed"}

\* Handlers never wait for one another in a circle, and none leaves with the lock
\* or the loop: while a request is in flight, one of them may go on.
NobodyIsStuck ==
  (\E r \in Requests : pc[r] # "idle") => \E r \in Requests : MayGoOn(r)

-----------------------------------------------------------------------------
(* Progress.                                                               *)

\* Every request that began is answered (or dies with the process): the lock,
\* the event loop and the awaits of start and stop never block one another
\* for good.
HandlersFinish == \A r \in Requests : pc[r] # "idle" ~> pc[r] = "idle"

\* Until the process goes down, a provisioning session does not stay so: some
\* handler brings it to running, error or stopped.
ProvisioningResolves ==
  \A s \in Sessions :
    sessStatus[s] = "provisioning"
      ~> sessStatus[s] # "provisioning" \/ restarts > 0

\* The allocations that lapsed while the process was down are marked lost
\* when it comes up again (recover_expired_leases at startup).
LapsedAllocationsAreLost ==
  \A s \in Sessions :
    (phase = "down" /\ s \in LapsedLeases) ~> leaseStatus[s] # "active"

\* An operator who keeps stopping a profile.
KeepsStopping(p) == SF_vars(\E r \in Requests : StopEnqueue(r, p))

\* No session occupies its profile and the organization's limit for ever: one
\* left queued by a full worker, running behind a failed close, or active
\* across a restart is ended when somebody keeps stopping its profile.
StopsClear ==
  (\A p \in Profiles : KeepsStopping(p)) =>
    \A s \in Sessions :
      sessStatus[s] \in ActiveStates ~> sessStatus[s] \notin ActiveStates

-----------------------------------------------------------------------------
(* What the documents say and the code does not keep.                      *)

\* docs/RUNTIME_ORCHESTRATION.md: "an already active session for the same
\* profile is returned rather than duplicated."
NoDuplicateActiveSession ==
  \A p \in Profiles : Cardinality(ActiveSessions(p)) <= 1

\* README.md: "organization concurrency limits".
LimitRespected == \A o \in Orgs : Cardinality(ActiveInOrg(o)) <= Limit

\* docs/RUNTIME_ORCHESTRATION.md: a stop "releases the lease after runtime
\* shutdown".
StoppedAfterShutdown ==
  \A s \in Sessions :
    sessStatus[s] = "stopped" /\ leaseStatus[s] = "released" => ctx[s] # "open"
=============================================================================
