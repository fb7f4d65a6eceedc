----------------------------- MODULE Orchestrator -----------------------------
(***************************************************************************)
(* The durable control-plane state of app/services/orchestrator.py: the    *)
(* rows of browser_sessions, runtime_tasks and runtime_leases, and one     *)
(* action per method of RuntimeOrchestrator.  Each action is one database  *)
(* commit.  The request handlers that call the methods, and the order they *)
(* call them in, are in SessionControl.                                    *)
(*                                                                         *)
(* A session is known by its id, which the database hands out in           *)
(* increasing order.  A session has one start task, at most one lease, and *)
(* the stop tasks that were ever queued for it, oldest first.  The single  *)
(* local worker's row never changes after startup, so it is not a variable.*)
(***************************************************************************)
EXTENDS Deployment

VARIABLES
  sessStatus,   \* browser_sessions.status; "absent" before the insert
  sessProfile,  \* browser_sessions.profile_id
  sessKey,      \* browser_sessions.idempotency_key
  startTask,    \* status of the session's start task
  stopTasks,    \* statuses of the session's stop tasks, oldest first
  leaseStatus,  \* runtime_leases.status; "none" before the insert
  leaseExpiry,  \* runtime_leases.expires_at
  now           \* the wall clock

taskVars  == <<startTask, stopTasks>>
leaseVars == <<leaseStatus, leaseExpiry>>
sessVars  == <<sessStatus, sessProfile, sessKey>>
dbVars    == <<sessVars, taskVars, leaseVars>>

-----------------------------------------------------------------------------

ActiveStates  == {"queued", "provisioning", "running"}
SessionStates == ActiveStates \cup {"absent", "stopped", "error"}
TaskStates    == {"queued", "running", "succeeded", "failed"}
LeaseStates   == {"none", "active", "released", "expired"}

OrchestratorTypeOK ==
  /\ sessStatus \in [Sessions -> SessionStates]
  /\ sessProfile \in [Sessions -> Profiles \cup {NoProfile}]
  /\ sessKey \in [Sessions -> Keys \cup {NoKey}]
  /\ startTask \in [Sessions -> TaskStates]
  /\ stopTasks \in [Sessions -> Seq(TaskStates)]
  /\ leaseStatus \in [Sessions -> LeaseStates]
  /\ leaseExpiry \in [Sessions -> Nat]
  /\ now \in Nat

OrchestratorInit ==
  /\ sessStatus = [s \in Sessions |-> "absent"]
  /\ sessProfile = [s \in Sessions |-> NoProfile]
  /\ sessKey = [s \in Sessions |-> NoKey]
  /\ startTask = [s \in Sessions |-> "queued"]
  /\ stopTasks = [s \in Sessions |-> <<>>]
  /\ leaseStatus = [s \in Sessions |-> "none"]
  /\ leaseExpiry = [s \in Sessions |-> 0]
  /\ now = 0

-----------------------------------------------------------------------------
(* Queries.                                                                *)

\* The rows the database holds.
Stored == {s \in Sessions : sessStatus[s] # "absent"}

\* Mutant: a retry takes over the row of a failed session.
IsNextId_ReusesFailed(s) ==
  \/ s \in Sessions /\ sessStatus[s] = "error"
  \/ /\ s \in Sessions \ Stored
     /\ \A t \in Sessions : t < s => t \in Stored

\* The id the next insert gets.
IsNextId(s) ==
  /\ s \in Sessions \ Stored
  /\ \A t \in Sessions : t < s => t \in Stored

SessionsOf(org) == {s \in Stored : OrgOf[sessProfile[s]] = org}

\* Mutant: a queued session does not count.
ActiveSessions_NotQueued(p) ==
  {s \in Sessions : sessProfile[s] = p /\ sessStatus[s] \in {"provisioning", "running"}}

ActiveSessions(p) ==
  {s \in Sessions : sessProfile[s] = p /\ sessStatus[s] \in ActiveStates}

\* ORDER BY id DESC, first row.
IsNewestActive(s, p) ==
  /\ s \in ActiveSessions(p)
  /\ \A t \in ActiveSessions(p) : t <= s

\* active_session_count counts these.
ActiveInOrg(org) == {s \in SessionsOf(org) : sessStatus[s] \in ActiveStates}

\* Mutant: only active sessions are looked up.
IdempotentHits_ActiveOnly(org, k) ==
  IF k = NoKey THEN {} ELSE {s \in ActiveInOrg(org) : sessKey[s] = k}

\* find_idempotent_session: any status, any profile of the organization.
IdempotentHits(org, k) ==
  IF k = NoKey THEN {} ELSE {s \in SessionsOf(org) : sessKey[s] = k}

ActiveLeases == {s \in Sessions : leaseStatus[s] = "active"}

LapsedLeases == {s \in ActiveLeases : leaseExpiry[s] <= now}

OpenStopTasks(s) ==
  {i \in DOMAIN stopTasks[s] : stopTasks[s][i] \in {"queued", "running"}}

-----------------------------------------------------------------------------
(* The methods that write.                                                 *)

\* enqueue_start, for a key no stored session has.
EnqueueStart(s, p, k) ==
  /\ IsNextId(s)
  /\ IdempotentHits(OrgOf[p], k) = {}
  /\ sessStatus' = [sessStatus EXCEPT ![s] = "queued"]
  /\ sessProfile' = [sessProfile EXCEPT ![s] = p]
  /\ sessKey' = [sessKey EXCEPT ![s] = k]
  /\ startTask' = [startTask EXCEPT ![s] = "queued"]
  /\ UNCHANGED <<stopTasks, leaseVars>>

\* Mutant: one lease too many fits.
AcquireLease_OffByOne(s) ==
  /\ Cardinality(ActiveLeases) <= Capacity
  /\ leaseStatus' = [leaseStatus EXCEPT ![s] = "active"]
  /\ leaseExpiry' = [leaseExpiry EXCEPT ![s] = now + LeaseTTL]
  /\ sessStatus' = [sessStatus EXCEPT ![s] = "provisioning"]
  /\ startTask' = [startTask EXCEPT ![s] = "running"]
  /\ UNCHANGED <<sessProfile, sessKey, stopTasks>>

\* Mutant: the worker's status is written to the task.
AcquireLease_TaskOnline(s) ==
  /\ Cardinality(ActiveLeases) < Capacity
  /\ leaseStatus' = [leaseStatus EXCEPT ![s] = "active"]
  /\ leaseExpiry' = [leaseExpiry EXCEPT ![s] = now + LeaseTTL]
  /\ sessStatus' = [sessStatus EXCEPT ![s] = "provisioning"]
  /\ startTask' = [startTask EXCEPT ![s] = "online"]
  /\ UNCHANGED <<sessProfile, sessKey, stopTasks>>

\* acquire_local_lease when the worker has room.
AcquireLease(s) ==
  /\ Cardinality(ActiveLeases) < Capacity
  /\ leaseStatus' = [leaseStatus EXCEPT ![s] = "active"]
  /\ leaseExpiry' = [leaseExpiry EXCEPT ![s] = now + LeaseTTL]
  /\ sessStatus' = [sessStatus EXCEPT ![s] = "provisioning"]
  /\ startTask' = [startTask EXCEPT ![s] = "running"]
  /\ UNCHANGED <<sessProfile, sessKey, stopTasks>>

\* acquire_local_lease when the worker is full: raises before it writes.
RefuseLease ==
  /\ Cardinality(ActiveLeases) >= Capacity
  /\ UNCHANGED dbVars

\* complete_start overwrites whatever status the rows have by now.
CompleteStart(s) ==
  /\ sessStatus' = [sessStatus EXCEPT ![s] = "running"]
  /\ startTask' = [startTask EXCEPT ![s] = "succeeded"]
  /\ UNCHANGED <<sessProfile, sessKey, stopTasks, leaseVars>>

\* Mutant: the task fails and the session row is forgotten.
FailStart_TaskOnly(s) ==
  /\ startTask' = [startTask EXCEPT ![s] = "failed"]
  /\ leaseStatus' = [leaseStatus EXCEPT ![s] =
                       IF @ = "none" THEN "none" ELSE "released"]
  /\ UNCHANGED <<sessVars, stopTasks, leaseExpiry>>

\* fail_start releases the session's lease whatever its status, if it has one.
FailStart(s) ==
  /\ sessStatus' = [sessStatus EXCEPT ![s] = "error"]
  /\ startTask' = [startTask EXCEPT ![s] = "failed"]
  /\ leaseStatus' = [leaseStatus EXCEPT ![s] =
                       IF @ = "none" THEN "none" ELSE "released"]
  /\ UNCHANGED <<sessProfile, sessKey, stopTasks, leaseExpiry>>

\* enqueue_stop: the newest open stop task is reused, else one is added.
\* i is the position of the task it returns.
EnqueueStop(s, i) ==
  /\ \/ /\ i \in OpenStopTasks(s)
        /\ \A j \in OpenStopTasks(s) : j <= i
        /\ UNCHANGED stopTasks
     \/ /\ OpenStopTasks(s) = {}
        /\ i = Len(stopTasks[s]) + 1
        /\ stopTasks' = [stopTasks EXCEPT ![s] = Append(@, "queued")]
  /\ UNCHANGED <<sessVars, startTask, leaseVars>>

MarkStopRunning(s, i) ==
  /\ stopTasks' = [stopTasks EXCEPT ![s][i] = "running"]
  /\ UNCHANGED <<sessVars, startTask, leaseVars>>

\* Mutant: the lease is left for expiry to end.
CompleteStop_KeepsLease(s, i) ==
  /\ sessStatus' = [sessStatus EXCEPT ![s] = "stopped"]
  /\ stopTasks' = [stopTasks EXCEPT ![s][i] = "succeeded"]
  /\ UNCHANGED <<sessProfile, sessKey, startTask, leaseVars>>

\* complete_stop releases the lease only while it is active.
CompleteStop(s, i) ==
  /\ sessStatus' = [sessStatus EXCEPT ![s] = "stopped"]
  /\ stopTasks' = [stopTasks EXCEPT ![s][i] = "succeeded"]
  /\ leaseStatus' = [leaseStatus EXCEPT ![s] =
                       IF @ = "active" THEN "released" ELSE @]
  /\ UNCHANGED <<sessProfile, sessKey, startTask, leaseExpiry>>

\* Mutant: the task stays as it is.
FailStop_Silent(s, i) == UNCHANGED dbVars

\* fail_stop writes the task alone.
FailStop(s, i) ==
  /\ stopTasks' = [stopTasks EXCEPT ![s][i] = "failed"]
  /\ UNCHANGED <<sessVars, startTask, leaseVars>>

-----------------------------------------------------------------------------
(* What startup does to the rows.                                          *)

\* The newest running task of s is the one at stop position i.
IsNewestRunningStop(s, i) ==
  /\ i \in DOMAIN stopTasks[s]
  /\ stopTasks[s][i] = "running"
  /\ \A j \in DOMAIN stopTasks[s] : stopTasks[s][j] = "running" => j <= i

HasRunningStop(s) == \E i \in DOMAIN stopTasks[s] : stopTasks[s][i] = "running"

\* Mutant: only sessions that were running are recovered.
RecoverExpiredLeases_RunningOnly ==
  LET lost == {s \in LapsedLeases : sessStatus[s] = "running"} IN
  /\ leaseStatus' = [s \in Sessions |->
       IF s \in lost THEN "expired" ELSE leaseStatus[s]]
  /\ sessStatus' = [s \in Sessions |->
       IF s \in lost THEN "error" ELSE sessStatus[s]]
  /\ UNCHANGED <<sessProfile, sessKey, taskVars, leaseExpiry>>

\* recover_expired_leases: every lapsed lease expires; if its session was
\* active the session fails, and with it the newest of its running tasks.
RecoverExpiredLeases ==
  LET lost == {s \in LapsedLeases : sessStatus[s] \in ActiveStates} IN
  /\ leaseStatus' = [s \in Sessions |->
       IF s \in LapsedLeases THEN "expired" ELSE leaseStatus[s]]
  /\ sessStatus' = [s \in Sessions |->
       IF s \in lost THEN "error" ELSE sessStatus[s]]
  /\ stopTasks' = [s \in Sessions |-> [i \in DOMAIN stopTasks[s] |->
       IF s \in lost /\ IsNewestRunningStop(s, i)
       THEN "failed" ELSE stopTasks[s][i]]]
  /\ startTask' = [s \in Sessions |->
       IF s \in lost /\ ~HasRunningStop(s) /\ startTask[s] = "running"
       THEN "failed" ELSE startTask[s]]
  /\ UNCHANGED <<sessProfile, sessKey, leaseExpiry>>

\* Mutant: the heartbeat does not look at the lease's status.
Heartbeat_RevivesExpired ==
  /\ leaseStatus' = [s \in Sessions |->
       IF leaseStatus[s] = "expired" THEN "active" ELSE leaseStatus[s]]
  /\ leaseExpiry' = [s \in Sessions |->
       IF leaseStatus[s] \in {"active", "expired"}
       THEN now + LeaseTTL ELSE leaseExpiry[s]]
  /\ UNCHANGED <<sessVars, taskVars>>

\* heartbeat renews every lease the worker row still holds.
Heartbeat ==
  /\ leaseExpiry' = [s \in Sessions |->
       IF s \in ActiveLeases THEN now + LeaseTTL ELSE leaseExpiry[s]]
  /\ UNCHANGED <<sessVars, taskVars, leaseStatus>>
=============================================================================
