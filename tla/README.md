# SessionGrid in TLA+

A verification development kept beside the code of SessionGrid: TLA+ modules
translated from `src/app`, TLC configurations that check them on small
instances, and theorems about them that the TLAPS proof system checks for every
instance.

- [The system](#the-system)
- [The modules](#the-modules)
- [What the runs check](#what-the-runs-check)
- [What is proved](#what-is-proved)
- [Where documents and code disagree](#where-documents-and-code-disagree)
- [What is not modelled](#what-is-not-modelled)
- [Plan](#plan)

Parse a module with `tlasany M.tla`, check a run with
`tlc -config <run>.cfg <module>` (`MCWorkflow` for `Workflow*` and
`DocRejected`, `MCEvidence` for `Evidence`, `MCTenancy` for `Tenancy`,
`MCSession` for the others), check proofs with `tlapm M.tla`.
`PROJECT.json` lists the runs, the mutants every property is tested with, the
lines of code behind every definition, and the hazards the properties are for.

## The system

SessionGrid is one FastAPI process in front of one database. It starts and
stops Chromium browsers for the profiles of an organization, collects
screenshots as evidence, and runs small review workflows.

| Component | State | Operations | Hard behaviour |
|---|---|---|---|
| Runtime orchestrator (`services/orchestrator.py`) | rows of `browser_sessions`, `runtime_tasks`, `runtime_leases`, `runtime_workers` | enqueue and complete or fail a start or a stop, acquire a lease, heartbeat, recover | rows written by handlers that do not look at each other's writes; crash between two commits |
| Runtime manager (`services/runtime.py`) | an asyncio lock, a dictionary of active runtimes, the browsers | launch, stop, close | a lock held over a page load; a browser popped under the lock and closed outside; failing and dying browsers |
| Session endpoints (`main.py` start, stop, `lifespan`) | `profiles.status`, `usage_events`, the handlers in flight | start, stop, startup, shutdown | checks before an await, writes after it; idempotent replay; restart |
| Workflow engine (`services/workflows.py`) | rows of `workflow_runs`, `workflow_step_runs`, `approvals` | start a run, advance, decide | two reviewers in two threads; database sessions with stale rows; crash or exception in the middle of advance |
| Evidence (`main.py` capture, frame; `services/artifacts.py`) | files, `artifacts`, `browser_sessions.screenshots` | capture, view a frame, download | a session that stops or changes during a screenshot; crash between file, row and audit event; a counter written after an await |
| Access (`auth.py`, members, API keys) | `users`, `memberships`, `api_keys` | authenticate, authorize, add a member, create and revoke a key | check then insert; revocation during a request |
| Tenancy (organizations, workspaces, profiles) | `organizations`, `workspaces`, `profiles` | create | an organization is visible before it is complete |
| Definitions (`validate_definition`, `ensure_builtin_definition`) | `workflow_definitions` | create, look up the built-in one or insert it | two inserts of one version; values that are stored and cannot be run |
| Bootstrap (`seed`) | all of the last three | complete what is missing | a startup cut short between its two commits |
| Audit and usage | `audit_events`, `usage_events` | append | written in a commit of their own, behind the change they report |

The endpoints call the orchestrator (commits) and the runtime manager (awaits)
in turn. Captures and frames look at the session rows and at the runtimes the
start and stop handlers own, and write neither. The workflow engine meets the
rest only through the artifacts a profile has, and runs only definitions that
passed `validate_definition`. Every endpoint first asks `get_principal` for an
organization and a role. A process that starts seeds the default organization,
recovers lapsed leases, registers itself as the local worker, renews every lease
that is still active, and serves.

Two different kinds of concurrency matter:

- `start_session`, `stop_session`, `capture_evidence` and `frame` are `async`:
  they share one event loop, and switch only at an `await`. Database calls block
  the loop. Each commit is still a step of its own, because the process may die
  after it.
- all other endpoints (workflow runs and decisions, members, keys, profiles,
  organizations) are plain functions: each runs in its own thread with its own
  database session, so threads interleave at every query and commit. `SessionLocal` sets `expire_on_commit=False` and
  `autoflush=False`: a thread goes on with the rows it has once loaded, and a
  commit writes a column only if its value differs from the loaded one.

What makes each component correct:

- orchestrator: capacity is never exceeded, session and lease rows agree, a
  lease that ended never comes back, one session per idempotency key, a failed
  session stays failed, an organization stays within its limit;
- runtime manager: a handler gets the browser of its own profile, no browser
  is lost without a failure, the lock is always released;
- endpoints: every request is answered, no session stays provisioning, lapsed
  allocations are marked lost, stopped sessions are metered, tasks are ended,
  no session occupies its profile for ever if somebody stops it;
- workflow engine: no step in front of an undecided approval, no evidence step
  without evidence, decisions are final, runs end or wait for an answer that
  somebody can give;
- evidence: an artifact can be downloaded and is what its row says, of a session
  that ran in that browser; frames are never over-counted;
- access: a request with a key stays in the key's organization, a revoked key
  stays revoked and falls silent, of two requests that add one member one does
  and the log tells which;
- tenancy, definitions, bootstrap: what is visible is complete, a serving process
  is bootstrapped, a stored definition passes every later check unchanged.

## The modules

| Module | What it is |
|---|---|
| `Deployment` | the constants of a deployment: profiles and their organizations, limits, bounds |
| `Orchestrator` | the rows, one action per method of `RuntimeOrchestrator`, each one commit |
| `RuntimeManager` | lock, registry and browsers, one action per stretch between two awaits |
| `SessionControl` | the handlers, startup, shutdown and crash: composes the two above |
| `LeasePool` | abstract specification of the lease table |
| `SessionProperties` | the properties of `SessionControl` |
| `MCSession` | constants for TLC |
| `WorkflowEngine` | runs, steps and approvals under racing threads |
| `ApprovalGate` | abstract specification of a run's approvals |
| `WorkflowProperties`, `MCWorkflow` | the properties of `WorkflowEngine`, constants for TLC |
| `Evidence` | captures, frames and the artifact store, composed with `SessionControl` |
| `EvidenceProperties`, `MCEvidence` | the properties of `Evidence`, constants for TLC |
| `Definitions` | `validate_definition` as operators on lists of steps |
| `Tenancy` | principals, roles, keys, organizations, profiles, stored definitions, `seed` |
| `TenancyProperties`, `MCTenancy` | the properties of `Tenancy`, constants for TLC |
| `SequenceUpdates` | two lemmas about sequences |
| `SessionProofs`, `RuntimeProofs`, `UptimeProofs`, `WorkflowProofs`, `GateProofs`, `EvidenceProofs`, `TenancyProofs` | the theorems |

### Sessions

A session is known by its id; `sessStatus`, `sessProfile` and `sessKey` are its
row, `startTask` and `stopTasks` its tasks (the start task is created with the
session, stop tasks are appended), `leaseStatus` and `leaseExpiry` its lease
(`runtime_leases.session_id` is unique). The single worker row is rewritten
with the configured values at every use, so it is no variable.

In `SessionControl` a handler is a program counter per request slot. `loop` is
the handler whose code runs: a handler that has committed and goes on without
an await keeps the loop, so `StartEnqueue`, `StartAcquire` and the request for
the lock run one after the other unless the process dies between them.

| Program point | Where the code is |
|---|---|
| `enqueued` | after the commit of `enqueue_start`, before `acquire_local_lease` |
| `launchwait` | in `launch`, waiting for the lock (asyncio locks are FIFO; `acquire` does not suspend when the lock is free) |
| `launching`, `goto` | awaiting the browser, awaiting the page; the lock is held |
| `title` | awaiting `page.title()` in the arguments of `complete_start`; the lock is free |
| `completed`, `failed` | before the commit of profile status and usage event |
| `stopqueued`, `stopwait` | before `mark_stop_running`, waiting for the lock in `stop` |
| `closing` | awaiting `context.close()`; the lock is free |
| `stopped` | before the commit of profile status and usage event |

A browser is named by the session whose start launched it. `seen` is the
profile's status as the handler's database session has loaded it, for the
net-change update of `AssignProfileStatus`. A call that answers without a write
(404, 429, a replayed key, a returned session) is a stuttering step.

The environment may let a browser call fail or a browser exit (`MaxFaults` in
all), kill the process at any point or shut it down when idle (`MaxRestarts`),
and let time pass. The database is up: a failing commit is not modelled here.

### Workflows

`runIndex` is `current_step_index + 1`. `memStatus`, `memIndex` and `memSteps`
are what a thread's database session holds of the run and its steps, and
`Column(row, loaded, assigned)` is what an UPDATE leaves in a column. The
thread's program counter says between which query and which commit it is. The
status `running` of a step never reaches the database (it is replaced before
the commit), so it does not occur. A definition is the sequence of its step
types; every `require_artifact` step asks for the same kind of artifact, except
that two more types tell apart what `validate_definition` does not: an approval
whose prompt, or a required artifact whose kind, the database refuses
(`refused_prompt`, `refused_kind`). At such a step `advance` raises (`StepRaises`),
behind the commit that started or resumed the run. A `refused_kind` without a
profile fails the run before its kind is looked at.
`Capture` is the commit of an artifact; its guards in the code (a running
session, a screenshot) are left open, so evidence may appear at any time.

`AskTwice` is the second insert of an approval for one step: `step_run_id` is
unique, the commit fails, and the request answers 500.

### Evidence

`Evidence` extends `SessionControl`: its steps are those of the session control
plane, and those of request slots (`Viewers`) that capture or view a frame. What
a handler has selected before an await and uses after it is a record `view[v]`;
`Quiet` says that no viewer is between file, row and audit event, where the code
has no await: no handler runs then, and a viewer runs only while the loop is free,
although the process may die in either stretch. `files` is the
artifact store: a uuid4 key never repeats, so the n-th screenshot has key n, and a
temporary file that `os.replace` has not renamed has no key. An image is known by
the browser it shows and its number; its digest is the image itself. `counted` and
`served` are history variables: how many frames were counted, and which browser
was registered while which session was running.

A screenshot may still be delivered by a browser that has died since: the model
allows more here than Playwright does. A file without a row can only be what a
crash left. Sizes, content types, titles and URLs are left out.

### Tenancy and definitions

A row is named by its unique columns, so a unique constraint is a guard, and an
insert that comes too late ends the request with the unhandled `IntegrityError`
(answered 500, and without an audit event). The constraints have PostgreSQL's
semantics; with SQLite, which serializes writers, fewer interleavings are left.
A thread is a request: `pc` says between which query and which commit it is,
`who` is its `Principal`, `with` the key it was sent, `note` the audit event it is
working towards. The threads interleave at each query whose answer may have
changed by the next one: the key's, the membership's, the user's, the built-in
definition's. `is_active` and `expires_at` are never set by the code, and
`last_used_at` is not read: none is kept. The commit of `last_used_at` is a step
nevertheless, since it writes the row `revoked_at` is a column of.

API keys are created only for the caller, and without authentication the caller
is the administrator; so every principal the code can reach is the bootstrap
administrator, an owner in each organization it made. The role guards are in
the model as they are in the code, and never refuse.

`Accepted` and `Normalized` are the two things `validate_definition` does, step
by step in the code's order of checks: keys (`BadKey` stands for one the pattern
refuses), types, and the one field each type asks for. A field is absent, filled
in by `default`, or any JSON value, because the request body is an unchecked
dictionary: `given` and `empty` values are truthy and falsy ones the database can
take as text, `refused` and `hollow` ones it cannot (an object, a string with a
NUL; an empty object). The code tests only the truth of a prompt, so a refused
one is accepted and stored; `TypesOf` says what `WorkflowEngine` gets from it.
`MaxSteps` is the code's 50.

## What the runs check

| Run | Properties | Instance |
|---|---|---|
| `SessionSafety` | `TypeOK`, `CapacityRespected`, `LeaseMatchesSession`, `IdempotentStarts`, `TasksFollowHandlers`, `UnmeteredAreCrashes`, `ErrorNeverRevives`, `LeasesFormPool` | 1 profile, 1 key, 2 requests, 2 sessions, capacity 1, 1 fault, 2 restarts, 1 tick |
| `SessionLimits` | `LeasedSessionsWithinLimit`, `RuntimeIsolation`, `LostBrowsersAreFaults` | 2 profiles of one organization with limit 2, 1 key, 2 requests, 3 sessions, capacity 2, 1 fault |
| `SessionUptime` | `RunningIsBacked`, `RegisteredIsLeased`, `NobodyIsStuck` | 1 profile, 3 requests, 3 sessions, no keys, faults or restarts |
| `SessionProgress` | `HandlersFinish`, `ProvisioningResolves`, `LapsedAllocationsAreLost`, `StopsClear` | 1 profile, 2 requests, 2 sessions, 1 fault, 1 restart, 1 tick, fair |
| `WorkflowRaces` | `WorkflowTypeOK`, `GateHolds`, `EvidenceIsReal`, `StalledAreCrashes`, `RunsSettle` | 1 run of any of 4 definitions, 2 threads, 1 crash, fair |
| `WorkflowGate` | `WaitingCanResume`, `RunsImplementGate` | 2 runs, 1 thread, 2 crashes |
| `Evidence` | `EvidenceTypeOK`, `ArtifactsMatchContent`, `EvidenceShowsItsSession`, `CapturesComplete`, `CountsOnlyFrames`, `SessionsUndisturbed` | 1 profile, 1 start or stop request, 2 sessions, 2 viewers, 2 images, 2 frames, 1 fault, 1 restart |
| `Tenancy` | `TenancyTypeOK`, `KeysStayInTheirOrg`, `MemberEventsAreTrue`, `ChangesAreAudited`, `OrganizationsAreComplete`, `ServingIsBootstrapped`, `StoredDefinitionsPass`, `RevocationIsFinal`, `RevokedKeysFallSilent` | 2 organizations, 2 users, 2 keys, 2 threads, 1 crash, changes until 1 event is logged, fair |

Why the bounds are enough. With capacity 1 and two sessions one start finds
the worker full; with two requests a stop overtakes a launch, a launch and a
stop contend for the lock, and two stops overlap; a third request lets a start
be admitted between a stop and the launch it overtook. Three sessions, two
profiles and a key fill a limit of two and ask for one more; the keyed start shares
a profile with an unkeyed one, and the fault is the one browser that may be lost. One tick with a
lease time of one tick lapses a lease, and the restart finds it lapsed, or not
yet. In the workflow runs the definitions are the built-in one (note, evidence,
approval, note), one with two approvals in a row, the shortest in which a
late decision re-enters an approval step, one with a prompt and one with a kind
that the database refuses; two threads are two decisions of one
approval, with everything either of them goes on to do.

In the evidence run two viewers are two captures, two frames or one of each, over
a session that a request stops, and over the next one, which a second
start launches; a fault kills the browser under a screenshot, a restart comes
between file and row. In the tenancy run two threads are two changes that race,
and a third that starts when one of them has answered and sees what it left;
`MaxAudit` lets requests begin changes until an event is in the log, and only read
afterwards. The second organization is the one a request creates, the second key
the one it creates and revokes; the crash falls into a startup, a creation or
neither. Built-in definitions of two steps stand for the code's four, and
the payloads are one definition that is accepted, with a default to fill in and a
prompt the database will refuse, and one for each reason to refuse. The bounds are no matter for what is also proved (next section).

Some properties are checked where they hold and would not hold elsewhere:

- `RunningIsBacked` and `RegisteredIsLeased` are about the ordinary life
  (`OrdinaryLife`): unkeyed requests that race, no failures, no restarts. A keyed
  start duplicates an active session, a failing close leaves a session running
  without a runtime, a failing title leaves a registered browser without its
  session, a dead process leaves every session without a runtime.
- `LostBrowsersAreFaults`, `UnmeteredAreCrashes`, `CapturesComplete` and
  `StalledAreCrashes` hold throughout, because they count: a failed call loses one
  browser at most, an end of the process one usage event, one capture that is
  half recorded, and one run per thread that stays running.
- `StalledAreCrashes` and `RunsSettle` leave out runs that have come to a step the
  database refuses (`AtRefusal`): these do stay running, while the process is up,
  and no request can move them. It is decided by the approvals in front of the
  step, not by the run's current step: a decision that is late by two commits may
  move `current_step_index` back after `advance` has raised.
- `TasksFollowHandlers`, `ProvisioningResolves`, `RunsSettle` and
  `ChangesAreAudited` are about a process that has not
  gone down yet: all rest on a second commit after the one that changes the
  status, and nothing makes up for it after a restart.
- `StopsClear` is about an operator who keeps stopping: its premise
  `KeepsStopping` is strong fairness of a stop request that begins whenever the
  loop is free again and again, which the code cannot give and a client can. It
  is what ends a session that a full worker left queued, that a failed close left
  running, or that a restart quicker than the lease time kept alive (startup
  renews every lease it finds active).
- `RunsImplementGate` and `WaitingCanResume` are about decisions that come one
  after the other on a run. The `Doc*` runs show what racing decisions do.

Fairness (`FairSpec`). The event loop resumes a handler whose await is over and
Playwright ends every call with an answer or an exception (`page.goto` has a
timeout of 30 s): weak fairness of a handler's next step. A process that is
down is started again, and time passes. Threads of the pool are scheduled
(workflow and tenancy). No fairness is assumed of requests (but see
`StopsClear`), of failures, crashes or captures.

## What is proved

For every value of the constants (profiles, organizations, users, keys, requests,
threads, sessions, images, definitions, limits) and any number of crashes and
failures, from the assumptions on the constants alone (`DeploymentAssumption`,
`SessionControlAssumption`, `EvidenceAssumption`, `WorkflowAssumption`,
`DefinitionsAssumption`, `TenancyAssumption`):

| Theorem | Says |
|---|---|
| `TypeCorrect`, `WorkflowTypeCorrect`, `EvidenceTypeCorrect`, `TenancyTypeCorrect` | the type invariants |
| `CapacityRespectedHolds` | the worker's capacity is never exceeded |
| `LeaseMatchesSessionHolds` | an active lease has a provisioning or running session, a provisioning session has its lease |
| `LeasesFormPoolHolds` | the lease table implements `LeasePool` |
| `LimitHolds` | the sessions of an organization that wait for or hold a lease stay within its limit |
| `IdempotentStartsHolds` | one session per organization and key |
| `ErrorNeverRevivesHolds` | a failed session is never active again |
| `RuntimeIsolationHolds` | a handler only holds browsers of its own profile |
| `LostBrowsersAreFaultsHolds` | there are never more lost browsers than failed browser calls |
| `NobodyIsStuckHolds` | while a request is in flight some handler may go on: loop, lock and browsers never wait in a circle |
| `UnmeteredAreCrashesHolds` | there are never more stopped sessions without a usage event than ends of the process |
| `TasksFollowHandlersHolds` | until the process goes down, open tasks are worked on |
| `RunningIsBackedHolds`, `RegisteredIsLeasedHolds` | in ordinary life running sessions have their runtimes, and registered browsers their leases |
| `GateHoldsAlways` | no step is executed in front of an undecided approval |
| `EvidenceIsRealAlways` | no evidence step succeeds without evidence |
| `StalledAreCrashesHolds` | running runs that no thread advances, other than those at a step the database refuses, are at most one per thread and death of the process |
| `WaitingCanResumeHolds`, `RunsImplementGateHolds` | with one request at a time on a run (`OneAtATime`), a waiting run can be resumed, and the rows implement `ApprovalGate` |
| `SessionsUndisturbedHolds` | the composition with evidence is a `SessionControl` |
| `ArtifactsMatchContentHolds`, `EvidenceShowsItsSessionHolds`, `CapturesCompleteHolds`, `CountsOnlyFramesHolds` | the invariants of the `Evidence` run |
| `ValidatedOnce` | an accepted definition, once normalized, is accepted again and unchanged |
| `KeysStayInTheirOrgHolds`, `MemberEventsAreTrueHolds`, `ChangesAreAuditedHolds`, `RevocationIsFinalHolds`, `OrganizationsAreCompleteHolds`, `ServingIsBootstrappedHolds`, `StoredDefinitionsPassHolds` | the safety properties of the `Tenancy` run |

The argument for sessions. `RowSteps` and `RuntimeSteps` first reduce the
actions of the handlers to what they do to the rows and to the executor. The
invariant `IInv` then says what a handler may assume of its session: it has
one (`HandlersHaveSessions`), the session it has just enqueued is queued and no
other handler runs before it has its lease (`EnqueuedRunsAlone`, which is where
the single-threaded event loop enters), queued sessions have no lease, a
session whose launch is under way holds its lease or was stopped meanwhile
(`LaunchUnderWay`), and no two handlers start one session. `LeaseMatchesSession`
is not inductive without these: `complete_start` writes `running` whatever the
row says, and only `LaunchUnderWay` tells what it may say. `RInv` adds that a
launch holds the lock over its awaits, so nobody registers a runtime for its
profile meanwhile.

Two invariants count. No step makes more than one open browser unreachable, and
one that does is a failed call (`OneFailureLosesOne`); what dies with the process
is closed. In the same way one end of the process leaves one unmetered session at
most: the handler between `complete_stop` and its usage event has the event loop,
and there is one loop (`OneCrashCostsOne`). While no call fails no
browser is lost, and while the process stays up every stopped session is metered:
the cases of a count of zero.

For `NobodyIsStuck`, `QInv` says that the queue of the lock holds exactly the
handlers that wait for it or launch under it, each once (`LockServesWaiters`), that
a taken loop is taken by a handler that can use it (`LoopHasARunner`), and that a
handler at a title or a close has a browser that was launched (`RuntimesExist`).
Then either the loop
is taken and its owner goes on, or the head of the queue does, or the queue is
empty and everyone awaits a browser call, which ends. `MayGoOn` says when a step of
the handler is enabled, written out because ENABLED is out of the prover's reach.

For ordinary life `LifeInv` follows one profile through its sessions. Starts work
on the newest session of their profile, and one start at a time does
(`StartsAreFresh`, `StartsAreAlone`); a stop that finds a runtime finds that of
its own session, not of the next one (`StopsFindTheirs`), because the session it
ended was active until then and so no other could be admitted. The order of the
lock enters where two stops overlap and the next start comes before the second has
the lock: stops that still wait for an earlier session stand in front of that
start (`QueueInOrder`), so that none of them takes the runtime it registers.

The argument for workflows. `WInv` says that approvals are asked for in the
order of the steps (`AskedInOrder`), that step rows are touched behind decided
approvals only, and what a thread between two of its commits may still assume
(`DecidersKnow`, `AdvancersKnow`): its position is behind decided approvals,
and between a query and its commit the step is of the type it asked about. This
survives other threads because a decided approval stays decided, whichever
decision it is, and evidence stays.

`StalledAreCrashes` needs to know which thread brings a running run to its end or
next pause. It is not any thread that advances it: of two that ask for the same
approval one fails on the unique constraint and answers 500 without writing the
run. `Carries` excludes the thread that has lost this race already. The one that
won it has written `waiting_approval`, because its session had loaded or written
`running` (`AdvancersRun`) and so the column is not left out of the UPDATE; and a
run that was resumed since is carried by the thread that resumed it. A thread that
leaves because its step raises leaves a run at a refusal (`CarriersLeave`), and
such a run stays at it, because no decision is taken back (`RefusalStays`).

For the tasks `UptimeProofs` needs little more than the types: `HandsOver` says what one step of a handler may do to the tasks so that every open
one still has somebody. `GateProofs` adds `SInv` to `WInv`: while no two requests
work on one run, rows agree with each other (`RowsAgree`) and a thread's loaded
rows with the table (`DecidesFresh`, `AdvancesFresh`), so the branch that pauses a
run again at an approval it had asked for before is never taken. This is what
racing decisions break. The theorem about `ApprovalGate` assumes definitions of
at most 50 steps, which `validate_definition` guarantees.

The argument for evidence. Every step of the composition is a step of
`SessionControl` or leaves its variables alone (`StepsOfSessions`), so all that is
proved of sessions, `RInv` in particular, holds with viewers around. `EInv` adds
what a viewer knows at each await (`Knows`): the pair of browser and session it
selected served together, which stays true as history, and from the moment its
file is written nobody else has its key; one viewer at a time records
(`RecordsInTurn`), so a crash leaves at most one file without its row or event
(`OneCrashLeavesOne`).

The argument for tenancy. No row is ever lost and no column that is given changes
(`RowsGrow`), so what a thread has read before its own commit is still so when it
commits, except for a revocation and for the absence of a row; the unique
constraints settle the latter. `TInv` says which rows a thread's program
counter vouches for, and that an organization's owner, workspace and built-in
definition come in this order.

TLAPS does not handle liveness under fairness or ENABLED, nor induction over data
for what a recursive definition computes: the liveness properties
(`HandlersFinish`, `ProvisioningResolves`, `LapsedAllocationsAreLost`,
`StopsClear`, `RunsSettle`, `RevokedKeysFallSilent`) stay with TLC, and no module
here needs recursion. Every invariant and every action property of the runs is
proved, `NobodyIsStuck` among them, which is the part of `HandlersFinish` that is
not about fairness.

## Where documents and code disagree

Four runs show a statement of the repository that the code does not keep; the
findings in `PROJECT.json` quote them.

- `DocDuplicateActive`: a start with a fresh key duplicates an active session.
- `DocLimit`: `complete_start` overwrites the status of a session that was
  stopped meanwhile, which revives it without a lease and beyond the
  organization's limit, until the stop that is still closing its browser ends.
- `DocLeaseOutlives`: of two overlapping stops, the second releases the lease
  while the first still closes the browser.
- `DocRejected`: two decisions of one approval both pass the check for a
  pending approval; the later replaces the earlier, and a run with a rejected
  approval succeeds.

`docs/WORKFLOW_ENGINE.md` says besides that the engine advances until it
finishes, fails or reaches an approval. A refused prompt or kind is a fourth case,
with one request and no race: `StepRaises`.

## What is not modelled

Lists, details, the overview, templates and scripts, migrations and engine
creation change no state of the system. Pointer and text input act on the page
and on nothing the program keeps. The audit events of sessions and workflows are
written after the state they report and never read: they are treated like
logging; those of tenancy and evidence are in the models. Error texts, URLs,
titles, sizes, content types and timestamps other than a lease's expiry are data
no property depends on. A database that is down is left out; of the statements
that fail, the violated unique constraints and the refused prompts and kinds are
in the models. A step key the database refuses makes `start_run` fail as a whole,
which changes nothing. Which value `profiles.status` should have while sessions of a profile
overlap is written down nowhere: the model follows the code and no property is
stated about it.

## Plan

Done, in this order: `Deployment`, `Orchestrator`, `RuntimeManager`,
`SessionControl` with `LeasePool` and their theorems; `WorkflowEngine` with
`ApprovalGate` and theirs; `Definitions` and `Tenancy`; `Evidence` over
`SessionControl`; the theorems about the last two, about uptime and about
workflow runs without races.

Next:

1. What a crash costs in tenancy, counted like the rest: changes without an event
   and organizations without the built-in workflow, at most one per thread. Now
   `ChangesAreAudited` and `OrganizationsAreComplete` say so up to the first crash.
2. `WorkflowEngine` over `Evidence`: a `require_artifact` step and the capture it
   waits for, with the commit of the row as the only thing they share. `Capture`
   in `WorkflowEngine` is this commit with its guards left open, so what is proved
   there holds of the composition; a mapping would show it.
