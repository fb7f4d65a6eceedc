---------------------------- MODULE RuntimeManager ----------------------------
(***************************************************************************)
(* The in-process executor of app/services/runtime.py: the asyncio lock,   *)
(* the registry of active runtimes, and the browser contexts it opens.     *)
(* Each action is what one call does between two awaits.                   *)
(*                                                                         *)
(* A browser context is named by the session whose start launched it: a    *)
(* session is started once, so it launches at most one.  Playwright and    *)
(* Chromium are external; a context is only open or closed here.           *)
(***************************************************************************)
EXTENDS Deployment

VARIABLES
  lockq,     \* RuntimeManager._lock: callers in FIFO order, the head holds it
  registry,  \* RuntimeManager._runtimes: [Profiles -> launching session]
  ctx        \* the browser context a session launched: none, open or closed

rmVars == <<lockq, registry, ctx>>

\* No runtime: the profile is not a key of _runtimes.
NoRuntime == 0

ContextStates == {"none", "open", "closed"}

RuntimeManagerTypeOK ==
  /\ lockq \in Seq(Requests)
  /\ registry \in [Profiles -> Sessions \cup {NoRuntime}]
  /\ ctx \in [Sessions -> ContextStates]

RuntimeManagerInit ==
  /\ lockq = <<>>
  /\ registry = [p \in Profiles |-> NoRuntime]
  /\ ctx = [s \in Sessions |-> "none"]

HoldsLock(r) == lockq # <<>> /\ Head(lockq) = r

\* "async with self._lock": asyncio locks are granted in arrival order.
JoinLock(r) ==
  /\ lockq' = Append(lockq, r)
  /\ UNCHANGED <<registry, ctx>>

ReleaseLock(r) ==
  /\ HoldsLock(r)
  /\ lockq' = Tail(lockq)

\* launch finds the profile registered and returns that runtime.
LaunchReturnsRegistered(r, p) ==
  /\ registry[p] # NoRuntime
  /\ ReleaseLock(r)
  /\ UNCHANGED <<registry, ctx>>

\* launch_persistent_context returned: the browser runs.
OpenContext(r, s) ==
  /\ HoldsLock(r)
  /\ ctx' = [ctx EXCEPT ![s] = "open"]
  /\ UNCHANGED <<lockq, registry>>

\* Mutant: the lock is not released when launch raises.
LaunchRaises_KeepsLock(r) ==
  /\ HoldsLock(r)
  /\ UNCHANGED rmVars

\* An exception leaves the lock's block.  Nothing closes a context that is
\* open by then, and nothing registers it.
LaunchRaises(r) ==
  /\ ReleaseLock(r)
  /\ UNCHANGED <<registry, ctx>>

\* The page is loaded: the runtime is registered and launch returns it.
Register(r, p, s) ==
  /\ ctx[s] = "open"
  /\ registry' = [registry EXCEPT ![p] = s]
  /\ ReleaseLock(r)
  /\ UNCHANGED ctx

\* Mutant: stop looks the runtime up and leaves it registered.
Pop_Keeps(r, p) ==
  /\ ReleaseLock(r)
  /\ UNCHANGED <<registry, ctx>>

\* The locked half of stop: pop under the lock, close after it.
Pop(r, p) ==
  /\ registry' = [registry EXCEPT ![p] = NoRuntime]
  /\ ReleaseLock(r)
  /\ UNCHANGED ctx

CloseContext(s) ==
  /\ ctx' = [ctx EXCEPT ![s] = "closed"]
  /\ UNCHANGED <<lockq, registry>>

\* context.close() raised: the browser is gone or it is still there.
CloseContextRaises(s) ==
  /\ \/ UNCHANGED ctx
     \/ ctx' = [ctx EXCEPT ![s] = "closed"]
  /\ UNCHANGED <<lockq, registry>>

\* The process ends, by close() or by dying: the registry, the lock and the
\* browsers the Playwright driver started end with it.
LoseEverything ==
  /\ lockq' = <<>>
  /\ registry' = [p \in Profiles |-> NoRuntime]
  /\ ctx' = [s \in Sessions |-> IF ctx[s] = "open" THEN "closed" ELSE ctx[s]]
=============================================================================
