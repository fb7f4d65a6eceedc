----------------------------- MODULE WorkflowEngine -----------------------------
(***************************************************************************)
(* The workflow runs and approvals of app/services/workflows.py.           *)
(*                                                                         *)
(* The endpoints that start a run and decide an approval are plain         *)
(* functions: FastAPI runs each in a thread of its own, with a database    *)
(* session of its own, so threads interleave at every query and every      *)
(* commit.  An action is one query or one commit.                          *)
(*                                                                         *)
(* A database session keeps the rows it has loaded (expire_on_commit is    *)
(* off and a later query does not refresh them) and a commit writes a      *)
(* column only when its value differs from the one this session loaded:    *)
(* memStatus, memIndex and memSteps are what a thread has loaded, Column   *)
(* is what its commit writes.                                              *)
(*                                                                         *)
(* Positions count from 1: runIndex is current_step_index + 1.             *)
(***************************************************************************)
EXTENDS Integers, Sequences, FiniteSets

CONSTANTS
  Runs,         \* rows of workflow_runs
  Definitions,  \* the stored definitions, each the sequence of its step types
  Profiles,     \* rows of profiles
  NoProfile,    \* the run is not scoped to a profile
  NoRun,        \* the thread works on no run
  Threads,      \* request slots of the thread pool, which is bounded
  MaxCrashes    \* bound on the deaths of the process

\* The step types, and those of an approval whose prompt, or a required artifact
\* whose kind, the database refuses (TypeOf of module Definitions).
StepTypes == {"note", "require_artifact", "approval", "refused_prompt", "refused_kind"}

ApprovalTypes == {"approval", "refused_prompt"}

ASSUME WorkflowAssumption ==
  /\ Definitions \subseteq Seq(StepTypes) \ {<<>>}
  /\ NoProfile \notin Profiles
  /\ NoRun \notin Runs
  /\ IsFiniteSet(Threads)
  /\ MaxCrashes \in Nat

VARIABLES
  runStatus,   \* workflow_runs.status; "absent" before the insert
  runIndex,    \* workflow_runs.current_step_index + 1
  runDef,      \* the run's definition
  runProfile,  \* workflow_runs.profile_id
  stepStatus,  \* workflow_step_runs.status, per run and position
  approval,    \* approvals.status, per run and position; "none": no row
  evidence,    \* profiles that have an artifact of the required kind
  pc,          \* where each thread is
  job,         \* the run it works on
  at,          \* position of the approval it decides, 0 when it starts a run
  verdict,     \* the decision it was sent
  memStatus,   \* the run's status as its database session holds it
  memIndex,    \* likewise its runIndex
  memSteps,    \* likewise the statuses of its steps
  crashes      \* deaths of the process so far

runVars    == <<runStatus, runIndex, runDef, runProfile>>
rowVars    == <<runVars, stepStatus, approval, evidence>>
memVars    == <<memStatus, memIndex, memSteps>>
threadVars == <<pc, job, at, verdict, memVars>>
vars       == <<rowVars, threadVars, crashes>>

-----------------------------------------------------------------------------

Verdicts == {"approved", "rejected"}

RunStates      == {"absent", "running", "waiting_approval", "succeeded", "failed"}
StepStates     == {"pending", "waiting_approval", "succeeded", "failed"}
ApprovalStates == {"none", "pending"} \cup Verdicts

PCs == {"idle", "loadrun", "loadstep", "decide",
        "loadsteps", "loop", "found", "missing", "asked", "ask"}

WorkflowTypeOK ==
  /\ runStatus \in [Runs -> RunStates]
  /\ runIndex \in [Runs -> Nat]
  /\ runDef \in [Runs -> Definitions \cup {<<>>}]
  /\ runProfile \in [Runs -> Profiles \cup {NoProfile}]
  /\ stepStatus \in [Runs -> Seq(StepStates)]
  /\ approval \in [Runs -> Seq(ApprovalStates)]
  /\ evidence \subseteq Profiles
  /\ pc \in [Threads -> PCs]
  /\ job \in [Threads -> Runs \cup {NoRun}]
  /\ at \in [Threads -> Nat]
  /\ verdict \in [Threads -> Verdicts \cup {"none"}]
  /\ memStatus \in [Threads -> RunStates]
  /\ memIndex \in [Threads -> Nat]
  /\ memSteps \in [Threads -> Seq(StepStates)]
  /\ crashes \in Nat

Init ==
  /\ runStatus = [w \in Runs |-> "absent"]
  /\ runIndex = [w \in Runs |-> 0]
  /\ runDef = [w \in Runs |-> <<>>]
  /\ runProfile = [w \in Runs |-> NoProfile]
  /\ stepStatus = [w \in Runs |-> <<>>]
  /\ approval = [w \in Runs |-> <<>>]
  /\ evidence = {}
  /\ pc = [t \in Threads |-> "idle"]
  /\ job = [t \in Threads |-> NoRun]
  /\ at = [t \in Threads |-> 0]
  /\ verdict = [t \in Threads |-> "none"]
  /\ memStatus = [t \in Threads |-> "absent"]
  /\ memIndex = [t \in Threads |-> 0]
  /\ memSteps = [t \in Threads |-> <<>>]
  /\ crashes = 0

-----------------------------------------------------------------------------
(* The threads and their database sessions.                                *)

\* What an UPDATE leaves in a column whose row holds row now: the assigned
\* value, or nothing is written because this session loaded that very value.
Column(row, loaded, assigned) == IF loaded = assigned THEN row ELSE assigned

\* Thread t goes on at l.
Goto(t, l) == pc' = [pc EXCEPT ![t] = l]

\* Thread t answers its request and its database session is closed.
Answer(t) ==
  /\ pc' = [pc EXCEPT ![t] = "idle"]
  /\ job' = [job EXCEPT ![t] = NoRun]
  /\ at' = [at EXCEPT ![t] = 0]
  /\ verdict' = [verdict EXCEPT ![t] = "none"]
  /\ memStatus' = [memStatus EXCEPT ![t] = "absent"]
  /\ memIndex' = [memIndex EXCEPT ![t] = 0]
  /\ memSteps' = [memSteps EXCEPT ![t] = <<>>]

\* The step the loop of advance is at, and its type.
StepOf(t) == memIndex[t]
AtStep(t, type) ==
  /\ pc[t] = "loop"
  /\ StepOf(t) \in DOMAIN runDef[job[t]]
  /\ runDef[job[t]][StepOf(t)] = type

\* Writes the status of the step the loop is at.
WriteStep(t, status) ==
  stepStatus' = [stepStatus EXCEPT ![job[t]][StepOf(t)] =
                   Column(@, memSteps[t][StepOf(t)], status)]

\* Writes the status of the run.
WriteRun(t, status) ==
  runStatus' = [runStatus EXCEPT ![job[t]] = Column(@, memStatus[t], status)]

-----------------------------------------------------------------------------
(* start_run.                                                              *)

\* The commit of the run and its pending steps; the run is refreshed from the
\* row nobody else knows yet.
StartRun(t, w, def, p) ==
  /\ pc[t] = "idle"
  /\ runStatus[w] = "absent"
  /\ runStatus' = [runStatus EXCEPT ![w] = "running"]
  /\ runIndex' = [runIndex EXCEPT ![w] = 1]
  /\ runDef' = [runDef EXCEPT ![w] = def]
  /\ runProfile' = [runProfile EXCEPT ![w] = p]
  /\ stepStatus' = [stepStatus EXCEPT ![w] = [i \in DOMAIN def |-> "pending"]]
  /\ approval' = [approval EXCEPT ![w] = [i \in DOMAIN def |-> "none"]]
  /\ job' = [job EXCEPT ![t] = w]
  /\ memStatus' = [memStatus EXCEPT ![t] = "running"]
  /\ memIndex' = [memIndex EXCEPT ![t] = 1]
  /\ Goto(t, "loadsteps")
  /\ UNCHANGED <<evidence, at, verdict, memSteps, crashes>>

-----------------------------------------------------------------------------
(* decide.                                                                 *)

\* Mutant: an approval may be decided again.
DecideBegin_Again(t, w, i, v) ==
  /\ pc[t] = "idle"
  /\ i \in DOMAIN approval[w]
  /\ approval[w][i] # "none"
  /\ job' = [job EXCEPT ![t] = w]
  /\ at' = [at EXCEPT ![t] = i]
  /\ verdict' = [verdict EXCEPT ![t] = v]
  /\ Goto(t, "loadrun")
  /\ UNCHANGED <<rowVars, memVars, crashes>>

\* The endpoint loads the approval; decide tests the status it loaded and
\* answers 409 unless it is pending.
DecideBegin(t, w, i, v) ==
  /\ pc[t] = "idle"
  /\ i \in DOMAIN approval[w]
  /\ approval[w][i] = "pending"
  /\ job' = [job EXCEPT ![t] = w]
  /\ at' = [at EXCEPT ![t] = i]
  /\ verdict' = [verdict EXCEPT ![t] = v]
  /\ Goto(t, "loadrun")
  /\ UNCHANGED <<rowVars, memVars, crashes>>

DecideLoadRun(t) ==
  /\ pc[t] = "loadrun"
  /\ memStatus' = [memStatus EXCEPT ![t] = runStatus[job[t]]]
  /\ memIndex' = [memIndex EXCEPT ![t] = runIndex[job[t]]]
  /\ Goto(t, "loadstep")
  /\ UNCHANGED <<rowVars, job, at, verdict, memSteps, crashes>>

DecideLoadStep(t) ==
  /\ pc[t] = "loadstep"
  /\ memSteps' = [memSteps EXCEPT ![t] = stepStatus[job[t]]]
  /\ Goto(t, "decide")
  /\ UNCHANGED <<rowVars, job, at, verdict, memStatus, memIndex, crashes>>

\* The decided approval and its step, in one commit with the run.
DecideRows(t, status) ==
  /\ pc[t] = "decide"
  /\ approval' = [approval EXCEPT ![job[t]][at[t]] = verdict[t]]
  /\ stepStatus' = [stepStatus EXCEPT ![job[t]][at[t]] =
                      Column(@, memSteps[t][at[t]], status)]

Reject(t) ==
  /\ verdict[t] = "rejected"
  /\ DecideRows(t, "failed")
  /\ WriteRun(t, "failed")
  /\ Answer(t)
  /\ UNCHANGED <<runIndex, runDef, runProfile, evidence, crashes>>

\* Mutant: the run resumes at the approval's own step.
Approve_SameStep(t) ==
  /\ verdict[t] = "approved"
  /\ DecideRows(t, "succeeded")
  /\ WriteRun(t, "running")
  /\ memStatus' = [memStatus EXCEPT ![t] = "running"]
  /\ memIndex' = [memIndex EXCEPT ![t] = at[t]]
  /\ memSteps' = [memSteps EXCEPT ![t][at[t]] = "succeeded"]
  /\ Goto(t, "loadsteps")
  /\ UNCHANGED <<runIndex, runDef, runProfile, evidence, job, at, verdict, crashes>>

\* The run goes on behind the approval's step.
Approve(t) ==
  /\ verdict[t] = "approved"
  /\ DecideRows(t, "succeeded")
  /\ WriteRun(t, "running")
  /\ runIndex' = [runIndex EXCEPT ![job[t]] = Column(@, memIndex[t], at[t] + 1)]
  /\ memStatus' = [memStatus EXCEPT ![t] = "running"]
  /\ memIndex' = [memIndex EXCEPT ![t] = at[t] + 1]
  /\ memSteps' = [memSteps EXCEPT ![t][at[t]] = "succeeded"]
  /\ Goto(t, "loadsteps")
  /\ UNCHANGED <<runDef, runProfile, evidence, job, at, verdict, crashes>>

-----------------------------------------------------------------------------
(* advance.                                                                *)

\* The query for the step rows; the step decide has loaded stays as it is.
LoadSteps(t) ==
  /\ pc[t] = "loadsteps"
  /\ memSteps' = [memSteps EXCEPT ![t] =
       [i \in DOMAIN stepStatus[job[t]] |->
          IF i = at[t] THEN @[i] ELSE stepStatus[job[t]][i]]]
  /\ Goto(t, "loop")
  /\ UNCHANGED <<rowVars, job, at, verdict, memStatus, memIndex, crashes>>

\* A step that succeeds, and the loop at the next one.
StepSucceeds(t) ==
  /\ WriteStep(t, "succeeded")
  /\ runIndex' = [runIndex EXCEPT ![job[t]] = StepOf(t) + 1]
  /\ memIndex' = [memIndex EXCEPT ![t] = @ + 1]
  /\ memSteps' = [memSteps EXCEPT ![t][StepOf(t)] = "succeeded"]
  /\ Goto(t, "loop")
  /\ UNCHANGED <<runStatus, runDef, runProfile, approval, evidence, job, at,
                 verdict, memStatus, crashes>>

Note(t) == AtStep(t, "note") /\ StepSucceeds(t)

\* The query for the newest artifact of the profile; a run without a profile
\* has none, whatever the kind.
LookForArtifact(t) ==
  /\ \/ AtStep(t, "require_artifact")
     \/ AtStep(t, "refused_kind") /\ runProfile[job[t]] = NoProfile
  /\ Goto(t, IF runProfile[job[t]] \in evidence THEN "found" ELSE "missing")
  /\ UNCHANGED <<rowVars, job, at, verdict, memVars, crashes>>

ArtifactFound(t) == pc[t] = "found" /\ StepSucceeds(t)

\* Mutant: missing evidence is passed over.
FailRun_Bypass(t) == pc[t] = "missing" /\ StepSucceeds(t)

\* _fail_run.
FailRun(t) ==
  /\ pc[t] = "missing"
  /\ WriteStep(t, "failed")
  /\ WriteRun(t, "failed")
  /\ Answer(t)
  /\ UNCHANGED <<runIndex, runDef, runProfile, approval, evidence, crashes>>

\* The query for the step's approval.
LookForApproval(t) ==
  /\ AtStep(t, "approval")
  /\ Goto(t, IF approval[job[t]][StepOf(t)] = "none" THEN "ask" ELSE "asked")
  /\ UNCHANGED <<rowVars, job, at, verdict, memVars, crashes>>

\* Mutant: the run gets the approval's status.
Pause_ApprovalStatus(t) ==
  /\ WriteStep(t, "waiting_approval")
  /\ WriteRun(t, "pending")
  /\ UNCHANGED <<runIndex, runDef, runProfile, evidence, crashes>>

\* The commit that pauses the run.
Pause(t) ==
  /\ WriteStep(t, "waiting_approval")
  /\ WriteRun(t, "waiting_approval")
  /\ UNCHANGED <<runIndex, runDef, runProfile, evidence, crashes>>

\* Mutant: the request for approval is recorded and the loop goes on.
AskApproval_GoesOn(t) ==
  /\ pc[t] = "ask"
  /\ approval[job[t]][StepOf(t)] = "none"
  /\ approval' = [approval EXCEPT ![job[t]][StepOf(t)] = "pending"]
  /\ WriteStep(t, "succeeded")
  /\ runIndex' = [runIndex EXCEPT ![job[t]] = StepOf(t) + 1]
  /\ memIndex' = [memIndex EXCEPT ![t] = @ + 1]
  /\ memSteps' = [memSteps EXCEPT ![t][StepOf(t)] = "succeeded"]
  /\ Goto(t, "loop")
  /\ UNCHANGED <<runStatus, runDef, runProfile, evidence, job, at, verdict,
                 memStatus, crashes>>

\* Mutant: the approval is inserted and the run's status forgotten.
AskApproval_StaysRunning(t) ==
  /\ pc[t] = "ask"
  /\ approval[job[t]][StepOf(t)] = "none"
  /\ approval' = [approval EXCEPT ![job[t]][StepOf(t)] = "pending"]
  /\ WriteStep(t, "waiting_approval")
  /\ Answer(t)
  /\ UNCHANGED <<runVars, evidence, crashes>>

AskApproval(t) ==
  /\ pc[t] = "ask"
  /\ approval[job[t]][StepOf(t)] = "none"
  /\ approval' = [approval EXCEPT ![job[t]][StepOf(t)] = "pending"]
  /\ Pause(t)
  /\ Answer(t)

\* Another thread has inserted the step's approval since: step_run_id is
\* unique, the commit is rolled back and the request answers 500.
AskTwice(t) ==
  /\ pc[t] = "ask"
  /\ approval[job[t]][StepOf(t)] # "none"
  /\ Answer(t)
  /\ UNCHANGED <<rowVars, crashes>>

\* The step had its approval: it is not asked for again, whatever its status.
AskedBefore(t) ==
  /\ pc[t] = "asked"
  /\ Pause(t)
  /\ Answer(t)
  /\ UNCHANGED approval

\* Step i of w makes advance raise: the database refuses the INSERT with its
\* prompt, or the query with its kind.
Raises(w, i) ==
  \/ runDef[w][i] = "refused_prompt"
  \/ runDef[w][i] = "refused_kind" /\ runProfile[w] # NoProfile

\* Nobody handles the exception: the session is closed, the request answers 500,
\* and the run stays as the last commit left it.
StepRaises(t) ==
  /\ pc[t] = "loop"
  /\ StepOf(t) \in DOMAIN runDef[job[t]]
  /\ Raises(job[t], StepOf(t))
  /\ Answer(t)
  /\ UNCHANGED <<rowVars, crashes>>

\* The loop is over.
FinishRun(t) ==
  /\ pc[t] = "loop"
  /\ StepOf(t) > Len(runDef[job[t]])
  /\ WriteRun(t, "succeeded")
  /\ Answer(t)
  /\ UNCHANGED <<runIndex, runDef, runProfile, stepStatus, approval, evidence, crashes>>

-----------------------------------------------------------------------------
(* The rest of the system.                                                 *)

\* capture_evidence commits an artifact.  Artifacts are never deleted.
Capture(p) ==
  /\ evidence' = evidence \cup {p}
  /\ UNCHANGED <<runVars, stepStatus, approval, threadVars, crashes>>

\* The process dies with its threads.  Nothing resumes a run at startup.
Crash ==
  /\ crashes < MaxCrashes
  /\ crashes' = crashes + 1
  /\ pc' = [t \in Threads |-> "idle"]
  /\ job' = [t \in Threads |-> NoRun]
  /\ at' = [t \in Threads |-> 0]
  /\ verdict' = [t \in Threads |-> "none"]
  /\ memStatus' = [t \in Threads |-> "absent"]
  /\ memIndex' = [t \in Threads |-> 0]
  /\ memSteps' = [t \in Threads |-> <<>>]
  /\ UNCHANGED rowVars

-----------------------------------------------------------------------------

Request(t) ==
  \E w \in Runs :
    \/ \E def \in Definitions, p \in Profiles \cup {NoProfile} : StartRun(t, w, def, p)
    \/ \E i \in DOMAIN approval[w], v \in Verdicts : DecideBegin(t, w, i, v)

\* The steps of a request that has begun.
ThreadStep(t) ==
  \/ DecideLoadRun(t) \/ DecideLoadStep(t) \/ Reject(t) \/ Approve(t)
  \/ LoadSteps(t) \/ Note(t)
  \/ LookForArtifact(t) \/ ArtifactFound(t) \/ FailRun(t)
  \/ LookForApproval(t) \/ AskApproval(t) \/ AskTwice(t) \/ AskedBefore(t)
  \/ StepRaises(t) \/ FinishRun(t)

Next ==
  \/ \E t \in Threads : Request(t) \/ ThreadStep(t)
  \/ \E p \in Profiles : Capture(p)
  \/ Crash

Spec == Init /\ [][Next]_vars

\* Threads are scheduled.  Nobody has to send a request or capture evidence.
Fairness == \A t \in Threads : WF_vars(ThreadStep(t))

FairSpec == Spec /\ Fairness
=============================================================================
