----------------------------- MODULE GateProofs -----------------------------
(***************************************************************************)
(* Proofs about workflow runs on which one request works at a time, for    *)
(* every set of definitions, runs and threads and any number of crashes:   *)
(* the rows implement ApprovalGate, and a run that waits can be resumed.   *)
(* Neither holds when two requests decide one approval at the same time.   *)
(***************************************************************************)
EXTENDS WorkflowProofs

\* No two requests work on one run.
OneAtATime ==
  \A t, u \in Threads :
    pc[t] # "idle" /\ pc[u] # "idle" /\ job[t] = job[u] => t = u

-----------------------------------------------------------------------------
(* The inductive invariant.                                                *)

\* The rows of a run agree: it waits exactly for its one pending approval,
\* which is that of its current step, and a rejection has ended it.
RowsAgree(w) ==
  /\ runStatus[w] = "waiting_approval" =>
       /\ runIndex[w] \in DOMAIN approval[w]
       /\ approval[w][runIndex[w]] = "pending"
  /\ \A i \in DOMAIN approval[w] :
       /\ approval[w][i] = "pending" =>
            runStatus[w] = "waiting_approval" /\ runIndex[w] = i
       /\ approval[w][i] = "rejected" => runStatus[w] = "failed"

\* What a deciding thread has loaded is what the rows hold.
DecidesFresh(t) ==
  pc[t] \in DecidePCs =>
    /\ approval[job[t]][at[t]] = "pending"
    /\ pc[t] \in {"loadstep", "decide"} =>
         memStatus[t] = "waiting_approval" /\ memIndex[t] = at[t]

\* An advancing thread works on a running run, and nothing was asked yet from
\* the step it is at.
AdvancesFresh(t) ==
  pc[t] \in AdvancePCs =>
    /\ pc[t] # "asked"
    /\ runStatus[job[t]] = "running"
    /\ memStatus[t] = "running"
    /\ runIndex[job[t]] = memIndex[t]
    /\ \A j \in DOMAIN approval[job[t]] :
         j >= memIndex[t] => approval[job[t]][j] = "none"

SInv ==
  /\ \A w \in Runs : RowsAgree(w)
  /\ \A t \in Threads : DecidesFresh(t) /\ AdvancesFresh(t)

-----------------------------------------------------------------------------
(* Every step preserves it.                                                *)

\* A step of thread t leaves the other threads and the runs other than w alone.
Alone(t, w) ==
  /\ \A u \in Threads \ {t} :
       /\ pc'[u] = pc[u] /\ job'[u] = job[u] /\ at'[u] = at[u]
       /\ memStatus'[u] = memStatus[u] /\ memIndex'[u] = memIndex[u]
  /\ \A x \in Runs \ {w} :
       /\ runStatus'[x] = runStatus[x]
       /\ runIndex'[x] = runIndex[x]
       /\ approval'[x] = approval[x]

\* The run a thread works on, before or after its step.
WorksOn(t, w) ==
  \/ pc[t] # "idle" /\ job[t] = w
  \/ pc'[t] # "idle" /\ job'[t] = w

\* With one request at a time, a step has to restore the invariant for its own
\* run and thread only.
LEMMA OwnRunSuffices ==
  ASSUME WInv, SInv, OneAtATime, OneAtATime', NEW t \in Threads, NEW w \in Runs,
         Alone(t, w), WorksOn(t, w),
         RowsAgree(w)', DecidesFresh(t)', AdvancesFresh(t)'
  PROVE  SInv'
<1>1. ASSUME NEW x \in Runs \ {w} PROVE RowsAgree(x)'
  BY DEF SInv, RowsAgree, Alone
<1>2. ASSUME NEW u \in Threads \ {t} PROVE DecidesFresh(u)' /\ AdvancesFresh(u)'
  <2>1. CASE pc[u] = "idle"
    BY <2>1 DEF Alone, DecidesFresh, AdvancesFresh, DecidePCs, AdvancePCs
  <2>2. CASE pc[u] # "idle"
    <3>1. job[u] \in Runs \ {w}
      BY <2>2 DEF OneAtATime, WorksOn, Alone, WInv, WRest, JobsStored
    <3> QED
      BY <3>1 DEF SInv, Alone, DecidesFresh, AdvancesFresh
  <2> QED
    BY <2>1, <2>2
<1> QED
  BY <1>1, <1>2 DEF SInv

\* Handing over from commit to commit keeps rows and threads in step.
LEMMA SequentialStays ==
  ASSUME WInv, SInv, OneAtATime, OneAtATime', [Next]_vars PROVE SInv'
<1> DEFINE Own(t, w) == /\ Alone(t, w) /\ WorksOn(t, w) /\ RowsAgree(w)'
                        /\ DecidesFresh(t)' /\ AdvancesFresh(t)'
<1> USE DEF Goto, Alone, WorksOn, RowsAgree, DecidesFresh, AdvancesFresh, DecidePCs,
            AdvancePCs, rowVars, runVars, memVars, threadVars, StepOf
<1>k. /\ RowTypes /\ ThreadTypes /\ StepTypesOK /\ MemTypes
      /\ \A t \in Threads : pc[t] # "idle" => job[t] \in Runs
  BY Known
<1> USE DEF RowTypes, ThreadTypes, StepTypesOK, MemTypes
<1>d. \A t \in Threads : pc[t] \in DecidePCs =>
        /\ at[t] \in DOMAIN approval[job[t]] /\ at[t] \in Nat
        /\ \A j \in DOMAIN approval[job[t]] : j > at[t] => approval[job[t]][j] = "none"
  <2> SUFFICES ASSUME NEW t \in Threads, pc[t] \in DecidePCs,
                      NEW j \in DOMAIN approval[job[t]], j > at[t],
                      approval[job[t]][j] # "none"
               PROVE  FALSE
    BY <1>k, Known
  <2>1. /\ job[t] \in Runs /\ at[t] \in DOMAIN approval[job[t]]
        /\ approval[job[t]][at[t]] = "pending"
    BY <1>k, Known DEF SInv
  <2>2. runDef[job[t]][at[t]] = "approval" /\ DecidedBefore(job[t], j)
    BY <2>1 DEF WInv, WRest, AskedInOrder
  <2> QED
    BY <1>k, <2>1, <2>2 DEF DecidedBefore, Verdicts, ApprovalTypes
<1>i. \A w \in Runs : \A i \in DOMAIN approval[w] : i \in Nat
  BY <1>k, LenProperties
<1>r. /\ \A w \in Runs : RowsAgree(w)
      /\ \A t \in Threads : DecidesFresh(t) /\ AdvancesFresh(t)
  BY DEF SInv
<1>e. \A w \in Runs : DOMAIN approval[w] = DOMAIN runDef[w]
  BY Known
<1>a. ASSUME NEW t \in Threads, NEW w \in Runs, NEW def \in Definitions,
             NEW p \in Profiles \cup {NoProfile}, StartRun(t, w, def, p)
      PROVE  Own(t, w)
  BY <1>k, <1>a DEF StartRun
<1>b. ASSUME NEW t \in Threads, NEW w \in Runs, NEW i \in DOMAIN approval[w],
             NEW v \in Verdicts, DecideBegin(t, w, i, v)
      PROVE  Own(t, w)
  BY <1>k, <1>r, <1>b DEF DecideBegin
<1>1. ASSUME NEW t \in Threads, NEW w \in Runs, job[t] = w, DecideLoadRun(t) PROVE Own(t, w)
  BY <1>k, <1>r, <1>d, <1>1 DEF DecideLoadRun
<1>2. ASSUME NEW t \in Threads, NEW w \in Runs, job[t] = w, DecideLoadStep(t) PROVE Own(t, w)
  BY <1>k, <1>r, <1>2 DEF DecideLoadStep
<1>3. ASSUME NEW t \in Threads, NEW w \in Runs, job[t] = w, Reject(t) PROVE Own(t, w)
  BY <1>k, <1>r, <1>d, <1>3 DEF Reject, DecideRows, WriteRun, Column, Answer
<1>4. ASSUME NEW t \in Threads, NEW w \in Runs, job[t] = w, Approve(t) PROVE Own(t, w)
  BY <1>k, <1>r, <1>d, <1>i, <1>4 DEF Approve, DecideRows, WriteRun, Column
<1>5. ASSUME NEW t \in Threads, NEW w \in Runs, job[t] = w, LoadSteps(t) PROVE Own(t, w)
  BY <1>k, <1>r, <1>5 DEF LoadSteps
<1>6. ASSUME NEW t \in Threads, NEW w \in Runs, job[t] = w, pc[t] \in {"loop", "found"}, StepSucceeds(t)
      PROVE  Own(t, w)
  BY <1>k, <1>r, <1>i, <1>6 DEF StepSucceeds
<1>7. ASSUME NEW t \in Threads, NEW w \in Runs, job[t] = w, LookForArtifact(t) PROVE Own(t, w)
  BY <1>k, <1>r, <1>7 DEF LookForArtifact, AtStep
<1>9. ASSUME NEW t \in Threads, NEW w \in Runs, job[t] = w, FailRun(t) PROVE Own(t, w)
  BY <1>k, <1>r, <1>9 DEF FailRun, WriteRun, Column, Answer
<1>10. ASSUME NEW t \in Threads, NEW w \in Runs, job[t] = w, LookForApproval(t) PROVE Own(t, w)
  BY <1>k, <1>r, <1>e, <1>10 DEF LookForApproval, AtStep
<1>11. ASSUME NEW t \in Threads, NEW w \in Runs, job[t] = w, AskApproval(t) PROVE Own(t, w)
  BY <1>k, <1>r, <1>i, <1>11, Known DEF AskApproval, Pause, WriteRun, Column, Answer
<1>12. ASSUME NEW t \in Threads, NEW w \in Runs, job[t] = w, AskTwice(t) PROVE Own(t, w)
  BY <1>k, <1>r, <1>12 DEF AskTwice, Answer
<1>13. ASSUME NEW t \in Threads, AskedBefore(t) PROVE FALSE
  BY <1>r, <1>13 DEF AskedBefore
<1>14. ASSUME NEW t \in Threads, NEW w \in Runs, job[t] = w, FinishRun(t) PROVE Own(t, w)
  BY <1>k, <1>r, <1>14 DEF FinishRun, WriteRun, Column, Answer
<1>15. ASSUME NEW t \in Threads, NEW w \in Runs, job[t] = w, StepRaises(t) PROVE Own(t, w)
  BY <1>k, <1>r, <1>15 DEF StepRaises, Answer
<1>c. CASE Crash
  BY <1>r, <1>c DEF Crash, SInv
<1>u. CASE (\E p \in Profiles : Capture(p)) \/ UNCHANGED vars
  BY <1>r, <1>u DEF Capture, vars, SInv
<1>n. ASSUME NEW t \in Threads, ThreadStep(t) PROVE \E w \in Runs : Own(t, w)
  <2>1. pc[t] # "idle"
    BY <1>n DEF ThreadStep, DecideLoadRun, DecideLoadStep, Reject, Approve, DecideRows,
       LoadSteps, Note, ArtifactFound, AtStep, LookForArtifact, FailRun,
       LookForApproval, AskApproval, AskTwice, AskedBefore, StepRaises, FinishRun
  <2>2. PICK w \in Runs : job[t] = w
    BY <1>k, <2>1
  <2>3. Note(t) \/ ArtifactFound(t) => pc[t] \in {"loop", "found"} /\ StepSucceeds(t)
    BY DEF Note, ArtifactFound, AtStep
  <2> HIDE DEF Own
  <2>4. Own(t, w)
    BY <1>n, <2>2, <2>3, <1>1, <1>2, <1>3, <1>4, <1>5, <1>6, <1>7, <1>9, <1>10, <1>11,
       <1>12, <1>13, <1>14, <1>15 DEF ThreadStep
  <2> QED
    BY <2>4
<1>q. ASSUME NEW t \in Threads, NEW w \in Runs, Own(t, w) PROVE SInv'
  <2> HIDE DEF Alone, WorksOn, RowsAgree, DecidesFresh, AdvancesFresh
  <2> QED
    BY <1>q, OwnRunSuffices
<1> QED
  <2> HIDE DEF Own
  <2> QED
    BY <1>a, <1>b, <1>n, <1>q, <1>c, <1>u DEF Next, Request

\* Started from the empty database, rows and threads stay in step.
LEMMA SequentialInvariance == Spec /\ []OneAtATime => [](WInv /\ SInv)
<1>1. Init => SInv
  BY DEF Init, SInv, RowsAgree, DecidesFresh, AdvancesFresh, DecidePCs, AdvancePCs
<1> QED
  BY <1>1, SequentialStays, WorkflowInvariance, PTL DEF Spec

-----------------------------------------------------------------------------
(* The theorems.                                                           *)

\* advance asks for the approval in the commit that pauses the run, and decide
\* answers it in the commit that resumes or ends it: a run that waits has a
\* pending approval for its current step, wherever the process died before.
THEOREM WaitingCanResumeHolds == Spec /\ []OneAtATime => []WaitingCanResume
<1>1. SInv => WaitingCanResume
  BY DEF SInv, RowsAgree, WaitingCanResume
<1> QED
  BY <1>1, SequentialInvariance, PTL

\* A run that is running has no pending and no rejected approval.
LEMMA RunningIsClear ==
  ASSUME WInv, SInv, NEW w \in Runs, runStatus[w] = "running"
  PROVE  Gate!Clear(w)
<1>1. approval[w] \in Seq(ApprovalStates)
  BY DEF WInv, WorkflowTypeOK
<1> QED
  BY <1>1 DEF SInv, RowsAgree, Gate!Clear, ApprovalStates, Verdicts

\* start_run, decide and advance implement ApprovalGate for every definition
\* validate_definition lets pass (at most 50 steps): each of their commits is a
\* step of the gate or changes neither the run's status nor its approvals.
THEOREM RunsImplementGateHolds ==
  ASSUME \A def \in Definitions : Len(def) <= 50
  PROVE  Spec /\ []OneAtATime => RunsImplementGate
<1>1. Init => Gate!Init
  BY DEF Init, Gate!Init
<1>2. ASSUME WInv, SInv, [Next]_vars
      PROVE  Gate!Next \/ UNCHANGED <<runStatus, approval>>
  <2> DEFINE Goal == Gate!Next \/ UNCHANGED <<runStatus, approval>>
  <2>k. /\ RowTypes /\ ThreadTypes /\ StepTypesOK /\ MemTypes
        /\ \A t \in Threads : pc[t] # "idle" => job[t] \in Runs
    BY <1>2, Known
  <2>r. /\ \A t \in Threads : DecidesFresh(t) /\ AdvancesFresh(t)
        /\ \A w \in Runs : RowsAgree(w)
    BY <1>2 DEF SInv
  <2>a. ASSUME NEW t \in Threads, NEW w \in Runs, NEW def \in Definitions,
               NEW p \in Profiles \cup {NoProfile}, StartRun(t, w, def, p)
        PROVE  Goal
    <3>1. Len(def) \in 1..50 /\ DOMAIN def = 1..Len(def)
      <4>1. def \in Seq(StepTypes) /\ def # <<>>
        BY WorkflowAssumption DEF WorkflowAssumption
      <4>2. Len(def) \in Nat /\ DOMAIN def = 1..Len(def) /\ Len(def) # 0
        BY <4>1, LenProperties, EmptySeq
      <4>3. Len(def) <= 50
        OBVIOUS
      <4>4. \A n \in Nat : n # 0 /\ n <= 50 => n \in 1..50
        OBVIOUS
      <4> QED
        BY <4>2, <4>3, <4>4, Zenon
    <3>2. Gate!Begin(w, Len(def))
      BY <2>a, <3>1 DEF StartRun, Gate!Begin
    <3> QED
      BY <3>1, <3>2 DEF Gate!Next
  <2>b. ASSUME NEW t \in Threads, NEW w \in Runs, NEW i \in DOMAIN approval[w],
               NEW v \in Verdicts, DecideBegin(t, w, i, v)
        PROVE  Goal
    BY <2>b DEF DecideBegin, rowVars, runVars
  <2>3. ASSUME NEW t \in Threads, Reject(t) PROVE Goal
    <3>1. /\ job[t] \in Runs /\ at[t] \in DOMAIN approval[job[t]]
          /\ approval[job[t]][at[t]] = "pending"
          /\ memStatus[t] = "waiting_approval"
          /\ runStatus[job[t]] = "waiting_approval"
      BY <1>2, <2>k, <2>r, <2>3, Known
      DEF Reject, DecideRows, DecidesFresh, DecidePCs, RowsAgree
    <3>2. Gate!Reject(job[t], at[t])
      BY <3>1, <2>3 DEF Reject, DecideRows, WriteRun, Column, Gate!Reject
    <3> QED
      BY <3>1, <3>2 DEF Gate!Next
  <2>4. ASSUME NEW t \in Threads, Approve(t) PROVE Goal
    <3>1. /\ job[t] \in Runs /\ at[t] \in DOMAIN approval[job[t]]
          /\ approval[job[t]][at[t]] = "pending"
          /\ memStatus[t] = "waiting_approval"
          /\ runStatus[job[t]] = "waiting_approval"
      BY <1>2, <2>k, <2>r, <2>4, Known
      DEF Approve, DecideRows, DecidesFresh, DecidePCs, RowsAgree
    <3>2. Gate!Approve(job[t], at[t])
      BY <3>1, <2>4 DEF Approve, DecideRows, WriteRun, Column, Gate!Approve
    <3> QED
      BY <3>1, <3>2 DEF Gate!Next
  <2>9. ASSUME NEW t \in Threads, FailRun(t) PROVE Goal
    <3>1. job[t] \in Runs /\ runStatus[job[t]] = "running" /\ memStatus[t] = "running"
      BY <2>k, <2>r, <2>9 DEF FailRun, AdvancesFresh, AdvancePCs
    <3>2. Gate!Fail(job[t])
      BY <3>1, <2>9 DEF FailRun, WriteRun, Column, Gate!Fail
    <3> QED
      BY <3>1, <3>2 DEF Gate!Next
  <2>11. ASSUME NEW t \in Threads, AskApproval(t) PROVE Goal
    <3>1. /\ job[t] \in Runs /\ runStatus[job[t]] = "running" /\ memStatus[t] = "running"
          /\ \A j \in DOMAIN approval[job[t]] :
               j >= memIndex[t] => approval[job[t]][j] = "none"
          /\ memIndex[t] \in DOMAIN approval[job[t]]
      BY <1>2, <2>k, <2>r, <2>11, Known DEF AskApproval, AdvancesFresh, AdvancePCs, StepOf
    <3>2. Gate!Clear(job[t])
      BY <1>2, <3>1, RunningIsClear
    <3>3. \A j \in DOMAIN approval[job[t]] : j > memIndex[t] => j >= memIndex[t]
      BY <2>k, <3>1, LenProperties DEF StepTypesOK, MemTypes
    <3>4. Gate!Ask(job[t], memIndex[t])
      BY <3>1, <3>2, <3>3, <2>11
      DEF AskApproval, Pause, WriteRun, Column, StepOf, Gate!Ask
    <3> QED
      BY <3>1, <3>4 DEF Gate!Next
  <2>13. ASSUME NEW t \in Threads, AskedBefore(t) PROVE FALSE
    BY <2>r, <2>13 DEF AskedBefore, AdvancesFresh, AdvancePCs
  <2>14. ASSUME NEW t \in Threads, FinishRun(t) PROVE Goal
    <3>1. job[t] \in Runs /\ runStatus[job[t]] = "running" /\ memStatus[t] = "running"
      BY <2>k, <2>r, <2>14 DEF FinishRun, AdvancesFresh, AdvancePCs
    <3>2. Gate!Clear(job[t])
      BY <1>2, <3>1, RunningIsClear
    <3>3. Gate!Succeed(job[t])
      BY <3>1, <3>2, <2>14 DEF FinishRun, WriteRun, Column, Gate!Succeed
    <3> QED
      BY <3>1, <3>3 DEF Gate!Next
  <2>s. CASE \/ \E t \in Threads :
                  \/ DecideLoadRun(t) \/ DecideLoadStep(t) \/ LoadSteps(t) \/ Note(t)
                  \/ LookForArtifact(t) \/ ArtifactFound(t) \/ LookForApproval(t)
                  \/ AskTwice(t) \/ StepRaises(t)
             \/ \E p \in Profiles : Capture(p)
             \/ Crash
             \/ UNCHANGED vars
    BY <2>s DEF DecideLoadRun, DecideLoadStep, LoadSteps, Note, LookForArtifact,
       ArtifactFound, LookForApproval, AskTwice, StepRaises, StepSucceeds, Capture, Crash,
       vars, rowVars, runVars
  <2> QED
    BY <1>2, <2>a, <2>b, <2>3, <2>4, <2>9, <2>11, <2>13, <2>14, <2>s
    DEF Next, Request, ThreadStep
<1> QED
  BY <1>1, <1>2, SequentialInvariance, PTL DEF Spec, RunsImplementGate, Gate!Spec
=============================================================================
