----------------------------- MODULE WorkflowProofs -----------------------------
(***************************************************************************)
(* Proofs about WorkflowEngine for every set of definitions, runs and      *)
(* threads: whatever requests race, a step is executed only behind decided *)
(* approvals, and evidence is never passed over.  The inductive invariant  *)
(* says what a thread between two of its commits may still assume, and     *)
(* that the approvals of a run are asked for in the order of its steps.    *)
(***************************************************************************)
EXTENDS WorkflowProperties, SequenceUpdates, FunctionTheorems, FiniteSetTheorems, TLAPS

-----------------------------------------------------------------------------
(* The inductive invariant.                                                *)

\* The approval steps of w before position n are decided.
DecidedBefore(w, n) ==
  \A j \in DOMAIN approval[w] :
    j < n /\ runDef[w][j] \in ApprovalTypes => approval[w][j] \in Verdicts

\* A run has one step row and at most one approval per step of its definition;
\* before the insert it has none.
SameSteps ==
  \A w \in Runs :
    /\ runStatus[w] = "absent" => runDef[w] = <<>>
    /\ DOMAIN stepStatus[w] = DOMAIN runDef[w]
    /\ DOMAIN approval[w] = DOMAIN runDef[w]

\* Approvals belong to approval steps and are asked for in order.
AskedInOrder ==
  \A w \in Runs : \A i \in DOMAIN approval[w] :
    approval[w][i] # "none" => runDef[w][i] = "approval" /\ DecidedBefore(w, i)

\* Step rows are touched in order, behind decided approvals.
StepsBehindGates ==
  \A w \in Runs : \A i \in DOMAIN stepStatus[w] :
    stepStatus[w][i] # "pending" => DecidedBefore(w, i)

DecidePCs == {"loadrun", "loadstep", "decide"}

\* A thread works on a stored run; an idle one decides no approval.
JobsStored ==
  \A t \in Threads :
    /\ pc[t] # "idle" => job[t] \in Runs /\ runStatus[job[t]] # "absent"
    /\ pc[t] = "idle" => at[t] = 0

\* A deciding thread has an approval that was asked for, and its step.
DecidersKnow ==
  \A t \in Threads :
    pc[t] \in DecidePCs =>
      /\ verdict[t] \in Verdicts
      /\ at[t] \in DOMAIN approval[job[t]]
      /\ approval[job[t]][at[t]] # "none"
      /\ pc[t] = "decide" => DOMAIN memSteps[t] = DOMAIN stepStatus[job[t]]

\* An advancing thread is behind decided approvals only; between query and
\* commit it is at a step of the type it asked about.
AdvancersKnow ==
  \A t \in Threads :
    /\ pc[t] \in AdvancePCs =>
         StepOf(t) \in Nat \ {0} /\ DecidedBefore(job[t], StepOf(t))
    /\ pc[t] = "loadsteps" => at[t] = 0 \/ at[t] \in DOMAIN memSteps[t]
    /\ pc[t] \in {"found", "missing"} =>
         /\ StepOf(t) \in DOMAIN runDef[job[t]]
         /\ runDef[job[t]][StepOf(t)] \in {"require_artifact", "refused_kind"}
    /\ pc[t] = "found" => runProfile[job[t]] \in evidence
    /\ pc[t] \in {"ask", "asked"} =>
         /\ StepOf(t) \in DOMAIN runDef[job[t]]
         /\ runDef[job[t]][StepOf(t)] = "approval"

WRest ==
  /\ SameSteps
  /\ AskedInOrder
  /\ StepsBehindGates
  /\ JobsStored
  /\ DecidersKnow
  /\ AdvancersKnow
  /\ EvidenceIsReal

WInv == WorkflowTypeOK /\ WRest

-----------------------------------------------------------------------------
(* Types.                                                                  *)

RowTypes ==
  /\ runStatus \in [Runs -> RunStates]
  /\ runIndex \in [Runs -> Nat]
  /\ runDef \in [Runs -> Definitions \cup {<<>>}]
  /\ runProfile \in [Runs -> Profiles \cup {NoProfile}]
  /\ evidence \subseteq Profiles

ThreadTypes ==
  /\ pc \in [Threads -> PCs]
  /\ job \in [Threads -> Runs \cup {NoRun}]
  /\ at \in [Threads -> Nat]
  /\ verdict \in [Threads -> Verdicts \cup {"none"}]
  /\ crashes \in Nat

StepTypesOK ==
  /\ stepStatus \in [Runs -> Seq(StepStates)]
  /\ approval \in [Runs -> Seq(ApprovalStates)]

MemTypes ==
  /\ memStatus \in [Threads -> RunStates]
  /\ memIndex \in [Threads -> Nat]
  /\ memSteps \in [Threads -> Seq(StepStates)]

\* What the proofs of the single steps need of the invariant.
LEMMA Known ==
  ASSUME WInv
  PROVE  /\ RowTypes /\ ThreadTypes /\ StepTypesOK /\ MemTypes
         /\ \A t \in Threads : pc[t] # "idle" => job[t] \in Runs
         /\ \A t \in Threads : pc[t] \in DecidePCs =>
              /\ verdict[t] \in Verdicts
              /\ at[t] \in DOMAIN approval[job[t]]
              /\ at[t] \in DOMAIN stepStatus[job[t]]
         /\ \A t \in Threads : pc[t] \in {"found", "missing", "ask", "asked"} =>
              /\ StepOf(t) \in DOMAIN approval[job[t]]
              /\ StepOf(t) \in DOMAIN stepStatus[job[t]]
         /\ \A w \in Runs : /\ DOMAIN stepStatus[w] = DOMAIN runDef[w]
                            /\ DOMAIN approval[w] = DOMAIN runDef[w]
BY DEF WInv, WRest, WorkflowTypeOK, RowTypes, ThreadTypes, StepTypesOK, MemTypes,
       JobsStored, DecidersKnow, AdvancersKnow, SameSteps, DecidePCs

\* The columns of a run, as both endpoints write them.
LEMMA RowsTyped == ASSUME WInv, [Next]_vars PROVE RowTypes'
<1> DEFINE Goal == RowTypes'
<1> USE DEF RunStates, Goto, runVars, rowVars, threadVars, memVars, StepOf,
            DecidePCs
<1>0. /\ RowTypes /\ ThreadTypes /\ MemTypes
      /\ \A t \in Threads : pc[t] # "idle" => job[t] \in Runs
  BY Known
<1> USE DEF RowTypes, ThreadTypes, MemTypes
<1>a. ASSUME NEW t \in Threads, NEW w \in Runs, NEW def \in Definitions,
             NEW p \in Profiles \cup {NoProfile}, StartRun(t, w, def, p)
      PROVE  Goal
  BY <1>0, <1>a DEF StartRun
<1>b. ASSUME NEW t \in Threads, NEW w \in Runs, NEW i \in DOMAIN approval[w],
             NEW v \in Verdicts, DecideBegin(t, w, i, v)
      PROVE  Goal
  BY <1>0, <1>b DEF DecideBegin
<1>1. ASSUME NEW t \in Threads, DecideLoadRun(t) PROVE Goal
  BY <1>0, <1>1 DEF DecideLoadRun
<1>2. ASSUME NEW t \in Threads, DecideLoadStep(t) PROVE Goal
  BY <1>0, <1>2 DEF DecideLoadStep
<1>3. ASSUME NEW t \in Threads, Reject(t) PROVE Goal
  BY <1>0, <1>3 DEF Reject, DecideRows, WriteRun, Column, Answer
<1>4. ASSUME NEW t \in Threads, Approve(t) PROVE Goal
  BY <1>0, <1>4 DEF Approve, DecideRows, WriteRun, Column
<1>5. ASSUME NEW t \in Threads, LoadSteps(t) PROVE Goal
  BY <1>0, <1>5 DEF LoadSteps
<1>6. ASSUME NEW t \in Threads, Note(t) PROVE Goal
  BY <1>0, <1>6 DEF Note, AtStep, StepSucceeds, WriteStep, Column
<1>7. ASSUME NEW t \in Threads, LookForArtifact(t) PROVE Goal
  BY <1>0, <1>7 DEF LookForArtifact, AtStep
<1>8. ASSUME NEW t \in Threads, ArtifactFound(t) PROVE Goal
  BY <1>0, <1>8 DEF ArtifactFound, StepSucceeds, WriteStep, Column
<1>9. ASSUME NEW t \in Threads, FailRun(t) PROVE Goal
  BY <1>0, <1>9 DEF FailRun, WriteStep, WriteRun, Column, Answer
<1>10. ASSUME NEW t \in Threads, LookForApproval(t) PROVE Goal
  BY <1>0, <1>10 DEF LookForApproval, AtStep
<1>11. ASSUME NEW t \in Threads, AskApproval(t) PROVE Goal
  BY <1>0, <1>11 DEF AskApproval, Pause, WriteStep, WriteRun, Column, Answer
<1>12. ASSUME NEW t \in Threads, AskTwice(t) PROVE Goal
  BY <1>0, <1>12 DEF AskTwice, Answer
<1>13. ASSUME NEW t \in Threads, AskedBefore(t) PROVE Goal
  BY <1>0, <1>13 DEF AskedBefore, Pause, WriteStep, WriteRun, Column, Answer
<1>14. ASSUME NEW t \in Threads, FinishRun(t) PROVE Goal
  BY <1>0, <1>14 DEF FinishRun, WriteRun, Column, Answer
<1>15. ASSUME NEW t \in Threads, StepRaises(t) PROVE Goal
  BY <1>0, <1>15 DEF StepRaises, Answer
<1>c. ASSUME NEW p \in Profiles, Capture(p) PROVE Goal
  BY <1>0, <1>c DEF Capture
<1>d. CASE Crash
  BY <1>0, <1>d DEF Crash
<1>e. CASE UNCHANGED vars
  BY <1>0, <1>e DEF vars
<1> QED
  BY <1>1, <1>2, <1>3, <1>4, <1>5, <1>6, <1>7, <1>8, <1>9, <1>10, <1>11,
     <1>12, <1>13, <1>14, <1>15, <1>a, <1>b, <1>c, <1>d, <1>e
  DEF WInv, Next, Request, ThreadStep

\* The control state of the threads.
LEMMA ThreadsTyped == ASSUME WInv, [Next]_vars PROVE ThreadTypes'
<1> DEFINE Goal == ThreadTypes'
<1> USE DEF PCs, Goto, threadVars, rowVars
<1>0. ThreadTypes /\ StepTypesOK
  BY Known
<1> USE DEF ThreadTypes
<1>a. ASSUME NEW t \in Threads, NEW w \in Runs, NEW def \in Definitions,
             NEW p \in Profiles \cup {NoProfile}, StartRun(t, w, def, p)
      PROVE  Goal
  BY <1>0, <1>a DEF StartRun
<1>b. ASSUME NEW t \in Threads, NEW w \in Runs, NEW i \in DOMAIN approval[w],
             NEW v \in Verdicts, DecideBegin(t, w, i, v)
      PROVE  Goal
  <2>1. i \in Nat
    BY <1>0, LenProperties DEF StepTypesOK
  <2> QED
    BY <1>0, <1>b, <2>1 DEF DecideBegin
<1>1. ASSUME NEW t \in Threads, DecideLoadRun(t) PROVE Goal
  BY <1>0, <1>1 DEF DecideLoadRun
<1>2. ASSUME NEW t \in Threads, DecideLoadStep(t) PROVE Goal
  BY <1>0, <1>2 DEF DecideLoadStep
<1>3. ASSUME NEW t \in Threads, Reject(t) PROVE Goal
  BY <1>0, <1>3 DEF Reject, DecideRows, WriteRun, Column, Answer
<1>4. ASSUME NEW t \in Threads, Approve(t) PROVE Goal
  BY <1>0, <1>4 DEF Approve, DecideRows, WriteRun, Column
<1>5. ASSUME NEW t \in Threads, LoadSteps(t) PROVE Goal
  BY <1>0, <1>5 DEF LoadSteps
<1>6. ASSUME NEW t \in Threads, Note(t) PROVE Goal
  BY <1>0, <1>6 DEF Note, AtStep, StepSucceeds, WriteStep, Column
<1>7. ASSUME NEW t \in Threads, LookForArtifact(t) PROVE Goal
  BY <1>0, <1>7 DEF LookForArtifact, AtStep
<1>8. ASSUME NEW t \in Threads, ArtifactFound(t) PROVE Goal
  BY <1>0, <1>8 DEF ArtifactFound, StepSucceeds, WriteStep, Column
<1>9. ASSUME NEW t \in Threads, FailRun(t) PROVE Goal
  BY <1>0, <1>9 DEF FailRun, WriteStep, WriteRun, Column, Answer
<1>10. ASSUME NEW t \in Threads, LookForApproval(t) PROVE Goal
  BY <1>0, <1>10 DEF LookForApproval, AtStep
<1>11. ASSUME NEW t \in Threads, AskApproval(t) PROVE Goal
  BY <1>0, <1>11 DEF AskApproval, Pause, WriteStep, WriteRun, Column, Answer
<1>12. ASSUME NEW t \in Threads, AskTwice(t) PROVE Goal
  BY <1>0, <1>12 DEF AskTwice, Answer
<1>13. ASSUME NEW t \in Threads, AskedBefore(t) PROVE Goal
  BY <1>0, <1>13 DEF AskedBefore, Pause, WriteStep, WriteRun, Column, Answer
<1>14. ASSUME NEW t \in Threads, FinishRun(t) PROVE Goal
  BY <1>0, <1>14 DEF FinishRun, WriteRun, Column, Answer
<1>15. ASSUME NEW t \in Threads, StepRaises(t) PROVE Goal
  BY <1>0, <1>15 DEF StepRaises, Answer
<1>c. ASSUME NEW p \in Profiles, Capture(p) PROVE Goal
  BY <1>0, <1>c DEF Capture
<1>d. CASE Crash
  BY <1>0, <1>d DEF Crash
<1>e. CASE UNCHANGED vars
  BY <1>0, <1>e DEF vars
<1> QED
  BY <1>1, <1>2, <1>3, <1>4, <1>5, <1>6, <1>7, <1>8, <1>9, <1>10, <1>11,
     <1>12, <1>13, <1>14, <1>15, <1>a, <1>b, <1>c, <1>d, <1>e
  DEF WInv, Next, Request, ThreadStep

\* The rows of steps and approvals.
LEMMA StepsTyped == ASSUME WInv, [Next]_vars PROVE StepTypesOK'
<1> DEFINE Goal == StepTypesOK'
<1> USE DEF StepStates, ApprovalStates, Verdicts, runVars, rowVars, threadVars
<1>0. /\ StepTypesOK
      /\ \A t \in Threads : pc[t] # "idle" => job[t] \in Runs
      /\ \A t \in Threads : pc[t] \in DecidePCs =>
           /\ verdict[t] \in Verdicts
           /\ at[t] \in DOMAIN approval[job[t]]
           /\ at[t] \in DOMAIN stepStatus[job[t]]
      /\ \A t \in Threads : pc[t] \in {"found", "missing", "ask", "asked"} =>
           /\ StepOf(t) \in DOMAIN approval[job[t]]
           /\ StepOf(t) \in DOMAIN stepStatus[job[t]]
      /\ \A w \in Runs : DOMAIN stepStatus[w] = DOMAIN runDef[w]
  BY Known
<1>s. ASSUME NEW w \in Runs, NEW i \in DOMAIN stepStatus[w], NEW loaded,
             NEW v \in StepStates
      PROVE  [stepStatus EXCEPT ![w][i] = Column(@, loaded, v)]
               \in [Runs -> Seq(StepStates)]
  <2>1. stepStatus[w] \in Seq(StepStates) /\ stepStatus[w][i] \in StepStates
    BY <1>0, LenProperties, ElementOfSeq DEF StepTypesOK
  <2>2. Column(stepStatus[w][i], loaded, v) \in StepStates
    BY <2>1 DEF Column
  <2>3. [stepStatus[w] EXCEPT ![i] = Column(stepStatus[w][i], loaded, v)]
          \in Seq(StepStates)
    BY <2>1, <2>2, OverwriteInSeq
  <2> QED
    BY <1>0, <2>3 DEF StepTypesOK
<1>p. ASSUME NEW w \in Runs, NEW i, NEW v \in ApprovalStates
      PROVE  [approval EXCEPT ![w][i] = v] \in [Runs -> Seq(ApprovalStates)]
  <2>1. approval[w] \in Seq(ApprovalStates)
    BY <1>0 DEF StepTypesOK
  <2>3. [approval[w] EXCEPT ![i] = v] \in Seq(ApprovalStates)
    BY <2>1, OverwriteInSeq
  <2> QED
    BY <1>0, <2>3 DEF StepTypesOK
<1>a. ASSUME NEW t \in Threads, NEW w \in Runs, NEW def \in Definitions,
             NEW p \in Profiles \cup {NoProfile}, StartRun(t, w, def, p)
      PROVE  Goal
  <2>1. def \in Seq(StepTypes)
    BY WorkflowAssumption
  <2>2. /\ [i \in DOMAIN def |-> "pending"] \in Seq(StepStates)
        /\ [i \in DOMAIN def |-> "none"] \in Seq(ApprovalStates)
    BY <2>1, LenProperties, SeqDef
  <2> QED
    BY <1>0, <1>a, <2>2 DEF StartRun, StepTypesOK
<1>b. ASSUME NEW t \in Threads, NEW w \in Runs, NEW i \in DOMAIN approval[w],
             NEW v \in Verdicts, DecideBegin(t, w, i, v)
      PROVE  Goal
  BY <1>0, <1>b DEF DecideBegin, StepTypesOK
<1>1. ASSUME NEW t \in Threads, DecideLoadRun(t) PROVE Goal
  BY <1>0, <1>1 DEF DecideLoadRun, StepTypesOK
<1>2. ASSUME NEW t \in Threads, DecideLoadStep(t) PROVE Goal
  BY <1>0, <1>2 DEF DecideLoadStep, StepTypesOK
<1>3. ASSUME NEW t \in Threads, Reject(t) PROVE Goal
  <2>1. /\ job[t] \in Runs /\ at[t] \in DOMAIN stepStatus[job[t]]
        /\ verdict[t] \in ApprovalStates
        /\ stepStatus' = [stepStatus EXCEPT ![job[t]][at[t]] =
                            Column(@, memSteps[t][at[t]], "failed")]
        /\ approval' = [approval EXCEPT ![job[t]][at[t]] = verdict[t]]
    BY <1>0, <1>3 DEF Reject, DecideRows, DecidePCs
  <2> QED
    BY <1>s, <1>p, <2>1 DEF StepTypesOK
<1>4. ASSUME NEW t \in Threads, Approve(t) PROVE Goal
  <2>1. /\ job[t] \in Runs /\ at[t] \in DOMAIN stepStatus[job[t]]
        /\ verdict[t] \in ApprovalStates
        /\ stepStatus' = [stepStatus EXCEPT ![job[t]][at[t]] =
                            Column(@, memSteps[t][at[t]], "succeeded")]
        /\ approval' = [approval EXCEPT ![job[t]][at[t]] = verdict[t]]
    BY <1>0, <1>4 DEF Approve, DecideRows, DecidePCs
  <2> QED
    BY <1>s, <1>p, <2>1 DEF StepTypesOK
<1>5. ASSUME NEW t \in Threads, LoadSteps(t) PROVE Goal
  BY <1>0, <1>5 DEF LoadSteps, StepTypesOK
<1>6. ASSUME NEW t \in Threads, Note(t) PROVE Goal
  <2>1. /\ job[t] \in Runs /\ StepOf(t) \in DOMAIN stepStatus[job[t]]
        /\ stepStatus' = [stepStatus EXCEPT ![job[t]][StepOf(t)] =
                            Column(@, memSteps[t][StepOf(t)], "succeeded")]
        /\ approval' = approval
    BY <1>0, <1>6 DEF Note, AtStep, StepSucceeds, WriteStep
  <2> QED
    BY <1>0, <1>s, <1>p, <2>1 DEF StepTypesOK
<1>7. ASSUME NEW t \in Threads, LookForArtifact(t) PROVE Goal
  BY <1>0, <1>7 DEF LookForArtifact, StepTypesOK
<1>8. ASSUME NEW t \in Threads, ArtifactFound(t) PROVE Goal
  <2>1. /\ job[t] \in Runs /\ StepOf(t) \in DOMAIN stepStatus[job[t]]
        /\ stepStatus' = [stepStatus EXCEPT ![job[t]][StepOf(t)] =
                            Column(@, memSteps[t][StepOf(t)], "succeeded")]
        /\ approval' = approval
    BY <1>0, <1>8 DEF ArtifactFound, StepSucceeds, WriteStep
  <2> QED
    BY <1>0, <1>s, <1>p, <2>1 DEF StepTypesOK
<1>9. ASSUME NEW t \in Threads, FailRun(t) PROVE Goal
  <2>1. /\ job[t] \in Runs /\ StepOf(t) \in DOMAIN stepStatus[job[t]]
        /\ stepStatus' = [stepStatus EXCEPT ![job[t]][StepOf(t)] =
                            Column(@, memSteps[t][StepOf(t)], "failed")]
        /\ approval' = approval
    BY <1>0, <1>9 DEF FailRun, WriteStep
  <2> QED
    BY <1>0, <1>s, <1>p, <2>1 DEF StepTypesOK
<1>10. ASSUME NEW t \in Threads, LookForApproval(t) PROVE Goal
  BY <1>0, <1>10 DEF LookForApproval, StepTypesOK
<1>11. ASSUME NEW t \in Threads, AskApproval(t) PROVE Goal
  <2>1. /\ job[t] \in Runs /\ StepOf(t) \in DOMAIN stepStatus[job[t]]
        /\ stepStatus' = [stepStatus EXCEPT ![job[t]][StepOf(t)] =
                            Column(@, memSteps[t][StepOf(t)], "waiting_approval")]
        /\ approval' = [approval EXCEPT ![job[t]][StepOf(t)] = "pending"]
    BY <1>0, <1>11 DEF AskApproval, Pause, WriteStep
  <2> QED
    BY <1>0, <1>s, <1>p, <2>1 DEF StepTypesOK
<1>12. ASSUME NEW t \in Threads, AskTwice(t) PROVE Goal
  BY <1>0, <1>12 DEF AskTwice, StepTypesOK
<1>13. ASSUME NEW t \in Threads, AskedBefore(t) PROVE Goal
  <2>1. /\ job[t] \in Runs /\ StepOf(t) \in DOMAIN stepStatus[job[t]]
        /\ stepStatus' = [stepStatus EXCEPT ![job[t]][StepOf(t)] =
                            Column(@, memSteps[t][StepOf(t)], "waiting_approval")]
        /\ approval' = approval
    BY <1>0, <1>13 DEF AskedBefore, Pause, WriteStep
  <2> QED
    BY <1>0, <1>s, <1>p, <2>1 DEF StepTypesOK
<1>14. ASSUME NEW t \in Threads, FinishRun(t) PROVE Goal
  BY <1>0, <1>14 DEF FinishRun, StepTypesOK
<1>15. ASSUME NEW t \in Threads, StepRaises(t) PROVE Goal
  BY <1>0, <1>15 DEF StepRaises, StepTypesOK
<1>c. ASSUME NEW p \in Profiles, Capture(p) PROVE Goal
  BY <1>0, <1>c DEF Capture, StepTypesOK
<1>d. CASE Crash
  BY <1>0, <1>d DEF Crash, StepTypesOK
<1>e. CASE UNCHANGED vars
  BY <1>0, <1>e DEF vars, StepTypesOK
<1> QED
  BY <1>1, <1>2, <1>3, <1>4, <1>5, <1>6, <1>7, <1>8, <1>9, <1>10, <1>11,
     <1>12, <1>13, <1>14, <1>15, <1>a, <1>b, <1>c, <1>d, <1>e
  DEF WInv, Next, Request, ThreadStep

\* What a database session holds.
LEMMA MemoryTyped == ASSUME WInv, [Next]_vars PROVE MemTypes'
<1> DEFINE Goal == MemTypes'
<1> USE DEF rowVars, threadVars
<1>0. /\ RowTypes /\ StepTypesOK /\ MemTypes /\ ThreadTypes
      /\ \A t \in Threads : pc[t] # "idle" => job[t] \in Runs
      /\ \A t \in Threads :
           pc[t] = "loadsteps" => at[t] = 0 \/ at[t] \in DOMAIN memSteps[t]
  BY Known DEF WInv, WRest, AdvancersKnow
<1>w. ASSUME NEW t \in Threads, NEW i, NEW v \in StepStates
      PROVE  [memSteps EXCEPT ![t][i] = v] \in [Threads -> Seq(StepStates)]
  <2>1. [memSteps[t] EXCEPT ![i] = v] \in Seq(StepStates)
    BY <1>0, OverwriteInSeq DEF MemTypes
  <2> QED
    BY <1>0, <2>1 DEF MemTypes
<1>n. <<>> \in Seq(StepStates) /\ "absent" \in RunStates
  BY EmptySeq DEF RunStates
<1>r. ASSUME NEW t \in Threads, Answer(t) PROVE Goal
  BY <1>0, <1>r, <1>n DEF Answer, MemTypes
<1>a. ASSUME NEW t \in Threads, NEW w \in Runs, NEW def \in Definitions,
             NEW p \in Profiles \cup {NoProfile}, StartRun(t, w, def, p)
      PROVE  Goal
  BY <1>0, <1>a DEF StartRun, MemTypes, RunStates
<1>b. ASSUME NEW t \in Threads, NEW w \in Runs, NEW i \in DOMAIN approval[w],
             NEW v \in Verdicts, DecideBegin(t, w, i, v)
      PROVE  Goal
  BY <1>0, <1>b DEF DecideBegin, MemTypes, memVars
<1>1. ASSUME NEW t \in Threads, DecideLoadRun(t) PROVE Goal
  BY <1>0, <1>1 DEF DecideLoadRun, MemTypes, RowTypes
<1>2. ASSUME NEW t \in Threads, DecideLoadStep(t) PROVE Goal
  BY <1>0, <1>2 DEF DecideLoadStep, MemTypes, StepTypesOK
<1>3. ASSUME NEW t \in Threads, Reject(t) PROVE Goal
  BY <1>3, <1>r DEF Reject
<1>4. ASSUME NEW t \in Threads, Approve(t) PROVE Goal
  BY <1>0, <1>4, <1>w DEF Approve, MemTypes, ThreadTypes, RunStates, StepStates
<1>5. ASSUME NEW t \in Threads, LoadSteps(t) PROVE Goal
  <2> DEFINE steps == [i \in DOMAIN stepStatus[job[t]] |->
                         IF i = at[t] THEN memSteps[t][i] ELSE stepStatus[job[t]][i]]
  <2>1. /\ memSteps' = [memSteps EXCEPT ![t] = steps]
        /\ UNCHANGED <<memStatus, memIndex>>
    BY <1>5 DEF LoadSteps
  <2>2. /\ stepStatus[job[t]] \in Seq(StepStates) /\ memSteps[t] \in Seq(StepStates)
        /\ at[t] = 0 \/ at[t] \in DOMAIN memSteps[t]
    BY <1>0, <1>5 DEF LoadSteps, StepTypesOK, MemTypes
  <2>3. \A i \in DOMAIN stepStatus[job[t]] : i # 0 /\ steps[i] \in StepStates
    BY <2>2, LenProperties, ElementOfSeq
  <2>4. steps \in Seq(StepStates)
    BY <2>2, <2>3, SameDomain
  <2> QED
    BY <1>0, <2>1, <2>4 DEF MemTypes
<1>6. ASSUME NEW t \in Threads, Note(t) PROVE Goal
  BY <1>0, <1>6, <1>w DEF Note, StepSucceeds, MemTypes, StepStates
<1>7. ASSUME NEW t \in Threads, LookForArtifact(t) PROVE Goal
  BY <1>0, <1>7 DEF LookForArtifact, MemTypes, memVars
<1>8. ASSUME NEW t \in Threads, ArtifactFound(t) PROVE Goal
  BY <1>0, <1>8, <1>w DEF ArtifactFound, StepSucceeds, MemTypes, StepStates
<1>9. ASSUME NEW t \in Threads, FailRun(t) PROVE Goal
  BY <1>9, <1>r DEF FailRun
<1>10. ASSUME NEW t \in Threads, LookForApproval(t) PROVE Goal
  BY <1>0, <1>10 DEF LookForApproval, MemTypes, memVars
<1>11. ASSUME NEW t \in Threads, AskApproval(t) PROVE Goal
  BY <1>11, <1>r DEF AskApproval
<1>12. ASSUME NEW t \in Threads, AskTwice(t) PROVE Goal
  BY <1>12, <1>r DEF AskTwice
<1>13. ASSUME NEW t \in Threads, AskedBefore(t) PROVE Goal
  BY <1>13, <1>r DEF AskedBefore
<1>14. ASSUME NEW t \in Threads, FinishRun(t) PROVE Goal
  BY <1>14, <1>r DEF FinishRun
<1>15. ASSUME NEW t \in Threads, StepRaises(t) PROVE Goal
  BY <1>15, <1>r DEF StepRaises
<1>c. ASSUME NEW p \in Profiles, Capture(p) PROVE Goal
  BY <1>0, <1>c DEF Capture, MemTypes, memVars
<1>d. CASE Crash
  BY <1>n, <1>d DEF Crash, MemTypes
<1>e. CASE UNCHANGED vars
  BY <1>0, <1>e DEF vars, MemTypes, memVars
<1> QED
  BY <1>1, <1>2, <1>3, <1>4, <1>5, <1>6, <1>7, <1>8, <1>9, <1>10, <1>11,
     <1>12, <1>13, <1>14, <1>15, <1>a, <1>b, <1>c, <1>d, <1>e
  DEF WInv, Next, Request, ThreadStep

-----------------------------------------------------------------------------
(* Every step preserves the rest.                                          *)

\* What the queries of one thread told it stays true while others commit: a
\* decided approval stays decided, and definition, profile and evidence stay.
LEMMA GatesStay == ASSUME WInv, [Next]_vars PROVE WRest'
<1> DEFINE Goal == WRest'
<1> USE DEF SameSteps, AskedInOrder, StepsBehindGates, JobsStored,
            DecidersKnow, AdvancersKnow, EvidenceIsReal, DecidedBefore,
            DecidePCs, AdvancePCs, Verdicts, Goto, runVars, rowVars, threadVars,
            memVars, StepOf, ApprovalTypes
<1>0. WorkflowTypeOK /\ WRest
  BY DEF WInv
<1>t. /\ runStatus \in [Runs -> RunStates]
      /\ runDef \in [Runs -> Definitions \cup {<<>>}]
      /\ runProfile \in [Runs -> Profiles \cup {NoProfile}]
      /\ stepStatus \in [Runs -> Seq(StepStates)]
      /\ approval \in [Runs -> Seq(ApprovalStates)]
      /\ pc \in [Threads -> PCs]
      /\ job \in [Threads -> Runs \cup {NoRun}]
      /\ at \in [Threads -> Nat]
      /\ verdict \in [Threads -> Verdicts \cup {"none"}]
      /\ memIndex \in [Threads -> Nat]
      /\ memSteps \in [Threads -> Seq(StepStates)]
  BY <1>0 DEF WorkflowTypeOK
<1>a. ASSUME NEW t \in Threads, NEW w \in Runs, NEW def \in Definitions,
             NEW p \in Profiles \cup {NoProfile}, StartRun(t, w, def, p)
      PROVE  Goal
  <2>1. \A u \in Threads : pc[u] # "idle" => job[u] # w
    BY <1>0, <1>a DEF StartRun, WRest
  <2>2. /\ runStatus'[w] = "running" /\ runDef'[w] = def
        /\ stepStatus'[w] = [i \in DOMAIN def |-> "pending"]
        /\ approval'[w] = [i \in DOMAIN def |-> "none"]
        /\ evidence' = evidence
    BY <1>t, <1>a DEF StartRun
  <2>3. \A u \in Runs \ {w} :
          /\ runStatus'[u] = runStatus[u] /\ runDef'[u] = runDef[u]
          /\ runProfile'[u] = runProfile[u]
          /\ stepStatus'[u] = stepStatus[u] /\ approval'[u] = approval[u]
    BY <1>t, <1>a DEF StartRun
  <2>4. /\ pc[t] = "idle" /\ pc' = [pc EXCEPT ![t] = "loadsteps"]
        /\ job' = [job EXCEPT ![t] = w]
        /\ memIndex' = [memIndex EXCEPT ![t] = 1]
        /\ UNCHANGED <<at, verdict, memSteps>>
    BY <1>a DEF StartRun
  <2>5. \A j \in DOMAIN def : j \in Nat \ {0}
    BY WorkflowAssumption, LenProperties
  <2>6. SameSteps' /\ AskedInOrder' /\ StepsBehindGates' /\ EvidenceIsReal'
    BY <1>0, <2>2, <2>3 DEF WRest
  <2>7. JobsStored'
    BY <1>0, <1>t, <2>1, <2>2, <2>3, <2>4 DEF WRest
  <2>9. DecidersKnow'
    <3> SUFFICES ASSUME NEW u \in Threads, pc'[u] \in DecidePCs
                 PROVE  /\ verdict'[u] \in Verdicts
                        /\ at'[u] \in DOMAIN approval'[job'[u]]
                        /\ approval'[job'[u]][at'[u]] # "none"
                        /\ pc'[u] = "decide" =>
                             DOMAIN memSteps'[u] = DOMAIN stepStatus'[job'[u]]
      OBVIOUS
    <3>1. u # t /\ pc[u] \in DecidePCs /\ pc'[u] = pc[u] /\ job'[u] = job[u]
      BY <1>t, <2>4
    <3>2. job[u] \in Runs \ {w}
      BY <1>0, <2>1, <3>1 DEF WRest
    <3>3. approval'[job[u]] = approval[job[u]] /\ stepStatus'[job[u]] = stepStatus[job[u]]
      BY <2>3, <3>2
    <3> QED
      BY <1>0, <2>4, <3>1, <3>3 DEF WRest
  <2>8. AdvancersKnow'
    BY <1>0, <1>t, <2>1, <2>2, <2>3, <2>4, <2>5 DEF WRest
  <2> QED
    BY <2>6, <2>7, <2>8, <2>9 DEF WRest
<1>b. ASSUME NEW t \in Threads, NEW w \in Runs, NEW i \in DOMAIN approval[w],
             NEW v \in Verdicts, DecideBegin(t, w, i, v)
      PROVE  Goal
  BY <1>0, <1>t, <1>b DEF DecideBegin, WRest
<1>1. ASSUME NEW t \in Threads, DecideLoadRun(t) PROVE Goal
  BY <1>0, <1>t, <1>1 DEF DecideLoadRun, WRest
<1>2. ASSUME NEW t \in Threads, DecideLoadStep(t) PROVE Goal
  BY <1>0, <1>t, <1>2 DEF DecideLoadStep, WRest
<1>3. ASSUME NEW t \in Threads, Reject(t) PROVE Goal
  BY <1>0, <1>t, <1>3 DEF Reject, DecideRows, WriteRun, Column, Answer, WRest
<1>4. ASSUME NEW t \in Threads, Approve(t) PROVE Goal
  BY <1>0, <1>t, <1>4 DEF Approve, DecideRows, WriteRun, Column, WRest
<1>5. ASSUME NEW t \in Threads, LoadSteps(t) PROVE Goal
  BY <1>0, <1>t, <1>5 DEF LoadSteps, WRest
<1>6. ASSUME NEW t \in Threads, Note(t) PROVE Goal
  BY <1>0, <1>t, <1>6 DEF Note, AtStep, StepSucceeds, WriteStep, Column, WRest
<1>7. ASSUME NEW t \in Threads, LookForArtifact(t) PROVE Goal
  BY <1>0, <1>t, <1>7 DEF LookForArtifact, AtStep, WRest
<1>8. ASSUME NEW t \in Threads, ArtifactFound(t) PROVE Goal
  <2>1. /\ pc[t] = "found" /\ job[t] \in Runs
        /\ StepOf(t) \in DOMAIN runDef[job[t]]
        /\ runDef[job[t]][StepOf(t)] \notin ApprovalTypes
        /\ runProfile[job[t]] \in evidence
    BY <1>0, <1>8 DEF ArtifactFound, WRest
  <2>2. SameSteps' /\ AskedInOrder' /\ StepsBehindGates' /\ JobsStored' /\ DecidersKnow'
    BY <1>0, <1>t, <1>8, <2>1 DEF ArtifactFound, StepSucceeds, WriteStep, Column, WRest
  <2>3. EvidenceIsReal'
    BY <1>0, <1>t, <1>8, <2>1 DEF ArtifactFound, StepSucceeds, WriteStep, Column, WRest
  <2>4. AdvancersKnow'
    BY <1>0, <1>t, <1>8, <2>1 DEF ArtifactFound, StepSucceeds, WriteStep, Column, WRest
  <2> QED
    BY <2>2, <2>3, <2>4 DEF WRest
<1>9. ASSUME NEW t \in Threads, FailRun(t) PROVE Goal
  BY <1>0, <1>t, <1>9 DEF FailRun, WriteStep, WriteRun, Column, Answer, WRest
<1>10. ASSUME NEW t \in Threads, LookForApproval(t) PROVE Goal
  BY <1>0, <1>t, <1>10 DEF LookForApproval, AtStep, WRest
<1>11. ASSUME NEW t \in Threads, AskApproval(t) PROVE Goal
  BY <1>0, <1>t, <1>11 DEF AskApproval, Pause, WriteStep, WriteRun,
                             Column, Answer, WRest
<1>12. ASSUME NEW t \in Threads, AskTwice(t) PROVE Goal
  BY <1>0, <1>t, <1>12 DEF AskTwice, Answer, WRest
<1>13. ASSUME NEW t \in Threads, AskedBefore(t) PROVE Goal
  BY <1>0, <1>t, <1>13 DEF AskedBefore, Pause, WriteStep, WriteRun,
                             Column, Answer, WRest
<1>14. ASSUME NEW t \in Threads, FinishRun(t) PROVE Goal
  BY <1>0, <1>t, <1>14 DEF FinishRun, WriteRun, Column, Answer, WRest
<1>15. ASSUME NEW t \in Threads, StepRaises(t) PROVE Goal
  BY <1>0, <1>t, <1>15 DEF StepRaises, Answer, WRest
<1>c. ASSUME NEW p \in Profiles, Capture(p) PROVE Goal
  BY <1>0, <1>t, <1>c DEF Capture, WRest
<1>d. CASE Crash
  BY <1>0, <1>t, <1>d DEF Crash, WRest
<1>e. CASE UNCHANGED vars
  BY <1>0, <1>t, <1>e DEF vars, WRest
<1> QED
  BY <1>1, <1>2, <1>3, <1>4, <1>5, <1>6, <1>7, <1>8, <1>9, <1>10, <1>11,
     <1>12, <1>13, <1>14, <1>15, <1>a, <1>b, <1>c, <1>d, <1>e
  DEF Next, Request, ThreadStep

\* The invariant holds from the empty database on.
LEMMA WorkflowInvariance == Spec => []WInv
<1>1. Init => WInv
  <2> SUFFICES ASSUME Init PROVE WInv
    OBVIOUS
  <2>1. <<>> \in Seq(StepStates) /\ <<>> \in Seq(ApprovalStates)
    BY EmptySeq
  <2>2. WorkflowTypeOK
    BY <2>1, WorkflowAssumption
    DEF Init, WorkflowTypeOK, RunStates, PCs
  <2>3. WRest
    BY DEF Init, WRest, SameSteps, AskedInOrder, StepsBehindGates, JobsStored,
           DecidersKnow, AdvancersKnow, EvidenceIsReal, DecidePCs, AdvancePCs
  <2> QED
    BY <2>2, <2>3 DEF WInv
<1>2. WInv /\ [Next]_vars => WInv'
  <2> SUFFICES ASSUME WInv, [Next]_vars PROVE WInv'
    OBVIOUS
  <2>1. WorkflowTypeOK'
    BY RowsTyped, ThreadsTyped, StepsTyped, MemoryTyped
    DEF RowTypes, ThreadTypes, StepTypesOK, MemTypes, WorkflowTypeOK
  <2> QED
    BY <2>1, GatesStay DEF WInv
<1> QED
  BY <1>1, <1>2, PTL DEF Spec

-----------------------------------------------------------------------------
(* Stalled runs.                                                           *)

\* A thread that advances a run has "running" as the run's status in its session,
\* so the commit that pauses or ends the run writes the row.
AdvancersRun == \A t \in Threads : pc[t] \in AdvancePCs => memStatus[t] = "running"

\* Thread t brings w to its end or its next pause: it advances w, and nobody has
\* inserted the approval it is about to insert.
Carries(t, w) ==
  /\ job[t] = w
  /\ pc[t] \in AdvancePCs
  /\ pc[t] = "ask" => approval[w][StepOf(t)] = "none"

Uncarried == {w \in Runs : runStatus[w] = "running" /\ \A t \in Threads : ~Carries(t, w)}

\* Those for which it is no matter what the database refuses.
Lost == {w \in Uncarried : ~AtRefusal(w)}

LostAreCrashes ==
  /\ IsFiniteSet(Lost)
  /\ Cardinality(Lost) <= crashes * Cardinality(Threads)

LEMMA AdvancersStay == ASSUME WInv, AdvancersRun, [Next]_vars PROVE AdvancersRun'
<1> DEFINE Goal == AdvancersRun'
<1> USE DEF AdvancersRun, AdvancePCs, Goto, rowVars, threadVars, memVars
<1>t. /\ pc \in [Threads -> PCs]
      /\ memStatus \in [Threads -> RunStates]
  BY DEF WInv, WorkflowTypeOK
<1>a. ASSUME NEW t \in Threads, NEW w \in Runs, NEW def \in Definitions,
             NEW p \in Profiles \cup {NoProfile}, StartRun(t, w, def, p)
      PROVE  Goal
  BY <1>t, <1>a DEF StartRun
<1>b. ASSUME NEW t \in Threads, NEW w \in Runs, NEW i \in DOMAIN approval[w],
             NEW v \in Verdicts, DecideBegin(t, w, i, v)
      PROVE  Goal
  BY <1>t, <1>b DEF DecideBegin
<1>1. ASSUME NEW t \in Threads, DecideLoadRun(t) PROVE Goal
  BY <1>t, <1>1 DEF DecideLoadRun
<1>2. ASSUME NEW t \in Threads, DecideLoadStep(t) PROVE Goal
  BY <1>t, <1>2 DEF DecideLoadStep
<1>3. ASSUME NEW t \in Threads, Approve(t) PROVE Goal
  BY <1>t, <1>3 DEF Approve
<1>4. ASSUME NEW t \in Threads, LoadSteps(t) PROVE Goal
  BY <1>t, <1>4 DEF LoadSteps
<1>5. ASSUME NEW t \in Threads, Note(t) \/ ArtifactFound(t) PROVE Goal
  BY <1>t, <1>5 DEF Note, AtStep, ArtifactFound, StepSucceeds
<1>6. ASSUME NEW t \in Threads, LookForArtifact(t) \/ LookForApproval(t) PROVE Goal
  BY <1>t, <1>6 DEF LookForArtifact, LookForApproval, AtStep
<1>7. ASSUME NEW t \in Threads,
             \/ Reject(t) \/ FailRun(t) \/ AskApproval(t) \/ AskTwice(t)
             \/ AskedBefore(t) \/ StepRaises(t) \/ FinishRun(t)
      PROVE  Goal
  BY <1>t, <1>7 DEF Reject, FailRun, AskApproval, AskTwice, AskedBefore, StepRaises,
     FinishRun, Answer
<1>8. ASSUME NEW p \in Profiles, Capture(p) PROVE Goal
  BY <1>8 DEF Capture
<1>9. CASE Crash
  BY <1>9 DEF Crash
<1>10. CASE UNCHANGED vars
  BY <1>10 DEF vars
<1> QED
  BY <1>a, <1>b, <1>1, <1>2, <1>3, <1>4, <1>5, <1>6, <1>7, <1>8, <1>9, <1>10
  DEF Next, Request, ThreadStep

\* A run loses the last thread that carries it to the death of the process or to
\* a step that raises: whoever else leaves it writes another status, or was
\* overtaken by a thread that did.
LEMMA CarriersLeave ==
  ASSUME WInv, AdvancersRun, [Next]_vars
  PROVE  \/ Uncarried' \subseteq Uncarried /\ crashes' = crashes
         \/ /\ Uncarried' \subseteq Uncarried \cup {w \in Runs : AtRefusal(w)}
            /\ crashes' = crashes
         \/ /\ Uncarried' \subseteq Uncarried \cup {job[t] : t \in Threads}
            /\ crashes' = crashes + 1
<1> DEFINE Kept == Uncarried' \subseteq Uncarried /\ crashes' = crashes
           OthersStay(t) == \A q \in Threads \ {t} :
             job'[q] = job[q] /\ pc'[q] = pc[q] /\ memIndex'[q] = memIndex[q]
           OtherRunsStay(w) == \A u \in Runs \ {w} :
             runStatus'[u] = runStatus[u] /\ approval'[u] = approval[u]
<1> USE DEF Uncarried, Carries, AdvancePCs, Goto, StepOf, rowVars, runVars,
            threadVars, memVars
<1>t. /\ runStatus \in [Runs -> RunStates]
      /\ approval \in [Runs -> Seq(ApprovalStates)]
      /\ pc \in [Threads -> PCs]
      /\ job \in [Threads -> Runs \cup {NoRun}]
      /\ memIndex \in [Threads -> Nat]
  BY DEF WInv, WorkflowTypeOK
<1>j. \A t \in Threads : pc[t] # "idle" => job[t] \in Runs
  BY Known
<1>w. \A t \in Threads : pc[t] \in AdvancePCs => memStatus[t] = "running"
  BY DEF AdvancersRun
<1>a. ASSUME NEW t \in Threads, NEW w \in Runs, NEW def \in Definitions,
             NEW p \in Profiles \cup {NoProfile}, StartRun(t, w, def, p)
      PROVE  Kept
  <2>1. /\ OtherRunsStay(w)
        /\ OthersStay(t)
        /\ pc[t] = "idle" /\ job'[t] = w /\ pc'[t] = "loadsteps" /\ crashes' = crashes
    BY <1>t, <1>a DEF StartRun
  <2> QED
    BY <2>1
<1>b. ASSUME NEW t \in Threads, NEW w \in Runs, NEW i \in DOMAIN approval[w],
             NEW v \in Verdicts, DecideBegin(t, w, i, v)
      PROVE  Kept
  BY <1>t, <1>b DEF DecideBegin
<1>1. ASSUME NEW t \in Threads, DecideLoadRun(t) PROVE Kept
  BY <1>t, <1>1 DEF DecideLoadRun
<1>2. ASSUME NEW t \in Threads, DecideLoadStep(t) PROVE Kept
  BY <1>t, <1>2 DEF DecideLoadStep
<1>c. ASSUME NEW t \in Threads, Reject(t) PROVE Kept
  <2>1. /\ pc[t] = "decide" /\ verdict[t] \in Verdicts
        /\ approval[job[t]][at[t]] # "none"
        /\ job[t] \in Runs
    BY <1>c, <1>j DEF Reject, DecideRows, WInv, WRest, DecidersKnow, DecidePCs
  <2>2. /\ approval' = [approval EXCEPT ![job[t]][at[t]] = verdict[t]]
        /\ runStatus'[job[t]] \in {runStatus[job[t]], "failed"}
        /\ \A u \in Runs \ {job[t]} : runStatus'[u] = runStatus[u]
        /\ OthersStay(t)
        /\ crashes' = crashes
    BY <1>t, <1>c, <2>1 DEF Reject, DecideRows, WriteRun, Column, Answer
  <2>3. \A u \in Runs : \A k \in Nat : approval[u][k] = "none" => approval'[u][k] = "none"
    BY <1>t, <2>1, <2>2
  <2>4. \A q \in Threads : \A u \in Runs : Carries(q, u) => Carries(q, u)'
    BY <1>t, <2>1, <2>2, <2>3
  <2>5. \A u \in Runs : runStatus'[u] = "running" => runStatus[u] = "running"
    BY <2>1, <2>2
  <2> HIDE DEF Carries
  <2> QED
    BY <2>2, <2>4, <2>5
<1>3. ASSUME NEW t \in Threads, Approve(t) PROVE Kept
  <2>1. pc[t] = "decide" /\ job[t] \in Runs
    BY <1>3, <1>j DEF Approve, DecideRows
  <2>2. /\ OtherRunsStay(job[t])
        /\ OthersStay(t)
        /\ job'[t] = job[t] /\ pc'[t] = "loadsteps" /\ crashes' = crashes
    BY <1>t, <1>3, <2>1 DEF Approve, DecideRows, WriteRun
  <2> QED
    BY <2>1, <2>2
<1>4. ASSUME NEW t \in Threads,
             \/ LoadSteps(t) \/ Note(t) \/ ArtifactFound(t)
             \/ LookForArtifact(t) \/ LookForApproval(t)
      PROVE  Kept
  <2>1. /\ runStatus' = runStatus /\ approval' = approval /\ crashes' = crashes
        /\ OthersStay(t)
        /\ job'[t] = job[t] /\ pc'[t] \in AdvancePCs
        /\ pc'[t] = "ask" => approval[job[t]][memIndex'[t]] = "none"
    BY <1>t, <1>4 DEF LoadSteps, Note, ArtifactFound, StepSucceeds, AtStep,
       LookForArtifact, LookForApproval
  <2> QED
    BY <2>1
<1>5. ASSUME NEW t \in Threads,
             FailRun(t) \/ AskApproval(t) \/ AskedBefore(t) \/ FinishRun(t)
      PROVE  Kept
  <2>1. pc[t] \in AdvancePCs /\ memStatus[t] = "running" /\ job[t] \in Runs
    BY <1>5, <1>w, <1>j DEF FailRun, AskApproval, AskedBefore, FinishRun
  <2>2. runStatus'[job[t]] \in {"failed", "waiting_approval", "succeeded"}
    BY <1>t, <1>5, <2>1 DEF FailRun, AskApproval, AskedBefore, FinishRun, Pause, WriteRun,
       Column
  <2>3. /\ OtherRunsStay(job[t])
        /\ OthersStay(t)
        /\ crashes' = crashes
    BY <1>t, <1>5, <2>1 DEF FailRun, AskApproval, AskedBefore, FinishRun, Pause, WriteRun,
       Answer
  <2> QED
    BY <2>2, <2>3
<1>6. ASSUME NEW t \in Threads, AskTwice(t) PROVE Kept
  <2>1. /\ OthersStay(t)
        /\ runStatus' = runStatus /\ approval' = approval /\ crashes' = crashes
        /\ pc[t] = "ask" /\ approval[job[t]][memIndex[t]] # "none"
    BY <1>t, <1>6 DEF AskTwice, Answer
  <2> QED
    BY <2>1
<1>7. ASSUME NEW p \in Profiles, Capture(p) PROVE Kept
  BY <1>7 DEF Capture
<1>8. ASSUME Crash
      PROVE  /\ Uncarried' \subseteq Uncarried \cup {job[t] : t \in Threads}
             /\ crashes' = crashes + 1
  BY <1>8 DEF Crash
<1>9. ASSUME UNCHANGED vars PROVE Kept
  BY <1>9 DEF vars
<1>13. ASSUME NEW t \in Threads, StepRaises(t)
       PROVE  /\ Uncarried' \subseteq Uncarried \cup {w \in Runs : AtRefusal(w)}
              /\ crashes' = crashes
  <2>1. /\ OthersStay(t)
        /\ runStatus' = runStatus /\ approval' = approval /\ crashes' = crashes
        /\ pc[t] = "loop" /\ job[t] \in Runs
    BY <1>t, <1>j, <1>13 DEF StepRaises, Answer
  <2>2. AtRefusal(job[t])
    BY <2>1, <1>13 DEF StepRaises, AtRefusal, WInv, WRest, AdvancersKnow, DecidedBefore
  <2>3. \A u \in Runs : u \in Uncarried' => u \in Uncarried \/ u = job[t]
    BY <2>1
  <2> QED
    BY <2>1, <2>2, <2>3
<1> HIDE DEF Kept, Uncarried, Carries, AdvancePCs, Goto, StepOf, rowVars, runVars,
            threadVars, memVars
<1>10. ASSUME NEW t \in Threads, Request(t) PROVE Kept
  BY <1>a, <1>b, <1>10 DEF Request
<1>11. ASSUME NEW t \in Threads, ThreadStep(t) PROVE Kept \/ StepRaises(t)
  BY <1>c, <1>1, <1>2, <1>3, <1>4, <1>5, <1>6, <1>11 DEF ThreadStep
<1>12. Kept \/ Crash \/ \E t \in Threads : StepRaises(t)
  BY <1>7, <1>9, <1>10, <1>11 DEF Next
<1> QED
  BY <1>8, <1>12, <1>13 DEF Kept

\* A definition does not change and a decision stays: a run that has come to a
\* step that raises does not get away from it.
LEMMA RefusalStays ==
  ASSUME WInv, [Next]_vars, NEW w \in Runs, AtRefusal(w)
  PROVE  AtRefusal(w)'
<1> DEFINE Decided == /\ DOMAIN approval'[w] = DOMAIN approval[w]
                      /\ \A j \in DOMAIN approval[w] :
                           approval[w][j] \in Verdicts => approval'[w][j] \in Verdicts
           Kept == Decided /\ runDef'[w] = runDef[w] /\ runProfile'[w] = runProfile[w]
<1> USE DEF rowVars, runVars
<1>t. /\ runDef \in [Runs -> Definitions \cup {<<>>}]
      /\ runProfile \in [Runs -> Profiles \cup {NoProfile}]
      /\ approval \in [Runs -> Seq(ApprovalStates)]
  BY DEF WInv, WorkflowTypeOK
<1>1. ASSUME NEW t \in Threads, NEW u \in Runs, NEW def \in Definitions,
             NEW p \in Profiles \cup {NoProfile}, StartRun(t, u, def, p)
      PROVE  Kept
  <2>1. runDef[u] = <<>>
    BY <1>1 DEF StartRun, WInv, WRest, SameSteps
  <2>2. u # w
    BY <2>1 DEF AtRefusal
  <2> QED
    BY <1>t, <1>1, <2>2 DEF StartRun
<1>2. ASSUME NEW t \in Threads, Reject(t) \/ Approve(t) PROVE Kept
  <2>1. verdict[t] \in Verdicts
    BY <1>2 DEF Reject, Approve, Verdicts
  <2>2. approval' = [approval EXCEPT ![job[t]][at[t]] = verdict[t]]
    BY <1>2 DEF Reject, Approve, DecideRows
  <2>3. UNCHANGED <<runDef, runProfile>>
    BY <1>2 DEF Reject, Approve
  <2> QED
    BY <1>t, <2>1, <2>2, <2>3
<1>3. ASSUME NEW t \in Threads, AskApproval(t) PROVE Kept
  <2>1. /\ approval' = [approval EXCEPT ![job[t]][StepOf(t)] = "pending"]
        /\ approval[job[t]][StepOf(t)] = "none"
        /\ UNCHANGED <<runDef, runProfile>>
    BY <1>3 DEF AskApproval, Pause
  <2>2. approval'[w] = IF w = job[t] THEN [approval[w] EXCEPT ![StepOf(t)] = "pending"]
                                     ELSE approval[w]
    BY <1>t, <2>1
  <2>3. "none" \notin Verdicts
    BY DEF Verdicts
  <2>4. DOMAIN approval'[w] = DOMAIN approval[w]
    BY <2>2
  <2>5. ASSUME NEW j \in DOMAIN approval[w], approval[w][j] \in Verdicts
        PROVE  approval'[w][j] = approval[w][j]
    BY <2>1, <2>2, <2>3, <2>5
  <2> QED
    BY <2>1, <2>4, <2>5
<1>4. ASSUME UNCHANGED <<approval, runDef, runProfile>> PROVE Kept
  BY <1>4
<1>5. ASSUME NEW t \in Threads, ThreadStep(t)
      PROVE  \/ Reject(t) \/ Approve(t) \/ AskApproval(t)
             \/ UNCHANGED <<approval, runDef, runProfile>>
  BY <1>5 DEF ThreadStep, DecideLoadRun, DecideLoadStep, LoadSteps, Note,
     ArtifactFound, StepSucceeds, LookForArtifact, FailRun, LookForApproval, AskTwice,
     AskedBefore, Pause, StepRaises, FinishRun
<1>6. ASSUME NEW t \in Threads, Request(t) PROVE Kept
  BY <1>1, <1>6 DEF Request, DecideBegin
<1>7. Kept
  <2> HIDE DEF Kept
  <2> QED
    BY <1>2, <1>3, <1>4, <1>5, <1>6 DEF Next, Capture, Crash, vars
<1> QED
  BY <1>7 DEF AtRefusal, Raises

\* Only the death of the process adds to the lost runs, and at most those the
\* threads work on.
LEMMA OneCrashStalls ==
  ASSUME WInv, AdvancersRun, [Next]_vars
  PROVE  \/ Lost' \subseteq Lost /\ crashes' = crashes
         \/ /\ Lost' \subseteq Lost \cup {job[t] : t \in Threads}
            /\ crashes' = crashes + 1
<1>1. \A w \in Runs : AtRefusal(w) => AtRefusal(w)'
  BY RefusalStays
<1>2. Uncarried' \subseteq Runs
  BY DEF Uncarried
<1>3. \A w : w \in Lost' => w \in Uncarried' /\ w \in Runs /\ ~AtRefusal(w)
  BY <1>1, <1>2 DEF Lost
<1> QED
  BY <1>3, CarriersLeave DEF Lost

\* The threads work on at most as many runs as there are threads.
LEMMA JobsAreFew ==
  ASSUME WInv
  PROVE  /\ IsFiniteSet({job[t] : t \in Threads})
         /\ Cardinality({job[t] : t \in Threads}) <= Cardinality(Threads)
<1>1. job \in Surjection(Threads, {job[t] : t \in Threads})
  BY DEF WInv, WorkflowTypeOK, Surjection
<1> QED
  BY <1>1, WorkflowAssumption, FS_Surjection

LEMMA StallsAreCounted ==
  ASSUME WInv, AdvancersRun, LostAreCrashes, [Next]_vars
  PROVE  LostAreCrashes'
<1> DEFINE n == Cardinality(Threads)
           J == {job[t] : t \in Threads}
<1>1. /\ IsFiniteSet(Lost) /\ Cardinality(Lost) \in Nat
      /\ Cardinality(Lost) <= crashes * n
      /\ n \in Nat /\ crashes \in Nat
  BY WorkflowAssumption, FS_CardinalityType
  DEF LostAreCrashes, WInv, WorkflowTypeOK
<1>2. CASE Lost' \subseteq Lost /\ crashes' = crashes
  <2>1. /\ IsFiniteSet(Lost') /\ Cardinality(Lost') <= Cardinality(Lost)
        /\ Cardinality(Lost') \in Nat
    BY <1>1, <1>2, FS_Subset, FS_CardinalityType
  <2>2. Cardinality(Lost') <= crashes' * n
    BY <1>1, <1>2, <2>1
  <2> QED
    BY <2>1, <2>2 DEF LostAreCrashes
<1>3. CASE Lost' \subseteq Lost \cup J /\ crashes' = crashes + 1
  <2>1. /\ IsFiniteSet(J) /\ Cardinality(J) <= n /\ Cardinality(J) \in Nat
    BY JobsAreFew, FS_CardinalityType
  <2>2. /\ IsFiniteSet(Lost \cup J) /\ Cardinality(Lost \cup J) \in Nat
        /\ Cardinality(Lost \cup J) <= Cardinality(Lost) + Cardinality(J)
    <3>1. IsFiniteSet(Lost \cap J) /\ Cardinality(Lost \cap J) \in Nat
      BY <1>1, FS_Intersection, FS_CardinalityType
    <3> HIDE DEF J
    <3>2. /\ IsFiniteSet(Lost \cup J)
          /\ Cardinality(Lost \cup J)
               = Cardinality(Lost) + Cardinality(J) - Cardinality(Lost \cap J)
      BY <1>1, <2>1, FS_Union
    <3> QED
      BY <1>1, <2>1, <3>1, <3>2, FS_CardinalityType
  <2>3. /\ IsFiniteSet(Lost') /\ Cardinality(Lost') \in Nat
        /\ Cardinality(Lost') <= Cardinality(Lost \cup J)
    BY <1>3, <2>2, FS_Subset, FS_CardinalityType
  <2>4. (crashes + 1) * n = crashes * n + n /\ crashes * n \in Nat
    BY <1>1
  <2> HIDE DEF n, J
  <2>5. Cardinality(Lost') <= crashes' * n
    BY <1>1, <1>3, <2>1, <2>2, <2>3, <2>4
  <2> QED
    BY <2>3, <2>5 DEF LostAreCrashes, n
<1> QED
  BY <1>2, <1>3, OneCrashStalls

\* A stalled run is one that nobody carries and nothing refuses.
LEMMA StalledAreLost ==
  ASSUME WInv, LostAreCrashes PROVE StalledAreCrashes
<1>1. Stalled \subseteq Lost /\ IsFiniteSet(Lost)
  BY DEF Stalled, Lost, Uncarried, Carries, LostAreCrashes
<1>2. /\ Cardinality(Stalled) <= Cardinality(Lost)
      /\ Cardinality(Stalled) \in Nat /\ Cardinality(Lost) \in Nat
  BY <1>1, FS_Subset, FS_CardinalityType
<1>3. crashes * Cardinality(Threads) \in Nat
  BY WorkflowAssumption, FS_CardinalityType DEF WInv, WorkflowTypeOK
<1> QED
  BY <1>2, <1>3 DEF LostAreCrashes, StalledAreCrashes

-----------------------------------------------------------------------------
(* The theorems.                                                           *)

\* Rows and threads keep their types: start_run, advance and decide write only
\* the statuses the tables know.
THEOREM WorkflowTypeCorrect == Spec => []WorkflowTypeOK
<1>1. WInv => WorkflowTypeOK
  BY DEF WInv
<1> QED
  BY <1>1, WorkflowInvariance, PTL

\* No interleaving of starts, decisions and crashes executes a step of a run
\* before every approval step in front of it is decided.
THEOREM GateHoldsAlways == Spec => []GateHolds
<1>1. WInv => GateHolds
  <2> SUFFICES ASSUME WInv, NEW w \in Runs, NEW i \in DOMAIN stepStatus[w],
                      stepStatus[w][i] # "pending", NEW j \in 1..(i - 1),
                      runDef[w][j] \in ApprovalTypes
               PROVE  approval[w][j] \in Verdicts
    BY DEF GateHolds
  <2>1. DecidedBefore(w, i) /\ DOMAIN approval[w] = DOMAIN stepStatus[w]
    BY DEF WInv, WRest, StepsBehindGates, SameSteps
  <2>2. DOMAIN stepStatus[w] = 1..Len(stepStatus[w]) /\ Len(stepStatus[w]) \in Nat
    BY LenProperties DEF WInv, WorkflowTypeOK
  <2>3. j \in DOMAIN approval[w] /\ j < i
    BY <2>1, <2>2
  <2> QED
    BY <2>1, <2>3 DEF DecidedBefore
<1> QED
  BY <1>1, WorkflowInvariance, PTL

\* A require_artifact step never succeeds without an artifact of the run's
\* profile, whatever threads race.
THEOREM EvidenceIsRealAlways == Spec => []EvidenceIsReal
<1>1. WInv => EvidenceIsReal
  BY DEF WInv, WRest
<1> QED
  BY <1>1, WorkflowInvariance, PTL

\* Runs are stalled by the death of the process only, and by each at most one run
\* per thread, whatever decisions race.
THEOREM StalledAreCrashesHolds == Spec => []StalledAreCrashes
<1>1. Init => AdvancersRun /\ LostAreCrashes
  <2> SUFFICES ASSUME Init PROVE AdvancersRun /\ LostAreCrashes
    OBVIOUS
  <2>1. Lost = {} /\ crashes = 0 /\ AdvancersRun
    BY DEF Init, Lost, Uncarried, AdvancersRun, AdvancePCs
  <2>2. Cardinality(Threads) \in Nat
    BY WorkflowAssumption, FS_CardinalityType
  <2> QED
    BY <2>1, <2>2, FS_EmptySet DEF LostAreCrashes
<1>2. WInv /\ AdvancersRun /\ LostAreCrashes /\ [Next]_vars
        => AdvancersRun' /\ LostAreCrashes'
  BY AdvancersStay, StallsAreCounted
<1>3. WInv /\ LostAreCrashes => StalledAreCrashes
  BY StalledAreLost
<1> QED
  BY <1>1, <1>2, <1>3, WorkflowInvariance, PTL DEF Spec
=============================================================================
