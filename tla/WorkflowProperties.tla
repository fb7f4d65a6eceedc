--------------------------- MODULE WorkflowProperties ---------------------------
(***************************************************************************)
(* What the workflow engine promises, stated over WorkflowEngine.          *)
(***************************************************************************)
EXTENDS WorkflowEngine

-----------------------------------------------------------------------------
(* Whatever requests race.                                                 *)

\* advance stops at an approval step: a step is executed only when every
\* approval step before it has been decided.  This holds for every interleaving
\* of starts, decisions and crashes.
GateHolds ==
  \A w \in Runs : \A i \in DOMAIN stepStatus[w] :
    stepStatus[w][i] # "pending" =>
      \A j \in 1..(i - 1) :
        runDef[w][j] \in ApprovalTypes => approval[w][j] \in Verdicts

\* A require_artifact step succeeds only for a run with a profile that has an
\* artifact: no thread, racing or resumed, passes over missing evidence.
EvidenceIsReal ==
  \A w \in Runs : \A i \in DOMAIN stepStatus[w] :
    runDef[w][i] = "require_artifact" /\ stepStatus[w][i] = "succeeded" =>
      runProfile[w] \in evidence

AdvancePCs == {"loadsteps", "loop", "found", "missing", "asked", "ask"}

\* Every approval of w in front of a step that raises is decided: the run got as
\* far as advance can take it.
AtRefusal(w) ==
  \E i \in DOMAIN runDef[w] :
    /\ Raises(w, i)
    /\ \A j \in DOMAIN approval[w] :
         j < i /\ runDef[w][j] \in ApprovalTypes => approval[w][j] \in Verdicts

\* Runs shown as running that no thread advances, although no step in reach
\* raises.  Nothing at startup looks for them.
Stalled ==
  {w \in Runs :
     /\ runStatus[w] = "running"
     /\ ~\E t \in Threads : job[t] = w /\ pc[t] \in AdvancePCs
     /\ ~AtRefusal(w)}

\* advance leaves a run only when it has ended or waits, or in front of a step
\* the database refuses; a thread whose insert of an approval comes second leaves
\* it to the thread that came first.  However many decisions race, any other run
\* is stalled only by the death of the process, which costs at most one run per
\* thread.
StalledAreCrashes == Cardinality(Stalled) <= crashes * Cardinality(Threads)

\* Until the process dies, a run does not stay "running": the engine advances
\* it until it ends or waits, also when decisions race.  The one exception is a
\* run that has come to a step the database refuses.
RunsSettle ==
  \A w \in Runs :
    runStatus[w] = "running"
      ~> runStatus[w] # "running" \/ AtRefusal(w) \/ crashes > 0

-----------------------------------------------------------------------------
(* Where the decisions on a run come one after the other.                  *)

\* The rows of runs and approvals implement the gate: every pause asks a new
\* question, every question is answered once, and a run ends once, even when
\* the process dies between two commits.
Gate == INSTANCE ApprovalGate
          WITH MaxSteps <- 50, status <- runStatus, gate <- approval

RunsImplementGate == Gate!Spec

\* A run that waits has the question it waits for: the approval of its current
\* step is pending, so a decision can resume it.
WaitingCanResume ==
  \A w \in Runs :
    runStatus[w] = "waiting_approval" => approval[w][runIndex[w]] = "pending"

-----------------------------------------------------------------------------
(* What the documents say and the code does not keep when decisions race.  *)

\* docs/WORKFLOW_ENGINE.md: reject leads to failed.  No run with a rejected
\* approval succeeds.
RejectedNeverSucceeds ==
  \A w \in Runs :
    runStatus[w] = "succeeded" =>
      \A i \in DOMAIN approval[w] : approval[w][i] # "rejected"
=============================================================================
