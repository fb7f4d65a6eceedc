------------------------------ MODULE ApprovalGate ------------------------------
(***************************************************************************)
(* What a workflow run promises its reviewers: it pauses where it asks,    *)
(* goes on only after an approval, fails on a rejection, and what has been *)
(* decided or has ended stays so.                                          *)
(***************************************************************************)
EXTENDS Integers, Sequences

CONSTANTS
  Runs,
  MaxSteps  \* steps a definition may have

VARIABLES
  status,  \* [Runs -> {"absent", "running", "waiting_approval", "succeeded", "failed"}]
  gate     \* per run and gate: "none", "pending", "approved" or "rejected"

\* No gate of w is pending or was rejected.
Clear(w) == \A i \in DOMAIN gate[w] : gate[w][i] \in {"none", "approved"}

Init ==
  /\ status = [w \in Runs |-> "absent"]
  /\ gate = [w \in Runs |-> <<>>]

\* A run of n steps, each of which may turn out to be a gate.
Begin(w, n) ==
  /\ status[w] = "absent"
  /\ status' = [status EXCEPT ![w] = "running"]
  /\ gate' = [gate EXCEPT ![w] = [i \in 1..n |-> "none"]]

\* Gates are asked for in order, one at a time.
Ask(w, i) ==
  /\ status[w] = "running"
  /\ Clear(w)
  /\ gate[w][i] = "none"
  /\ \A j \in DOMAIN gate[w] : j > i => gate[w][j] = "none"
  /\ status' = [status EXCEPT ![w] = "waiting_approval"]
  /\ gate' = [gate EXCEPT ![w][i] = "pending"]

Approve(w, i) ==
  /\ status[w] = "waiting_approval"
  /\ gate[w][i] = "pending"
  /\ status' = [status EXCEPT ![w] = "running"]
  /\ gate' = [gate EXCEPT ![w][i] = "approved"]

Reject(w, i) ==
  /\ status[w] = "waiting_approval"
  /\ gate[w][i] = "pending"
  /\ status' = [status EXCEPT ![w] = "failed"]
  /\ gate' = [gate EXCEPT ![w][i] = "rejected"]

Succeed(w) ==
  /\ status[w] = "running"
  /\ Clear(w)
  /\ status' = [status EXCEPT ![w] = "succeeded"]
  /\ UNCHANGED gate

Fail(w) ==
  /\ status[w] = "running"
  /\ status' = [status EXCEPT ![w] = "failed"]
  /\ UNCHANGED gate

Next ==
  \E w \in Runs :
    \/ \E n \in 1..MaxSteps : Begin(w, n)
    \/ \E i \in DOMAIN gate[w] : Ask(w, i) \/ Approve(w, i) \/ Reject(w, i)
    \/ Succeed(w) \/ Fail(w)

Spec == Init /\ [][Next]_<<status, gate>>
=============================================================================
