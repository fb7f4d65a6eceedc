------------------------------- MODULE MCSession -------------------------------
(* The constants of the model-checking runs of SessionControl.             *)
EXTENDS SessionProperties, TLC

CONSTANTS o1, p1, p2, k1, r1, r2, r3

\* Every profile belongs to one organization.
OneOrg == [p \in Profiles |-> o1]

\* Request slots are interchangeable.
Slots == Permutations(Requests)
=============================================================================
