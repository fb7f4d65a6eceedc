------------------------------- MODULE MCEvidence -------------------------------
(* The constants of the model-checking run of Evidence.                     *)
EXTENDS EvidenceProperties, TLC

CONSTANTS o1, p1, p2, k1, r1, r2, r3, v1, v2

\* Every profile belongs to one organization.
OneOrg == [p \in Profiles |-> o1]

\* Slots of either kind are interchangeable.
Slots == Permutations(Requests) \cup Permutations(Viewers)
=============================================================================
