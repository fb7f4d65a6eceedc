------------------------------- MODULE LeasePool -------------------------------
(***************************************************************************)
(* What the lease table promises its readers: a pool of Capacity leases.   *)
(* Each holder gets a lease at most once; a lease ends once, by release or *)
(* by expiry, and what has ended never holds capacity again.               *)
(***************************************************************************)
EXTENDS Integers, FiniteSets

CONSTANTS
  Holders,   \* those who may ask for a lease
  Capacity   \* leases that may be active together

VARIABLE lease  \* [Holders -> {"none", "active", "released", "expired"}]

Held == {h \in Holders : lease[h] = "active"}

Init == lease = [h \in Holders |-> "none"]

Grant(h) ==
  /\ lease[h] = "none"
  /\ Cardinality(Held) < Capacity
  /\ lease' = [lease EXCEPT ![h] = "active"]

Release(h) ==
  /\ lease[h] = "active"
  /\ lease' = [lease EXCEPT ![h] = "released"]

\* Any number of leases lapse together.
Expire(lapsed) ==
  /\ lapsed \subseteq Held
  /\ lease' = [h \in Holders |-> IF h \in lapsed THEN "expired" ELSE lease[h]]

Next ==
  \/ \E h \in Holders : Grant(h) \/ Release(h)
  \/ \E lapsed \in SUBSET Held : Expire(lapsed)

Spec == Init /\ [][Next]_lease
=============================================================================
