------------------------------ MODULE Deployment ------------------------------
(***************************************************************************)
(* What one SessionGrid deployment consists of: the tenants and profiles   *)
(* set up before any session starts, the configured limits, and the bounds *)
(* that keep an instance finite.                                           *)
(***************************************************************************)
EXTENDS Integers, Sequences, FiniteSets

CONSTANTS
  Profiles,     \* rows of profiles
  NoProfile,    \* profile of a session id that is not in use yet
  Orgs,         \* rows of organizations
  OrgOf,        \* [Profiles -> Orgs], profiles.organization_id
  Keys,         \* values of the Idempotency-Key header
  NoKey,        \* the header is absent
  Limit,        \* organizations.concurrency_limit
  Capacity,     \* settings.local_worker_capacity
  LeaseTTL,     \* settings.lease_ttl_seconds, in clock ticks
  Requests,     \* request slots: handlers that may be in flight together
  MaxSessions   \* bound on the sessions ever created

ASSUME DeploymentAssumption ==
  /\ NoProfile \notin Profiles
  /\ OrgOf \in [Profiles -> Orgs]
  /\ NoKey \notin Keys
  /\ Limit \in Nat
  /\ Capacity \in Nat
  /\ LeaseTTL \in Nat
  /\ MaxSessions \in Nat

\* Sessions are known by the ids the database hands out.
Sessions == 1..MaxSessions
=============================================================================
