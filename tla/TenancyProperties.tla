--------------------------- MODULE TenancyProperties ---------------------------
(***************************************************************************)
(* What tenancy and access promise, stated over Tenancy.                   *)
(***************************************************************************)
EXTENDS Tenancy

-----------------------------------------------------------------------------
(* Who may do what.                                                        *)

\* The events written, and those whose change is committed already.
Events == audit \cup {note[t] : t \in {u \in Threads : pc[u] = "audit"}}

\* README.md: a scoped API key cannot switch to another organization.  From
\* the key's query to the audit event, whatever is created or revoked for a
\* request with a key lands in the key's organization (or is a new one).
KeysStayInTheirOrg ==
  \A t \in Threads : with[t] # NoKey /\ pc[t] # "loaded" =>
    /\ who[t].org = keys[with[t]].org
    /\ note[t].action \notin {"none", "organization_created"} =>
         note[t].org = keys[with[t]].org

\* Two requests may add one user with different roles: exactly one of them
\* does, the log names it alone, and the role it names is the member's.
MemberEventsAreTrue ==
  \A e \in Events : e.action = "member_added" =>
    /\ role[e.org][e.resource] = e.detail
    /\ \A f \in Events :
         f.action = "member_added" /\ f.org = e.org /\ f.resource = e.resource
           => f = e

\* Until the process dies, every membership a request added and every key a
\* request revoked is in the audit log, or its request is about to log it.
ChangesAreAudited ==
  crashes = 0 =>
    /\ \A o \in Orgs, u \in Users :
         role[o][u] \notin {"none", "owner"} =>
           \E e \in Events :
             e.org = o /\ e.action = "member_added" /\ e.resource = u
    /\ \A k \in revoked :
         \E e \in Events : e.action = "api_key_revoked" /\ e.resource = k

\* The commit of last_used_at does not undo a revocation that came between
\* the key's query and that commit: no request and no restart brings a key back.
RevocationIsFinal == [][revoked \subseteq revoked']_vars

\* A request that was admitted before its key was revoked still runs; but from
\* some time on no request acts with a revoked key.
RevokedKeysFallSilent ==
  \A k \in Keys : k \in revoked ~> [](\A t \in Threads : with[t] # k)

-----------------------------------------------------------------------------
(* What every organization has.                                            *)

\* An organization has an owner and its default workspace whenever anybody can
\* see it, and, until the process dies, the built-in workflow or a request on
\* its way to store it.
OrganizationsAreComplete ==
  \A o \in orgs :
    /\ \E u \in Users : role[o][u] = "owner"
    /\ <<o, "default">> \in workspaces
    /\ \/ crashes > 0
       \/ phase = "seeded"
       \/ definitions[o][Builtin] # <<>>
       \/ \E t \in Threads : pc[t] \in {"lookup", "builtin"} /\ note[t].org = o

\* Wherever the process died before, while requests are served the default
\* organization has its administrator, its key, a profile and the built-in
\* workflow: seed repairs what a startup cut short had left.
ServingIsBootstrapped ==
  phase = "serving" =>
    /\ role[DefaultOrg][Admin] = "owner"
    /\ BootstrapKey = NoKey \/ keys[BootstrapKey] # NoOwner
    /\ \E p \in profiles : p[1] = DefaultOrg
    /\ definitions[DefaultOrg][Builtin] # <<>>

\* What start_run and advance look up by name or position in a stored definition
\* is there: a step, each of a type advance has a branch for; keys that can be
\* the unique keys of the step rows; the prompt of an approval.  Checking the
\* definition again (start_run and every advance do) refuses and changes
\* nothing.  It does not say that the database takes every prompt and kind: a
\* "refused" field is stored like any other (StepRaises of WorkflowEngine).
PassesAgain(steps) ==
  /\ TypesOf(steps) \in Seq(AllowedStepTypes \cup {"refused_prompt", "refused_kind"})
  /\ Len(steps) \in 1..MaxSteps
  /\ \A i, j \in DOMAIN steps : steps[i].key = steps[j].key => i = j
  /\ \A i \in DOMAIN steps :
       steps[i].type = "approval" => steps[i].field \notin {"absent"} \cup FalsyFields
  /\ Normalized(steps) = steps

\* No start and no resumption is ever refused because of the definition: whoever
\* stored it, a stored definition passes validate_definition again, unchanged,
\* so the step rows written at the start stay those of its steps.
StoredDefinitionsPass ==
  \A o \in Orgs, n \in Names :
    definitions[o][n] # <<>> => PassesAgain(definitions[o][n])
=============================================================================
