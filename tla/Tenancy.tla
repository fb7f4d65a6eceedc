-------------------------------- MODULE Tenancy --------------------------------
(***************************************************************************)
(* The rows that scope every other part: organizations, users,             *)
(* memberships, workspaces, API keys, profiles and workflow definitions.   *)
(* get_principal and require_role of app/auth.py, the endpoints of         *)
(* app/main.py that write these rows, and seed at startup.                 *)
(*                                                                         *)
(* The endpoints are plain functions: each request is a thread with a      *)
(* database session of its own.  An action is one query or one commit; a   *)
(* query for rows that never change is part of the action behind it, and   *)
(* an insert that is flushed is part of the commit, because other threads  *)
(* only wait for it.  A unique constraint makes a late insert fail.        *)
(*                                                                         *)
(* Rows are known by their unique columns: organizations by slug, users by *)
(* email, memberships by organization and user, workspaces by organization *)
(* and slug, definitions by organization, slug and version.                *)
(***************************************************************************)
EXTENDS Definitions, FiniteSets

CONSTANTS
  Orgs,             \* slugs of organizations
  DefaultOrg,       \* settings.default_organization_slug
  Users,            \* email addresses, stripped and in lower case
  Admin,            \* settings.bootstrap_admin_email
  Keys,             \* API keys
  BootstrapKey,     \* settings.bootstrap_api_key
  NoKey,            \* no API key
  WorkspaceSlugs,   \* slugs a request may give a workspace
  DefinitionNames,  \* slugs and versions a request may give a definition
  Builtin,          \* slug evidence-review, version 1
  Payloads,         \* definitions a request may send
  BuiltinSteps,     \* the steps of the built-in definition
  GivenRoles,       \* roles a request may give a member
  AuthRequired,     \* settings.auth_required
  Threads,          \* request slots of the thread pool
  MaxCrashes,       \* bound on the deaths of the process
  MaxAudit          \* bound on the audit log beyond which requests only read

\* ROLE_RANK.
Rank == [none |-> 0, viewer |-> 10, reviewer |-> 20, operator |-> 30,
         manager |-> 40, admin |-> 50, owner |-> 60]

Roles == DOMAIN Rank

ASSUME TenancyAssumption ==
  /\ DefaultOrg \in Orgs
  /\ Admin \in Users
  /\ BootstrapKey \in Keys \cup {NoKey}
  /\ NoKey \notin Keys \cup Users
  /\ "default" \notin WorkspaceSlugs
  /\ Payloads \subseteq Seq(RawSteps)
  /\ BuiltinSteps \in Seq(RawSteps)
  /\ Accepted(BuiltinSteps)
  /\ Normalized(BuiltinSteps) = BuiltinSteps
  /\ GivenRoles \subseteq Roles \ {"none"}
  /\ AuthRequired \in BOOLEAN
  /\ MaxCrashes \in Nat
  /\ MaxAudit \in Nat

VARIABLES
  orgs,         \* rows of organizations
  users,        \* rows of users
  role,         \* memberships.role, per organization and user; "none": no row
  workspaces,   \* rows of workspaces: organization and slug
  keys,         \* rows of api_keys: whom each key speaks for; NoOwner: no row
  revoked,      \* the keys with a revoked_at
  profiles,     \* rows of profiles: organization and workspace
  definitions,  \* workflow_definitions.definition, per organization and name;
                \* <<>>: no row
  audit,        \* rows of audit_events
  phase,        \* where lifespan is: down, seeded or serving
  pc,           \* where each thread is
  who,          \* its Principal
  with,         \* the API key it was sent
  note,         \* the audit event it is working towards
  crashes       \* deaths of the process so far

rowVars    == <<orgs, users, role, workspaces, keys, revoked, profiles,
                definitions, audit>>
threadVars == <<pc, who, with, note>>
vars       == <<rowVars, phase, threadVars, crashes>>

-----------------------------------------------------------------------------

NoOwner == [org |-> DefaultOrg, user |-> NoKey]
Owners  == [org : Orgs, user : Users] \cup {NoOwner}

Names == DefinitionNames \cup {Builtin}

Workspaces == Orgs \X (WorkspaceSlugs \cup {"default"})

Nobody     == [org |-> DefaultOrg, user |-> Admin, role |-> "none"]
Principals == [org : Orgs, user : Users, role : Roles]

\* An audit event: resource and detail are what resource_id and detail tell.
Event(org, action, resource, detail) ==
  [org |-> org, action |-> action, resource |-> resource, detail |-> detail]

Actions == {"organization_created", "workspace_created", "member_added",
            "api_key_created", "api_key_revoked", "profile_created",
            "definition_created", "none"}

Resources == Orgs \cup Users \cup Keys \cup WorkspaceSlugs \cup {"default"} \cup Names

AuditEvents == [org : Orgs, action : Actions, resource : Resources, detail : Roles]

NoEvent == Event(DefaultOrg, "none", DefaultOrg, "none")

PCs == {"idle", "loaded", "admitted", "known", "unknown", "join",
        "lookup", "builtin", "audit"}

TenancyTypeOK ==
  /\ orgs \subseteq Orgs
  /\ users \subseteq Users
  /\ role \in [Orgs -> [Users -> Roles]]
  /\ workspaces \subseteq Workspaces
  /\ keys \in [Keys -> Owners]
  /\ revoked \subseteq Keys
  /\ profiles \subseteq Orgs \X Workspaces
  /\ definitions \in [Orgs -> [Names -> Seq(RawSteps)]]
  /\ phase \in {"down", "seeded", "serving"}
  /\ pc \in [Threads -> PCs]
  /\ who \in [Threads -> Principals]
  /\ with \in [Threads -> Keys \cup {NoKey}]
  /\ audit \subseteq AuditEvents
  /\ note \in [Threads -> AuditEvents]
  /\ crashes \in Nat

Init ==
  /\ orgs = {}
  /\ users = {}
  /\ role = [o \in Orgs |-> [u \in Users |-> "none"]]
  /\ workspaces = {}
  /\ keys = [k \in Keys |-> NoOwner]
  /\ revoked = {}
  /\ profiles = {}
  /\ definitions = [o \in Orgs |-> [n \in Names |-> <<>>]]
  /\ audit = {}
  /\ phase = "down"
  /\ pc = [t \in Threads |-> "idle"]
  /\ who = [t \in Threads |-> Nobody]
  /\ with = [t \in Threads |-> NoKey]
  /\ note = [t \in Threads |-> NoEvent]
  /\ crashes = 0

-----------------------------------------------------------------------------
(* seed.                                                                   *)

\* Mutant: startup is complete as soon as the default organization exists.
Seed_Once ==
  /\ phase = "down"
  /\ orgs' = orgs \cup {DefaultOrg}
  /\ users' = users \cup {Admin}
  /\ role' = [role EXCEPT ![DefaultOrg][Admin] = "owner"]
  /\ workspaces' = workspaces \cup {<<DefaultOrg, "default">>}
  /\ keys' = [keys EXCEPT ![BootstrapKey] = [org |-> DefaultOrg, user |-> Admin]]
  /\ profiles' = profiles \cup {<<DefaultOrg, <<DefaultOrg, "default">>>>}
  /\ phase' = IF DefaultOrg \in orgs THEN "serving" ELSE "seeded"
  /\ UNCHANGED <<revoked, definitions, audit, threadVars, crashes>>

\* The first commit of seed: whatever is missing of the default organization,
\* its administrator, membership, workspace, key and profiles.
Seed ==
  /\ phase = "down"
  /\ orgs' = orgs \cup {DefaultOrg}
  /\ users' = users \cup {Admin}
  /\ role' = [role EXCEPT ![DefaultOrg][Admin] = IF @ = "none" THEN "owner" ELSE @]
  /\ workspaces' = workspaces \cup {<<DefaultOrg, "default">>}
  /\ keys' = [k \in Keys |->
       IF k = BootstrapKey /\ keys[k] = NoOwner
       THEN [org |-> DefaultOrg, user |-> Admin] ELSE keys[k]]
  /\ profiles' = IF \E p \in profiles : p[1] = DefaultOrg THEN profiles
                 ELSE profiles \cup {<<DefaultOrg, <<DefaultOrg, "default">>>>}
  /\ phase' = "seeded"
  /\ UNCHANGED <<revoked, definitions, audit, threadVars, crashes>>

\* ensure_builtin_definition finds the definition or stores it.
StoreBuiltin(o) ==
  definitions' = [definitions EXCEPT ![o][Builtin] =
                    IF @ = <<>> THEN BuiltinSteps ELSE @]

\* The second commit of seed; then requests are served.
SeedBuiltin ==
  /\ phase = "seeded"
  /\ StoreBuiltin(DefaultOrg)
  /\ phase' = "serving"
  /\ UNCHANGED <<orgs, users, role, workspaces, keys, revoked, profiles, audit,
                 threadVars, crashes>>

\* The process ends and takes its requests along.
Crash ==
  /\ crashes < MaxCrashes
  /\ crashes' = crashes + 1
  /\ phase' = "down"
  /\ pc' = [t \in Threads |-> "idle"]
  /\ who' = [t \in Threads |-> Nobody]
  /\ with' = [t \in Threads |-> NoKey]
  /\ note' = [t \in Threads |-> NoEvent]
  /\ UNCHANGED rowVars

-----------------------------------------------------------------------------
(* get_principal.                                                          *)

Goto(t, l) == pc' = [pc EXCEPT ![t] = l]

\* Thread t answers its request, whatever the status code.
Answer(t) ==
  /\ Goto(t, "idle")
  /\ who' = [who EXCEPT ![t] = Nobody]
  /\ with' = [with EXCEPT ![t] = NoKey]
  /\ note' = [note EXCEPT ![t] = NoEvent]

\* Mutant: a role that is not ranked.
Admit_Unranked(t, o, u) ==
  /\ who' = [who EXCEPT ![t] = [org |-> o, user |-> u, role |-> "member"]]
  /\ Goto(t, "admitted")

\* Thread t goes on as a member of o.
Admit(t, o, u) ==
  /\ who' = [who EXCEPT ![t] = [org |-> o, user |-> u, role |-> role[o][u]]]
  /\ Goto(t, "admitted")

\* Mutant: revoked_at is not looked at.
LoadKey_Revoked(t, k) ==
  /\ phase = "serving"
  /\ pc[t] = "idle"
  /\ keys[k] # NoOwner
  /\ with' = [with EXCEPT ![t] = k]
  /\ Goto(t, "loaded")
  /\ UNCHANGED <<rowVars, phase, who, note, crashes>>

\* The query for the key.  An unknown or revoked key and a header that names
\* another organization than the key's are refused.
LoadKey(t, k) ==
  /\ phase = "serving"
  /\ pc[t] = "idle"
  /\ keys[k] # NoOwner
  /\ k \notin revoked
  /\ with' = [with EXCEPT ![t] = k]
  /\ Goto(t, "loaded")
  /\ UNCHANGED <<rowVars, phase, who, note, crashes>>

\* Mutant: the header's organization instead of the key's.
AdmitKey_HeaderOrg(t) ==
  /\ pc[t] = "loaded"
  /\ \E o \in orgs :
       /\ role[o][keys[with[t]].user] # "none"
       /\ Admit(t, o, keys[with[t]].user)
  /\ UNCHANGED <<rowVars, phase, with, note, crashes>>

\* Mutant: the commit writes the whole row as it was loaded.
AdmitKey_WholeRow(t) ==
  /\ pc[t] = "loaded"
  /\ Admit(t, keys[with[t]].org, keys[with[t]].user)
  /\ revoked' = revoked \ {with[t]}
  /\ UNCHANGED <<orgs, users, role, workspaces, keys, profiles, definitions,
                 audit, phase, with, note, crashes>>

\* The query for the membership, and the commit of last_used_at: the key's
\* other columns keep what the row holds by now.
AdmitKey(t) ==
  /\ pc[t] = "loaded"
  /\ LET owner == keys[with[t]] IN
       IF role[owner.org][owner.user] = "none" THEN Answer(t)
       ELSE Admit(t, owner.org, owner.user) /\ UNCHANGED <<with, note>>
  /\ UNCHANGED <<rowVars, phase, crashes>>

\* _dev_principal: no key was sent and none is asked for.  The header names
\* the organization, or it is the default one.
AdmitDev(t, o) ==
  /\ ~AuthRequired
  /\ phase = "serving"
  /\ pc[t] = "idle"
  /\ role[o][Admin] # "none"
  /\ Admit(t, o, Admin)
  /\ UNCHANGED <<rowVars, phase, with, note, crashes>>

-----------------------------------------------------------------------------
(* The endpoints.                                                          *)

\* require_role let the request of t through.
Allowed(t, minimum) ==
  pc[t] = "admitted" /\ Rank[who[t].role] >= Rank[minimum]

\* The request has changed something and goes on to record_audit.
Report(t, action, resource) ==
  /\ note' = [note EXCEPT ![t] =
                 Event(who[t].org, action, resource, "none")]
  /\ Goto(t, "audit")
  /\ UNCHANGED <<who, with>>

\* A request that only reads, or is refused.
AnswerOnly(t) ==
  /\ pc[t] = "admitted"
  /\ Answer(t)
  /\ UNCHANGED <<rowVars, phase, crashes>>

\* create_organization up to its first commit: organization, owner and default
\* workspace.
CreateOrganization(t, o) ==
  /\ pc[t] = "admitted"
  /\ o \notin orgs
  /\ orgs' = orgs \cup {o}
  /\ role' = [role EXCEPT ![o][who[t].user] = "owner"]
  /\ workspaces' = workspaces \cup {<<o, "default">>}
  /\ note' = [note EXCEPT ![t] = Event(o, "organization_created", o, "none")]
  /\ Goto(t, "lookup")
  /\ UNCHANGED <<users, keys, revoked, profiles, definitions, audit, phase, who,
                 with, crashes>>

\* Mutant: only seed stores the built-in definition.
LookUpBuiltin_Skipped(t) ==
  /\ pc[t] = "lookup"
  /\ Goto(t, "audit")
  /\ UNCHANGED <<rowVars, phase, who, with, note, crashes>>

\* ensure_builtin_definition looks for the definition ...
LookUpBuiltin(t) ==
  /\ pc[t] = "lookup"
  /\ Goto(t, IF definitions[note[t].org][Builtin] = <<>> THEN "builtin" ELSE "audit")
  /\ UNCHANGED <<rowVars, phase, who, with, note, crashes>>

\* ... and inserts it.  A request that got there first makes it fail with an
\* error nobody handles.
InsertBuiltin(t) ==
  /\ pc[t] = "builtin"
  /\ IF definitions[note[t].org][Builtin] = <<>>
     THEN StoreBuiltin(note[t].org) /\ Goto(t, "audit") /\ UNCHANGED <<who, with, note>>
     ELSE Answer(t) /\ UNCHANGED definitions
  /\ UNCHANGED <<orgs, users, role, workspaces, keys, revoked, profiles, audit,
                 phase, crashes>>

CreateWorkspace(t, slug) ==
  LET w == <<who[t].org, slug>> IN
  /\ Allowed(t, "manager")
  /\ w \notin workspaces
  /\ workspaces' = workspaces \cup {w}
  /\ Report(t, "workspace_created", slug)
  /\ UNCHANGED <<orgs, users, role, keys, revoked, profiles, definitions, audit,
                 phase, crashes>>

\* add_member looks the user up ...
LookUpUser(t, u, r) ==
  /\ Allowed(t, "admin")
  /\ note' = [note EXCEPT ![t] =
                 Event(who[t].org, "member_added", u, r)]
  /\ Goto(t, IF u \in users THEN "known" ELSE "unknown")
  /\ UNCHANGED <<rowVars, phase, who, with, crashes>>

\* ... and for a user it found, the membership: there is one already, or the
\* insert comes next.
LookUpMembership(t) ==
  /\ pc[t] = "known"
  /\ IF role[note[t].org][note[t].resource] = "none"
     THEN Goto(t, "join") /\ UNCHANGED <<who, with, note>>
     ELSE Answer(t)
  /\ UNCHANGED <<rowVars, phase, crashes>>

\* Mutant: the later role replaces the earlier one.
Join_Overwrites(t) ==
  /\ pc[t] \in {"unknown", "join"}
  /\ users' = users \cup {note[t].resource}
  /\ role' = [role EXCEPT ![note[t].org][note[t].resource] = note[t].detail]
  /\ Goto(t, "audit")
  /\ UNCHANGED <<orgs, workspaces, keys, revoked, profiles, definitions, audit,
                 phase, who, with, note, crashes>>

\* Mutant: a new user's membership is not logged.
Join_Silent(t) ==
  /\ pc[t] \in {"unknown", "join"}
  /\ role[note[t].org][note[t].resource] = "none"
  /\ users' = users \cup {note[t].resource}
  /\ role' = [role EXCEPT ![note[t].org][note[t].resource] = note[t].detail]
  /\ Answer(t)
  /\ UNCHANGED <<orgs, workspaces, keys, revoked, profiles, definitions, audit,
                 phase, crashes>>

\* The commit of a membership, and of the user when add_member found none.
\* When another request has inserted the same user or membership since the
\* query, nothing is committed and the error is not handled.
Join(t) ==
  LET o == note[t].org
      u == note[t].resource
      taken == IF pc[t] = "unknown" THEN u \in users ELSE role[o][u] # "none"
  IN
  /\ pc[t] \in {"unknown", "join"}
  /\ IF taken
     THEN Answer(t) /\ UNCHANGED <<users, role>>
     ELSE /\ users' = users \cup {u}
          /\ role' = [role EXCEPT ![o][u] = note[t].detail]
          /\ Goto(t, "audit")
          /\ UNCHANGED <<who, with, note>>
  /\ UNCHANGED <<orgs, workspaces, keys, revoked, profiles, definitions, audit,
                 phase, crashes>>

CreateKey(t, k) ==
  /\ Allowed(t, "operator")
  /\ k # BootstrapKey
  /\ keys[k] = NoOwner
  /\ keys' = [keys EXCEPT ![k] = [org |-> who[t].org, user |-> who[t].user]]
  /\ Report(t, "api_key_created", k)
  /\ UNCHANGED <<orgs, users, role, workspaces, revoked, profiles, definitions,
                 audit, phase, crashes>>

\* revoke_api_key of a key of the organization: one's own, or any as owner or
\* admin.
RevokeKey(t, k) ==
  /\ pc[t] = "admitted"
  /\ keys[k] # NoOwner
  /\ keys[k].org = who[t].org
  /\ keys[k].user = who[t].user \/ who[t].role \in {"owner", "admin"}
  /\ revoked' = revoked \cup {k}
  /\ Report(t, "api_key_revoked", k)
  /\ UNCHANGED <<orgs, users, role, workspaces, keys, profiles, definitions,
                 audit, phase, crashes>>

\* create_profile in a workspace of the organization; without one in the
\* request it is the default workspace.
CreateProfile(t, w) ==
  /\ Allowed(t, "operator")
  /\ w \in workspaces
  /\ w[1] = who[t].org
  /\ profiles' = profiles \cup {<<who[t].org, w>>}
  /\ Report(t, "profile_created", w[2])
  /\ UNCHANGED <<orgs, users, role, workspaces, keys, revoked, definitions, audit,
                 phase, crashes>>

\* create_workflow_definition stores what validate_definition returns.
CreateDefinition(t, n, steps) ==
  /\ Allowed(t, "manager")
  /\ Accepted(steps)
  /\ definitions[who[t].org][n] = <<>>
  /\ definitions' = [definitions EXCEPT ![who[t].org][n] = Normalized(steps)]
  /\ Report(t, "definition_created", n)
  /\ UNCHANGED <<orgs, users, role, workspaces, keys, revoked, profiles, audit,
                 phase, crashes>>

\* record_audit, in a commit of its own, and the answer.
RecordAudit(t) ==
  /\ pc[t] = "audit"
  /\ audit' = audit \cup {note[t]}
  /\ Answer(t)
  /\ UNCHANGED <<orgs, users, role, workspaces, keys, revoked, profiles,
                 definitions, phase, crashes>>

-----------------------------------------------------------------------------

Enter(t) == (\E k \in Keys : LoadKey(t, k)) \/ (\E o \in Orgs : AdmitDev(t, o))

Change(t) ==
  \/ \E o \in Orgs : CreateOrganization(t, o)
  \/ \E s \in WorkspaceSlugs : CreateWorkspace(t, s)
  \/ \E u \in Users, r \in GivenRoles : LookUpUser(t, u, r)
  \/ \E k \in Keys : CreateKey(t, k) \/ RevokeKey(t, k)
  \/ \E w \in Workspaces : CreateProfile(t, w)
  \/ \E n \in Names, d \in Payloads : CreateDefinition(t, n, d)

Endpoint(t) == AnswerOnly(t) \/ (Cardinality(audit) < MaxAudit /\ Change(t))

\* The steps of a request that has begun.
ThreadStep(t) ==
  \/ AdmitKey(t) \/ Endpoint(t)
  \/ LookUpBuiltin(t) \/ InsertBuiltin(t)
  \/ LookUpMembership(t) \/ Join(t)
  \/ RecordAudit(t)

Startup == Seed \/ SeedBuiltin

Next ==
  \/ Startup
  \/ \E t \in Threads : Enter(t) \/ ThreadStep(t)
  \/ Crash

Spec == Init /\ [][Next]_vars

\* Threads are scheduled, and a process that is down is started again.
\* Nobody has to send a request.
Fairness == WF_vars(Startup) /\ \A t \in Threads : WF_vars(ThreadStep(t))

FairSpec == Spec /\ Fairness
=============================================================================
