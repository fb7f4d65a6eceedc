----------------------------- MODULE TenancyProofs -----------------------------
(***************************************************************************)
(* Proofs about Definitions and Tenancy, for every set of organizations,   *)
(* users, keys, payloads and threads.                                      *)
(*                                                                         *)
(* The first part is about validate_definition alone.  The second part     *)
(* rests on RowsGrow: whatever requests race and wherever the process      *)
(* dies, no row is lost and no column that is given changes.  A thread     *)
(* may therefore go on with what it has read before its own commit, which  *)
(* is what TInv says of it.                                                *)
(***************************************************************************)
EXTENDS TenancyProperties, SequenceTheorems, TLAPS

-----------------------------------------------------------------------------
(* validate_definition.                                                    *)

\* Filling in defaults changes no key and no type, and is done once.
LEMMA NormalizedStepKeeps ==
  ASSUME NEW step \in RawSteps
  PROVE  /\ NormalizedStep(step) \in RawSteps
         /\ NormalizedStep(step).key = step.key
         /\ NormalizedStep(step).type = step.type
         /\ NormalizedStep(step).field \in {"default", step.field}
         /\ step.type = "approval" => NormalizedStep(step) = step
         /\ NormalizedStep(NormalizedStep(step)) = NormalizedStep(step)
  BY DEF NormalizedStep, RawSteps, AllowedStepTypes, Fields

\* The same, step by step, of a definition.
LEMMA NormalizedKeeps ==
  ASSUME NEW steps \in Seq(RawSteps)
  PROVE  /\ Normalized(steps) \in Seq(RawSteps)
         /\ Len(Normalized(steps)) = Len(steps)
         /\ \A i \in 1..Len(steps) :
              /\ steps[i] \in RawSteps
              /\ Normalized(steps)[i] = NormalizedStep(steps[i])
<1>1. \A i \in 1..Len(steps) : steps[i] \in RawSteps /\ NormalizedStep(steps[i]) \in RawSteps
  BY NormalizedStepKeeps
<1>2. Len(steps) \in Nat
  OBVIOUS
<1>3. Normalized(steps) \in [1..Len(steps) -> RawSteps]
  BY <1>1 DEF Normalized
<1>4. Normalized(steps) \in Seq(RawSteps) /\ Len(Normalized(steps)) = Len(steps)
  <2>1. Normalized(steps) \in Seq(RawSteps)
    BY <1>2, <1>3, SeqDef
  <2>2. DOMAIN Normalized(steps) = 1..Len(steps)
    BY DEF Normalized
  <2> QED
    BY <1>2, <2>1, <2>2, LenProperties
<1> QED
  BY <1>1, <1>4 DEF Normalized

\* start_run and every advance validate the stored definition once more: it is
\* accepted again, and nothing of it changes.
THEOREM ValidatedOnce ==
  ASSUME NEW steps \in Seq(RawSteps), Accepted(steps)
  PROVE  /\ Accepted(Normalized(steps))
         /\ Normalized(Normalized(steps)) = Normalized(steps)
<1>1. /\ Len(Normalized(steps)) = Len(steps)
      /\ \A i \in 1..Len(steps) :
           /\ steps[i] \in RawSteps
           /\ Normalized(steps)[i] = NormalizedStep(steps[i])
  BY NormalizedKeeps
<1>2. Accepted(Normalized(steps))
  <2> SUFFICES ASSUME NEW i \in 1..Len(steps) PROVE StepAccepted(Normalized(steps), i)
    BY <1>1 DEF Accepted
  <2>1. StepAccepted(steps, i)
    BY DEF Accepted
  <2>2. Len(steps) \in Nat /\ \A j \in 1..(i - 1) : j \in 1..Len(steps)
    OBVIOUS
  <2>3. \A j \in 1..Len(steps) :
          /\ Normalized(steps)[j].key = steps[j].key
          /\ Normalized(steps)[j].type = steps[j].type
          /\ steps[j].type = "approval" => Normalized(steps)[j] = steps[j]
    BY <1>1, NormalizedStepKeeps
  <2> QED
    BY <2>1, <2>2, <2>3 DEF StepAccepted
<1>3. Normalized(Normalized(steps)) = Normalized(steps)
  <2>1. \A i \in 1..Len(steps) :
          NormalizedStep(Normalized(steps)[i]) = NormalizedStep(steps[i])
    BY <1>1, NormalizedStepKeeps
  <2> QED
    BY <1>1, <2>1 DEF Normalized
<1> QED
  BY <1>2, <1>3

\* What is accepted and carries its defaults passes again.
LEMMA AcceptedPasses ==
  ASSUME NEW steps \in Seq(RawSteps), Accepted(steps), Normalized(steps) = steps
  PROVE  PassesAgain(steps) /\ steps # <<>>
<1>1. /\ Len(steps) \in Nat /\ Len(steps) >= 1 /\ DOMAIN steps = 1..Len(steps)
      /\ \A i \in 1..Len(steps) : StepAccepted(steps, i) /\ steps[i] \in RawSteps
  BY DEF Accepted
<1>2. TypesOf(steps) \in Seq(AllowedStepTypes \cup {"refused_prompt", "refused_kind"})
  <2> DEFINE T == AllowedStepTypes \cup {"refused_prompt", "refused_kind"}
  <2>1. \A i \in 1..Len(steps) : TypeOf(steps[i]) \in T
    BY <1>1 DEF TypeOf, StepAccepted
  <2>2. TypesOf(steps) \in [1..Len(steps) -> T]
    BY <2>1 DEF TypesOf
  <2> QED
    BY <1>1, <2>2, SeqDef
<1>5. Len(steps) \in 1..MaxSteps /\ steps # <<>>
  BY <1>1, EmptySeq DEF Accepted
<1>3. \A i, j \in DOMAIN steps : steps[i].key = steps[j].key => i = j
  <2> SUFFICES ASSUME NEW i \in 1..Len(steps), NEW j \in 1..Len(steps), j < i
               PROVE  steps[j].key # steps[i].key
    BY <1>1
  <2>1. j \in 1..(i - 1)
    BY <1>1
  <2> QED
    BY <1>1, <2>1 DEF StepAccepted
<1>4. \A i \in DOMAIN steps :
        steps[i].type = "approval" => steps[i].field \notin {"absent"} \cup FalsyFields
  BY <1>1 DEF StepAccepted
<1> QED
  BY <1>2, <1>3, <1>4, <1>5 DEF PassesAgain

\* What create_workflow_definition and ensure_builtin_definition store.
LEMMA StoredPasses ==
  /\ BuiltinSteps \in Seq(RawSteps) /\ PassesAgain(BuiltinSteps) /\ BuiltinSteps # <<>>
  /\ \A d \in Payloads : Accepted(d) =>
       /\ Normalized(d) \in Seq(RawSteps)
       /\ PassesAgain(Normalized(d))
       /\ Normalized(d) # <<>>
  BY TenancyAssumption, AcceptedPasses, ValidatedOnce, NormalizedKeeps

-----------------------------------------------------------------------------
(* The inductive invariant.                                                *)

\* Roles are held in organizations, by users, that have rows.
Members ==
  \A o \in Orgs, u \in Users : role[o][u] # "none" => o \in orgs /\ u \in users

\* A key speaks for a user with a row in an organization with a row.
KeysHaveOwners ==
  \A k \in Keys : keys[k] # NoOwner => keys[k].org \in orgs /\ keys[k].user \in users

\* What a startup has written before requests are served, and what may never
\* come in its way.
Bootstrapped ==
  /\ role[DefaultOrg][Admin] \in {"none", "owner"}
  /\ phase # "down" =>
       /\ role[DefaultOrg][Admin] = "owner"
       /\ BootstrapKey = NoKey \/ keys[BootstrapKey] # NoOwner
       /\ \E p \in profiles : p[1] = DefaultOrg
  /\ phase = "serving" => definitions[DefaultOrg][Builtin] # <<>>

\* The first startup finds nothing, and writes one organization.
FirstStartup ==
  crashes = 0 =>
    /\ phase = "down" => orgs = {}
    /\ phase = "seeded" => orgs = {DefaultOrg}

\* The event of an added member is true.
EventTrue(e) ==
  e.action = "member_added" =>
    /\ e.resource \in Users
    /\ e.detail # "none"
    /\ role[e.org][e.resource] = e.detail

\* What thread t still knows of the rows it has read.
ThreadKnows(t) ==
  /\ pc[t] # "idle" => phase = "serving"
  /\ pc[t] = "idle" => with[t] = NoKey
  /\ pc[t] \in {"idle", "loaded", "admitted"} => note[t] = NoEvent
  /\ pc[t] = "loaded" => with[t] \in Keys /\ keys[with[t]] # NoOwner
  /\ pc[t] \notin {"idle", "loaded"} =>
       /\ who[t].org \in orgs /\ who[t].user \in users
       /\ with[t] # NoKey => keys[with[t]] # NoOwner /\ who[t].org = keys[with[t]].org
       /\ note[t].action \notin {"none", "organization_created"} => note[t].org = who[t].org
  /\ pc[t] \in {"known", "unknown", "join"} =>
       /\ note[t].action = "member_added"
       /\ note[t].resource \in Users
       /\ note[t].detail # "none"
  /\ pc[t] \in {"lookup", "builtin"} => note[t].action = "organization_created"
  /\ pc[t] = "audit" => EventTrue(note[t])

TInv ==
  /\ TenancyTypeOK
  /\ Members
  /\ KeysHaveOwners
  /\ Bootstrapped
  /\ FirstStartup
  /\ StoredDefinitionsPass
  /\ OrganizationsAreComplete
  /\ ChangesAreAudited
  /\ \A e \in audit : EventTrue(e)
  /\ \A t \in Threads : ThreadKnows(t)

\* No row is lost, and no column changes that was given a value.
RowsGrow ==
  /\ orgs \subseteq orgs' /\ users \subseteq users'
  /\ \A o \in Orgs, u \in Users : role[o][u] # "none" => role'[o][u] = role[o][u]
  /\ workspaces \subseteq workspaces'
  /\ \A k \in Keys : keys[k] # NoOwner => keys'[k] = keys[k]
  /\ revoked \subseteq revoked'
  /\ profiles \subseteq profiles'
  /\ \A o \in Orgs, n \in Names :
       definitions[o][n] # <<>> => definitions'[o][n] = definitions[o][n]
  /\ audit \subseteq audit'

\* The roles the program itself gives or compares with.
LEMMA RolesHave == {"none", "owner", "admin"} \subseteq Roles
  BY DEF Roles, Rank

\* The constants' memberships that most steps need.
LEMMA NamesHave ==
  /\ DefaultOrg \in Orgs /\ Admin \in Users /\ Builtin \in Names
  /\ \A o \in Orgs : <<o, "default">> \in Workspaces
  /\ NoOwner \in Owners /\ NoOwner.user \notin Users
  /\ Nobody \in Principals
  /\ NoEvent \in AuditEvents /\ NoEvent.action = "none"
  BY TenancyAssumption, RolesHave
  DEF Names, Workspaces, NoOwner, Owners, Nobody, Principals, NoEvent, Event,
      AuditEvents, Actions, Resources

LEMMA TenancyStarts == Init => TInv
<1> SUFFICES ASSUME Init PROVE TInv
  OBVIOUS
<1>1. TenancyTypeOK
  BY NamesHave, RolesHave, EmptySeq DEF Init, TenancyTypeOK, PCs
<1>2. \A t \in Threads : ThreadKnows(t)
  BY DEF Init, ThreadKnows
<1> QED
  BY <1>1, <1>2, NamesHave
  DEF Init, TInv, Members, KeysHaveOwners, Bootstrapped, FirstStartup,
      StoredDefinitionsPass, OrganizationsAreComplete, ChangesAreAudited

\* The commits of startup only add what is missing.
LEMMA StartupGrows == ASSUME TInv, Startup PROVE RowsGrow
<1> USE NamesHave DEF TInv, TenancyTypeOK, RowsGrow
<1>1. CASE Seed
  <2>1. \A k \in Keys : keys[k] # NoOwner => keys'[k] = keys[k]
    BY <1>1 DEF Seed
  <2>2. \A o \in Orgs, u \in Users : role[o][u] # "none" => role'[o][u] = role[o][u]
    BY <1>1 DEF Seed
  <2>3. profiles \subseteq profiles'
    BY <1>1 DEF Seed
  <2> QED
    BY <1>1, <2>1, <2>2, <2>3 DEF Seed
<1>2. CASE SeedBuiltin
  BY <1>2 DEF SeedBuiltin, StoreBuiltin
<1> QED
  BY <1>1, <1>2 DEF Startup

\* So do the commits of a request.
LEMMA ThreadGrows ==
  ASSUME TInv, NEW t \in Threads, Enter(t) \/ ThreadStep(t)
  PROVE  RowsGrow
<1> USE NamesHave DEF TInv, TenancyTypeOK, RowsGrow, rowVars
<1>0. who[t].org \in Orgs /\ who[t].user \in Users /\ note[t].org \in Orgs
  BY DEF Principals, AuditEvents
<1>1. CASE UNCHANGED rowVars
  BY <1>1
<1>2. ASSUME NEW o \in Orgs, CreateOrganization(t, o) PROVE RowsGrow
  <2>1. \A p \in Orgs, u \in Users : role[p][u] # "none" => role'[p][u] = role[p][u]
    BY <1>0, <1>2 DEF CreateOrganization, Members
  <2> QED
    BY <1>2, <2>1 DEF CreateOrganization
<1>3. CASE InsertBuiltin(t)
  <2>1. \A o \in Orgs, n \in Names :
          definitions[o][n] # <<>> => definitions'[o][n] = definitions[o][n]
    <3>1. CASE definitions[note[t].org][Builtin] = <<>>
      <4>1. definitions' = [definitions EXCEPT ![note[t].org][Builtin] = BuiltinSteps]
        BY <1>3, <3>1 DEF InsertBuiltin, StoreBuiltin
      <4> QED
        BY <1>0, <3>1, <4>1
    <3>2. CASE definitions[note[t].org][Builtin] # <<>>
      BY <1>3, <3>2 DEF InsertBuiltin
    <3> QED
      BY <3>1, <3>2
  <2> QED
    BY <1>3, <2>1 DEF InsertBuiltin
<1>4. ASSUME NEW s \in WorkspaceSlugs, CreateWorkspace(t, s) PROVE RowsGrow
  BY <1>4 DEF CreateWorkspace
<1>5. CASE Join(t)
  <2>1. \A p \in Orgs, u \in Users : role[p][u] # "none" => role'[p][u] = role[p][u]
    <3>1. note[t].resource \in Users
      BY <1>5 DEF Join, ThreadKnows
    <3>2. CASE UNCHANGED role
      BY <3>2
    <3>3. CASE /\ role[note[t].org][note[t].resource] = "none"
               /\ role' = [role EXCEPT ![note[t].org][note[t].resource] = note[t].detail]
      BY <1>0, <3>1, <3>3
    <3> QED
      BY <1>0, <1>5, <3>1, <3>2, <3>3 DEF Join, Members
  <2> QED
    BY <1>5, <2>1 DEF Join
<1>6. ASSUME NEW k \in Keys, CreateKey(t, k) \/ RevokeKey(t, k) PROVE RowsGrow
  BY <1>6 DEF CreateKey, RevokeKey
<1>7. ASSUME NEW w \in Workspaces, CreateProfile(t, w) PROVE RowsGrow
  BY <1>7 DEF CreateProfile
<1>8. ASSUME NEW n \in Names, NEW d \in Payloads, CreateDefinition(t, n, d) PROVE RowsGrow
  BY <1>0, <1>8 DEF CreateDefinition
<1>9. CASE RecordAudit(t)
  BY <1>9 DEF RecordAudit
<1>10. CASE Enter(t) \/ AdmitKey(t) \/ AnswerOnly(t) \/ LookUpBuiltin(t) \/ LookUpMembership(t)
  BY <1>1, <1>10 DEF Enter, LoadKey, AdmitDev, AdmitKey, AnswerOnly, LookUpBuiltin,
     LookUpMembership
<1>11. ASSUME NEW u \in Users, NEW r \in GivenRoles, LookUpUser(t, u, r) PROVE RowsGrow
  BY <1>1, <1>11 DEF LookUpUser
<1> QED
  BY <1>2, <1>3, <1>4, <1>5, <1>6, <1>7, <1>8, <1>9, <1>10, <1>11
  DEF ThreadStep, Endpoint, Change

LEMMA AllRowsGrow == ASSUME TInv, [Next]_vars PROVE RowsGrow
<1>1. CASE Crash \/ UNCHANGED vars
  BY <1>1 DEF Crash, vars, rowVars, RowsGrow
<1> QED
  BY <1>1, StartupGrows, ThreadGrows DEF Next

-----------------------------------------------------------------------------
(* Threads.                                                                *)

\* A thread that has answered holds nothing.
LEMMA AnswerEnds ==
  ASSUME TenancyTypeOK, NEW t \in Threads, Answer(t)
  PROVE  /\ pc' \in [Threads -> PCs] /\ who' \in [Threads -> Principals]
         /\ with' \in [Threads -> Keys \cup {NoKey}]
         /\ note' \in [Threads -> AuditEvents]
         /\ pc'[t] = "idle" /\ with'[t] = NoKey /\ note'[t] = NoEvent
         /\ \A u \in Threads \ {t} :
              pc'[u] = pc[u] /\ who'[u] = who[u] /\ with'[u] = with[u] /\ note'[u] = note[u]
  BY NamesHave DEF TenancyTypeOK, Answer, Goto, PCs

\* A step of a request leaves the other requests alone.
LEMMA OneThread ==
  ASSUME TInv, NEW t \in Threads, Enter(t) \/ ThreadStep(t)
  PROVE  /\ phase = "serving" /\ UNCHANGED <<phase, crashes>>
         /\ pc' \in [Threads -> PCs] /\ who' \in [Threads -> Principals]
         /\ with' \in [Threads -> Keys \cup {NoKey}]
         /\ note' \in [Threads -> AuditEvents]
         /\ \A u \in Threads \ {t} :
              pc'[u] = pc[u] /\ who'[u] = who[u] /\ with'[u] = with[u] /\ note'[u] = note[u]
<1> DEFINE Goal ==
      /\ phase = "serving" /\ UNCHANGED <<phase, crashes>>
      /\ pc' \in [Threads -> PCs] /\ who' \in [Threads -> Principals]
      /\ with' \in [Threads -> Keys \cup {NoKey}]
      /\ note' \in [Threads -> AuditEvents]
      /\ \A u \in Threads \ {t} :
           pc'[u] = pc[u] /\ who'[u] = who[u] /\ with'[u] = with[u] /\ note'[u] = note[u]
<1> USE DEF TInv
<1>0. /\ pc \in [Threads -> PCs] /\ who \in [Threads -> Principals]
      /\ with \in [Threads -> Keys \cup {NoKey}] /\ note \in [Threads -> AuditEvents]
      /\ role \in [Orgs -> [Users -> Roles]] /\ keys \in [Keys -> Owners]
  BY DEF TenancyTypeOK
<1>1. pc[t] # "idle" => phase = "serving"
  BY DEF ThreadKnows
<1>2. ASSUME NEW o \in Orgs, NEW u \in Users
      PROVE  [org |-> o, user |-> u, role |-> role[o][u]] \in Principals
  BY <1>0 DEF Principals
<1>3. ASSUME NEW o \in Orgs, NEW a \in Actions, NEW r \in Resources, NEW d \in Roles
      PROVE  Event(o, a, r, d) \in AuditEvents
  BY DEF Event, AuditEvents
<1>4. who[t].org \in Orgs
  BY <1>0 DEF Principals
<1>5. ASSUME Answer(t), pc[t] # "idle", UNCHANGED <<phase, crashes>> PROVE Goal
  BY <1>1, <1>5, AnswerEnds
<1>6. ASSUME NEW l \in PCs, Goto(t, l), pc[t] # "idle",
             UNCHANGED <<phase, crashes, who, with, note>>
      PROVE  Goal
  BY <1>0, <1>1, <1>6 DEF Goto
<1>7. ASSUME NEW a \in Actions, NEW r \in Resources, Report(t, a, r), pc[t] # "idle",
             UNCHANGED <<phase, crashes>>
      PROVE  Goal
  <2>1. Event(who[t].org, a, r, "none") \in AuditEvents
    BY <1>3, <1>4, RolesHave
  <2> QED
    BY <1>0, <1>1, <1>7, <2>1 DEF Report, Goto, PCs
<1>8. ASSUME NEW k \in Keys, LoadKey(t, k) PROVE Goal
  BY <1>0, <1>8 DEF LoadKey, Goto, PCs, rowVars
<1>9. ASSUME NEW o \in Orgs, AdmitDev(t, o) PROVE Goal
  BY <1>0, <1>2, <1>9, NamesHave DEF AdmitDev, Admit, Goto, PCs
<1>10. CASE AdmitKey(t)
  <2>1. with[t] \in Keys /\ keys[with[t]] # NoOwner
    BY <1>10 DEF AdmitKey, ThreadKnows
  <2>2. keys[with[t]].org \in Orgs /\ keys[with[t]].user \in Users
    BY <1>0, <2>1 DEF Owners
  <2>3. CASE Answer(t)
    BY <1>5, <1>10, <2>3 DEF AdmitKey
  <2>4. CASE Admit(t, keys[with[t]].org, keys[with[t]].user) /\ UNCHANGED <<with, note>>
    BY <1>0, <1>1, <1>2, <1>10, <2>2, <2>4 DEF AdmitKey, Admit, Goto, PCs
  <2> QED
    BY <1>10, <2>3, <2>4 DEF AdmitKey
<1>11. CASE AnswerOnly(t)
  BY <1>5, <1>11 DEF AnswerOnly
<1>12. ASSUME NEW o \in Orgs, CreateOrganization(t, o) PROVE Goal
  <2>1. Event(o, "organization_created", o, "none") \in AuditEvents
    BY <1>3, RolesHave DEF Actions, Resources
  <2> QED
    BY <1>0, <1>1, <1>12, <2>1 DEF CreateOrganization, Goto, PCs
<1>13. CASE LookUpBuiltin(t)
  BY <1>6, <1>13 DEF LookUpBuiltin, PCs
<1>14. CASE InsertBuiltin(t)
  BY <1>5, <1>6, <1>14 DEF InsertBuiltin, PCs
<1>15. ASSUME NEW s \in WorkspaceSlugs, CreateWorkspace(t, s) PROVE Goal
  BY <1>7, <1>15 DEF CreateWorkspace, Allowed, Actions, Resources
<1>16. ASSUME NEW u \in Users, NEW r \in GivenRoles, LookUpUser(t, u, r) PROVE Goal
  <2>1. Event(who[t].org, "member_added", u, r) \in AuditEvents
    BY <1>3, <1>4, TenancyAssumption DEF Actions, Resources
  <2> QED
    BY <1>0, <1>1, <1>16, <2>1 DEF LookUpUser, Allowed, Goto, PCs
<1>17. CASE LookUpMembership(t)
  BY <1>5, <1>6, <1>17 DEF LookUpMembership, PCs
<1>18. CASE Join(t)
  BY <1>5, <1>6, <1>18 DEF Join, PCs
<1>19. ASSUME NEW k \in Keys, CreateKey(t, k) \/ RevokeKey(t, k) PROVE Goal
  BY <1>7, <1>19 DEF CreateKey, RevokeKey, Allowed, Actions, Resources
<1>20. ASSUME NEW w \in Workspaces, CreateProfile(t, w) PROVE Goal
  <2>1. w[2] \in Resources
    BY <1>20 DEF Workspaces, Resources
  <2> QED
    BY <1>7, <1>20, <2>1 DEF CreateProfile, Allowed, Actions
<1>21. ASSUME NEW n \in Names, NEW d \in Payloads, CreateDefinition(t, n, d) PROVE Goal
  BY <1>7, <1>21 DEF CreateDefinition, Allowed, Actions, Resources
<1>22. CASE RecordAudit(t)
  BY <1>5, <1>22 DEF RecordAudit
<1> QED
  BY <1>8, <1>9, <1>10, <1>11, <1>12, <1>13, <1>14, <1>15, <1>16, <1>17, <1>18,
     <1>19, <1>20, <1>21, <1>22 DEF Enter, ThreadStep, Endpoint, Change

\* What a thread knows outlives the steps of the others.
LEMMA OthersKnow ==
  ASSUME TInv, RowsGrow, NEW u \in Threads, UNCHANGED phase,
         pc'[u] = pc[u], who'[u] = who[u], with'[u] = with[u], note'[u] = note[u]
  PROVE  ThreadKnows(u)'
<1>1. ThreadKnows(u) /\ note[u].org \in Orgs /\ with[u] \in Keys \cup {NoKey}
  BY DEF TInv, TenancyTypeOK, AuditEvents
<1>2. EventTrue(note[u]) => EventTrue(note[u])'
  BY <1>1 DEF EventTrue, RowsGrow
<1> QED
  BY <1>1, <1>2 DEF ThreadKnows, RowsGrow, EventTrue

\* What a thread knows after a step of its own.
LEMMA StepKnows ==
  ASSUME TInv, RowsGrow, NEW t \in Threads, Enter(t) \/ ThreadStep(t)
  PROVE  ThreadKnows(t)'
<1> DEFINE Goal == ThreadKnows(t)'
<1> USE DEF TInv, TenancyTypeOK
<1>0. /\ ThreadKnows(t) /\ phase' = "serving" /\ NoKey \notin Keys
      /\ note[t].org \in Orgs /\ who[t].org \in Orgs /\ who[t].user \in Users
      /\ with[t] \in Keys \cup {NoKey}
  BY OneThread, TenancyAssumption DEF AuditEvents, Principals
<1>1. ASSUME Answer(t) PROVE Goal
  BY <1>0, <1>1, AnswerEnds DEF ThreadKnows
<1>2. ASSUME pc[t] \notin {"idle", "loaded"}, NEW l \in PCs \ {"loaded"}, pc'[t] = l,
             who'[t] = who[t], with'[t] = with[t]
      PROVE  /\ who'[t].org \in orgs' /\ who'[t].user \in users'
             /\ with'[t] # NoKey => keys'[with'[t]] # NoOwner
                                    /\ who'[t].org = keys'[with'[t]].org
  BY <1>0, <1>2 DEF ThreadKnows, RowsGrow
<1>3. ASSUME NEW a \in Actions \ {"none", "member_added"}, NEW r \in Resources,
             Report(t, a, r), pc[t] = "admitted"
      PROVE  Goal
  <2>1. /\ pc'[t] = "audit" /\ who'[t] = who[t] /\ with'[t] = with[t]
        /\ note'[t].action = a /\ note'[t].org = who[t].org
    BY <1>3 DEF Report, Goto, Event, PCs
  <2>2. "audit" \in PCs \ {"loaded"}
    BY DEF PCs
  <2> QED
    BY <1>0, <1>2, <1>3, <2>1, <2>2 DEF ThreadKnows, EventTrue
<1>4. ASSUME NEW l \in {"lookup", "builtin", "known", "unknown", "join"},
             pc[t] = l, NEW m \in PCs, Goto(t, m), UNCHANGED <<who, with, note>>,
             \/ l \in {"lookup", "builtin"} /\ m \in {"builtin", "audit"}
             \/ l = "known" /\ m = "join"
      PROVE  Goal
  <2>1. pc'[t] = m /\ who'[t] = who[t] /\ with'[t] = with[t] /\ note'[t] = note[t]
    BY <1>4 DEF Goto
  <2>2. m # "loaded" /\ m # "idle" /\ m # "admitted"
    BY <1>4
  <2> QED
    BY <1>0, <1>2, <1>4, <2>1, <2>2 DEF ThreadKnows, EventTrue
<1>5. ASSUME NEW k \in Keys, LoadKey(t, k) PROVE Goal
  BY <1>0, <1>5 DEF LoadKey, Goto, ThreadKnows, rowVars
<1>6. ASSUME NEW o \in Orgs, NEW u \in Users, role[o][u] # "none", Admit(t, o, u),
             UNCHANGED <<rowVars, with, note>>, note[t] = NoEvent,
             with[t] = NoKey \/ (keys[with[t]] # NoOwner /\ keys[with[t]].org = o)
      PROVE  Goal
  <2>1. /\ pc'[t] = "admitted" /\ who'[t].org = o /\ who'[t].user = u
    BY <1>6 DEF Admit, Goto
  <2>2. o \in orgs /\ u \in users
    BY <1>6 DEF Members
  <2> QED
    BY <1>0, <1>6, <2>1, <2>2, NamesHave DEF ThreadKnows, rowVars
<1>7. ASSUME NEW o \in Orgs, AdmitDev(t, o) PROVE Goal
  BY <1>0, <1>6, <1>7, NamesHave DEF AdmitDev, ThreadKnows
<1>8. CASE AdmitKey(t)
  <2>1. with[t] \in Keys /\ keys[with[t]] # NoOwner /\ note[t] = NoEvent
    BY <1>0, <1>8 DEF AdmitKey, ThreadKnows
  <2>2. keys[with[t]].org \in Orgs /\ keys[with[t]].user \in Users
    BY <2>1 DEF Owners
  <2> QED
    BY <1>1, <1>6, <1>8, <2>1, <2>2 DEF AdmitKey
<1>9. ASSUME NEW o \in Orgs, CreateOrganization(t, o) PROVE Goal
  <2>1. /\ pc[t] = "admitted" /\ pc'[t] = "lookup" /\ who'[t] = who[t]
        /\ with'[t] = with[t] /\ note'[t].action = "organization_created"
    BY <1>9 DEF CreateOrganization, Goto, Event
  <2>2. "lookup" \in PCs \ {"loaded"}
    BY DEF PCs
  <2> QED
    BY <1>0, <1>2, <2>1, <2>2 DEF ThreadKnows
<1>10. CASE LookUpBuiltin(t) \/ InsertBuiltin(t)
  BY <1>1, <1>4, <1>10 DEF LookUpBuiltin, InsertBuiltin, PCs
<1>11. ASSUME NEW u \in Users, NEW r \in GivenRoles, LookUpUser(t, u, r) PROVE Goal
  <2>1. /\ pc[t] = "admitted" /\ pc'[t] \in {"known", "unknown"} /\ who'[t] = who[t]
        /\ with'[t] = with[t] /\ note'[t] = Event(who[t].org, "member_added", u, r)
    BY <1>11 DEF LookUpUser, Allowed, Goto
  <2>2. {"known", "unknown"} \subseteq PCs \ {"loaded"}
    BY DEF PCs
  <2>3. r # "none"
    BY TenancyAssumption
  <2> QED
    BY <1>0, <1>2, <2>1, <2>2, <2>3 DEF ThreadKnows, Event
<1>12. CASE LookUpMembership(t)
  BY <1>1, <1>4, <1>12 DEF LookUpMembership, PCs
<1>13. CASE Join(t)
  <2>1. /\ pc[t] \in {"unknown", "join"} /\ note[t].action = "member_added"
        /\ note[t].resource \in Users /\ note[t].detail # "none"
    BY <1>0, <1>13 DEF Join, ThreadKnows
  <2>2. CASE /\ Goto(t, "audit") /\ UNCHANGED <<who, with, note>>
             /\ role' = [role EXCEPT ![note[t].org][note[t].resource] = note[t].detail]
    <3>1. /\ pc'[t] = "audit" /\ who'[t] = who[t] /\ with'[t] = with[t]
          /\ note'[t] = note[t]
      BY <2>2 DEF Goto
    <3>2. "audit" \in PCs \ {"loaded"}
      BY DEF PCs
    <3>3. role'[note[t].org][note[t].resource] = note[t].detail
      BY <1>0, <2>1, <2>2
    <3>4. EventTrue(note[t])'
      BY <2>1, <3>1, <3>3 DEF EventTrue
    <3> QED
      BY <1>0, <1>2, <2>1, <3>1, <3>2, <3>4 DEF ThreadKnows
  <2> QED
    BY <1>1, <1>13, <2>2 DEF Join
<1>14. ASSUME NEW s \in WorkspaceSlugs, CreateWorkspace(t, s) PROVE Goal
  BY <1>3, <1>14 DEF CreateWorkspace, Allowed, Actions, Resources
<1>15. ASSUME NEW k \in Keys, CreateKey(t, k) \/ RevokeKey(t, k) PROVE Goal
  BY <1>3, <1>15 DEF CreateKey, RevokeKey, Allowed, Actions, Resources
<1>16. ASSUME NEW w \in Workspaces, CreateProfile(t, w) PROVE Goal
  BY <1>3, <1>16 DEF CreateProfile, Allowed, Actions, Workspaces, Resources
<1>17. ASSUME NEW n \in Names, NEW d \in Payloads, CreateDefinition(t, n, d) PROVE Goal
  BY <1>3, <1>17 DEF CreateDefinition, Allowed, Actions, Resources
<1>18. CASE AnswerOnly(t) \/ RecordAudit(t)
  BY <1>1, <1>18 DEF AnswerOnly, RecordAudit
<1> QED
  BY <1>5, <1>7, <1>8, <1>9, <1>10, <1>11, <1>12, <1>13, <1>14, <1>15, <1>16,
     <1>17, <1>18 DEF Enter, ThreadStep, Endpoint, Change

-----------------------------------------------------------------------------
(* What the steps of a request write.                                      *)

\* A membership is the caller's in an organization it creates, or the one its
\* event names.
LEMMA RolesWritten ==
  ASSUME TInv, NEW t \in Threads, Enter(t) \/ ThreadStep(t)
  PROVE  \/ UNCHANGED <<orgs, users, role>>
         \/ \E o \in Orgs \ orgs :
              /\ pc[t] = "admitted"
              /\ orgs' = orgs \cup {o} /\ users' = users
              /\ role' = [role EXCEPT ![o][who[t].user] = "owner"]
              /\ <<o, "default">> \in workspaces'
              /\ pc'[t] = "lookup" /\ note'[t].org = o
         \/ /\ pc[t] \in {"unknown", "join"}
            /\ orgs' = orgs /\ users' = users \cup {note[t].resource}
            /\ role[note[t].org][note[t].resource] = "none"
            /\ role' = [role EXCEPT ![note[t].org][note[t].resource] = note[t].detail]
            /\ pc'[t] = "audit" /\ note'[t] = note[t]
<1> USE DEF TInv, TenancyTypeOK
<1>1. ASSUME NEW o \in Orgs, CreateOrganization(t, o)
      PROVE  /\ o \in Orgs \ orgs /\ pc[t] = "admitted"
             /\ orgs' = orgs \cup {o} /\ users' = users
             /\ role' = [role EXCEPT ![o][who[t].user] = "owner"]
             /\ <<o, "default">> \in workspaces'
             /\ pc'[t] = "lookup" /\ note'[t].org = o
  BY <1>1 DEF CreateOrganization, Goto, Event
<1>2. CASE Join(t)
  <2>1. note[t].resource \in Users /\ note[t].org \in Orgs
    BY <1>2 DEF Join, ThreadKnows, AuditEvents
  <2>2. CASE UNCHANGED <<users, role>>
    BY <1>2, <2>2 DEF Join
  <2>3. CASE ~ IF pc[t] = "unknown" THEN note[t].resource \in users
               ELSE role[note[t].org][note[t].resource] # "none"
    <3>1. role[note[t].org][note[t].resource] = "none"
      BY <2>1, <2>3 DEF Members
    <3> QED
      BY <1>2, <2>3, <3>1 DEF Join, Goto
  <2> QED
    BY <1>2, <2>2, <2>3 DEF Join
<1>3. CASE UNCHANGED <<orgs, users, role>>
  BY <1>3
<1>4. CASE Enter(t) \/ AdmitKey(t) \/ AnswerOnly(t) \/ LookUpBuiltin(t)
           \/ InsertBuiltin(t) \/ LookUpMembership(t) \/ RecordAudit(t)
  BY <1>3, <1>4 DEF Enter, LoadKey, AdmitDev, AdmitKey, AnswerOnly, LookUpBuiltin,
     InsertBuiltin, LookUpMembership, RecordAudit, rowVars
<1>5. CASE \/ \E s \in WorkspaceSlugs : CreateWorkspace(t, s)
           \/ \E u \in Users, r \in GivenRoles : LookUpUser(t, u, r)
           \/ \E k \in Keys : CreateKey(t, k) \/ RevokeKey(t, k)
           \/ \E w \in Workspaces : CreateProfile(t, w)
           \/ \E n \in Names, d \in Payloads : CreateDefinition(t, n, d)
  BY <1>3, <1>5 DEF CreateWorkspace, LookUpUser, CreateKey, RevokeKey, CreateProfile,
     CreateDefinition, rowVars
<1> QED
  BY <1>1, <1>2, <1>4, <1>5 DEF ThreadStep, Endpoint, Change

\* Keys are created for the caller; a revocation is on its way to the log.
LEMMA KeysWritten ==
  ASSUME TInv, NEW t \in Threads, Enter(t) \/ ThreadStep(t)
  PROVE  /\ \/ keys' = keys
            \/ \E k \in Keys :
                 /\ pc[t] = "admitted" /\ k # BootstrapKey /\ keys[k] = NoOwner
                 /\ keys' = [keys EXCEPT ![k] = [org |-> who[t].org, user |-> who[t].user]]
         /\ \/ revoked' = revoked
            \/ \E k \in Keys :
                 /\ revoked' = revoked \cup {k}
                 /\ pc'[t] = "audit"
                 /\ note'[t].action = "api_key_revoked" /\ note'[t].resource = k
<1> USE DEF TInv, TenancyTypeOK
<1>1. ASSUME NEW k \in Keys, CreateKey(t, k)
      PROVE  /\ pc[t] = "admitted" /\ k # BootstrapKey /\ keys[k] = NoOwner
             /\ keys' = [keys EXCEPT ![k] = [org |-> who[t].org, user |-> who[t].user]]
             /\ revoked' = revoked
  BY <1>1 DEF CreateKey, Allowed
<1>2. ASSUME NEW k \in Keys, RevokeKey(t, k)
      PROVE  /\ keys' = keys /\ revoked' = revoked \cup {k}
             /\ pc'[t] = "audit"
             /\ note'[t].action = "api_key_revoked" /\ note'[t].resource = k
  BY <1>2 DEF RevokeKey, Report, Goto, Event
<1>3. CASE UNCHANGED <<keys, revoked>>
  BY <1>3
<1>4. CASE Enter(t) \/ AdmitKey(t) \/ AnswerOnly(t) \/ LookUpBuiltin(t)
           \/ InsertBuiltin(t) \/ LookUpMembership(t) \/ Join(t) \/ RecordAudit(t)
  BY <1>3, <1>4 DEF Enter, LoadKey, AdmitDev, AdmitKey, AnswerOnly, LookUpBuiltin,
     InsertBuiltin, LookUpMembership, Join, RecordAudit, rowVars
<1>5. CASE \/ \E o \in Orgs : CreateOrganization(t, o)
           \/ \E s \in WorkspaceSlugs : CreateWorkspace(t, s)
           \/ \E u \in Users, r \in GivenRoles : LookUpUser(t, u, r)
           \/ \E w \in Workspaces : CreateProfile(t, w)
           \/ \E n \in Names, d \in Payloads : CreateDefinition(t, n, d)
  BY <1>3, <1>5 DEF CreateOrganization, CreateWorkspace, LookUpUser, CreateProfile,
     CreateDefinition, rowVars
<1> QED
  BY <1>1, <1>2, <1>4, <1>5 DEF ThreadStep, Endpoint, Change

\* A definition is stored once, runnable; the request that creates an
\* organization goes on until it has the built-in one.
LEMMA DefinitionsWritten ==
  ASSUME TInv, NEW t \in Threads, Enter(t) \/ ThreadStep(t)
  PROVE  /\ \/ definitions' = definitions
            \/ \E o \in Orgs, n \in Names, d \in Seq(RawSteps) :
                 /\ PassesAgain(d) /\ d # <<>>
                 /\ definitions' = [definitions EXCEPT ![o][n] = d]
         /\ pc[t] \in {"lookup", "builtin"} =>
              \/ pc'[t] \in {"lookup", "builtin"} /\ note'[t] = note[t]
              \/ definitions'[note[t].org][Builtin] # <<>>
<1> USE NamesHave DEF TInv, TenancyTypeOK
<1>0. note[t].org \in Orgs /\ who[t].org \in Orgs
  BY DEF AuditEvents, Principals
<1>1. CASE LookUpBuiltin(t)
  BY <1>1 DEF LookUpBuiltin, Goto, rowVars
<1>2. CASE InsertBuiltin(t)
  <2>1. CASE definitions[note[t].org][Builtin] = <<>>
    <3>1. definitions' = [definitions EXCEPT ![note[t].org][Builtin] = BuiltinSteps]
      BY <1>2, <2>1 DEF InsertBuiltin, StoreBuiltin
    <3>2. definitions'[note[t].org][Builtin] # <<>>
      BY <1>0, <3>1, StoredPasses
    <3> QED
      BY <1>0, <3>1, <3>2, StoredPasses
  <2>2. CASE definitions[note[t].org][Builtin] # <<>>
    BY <1>2, <2>2 DEF InsertBuiltin
  <2> QED
    BY <2>1, <2>2
<1>3. ASSUME NEW n \in Names, NEW d \in Payloads, CreateDefinition(t, n, d)
      PROVE  /\ pc[t] = "admitted"
             /\ \E e \in Seq(RawSteps) :
                  /\ PassesAgain(e) /\ e # <<>>
                  /\ definitions' = [definitions EXCEPT ![who[t].org][n] = e]
  BY <1>3, StoredPasses DEF CreateDefinition, Allowed
<1>4. CASE definitions' = definitions /\ pc[t] \notin {"lookup", "builtin"}
  BY <1>4
<1>5. CASE Enter(t) \/ AdmitKey(t) \/ AnswerOnly(t) \/ LookUpMembership(t) \/ Join(t)
           \/ RecordAudit(t)
  BY <1>4, <1>5 DEF Enter, LoadKey, AdmitDev, AdmitKey, AnswerOnly, LookUpMembership,
     Join, RecordAudit, rowVars
<1>6. CASE \/ \E o \in Orgs : CreateOrganization(t, o)
           \/ \E s \in WorkspaceSlugs : CreateWorkspace(t, s)
           \/ \E u \in Users, r \in GivenRoles : LookUpUser(t, u, r)
           \/ \E k \in Keys : CreateKey(t, k) \/ RevokeKey(t, k)
           \/ \E w \in Workspaces : CreateProfile(t, w)
  BY <1>4, <1>6 DEF CreateOrganization, CreateWorkspace, LookUpUser, CreateKey,
     RevokeKey, CreateProfile, Allowed, rowVars
<1> QED
  BY <1>0, <1>1, <1>2, <1>3, <1>5, <1>6 DEF ThreadStep, Endpoint, Change

\* The log grows by what was to be logged; everything else stays in its types.
LEMMA RestWritten ==
  ASSUME TInv, NEW t \in Threads, Enter(t) \/ ThreadStep(t)
  PROVE  /\ \/ audit' = audit /\ pc[t] # "audit"
            \/ pc[t] = "audit" /\ audit' = audit \cup {note[t]}
         /\ workspaces' \subseteq Workspaces
         /\ profiles' \subseteq Orgs \X Workspaces
<1> USE NamesHave DEF TInv, TenancyTypeOK
<1>0. who[t].org \in Orgs
  BY DEF Principals
<1>1. CASE RecordAudit(t)
  BY <1>1 DEF RecordAudit
<1>2. ASSUME NEW o \in Orgs, CreateOrganization(t, o)
      PROVE  audit' = audit /\ pc[t] # "audit" /\ workspaces' \subseteq Workspaces
             /\ UNCHANGED profiles
  BY <1>2 DEF CreateOrganization
<1>3. ASSUME NEW s \in WorkspaceSlugs, CreateWorkspace(t, s)
      PROVE  audit' = audit /\ pc[t] # "audit" /\ workspaces' \subseteq Workspaces
             /\ UNCHANGED profiles
  BY <1>0, <1>3 DEF CreateWorkspace, Allowed, Workspaces
<1>4. ASSUME NEW w \in Workspaces, CreateProfile(t, w)
      PROVE  /\ audit' = audit /\ pc[t] # "audit" /\ UNCHANGED workspaces
             /\ profiles' \subseteq Orgs \X Workspaces
  BY <1>0, <1>4 DEF CreateProfile, Allowed
<1>5. CASE UNCHANGED <<audit, workspaces, profiles>> /\ pc[t] # "audit"
  BY <1>5
<1>6. CASE Enter(t) \/ AdmitKey(t) \/ AnswerOnly(t) \/ LookUpBuiltin(t)
           \/ InsertBuiltin(t) \/ LookUpMembership(t) \/ Join(t)
  BY <1>5, <1>6 DEF Enter, LoadKey, AdmitDev, AdmitKey, AnswerOnly, LookUpBuiltin,
     InsertBuiltin, LookUpMembership, Join, rowVars
<1>7. CASE \/ \E u \in Users, r \in GivenRoles : LookUpUser(t, u, r)
           \/ \E k \in Keys : CreateKey(t, k) \/ RevokeKey(t, k)
           \/ \E n \in Names, d \in Payloads : CreateDefinition(t, n, d)
  BY <1>5, <1>7 DEF LookUpUser, CreateKey, RevokeKey, CreateDefinition, Allowed, rowVars
<1> QED
  BY <1>1, <1>2, <1>3, <1>4, <1>6, <1>7 DEF ThreadStep, Endpoint, Change

-----------------------------------------------------------------------------
(* The invariant is inductive.                                             *)

\* The events of a request that is still on its way are not lost.
LEMMA EventsGrow ==
  ASSUME TInv, NEW t \in Threads, Enter(t) \/ ThreadStep(t)
  PROVE  Events \subseteq Events'
<1> SUFFICES ASSUME NEW e \in Events PROVE e \in Events'
  OBVIOUS
<1>1. CASE e \in audit
  BY <1>1, RestWritten DEF Events
<1>2. ASSUME NEW u \in Threads, pc[u] = "audit", e = note[u]
      PROVE  e \in Events'
  <2>1. CASE u # t
    BY <1>2, <2>1, OneThread DEF Events
  <2>2. CASE u = t
    BY <1>2, <2>2, RestWritten DEF Events
  <2> QED
    BY <2>1, <2>2
<1> QED
  BY <1>1, <1>2 DEF Events

\* A step of a request keeps the invariant.
LEMMA ThreadKeeps ==
  ASSUME TInv, NEW t \in Threads, Enter(t) \/ ThreadStep(t)
  PROVE  TInv'
<1> USE NamesHave DEF TInv
<1>0. RowsGrow
  BY ThreadGrows
<1>1. /\ phase = "serving" /\ UNCHANGED <<phase, crashes>>
      /\ \A u \in Threads \ {t} :
           pc'[u] = pc[u] /\ who'[u] = who[u] /\ with'[u] = with[u] /\ note'[u] = note[u]
  BY OneThread
<1>2. /\ who[t].org \in Orgs /\ who[t].user \in Users /\ note[t].org \in Orgs
      /\ note[t] \in AuditEvents
      /\ pc[t] \notin {"idle", "loaded"} => who[t].org \in orgs /\ who[t].user \in users
      /\ pc[t] \in {"unknown", "join"} =>
           /\ note[t].action = "member_added" /\ note[t].org \in orgs
           /\ note[t].resource \in Users
           /\ note[t].detail \in Roles /\ note[t].detail # "none"
  BY DEF TenancyTypeOK, AuditEvents, Principals, ThreadKnows
<1>3. \A u \in Threads : ThreadKnows(u)'
  BY <1>0, <1>1, OthersKnow, StepKnows
<1>4. /\ orgs' \subseteq Orgs /\ users' \subseteq Users
      /\ role' \in [Orgs -> [Users -> Roles]]
      /\ Members'
  <2>1. CASE UNCHANGED <<orgs, users, role>>
    BY <2>1 DEF TenancyTypeOK, Members
  <2>2. ASSUME NEW o \in Orgs \ orgs, pc[t] = "admitted",
               orgs' = orgs \cup {o}, users' = users,
               role' = [role EXCEPT ![o][who[t].user] = "owner"]
        PROVE  /\ orgs' \subseteq Orgs /\ users' \subseteq Users
               /\ role' \in [Orgs -> [Users -> Roles]]
               /\ Members'
    BY <1>2, <2>2, RolesHave DEF TenancyTypeOK, Members
  <2>3. ASSUME pc[t] \in {"unknown", "join"},
               orgs' = orgs, users' = users \cup {note[t].resource},
               role' = [role EXCEPT ![note[t].org][note[t].resource] = note[t].detail]
        PROVE  /\ orgs' \subseteq Orgs /\ users' \subseteq Users
               /\ role' \in [Orgs -> [Users -> Roles]]
               /\ Members'
    BY <1>2, <2>3 DEF TenancyTypeOK, Members
  <2> QED
    BY <2>1, <2>2, <2>3, RolesWritten
<1>5. keys' \in [Keys -> Owners] /\ revoked' \subseteq Keys /\ KeysHaveOwners'
  <2>1. revoked' \subseteq Keys
    <3>1. revoked \subseteq Keys
      BY DEF TenancyTypeOK
    <3>2. revoked' = revoked \/ \E k \in Keys : revoked' = revoked \cup {k}
      BY KeysWritten
    <3> QED
      BY <3>1, <3>2
  <2>2. CASE keys' = keys
    BY <1>0, <2>1, <2>2 DEF TenancyTypeOK, KeysHaveOwners, RowsGrow
  <2>3. ASSUME NEW k \in Keys, pc[t] = "admitted",
               keys' = [keys EXCEPT ![k] = [org |-> who[t].org, user |-> who[t].user]]
        PROVE  keys' \in [Keys -> Owners] /\ KeysHaveOwners'
    BY <1>0, <1>2, <2>3 DEF TenancyTypeOK, KeysHaveOwners, Owners, RowsGrow
  <2> QED
    BY <2>1, <2>2, <2>3, KeysWritten
<1>6. definitions' \in [Orgs -> [Names -> Seq(RawSteps)]] /\ StoredDefinitionsPass'
  <2>1. CASE definitions' = definitions
    BY <2>1 DEF TenancyTypeOK, StoredDefinitionsPass
  <2>2. ASSUME NEW o \in Orgs, NEW n \in Names, NEW d \in Seq(RawSteps), PassesAgain(d),
               definitions' = [definitions EXCEPT ![o][n] = d]
        PROVE  definitions' \in [Orgs -> [Names -> Seq(RawSteps)]] /\ StoredDefinitionsPass'
    BY <2>2 DEF TenancyTypeOK, StoredDefinitionsPass
  <2> QED
    BY <2>1, <2>2, DefinitionsWritten
<1>7. audit' \subseteq AuditEvents /\ \A e \in audit' : EventTrue(e)'
  <2>1. ASSUME NEW e \in AuditEvents, EventTrue(e) PROVE EventTrue(e)'
    BY <1>0, <2>1 DEF AuditEvents, EventTrue, RowsGrow
  <2>2. pc[t] = "audit" => EventTrue(note[t])
    BY DEF ThreadKnows
  <2> QED
    BY <1>2, <2>1, <2>2, RestWritten DEF TenancyTypeOK
<1>8. TenancyTypeOK'
  BY <1>4, <1>5, <1>6, <1>7, OneThread, RestWritten DEF TenancyTypeOK
<1>9. Bootstrapped'
  <2>1. /\ role[DefaultOrg][Admin] = "owner"
        /\ BootstrapKey = NoKey \/ keys[BootstrapKey] # NoOwner
        /\ \E p \in profiles : p[1] = DefaultOrg
        /\ definitions[DefaultOrg][Builtin] # <<>>
    BY <1>1 DEF Bootstrapped
  <2>2. /\ role'[DefaultOrg][Admin] = "owner"
        /\ \E p \in profiles' : p[1] = DefaultOrg
        /\ definitions'[DefaultOrg][Builtin] # <<>>
    BY <1>0, <2>1 DEF RowsGrow
  <2>3. BootstrapKey = NoKey \/ keys'[BootstrapKey] # NoOwner
    BY <1>0, <2>1, TenancyAssumption DEF RowsGrow
  <2> QED
    BY <2>2, <2>3 DEF Bootstrapped
<1>10. FirstStartup'
  BY <1>1 DEF FirstStartup
<1>11. OrganizationsAreComplete'
  <2> SUFFICES ASSUME NEW o \in orgs'
               PROVE  /\ \E u \in Users : role'[o][u] = "owner"
                      /\ <<o, "default">> \in workspaces'
                      /\ \/ crashes' > 0
                         \/ definitions'[o][Builtin] # <<>>
                         \/ \E u \in Threads : pc'[u] \in {"lookup", "builtin"}
                                               /\ note'[u].org = o
    BY DEF OrganizationsAreComplete
  <2>1. CASE o \in orgs
    <3>1. PICK u \in Users : role[o][u] = "owner"
      BY <2>1 DEF OrganizationsAreComplete
    <3>2. role'[o][u] = "owner" /\ <<o, "default">> \in workspaces'
      <4>1. o \in Orgs /\ <<o, "default">> \in workspaces
        BY <2>1 DEF TenancyTypeOK, OrganizationsAreComplete
      <4> QED
        BY <1>0, <3>1, <4>1 DEF RowsGrow
    <3>3. CASE crashes > 0
      BY <1>1, <3>2, <3>3
    <3>4. CASE definitions[o][Builtin] # <<>>
      BY <1>0, <2>1, <3>2, <3>4 DEF RowsGrow, TenancyTypeOK
    <3>5. ASSUME NEW w \in Threads, pc[w] \in {"lookup", "builtin"}, note[w].org = o
          PROVE  \/ definitions'[o][Builtin] # <<>>
                 \/ \E v \in Threads : pc'[v] \in {"lookup", "builtin"} /\ note'[v].org = o
      BY <1>1, <3>5, DefinitionsWritten
    <3> QED
      BY <1>1, <2>1, <3>2, <3>3, <3>4, <3>5 DEF OrganizationsAreComplete
  <2>2. CASE o \notin orgs
    <3>1. /\ o \in Orgs
          /\ role' = [role EXCEPT ![o][who[t].user] = "owner"]
          /\ <<o, "default">> \in workspaces'
          /\ pc'[t] = "lookup" /\ note'[t].org = o
      BY <2>2, RolesWritten
    <3>2. role'[o][who[t].user] = "owner"
      BY <1>2, <3>1 DEF TenancyTypeOK
    <3> QED
      BY <1>2, <3>1, <3>2
  <2> QED
    BY <2>1, <2>2
<1>12. ChangesAreAudited'
  <2> SUFFICES ASSUME crashes = 0
               PROVE  /\ \A o \in Orgs, u \in Users :
                           role'[o][u] \notin {"none", "owner"} =>
                             \E e \in Events' :
                               e.org = o /\ e.action = "member_added" /\ e.resource = u
                      /\ \A k \in revoked' :
                           \E e \in Events' : e.action = "api_key_revoked" /\ e.resource = k
    BY <1>1 DEF ChangesAreAudited
  <2>1. ASSUME NEW k \in revoked'
        PROVE  \E e \in Events' : e.action = "api_key_revoked" /\ e.resource = k
    <3>1. CASE k \in revoked
      BY <3>1, EventsGrow DEF ChangesAreAudited
    <3>2. CASE k \notin revoked
      BY <3>2, KeysWritten DEF Events
    <3> QED
      BY <3>1, <3>2
  <2>2. ASSUME NEW o \in Orgs, NEW u \in Users, role'[o][u] \notin {"none", "owner"}
        PROVE  \E e \in Events' :
                 e.org = o /\ e.action = "member_added" /\ e.resource = u
    <3>1. CASE role'[o][u] = role[o][u]
      BY <2>2, <3>1, EventsGrow DEF ChangesAreAudited
    <3>2. CASE role'[o][u] # role[o][u]
      <4>1. ASSUME NEW p \in Orgs, role' = [role EXCEPT ![p][who[t].user] = "owner"]
            PROVE  FALSE
        BY <1>2, <2>2, <3>2, <4>1 DEF TenancyTypeOK
      <4>2. /\ pc[t] \in {"unknown", "join"}
            /\ role' = [role EXCEPT ![note[t].org][note[t].resource] = note[t].detail]
            /\ pc'[t] = "audit" /\ note'[t] = note[t]
        BY <3>2, <4>1, RolesWritten
      <4>3. note[t].org = o /\ note[t].resource = u
        BY <1>2, <3>2, <4>2 DEF TenancyTypeOK
      <4>4. note'[t] \in Events'
        BY <4>2 DEF Events
      <4> QED
        BY <1>2, <4>2, <4>3, <4>4
    <3> QED
      BY <3>1, <3>2
  <2> QED
    BY <2>1, <2>2
<1> QED
  BY <1>3, <1>4, <1>5, <1>6, <1>7, <1>8, <1>9, <1>10, <1>11, <1>12

\* Organizations that have their owners and workspaces are complete when the
\* process has died before, or they have the built-in definition.
LEMMA CompleteAgain ==
  ASSUME OrganizationsAreComplete, UNCHANGED <<orgs, role, workspaces>>,
         \A o \in orgs : crashes' > 0 \/ definitions'[o][Builtin] # <<>>
  PROVE  OrganizationsAreComplete'
<1> SUFFICES ASSUME NEW o \in orgs'
             PROVE  /\ \E u \in Users : role'[o][u] = "owner"
                    /\ <<o, "default">> \in workspaces'
                    /\ crashes' > 0 \/ definitions'[o][Builtin] # <<>>
  BY DEF OrganizationsAreComplete
<1> QED
  BY DEF OrganizationsAreComplete

\* A startup that finds whatever an earlier one has left keeps the invariant.
LEMMA StartupKeeps == ASSUME TInv, Startup PROVE TInv'
<1> USE NamesHave DEF TInv
<1>0. RowsGrow /\ UNCHANGED threadVars /\ UNCHANGED <<audit, revoked, crashes>>
  BY StartupGrows DEF Startup, Seed, SeedBuiltin
<1>1. /\ \A t \in Threads : pc[t] = "idle" /\ with[t] = NoKey /\ note[t] = NoEvent
      /\ UNCHANGED <<pc, who, with, note>>
  BY <1>0 DEF Startup, Seed, SeedBuiltin, ThreadKnows, threadVars
<1>2. \A t \in Threads : ThreadKnows(t)'
  BY <1>1 DEF ThreadKnows
<1>3. \A e \in audit' : EventTrue(e)'
  BY <1>0 DEF TenancyTypeOK, AuditEvents, EventTrue, RowsGrow
<1>4. Events' = Events
  BY <1>0, <1>1 DEF Events
<1>5. (\A o \in Orgs, u \in Users :
         role'[o][u] \notin {"none", "owner"} => role'[o][u] = role[o][u])
      => ChangesAreAudited'
  BY <1>0, <1>4 DEF ChangesAreAudited
<1>6. CASE Seed
  <2>1. /\ orgs' = orgs \cup {DefaultOrg} /\ users' = users \cup {Admin}
        /\ role' = [role EXCEPT ![DefaultOrg][Admin] = "owner"]
        /\ workspaces' = workspaces \cup {<<DefaultOrg, "default">>}
        /\ phase' = "seeded" /\ UNCHANGED definitions
    BY <1>6 DEF Seed, TenancyTypeOK, Bootstrapped
  <2>2. /\ keys' \in [Keys -> Owners]
        /\ \A k \in Keys : keys'[k] = keys[k] \/ keys'[k] = [org |-> DefaultOrg, user |-> Admin]
        /\ BootstrapKey = NoKey \/ keys'[BootstrapKey] # NoOwner
    <3>1. [org |-> DefaultOrg, user |-> Admin] \in Owners \ {NoOwner}
      BY DEF Owners
    <3>2. keys \in [Keys -> Owners] /\ BootstrapKey \in Keys \cup {NoKey}
      BY TenancyAssumption DEF TenancyTypeOK
    <3> QED
      BY <1>6, <3>1, <3>2 DEF Seed
  <2>3. /\ profiles' \subseteq Orgs \X Workspaces
        /\ \E p \in profiles' : p[1] = DefaultOrg
    <3>1. <<DefaultOrg, <<DefaultOrg, "default">>>> \in Orgs \X Workspaces
      OBVIOUS
    <3>2. CASE \E p \in profiles : p[1] = DefaultOrg
      BY <1>6, <3>2 DEF Seed, TenancyTypeOK
    <3>3. CASE profiles' = profiles \cup {<<DefaultOrg, <<DefaultOrg, "default">>>>}
      <4>1. <<DefaultOrg, <<DefaultOrg, "default">>>>[1] = DefaultOrg
        OBVIOUS
      <4> QED
        BY <3>1, <3>3, <4>1 DEF TenancyTypeOK
    <3> QED
      BY <1>6, <3>2, <3>3 DEF Seed
  <2>4. /\ role' \in [Orgs -> [Users -> Roles]]
        /\ role'[DefaultOrg][Admin] = "owner"
        /\ \A o \in Orgs, u \in Users :
             role'[o][u] = role[o][u] \/ (o = DefaultOrg /\ u = Admin)
    BY <2>1, RolesHave DEF TenancyTypeOK
  <2>5. TenancyTypeOK'
    BY <1>0, <1>1, <2>1, <2>2, <2>3, <2>4 DEF TenancyTypeOK
  <2>6. Members'
    BY <2>1, <2>4 DEF Members
  <2>7. KeysHaveOwners'
    BY <2>1, <2>2 DEF KeysHaveOwners
  <2>8. Bootstrapped' /\ StoredDefinitionsPass'
    BY <2>1, <2>2, <2>3, <2>4 DEF Bootstrapped, StoredDefinitionsPass
  <2>9. FirstStartup'
    BY <1>0, <1>6, <2>1 DEF FirstStartup, Seed
  <2>10. OrganizationsAreComplete'
    <3> SUFFICES ASSUME NEW o \in orgs'
                 PROVE  /\ \E u \in Users : role'[o][u] = "owner"
                        /\ <<o, "default">> \in workspaces'
      BY <2>1 DEF OrganizationsAreComplete
    <3>1. CASE o = DefaultOrg
      BY <2>1, <2>4, <3>1
    <3>2. CASE o \in orgs
      <4>1. PICK u \in Users : role[o][u] = "owner"
        BY <3>2 DEF OrganizationsAreComplete
      <4>2. o \in Orgs /\ <<o, "default">> \in workspaces
        BY <3>2 DEF TenancyTypeOK, OrganizationsAreComplete
      <4> QED
        BY <1>0, <4>1, <4>2 DEF RowsGrow
    <3> QED
      BY <2>1, <3>1, <3>2
  <2>11. ChangesAreAudited'
    BY <1>5, <2>4
  <2> QED
    BY <1>2, <1>3, <2>5, <2>6, <2>7, <2>8, <2>9, <2>10, <2>11
<1>7. CASE SeedBuiltin
  <2>1. /\ phase = "seeded" /\ phase' = "serving"
        /\ UNCHANGED <<orgs, users, role, workspaces, keys, profiles>>
    BY <1>7 DEF SeedBuiltin
  <2>2. /\ definitions' \in [Orgs -> [Names -> Seq(RawSteps)]]
        /\ \A o \in Orgs, n \in Names :
             \/ definitions'[o][n] = definitions[o][n]
             \/ definitions'[o][n] = BuiltinSteps
        /\ definitions'[DefaultOrg][Builtin] # <<>>
    <3>1. CASE definitions[DefaultOrg][Builtin] = <<>>
      <4>1. definitions' = [definitions EXCEPT ![DefaultOrg][Builtin] = BuiltinSteps]
        BY <1>7, <3>1 DEF SeedBuiltin, StoreBuiltin
      <4> QED
        BY <4>1, StoredPasses DEF TenancyTypeOK
    <3>2. CASE definitions[DefaultOrg][Builtin] # <<>>
      <4>1. definitions' = [definitions EXCEPT ![DefaultOrg][Builtin] =
                              definitions[DefaultOrg][Builtin]]
        BY <1>7, <3>2 DEF SeedBuiltin, StoreBuiltin
      <4> QED
        BY <3>2, <4>1 DEF TenancyTypeOK
    <3> QED
      BY <3>1, <3>2
  <2>3. TenancyTypeOK' /\ Members' /\ KeysHaveOwners'
    BY <1>0, <1>1, <2>1, <2>2 DEF TenancyTypeOK, Members, KeysHaveOwners
  <2>4. Bootstrapped'
    BY <2>1, <2>2 DEF Bootstrapped
  <2>5. FirstStartup'
    BY <2>1 DEF FirstStartup
  <2>6. StoredDefinitionsPass'
    <3> SUFFICES ASSUME NEW o \in Orgs, NEW n \in Names, definitions'[o][n] # <<>>
                 PROVE  PassesAgain(definitions'[o][n])
      BY DEF StoredDefinitionsPass
    <3> QED
      BY <2>2, StoredPasses DEF StoredDefinitionsPass
  <2>7. OrganizationsAreComplete'
    <3>1. crashes = 0 => orgs = {DefaultOrg}
      BY <2>1 DEF FirstStartup
    <3>2. crashes \in Nat
      BY DEF TenancyTypeOK
    <3> SUFFICES ASSUME NEW o \in orgs
                 PROVE  crashes > 0 \/ definitions'[o][Builtin] # <<>>
      BY <1>0, <2>1, CompleteAgain
    <3> QED
      BY <2>2, <3>1, <3>2
  <2>8. ChangesAreAudited'
    BY <1>5, <2>1
  <2> QED
    BY <1>2, <1>3, <2>3, <2>4, <2>5, <2>6, <2>7, <2>8
<1> QED
  BY <1>6, <1>7 DEF Startup

\* The death of the process leaves the rows and ends the requests.
LEMMA CrashKeeps == ASSUME TInv, Crash PROVE TInv'
<1> USE NamesHave DEF TInv
<1>1. /\ UNCHANGED rowVars /\ phase' = "down"
      /\ crashes \in Nat /\ crashes' = crashes + 1 /\ crashes' \in Nat /\ crashes' > 0
      /\ pc' = [t \in Threads |-> "idle"] /\ who' = [t \in Threads |-> Nobody]
      /\ with' = [t \in Threads |-> NoKey] /\ note' = [t \in Threads |-> NoEvent]
  BY DEF Crash, TenancyTypeOK
<1>2. TenancyTypeOK'
  BY <1>1 DEF TenancyTypeOK, rowVars, PCs
<1>3. \A t \in Threads : ThreadKnows(t)'
  BY <1>1 DEF ThreadKnows
<1>4. \A e \in audit' : EventTrue(e)'
  BY <1>1 DEF EventTrue, rowVars
<1>5. Members' /\ KeysHaveOwners' /\ Bootstrapped' /\ StoredDefinitionsPass'
  BY <1>1 DEF Members, KeysHaveOwners, Bootstrapped, StoredDefinitionsPass, rowVars
<1>6. FirstStartup' /\ ChangesAreAudited'
  BY <1>1 DEF FirstStartup, ChangesAreAudited
<1>7. OrganizationsAreComplete'
  BY <1>1, CompleteAgain DEF rowVars
<1> QED
  BY <1>2, <1>3, <1>4, <1>5, <1>6, <1>7

LEMMA TenancyKeeps == TInv /\ [Next]_vars => TInv'
<1>1. ASSUME TInv, UNCHANGED vars PROVE TInv'
  BY <1>1 DEF vars, rowVars, threadVars, TInv, TenancyTypeOK, Members, KeysHaveOwners,
     Bootstrapped, FirstStartup, StoredDefinitionsPass, OrganizationsAreComplete,
     ChangesAreAudited, Events, EventTrue, ThreadKnows
<1> QED
  BY <1>1, StartupKeeps, ThreadKeeps, CrashKeeps DEF Next

\* What rows and requests keep in every reachable state.
LEMMA TenancyInvariance == Spec => []TInv
  BY TenancyStarts, TenancyKeeps, PTL DEF Spec

-----------------------------------------------------------------------------
(* The theorems.                                                           *)

\* Rows, requests and audit events keep their types: the role of a principal
\* is ranked, and every row belongs to an organization that may exist.
THEOREM TenancyTypeCorrect == Spec => []TenancyTypeOK
<1>1. TInv => TenancyTypeOK
  BY DEF TInv
<1> QED
  BY <1>1, TenancyInvariance, PTL

\* get_principal ties a request with a key to the key's organization, whatever
\* the header says and however long its awaits are.
THEOREM KeysStayInTheirOrgHolds == Spec => []KeysStayInTheirOrg
<1>1. TInv => KeysStayInTheirOrg
  <2> SUFFICES ASSUME TInv, NEW t \in Threads, with[t] # NoKey, pc[t] # "loaded"
               PROVE  /\ who[t].org = keys[with[t]].org
                      /\ note[t].action \notin {"none", "organization_created"} =>
                           note[t].org = keys[with[t]].org
    BY DEF KeysStayInTheirOrg
  <2> QED
    BY DEF TInv, ThreadKnows
<1> QED
  BY <1>1, TenancyInvariance, PTL

\* However many add_member requests race for one user, the log names the one
\* that won, with the role the membership has.
THEOREM MemberEventsAreTrueHolds == Spec => []MemberEventsAreTrue
<1>1. TInv => MemberEventsAreTrue
  <2> SUFFICES ASSUME TInv PROVE MemberEventsAreTrue
    OBVIOUS
  <2>1. \A e \in Events : e \in AuditEvents /\ EventTrue(e)
    BY DEF TInv, TenancyTypeOK, Events, ThreadKnows
  <2>2. ASSUME NEW e \in Events, NEW f \in Events,
               e.action = "member_added", f.action = "member_added",
               f.org = e.org, f.resource = e.resource
        PROVE  f = e
    <3>1. f.detail = e.detail
      BY <2>1, <2>2 DEF EventTrue
    <3> QED
      BY <2>1, <2>2, <3>1 DEF AuditEvents
  <2> QED
    BY <2>1, <2>2 DEF MemberEventsAreTrue, EventTrue
<1> QED
  BY <1>1, TenancyInvariance, PTL

\* No change of a membership or revocation of a key goes unlogged but by the
\* death of the process.
THEOREM ChangesAreAuditedHolds == Spec => []ChangesAreAudited
<1>1. TInv => ChangesAreAudited
  BY DEF TInv
<1> QED
  BY <1>1, TenancyInvariance, PTL

\* No request, no restart and no race takes a row back; a revoked key stays
\* revoked, and the commit of last_used_at is no exception.
THEOREM RevocationIsFinalHolds == Spec => RevocationIsFinal
<1>1. TInv /\ [Next]_vars => [revoked \subseteq revoked']_vars
  BY AllRowsGrow DEF RowsGrow
<1> QED
  BY <1>1, TenancyInvariance, PTL DEF Spec, RevocationIsFinal

\* create_organization and seed leave no organization without an owner and a
\* workspace, wherever the process dies.
THEOREM OrganizationsAreCompleteHolds == Spec => []OrganizationsAreComplete
<1>1. TInv => OrganizationsAreComplete
  BY DEF TInv
<1> QED
  BY <1>1, TenancyInvariance, PTL

\* seed completes what any number of cut short startups have left.
THEOREM ServingIsBootstrappedHolds == Spec => []ServingIsBootstrapped
<1>1. TInv => ServingIsBootstrapped
  BY DEF TInv, Bootstrapped, ServingIsBootstrapped
<1> QED
  BY <1>1, TenancyInvariance, PTL

\* Whatever a request sends, what is stored as a definition passes every later
\* check, unchanged.
THEOREM StoredDefinitionsPassHolds == Spec => []StoredDefinitionsPass
<1>1. TInv => StoredDefinitionsPass
  BY DEF TInv
<1> QED
  BY <1>1, TenancyInvariance, PTL
=============================================================================
