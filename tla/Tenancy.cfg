SPECIFICATION FairSpec
CONSTANTS
  o1 = o1  o2 = o2
  ada = ada  bob = bob
  k0 = k0  k1 = k1
  team = team
  dv = dv
  t1 = t1  t2 = t2
  s1 = s1  s2 = s2
  BadKey = BadKey
  NoKey = NoKey
  Builtin = Builtin
  StepKeys = {s1, s2}
  MaxSteps = 2
  Orgs = {o1, o2}
  DefaultOrg = o1
  Users = {ada, bob}
  Admin = ada
  Keys = {k0, k1}
  BootstrapKey = k0
  WorkspaceSlugs = {team}
  DefinitionNames = {}
  Payloads <- Short
  BuiltinSteps <- EvidenceReview
  GivenRoles = {"admin", "viewer"}
  AuthRequired = FALSE
  Threads = {t1, t2}
  MaxCrashes = 1
  MaxAudit = 1
INVARIANTS
  TenancyTypeOK
  KeysStayInTheirOrg
  MemberEventsAreTrue
  ChangesAreAudited
  OrganizationsAreComplete
  ServingIsBootstrapped
  StoredDefinitionsPass
PROPERTIES
  RevocationIsFinal
  RevokedKeysFallSilent
