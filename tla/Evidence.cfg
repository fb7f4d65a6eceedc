SPECIFICATION EvidenceSpec
CONSTANTS
  o1 = o1
  p1 = p1  p2 = p2
  k1 = k1
  r1 = r1  r2 = r2  r3 = r3
  v1 = v1  v2 = v2
  NoProfile = NoProfile
  NoKey = NoKey
  Free = Free
  Profiles = {p1}
  Orgs = {o1}
  OrgOf <- OneOrg
  Keys = {}
  Requests = {r1}
  Limit = 2
  Capacity = 2
  LeaseTTL = 1
  MaxSessions = 2
  MaxClock = 0
  MaxRestarts = 1
  MaxFaults = 1
  Viewers = {v1, v2}
  MaxImages = 2
  MaxFrames = 2
SYMMETRY Slots
INVARIANTS
  EvidenceTypeOK
  ArtifactsMatchContent
  EvidenceShowsItsSession
  CapturesComplete
  CountsOnlyFrames
PROPERTIES
  SessionsUndisturbed
