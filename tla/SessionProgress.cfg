SPECIFICATION FairSpec
CONSTANTS
  o1 = o1
  p1 = p1  p2 = p2
  k1 = k1
  r1 = r1  r2 = r2  r3 = r3
  NoProfile = NoProfile
  NoKey = NoKey
  Free = Free
  Profiles = {p1}
  Orgs = {o1}
  OrgOf <- OneOrg
  Keys = {}
  Requests = {r1, r2}
  Limit = 2
  Capacity = 1
  LeaseTTL = 1
  MaxSessions = 2
  MaxClock = 1
  MaxRestarts = 1
  MaxFaults = 1
PROPERTIES
  HandlersFinish
  ProvisioningResolves
  LapsedAllocationsAreLost
  StopsClear
