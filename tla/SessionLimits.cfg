SPECIFICATION Spec
CONSTANTS
  o1 = o1
  p1 = p1  p2 = p2
  k1 = k1
  r1 = r1  r2 = r2  r3 = r3
  NoProfile = NoProfile
  NoKey = NoKey
  Free = Free
  Profiles = {p1, p2}
  Orgs = {o1}
  OrgOf <- OneOrg
  Keys = {k1}
  Requests = {r1, r2}
  Limit = 2
  Capacity = 2
  LeaseTTL = 1
  MaxSessions = 3
  MaxClock = 0
  MaxRestarts = 0
  MaxFaults = 1
SYMMETRY Slots
INVARIANTS
  LeasedSessionsWithinLimit
  RuntimeIsolation
  LostBrowsersAreFaults
