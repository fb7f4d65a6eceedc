SPECIFICATION Spec
CONSTANTS
  w1 = w1  w2 = w2
  t1 = t1  t2 = t2
  p1 = p1
  NoProfile = NoProfile
  NoRun = NoRun
  Profiles = {p1}
  Runs = {w1}
  Threads = {t1, t2}
  Definitions <- OneDefinition
  MaxCrashes = 0
INVARIANTS
  RejectedNeverSucceeds
