SPECIFICATION Spec
CONSTANTS
  w1 = w1  w2 = w2
  t1 = t1  t2 = t2
  p1 = p1
  NoProfile = NoProfile
  NoRun = NoRun
  Profiles = {p1}
  Runs = {w1, w2}
  Threads = {t1}
  Definitions <- Several
  MaxCrashes = 2
INVARIANTS
  WaitingCanResume
PROPERTIES
  RunsImplementGate
