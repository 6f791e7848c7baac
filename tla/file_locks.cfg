SPECIFICATION Spec
CONSTANTS
  b1 = b1  b2 = b2  b3 = b3  b4 = b4  p1 = p1  p2 = p2  a1 = a1  a2 = a2
  NoWrapper = NoWrapper  Free = Free  None = None
  Wrappers <- Builds
  Parent <- Parents
  StartKnown = {b1, b2, b4}
  Waiting = {b2}
  HostProcs = {h1, h2, h3}
  Keys = {"k1"}
  SlowWriters = TRUE
  MaxCalls = 1
  MaxDeaths = 1
  Benches <- Runs
  Restorers = {x1}
  Artifacts = {a1, a2}
  RunId <- Ids
  Root <- OneRoot
  Targets <- OneCatalog
  Baselines = {a2}
  Mutant <- Mutants
  RestoreAttempts = 2
  MaxFaults = 2
  MaxCrashes = 2
  MaxRestores = 1
CHECK_DEADLOCK FALSE
INVARIANTS
  OneHold
  SoundUntilMishap
  WayBack
  OneRunner
PROPERTIES
  InheritsLiveHold
