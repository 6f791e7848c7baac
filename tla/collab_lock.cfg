SPECIFICATION FairSpec
CONSTANTS
  a1 = a1  a2 = a2  a3 = a3
  NoLock = NoLock  NoClaim = NoClaim
  Procs = {a1, a2, a3}
  HostOf <- TwoHosts
  BrokenClocks = {}
  ClaimsMayStall = FALSE
  MaxAcquires <- Acquires
  Generations = 3
  Attempts = 2
  MaxDeaths = 2
CHECK_DEADLOCK FALSE
INVARIANTS
  OneEvictor
PROPERTIES
  LiveLockKept
  DeadLockReclaimed
