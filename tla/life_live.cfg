SPECIFICATION FairSpec
CONSTANTS
  r1 = r1  r2 = r2  o1 = o1  o2 = o2  c1 = c1  c2 = c2
  NoOwner = NoOwner
  Runs = {r1}
  Owners = {o1}
  Cleaners = {c1}
  RemoteCleaners = {}
  RunOf <- OneOwner
  NSpecs = 1
  NGroups = 1
  ForeignRows = {"test"}
  Lifecycles = {"ephemeral", "persistent"}
  LateLanding = FALSE
  LedgerFaults = FALSE
  MaxFaults = 1
  MaxCrashes = 1
CHECK_DEADLOCK FALSE
PROPERTIES
  RunEnds
  CleanupConverges
