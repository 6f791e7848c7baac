SPECIFICATION FairSpec
CONSTANTS
  r1 = r1  r2 = r2  o1 = o1  o2 = o2  c1 = c1  c2 = c2
  NoOwner = NoOwner
  Runs = {r1, r2}
  Owners = {o1, o2}
  Cleaners = {c1}
  RemoteCleaners = {}
  RunOf <- TwoRuns
  NSpecs = 1
  NGroups = 1
  ForeignRows = {}
  Lifecycles = {"ephemeral"}
  LateLanding = FALSE
  LedgerFaults = FALSE
  MaxFaults = 0
  MaxCrashes = 1
CHECK_DEADLOCK FALSE
PROPERTIES
  StaleRunIsAbandoned
