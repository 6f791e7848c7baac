SPECIFICATION Spec
CONSTANTS
  r1 = r1  r2 = r2  o1 = o1  o2 = o2  c1 = c1  c2 = c2
  NoOwner = NoOwner
  Runs = {r1}
  Owners = {o1}
  Cleaners = {c1, c2}
  RemoteCleaners = {c2}
  RunOf <- OneOwner
  NSpecs = 1
  NGroups = 2
  ForeignRows = {}
  Lifecycles = {"ephemeral"}
  LateLanding = TRUE
  LedgerFaults = FALSE
  MaxFaults = 1
  MaxCrashes = 1
CHECK_DEADLOCK FALSE
INVARIANTS
  WriteAhead
PROPERTIES
  NeverDeleteUnderLiveRun
