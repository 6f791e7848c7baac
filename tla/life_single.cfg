SPECIFICATION Spec
CONSTANTS
  r1 = r1  r2 = r2  o1 = o1  o2 = o2  c1 = c1  c2 = c2
  NoOwner = NoOwner
  Runs = {r1}
  Owners = {o1}
  Cleaners = {c1, c2}
  RemoteCleaners = {}
  RunOf <- OneOwner
  NSpecs = 1
  NGroups = 2
  ForeignRows = {"suite"}
  Lifecycles = {"ephemeral", "persistent"}
  LateLanding = FALSE
  LedgerFaults = TRUE
  MaxFaults = 1
  MaxCrashes = 1
SYMMETRY CleanerSymmetry
CHECK_DEADLOCK FALSE
INVARIANTS
  TypeOK
  NeverTriggeredIsProof
  WriteAhead
  CompensatedMeansGone
  DoneIsSettled
  SuiteOutlivesTests
  FlushBeforeDelete
PROPERTIES
  NeverDeleteUnderLiveRun
  NoDeleteInSharedNamespace
  FulfilsContract
