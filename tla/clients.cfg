SPECIFICATION FairSpec
CONSTANTS
  g1 = g1  g2 = g2  w1 = w1  t1 = t1  t2 = t2  t3 = t3
  Parts = {"rest", "atf", "results", "guard", "setup", "gate", "sync"}
  Calls = {g1, g2, w1}
  Writers = {w1}
  MaxConcurrent = 1
  MaxRetries = 1
  MaxFlights = 4
  MaxAnswers = 1
  MaxUpsets = 2
  Suites = 2
  Tests <- SuiteTests
  Worlds <- SuiteWorlds
  MaxPolls = 2
  RowsPerTest = 1
  MaxSuiteDepth = 2
  MaxSuiteResults = 3
  Executions <- Results
  Listed <- TwoTests
  Hosts = {"dev", "prod", "eprod"}
  NonProdAllowlist = {"dev", "prod", "eprod"}
  ProdInstances = {"prod"}
  NamedProd = {"eprod"}
  MaxAsks = 3
  Preconditions = {"p1", "p2"}
  Remedied = {"p1", "p2", "elsewhere"}
  MaxDrifts = 1
  Plans <- Checklists
  Demands = {{}, {"s1"}, {"s1", "s2"}}
  Reported = {"s1", "s2"}
  RawOutcomes = {"pass", "fail", "skipped", "odd"}
  Coverages <- Covered
  MaxOutcomes = 3
  SysIds = {1, 2, 3}
  Hideable = {1}
  Scopes = {1, 2}
  Names = {1, 2}
  Slug <- Slugs
  PageSize = 2
  MaxChanges = 1
  MaxSyncs = 2
CHECK_DEADLOCK FALSE
INVARIANTS
  TokensSound
  WriteAppliedOnce
  EverySpecAccounted
  PassProven
  WritesCleared
  ToldAsWritten
  VerdictEarned
PROPERTIES
  CallsEnd
  RunReturns
  ManifestFollows
