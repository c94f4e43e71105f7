SPECIFICATION DecisionsSpec
CONSTANTS
  Calls = {a1, a2}
  NoCall = NoCall
  Stuck = Stuck
  Inodes = {i1, i2}
  MaxVersion = 1
  MaxTime = 1
  MaxReceipts = 1
  Directories = {3}
  Globs = {4, 5}
  BaselinePaths = {1, 2, 3}
  Diagnostics <- Findings
  MovedContents = {1}
  MaxReport = 2
  MaxMoves = 2
  MaxVersions = 3
  Unrepresentable = {3}
  Synchronizers = {y1}
  SyncCalls = {c1, c2}
  MaxHandEdits = 2
  Captures = {1, 2}
  Weekly = {s, m}
  Scheduler = s
  Overlap = TRUE
  MaxCommands = 4
  MaxDeaths = 1
  MaxFailures = 1
SYMMETRY Symmetry
INVARIANTS
  ActiveIsCached
  ActivationIsExact
  BaselineIsExact
  KeptBaseServes
  BaselineRetained
PROPERTIES
  ActivationNeverDowngrades
  HandEditsSurvive
CHECK_DEADLOCK FALSE
