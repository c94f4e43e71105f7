SPECIFICATION Spec
CONSTANTS
  TokenCalls = {c1, c2}
  Fetches = {f1, f2}
  MaxRequests = 1
  MaxLength = 1
  MaxChunks = 1
  MaxOutput = 2
  MaxOutputBytes = 2
  MaxReadBytes = 2
  MaxRepositoryBytes = 3
  MaxRepositoryEntries = 4
  MaxContent = 2
  MaxChanges = 0
  NTasks = 3
  MaxConcurrency = 2
  MaxResultBytes = 2
  MaxTotalResultBytes = 4
  ResultSizes = {1, 2, 3}
  NFamilies = 4
  Syntax = 2
  MaxDiagnostics = 2
  MaxFamilyDiagnostics = 1
  MaxSchedulerWorkers = 2
INVARIANTS
  NothingLeftRunning
  OutputIsTrusted
  NoHandleLeaks
PROPERTIES
  ThreadsAreContained
  ReportIsTrue
  ResolutionIsDeterministic
  SchedulerIsDeterministic
  EveryCallReturns
CHECK_DEADLOCK FALSE
