CONSTANTS
  Procs = {p1, p2}
  NoProc = NoProc
  LastSlot = 1
  MaxAttempts = 2
  MaxCrashes = 1
SPECIFICATION FairSpec
INVARIANTS
  MutualExclusion
  ExhaustionIsReal
  LockInvariant
PROPERTIES
  SuccessionAfterDeath
  AcquisitionReturns
  ImplementsGenerationLock
