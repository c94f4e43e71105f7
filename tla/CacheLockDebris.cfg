CONSTANTS
  Procs = {p1}
  NoProc = NoProc
  LastSlot = 2
  MaxAttempts = 1
  MaxCrashes = 1
SPECIFICATION Spec
INVARIANTS
  DebrisIsHarmless
