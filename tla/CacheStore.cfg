CONSTANTS
  p1 = p1  p2 = p2  o1 = o1  o2 = o2  o3 = o3
  Addrs = {a1, a2}
  Procs = {p1, p2}
  NoProc = NoProc
  Ops = {o1, o3}
  Home <- OneEach
  Overlap = FALSE
  MaxQuarantine = 2
  MaxInodes = 3
  MaxCrashes = 1
SPECIFICATION Spec
CHECK_DEADLOCK FALSE
INVARIANTS
  StoreInvariant
PROPERTIES
  ValidDataPreserved
  EvidenceKept
