CONSTANTS
  p1 = p1  p2 = p2  o1 = o1  o2 = o2  o3 = o3
  Addrs = {a1}
  Procs = {p1, p2}
  NoProc = NoProc
  Ops = {o1, o2, o3}
  Home <- TwoAndOne
  Overlap = TRUE
  MaxQuarantine = 2
  MaxInodes = 2
  MaxCrashes = 0
SPECIFICATION Spec
CHECK_DEADLOCK FALSE
PROPERTIES
  ValidDataPreserved
