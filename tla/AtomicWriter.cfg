CONSTANTS
  Calls = {w1, w2}
  NoCall = NoCall
  Stale = Stale
  Inodes = {i1, i2, i3}
  None = None
  Contents = {c1, c2}
  Partial = Partial
  MaxCrashes = 1
  MaxEdits = 0
SYMMETRY Symmetry
SPECIFICATION Spec
PROPERTIES
  LeftoversAreReported
  ImplementsCompareAndSwap
