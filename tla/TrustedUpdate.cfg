CONSTANTS
  Checks = {k1, k2}
  MaxRootChain = 2
  MaxRoots = 3
  MaxReleases = 2
  MaxFetching = 1
  MaxMisplaced = 1
  None = None
SYMMETRY Symmetry
SPECIFICATION TrustSpec
INVARIANTS
  TrustIsOneRelease
PROPERTIES
  TrustMovesForward
  LatestIsAccepted
