CONSTANTS
  IgnoreFiles <- Dirs
  Candidates <- Tree
  IgnorePatterns <- GitPatterns
  PolicyPatterns <- LinterPatterns
  BuiltInPatterns <- BuiltIns
  MaxLines = 1
  MaximumPatterns = 5
SPECIFICATION IgnoreSpec
INVARIANTS
  GrammarIsGits
CHECK_DEADLOCK FALSE
