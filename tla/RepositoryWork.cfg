SPECIFICATION Spec
CONSTANTS
  NPaths = 2
  Instructions = {1}
  Controls = {2}
  Contents = {1, 2, 3}
  Links = {3}
  NCommits = 2
  CommitTree <- Trees
  InventoryIsComplete <- NoGap
  Covers <- Resolves
  Absent = Absent
  Present = Present
  MaxEdits = 3
  Pipelines = {l1, l2}
  Previews = {v1, v2}
  Applies = {a1, a2}
  Marks = {"m", "x"}
  NewTexts <- Replacements
  EditorTexts <- Restored
  Inodes = {1, 2}
  FirstText <- OneMark
  MaximumBytes = 2
  MaxPlanEdits = 2
  None = None
  Profiles = {1, 2}
  Graphs = {1, 2}
  Settings = {1, 2}
  WeightOf <- Weights
  MaxEntries = 2
  MaxEntryBytes = 2
  MaxWeight = 3
  MaxMisses = 4
  Paths = {1, 2, 3, 4, 5}
  EntryPath = 1
  Sizes = {0, 1, 2}
  Texts <- Documents
  Unresolved = 0
  MaxImports = 3
  MaxDepth = 2
  MaxEdges = 4
  MaxFanOut = 2
  MaxFiles = 4
  MaxFileBytes = 1
  MaxTotalBytes = 2
  MaxIssues = 1
  MaxReferences = 13
  MaxReadBytes = 2
  MaxRepositoryBytes = 3
  MaxRepositoryEntries = 3
  MaxContent = 2
  MaxChanges = 2
  IgnoreFiles <- Dirs
  Candidates <- Tree
  IgnorePatterns <- GitPatterns
  PolicyPatterns <- LinterPatterns
  BuiltInPatterns <- BuiltIns
  MaxLines = 2
  MaximumPatterns = 5
SYMMETRY Symmetry
INVARIANTS
  
  AppliedOnce
  MemoAccounts
  ReuseIsInvisible
  GraphIsAccepted
  EncounterOrder
  CompleteIsClosed
  ReadIsASnapshot
  DecisionsFollowGit
PROPERTIES
  FixReplacesAnalysed
CHECK_DEADLOCK FALSE
