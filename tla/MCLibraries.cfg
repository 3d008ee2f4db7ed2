SPECIFICATION Spec
CONSTANTS
  Sections <- MCSections
  MaxSections = 2
  Names <- MCNames
  Runs <- MCRuns
  MaxRuns = 2
  Short = {0, 3}
  Widths = {1, 3, 8, 9}
  MaxPages = 2
  Subspaces = 2
  SubDim = 1
  Centroids = 2
  Vector <- MCVectors
  Codebook <- MCCodebooks
  NodeId = {0, 1, 2}
  MaxLevel = 1
  MaxResults = 2
  MaxBefore = 1
INVARIANTS ModulesAreRead ColumnsAreDecoded OnlyLowRowsAreLost LayersAreConnected AnswersAreNearest
CHECK_DEADLOCK FALSE
