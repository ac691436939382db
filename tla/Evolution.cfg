SPECIFICATION Spec
CONSTANTS
  Procs = {p1, p2}
  None = None
  Dead = Dead
  MaxGenerations = 2
  Versions = {"v35", "v36", "v37"}
  LiveTakeover = FALSE
INVARIANTS
  HistoryBehind
  ReleaseIsEarned
  ManifestHolds
  BudgetIsResumable
PROPERTY ImplementsHistory
