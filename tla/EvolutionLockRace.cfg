SPECIFICATION Spec
CONSTANTS
  Procs = {p1, p2}
  None = None
  Dead = Dead
  MaxGenerations = 2
  Versions = {"v36"}
  LiveTakeover = TRUE
INVARIANT TrainingExclusive
