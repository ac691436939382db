SPECIFICATION Spec
CONSTANTS
  Versions = {"v35", "v36", "v37"}
  Seeds = {1, 2, 3, 4, 5}
  Workers = {w1, w2}
  None = None
  Generations = 4
  Config <- MCConfig
  Hash <- MCHash
INVARIANTS
  HofIsBest
  LineageIsReproducible
  ArchiveIsElite
  LineageIsTraceable
CHECK_DEADLOCK FALSE
