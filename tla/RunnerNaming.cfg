CONSTANTS
  r1 = r1
  r2 = r2
  r3 = r3
  None = None
  Refused = Refused
  Runs <- MCRuns
  Names = {"alpha", "ALPHA"}
  Targets = {"sim", "other"}
  Folds = {"alpha"}
  RunLocks = {"k1", "k3"}
  NameOf <- NamingNameOf
  TargetOf <- NamingTargetOf
  FoldOf <- NamingFoldOf
  LockOf <- NamingLockOf
  Stragglers = {r1}
  LateInterrupts = TRUE
SPECIFICATION FairSpec
INVARIANTS OneTargetPerName StartupRecovers
PROPERTY EveryRunEnds
CHECK_DEADLOCK FALSE
