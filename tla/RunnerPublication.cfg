CONSTANTS
  r1 = r1
  r2 = r2
  r3 = r3
  None = None
  Refused = Refused
  Runs <- MCRuns
  Names = {"alpha", "beta"}
  Targets = {"sim"}
  Folds = {"alpha", "beta"}
  RunLocks = {"k1", "k2"}
  NameOf <- MCNameOf
  TargetOf <- MCTargetOf
  FoldOf <- MCFoldOf
  LockOf <- MCLockOf
  Stragglers = {}
  LateInterrupts = FALSE
SPECIFICATION Spec
INVARIANTS PointerCurrent WalReplayable ReportedIsAnchored LatestSettles OnlyReplayIsSuperseded
PROPERTIES WalNotReplaced ImplementsEvidence
CHECK_DEADLOCK FALSE
