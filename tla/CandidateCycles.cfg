CONSTANTS
  MaxCycles = 2
  RemediationCap = 1
  Roles = {a1, a2}
  MaxFaults = 1
  None = None
SPECIFICATION FairSpec
INVARIANTS AcceptedIsEarned ReadyIsEarned DecisionVerifies FoldsHeldOut
PROPERTY RunConcludes
CHECK_DEADLOCK FALSE
