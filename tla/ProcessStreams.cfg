SPECIFICATION Spec
CONSTANTS
  Kinds = {"command", "role"}
  MaxRows <- MCMaxRows
  PipeSize = 1
  Limit = 3
INVARIANTS
  AcceptedIsExamined
  NothingIsLeft
PROPERTY CallerReturns
CHECK_DEADLOCK FALSE
