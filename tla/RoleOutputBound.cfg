SPECIFICATION Spec
CONSTANTS
  Kinds = {"role"}
  MaxRows <- MCMaxRows
  PipeSize = 1
  Limit = 3
INVARIANT RoleIsBounded
CHECK_DEADLOCK FALSE
