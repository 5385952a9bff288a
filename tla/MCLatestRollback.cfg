CONSTANTS
  Kinds = {"latest"}
  MaxRelease = 2
  MaxAsks = 1
  MaxRefusals = 1
SPECIFICATION SelfSpec
PROPERTY RollbackIsOld
CHECK_DEADLOCK FALSE
