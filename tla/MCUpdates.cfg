CONSTANTS
  Digests = {d1, d2}
  First = d1
  None = None
  MaxMoves = 1
  MaxClicks = 1
  MaxCrashes = 1
  MaxQueued = 1
  MaxJobs = 3
  MaxFaults = 2
  MaxSoloCrashes = 1
SPECIFICATION UpdatesSpec
INVARIANTS UpdatesTypeOK ServedUnderItsName FailedJobKeepsContainer LastGoodKept
PROPERTIES RolledBackStays DismissedStays SnapshotBeforeMutation AppliedIsDelivered DriftSurfaces
CHECK_DEADLOCK FALSE
