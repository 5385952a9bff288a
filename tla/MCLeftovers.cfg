CONSTANTS
  MaxJobs = 2
  MaxFaults = 0
  MaxSoloCrashes = 0
SPECIFICATION Spec
PROPERTY OnlyLeftoversCleared
CHECK_DEADLOCK FALSE
