CONSTANTS
  Digests = {d1, d2}
  First = d1
  None = None
  MaxMoves = 1
  MaxClicks = 1
  MaxCrashes = 1
  MaxQueued = 1
SPECIFICATION LedgerSpec
PROPERTY RollbackReverts
