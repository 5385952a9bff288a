CONSTANTS
  Digests = {d1, d2}
  First = d1
  None = None
  MaxMoves = 2
  MaxClicks = 0
  MaxCrashes = 0
  MaxQueued = 1
SPECIFICATION LedgerFairSpec
PROPERTY DriftNeverHidden
