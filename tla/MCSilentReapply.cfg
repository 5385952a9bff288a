CONSTANTS
  Digests = {d1, d2}
  First = d1
  None = None
  MaxMoves = 1
  MaxClicks = 1
  MaxCrashes = 0
  MaxQueued = 1
SPECIFICATION LedgerSpec
INVARIANT NoSilentReapply
