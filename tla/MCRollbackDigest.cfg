CONSTANTS
  app = app
  side = side
  aux = aux
  Stack = {app}
  Nobody = Nobody
  Provider <- MCProvider
  Styles <- MCExact
  Home = Nobody
  Moving = {app}
  MaxReleases = 2
  MaxApplies = 4
  MaxWoes = 2
SPECIFICATION StackSpec
INVARIANT RollbackToDigest
CHECK_DEADLOCK FALSE
