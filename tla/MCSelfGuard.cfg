CONSTANTS
  app = app
  side = side
  aux = aux
  Stack = {app, side, aux}
  Nobody = Nobody
  Provider <- MCProvider
  Styles <- MCStyles
  Home = aux
  Moving = {app, aux}
  MaxReleases = 1
  MaxApplies = 2
  MaxWoes = 1
SPECIFICATION StackSpec
PROPERTY OwnContainerSpared
CHECK_DEADLOCK FALSE
