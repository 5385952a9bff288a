SPECIFICATION MCSpec
CONSTANTS
  a = a
  b = b
  c = c
  stack = stack
  solo = solo
  app = app
  side = side
  aux = aux
  NoRow = NoRow
  Nobody = Nobody
  \* ContainerJobs
  ServiceSeq <- MCServiceSeq
  ProjectOf <- MCProjectOf
  Dependents <- MCDependents
  Standalone = {solo}
  GoneGrace = 1
  MaxClock = 1
  MaxUpsets = 2
  \* ComposeStack
  Stack = {app, side, aux}
  Provider <- MCProvider
  Styles <- MCStyles
  Home = Nobody
  Moving = {app, aux}
  MaxReleases = 1
  MaxApplies = 2
  MaxWoes = 1
  \* SelfUpdate
  Kinds = {"latest", "pinned"}
  MaxRelease = 3
  MaxAsks = 2
  MaxRefusals = 2
  \* ScanRunner
  AllServices = 2
  MaxSweeps = 2
  MaxMeddling = 1
  BufferSize = 1
  \* Detection
  TagList <- MCTagList
  Pins = {1, 2}
  ImageCount = 2
  LabelOf <- MCLabelOf
  Cap = 2
  MaxPushes = 2
  MaxShifts = 2
  MaxOutages = 1
INVARIANTS
  PartsTypeOK
  FileUndoable DependentsJoined RollbackReturns SiblingsClosed AppliedRuns
  NotLeftDead
  FullSweepFirst AbortHeeded OneSweep
PROPERTIES
  PrunedOnlyAfterGrace ManualKept ProviderOrder TablesCatchUp
  SwapMovesForward
  ScanEnds ViewSettles
  FindsSettle
CHECK_DEADLOCK FALSE
