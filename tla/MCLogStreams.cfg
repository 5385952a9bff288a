SPECIFICATION FairStreamSpec
CONSTANTS
  Workers = {w1, w2}
  Keys = {k0, k1}
  NoWorker = NoWorker
  MaxJobs = 2
  MaxStops = 1
  MaxLost = 1
  Chans = {c1}
  Pipes = {stdout, stderr}
  BufCap = 1
  MaxLines = 2
INVARIANTS
  TypeOK
  OneInFlightPerProject
  ClaimedOnce
  RunningHasOwner
  NoSendOnClosedChannel
  OpenStreamIsTracked
PROPERTIES
  ImplementsProjectQueue
  FinishedStaysFinished
  QueuedEventuallyEnds
  LiveStreamCloses
