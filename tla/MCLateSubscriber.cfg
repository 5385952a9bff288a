SPECIFICATION StreamSpec
CONSTANTS
  Workers = {w1}
  Keys = {k0}
  NoWorker = NoWorker
  MaxJobs = 1
  MaxStops = 1
  MaxLost = 0
  Chans = {c1}
  Pipes = {stdout}
  BufCap = 1
  MaxLines = 2
INVARIANTS
  LateSubscriberSeesClosed
