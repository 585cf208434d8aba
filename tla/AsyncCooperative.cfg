SPECIFICATION FairClientSpec
CONSTANTS
  c1 = c1
  c2 = c2
  w = w
  Callers <- AppAndCallbacks
  CallbackTask = w
  Preemptive = FALSE
  BlockingReads = FALSE
  IdleRuns = TRUE
INVARIANTS
  NoTcbReuse
  ReaderActiveWhileReading
PROPERTIES
  BailOutStops
  KeepsPromise
