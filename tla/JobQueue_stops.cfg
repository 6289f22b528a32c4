\* Redis and Postgres answer; workers are stopped and crash.
SPECIFICATION FairSpec
CONSTANTS
  j1 = j1  j2 = j2  w1 = w1  w2 = w2
  Jobs <- MCJobs
  Workers <- MCWorkers
  Handled <- MCHandled
  NoJob = NoJob
  Items = 2
  Faults = FALSE
  Signals = TRUE
  Crashes = TRUE
INVARIANTS CompletedIsFullyReported
PROPERTIES ShutdownCompletes EveryJobEnds
