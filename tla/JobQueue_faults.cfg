\* Two workers, every kind of failure, stop and crash.
SPECIFICATION Spec
CONSTANTS
  j1 = j1  j2 = j2  w1 = w1  w2 = w2
  Jobs <- MCJobs
  Workers <- MCWorkers
  Handled <- MCHandled
  NoJob = NoJob
  Items = 2
  Faults = TRUE
  Signals = TRUE
  Crashes = TRUE
SYMMETRY MCSymmetry
INVARIANT ExclusiveDelivery
PROPERTIES ImplementsLifecycle
