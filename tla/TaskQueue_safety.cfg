SPECIFICATION Spec
CONSTANTS
  Tasks = {t1, t2}
  Workers = {w1, w2}
  None = None
  QueueSize = 1
  MaxRetries = 2
  Cancelable = {t1, t2}
  MaxCrashes = 1
  MaxResizes = 1
  MaxDbFaults = 1
SYMMETRY Symmetry
INVARIANTS TypeOK QueueInv SingleOwner NoLostTask CompletedImpliesUploaded CancelReachesJobs NoDiskLeak RetriesBounded
PROPERTIES SettledIsFinal ImplementsLedger
