SPECIFICATION CleanerFairSpec
CONSTANTS
  Tasks = {t1, t2}
  Workers = {w1}
  None = None
  QueueSize = 2
  MaxRetries = 2
  Cancelable = {}
  MaxCrashes = 1
  MaxResizes = 0
  MaxDbFaults = 0
  MaxCleans = 1
INVARIANTS CompletedImpliesUploaded
PROPERTIES CleanerSparesActive GarbageIsRemoved
