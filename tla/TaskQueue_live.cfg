SPECIFICATION IntakeFairSpec
CONSTANTS
  Tasks = {t1, t2}
  Workers = {w1}
  None = None
  QueueSize = 1
  MaxRetries = 2
  Cancelable = {}
  MaxCrashes = 1
  MaxResizes = 0
  MaxDbFaults = 1
  Limit = 1
INVARIANTS LimitHolds
PROPERTIES EveryTaskSettles
