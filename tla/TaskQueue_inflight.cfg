SPECIFICATION Spec
CONSTANTS
  Tasks = {t1}
  Workers = {w1}
  None = None
  QueueSize = 1
  MaxRetries = 2
  Cancelable = {}
  MaxCrashes = 1
  MaxResizes = 0
  MaxDbFaults = 0
PROPERTIES InFlightIsResumed
