SPECIFICATION CleanerSpec
CONSTANTS
  Tasks = {t1}
  Workers = {w1}
  None = None
  QueueSize = 2
  MaxRetries = 1
  Cancelable = {}
  MaxCrashes = 0
  MaxResizes = 0
  MaxDbFaults = 1
  MaxCleans = 0
PROPERTIES CleanerSparesActive
