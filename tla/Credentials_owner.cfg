SPECIFICATION Spec
CONSTANTS
  Codes = {a1}
  None = None
  Handlers = {h1}
  Documents = {FALSE}
  MaxLogins = 1
  MaxHandled = 2
  MaxFaults = 0
  MaxCrashes = 0
PROPERTIES CompleteLoginIsSaved
