SPECIFICATION Spec
CONSTANTS
  Codes = {a1, a2}
  None = None
  Handlers = {h1, h2}
  Documents = {TRUE, FALSE}
  MaxLogins = 2
  MaxHandled = 6
  MaxFaults = 1
  MaxCrashes = 1
INVARIANTS TypeOK TokenAndRemoteAgree TokenIsWhole NoUploadOnLeftovers
