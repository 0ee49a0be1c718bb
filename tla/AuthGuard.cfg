SPECIFICATION FairSpec
CONSTANTS
  Updates = {u1, u2}
  Commands = {c1, c2}
  TTL = 2
  MaxCommands = 2
  MaxFaults = 1
  MaxCrashes = 1
INVARIANTS TypeOK OnlyOvertakenIsStale
PROPERTIES RevocationTakesEffect
