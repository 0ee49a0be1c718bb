SPECIFICATION SettingsFairSpec
CONSTANTS
  Callers = {c1, c2}
  Workers = {w1, w2, w3}
  Sizes = {1, 2}
  NumJobs = 1
  MaxCalls = 2
  Absent = Absent
  Configured = 1
  BuiltIn = 2
  MaxCommands = 2
  MaxFaults = 1
  MaxRestarts = 1
INVARIANTS SettingsTypeOK WaitGroupCounts OnePool PoolMatchesSettings UpdatesKept
PROPERTIES CallsReturn
CHECK_DEADLOCK FALSE
