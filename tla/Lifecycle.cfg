SPECIFICATION FairSpec
CONSTANTS
  Threads = {t1, t2}
  Starter = s
  Delay = 2
  Off = Off
  Faults = {"publish", "critical", "samgr", "reclaim"}
  MaxFaults = 1
  MaxCalls = 3
  MaxStarts = 2
CHECK_DEADLOCK FALSE
INVARIANTS
  TasksCounted
  UnloadScheduled
  CriticalReleased
PROPERTIES
  Unloads
  UnloadAfterQuiet
