SPECIFICATION FairSpec
CONSTANTS
  Threads = {t1, t2}
  TryTimes = 4
  Faults = {"samgr", "load", "fail", "slow", "unload"}
  MaxFaults = 2
  MaxCalls = 2
CHECK_DEADLOCK FALSE
INVARIANTS
  TypeOK
  FailsByResets
  OneFaultMasked
PROPERTIES
  Returns
