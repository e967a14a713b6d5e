SPECIFICATION SceneSpec
CONSTANTS
  Sels = {0, 3, 7}
  None = None
  Timeouts = {2, 3}
  CntMax = 3
  LockQualCycles = 2
  Disturbances = {"none", "lock", "force"}
  MaxForceSafe = 1
  PollLimit = 2
  DriverSels = {7}
  DriverTimeout = 3
INVARIANTS StatusIsTrue PllStableInUse
PROPERTIES BlockedWhileSwitching AlwaysReturns BusyEnds
