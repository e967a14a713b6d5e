SPECIFICATION Spec
CONSTANTS
  Timeout = 2
  MaxBeats = 2
  Depth = 2
  Traffic <- MCTraffic
CHECK_DEADLOCK FALSE
INVARIANTS EveryBurstExact NoStrayWriteData
PROPERTIES EveryBurstCompletes
