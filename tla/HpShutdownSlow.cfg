SPECIFICATION Spec
CONSTANTS
  TimeoutInput = 14
  MinHp = 3
  MaxHp = 3
  MinGap = 4
  MaxGap = 4
  Jitter = FALSE
INVARIANTS FlushSeenByEverySide
