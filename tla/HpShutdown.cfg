SPECIFICATION Spec
CONSTANTS
  TimeoutInput = 8
  MinHp = 3
  MaxHp = 3
  MinGap = 0
  MaxGap = 3
  Jitter = FALSE
INVARIANTS ForcedFaultExact ResetFindsNoBurst CleanAckIsFresh
