SPECIFICATION Spec
CONSTANTS
  HandoffMax = 2
  Paths = {"dma", "ga2d"}
  PollLimit = 3
  ApbCycles = 3
  MaxHp = 2
INVARIANTS HalVerdictIsTrue
PROPERTIES HandoffIsQuiet SourceRearms
