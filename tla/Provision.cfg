SPECIFICATION Spec
CONSTANTS
    Jobs = {"environment", "rtthread", "app", "apu_p5", "apu_p7", "npu", "hp_linux",
            "sources", "gf180", "sky130", "ics55", "mpw"}
    MaxLock = 2
    Size = 2
    Retries = 2
    MaxKills = 1
    MaxCuts = 1
    MaxMoves = 3
    MaxRuns = 1
CHECK_DEADLOCK FALSE
INVARIANTS ReadyIsWhole RecordTrue
PROPERTIES Settles
