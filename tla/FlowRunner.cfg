SPECIFICATION Spec
CONSTANTS
    MaxRuns = 2
    MaxLines = 2
    ExitCodes = {0, 1, 130}
    Users = {"hp", "make"}
CHECK_DEADLOCK FALSE
INVARIANTS PassedIsEarned VerdictOfOwnRun
PROPERTIES CancelEnds ResultIsKept
