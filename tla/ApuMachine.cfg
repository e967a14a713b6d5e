CONSTANTS
    MaxBranch = 8
    MaxInstructions = 12
    Slots = {0, 1}
    CallDepth = 2
    Scenes <- MCScenes
    Timeout = 7
    Fetch = 2
    Scratch = 4
    MaxBurst = 2
    Depth = 2
    Frame = 1
    Capacity = 3
    Input <- MCInput
    MaxLoop = 2
    MaxRetired = 12
    MaxRestarts = 1
SPECIFICATION Spec
CHECK_DEADLOCK FALSE
INVARIANTS ControlIsSafe Exact
PROPERTIES Ends
