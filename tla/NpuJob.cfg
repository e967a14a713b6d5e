CONSTANTS
    Lanes = 2
    MaxKSlice = 4
    TileW = 2
    MaxTile = 4
    MaxDimension = 8
    MaxKernel = 3
    Alignment = 4
    Scenes <- MCScenes
SPECIFICATION Spec
CHECK_DEADLOCK FALSE
INVARIANTS LiveDisjoint AcceptedRuns LayerExact OutputSurvives
