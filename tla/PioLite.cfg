CONSTANTS
    InstructionWords = 8
    PinCount = 3
    WordBits = 4
    FifoDepth = 1
    Scenes <- MCScenes
SPECIFICATION Spec
CHECK_DEADLOCK FALSE
INVARIANTS StoreCoheres DriveDisjoint OnlyOwnFaults LinkExact
