SPECIFICATION Spec
CONSTANTS
    Kinds <- MCKinds
    Parts = {"a", "b"}
    MaxArchives = 2
    MaxRuns = 3
CHECK_DEADLOCK FALSE
INVARIANTS OneArchive VerdictIsOwn
