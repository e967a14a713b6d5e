SPECIFICATION Spec
CONSTANT MaxEdits = 1
CHECK_DEADLOCK FALSE
INVARIANTS OneSource ReportsCohere OneImage NoOldSuccess CleanLog
