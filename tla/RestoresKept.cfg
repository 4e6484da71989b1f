\* Two restores.
CONSTANTS
    Jobs = {j1, j2}
    Targets = {copy}
    Current = current
SPECIFICATION Spec
CHECK_DEADLOCK FALSE
INVARIANTS
    FinishedRestoreKept
