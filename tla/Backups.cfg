\* Two backups, two calls of run-due, one archive to keep.
CONSTANTS
    Backups = {b1, b2}
    Triggers = {t1, t2}
    Plain = plain
    KeepMin = 1
    NoBackup = NoBackup
    NoTrigger = NoTrigger
SPECIFICATION MCSpec
SYMMETRY Symmetry
INVARIANTS
    AvailableHasArchive
    MinimumKept
    OneScheduledAtATime
CHECK_DEADLOCK FALSE
