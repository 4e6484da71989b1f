\* One job, two runs (a launch and a re-execution or an ambiguous launch).
CONSTANTS
    Job = {j1}
    Run = {r1, r2}
    NoJob = NoJob
    NoRun = NoRun
    LeaseTTL = 1
    MaxTime = 3
    MaxRestart = 0
SPECIFICATION Spec
SYMMETRY RunSymmetry
CHECK_DEADLOCK FALSE
INVARIANTS
    OneExecutor
    RejectedNeverRuns
    DoneIsSuccess
PROPERTIES
    VerdictIsFinal
    EvictionJustified
    ImplementsLifecycle
