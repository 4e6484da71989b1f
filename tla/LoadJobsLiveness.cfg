\* One job, one run: recovery and cancel under fairness (no symmetry).
CONSTANTS
    Job = {j1}
    Run = {r1}
    NoJob = NoJob
    NoRun = NoRun
    LeaseTTL = 1
    MaxTime = 3
    MaxRestart = 1
SPECIFICATION FairSpec
CHECK_DEADLOCK FALSE
PROPERTIES
    AbandonedRowEnds
    OrphanRunEnds
