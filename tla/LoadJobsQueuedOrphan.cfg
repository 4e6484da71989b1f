\* A run that Dagster ends before its worker adopts the row.
CONSTANTS
    Job = {j1}
    Run = {r1}
    NoJob = NoJob
    NoRun = NoRun
    LeaseTTL = 1
    MaxTime = 3
    MaxRestart = 1
SPECIFICATION FairSpec
CHECK_DEADLOCK FALSE
PROPERTIES
    DagsterEndReachesRow
