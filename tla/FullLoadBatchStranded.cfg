\* One source: the queued children of a batch that has failed.
CONSTANTS
    Run = {r1}
    NoRun = NoRun
    LeaseTTL = 1
    NumSources = 1
    BatchRun = r1
SPECIFICATION FairSpec
CHECK_DEADLOCK FALSE
PROPERTIES
    NoStrandedChildren
