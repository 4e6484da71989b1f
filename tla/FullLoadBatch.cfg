\* Two sources, the consistency check and the refresh; recovery of the rows.
CONSTANTS
    Run = {r1}
    NoRun = NoRun
    LeaseTTL = 1
    NumSources = 2
    BatchRun = r1
SPECIFICATION FairSpec
CHECK_DEADLOCK FALSE
INVARIANTS
    InOrder
    PublishedIsVetted
    DoneBatchIsWhole
PROPERTIES
    ImplementsPublication
    RunningRowsEnd
