SPECIFICATION Spec
CONSTANTS
    Dbs = {live, restored}
    Names = {serving, a, b}
    Serving = serving
    Ops = {o1, o2}
    Maint = {postgres, template1}
    Contents = {c1, c2}
    NoDb = NoDb
    NoOp = NoOp
    NoFp = NoFp
    MaxReleases = 4
INVARIANT OneSwapAtATime
CHECK_DEADLOCK FALSE
