SPECIFICATION SpecAnswers
CONSTANTS
    Dbs = {live, restored}
    Names = {serving, a, b}
    Serving = serving
    Ops = {o1}
    Maint = {postgres}
    Contents = {c1, c2}
    NoDb = NoDb
    NoOp = NoOp
    NoFp = NoFp
    MaxReleases = 3
    Requests = {r1}
INVARIANT AnswersOfTheirRelease
CHECK_DEADLOCK FALSE
