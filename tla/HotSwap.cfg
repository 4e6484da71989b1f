\* Two databases, three names, two requests, one maintenance database.
SPECIFICATION Spec
CONSTANTS
    Dbs = {live, restored}
    Names = {serving, a, b}
    Serving = serving
    Ops = {o1, o2}
    Maint = {postgres}
    Contents = {c1, c2}
    NoDb = NoDb
    NoOp = NoOp
    NoFp = NoFp
    MaxReleases = 4
SYMMETRY Symmetry
INVARIANTS ServingNameKept HonestToken
PROPERTIES RolledBackAsBefore RecordedWhereSwapped
CHECK_DEADLOCK FALSE
