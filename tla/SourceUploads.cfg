\* Two requests at a time; sessions, uploads and what runs beside them by scope.
CONSTANTS
    r1 = r1
    r2 = r2
    o1 = o1
    u1 = u1
    u2 = u2
    archive = archive
    sido = sido
    single = single
    other = other
    multi_part = multi_part
    Categories = {single, other, multi_part}
    Slots = {archive, sido}
    SlotsOf <- Kinds
    Uploads = {u1, u2}
    MaxSessions = 2
    Requests = {r1, r2}
    Operators = {o1}
    NoUpload = NoUpload
    Scopes <- SmallScopes
SPECIFICATION MCSpec
SYMMETRY Symmetry
INVARIANTS
    ProgressIsTrue
    OneLiveSession
    EndedHasNoFiles
    RegisteredObjectKept
CHECK_DEADLOCK FALSE
