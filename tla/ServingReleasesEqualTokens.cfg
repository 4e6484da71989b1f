\* One writer and one request: two changes of the data, two rows of the ledger.
CONSTANTS
    w1 = w1
    r1 = r1
    a = a
    b = b
    Writers = {w1}
    Requests = {r1}
    Contents = {a, b}
    NoFp = NoFp
    NoWriter = NoWriter
    MaxLoads = 2
    MaxReleases = 2
SPECIFICATION Spec
INVARIANTS
    EqualTokensEqualData
