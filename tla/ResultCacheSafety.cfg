\* Three requests for three keys, two loads in flight, a budget of three bytes, one clear or close.
CONSTANTS
    r1 = r1
    r2 = r2
    r3 = r3
    k1 = k1
    k2 = k2
    k3 = k3
    l1 = l1
    l2 = l2
    l3 = l3
    Requests = {r1, r2, r3}
    Keys = {k1, k2, k3}
    Weights = {1, 2, 4}
    MaxBytes = 3
    MaxInFlight = 2
    Loads = {l1, l2, l3}
    NoLoad = NoLoad
    MaxClears = 1
SPECIFICATION Spec
SYMMETRY Symmetry
INVARIANTS
    TypeOK
    BudgetKept
    ClearedStaysOut
    OneLoadPerKey
    SharedLoadsSurvive
PROPERTIES
    JoinsCurrentLoads
