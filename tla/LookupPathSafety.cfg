\* Three requests on one process: one slot for geocode, two for the address API, one load in flight.
CONSTANTS
    r1 = r1
    r2 = r2
    r3 = r3
    k1 = k1
    k2 = k2
    Requests = {r1, r2, r3}
    Paths = {"geocode", "search", "dataset"}
    Limit <- OneOfEach
    Keys = {k1, k2}
    Weights = {1}
    MaxBytes = 1
    MaxInFlight = 1
    l1 = l1
    l2 = l2
    Loads = {l1, l2}
    NoLoad = NoLoad
    MaxClears = 1
SPECIFICATION PathSpec
SYMMETRY Symmetry
INVARIANTS
    SlotsConserved
    GlobalSlotsServe
    LoadsAreWanted
