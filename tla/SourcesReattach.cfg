SPECIFICATION MCSpec
CONSTANTS
    Groups = {g1, g2}
    Sets = {s1, s2}
    Txs = {t1, t2}
    Compositions = {{g1, g2}}
    MaxContent = 1
    NoGroup = NoGroup
    NoSet = NoSet
    NoHash = NoHash
SYMMETRY Symmetry
INVARIANT RestoredSetsReattach
CHECK_DEADLOCK FALSE
