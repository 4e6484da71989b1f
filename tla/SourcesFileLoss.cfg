SPECIFICATION MCSpec
CONSTANTS
    Groups = {g1}
    Sets = {s1}
    Txs = {t1}
    Compositions = {{g1}}
    MaxContent = 1
    NoGroup = NoGroup
    NoSet = NoSet
    NoHash = NoHash
SYMMETRY Symmetry
INVARIANT FileLossIsSeen
CHECK_DEADLOCK FALSE
