\* Two groups that make up two sets, two transactions.
SPECIFICATION MCSpec
CONSTANTS
    Groups = {g1, g2}
    Sets = {s1, s2}
    Txs = {t1, t2}
    Compositions = {{g1}, {g2}, {g1, g2}}
    MaxContent = 1
    NoGroup = NoGroup
    NoSet = NoSet
    NoHash = NoHash
SYMMETRY Symmetry
INVARIANTS OneActive LossIsSeen
PROPERTIES WalksLifecycle
CHECK_DEADLOCK FALSE
