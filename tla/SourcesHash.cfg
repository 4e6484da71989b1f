SPECIFICATION MCSpec
CONSTANTS
    Groups = {g1}
    Sets = {s1}
    Txs = {t1, t2}
    Compositions = {{g1}}
    MaxContent = 2
    NoGroup = NoGroup
    NoSet = NoSet
    NoHash = NoHash
SYMMETRY Symmetry
INVARIANTS TypeOK OneActive LossIsSeen
PROPERTIES WalksLifecycle ActivatesWhatWasValidated
CHECK_DEADLOCK FALSE
