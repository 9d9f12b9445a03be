CONSTANTS
    Threads = {t1, t2}
    Nodes = {n1, n2, n3}
    MaxEpoch = 5
SPECIFICATION Spec
SYMMETRY Symmetry
INVARIANTS
    TypeOK
    NoUseAfterFree
    FreedOnce
    NothingLost
    RetiresElsewhere
