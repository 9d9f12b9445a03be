CONSTANTS
    GenMax = 3
    Slots = {s1, s2}
    Handles = {h1, h2, h3}
    MaxLives = 2
    MaxDestructors = 1
    MaxCarried = 2
SPECIFICATION DestructorsSpec
SYMMETRY HandleSymmetry
INVARIANTS
    TypeOK
    DestructorsTypeOK
    HeldIntact
    ExclusiveOwner
    AcquirableIsPopulated
    NoSlotLeaks
    FreshAcquirable
    RunsOnceAtTheEnd
    HeldHasSet
