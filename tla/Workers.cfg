CONSTANTS
    SlotCount = 3
    Target = 1
    Extra = 0
    FirstWorkers = 0
    MaxPosts = 2
    MaxBooting = 2
    Boot = "boot"
    Items <- MCItems
    Pushes <- MCPushes
    Ends <- MCEnds
SPECIFICATION Spec
INVARIANTS
    TypeOK
    ItemsConserved
    NoneLeftBehind
    SlotsSuffice
PROPERTY EveryItemRuns
