CONSTANTS
    Workers = {w1, w2}
    Sysmon = sysmon
    Keys = {"k", "p", "q"}
    AtomicallyKeys = {"v"}
    LaterSlots = 2
    MaxStmts = 12
    MaxMatches = 10
    Clauses <- MCClauses
    Continues <- MCContinues
    Whens <- MCWhens
    Nonatomically <- MCNonatomically
    Subscribes <- MCSubscribes
    Events <- MCEvents
    Reacts <- MCReacts
    Body <- MCBody
    Programs <- LongerPrograms
SPECIFICATION Spec
SYMMETRY WorkerSymmetry
INVARIANT SupportedIsIndexed
