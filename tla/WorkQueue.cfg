CONSTANTS
    Thieves = {h1, h2}
    MaxItems = 5
SPECIFICATION Spec
SYMMETRY Symmetry
INVARIANT FitsInArray
PROPERTY ImplementsDeque
