CONSTANTS
    GenMax = 1
    Slots = {s1}
    Handles = {h1, h2}
    MaxLives = 3
SPECIFICATION Spec
SYMMETRY HandleSymmetry
INVARIANT FreshAcquirable
