SPECIFICATION Spec
CONSTANTS
    w1 = w1
    w2 = w2
    w3 = w3
    w4 = w4
    Windows = {w1, w2, w3}
    Starts = {1, 2}
    Size <- MCSize
    MaxBytes = 3
    MaxBatch = 2
    MaxCrashes = 0
    Faults = {}
    RestartOverlap = TRUE
INVARIANTS NothingLost
