SPECIFICATION Spec
CONSTANTS
    w1 = w1
    w2 = w2
    w3 = w3
    w4 = w4
    Windows = {w1, w2, w4}
    Starts = {1, 2}
    Size <- MCSize
    MaxBytes = 3
    MaxBatch = 2
    MaxCrashes = 1
    Faults = {"write", "scan", "stat", "read", "corrupt"}
    RestartOverlap = FALSE
INVARIANTS TypeOK NothingLost EvictionsReported CapHolds TempsFromKills
PROPERTIES ImplementsStore
