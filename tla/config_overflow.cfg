SPECIFICATION Spec
CONSTANTS
    w1 = w1
    w2 = w2
    w3 = w3
    w4 = w4
    Windows = {w1, w2}
    Starts = {2, 3, 4}
    Size <- MCSize
    MaxBytes = 2
    MaxBatch = 1
    MaxCrashes = 0
    Faults = {}
    RestartOverlap = FALSE
    Second = 1
    Modulus = 256
    Lo <- MCLo
    Hi <- MCHi
    Flags <- MCFlags
    Configs <- WrappingConfigs
    Attempts <- FewAttempts
    Poison = {}
PROPERTIES AllOrNothing
