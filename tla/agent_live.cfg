SPECIFICATION FairSpec
CONSTANTS
    w1 = w1
    w2 = w2
    w3 = w3
    w4 = w4
    Windows = {w1, w2}
    Starts = {2, 3}
    Size <- MCSize
    MaxBytes = 4
    MaxBatch = 2
    MaxCrashes = 1
    Faults = {"corrupt"}
    RestartOverlap = FALSE
    Second = 1
    Modulus = 256
    Lo <- MCLo
    Hi <- MCHi
    Flags <- MCFlags
    Configs <- SomeConfigs
    Attempts <- FewAttempts
    Poison = {w2}
INVARIANTS NoResend
PROPERTIES EventuallySettled StopsEventually
