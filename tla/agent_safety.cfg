SPECIFICATION Spec
CONSTANTS
    w1 = w1
    w2 = w2
    w3 = w3
    w4 = w4
    Windows = {w1, w2}
    Starts = {2, 3, 4}
    Size <- MCSize
    MaxBytes = 2
    MaxBatch = 1
    MaxCrashes = 1
    Faults = {"write", "remove", "stat"}
    RestartOverlap = FALSE
    Second = 1
    Modulus = 256
    Lo <- MCLo
    Hi <- MCHi
    Flags <- MCFlags
    Configs <- SomeConfigs
    Attempts <- EveryAttempt
    Poison = {w2}
INVARIANTS TypeOK NothingVanishes DiscardOnlySettled NothingLost SettingsInBounds
PROPERTIES ImplementsStore AllOrNothing Adopted
