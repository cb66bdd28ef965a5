SPECIFICATION FairSpec
CONSTANTS
    i1 = i1
    i2 = i2
    i3 = i3
    v1 = v1
    v2 = v2
    Images <- MCImages
    Versions = {v1, v2}
    VersionOf <- MCVersionOf
    Settings = {s1, s2}
    Bad = bad
    None = none
    MaxRuns = 3
    MaxMishaps = 2
CHECK_DEADLOCK FALSE
INVARIANTS SuccessMeansInstalled OnlyVerified TokenPrivate
PROPERTIES RerunRepairs ServiceReturns
