SPECIFICATION Spec
CONSTANTS
    Instants = {0, 1, 2}
    VirtualNames = {"lo"}
    WholeDiskNames = {"sda", "sdb"}
    Unit = 5040
    Moments = {1, 2}
    Shows <- Returned
    Widths = {1, 2}
    MaxReadings = 3
INVARIANTS SharesPartition
CHECK_DEADLOCK FALSE
