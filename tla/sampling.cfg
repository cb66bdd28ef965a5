SPECIFICATION Spec
CONSTANTS
    Instants = {1, 2, 3}
    VirtualNames = {"lo"}
    WholeDiskNames = {"sda", "sdb"}
    Unit = 5040
    Moments = {1, 2, 3, 4, 5}
    Shows <- Growing
    Widths = {2, 3}
    MaxReadings = 4
INVARIANTS Conservation NoMixing RatedAgainstLast InsideWindow SharesPartition WindowReports TrafficNotInvented
PROPERTIES CompletedByLater
CHECK_DEADLOCK FALSE
