SPECIFICATION Spec
CONSTANTS
    Flags <- Brisk
    Schedules <- Replies
    Cycle = 8
    Timeout = 2
    Base = 1
    Cap = 6
    MaxBatch = 2
    MaxBacklog = 5
    MaxFailures = 4
INVARIANTS ScheduleOffset
