SPECIFICATION ScheduleSpec
CONSTANTS
    MaxRun = 2
    MaxLate = 1
    EnvUrl = "good"
    NoUrl = NoUrl
INVARIANT EveryMarkHasAnEvent
