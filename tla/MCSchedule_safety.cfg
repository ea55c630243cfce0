SPECIFICATION ScheduleSpec
CONSTANTS
    MaxRun = 20
    MaxLate = 9
    EnvUrl = "good"
    NoUrl = NoUrl
INVARIANTS ScheduleTypeOK RefreshesStayApart EveryHourHasARefresh ListingsAreCurrent SettingsAreKept
PROPERTY OneRunPerMark
