CONSTANTS
    DayLength = 4
    WeekLength = 3
    MonthLengths <- FewMonths
    Rules <- AllRules
    Anchors <- SomeAnchors
    Zones <- SomeZones
    QuietHours <- SomeQuiet
    SearchDays = 9
    SearchMonths = 4
    Horizon = 12
    Fails = Fails
    None = None
SPECIFICATION ScheduleSpec
INVARIANTS
    EmitsTheRule
    AvailableOutsideQuiet
    SearchFinds
CHECK_DEADLOCK FALSE
