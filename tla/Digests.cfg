SPECIFICATION Spec
CONSTANTS
    WeeklyDay = 1
    Enabled = {"weekly", "monthly", "yearly"}
    Scenarios <- MCScenarios
    MaxMisses = 2
    DevMode = TRUE
    TestDays <- MCTestDays
    None = None
    Good = Good
    Bad = Bad
INVARIANTS
    TypeOK
    WindowIsLastWholePeriod
    GridShowsEachDayOnce
    StreakIsLongest
    HighlightsBetterThanPassedOver
    CalendarPageIsWhole
PROPERTY DigestsTile
CHECK_DEADLOCK FALSE
