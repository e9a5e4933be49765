SPECIFICATION Spec
CONSTANTS
    o1 = o1
    s1 = s1
    s2 = s2
    DayTicks = 2
    Offset = 1
    Months = 2
    MonthDays <- MCMonthDays
    WeekDays = 2
    MaxRangeDays = 3
    MinYear = 1
    MaxYear = 3
    Rolling <- MCRolling
    Orders = {o1}
    Requests <- MCRequests
    ChartDays = 2
    StaleTicks = 1
    Sessions = {s1, s2}
    Versions = {1, 2}
    CallTicks = 1
    CacheTicks = 2
    MaxReports = 3
    StartAt = 11
    LastTick = 13
    MaxEvents = 3
INVARIANT FiguresAgree
INVARIANT MonthPageAgrees
INVARIANT OneRatePerDay
INVARIANT OneReportADay
CHECK_DEADLOCK FALSE
SYMMETRY MCSymmetry
