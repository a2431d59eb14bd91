SPECIFICATION Spec
CONSTANTS
    Zones <- EastAndWest
    Horizon = 15
    MaxPeriods = 1
    None = None
INVARIANTS
    TypeOK
    WeekShowsEntered
    RowsCoverMonth
    BarsMatchDays
    DetailsCountEntered
    AnalyticsAgree
    OfferedIsAccepted
