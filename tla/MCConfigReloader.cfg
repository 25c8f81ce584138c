SPECIFICATION Spec
CONSTANTS
    RELOAD_DEBOUNCE = 2
    RELOAD_POLL = 3
    RETRY_CAP = 6
    MAX_WAIT = 1
    DueWakes = TRUE
    MAX_RELOAD = 1
    MaxTime = 11
    MaxWrites = 2
INVARIANTS
    ReloaderContract
    ReportedInTime
PROPERTY ReportsAreSpaced
