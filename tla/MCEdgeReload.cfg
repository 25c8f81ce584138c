SPECIFICATION ESpec
CONSTANTS
    RELOAD_DEBOUNCE = 1
    RELOAD_POLL = 2
    RETRY_CAP = 4
    MAX_WAIT = 1
    DueWakes = FALSE
    MAX_RELOAD = 1
    MaxTime = 2
    MaxWrites = 3
    MaxCerts = 1
INVARIANT EdgeIsCurrent
