SPECIFICATION SSpec
CONSTANTS
    RELOAD_DEBOUNCE = 1
    RELOAD_POLL = 2
    RETRY_CAP = 4
    MAX_WAIT = 1
    DueWakes = TRUE
    MAX_RELOAD = 1
    MaxTime = 4
    MaxWrites = 2
INVARIANT ServiceContract
PROPERTY ImplementsConfigReloader
