SPECIFICATION MCSpec
CONSTANTS
    RELOAD_DEBOUNCE = 1
    RELOAD_POLL = 4
    CACHE_RELOAD_MARGIN = 2
    EDGE_LAG = 2
    EVENT_LAG = 3
    POLL_LAG = 7
    FETCH_LAG = 2
    EDGE_WAIT = 1
    Backends = {"socket", "url"}
    Editing = {"socket", "url"}
    MaxTime = 16
    MaxVersions = 3
    lc1 = lc1
    lc2 = lc2
    Clients = {lc1, lc2}
    ByThread = {lc1}
    Listening = {"udp", "h2c"}
    BATCH = 2
    TICK = 2
    RESCAN = 1
    LTime = 3
INVARIANTS
    CoherenceContract
    LoopContract
CHECK_DEADLOCK FALSE
