SPECIFICATION MCSpec
CONSTANTS
    Keys <- MCKeys
    MAX_BYTES = 8
    SECOND = 2
    HEURISTIC_MAX_LIFETIME = 3
    Responses <- MCCacheResponses
    Requests <- MCCacheRequests
    MaxTime = 4
    MaxTicks = 4
    Pages = {"s", "u", "v"}
    UrlKeys = {"u", "v"}
    Outcomes = {"stored", "failed"}
    MAX_REFRESH_QUEUE = 2
    Sockets = {1, 2}
    MAX_BACKOFF = 3
    WIDTH = 64
    RESCAN = 2
    MaxEvents = 2
    MaxFailures = 3
    PReqs <- MCPReqs
    PConfigs <- MCPConfigs
    Slashed <- MCSlashed
    RATE_WINDOW = 2
    MAX_TRACKED_IPS = 1
    ERROR_PAGE_TTL = 1
    PTime = 3
    MaxPending = 1
    MaxCount = 2
    Visitors = {"v1", "v2"}
    NMaxRequests = 3
    NMissing = TRUE
    Unset = Unset
    KSites <- MCKSites
    KSystems <- MCKSystems
    KeyFiles = {"good", "garbled"}
    ERequests <- MCERequests
    EHandshakes <- MCEHandshakes
    EScrapes <- MCEScrapes
    EConfigs <- MCEConfigs
    EVersions = {"h1", "h2", "h3"}
    RESERVOIR = 2
    CHANNEL_RESERVOIR = 1
    EMIT_INTERVAL = 1
    EMaxRecords = 3
    EMaxHandshakes = 1
    EMaxTime = 2
INVARIANTS
    CacheContract
    RefreshContract
    PContract
    NOneSessionPerAnswer
    KConfigIsWhatRuns
    EReportsAreExact
PROPERTIES
    LeastRecentlyReadGoesFirst
    PoolContract
CONSTRAINT MCPScope
CHECK_DEADLOCK FALSE
