SPECIFICATION PoolSpec
CONSTANTS
    Sockets = {1}
    MAX_BACKOFF = 2
    WIDTH = 64
    RESCAN = 2
    MaxEvents = 1
    MaxFailures = 65
INVARIANT BackoffNeverAborts
