SPECIFICATION NSpec
CONSTANTS
    Visitors = {"v1", "v2"}
    NMaxRequests = 3
    NMissing = TRUE
INVARIANT NSessionsAreNotShared
CHECK_DEADLOCK FALSE
