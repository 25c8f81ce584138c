SPECIFICATION MCSpec
CONSTANTS
    MAX_REQUESTS_PER_CONN = 2
    MAX_REQUEST_PIECES = 3
    Pieces = {"full", "close", "head", "rest", "expect", "unsup", "bad"}
    MaxUnread = 2
    Conns = {c1, c2}
    Workers = {w1, w2}
    QueueSize = 1
    VMAX_REQUESTS_PER_CONN = 2
    MaxGen = 1
INVARIANTS
    H1AnsweredOnce
PROPERTIES
    H1ConnectionsEnd
    VContract
CHECK_DEADLOCK FALSE
