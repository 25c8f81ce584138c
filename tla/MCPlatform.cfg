SPECIFICATION MCSpec
CONSTANTS
    w1 = w1
    w2 = w2
    u1 = u1
    u2 = u2
    UserIds = {u1, u2}
    Names = {"ann"}
    Passwords = {"p"}
    Roles = {"r"}
    GroupIds = {"g1"}
    GroupNames = {"g"}
    AWorkers = {w1, w2}
    AClis = {"c1"}
    Keys = {"k1", "k2"}
    Nonces = {0}
    TokensIssuer = "none"
    SiteDomain = "example"
    AccessTtl = 1
    RefreshTtl = 2
    Leeway = 1
    MaxAttempts = 1
    WindowSecs = 1
    ATime = 1
    MaxFails = 4
    FNodes = {"n1","n2","n3"}
    Tunnelled = {"n1"}
    Keyless = {}
    Unpeered = {}
    Tokenless = {}
    Perfs <- MCPerfs
    Observed <- MCObserved
    Files <- MCFiles
    HeaderChecks = 0
    Timeout = 1
    Rekey = 2
    Margin = 3
    FTime = 3
    HNodes = {1}
    Agents = {"x", "y"}
    Sightings = {{"x"}, {"y"}}
    Windows = {1}
    QUEUE_POLLS = 1
    PRUNE_BATCH = 1
    CapPolls = 1
    PageRows = 1
    MaxRecorded = 3
    HTime = 1
    LMaxLines = 4
    LQueue = 2
    LMaxRot = 2
    TailLines = 2
    TRecords <- MCTRecords
    TBots = {"bot", "bot2"}
    TProbes = {"env", "git"}
    TInjections = {"sql"}
    UA_ROTATION_THRESHOLD = 2
    UA_ROTATION_MIN_REQUESTS = 3
    PROBE_PATHS_FOR_CONCERN = 2
    REFUSED_REQUESTS_FOR_CONCERN = 3
    USER_AGENTS_KEPT = 1
    TMaxRecords = 4
INVARIANTS
    AContract
    FContract
    HContract
    LNoLineLost
    TClaimsAreAccountedFor
CONSTRAINT MCAuthScope
SYMMETRY MCAuthSymmetry
CHECK_DEADLOCK FALSE
