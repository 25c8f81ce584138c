SPECIFICATION MCSpec
CONSTANTS
    UConfigs <- MCUConfigs
    USites <- MCUSites
    UBinaries <- MCUBinaries
    URegistered = {"h1"}
    UCode = {"/c"}
    UNeeds = {"db"}
    UMaxEdits = 2
    UMaxLaunches = 1
    Patterns <- MCPatterns
    Paths <- MCPaths
    NamedHandlers = {"h"}
    MaxConfigRoutes = 2
    YTime = 2
    MaxEdits = 1
    DWorkers = {"w1", "w2"}
    DPaths = {"a.json", "b.json"}
    DTmpOf <- MCTmp
    DCalls <- MCCalls
    DValues = {1, 2}
    DInodes = 2
    DMaxCrashes = 1
    QTabs = {1, 2}
    QMaxTokens = 5
    IVersions <- MCVersions
    IAccepts <- MCAccepts
    ILevels <- MCLevels
    ILines <- MCLines
    ICounts = {0, 1, 2}
    TAIL_LOOKBACK = 4
    MAX_TAIL_BYTES = 3
    JDocs = {"a", "b"}
    JMaxEdits = 4
    Procs = {"old", "new", "other"}
    CodeVersion <- MCCode
    SMaxRows = 2
    SMaxCrashes = 2
    Batch = 1
    Cap = 1
    HeadTokens = {"host", "te", "cl2", "expect100", "expectbad", "end"}
    MaxTokens = 7
    MAX_CHUNKED_BODY = 2
    MAX_HEADER_BYTES = 4
    MAX_BODY_BYTES = 2
    READ_CHUNK = 3
    WMaxRequests = 2
    MaxBody = 2
INVARIANTS
    UMissesOnlyTheGap
    ZMostSpecificWins
    DFilesAreWhole
    QOwnFormsAreAccepted
    IContract
    JWaitingMeansCurrent
    SMigrationsRunOnce
    WContract
PROPERTIES
    YNotModifiedIsHonest
CHECK_DEADLOCK FALSE
