SPECIFICATION MCSpec
CONSTANTS
    H2_WINDOW = 4
    H2_MAX_WINDOW = 6
    MAX_FRAME_SIZE = 2
    MAX_CONCURRENT = 2
    RESET_MEMORY = 3
    MAX_REFUSED_STREAK = 2
    MAX_H2_BODY = 3
    MAX_HEADER_BLOCK = 2
    H2Ids = {1, 2, 3}
    H2Windows = {6}
    H2Increments = {0, 3}
    H2Responses = {0, 5}
    MaxH2Frames = 4
    H3Streams = {0, 4}
    MAX_H3_BODY = 1
    MaxResponse = 2
    Strangers = {"a", "b", "c"}
    REFUSAL_INTERVAL = 2
    REFUSAL_MAX_PEERS = 2
    REFUSAL_MAX_LINES = 2
    REFUSAL_MAX_OTHERS = 1
    MaxRefusals = 6
    RTime = 5
    ra = ra
    rb = rb
    Requests = {ra, rb}
    Body <- MCBody
    DEFAULT_WINDOW = 1
    MAX_WINDOW = 4
    Windows = {0, 4}
    Increments = {0, 1, 4}
    Peers = {"orderly", "faulty"}
    MaxFrames <- MCMaxFrames
    ga = ga
    gb = gb
    GRequests = {ga, gb}
    GBody <- MCGBody
    GWindow = 1
    GMaxWindow = 6
    GWindows = {2}
    GIncrements = {6}
    GTlsLimit = 2
    GMaxFrames = 3
    XRequests <- MCXRequests
    XNames <- MCXNames
    XMessages <- MCXMessages
    MAX_BACKEND_BODY = 20
INVARIANTS
    H2Contract
    H3Contract
    RefusalsAreAccountedFor
    ClientContract
    GFailureIsThePeers
    XContract
PROPERTIES
    ClientKeepsPromises
CHECK_DEADLOCK FALSE
