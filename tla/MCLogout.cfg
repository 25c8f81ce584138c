SPECIFICATION ASpec
CONSTANTS
    UserIds = {"u1"}
    Names = {"ann"}
    Passwords = {"p"}
    Roles = {"r"}
    GroupIds = {"g1"}
    GroupNames = {"g"}
    AWorkers = {"w1"}
    AClis = {"c1"}
    Keys = {"k1"}
    Nonces = {0}
    TokensIssuer = "none"
    SiteDomain = "example"
    AccessTtl = 1
    RefreshTtl = 2
    Leeway = 1
    MaxAttempts = 1
    WindowSecs = 1
    ATime = 1
    MaxFails = 1
INVARIANT ALogoutRevokes
CHECK_DEADLOCK FALSE
