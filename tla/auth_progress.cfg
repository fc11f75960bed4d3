\* Every request is answered.
CONSTANTS
    None = None
    Fake = Fake
    Requests = {r1, r2}
    Ops = {"login", "resolve", "use", "logout", "delete", "testStore", "preflight"}
    MaxInFlight = 2
    MaxAttempts = 1
    ContextTTL = 1
    MaxTime = 1
    Deployments = {TRUE}
    PollingEnabled = FALSE
    TestPhase = TRUE
    StoreMayFail = TRUE
    Restarts = FALSE
    Outlive = FALSE
SPECIFICATION FairSpec
PROPERTY
    Answered
