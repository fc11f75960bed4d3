\* A refresh in flight while the session is deleted.
CONSTANTS
    None = None
    Fake = Fake
    Requests = {r1, r2, r3}
    Ops = {"login", "use", "delete"}
    MaxInFlight = 2
    MaxAttempts = 1
    ContextTTL = 1
    MaxTime = 0
    Deployments = {TRUE}
    PollingEnabled = FALSE
    TestPhase = TRUE
    StoreMayFail = FALSE
    Restarts = FALSE
    Outlive = FALSE
SYMMETRY Symmetry
SPECIFICATION Spec
PROPERTY
    RemovedStaysRemoved
