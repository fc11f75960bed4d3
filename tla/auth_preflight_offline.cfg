\* The same promise with the public preflight.
CONSTANTS
    None = None
    Fake = Fake
    Requests = {r1}
    Ops = {"preflight"}
    MaxInFlight = 1
    MaxAttempts = 1
    ContextTTL = 1
    MaxTime = 1
    Deployments = {FALSE}
    PollingEnabled = FALSE
    TestPhase = TRUE
    StoreMayFail = TRUE
    Restarts = TRUE
    Outlive = FALSE
SYMMETRY Symmetry
SPECIFICATION Spec
PROPERTY
    OfflineWhenDisabled
