\* One request at a time, refreshes included, failed calls, restarts with
\* either flag.
CONSTANTS
    None = None
    Fake = Fake
    Requests = {r1, r2, r3}
    Ops = {"login", "resolve", "use", "logout", "delete", "testStore"}
    MaxInFlight = 1
    MaxAttempts = 1
    ContextTTL = 1
    MaxTime = 2
    Deployments = {TRUE, FALSE}
    PollingEnabled = FALSE
    TestPhase = TRUE
    StoreMayFail = TRUE
    Restarts = TRUE
    Outlive = FALSE
SYMMETRY Symmetry
SPECIFICATION Spec
INVARIANTS
    CodesBounded
    PendingIsBacked
PROPERTIES
    SlotSpec
    SuccessIsStored
    ReportedIsDone
    RemovedStaysRemoved
    SuccessClearsContext
    OfflineWhenDisabled
