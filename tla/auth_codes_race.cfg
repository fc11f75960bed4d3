\* Two requests at a time: codes submitted per challenge.
CONSTANTS
    None = None
    Fake = Fake
    Requests = {r1, r2, r3, r4, r5}
    Ops = {"login", "resolve"}
    MaxInFlight = 2
    MaxAttempts = 2
    ContextTTL = 1
    MaxTime = 0
    Deployments = {TRUE}
    PollingEnabled = FALSE
    TestPhase = TRUE
    StoreMayFail = FALSE
    Restarts = FALSE
    Outlive = FALSE
SYMMETRY Symmetry
SPECIFICATION Spec
INVARIANT
    CodesBounded
