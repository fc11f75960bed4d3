\* Everything but refreshes, interleaved, with failed calls and restarts.
CONSTANTS
    None = None
    Fake = Fake
    Requests = {r1, r2, r3}
    Ops = {"login", "resolve", "logout", "delete", "testStore"}
    MaxInFlight = 3
    MaxAttempts = 1
    ContextTTL = 1
    MaxTime = 2
    Deployments = {TRUE}
    PollingEnabled = FALSE
    TestPhase = TRUE
    StoreMayFail = TRUE
    Restarts = TRUE
    Outlive = TRUE
SYMMETRY Symmetry
SPECIFICATION Spec
INVARIANTS
    TypeOK
    GrantsBounded
    AttemptsInv
    CodesPaid
PROPERTIES
    LiveContextsOnly
    SlotSpec
