\* Up to two sends at a time, failed calls and restarts.
CONSTANTS
    MaxSendsPerHour = 1
    Hour = 2
    MaxTime = 4
    Sends = {s1, s2, s3, s4, s5}
    MaxInFlight = 2
    CallsMayFail = TRUE
    Restarts = TRUE
SYMMETRY Symmetry
SPECIFICATION Spec
INVARIANTS
    TypeOK
    OvershootBounded
    LimitedSendsNothing
    CountsOnlyDeliveries
