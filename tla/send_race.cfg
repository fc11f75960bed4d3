\* Two sends at a time: the limit per hour.
CONSTANTS
    MaxSendsPerHour = 2
    Hour = 2
    MaxTime = 1
    Sends = {s1, s2, s3}
    MaxInFlight = 2
    CallsMayFail = FALSE
    Restarts = FALSE
SYMMETRY Symmetry
SPECIFICATION Spec
INVARIANT
    WithinLimit
