\* The rate limiter alone: two sends in any window of three ticks.
CONSTANTS
    MaxSendsPerHour = 2
    Hour = 3
    MaxTime = 10
SPECIFICATION RateSpec
INVARIANTS
    RateTypeOK
    SlidingWindow
    RateInv
    RefusalDeserved
