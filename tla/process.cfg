\* Every combination of settings, three requests over any number of
\* processes, failing calls, ends at any time.
CONSTANTS
    Real = Real
    Requests = {r1, r2, r3}
    Calls = {r1, r2, r3}
    AppEnvs = {"production", "test", "staging"}
    StoreMayFail = TRUE
SYMMETRY Symmetry
SPECIFICATION Spec
INVARIANTS
    TypeOK
    NeverSilentlyUnindexed
    ReasonsAgree
    OnlyPollingAborts
    SilencedAndRestored
