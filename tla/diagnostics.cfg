\* Three logins, preflights and lookups of the latest attempt, interleaved,
\* with failed calls and any exception of up to two classes.
CONSTANTS
    None = None
    Requests = {r1, r2, r3}
    MaxTime = 1
    Ops = {"login", "guard", "preflight", "latest"}
    Raised <- MCRaised
    StoreMayFail = TRUE
SYMMETRY Symmetry
SPECIFICATION Spec
INVARIANTS
    TypeOK
    LatestIsCurrent
    AdviceFits
    LoginIsStricter
