\* Two requests, lists of two documents, a context that is tried twice.
CONSTANTS
    None = None
    Fake = Fake
    Requests = {r1, r2}
    MaxAttempts = 2
    ContextTTL = 1
    MaxTime = 1
    MaxDocuments = 2
SYMMETRY Symmetry
SPECIFICATION Spec
INVARIANTS
    TypeOK
    ListsOrdered
PROPERTIES
    ImplementsContract
