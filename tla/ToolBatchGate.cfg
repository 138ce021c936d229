SPECIFICATION Spec
CONSTANTS
    N = 3
    MaxWorkers = 3
    TimeoutEnabled = FALSE
    MayInterrupt = FALSE
INVARIANTS
    AuthLockExact
    GateKeepsOrder
    PostsMatchRows
