\* A round of two calls of any kind, with a deadline and a stop at any time.
SPECIFICATION FairSpec
CONSTANTS
    N = 2
    Kinds <- EveryKind
    TimeoutEnabled = TRUE
    MayInterrupt = TRUE
    MayKeyboard = TRUE
INVARIANTS RowsInOrder RowsAreTrue HooksAccounted
PROPERTIES StopReachesWorker RoundReturns
