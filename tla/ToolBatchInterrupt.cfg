SPECIFICATION Spec
CONSTANTS
    N = 2
    MaxWorkers = 2
    TimeoutEnabled = TRUE
    MayInterrupt = TRUE
INVARIANTS
    InterruptReachesWorkers
    NoEffectRowsAreTrue
