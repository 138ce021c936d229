SPECIFICATION FairSpec
CONSTANTS
    N = 2
    MaxWorkers = 2
    TimeoutEnabled = TRUE
    MayInterrupt = FALSE
PROPERTIES
    NoLateBegin
    BatchReturns
