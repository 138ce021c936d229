SPECIFICATION FairSpec
CONSTANTS
    Launch = {l1, l2}
    Correlations = {c1}
    NoCorrelation = NoCorrelation
    Workers = 1
INVARIANTS
    VerdictsAreTrue
    CorrelationsMatchRecords
PROPERTIES
    KeepsPromise
    WaitReturns
