SPECIFICATION FairSpec
CONSTANTS
    MaxTasks = 2
    Workers = 1
INVARIANTS
    AccountsAreHonest
    BoundaryEndsItsOwnSession
PROPERTIES
    NobodyWaitsForProviders
