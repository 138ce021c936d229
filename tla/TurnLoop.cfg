CONSTANTS
  r1 = r1
  r2 = r2
  x1 = x1
  MaxIterations = 2
  MaxRetries = 1
  MaxFallbacks = 1
  MaxCompressions = 1
  MaxOuterErrors = 2
  MaxTurns = 1
  MaxStops = 1
  Redirects = {r1, r2}
  Steers = {x1}
SPECIFICATION FairSpec
INVARIANTS NoStaleResponse BudgetMatchesCount OnlySavedRoundsAreSent SteersDeliveredOnce InterruptedMeansStopped
PROPERTIES RedirectsKept NoIterationAfterStop TurnEnds
