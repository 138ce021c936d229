SPECIFICATION Spec
CONSTANTS
  Window = 2
  Backoff = 1
  LadderTop = 1
  ShortPause = 1
  AbortOnFailure = FALSE
  Upsets = {"store", "clock", "row"}
  MaxUpsets = 1
INVARIANT DurableBreaker
PROPERTIES RecoveryWindow  RowHeeded
