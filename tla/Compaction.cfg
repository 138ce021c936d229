SPECIFICATION Spec
CONSTANTS
  ProtectFirst = 1
  ProtectLast = 3
  TailBudget = 2
  MinTailUsers = 1
  MaxTailFloor = 3
  ProbeExtra = 4
  Outcomes = {"ok", "abort", "fallback"}
  MaxRows = 8
  MaxUpsets = 2
INVARIANTS PairsKept NothingLost
PROPERTIES AlternationKept OnlyOpenAskRestated
CHECK_DEADLOCK FALSE
