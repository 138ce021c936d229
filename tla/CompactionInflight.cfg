SPECIFICATION Spec
CONSTANTS
  ProtectFirst = 1
  ProtectLast = 3
  TailBudget = 2
  MinTailUsers = 1
  MaxTailFloor = 3
  ProbeExtra = 4
  Outcomes = {"ok"}
  MaxRows = 9
  MaxUpsets = 0
INVARIANT OwedAskFollowsHandoff
CHECK_DEADLOCK FALSE
