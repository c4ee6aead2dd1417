SPECIFICATION FairSpec
CONSTANTS
  InCap = 1
  OutCap = 1
  Bodies = 2
  Unfit = {3}
  MaxSends = 4
  MaxHeard = 2
  MaxBreaks = 1
INVARIANTS TypeOK OrderKept
PROPERTIES Reconnects EveryMessageLeaves
CHECK_DEADLOCK FALSE
