SPECIFICATION FairSpec
CONSTANTS
  InCap = 1
  OutCap = 1
  Bodies = 2
  Unfit <- MCUnfit
  Awaited <- MCAwaited
  MaxSends = 4
  MaxHeard = 3
  MaxBreaks = 2
CHECK_DEADLOCK FALSE
INVARIANT TypeOK
INVARIANT BodiesInOrder
PROPERTY EveryMessageSettles
PROPERTY AwaitedReturns
