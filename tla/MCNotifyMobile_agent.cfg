SPECIFICATION FairSpec
CONSTANTS
  low = low
  mid = mid
  high = high
  Ids = {mid, high}
  Level <- LevelOf
  LevelAlways = 4
  LevelUnacknowledged = 2
  LevelUnseen = 2
  RecentCap = 1
  MaxNotes = 3
  MaxAcks = 1
  None = None
INVARIANTS TypeOK MapHoldsLiveWaiters Debounced AcknowledgedNotPushed
PROPERTY SentUnlessAcknowledged
CHECK_DEADLOCK FALSE
